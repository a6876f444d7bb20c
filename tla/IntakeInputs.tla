---- MODULE IntakeInputs ----
(***************************************************************************)
(* What the measurement intake reads before it writes its bundle: the      *)
(* provider's record, the artifact, the fixture and the hardware snapshot, *)
(* one after the other and each a block at a time, while their owners may  *)
(* rewrite them in place.  A read is accepted when the file's metadata is  *)
(* the same before and after it, and the record when the digests it claims *)
(* are those of the bytes that were read.                                  *)
(*                                                                         *)
(* A file has two blocks of one version each, and its digest is the pair.  *)
(* A record's first block claims the artifact and the fixture, its second  *)
(* one the hardware snapshot.  Metadata shows the tick of the last write,  *)
(* so a second write within a tick cannot be told from the first.          *)
(***************************************************************************)
EXTENDS Integers, Sequences

CONSTANTS
    MaxVersion, \* contents that are written (a bound)
    MaxTick     \* ticks of the file system's clock (a bound)

ASSUME InputsAssumption == MaxVersion \in Nat \ {0} /\ MaxTick \in Nat

VARIABLES
    blocks,     \* of each input, the versions of its two blocks
    stamp,      \* of each input, the tick of its last write
    tick,       \* the clock
    reading,    \* the input that is read, by its place in the order
    before,     \* its metadata when it was opened
    chunks,     \* its blocks that have been read
    evidence,   \* the inputs that have been read, with what was read
    outcome,    \* whether the intake goes on, is refused or has recorded
    held,       \* history: of each input, what it has been
    sameTick    \* history: an input was written and read in one tick

inputVars == <<blocks, stamp, tick, reading, before, chunks, evidence, outcome,
               held, sameTick>>

Order == <<"provider", "artifact", "fixture", "hardware">>
Input == {Order[n] : n \in 1..4}
Version == 1..MaxVersion

InputsTypeOK ==
    /\ blocks \in [Input -> Version \X Version]
    /\ stamp \in [Input -> 0..MaxTick] /\ tick \in 0..MaxTick
    /\ reading \in 1..5 /\ before \in -1..MaxTick
    /\ chunks \in UNION {[1..n -> Version] : n \in 0..2}
    /\ DOMAIN evidence = {Order[n] : n \in 1..(reading - 1)}
    /\ outcome \in {"reading", "refused", "recorded"}
    /\ sameTick \in BOOLEAN

InputsInit ==
    /\ blocks = [f \in Input |-> <<1, 1>>]
    /\ stamp = [f \in Input |-> 0] /\ tick = 0
    /\ reading = 1 /\ before = -1 /\ chunks = <<>>
    /\ evidence = [f \in {} |-> <<1, 1>>]
    /\ outcome = "reading"
    /\ held = [f \in Input |-> {<<1, 1>>}]
    /\ sameTick = FALSE

----
\* The owners write in place, one block of the next version after the other.
Rewrite(f) ==
    /\ \E b \in 1..2 :
        /\ b = 2 => blocks[f][1] > blocks[f][2]
        /\ b = 1 => blocks[f][1] = blocks[f][2]
        /\ blocks[f][b] < MaxVersion
        /\ blocks' = [blocks EXCEPT ![f][b] = @ + 1]
    /\ stamp' = [stamp EXCEPT ![f] = tick]
    /\ held' = [held EXCEPT ![f] = @ \cup {blocks'[f]}]
    /\ sameTick' = (sameTick \/ (outcome = "reading" /\ before = tick /\ f = Order[reading]))
    /\ UNCHANGED <<tick, reading, before, chunks, evidence, outcome>>

ClockTicks ==
    /\ tick < MaxTick
    /\ tick' = tick + 1
    /\ UNCHANGED <<blocks, stamp, reading, before, chunks, evidence, outcome, held, sameTick>>

----
\* _read_regular_file(): fstat, read to the end, fstat.
OpenInput ==
    /\ outcome = "reading" /\ reading <= 4 /\ before = -1
    /\ before' = stamp[Order[reading]]
    /\ UNCHANGED <<blocks, stamp, tick, reading, chunks, evidence, outcome, held, sameTick>>

ReadBlock ==
    /\ outcome = "reading" /\ before # -1 /\ Len(chunks) < 2
    /\ chunks' = Append(chunks, blocks[Order[reading]][Len(chunks) + 1])
    /\ UNCHANGED <<blocks, stamp, tick, reading, before, evidence, outcome, held, sameTick>>

\* Mutant: The metadata is not compared.
AnyState(f) == f \in Input
IsStable(f) == stamp[f] = before

WithEvidence(f) ==
    [g \in DOMAIN evidence \cup {f} |-> IF g = f THEN chunks ELSE evidence[g]]

\* Mutant: An input that changed is passed over.
CloseAnyway ==
    /\ outcome = "reading" /\ Len(chunks) = 2
    /\ before' = -1 /\ chunks' = <<>>
    /\ reading' = reading + 1
    /\ evidence' = IF IsStable(Order[reading]) THEN WithEvidence(Order[reading]) ELSE evidence
    /\ UNCHANGED <<blocks, stamp, tick, outcome, held, sameTick>>

CloseInput ==
    /\ outcome = "reading" /\ Len(chunks) = 2
    /\ before' = -1 /\ chunks' = <<>>
    /\ \/ /\ IsStable(Order[reading])
          /\ evidence' = WithEvidence(Order[reading])
          /\ reading' = reading + 1
          /\ UNCHANGED outcome
       \/ /\ ~IsStable(Order[reading])
          /\ outcome' = "refused"
          /\ UNCHANGED <<evidence, reading>>
    /\ UNCHANGED <<blocks, stamp, tick, held, sameTick>>

\* _build_outputs(): the three identities of the record match what was read.
Claimed(f) == IF f = "hardware" THEN evidence["provider"][2] ELSE evidence["provider"][1]
IdentitiesMatch == \A f \in Input \ {"provider"} : evidence[f] = <<Claimed(f), Claimed(f)>>

BuildOutputs ==
    /\ outcome = "reading" /\ reading = 5
    /\ outcome' = IF IdentitiesMatch THEN "recorded" ELSE "refused"
    /\ UNCHANGED <<blocks, stamp, tick, reading, before, chunks, evidence, held, sameTick>>

\* A document is refused for what it says, which is not modelled.
RefuseDocument ==
    /\ outcome = "reading" /\ reading = 5
    /\ outcome' = "refused"
    /\ UNCHANGED <<blocks, stamp, tick, reading, before, chunks, evidence, held, sameTick>>

InputsNext ==
    \/ \E f \in Input : Rewrite(f)
    \/ ClockTicks \/ OpenInput \/ ReadBlock \/ CloseInput
    \/ RefuseDocument \/ BuildOutputs

InputsSpec == InputsInit /\ [][InputsNext]_inputVars

----
\* Each digest that an intake records is that of bytes its file held at one
\* moment: of the record itself, which nothing is compared with, because its
\* metadata did not change, and of the others because the record names them.
RecordedWasHeld ==
    outcome = "recorded" /\ ~sameTick => \A f \in Input : evidence[f] \in held[f]
====
