---- MODULE TelemetryRing ----
(***************************************************************************)
(* The telemetry ring file: one writer at a time, under the daemon's lock, *)
(* and readers that keep their mapping from one read to the next, and from *)
(* one writer to the next.                                                 *)
(*                                                                         *)
(* A file is a header and a row of cells, each as long as the shortest     *)
(* slot, so that slots of different geometries overlap as they do in the   *)
(* file.  Compression, JSON and the fields of a snapshot are left out: a   *)
(* payload is the record it encodes, spread over the cells it fills.  The  *)
(* checksum is taken to notice every payload that is not whole.  The age   *)
(* limit only turns a result into None and is left out.                    *)
(***************************************************************************)
EXTENDS Integers, Sequences

CONSTANTS
    Reader,         \* RingReader objects, the cached ones of clients included
    None,           \* no record, no geometry, an unreadable header
    Geometry,       \* the [count, size] a daemon may be started with
    MaxRun,         \* bound: daemons started one after the other
    MaxSequence,    \* bound: samples one daemon takes
    Faults          \* subset of {"crash", "skip"}

MinSlots == 2

Run == 1 .. MaxRun
Record == [run : Run, sequence : 1 .. MaxSequence, length : Nat \ {0}]
Header == [geometry : Geometry, run : Run, latest : 0 .. MaxSequence]
\* A slot as it is copied out: its header and the payload that goes with it.
Slot == [record : Record, bodies : SUBSET (Record \cup {None})]

\* What a ring is made of; _slot_parameters() refuses anything else.
ASSUME RingAssumption ==
    /\ Geometry \subseteq [count : Nat, size : Nat \ {0}]
    /\ \A g \in Geometry : g.count >= MinSlots
    /\ MaxRun \in Nat \ {0} /\ MaxSequence \in Nat
    /\ Faults \subseteq {"crash", "skip"}
    /\ None \notin Geometry \cup Header \cup Record \cup Slot

Blank == [head |-> None, body |-> None]

Size(g) == g.count * g.size

VARIABLES
    files,      \* every ring file ever published; the path names the last one
    wpc,        \* the writer's step
    run,        \* daemons started so far
    own,        \* the writer's geometry
    sequence,   \* its collector's count of samples
    record,     \* what it is publishing
    skipped,    \* the samples whose publication failed (history)
    mapped      \* of each reader: its file and the geometry it read there

writer == <<files, wpc, run, own, sequence, record, skipped>>
ringVars == <<files, wpc, run, own, sequence, record, skipped, mapped>>

Unmapped == [file |-> 0, geometry |-> None]

RingTypeOK ==
    /\ \A f \in 1 .. Len(files) :
           /\ files[f].header \in Header \cup {None}
           /\ \A i \in DOMAIN files[f].cells :
                  files[f].cells[i] \in [head : Record \cup {None}, body : Record \cup {None}]
    /\ wpc \in {"off", "start", "reset", "ready", "fill", "slot", "commit", "advance"}
    /\ run \in 0 .. MaxRun
    /\ own \in Geometry \cup {None}
    /\ sequence \in 0 .. MaxSequence
    /\ record \in Record \cup {None}
    /\ skipped \subseteq Run \X (1 .. MaxSequence)
    /\ \A r \in Reader :
           mapped[r] = Unmapped \/ mapped[r] \in [file : 1 .. Len(files), geometry : Geometry]

RingInit ==
    /\ files = <<>>
    /\ wpc = "off"
    /\ run = 0
    /\ own = None
    /\ sequence = 0
    /\ record = None
    /\ skipped = {}
    /\ mapped = [r \in Reader |-> Unmapped]

----
\* The writer.

Current == Len(files)

\* The first cell of a slot.
Offset(g, s) == ((s - 1) % g.count) * g.size + 1

\* The writer has the exclusive flock on its file.
Locked(f) == f = Current /\ wpc \in {"reset", "fill", "slot", "commit", "advance"}

\* A file of the right size is written to in place, whatever its geometry was;
\* any other is replaced by a new one, its header still all zero.
Start(g) ==
    /\ wpc = "off"
    /\ run < MaxRun
    /\ run' = run + 1
    /\ own' = g
    /\ sequence' = 0
    /\ files' = IF files # <<>> /\ Len(files[Current].cells) = Size(g) THEN files
                ELSE Append(files, [header |-> None, cells |-> [i \in 1 .. Size(g) |-> Blank]])
    /\ wpc' = "start"
    /\ UNCHANGED <<record, skipped, mapped>>

\* _write_header: pack_into clears the header before it fills it in.
ClearHeader ==
    /\ wpc \in {"start", "commit"}
    /\ files' = [files EXCEPT ![Current].header = None]
    /\ wpc' = IF wpc = "start" THEN "reset" ELSE "advance"
    /\ UNCHANGED <<run, own, sequence, record, skipped, mapped>>

WriteHeader(latest) ==
    files' = [files EXCEPT
        ![Current].header = [geometry |-> own, run |-> run, latest |-> latest]]

ResetHeader ==
    /\ wpc = "reset"
    /\ WriteHeader(0)
    /\ wpc' = "ready"
    /\ UNCHANGED <<run, own, sequence, record, skipped, mapped>>

\* publish(): the slot's header is cleared first.
Publish(length) ==
    /\ wpc = "ready"
    /\ sequence < MaxSequence
    /\ sequence' = sequence + 1
    /\ record' = [run |-> run, sequence |-> sequence', length |-> length]
    /\ files' = [files EXCEPT ![Current].cells[Offset(own, sequence')] = Blank]
    /\ wpc' = "fill"
    /\ UNCHANGED <<run, own, skipped, mapped>>

\* _fit finds no way to make the snapshot fit: the daemon goes on without it.
Skip ==
    /\ "skip" \in Faults
    /\ wpc = "ready"
    /\ sequence < MaxSequence
    /\ sequence' = sequence + 1
    /\ skipped' = skipped \cup {<<run, sequence'>>}
    /\ UNCHANGED <<files, wpc, run, own, record, mapped>>

Extent(first, length) == first .. first + length - 1

\* The payload's bytes reach the file in any order.
WritePayload ==
    /\ wpc = "fill"
    /\ \E i \in Extent(Offset(own, record.sequence), record.length) :
           /\ files[Current].cells[i].body # record
           /\ files' = [files EXCEPT ![Current].cells[i] = [head |-> None, body |-> record]]
    /\ UNCHANGED <<wpc, run, own, sequence, record, skipped, mapped>>

PayloadWritten ==
    /\ wpc = "fill"
    /\ \A i \in Extent(Offset(own, record.sequence), record.length) :
           files[Current].cells[i].body = record
    /\ wpc' = "slot"
    /\ UNCHANGED <<files, run, own, sequence, record, skipped, mapped>>

\* The header of a slot ends in a copy of its sequence: half written is as good
\* as cleared.
WriteSlot ==
    /\ wpc = "slot"
    /\ files' = [files EXCEPT ![Current].cells[Offset(own, record.sequence)].head = record]
    /\ wpc' = "commit"
    /\ UNCHANGED <<run, own, sequence, record, skipped, mapped>>

Advance ==
    /\ wpc = "advance"
    /\ WriteHeader(record.sequence)
    /\ record' = None
    /\ wpc' = "ready"
    /\ UNCHANGED <<run, own, sequence, skipped, mapped>>

\* The daemon is told to stop between two samples, or dies anywhere.
Stop ==
    /\ wpc # "off"
    /\ "crash" \in Faults \/ wpc = "ready"
    /\ wpc' = "off"
    /\ own' = None
    /\ sequence' = 0
    /\ record' = None
    /\ UNCHANGED <<files, run, skipped, mapped>>

----
\* The readers.

\* A client drops a mapping that the path no longer names and opens the path; a
\* reader for one history always opens it.  This read of the header is not
\* locked.  A mapping that the path still names is kept: there is no step.
Open(r) ==
    /\ files # <<>>
    /\ mapped' = [mapped EXCEPT ![r] =
           IF files[Current].header = None THEN Unmapped
           ELSE [file |-> Current, geometry |-> files[Current].header.geometry]]
    /\ UNCHANGED writer

\* Mutant: whatever record is in the slot will do.
CopyAnySequence(f, g, s) ==
    LET first == Offset(g, s)
        head == f.cells[first].head
    IN  IF s = 0 \/ head = None THEN None
        ELSE IF head.length > g.size THEN None
        ELSE [record |-> head, bodies |-> {f.cells[i].body : i \in Extent(first, head.length)}]

\* _copy_slot
Copy(f, g, s) ==
    LET first == Offset(g, s)
        head == f.cells[first].head
    IN  IF s = 0 \/ head = None THEN None
        ELSE IF head.sequence # s \/ head.length > g.size THEN None
        ELSE [record |-> head, bodies |-> {f.cells[i].body : i \in Extent(first, head.length)}]

\* Mutant: the checksum is not compared.
ParseUnchecked(copy) == copy

\* _parse_slot: the checksum
Parse(copy) == IF copy = None THEN None ELSE IF copy.bodies = {copy.record} THEN copy ELSE None

\* The client closes a reader that finds no header.
Unavailable(r) ==
    /\ mapped[r] # Unmapped
    /\ ~Locked(mapped[r].file)
    /\ files[mapped[r].file].header = None
    /\ mapped' = [mapped EXCEPT ![r] = Unmapped]
    /\ UNCHANGED writer

\* The shared lock keeps the writer out; the record is parsed after the unlock.
Readable(r) ==
    /\ mapped[r] # Unmapped
    /\ ~Locked(mapped[r].file)
    /\ files[mapped[r].file].header # None

\* latest(), like history() a read that changes nothing.
Latest(f, g) == Parse(Copy(f, g, f.header.latest))

\* The sequences that g.count slots have room for.
Recent(latest, g) == {s \in 1 .. latest : s > latest - g.count}

\* history(): the slots of the recent sequences, in whose order it returns them,
\* without those that cannot be read.
History(f, g) == {Parse(Copy(f, g, s)) : s \in Recent(f.header.latest, g)} \ {None}

RingNext ==
    \/ \E g \in Geometry : Start(g)
    \/ ClearHeader \/ ResetHeader \/ Advance
    \/ own # None /\ \E length \in 1 .. own.size : Publish(length)
    \/ Skip \/ WritePayload \/ PayloadWritten \/ WriteSlot \/ Stop
    \/ \E r \in Reader : Open(r) \/ Unavailable(r)

RingSpec == RingInit /\ [][RingNext]_ringVars

----
\* Properties.

\* "newest-wins": whenever the header can be read, the slot it names is whole
\* and was written by the same daemon, also while the next record is written or
\* after a writer died writing it.  It takes a whole round of samples that could
\* not be published for the next record to overwrite the one that is named.
NamedSlotIsWhole ==
    \A f \in 1 .. Len(files) :
        LET header == files[f].header
            round(h) == h.latest + 1 .. h.latest + h.geometry.count - 1
        IN  header # None /\ header.latest > 0
                /\ (\E s \in round(header) : <<header.run, s>> \notin skipped) =>
                LET copy == Latest(files[f], header.geometry)
                IN  copy # None /\ copy.record.run = header.run

\* What a reader is given now by latest() and history().
Given(r) ==
    LET file == files[mapped[r].file]
        latest == Latest(file, mapped[r].geometry)
    IN  ({latest} \ {None}) \cup History(file, mapped[r].geometry)

\* A reader is never given parts of two records, even when its idea of the
\* geometry is another than the writer's.
ReadIsWhole ==
    \A r \in Reader : Readable(r) => \A copy \in Given(r) : copy.bodies = {copy.record}

\* Both at once: every record that somebody can be given is whole.
RecordsAreWhole == NamedSlotIsWhole /\ ReadIsWhole

\* The reader has the geometry of the file's header.
Matches(r) == files[mapped[r].file].header.geometry = mapped[r].geometry

\* A history has the last records of the daemon in the header.  In the place of
\* a sample that this daemon had to skip there may be one of an older daemon, and
\* at most one is missing: a writer that dies takes the record it overwrites.
HistoryIsOneRun ==
    \A r \in Reader : Readable(r) /\ Matches(r) =>
        LET header == files[mapped[r].file].header
            recent == Recent(header.latest, header.geometry)
            skip(s) == <<header.run, s>> \in skipped
            has(s) == \E copy \in Given(r) :
                           copy.record.sequence = s /\ copy.record.run = header.run
        IN  /\ \A copy \in Given(r) : has(copy.record.sequence) \/ skip(copy.record.sequence)
            /\ \A s, t \in recent : has(s) \/ skip(s) \/ has(t) \/ skip(t) \/ s = t

====
