---- MODULE PaneRegistry ----
(***************************************************************************)
(* The pane registry of kilix-telemetry: the file in which the client      *)
(* processes tell the sampler which panes they poll, and the bookkeeping   *)
(* of TelemetryClient._register_pane() that keeps it fresh.                *)
(*                                                                         *)
(* The file is read and written under flock, so an update is one step; but *)
(* it is written in place and truncated after, so one that is cut short    *)
(* leaves bytes that are no JSON, which every reader takes for an empty    *)
(* registry.  Time passes in ticks, all equal and as short as one likes:   *)
(* each poll, write and entry has an age of its own.  An update takes none.*)
(***************************************************************************)
EXTENDS Naturals, FiniteSetsExt, Functions

CONSTANTS
    Owner,      \* client processes, ordered as the file sorts their identifiers
    Panes,      \* of each owner, the root processes of the panes it may poll
    MaxOwners,  \* MAX_OWNERS
    MaxSize,    \* MAX_REGISTRY_BYTES, counted in owners and roots
    Stale,      \* DEFAULT_STALE_SECONDS, in ticks
    Renewal     \* the age at which an unchanged set is written again, in ticks

ASSUME RegistryAssumption ==
    /\ Owner \subseteq Nat
    /\ \A o, q \in Owner : o # q => Panes[o] \cap Panes[q] = {}
    /\ MaxOwners \in Nat \ {0} /\ MaxSize \in Nat
    /\ Stale \in Nat /\ Renewal \in 1..Stale

VARIABLES
    file,       \* the entries that can be read: of each owner, age and roots
    seen,       \* _pane_roots: of each pane, ticks since its owner polled it
    registered, \* of each owner: _registered_roots
    renewed,    \* of each owner: ticks since _registered_at
    calm        \* history: ticks since an update failed or the file was crowded

registryVars == <<file, seen, registered, renewed, calm>>

Pane == UNION {Panes[o] : o \in Owner}
Forgotten == Stale + 1      \* ages beyond the limit are not told apart

RegistryTypeOK ==
    /\ DOMAIN file \subseteq Owner
    /\ \A o \in DOMAIN file : file[o].age \in 0..Forgotten /\ file[o].roots \subseteq Panes[o]
    /\ seen \in [Pane -> 0..Forgotten]
    /\ registered \in [Owner -> SUBSET Pane]
    /\ renewed \in [Owner -> 0..Renewal]
    /\ calm \in 0..Forgotten

Torn == [o \in {} |-> [age |-> 0, roots |-> {}]]

RegistryInit ==
    /\ file = Torn
    /\ seen = [p \in Pane |-> Forgotten]
    /\ registered = [o \in Owner |-> {}]
    /\ renewed = [o \in Owner |-> Renewal]
    /\ calm = 0

----
\* registry.py

\* _clean_owners(): the first entries in the file's order, without stale ones.
FirstOwners(entries) ==
    {o \in DOMAIN entries : Cardinality({q \in DOMAIN entries : q < o}) < MaxOwners}
Clean(entries) == Restrict(entries, {o \in FirstOwners(entries) : entries[o].age <= Stale})

\* roots(): what the sampler reads.
Roots == UNION {Clean(file)[o].roots : o \in DOMAIN Clean(file)}

\* update(): the file with a new entry.
Updated(o, roots) ==
    LET kept == Clean(file)
    IN  [q \in DOMAIN kept \cup {o} |->
            IF q = o THEN [age |-> 0, roots |-> roots] ELSE kept[q]]
FileSize(entries) ==
    LET room(o) == 1 + Cardinality(entries[o].roots)
    IN  MapThenSumSet(room, DOMAIN entries)
Fits(o, roots) == FileSize(Updated(o, roots)) <= MaxSize

\* A full disk: os.write() writes less than it was given, and nobody looks.
Overwrite(o, roots) ==
    \/ /\ file' = Updated(o, roots)
       /\ calm' = IF Cardinality(DOMAIN Updated(o, roots)) > MaxOwners THEN 0 ELSE calm
    \/ /\ file' = Torn
       /\ calm' = 0

----
\* client.py

\* The panes of o that were polled within the stale time.
Union(o) == {p \in Panes[o] : seen'[p] <= Stale}

\* Mutant: An unchanged set is never written again.
IsUnchanged(o) == Union(o) = registered[o]
IsCurrent(o) == Union(o) = registered[o] /\ renewed[o] < Renewal

Register(o, roots) ==
    /\ Overwrite(o, roots)
    /\ registered' = [registered EXCEPT ![o] = roots]
    /\ renewed' = [renewed EXCEPT ![o] = 0]

Unwritten == UNCHANGED <<file, registered, renewed>>

\* _register_pane()
Poll(o, p) ==
    /\ p \in Panes[o]
    /\ seen' = [seen EXCEPT ![p] = 0]
    /\ \/ IsCurrent(o) /\ Unwritten /\ UNCHANGED calm
       \/ ~IsCurrent(o) /\ Fits(o, Union(o)) /\ Register(o, Union(o))
       \* OSError, or the registry is too large: it will try again
       \/ ~IsCurrent(o) /\ Unwritten /\ calm' = 0

\* register_panes() replaces what it polls.
RegisterPanes(o, roots) ==
    /\ roots \subseteq Panes[o]
    /\ Fits(o, roots)
    /\ seen' = [p \in Pane |->
            IF p \in roots THEN 0 ELSE IF p \in Panes[o] THEN Forgotten ELSE seen[p]]
    /\ Register(o, roots)

\* The process ends.  The next one with its identifier starts with no panes.
Die(o) ==
    /\ seen' = [p \in Pane |-> IF p \in Panes[o] THEN Forgotten ELSE seen[p]]
    /\ registered' = [registered EXCEPT ![o] = {}]
    /\ renewed' = [renewed EXCEPT ![o] = Renewal]

Kill(o) ==
    /\ Die(o)
    /\ UNCHANGED <<file, calm>>

\* Killed inside update(), between os.write() and os.ftruncate(): what is left
\* is the new text and the end of a longer old one.
KillInUpdate(o) ==
    /\ Die(o)
    /\ file' = Torn
    /\ calm' = 0

\* Everything ages.
RegistryTick ==
    LET older(age, limit) == IF age < limit THEN age + 1 ELSE limit
    IN  /\ file' = [o \in DOMAIN file |-> [file[o] EXCEPT !.age = older(@, Forgotten)]]
        /\ seen' = [p \in Pane |-> older(seen[p], Forgotten)]
        /\ renewed' = [o \in Owner |-> older(renewed[o], Renewal)]
        /\ calm' = IF Cardinality(DOMAIN file) > MaxOwners THEN 0 ELSE older(calm, Forgotten)
        /\ UNCHANGED registered

RegistryNext ==
    \/ \E o \in Owner : Kill(o) \/ KillInUpdate(o)
    \/ \E o \in Owner : \E p \in Panes[o] : Poll(o, p)
    \/ \E o \in Owner : \E roots \in SUBSET Panes[o] : RegisterPanes(o, roots)
    \/ RegistryTick

RegistrySpec == RegistryInit /\ [][RegistryNext]_registryVars

----
\* A pane is among the sampler's roots until a renewal short of the stale time
\* after its last poll, whatever else its process polls, although an unchanged
\* set is not written each time.  What went wrong with the file before, a torn
\* text or a crowd, is over for the poll that comes a renewal after it, and not
\* before: until then a client may take for current what it wrote last.
PolledIsVisible ==
    \A p \in Pane :
        seen[p] + Renewal <= Stale /\ calm >= seen[p] + Renewal => p \in Roots
====
