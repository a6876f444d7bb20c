---- MODULE TelemetryDataProofs ----
(***************************************************************************)
(* Theorems about what telemetry samples and where it puts the samples:    *)
(* SensorScan for any number of sensors and any rescan interval,           *)
(* PaneRegistry for any number of client processes and panes, PaneTicks    *)
(* for any process table and any panes (what is charged to one, against    *)
(* what its tree of processes has used), and TelemetryRing for every set   *)
(* of geometries and readers and any number of daemons.                    *)
(***************************************************************************)
EXTENDS MCTelemetryData, SumLemmas


----
\* SensorScan.

\* The types, with the age of a lookup that has been made.
SensorShape == SensorTypeOK /\ found >= 1

\* Since a refresh at which nothing changed any more, what it noticed is so.
MissingIsKnown ==
    steady >= 1 => (missing <=> \E p \in Path : sources[p] # Nothing /\ present[p] = Nothing)

\* And so is what it showed: nothing, or the device under the name it was found by.
ShownIsRead ==
    steady >= 1 => \A p \in Path :
        shown[p] = NotShown \/ (shown[p].label = sources[p] /\ shown[p].device = present[p])

\* A removed sensor is looked up at the second refresh at the latest.
RemovedIsDropped == steady >= 2 => ~missing

\* A lookup since the last change has found what is there.
LookupIsCurrent == found <= steady => sources = present

SensorInv ==
    SensorShape /\ MissingIsKnown /\ ShownIsRead /\ RemovedIsDropped /\ LookupIsCurrent

LEMMA SensorInitInv == SensorInit => SensorInv
<1> SUFFICES ASSUME SensorInit PROVE SensorInv
  OBVIOUS
<1>1. found = Rescan /\ Rescan \in Nat /\ Rescan >= 1 /\ steady = 0
  BY SensorAssumption DEF SensorInit, Never
<1>2. NotShown \in [label : Device \cup {Nothing}, device : Device \cup {Nothing}]
  BY DEF NotShown
<1>3. SensorShape
  <2>1. /\ sources = [p \in Path |-> Nothing] /\ shown = [p \in Path |-> NotShown]
        /\ present \in [Path -> Device \cup {Nothing}] /\ missing = FALSE
    BY DEF SensorInit
  <2>2. /\ sources \in [Path -> Device \cup {Nothing}]
        /\ shown \in [Path -> [label : Device \cup {Nothing}, device : Device \cup {Nothing}]]
    BY <1>2, <2>1
  <2>3. found \in 0..Rescan /\ found >= 1 /\ steady \in 0..(Rescan + 1)
    BY <1>1
  <2>4. QED
    BY <2>1, <2>2, <2>3 DEF SensorShape, SensorTypeOK
<1>4. QED
  BY <1>1, <1>3 DEF SensorInv, MissingIsKnown, ShownIsRead, RemovedIsDropped, LookupIsCurrent

\* A refresh that has nothing to look up keeps a lookup that is current, and one
\* that looks up makes it so.
LEMMA RefreshStep ==
    ASSUME SensorInv, NEW odd \in SUBSET Path, Refresh(odd)
    PROVE  SensorInv'
<1>1. /\ sources' = Lookup /\ present' = present
      /\ found' = (IF Due THEN 1 ELSE found + 1)
      /\ steady' = (IF steady <= Rescan THEN steady + 1 ELSE steady)
      /\ missing' = Missed
  BY DEF Refresh
<1>2. /\ Rescan \in Nat /\ Rescan >= 1 /\ found \in 1..Rescan /\ steady \in 0..(Rescan + 1)
      /\ present \in [Path -> Device \cup {Nothing}]
      /\ sources \in [Path -> Device \cup {Nothing}]
  BY SensorAssumption DEF SensorInv, SensorShape, SensorTypeOK
<1>3. Lookup \in [Path -> Device \cup {Nothing}]
  BY <1>2 DEF Lookup
<1>4. found' \in 1..Rescan /\ steady' \in 1..(Rescan + 1)
  BY <1>1, <1>2 DEF Due
<1>5. \A p \in Path : shown'[p] = NotShown
                      \/ (shown'[p].label = Lookup[p] /\ shown'[p].device = present[p])
  BY DEF Refresh
<1>6. SensorShape'
  <2>1. \A p \in Path : [label |-> Lookup[p], device |-> present[p]]
            \in [label : Device \cup {Nothing}, device : Device \cup {Nothing}]
    BY <1>2, <1>3
  <2>2. NotShown \in [label : Device \cup {Nothing}, device : Device \cup {Nothing}]
    BY DEF NotShown
  <2>3. shown' \in [Path -> [label : Device \cup {Nothing}, device : Device \cup {Nothing}]]
    BY <2>1, <2>2 DEF Refresh
  <2>4. QED
    BY <1>1, <1>2, <1>3, <1>4, <2>3 DEF SensorShape, SensorTypeOK, Missed
<1>7. MissingIsKnown'
  BY <1>1 DEF MissingIsKnown, Missed
<1>8. ShownIsRead'
  BY <1>1, <1>5 DEF ShownIsRead, NotShown
<1>9. RemovedIsDropped'
  <2> SUFFICES ASSUME steady' >= 2 PROVE ~Missed
    BY <1>1 DEF RemovedIsDropped
  <2>1. steady >= 1
    BY <1>1, <1>2
  <2>2. CASE Due
    BY <2>2 DEF Missed, Lookup
  <2>3. CASE ~Due
    BY <2>1, <2>3 DEF Missed, Lookup, Due, SensorInv, MissingIsKnown
  <2>4. QED
    BY <2>2, <2>3
<1>10. LookupIsCurrent'
  <2>1. CASE Due
    BY <1>1, <2>1 DEF LookupIsCurrent, Lookup
  <2>2. CASE ~Due
    <3>1. found' <= steady' => found <= steady
      BY <1>1, <1>2, <2>2
    <3>2. QED
      BY <1>1, <2>2, <3>1 DEF LookupIsCurrent, Lookup, SensorInv
  <2>3. QED
    BY <2>1, <2>2
<1>11. QED
  BY <1>6, <1>7, <1>8, <1>9, <1>10 DEF SensorInv

LEMMA SensorInvStep ==
    ASSUME SensorInv, [SensorNext]_sensorVars
    PROVE  SensorInv'
<1>1. ASSUME NEW p \in Path, NEW d \in Device \cup {Nothing}, Change(p, d) PROVE SensorInv'
  <2>1. steady' = 0 /\ UNCHANGED <<sources, found, missing, shown>>
    BY <1>1 DEF Change
  <2>2. present' \in [Path -> Device \cup {Nothing}]
    BY <1>1 DEF Change, SensorInv, SensorShape, SensorTypeOK
  <2>3. SensorShape'
    BY SensorAssumption, <2>1, <2>2 DEF SensorInv, SensorShape, SensorTypeOK
  <2>4. found \in Nat /\ found >= 1
    BY SensorAssumption DEF SensorInv, SensorShape, SensorTypeOK
  <2>5. QED
    BY <2>1, <2>3, <2>4 DEF SensorInv, MissingIsKnown, ShownIsRead, RemovedIsDropped,
       LookupIsCurrent
<1>2. ASSUME UNCHANGED sensorVars PROVE SensorInv'
  BY <1>2 DEF sensorVars, SensorInv, SensorShape, SensorTypeOK, MissingIsKnown, ShownIsRead,
     RemovedIsDropped, LookupIsCurrent, NotShown
<1>3. QED
  BY <1>1, <1>2, RefreshStep DEF SensorNext

THEOREM SensorInvariant == SensorSpec => []SensorInv
BY SensorInitInv, SensorInvStep, PTL DEF SensorSpec

\* The types of the sensor topology.
THEOREM SensorTypes == SensorSpec => []SensorTypeOK
<1>1. SensorInv => SensorTypeOK
  BY DEF SensorInv, SensorShape
<1> QED
  BY <1>1, SensorInvariant, PTL

\* A removed sensor is gone from the sources at the second refresh after it went,
\* and within the rescan interval every sensor is known under its own name.
THEOREM SensorsSettleAlways == SensorSpec => []SensorsSettle
<1>1. SensorInv => SensorsSettle
  <2> SUFFICES ASSUME SensorInv PROVE SensorsSettle
    OBVIOUS
  <2>1. /\ Rescan \in Nat /\ Rescan >= 1 /\ found \in 1..Rescan /\ steady \in 0..(Rescan + 1)
    BY SensorAssumption DEF SensorInv, SensorShape, SensorTypeOK
  <2>2. ASSUME steady >= 2
        PROVE  ~missing /\ \A p \in Path : sources[p] # Nothing => present[p] # Nothing
    BY <2>1, <2>2 DEF SensorInv, MissingIsKnown, RemovedIsDropped
  <2>3. ASSUME steady > Rescan
        PROVE  sources = present /\ \A p \in Path : shown[p].label = shown[p].device
    <3>1. sources = present /\ steady >= 1
      BY <2>1, <2>3 DEF SensorInv, LookupIsCurrent
    <3>2. QED
      BY <3>1 DEF SensorInv, ShownIsRead, NotShown
  <2>4. QED
    BY <2>2, <2>3 DEF SensorsSettle
<1>2. QED
  BY <1>1, SensorInvariant, PTL

----
\* PaneRegistry.

\* An entry.
Entry(o) == [age : 0..Forgotten, roots : SUBSET Panes[o]]

\* The file has finitely many entries, and a calm one has no more than are read.
FileShape ==
    /\ RegistryTypeOK
    /\ IsFiniteSet(DOMAIN file)
    /\ \A o \in DOMAIN file : file[o] \in Entry(o)
    /\ calm >= 1 => Cardinality(DOMAIN file) <= MaxOwners

\* What a process takes for current is in the file as it wrote it, if it was written
\* since the last damage.
WrittenIsThere ==
    \A o \in Owner : renewed[o] < Renewal /\ renewed[o] < calm =>
        /\ o \in DOMAIN file
        /\ file[o].age = renewed[o] /\ file[o].roots = registered[o]

\* A pane that was polled a renewal or more after the damage is in its owner's entry,
\* which was written less than a renewal before that poll.
PolledIsWritten ==
    \A o \in Owner : \A p \in Panes[o] :
        seen[p] + Renewal <= Stale /\ calm >= seen[p] + Renewal =>
            /\ p \in registered[o] /\ o \in DOMAIN file
            /\ file[o].roots = registered[o] /\ file[o].age < seen[p] + Renewal

RegistryInv == FileShape /\ WrittenIsThere /\ PolledIsWritten

\* All entries of a file that is not crowded are read.
LEMMA AllAreRead ==
    ASSUME NEW entries, DOMAIN entries \subseteq Nat, IsFiniteSet(DOMAIN entries),
           Cardinality(DOMAIN entries) <= MaxOwners
    PROVE  FirstOwners(entries) = DOMAIN entries
<1> DEFINE all == DOMAIN entries
<1> SUFFICES ASSUME NEW o \in all
             PROVE  Cardinality({q \in all : q < o}) < MaxOwners
  BY DEF FirstOwners
<1>1. {q \in all : q < o} \subseteq all \ {o}
  OBVIOUS
<1>2. IsFiniteSet(all \ {o}) /\ Cardinality(all \ {o}) = Cardinality(all) - 1
  BY FS_RemoveElement
<1>3. Cardinality({q \in all : q < o}) <= Cardinality(all \ {o})
  BY <1>1, <1>2, FS_Subset
<1>4. IsFiniteSet({q \in all : q < o})
  BY <1>1, <1>2, FS_Subset
<1>5. Cardinality({q \in all : q < o}) \in Nat /\ Cardinality(all) \in Nat
  BY <1>4, FS_CardinalityType
<1>6. MaxOwners \in Nat
  BY RegistryAssumption
<1>7. QED
  BY <1>2, <1>3, <1>5, <1>6

\* So are all entries of a calm file, and an update keeps those that are not stale.
LEMMA UpdateKeeps ==
    ASSUME RegistryInv, NEW o \in Owner, NEW roots \in SUBSET Panes[o]
    PROVE  /\ o \in DOMAIN Updated(o, roots)
           /\ Updated(o, roots)[o].age = 0 /\ Updated(o, roots)[o].roots = roots
           /\ calm >= 1 => \A q \in DOMAIN file \ {o} : file[q].age <= Stale =>
                 q \in DOMAIN Updated(o, roots) /\ Updated(o, roots)[q] = file[q]
<1> DEFINE kept == Clean(file)
<1>1. calm >= 1 => FirstOwners(file) = DOMAIN file
  BY AllAreRead, RegistryAssumption DEF RegistryInv, FileShape, RegistryTypeOK
<1>2. calm >= 1 => DOMAIN kept = {q \in DOMAIN file : file[q].age <= Stale}
  BY <1>1 DEF Clean, Restrict
<1>3. \A q \in DOMAIN kept : kept[q] = file[q]
  BY DEF Clean, Restrict
<1>4. Updated(o, roots) = [q \in DOMAIN kept \cup {o} |->
                            IF q = o THEN [age |-> 0, roots |-> roots] ELSE kept[q]]
  BY DEF Updated
<1> HIDE DEF kept
<1>5. QED
  BY <1>2, <1>3, <1>4

\* Every update leaves a file of the right shape.
LEMMA UpdateShape ==
    ASSUME FileShape, NEW o \in Owner, NEW roots \in SUBSET Panes[o]
    PROVE  LET new == Updated(o, roots)
           IN  /\ DOMAIN new \subseteq Owner /\ IsFiniteSet(DOMAIN new)
               /\ \A q \in DOMAIN new : new[q] \in Entry(q)
<1> DEFINE kept == Clean(file)
           new == Updated(o, roots)
<1>1. DOMAIN kept \subseteq DOMAIN file
  BY DEF Clean, Restrict, FirstOwners
<1>2. \A q \in DOMAIN kept : kept[q] = file[q]
  BY DEF Clean, Restrict
<1>3. new = [q \in DOMAIN kept \cup {o} |->
                IF q = o THEN [age |-> 0, roots |-> roots] ELSE kept[q]]
  BY DEF Updated
<1> HIDE DEF kept, new
<1>4. DOMAIN new \subseteq DOMAIN file \cup {o}
  BY <1>1, <1>3
<1>5. IsFiniteSet(DOMAIN file \cup {o})
  BY FS_AddElement DEF FileShape
<1>6. IsFiniteSet(DOMAIN new)
  BY <1>4, <1>5, FS_Subset
<1>7. 0 \in 0..Forgotten
  BY RegistryAssumption DEF Forgotten
<1>8. ASSUME NEW q \in DOMAIN new PROVE new[q] \in Entry(q)
  <2>1. CASE q = o
    BY <1>3, <1>7, <2>1 DEF Entry
  <2>2. CASE q # o
    BY <1>1, <1>2, <1>3, <2>2 DEF FileShape
  <2>3. QED
    BY <2>1, <2>2
<1>9. QED
  BY <1>4, <1>6, <1>8 DEF FileShape, RegistryTypeOK, new

\* A file that was torn has no entries, and is not calm.
LEMMA TornShape == DOMAIN Torn = {} /\ IsFiniteSet(DOMAIN Torn)
BY FS_EmptySet DEF Torn

\* No pane is of two owners.
LEMMA PanesAreApart ==
    ASSUME NEW o \in Owner, NEW q \in Owner, o # q, NEW p \in Panes[o]
    PROVE  p \notin Panes[q]
BY RegistryAssumption

\* The types that the steps below are about.
LEMMA RegistryFacts ==
    ASSUME FileShape
    PROVE  /\ seen \in [Pane -> 0..Forgotten] /\ registered \in [Owner -> SUBSET Pane]
           /\ renewed \in [Owner -> 0..Renewal] /\ calm \in 0..Forgotten
           /\ Stale \in Nat /\ Renewal \in 1..Stale /\ Forgotten = Stale + 1
           /\ \A o \in Owner : Panes[o] \subseteq Pane
           /\ \A o \in DOMAIN file : file[o].age \in 0..Forgotten
BY RegistryAssumption DEF FileShape, RegistryTypeOK, Forgotten, Pane

\* A step that leaves the registry torn or uncertain starts the calm anew, and the
\* invariant promises nothing of what was written before.
LEMMA Damaged ==
    ASSUME FileShape', calm' = 0, Renewal \in 1..Stale, Stale \in Nat
    PROVE  RegistryInv'
<1>1. /\ renewed' \in [Owner -> 0..Renewal] /\ seen' \in [Pane -> 0..Forgotten]
      /\ Forgotten \in Nat /\ \A o \in Owner : Panes[o] \subseteq Pane
  BY RegistryAssumption DEF FileShape, RegistryTypeOK, Forgotten, Pane
<1>2. WrittenIsThere'
  BY <1>1 DEF WrittenIsThere
<1>3. PolledIsWritten'
  BY <1>1 DEF PolledIsWritten
<1>4. QED
  BY <1>2, <1>3 DEF RegistryInv

\* _register_pane() and register_panes() write what is polled now, unless the
\* file is lost.
LEMMA RegisterStep ==
    ASSUME RegistryInv, NEW o \in Owner, NEW roots \in SUBSET Panes[o],
           Register(o, roots), seen' \in [Pane -> 0..Forgotten],
           \A p \in Panes[o] : seen'[p] <= Stale => p \in roots,
           \A q \in Owner \ {o} : \A p \in Panes[q] : seen'[p] = seen[p]
    PROVE  RegistryInv'
<1>1. /\ registered' = [registered EXCEPT ![o] = roots]
      /\ renewed' = [renewed EXCEPT ![o] = 0]
      /\ Overwrite(o, roots)
  BY DEF Register
<1>2. /\ registered \in [Owner -> SUBSET Pane] /\ renewed \in [Owner -> 0..Renewal]
      /\ calm \in 0..Forgotten /\ Stale \in Nat /\ Renewal \in 1..Stale /\ FileShape
      /\ Forgotten = Stale + 1 /\ \A q \in Owner : Panes[q] \subseteq Pane
      /\ \A q \in DOMAIN file : file[q].age \in 0..Forgotten
  BY RegistryFacts DEF RegistryInv
<1>3. registered' \in [Owner -> SUBSET Pane] /\ renewed' \in [Owner -> 0..Renewal]
  BY <1>1, <1>2
<1>4. /\ registered'[o] = roots /\ renewed'[o] = 0
      /\ \A q \in Owner \ {o} : registered'[q] = registered[q] /\ renewed'[q] = renewed[q]
  BY <1>1, <1>2
<1>5. CASE file' = Torn /\ calm' = 0
  <2>1. RegistryTypeOK'
    BY <1>2, <1>3, <1>5, TornShape DEF RegistryTypeOK
  <2>2. FileShape'
    BY <1>5, <2>1, TornShape DEF FileShape
  <2>3. QED
    BY <1>2, <1>5, <2>2, Damaged
<1>6. CASE /\ file' = Updated(o, roots)
           /\ calm' = IF Cardinality(DOMAIN Updated(o, roots)) > MaxOwners THEN 0 ELSE calm
  <2>1. /\ DOMAIN file' \subseteq Owner /\ IsFiniteSet(DOMAIN file')
        /\ \A q \in DOMAIN file' : file'[q] \in Entry(q)
    BY <1>2, <1>6, UpdateShape
  <2>2. /\ calm' \in 0..Forgotten
        /\ calm' >= 1 => calm' = calm /\ ~(Cardinality(DOMAIN file') > MaxOwners)
    BY <1>2, <1>6
  <2>3. FileShape'
    <3>1. RegistryTypeOK'
      BY <1>3, <2>1, <2>2 DEF RegistryTypeOK, Entry
    <3>2. Cardinality(DOMAIN file') \in Nat /\ MaxOwners \in Nat
      BY <2>1, FS_CardinalityType, RegistryAssumption
    <3>3. QED
      BY <2>1, <2>2, <3>1, <3>2 DEF FileShape
  <2>4. o \in DOMAIN file' /\ file'[o].age = 0 /\ file'[o].roots = roots
    BY <1>6, UpdateKeeps
  <2>5. ASSUME calm' >= 1, NEW q \in DOMAIN file \ {o}, file[q].age <= Stale
        PROVE  q \in DOMAIN file' /\ file'[q] = file[q]
    BY <1>6, <2>2, <2>5, UpdateKeeps
  <2>6. WrittenIsThere'
    <3> SUFFICES ASSUME NEW q \in Owner, renewed'[q] < Renewal, renewed'[q] < calm'
                 PROVE  /\ q \in DOMAIN file'
                        /\ file'[q].age = renewed'[q] /\ file'[q].roots = registered'[q]
      BY DEF WrittenIsThere
    <3>1. calm' >= 1 /\ calm' = calm
      BY <1>3, <2>2
    <3>2. CASE q = o
      BY <1>4, <2>4, <3>2
    <3>3. CASE q # o
      <4>1. renewed[q] < Renewal /\ renewed[q] < calm
        BY <1>4, <3>1, <3>3
      <4>2. q \in DOMAIN file /\ file[q].age = renewed[q] /\ file[q].roots = registered[q]
        BY <4>1 DEF RegistryInv, WrittenIsThere
      <4>3. file[q].age <= Stale
        BY <1>2, <4>1, <4>2
      <4>4. QED
        BY <1>4, <2>5, <3>1, <3>3, <4>2, <4>3
    <3>4. QED
      BY <3>2, <3>3
  <2>7. PolledIsWritten'
    <3> SUFFICES ASSUME NEW q \in Owner, NEW p \in Panes[q],
                        seen'[p] + Renewal <= Stale, calm' >= seen'[p] + Renewal
                 PROVE  /\ p \in registered'[q] /\ q \in DOMAIN file'
                        /\ file'[q].roots = registered'[q]
                        /\ file'[q].age < seen'[p] + Renewal
      BY DEF PolledIsWritten
    <3>1. seen'[p] \in Nat /\ p \in Pane
      BY <1>2
    <3>2. calm' >= 1 /\ calm' = calm
      BY <1>2, <2>2, <3>1
    <3>3. CASE q = o
      <4>1. seen'[p] <= Stale /\ 0 < seen'[p] + Renewal
        BY <1>2, <3>1
      <4>2. QED
        BY <1>4, <2>4, <3>3, <4>1
    <3>4. CASE q # o
      <4>1. seen'[p] = seen[p]
        BY <3>4
      <4>2. /\ p \in registered[q] /\ q \in DOMAIN file
            /\ file[q].roots = registered[q] /\ file[q].age < seen[p] + Renewal
        BY <3>2, <4>1 DEF RegistryInv, PolledIsWritten
      <4>3. file[q].age <= Stale
        BY <1>2, <3>1, <4>1, <4>2
      <4>4. QED
        BY <1>4, <2>5, <3>2, <3>4, <4>1, <4>2, <4>3
    <3>5. QED
      BY <3>3, <3>4
  <2>8. QED
    BY <2>3, <2>6, <2>7 DEF RegistryInv
<1>7. QED
  BY <1>1, <1>5, <1>6 DEF Overwrite

\* A process that ends forgets its panes, and what it wrote is of the past.
LEMMA DieStep ==
    ASSUME FileShape, NEW o \in Owner, Die(o)
    PROVE  /\ seen' \in [Pane -> 0..Forgotten] /\ registered' \in [Owner -> SUBSET Pane]
           /\ renewed' \in [Owner -> 0..Renewal] /\ renewed'[o] = Renewal
           /\ \A p \in Panes[o] : seen'[p] = Forgotten
           /\ \A q \in Owner \ {o} : /\ registered'[q] = registered[q]
                                     /\ renewed'[q] = renewed[q]
                                     /\ \A p \in Panes[q] : seen'[p] = seen[p]
<1>1. /\ seen' = [p \in Pane |-> IF p \in Panes[o] THEN Forgotten ELSE seen[p]]
      /\ registered' = [registered EXCEPT ![o] = {}]
      /\ renewed' = [renewed EXCEPT ![o] = Renewal]
  BY DEF Die
<1>2. /\ seen \in [Pane -> 0..Forgotten] /\ registered \in [Owner -> SUBSET Pane]
      /\ renewed \in [Owner -> 0..Renewal] /\ Stale \in Nat /\ Renewal \in 1..Stale
      /\ Forgotten = Stale + 1 /\ \A q \in Owner : Panes[q] \subseteq Pane
  BY RegistryFacts
<1>3. Forgotten \in 0..Forgotten /\ Renewal \in 0..Renewal
  BY <1>2
<1>4. \A q \in Owner \ {o} : \A p \in Panes[q] : p \notin Panes[o]
  BY PanesAreApart
<1>5. seen' \in [Pane -> 0..Forgotten]
  BY <1>1, <1>2, <1>3
<1>6. QED
  BY <1>1, <1>2, <1>3, <1>4, <1>5

----
\* A death that leaves the file alone.
LEMMA KillStep ==
    ASSUME RegistryInv, NEW o \in Owner, Kill(o)
    PROVE  RegistryInv'
<1>1. Die(o) /\ UNCHANGED <<file, calm>> /\ FileShape
  BY DEF Kill, RegistryInv
<1>2. /\ calm \in 0..Forgotten /\ Stale \in Nat /\ Renewal \in 1..Stale
      /\ Forgotten = Stale + 1
  BY <1>1, RegistryFacts
<1>3. FileShape'
  BY <1>1, DieStep DEF FileShape, RegistryTypeOK
<1>4. WrittenIsThere'
  <2> SUFFICES ASSUME NEW q \in Owner, renewed'[q] < Renewal, renewed'[q] < calm'
               PROVE  /\ q \in DOMAIN file'
                      /\ file'[q].age = renewed'[q] /\ file'[q].roots = registered'[q]
    BY DEF WrittenIsThere
  <2>1. q # o
    BY <1>1, <1>2, DieStep
  <2>2. registered'[q] = registered[q] /\ renewed'[q] = renewed[q]
    BY <1>1, <2>1, DieStep
  <2>3. QED
    BY <1>1, <2>2 DEF RegistryInv, WrittenIsThere
<1>5. PolledIsWritten'
  <2> SUFFICES ASSUME NEW q \in Owner, NEW p \in Panes[q],
                      seen'[p] + Renewal <= Stale, calm' >= seen'[p] + Renewal
               PROVE  /\ p \in registered'[q] /\ q \in DOMAIN file'
                      /\ file'[q].roots = registered'[q]
                      /\ file'[q].age < seen'[p] + Renewal
    BY DEF PolledIsWritten
  <2>1. q # o
    BY <1>1, <1>2, DieStep
  <2>2. registered'[q] = registered[q] /\ seen'[p] = seen[p]
    BY <1>1, <2>1, DieStep
  <2>3. QED
    BY <1>1, <2>2 DEF RegistryInv, PolledIsWritten
<1>6. QED
  BY <1>3, <1>4, <1>5 DEF RegistryInv

\* A poll that leaves the file alone because the set is current.
LEMMA CurrentStep ==
    ASSUME RegistryInv, NEW o \in Owner, NEW p \in Panes[o],
           seen' = [seen EXCEPT ![p] = 0], IsCurrent(o),
           UNCHANGED <<file, registered, renewed, calm>>
    PROVE  RegistryInv'
<1>1. /\ seen \in [Pane -> 0..Forgotten] /\ renewed \in [Owner -> 0..Renewal]
      /\ calm \in 0..Forgotten /\ Stale \in Nat /\ Renewal \in 1..Stale
      /\ Forgotten = Stale + 1 /\ \A q \in Owner : Panes[q] \subseteq Pane /\ FileShape
  BY RegistryFacts DEF RegistryInv
<1>2. /\ p \in Pane /\ seen' \in [Pane -> 0..Forgotten] /\ seen'[p] = 0
      /\ \A r \in Pane \ {p} : seen'[r] = seen[r]
  BY <1>1
<1>3. FileShape'
  BY <1>1, <1>2 DEF FileShape, RegistryTypeOK
<1>4. WrittenIsThere'
  BY DEF RegistryInv, WrittenIsThere
<1>5. p \in registered[o] /\ renewed[o] < Renewal
  BY <1>1, <1>2 DEF IsCurrent, Union
<1>6. PolledIsWritten'
  <2> SUFFICES ASSUME NEW q \in Owner, NEW r \in Panes[q],
                      seen'[r] + Renewal <= Stale, calm >= seen'[r] + Renewal
               PROVE  /\ r \in registered[q] /\ q \in DOMAIN file
                      /\ file[q].roots = registered[q] /\ file[q].age < seen'[r] + Renewal
    BY DEF PolledIsWritten
  <2>1. CASE r = p
    <3>1. q = o
      BY <2>1, PanesAreApart
    <3>2. renewed[o] < calm
      BY <1>1, <1>2, <1>5, <2>1
    <3>3. o \in DOMAIN file /\ file[o].age = renewed[o] /\ file[o].roots = registered[o]
      BY <1>5, <3>2 DEF RegistryInv, WrittenIsThere
    <3>4. QED
      BY <1>1, <1>2, <1>5, <2>1, <3>1, <3>3
  <2>2. CASE r # p
    <3>1. seen'[r] = seen[r]
      BY <1>1, <1>2, <2>2
    <3>2. QED
      BY <3>1 DEF RegistryInv, PolledIsWritten
  <2>3. QED
    BY <2>1, <2>2
<1>7. QED
  BY <1>3, <1>4, <1>6 DEF RegistryInv

\* Everything ages alike, up to where ages are told apart no more.
LEMMA TickStep ==
    ASSUME RegistryInv, RegistryTick
    PROVE  RegistryInv'
<1> DEFINE older(age, limit) == IF age < limit THEN age + 1 ELSE limit
<1>1. /\ file' = [o \in DOMAIN file |-> [file[o] EXCEPT !.age = older(@, Forgotten)]]
      /\ seen' = [p \in Pane |-> older(seen[p], Forgotten)]
      /\ renewed' = [o \in Owner |-> older(renewed[o], Renewal)]
      /\ calm' = IF Cardinality(DOMAIN file) > MaxOwners THEN 0 ELSE older(calm, Forgotten)
      /\ UNCHANGED registered
  BY DEF RegistryTick
<1>2. /\ seen \in [Pane -> 0..Forgotten] /\ registered \in [Owner -> SUBSET Pane]
      /\ renewed \in [Owner -> 0..Renewal] /\ calm \in 0..Forgotten
      /\ Stale \in Nat /\ Renewal \in 1..Stale /\ Forgotten = Stale + 1
      /\ \A o \in Owner : Panes[o] \subseteq Pane
      /\ \A o \in DOMAIN file : file[o].age \in 0..Forgotten
      /\ FileShape
  BY RegistryFacts DEF RegistryInv
<1>3. /\ seen' \in [Pane -> 0..Forgotten] /\ renewed' \in [Owner -> 0..Renewal]
      /\ calm' \in 0..Forgotten
  BY <1>1, <1>2
<1>4. \A p \in Pane : seen'[p] = older(seen[p], Forgotten)
  BY <1>1
<1>5. \A o \in Owner : renewed'[o] = older(renewed[o], Renewal)
  BY <1>1
<1>6. /\ DOMAIN file' = DOMAIN file
      /\ \A o \in DOMAIN file :
            /\ file'[o] \in Entry(o)
            /\ file'[o].roots = file[o].roots /\ file'[o].age = older(file[o].age, Forgotten)
  <2> SUFFICES ASSUME NEW o \in DOMAIN file
               PROVE  /\ file'[o] \in Entry(o) /\ file'[o].roots = file[o].roots
                      /\ file'[o].age = older(file[o].age, Forgotten)
    BY <1>1
  <2>1. file[o] \in Entry(o)
    BY <1>2 DEF FileShape
  <2>2. older(file[o].age, Forgotten) \in 0..Forgotten
    BY <1>2
  <2>3. file'[o] = [file[o] EXCEPT !.age = older(file[o].age, Forgotten)]
    BY <1>1
  <2> HIDE DEF older
  <2>4. QED
    BY <2>1, <2>2, <2>3 DEF Entry
<1>7. FileShape'
  <2>1. RegistryTypeOK'
    BY <1>1, <1>2, <1>3, <1>6 DEF FileShape, RegistryTypeOK, Entry
  <2>2. Cardinality(DOMAIN file) \in Nat /\ MaxOwners \in Nat
    BY <1>2, FS_CardinalityType, RegistryAssumption DEF FileShape
  <2>3. calm' >= 1 => ~(Cardinality(DOMAIN file) > MaxOwners)
    BY <1>1
  <2>4. Cardinality(DOMAIN file') = Cardinality(DOMAIN file)
    BY <1>6
  <2>5. IsFiniteSet(DOMAIN file') /\ \A o \in DOMAIN file' : file'[o] \in Entry(o)
    BY <1>2, <1>6 DEF FileShape
  <2>6. QED
    BY <2>1, <2>2, <2>3, <2>4, <2>5 DEF FileShape
<1>8. WrittenIsThere'
  <2> SUFFICES ASSUME NEW o \in Owner, renewed'[o] < Renewal, renewed'[o] < calm'
               PROVE  /\ o \in DOMAIN file'
                      /\ file'[o].age = renewed'[o] /\ file'[o].roots = registered'[o]
    BY DEF WrittenIsThere
  <2>1. /\ renewed[o] < Renewal /\ renewed[o] < calm /\ renewed[o] < Forgotten
        /\ renewed'[o] = renewed[o] + 1
    <3>1. renewed'[o] = renewed[o] + 1 /\ renewed[o] \in Nat /\ renewed[o] < Renewal
      BY <1>2, <1>5
    <3>2. calm' <= calm + 1
      BY <1>1, <1>2
    <3>3. QED
      BY <1>2, <1>3, <3>1, <3>2
  <2>2. o \in DOMAIN file /\ file[o].age = renewed[o] /\ file[o].roots = registered[o]
    BY <2>1 DEF RegistryInv, WrittenIsThere
  <2>3. QED
    BY <1>1, <1>6, <2>1, <2>2
<1>9. PolledIsWritten'
  <2> SUFFICES ASSUME NEW o \in Owner, NEW p \in Panes[o],
                      seen'[p] + Renewal <= Stale, calm' >= seen'[p] + Renewal
               PROVE  /\ p \in registered'[o] /\ o \in DOMAIN file'
                      /\ file'[o].roots = registered'[o]
                      /\ file'[o].age < seen'[p] + Renewal
    BY DEF PolledIsWritten
  <2>1. /\ seen[p] \in Nat /\ seen'[p] = seen[p] + 1
        /\ seen[p] + Renewal <= Stale /\ calm >= seen[p] + Renewal
    <3>1. p \in Pane /\ seen[p] \in 0..Forgotten
      BY <1>2
    <3>2. seen'[p] = seen[p] + 1
      BY <1>2, <1>4, <3>1
    <3>3. calm' <= calm + 1
      BY <1>1, <1>2
    <3>4. QED
      BY <1>2, <1>3, <3>1, <3>2, <3>3
  <2>2. /\ p \in registered[o] /\ o \in DOMAIN file
        /\ file[o].roots = registered[o] /\ file[o].age < seen[p] + Renewal
    BY <2>1 DEF RegistryInv, PolledIsWritten
  <2>3. file'[o].age = file[o].age + 1 /\ file[o].age \in Nat
    BY <1>2, <1>6, <2>1, <2>2
  <2>4. file'[o].age < seen'[p] + Renewal
    BY <1>2, <2>1, <2>2, <2>3
  <2>5. QED
    BY <1>1, <1>6, <2>2, <2>4
<1>10. QED
  BY <1>7, <1>8, <1>9 DEF RegistryInv

\* Every step of the registry keeps the invariant.
LEMMA RegistryInvStep ==
    ASSUME RegistryInv, [RegistryNext]_registryVars
    PROVE  RegistryInv'
<1>1. /\ seen \in [Pane -> 0..Forgotten] /\ registered \in [Owner -> SUBSET Pane]
      /\ renewed \in [Owner -> 0..Renewal] /\ calm \in 0..Forgotten
      /\ Stale \in Nat /\ Renewal \in 1..Stale /\ Forgotten = Stale + 1
      /\ \A o \in Owner : Panes[o] \subseteq Pane /\ FileShape
  BY RegistryFacts DEF RegistryInv
<1>2. 0 \in 0..Forgotten /\ Forgotten \in 0..Forgotten
  BY <1>1
<1>3. ASSUME NEW o \in Owner, KillInUpdate(o) PROVE RegistryInv'
  <2>1. Die(o) /\ file' = Torn /\ calm' = 0
    BY <1>3 DEF KillInUpdate
  <2>2. RegistryTypeOK'
    BY <1>1, <1>2, <2>1, DieStep, TornShape DEF RegistryTypeOK
  <2>3. FileShape'
    BY <2>1, <2>2, TornShape DEF FileShape
  <2>4. QED
    BY <1>1, <2>1, <2>3, Damaged
<1>4. ASSUME NEW o \in Owner, NEW p \in Panes[o], Poll(o, p) PROVE RegistryInv'
  <2>1. seen' = [seen EXCEPT ![p] = 0] /\ p \in Pane
    BY <1>1, <1>4 DEF Poll
  <2>2. /\ seen' \in [Pane -> 0..Forgotten]
        /\ \A q \in Owner \ {o} : \A r \in Panes[q] : seen'[r] = seen[r]
    BY <1>1, <1>2, <2>1, PanesAreApart
  <2>3. CASE IsCurrent(o) /\ Unwritten /\ UNCHANGED calm
    BY <2>1, <2>3, CurrentStep DEF Unwritten
  <2>4. CASE Register(o, Union(o))
    <3>1. Union(o) \in SUBSET Panes[o] /\ \A r \in Panes[o] : seen'[r] <= Stale => r \in Union(o)
      BY DEF Union
    <3>2. QED
      BY <2>2, <2>4, <3>1, RegisterStep
  <2>5. CASE Unwritten /\ calm' = 0
    <3>1. FileShape'
      BY <1>1, <1>2, <2>2, <2>5 DEF FileShape, RegistryTypeOK, Unwritten
    <3>2. QED
      BY <1>1, <2>5, <3>1, Damaged
  <2>6. QED
    BY <1>4, <2>3, <2>4, <2>5 DEF Poll
<1>5. ASSUME NEW o \in Owner, NEW roots \in SUBSET Panes[o], RegisterPanes(o, roots)
      PROVE  RegistryInv'
  <2>1. /\ Register(o, roots)
        /\ seen' = [p \in Pane |-> IF p \in roots THEN 0
                                   ELSE IF p \in Panes[o] THEN Forgotten ELSE seen[p]]
    BY <1>5 DEF RegisterPanes
  <2>2. seen' \in [Pane -> 0..Forgotten]
    BY <1>1, <1>2, <2>1
  <2>3. \A p \in Panes[o] : seen'[p] <= Stale => p \in roots
    BY <1>1, <2>1
  <2>4. \A q \in Owner \ {o} : \A p \in Panes[q] : seen'[p] = seen[p]
    BY <1>1, <2>1, PanesAreApart
  <2>5. QED
    BY <2>1, <2>2, <2>3, <2>4, RegisterStep
<1>6. ASSUME UNCHANGED registryVars PROVE RegistryInv'
  BY <1>6 DEF registryVars, RegistryInv, FileShape, RegistryTypeOK, WrittenIsThere,
     PolledIsWritten
<1>7. QED
  BY <1>3, <1>4, <1>5, <1>6, KillStep, TickStep DEF RegistryNext

\* What a client takes for current is in the file, and what was polled was written
\* less than a renewal before the poll, as long as no damage came in between.
THEOREM RegistryInvariant == RegistrySpec => []RegistryInv
<1>1. RegistryInit => RegistryInv
  <2> SUFFICES ASSUME RegistryInit PROVE RegistryInv
    OBVIOUS
  <2>1. /\ file = Torn /\ seen = [p \in Pane |-> Forgotten]
        /\ registered = [o \in Owner |-> {}] /\ renewed = [o \in Owner |-> Renewal]
        /\ calm = 0
    BY DEF RegistryInit
  <2>2. /\ Stale \in Nat /\ Renewal \in 1..Stale /\ Forgotten = Stale + 1
        /\ \A o \in Owner : Panes[o] \subseteq Pane
    BY RegistryAssumption DEF Forgotten, Pane
  <2>3. RegistryTypeOK
    BY <2>1, <2>2, TornShape DEF RegistryTypeOK
  <2>4. FileShape
    BY <2>1, <2>3, TornShape DEF FileShape
  <2>5. WrittenIsThere /\ PolledIsWritten
    BY <2>1, <2>2 DEF WrittenIsThere, PolledIsWritten
  <2>6. QED
    BY <2>4, <2>5 DEF RegistryInv
<1>2. QED
  BY <1>1, RegistryInvStep, PTL DEF RegistrySpec

\* The types of the registry: no entry outlives the time after which it is
\* forgotten, and none has the panes of another owner.
THEOREM RegistryTypes == RegistrySpec => []RegistryTypeOK
<1>1. RegistryInv => RegistryTypeOK
  BY DEF RegistryInv, FileShape
<1> QED
  BY <1>1, RegistryInvariant, PTL

\* A pane is among the roots that the sampler reads until a renewal short of the stale
\* time after its last poll, if that poll came a renewal or more after the last failed
\* update, torn text or crowd: whichever client wrote, and whenever it did.
THEOREM PolledIsVisibleAlways == RegistrySpec => []PolledIsVisible
<1>1. RegistryInv => PolledIsVisible
  <2> SUFFICES ASSUME RegistryInv, NEW p \in Pane,
                      seen[p] + Renewal <= Stale, calm >= seen[p] + Renewal
               PROVE  p \in Roots
    BY DEF PolledIsVisible
  <2>1. PICK o \in Owner : p \in Panes[o]
    BY DEF Pane
  <2>2. /\ p \in registered[o] /\ o \in DOMAIN file
        /\ file[o].roots = registered[o] /\ file[o].age < seen[p] + Renewal
    BY <2>1 DEF RegistryInv, PolledIsWritten
  <2>3. /\ calm >= 1 /\ file[o].age <= Stale
    <3>1. /\ seen[p] \in 0..Forgotten /\ calm \in 0..Forgotten /\ Renewal \in 1..Stale
          /\ Stale \in Nat /\ Forgotten = Stale + 1 /\ file[o].age \in 0..Forgotten
      BY <2>2, RegistryFacts DEF RegistryInv
    <3>2. QED
      BY <2>2, <3>1
  <2>4. FirstOwners(file) = DOMAIN file
    BY <2>3, AllAreRead, RegistryAssumption DEF RegistryInv, FileShape, RegistryTypeOK
  <2>5. o \in DOMAIN Clean(file) /\ Clean(file)[o] = file[o]
    BY <2>2, <2>3, <2>4 DEF Clean, Restrict
  <2>6. QED
    BY <2>2, <2>5 DEF Roots
<1>2. QED
  BY <1>1, RegistryInvariant, PTL
----
\* PaneTicks.  First, sums of the ticks of rows.

\* The ticks of some rows, as TreeTicks adds them up.
Ticks(rows) == LET ticks(x) == x.ticks IN MapThenSumSet(ticks, rows)

\* Finitely many rows with a number of ticks each.
Counts(rows) == IsFiniteSet(rows) /\ \A x \in rows : x.ticks \in Nat

\* They are added up like any weights of the rows.
LEMMA TicksAreSum ==
    ASSUME NEW R, IsFiniteSet(R), NEW w, \A x \in R : w[x] = x.ticks
    PROVE  Ticks(R) = Sum(w, R)
<1> DEFINE Turn(f, s) == IF s = {} THEN 0 ELSE Picked(s).ticks + f[s \ {Picked(s)}]
           ticks == CHOOSE f : f = [s \in SUBSET R |-> Turn(f, s)]
<1>1. Ticks(R) = ticks[R]
  BY DEF Ticks, MapThenSumSet, MapThenFoldSet, Picked
<1>2. ASSUME NEW f, NEW s \in SUBSET R PROVE Turn(f, s) = Round(w, f, s)
  <2>1. s # {} => Picked(s) \in R
    BY RoundSmaller
  <2> QED
    BY <2>1 DEF Round
<1>3. \E f : f = [s \in SUBSET R |-> Round(w, f, s)]
  BY SumExists
<1> HIDE DEF Turn
<1>4. \E f : f = [s \in SUBSET R |-> Turn(f, s)]
  BY <1>2, <1>3
<1>5. ticks = [s \in SUBSET R |-> Turn(ticks, s)]
  BY <1>4
<1> HIDE DEF ticks
<1>6. Solves(w, ticks, R)
  BY <1>2, <1>5 DEF Solves
<1>7. PICK g : Solves(w, g, R) /\ Sum(w, R) = g[R]
  BY SumIsSolution
<1>8. ticks[R] = g[R]
  BY <1>6, <1>7, SolutionsAgree
<1> QED
  BY <1>1, <1>7, <1>8

\* One row can be taken out of the sum.
LEMMA TicksWithout ==
    ASSUME NEW R, Counts(R)
    PROVE  /\ Ticks(R) \in Nat
           /\ \A x \in R : Ticks(R) = x.ticks + Ticks(R \ {x}) /\ Ticks(R \ {x}) \in Nat
           /\ R = {} => Ticks(R) = 0
<1> DEFINE w == [x \in R |-> x.ticks]
<1>1. Weighs(w, R)
  BY DEF Counts, Weighs
<1>2. IsFiniteSet(R) /\ \A x \in R : w[x] = x.ticks
  BY DEF Counts
<1> HIDE DEF w
<1>3. Ticks(R) = Sum(w, R)
  BY <1>2, TicksAreSum
<1>4. ASSUME NEW x \in R PROVE Ticks(R) = x.ticks + Ticks(R \ {x}) /\ Ticks(R \ {x}) \in Nat
  <2>1. IsFiniteSet(R \ {x}) /\ \A y \in R \ {x} : w[y] = y.ticks
    BY <1>2, FS_RemoveElement
  <2>2. Ticks(R \ {x}) = Sum(w, R \ {x})
    BY <2>1, TicksAreSum
  <2>3. Sum(w, R) = w[x] + Sum(w, R \ {x}) /\ Sum(w, R \ {x}) \in Nat
    BY <1>1, SumWithout
  <2> QED
    BY <1>2, <1>3, <2>2, <2>3
<1>5. Sum(w, R) \in Nat
  BY <1>1, SumWithout
<1>6. R = {} => Sum(w, R) = 0
  BY <1>2, SumRound
<1> QED
  BY <1>3, <1>4, <1>5, <1>6

\* One row can be added to the sum.
LEMMA TicksWith ==
    ASSUME NEW R, Counts(R), NEW x, x \notin R, x.ticks \in Nat
    PROVE  Counts(R \cup {x}) /\ Ticks(R \cup {x}) = x.ticks + Ticks(R)
<1>1. Counts(R \cup {x})
  BY FS_AddElement DEF Counts
<1>2. (R \cup {x}) \ {x} = R
  OBVIOUS
<1> QED
  BY <1>1, <1>2, TicksWithout

\* No identifier has two rows.
OnePerPid(rows) == \A x, y \in rows : x.pid = y.pid => x = y

\* Rows that have each a larger counterpart are no more altogether.
LEMMA TicksBounded ==
    ASSUME NEW A, NEW B, Counts(A), Counts(B), OnePerPid(A),
           \A x \in A : \E y \in B : y.pid = x.pid /\ x.ticks <= y.ticks
    PROVE  Ticks(A) <= Ticks(B)
<1> DEFINE Below(s, t) == \A x \in s : \E y \in t : y.pid = x.pid /\ x.ticks <= y.ticks
           T == {n \in Nat : \A s \in SUBSET A, t \in SUBSET B :
                    Cardinality(s) = n /\ Below(s, t) => Ticks(s) <= Ticks(t)}
<1>1. /\ \A s \in SUBSET A : /\ Counts(s) /\ Cardinality(s) \in Nat
                             /\ s = {} <=> Cardinality(s) = 0
                             /\ \A x \in s : Cardinality(s \ {x}) = Cardinality(s) - 1
      /\ \A t \in SUBSET B : Counts(t)
  BY RoundSmaller, FS_RemoveElement, FS_Subset DEF Counts
<1>2. 0 \in T
  <2>1. ASSUME NEW s \in SUBSET A, NEW t \in SUBSET B, Cardinality(s) = 0
        PROVE  Ticks(s) <= Ticks(t)
    <3>1. s = {} /\ Ticks(s) = 0
      BY <1>1, <2>1, TicksWithout
    <3>2. Ticks(t) \in Nat
      BY <1>1, TicksWithout
    <3> QED
      BY <3>1, <3>2
  <2> QED
    BY <2>1
<1>3. ASSUME NEW n \in T PROVE n + 1 \in T
  <2>1. ASSUME NEW s \in SUBSET A, NEW t \in SUBSET B, Cardinality(s) = n + 1, Below(s, t)
        PROVE  Ticks(s) <= Ticks(t)
    <3>1. PICK x \in s : TRUE
      BY <1>1, <2>1
    <3>2. PICK y \in t : y.pid = x.pid /\ x.ticks <= y.ticks
      BY <2>1
    <3>3. Below(s \ {x}, t \ {y})
      BY <2>1, <3>2 DEF OnePerPid
    <3>4. s \ {x} \in SUBSET A /\ t \ {y} \in SUBSET B /\ Cardinality(s \ {x}) = n
      BY <1>1, <2>1
    <3> HIDE DEF Below
    <3>5. Ticks(s \ {x}) <= Ticks(t \ {y})
      BY <3>3, <3>4
    <3>6. /\ Ticks(s) = x.ticks + Ticks(s \ {x}) /\ Ticks(t) = y.ticks + Ticks(t \ {y})
          /\ Ticks(s \ {x}) \in Nat /\ Ticks(t \ {y}) \in Nat
      BY <1>1, <3>4, TicksWithout
    <3>7. x.ticks \in Nat /\ y.ticks \in Nat
      BY DEF Counts
    <3> QED
      BY <3>2, <3>5, <3>6, <3>7
  <2> HIDE DEF Below
  <2> QED
    BY <2>1
<1>4. T = Nat
  <2> HIDE DEF T
  <2> QED
    BY <1>2, <1>3, NumberInduction DEF T
<1>5. Cardinality(A) \in Nat
  BY <1>1
<1> HIDE DEF Below
<1>6. A \in SUBSET A /\ B \in SUBSET B /\ Below(A, B)
  BY DEF Below
<1> QED
  BY <1>4, <1>5, <1>6

\* The processes that rows are of.
Pids(rows) == {x.pid : x \in rows}
\* The rows of a tree.
Tree(rows, r) == {x \in rows : x.pid \in Descendants(rows, r)}

\* What the closure is: within the rows, around the root, closed under parenthood,
\* and the least such set.
LEMMA DescendantsAre ==
    ASSUME NEW rows, NEW r
    PROVE  /\ Descendants(rows, r) \subseteq Pids(rows)
           /\ r \in Pids(rows) => r \in Descendants(rows, r)
           /\ r \notin Pids(rows) => Descendants(rows, r) = {}
           /\ \A x \in rows : x.parent \in Descendants(rows, r) => x.pid \in Descendants(rows, r)
           /\ \A S : r \in S /\ (\A x \in rows : x.parent \in S => x.pid \in S)
                        => Descendants(rows, r) \subseteq S
<1> DEFINE Closed(S) == \A x \in rows : x.parent \in S => x.pid \in S
           D == Descendants(rows, r)
<1>1. /\ r \in Pids(rows) =>
            D = {p \in Pids(rows) : \A S \in SUBSET Pids(rows) : r \in S /\ Closed(S) => p \in S}
      /\ r \notin Pids(rows) => D = {}
  BY DEF Descendants, Pids
<1>2. \A x \in rows : x.pid \in Pids(rows)
  BY DEF Pids
<1> HIDE DEF D
<1>3. ASSUME r \in Pids(rows), NEW x \in rows, x.parent \in D PROVE x.pid \in D
  <2>1. ASSUME NEW S \in SUBSET Pids(rows), r \in S, Closed(S) PROVE x.pid \in S
    <3>1. x.parent \in S
      BY <1>1, <1>3, <2>1
    <3> QED
      BY <2>1, <3>1
  <2> QED
    BY <1>1, <1>2, <1>3, <2>1
<1>4. ASSUME NEW S, r \in S, Closed(S) PROVE D \subseteq S
  <2>1. CASE r \in Pids(rows)
    <3> DEFINE U == S \cap Pids(rows)
    <3>1. r \in U /\ Closed(U) /\ U \in SUBSET Pids(rows)
      BY <1>2, <1>4, <2>1
    <3> HIDE DEF U, Closed
    <3>2. D \subseteq U
      BY <1>1, <2>1, <3>1
    <3> QED
      BY <3>2 DEF U
  <2>2. CASE r \notin Pids(rows)
    BY <1>1, <2>2
  <2> QED
    BY <2>1, <2>2
<1> QED
  BY <1>1, <1>3, <1>4 DEF D

\* Rows that have a counterpart with the same parent have it in the same trees.
LEMMA DescendantsWithin ==
    ASSUME NEW A, NEW B, NEW r,
           \A x \in A : \E y \in B : y.pid = x.pid
                                       /\ (x.parent = y.parent \/ x.parent \notin Pids(A))
    PROVE  Descendants(A, r) \subseteq Descendants(B, r)
<1> DEFINE S == Descendants(B, r) \cap Pids(A)
<1>1. CASE r \in Pids(A)
  <2>1. r \in Pids(B)
    BY <1>1 DEF Pids
  <2>2. r \in S
    BY <1>1, <2>1, DescendantsAre
  <2>3. ASSUME NEW x \in A, x.parent \in S PROVE x.pid \in S
    <3>1. PICK y \in B : y.pid = x.pid /\ (x.parent = y.parent \/ x.parent \notin Pids(A))
      OBVIOUS
    <3>2. y.parent \in Descendants(B, r)
      BY <2>3, <3>1
    <3>3. y.pid \in Descendants(B, r)
      BY <3>2, DescendantsAre
    <3>4. x.pid \in Pids(A)
      BY DEF Pids
    <3> QED
      BY <3>1, <3>3, <3>4
  <2> HIDE DEF S
  <2>4. Descendants(A, r) \subseteq S
    BY <2>2, <2>3, DescendantsAre
  <2> QED
    BY <2>4 DEF S
<1>2. CASE r \notin Pids(A)
  BY <1>2, DescendantsAre
<1> QED
  BY <1>1, <1>2

\* The rows of a tree can be added up.
LEMMA TreeCounts ==
    ASSUME NEW R, Counts(R), NEW r
    PROVE  /\ Tree(R, r) \subseteq R /\ Counts(Tree(R, r)) /\ Ticks(Tree(R, r)) \in Nat
           /\ OnePerPid(R) => OnePerPid(Tree(R, r))
<1>1. Tree(R, r) \subseteq R
  BY DEF Tree
<1>2. Counts(Tree(R, r))
  BY <1>1, FS_Subset DEF Counts
<1> QED
  BY <1>1, <1>2, TicksWithout DEF OnePerPid

\* A process used more ticks: its row is another one.
LEMMA RowGrows ==
    ASSUME NEW R, Counts(R), OnePerPid(R), NEW old \in R, NEW new, NEW k \in Nat,
           new.pid = old.pid, new.parent = old.parent, new.ticks = old.ticks + k,
           NEW r
    PROVE  LET grown == (R \ {old}) \cup {new}
           IN  /\ Counts(grown)
               /\ Descendants(grown, r) = Descendants(R, r)
               /\ Ticks(Tree(grown, r)) =
                    Ticks(Tree(R, r)) + IF old.pid \in Descendants(R, r) THEN k ELSE 0
<1> DEFINE grown == (R \ {old}) \cup {new}
           rest == Tree(R, r) \ {old}
<1>1. old.ticks \in Nat /\ new.ticks \in Nat
  BY DEF Counts
<1>2. Counts(grown)
  <2>1. IsFiniteSet(R \ {old})
    BY FS_RemoveElement DEF Counts
  <2>2. IsFiniteSet(grown)
    BY <2>1, FS_AddElement
  <2> QED
    BY <1>1, <2>2 DEF Counts
<1>3. Descendants(grown, r) = Descendants(R, r)
  <2>1. Descendants(grown, r) \subseteq Descendants(R, r)
    <3>1. \A x \in grown : \E y \in R : y.pid = x.pid /\ x.parent = y.parent
      OBVIOUS
    <3> HIDE DEF grown
    <3> QED
      BY <3>1, DescendantsWithin
  <2>2. Descendants(R, r) \subseteq Descendants(grown, r)
    <3>1. \A x \in R : \E y \in grown : y.pid = x.pid /\ x.parent = y.parent
      OBVIOUS
    <3> HIDE DEF grown
    <3> QED
      BY <3>1, DescendantsWithin
  <2> QED
    BY <2>1, <2>2
<1>4. Counts(rest) /\ Ticks(rest) \in Nat
  <2>1. IsFiniteSet(rest) /\ Counts(Tree(R, r))
    BY TreeCounts, FS_RemoveElement DEF Counts
  <2>2. Counts(rest)
    BY <2>1 DEF Counts
  <2> HIDE DEF rest
  <2> QED
    BY <2>2, TicksWithout
<1>5. Counts(Tree(R, r))
  BY TreeCounts
<1>6. CASE old.pid \in Descendants(R, r)
  <2>1. Ticks(Tree(R, r)) = old.ticks + Ticks(rest)
    BY <1>5, <1>6, TicksWithout DEF Tree
  <2>2. Tree(grown, r) = rest \cup {new}
    BY <1>3, <1>6 DEF Tree
  <2>3. new \notin rest
    BY DEF OnePerPid, Tree
  <2> HIDE DEF rest, grown
  <2>4. Ticks(rest \cup {new}) = new.ticks + Ticks(rest)
    BY <1>1, <1>4, <2>3, TicksWith
  <2>5. Ticks(Tree(grown, r)) = Ticks(Tree(R, r)) + k
    BY <1>1, <1>4, <2>1, <2>2, <2>4
  <2> QED
    BY <1>2, <1>3, <1>6, <2>5 DEF grown
<1>7. CASE old.pid \notin Descendants(R, r)
  <2>1. Tree(grown, r) = Tree(R, r)
    BY <1>3, <1>7 DEF Tree
  <2>2. Ticks(Tree(R, r)) \in Nat
    BY TreeCounts
  <2> HIDE DEF grown
  <2> QED
    BY <1>2, <1>3, <1>7, <2>1, <2>2 DEF grown
<1> QED
  BY <1>6, <1>7

\* A process without children comes or goes.
LEMMA LeafLeaves ==
    ASSUME NEW R, Counts(R), OnePerPid(R), NEW leaf \in R,
           leaf.parent # leaf.pid, \A x \in R : x.parent # leaf.pid, NEW r, r # leaf.pid
    PROVE  LET rest == R \ {leaf}
           IN  /\ Descendants(rest, r) = Descendants(R, r) \ {leaf.pid}
               /\ Ticks(Tree(R, r)) =
                    Ticks(Tree(rest, r))
                      + IF leaf.pid \in Descendants(R, r) THEN leaf.ticks ELSE 0
               /\ leaf.pid \in Descendants(R, r) => leaf.parent \in Descendants(R, r)
<1> DEFINE rest == R \ {leaf}
           D == Descendants(R, r)
           E == Descendants(rest, r)
<1>1. \A x \in rest : x.pid # leaf.pid
  BY DEF OnePerPid
<1>2. E \subseteq D \ {leaf.pid}
  <2>1. E \subseteq D
    <3>1. \A x \in rest : \E y \in R : y.pid = x.pid /\ x.parent = y.parent
      OBVIOUS
    <3> HIDE DEF rest
    <3> QED
      BY <3>1, DescendantsWithin
  <2>2. E \subseteq Pids(rest)
    BY DescendantsAre
  <2> HIDE DEF D, E
  <2> QED
    BY <1>1, <2>1, <2>2 DEF Pids
<1>3. r \in Pids(R) => r \in Pids(rest)
  BY DEF Pids
<1>4. D \subseteq E \cup {leaf.pid}
  <2>1. CASE r \in Pids(R)
    <3>1. r \in E
      BY <1>3, <2>1, DescendantsAre
    <3>2. ASSUME NEW x \in R, x.parent \in E \cup {leaf.pid} PROVE x.pid \in E \cup {leaf.pid}
      <4>1. x.parent \in E
        BY <3>2
      <4>2. x \in rest => x.pid \in E
        BY <4>1, DescendantsAre
      <4> QED
        BY <4>2
    <3> DEFINE S == E \cup {leaf.pid}
    <3>3. r \in S /\ \A x \in R : x.parent \in S => x.pid \in S
      BY <3>1, <3>2
    <3> HIDE DEF S, E
    <3>4. D \subseteq S
      BY <3>3, DescendantsAre
    <3> QED
      BY <3>4 DEF S
  <2>2. CASE r \notin Pids(R)
    BY <2>2, DescendantsAre
  <2> QED
    BY <2>1, <2>2
<1>5. ASSUME leaf.pid \in D PROVE leaf.parent \in D
  <2>1. SUFFICES ASSUME leaf.parent \notin D PROVE FALSE
    OBVIOUS
  <2> DEFINE S == D \ {leaf.pid}
  <2>2. r \in D
    BY <1>5, DescendantsAre
  <2>3. ASSUME NEW x \in R, x.parent \in S PROVE x.pid \in S
    <3>1. x.pid \in D
      BY <2>3, DescendantsAre
    <3>2. x # leaf
      BY <2>1, <2>3
    <3> QED
      BY <1>1, <3>1, <3>2
  <2>4. r \in S
    BY <2>2
  <2> HIDE DEF S
  <2>5. D \subseteq S
    BY <2>3, <2>4, DescendantsAre
  <2> QED
    BY <1>5, <2>5 DEF S
<1>6. E = D \ {leaf.pid}
  <2> HIDE DEF D, E
  <2> QED
    BY <1>2, <1>4
<1>7. Tree(rest, r) = Tree(R, r) \ {leaf}
  <2>1. \A x \in rest : x.pid \in E <=> x.pid \in D
    BY <1>1, <1>6
  <2> QED
    BY <2>1 DEF Tree
<1>8. Counts(Tree(R, r)) /\ Ticks(Tree(R, r)) \in Nat
  BY TreeCounts
<1>9. Ticks(Tree(R, r)) = Ticks(Tree(rest, r)) + IF leaf.pid \in D THEN leaf.ticks ELSE 0
  <2>1. CASE leaf.pid \in D
    <3>1. leaf \in Tree(R, r) /\ leaf.ticks \in Nat
      BY <2>1 DEF Tree, Counts
    <3>2. /\ Ticks(Tree(R, r)) = leaf.ticks + Ticks(Tree(R, r) \ {leaf})
          /\ Ticks(Tree(R, r) \ {leaf}) \in Nat
      BY <1>8, <3>1, TicksWithout
    <3> HIDE DEF rest, D
    <3> QED
      BY <1>7, <2>1, <3>1, <3>2
  <2>2. CASE leaf.pid \notin D
    <3>1. leaf \notin Tree(R, r)
      BY <2>2 DEF Tree
    <3>2. Tree(rest, r) = Tree(R, r)
      BY <1>7, <3>1
    <3> HIDE DEF rest, D
    <3> QED
      BY <1>8, <2>2, <3>2
  <2> QED
    BY <2>1, <2>2
<1> QED
  BY <1>5, <1>6, <1>9

\* Rows of processes are finitely many.
LEMMA RowsCount ==
    ASSUME NEW R, R \subseteq Row, OnePerPid(R)
    PROVE  Counts(R)
<1> DEFINE f == [x \in R |-> x.pid]
<1>1. \A x \in R : x.pid \in Pid /\ x.ticks \in Nat
  BY DEF Row
<1>2. f \in Injection(R, Pid)
  BY <1>1 DEF OnePerPid, Injection, IsInjective
<1> HIDE DEF f
<1>3. IsFiniteSet(R)
  BY <1>2, FS_Injection, TicksAssumption
<1> QED
  BY <1>1, <1>3 DEF Counts


\* The rows of the table as it is.
AsListed == {ReadRow(p) : p \in Listed}
\* The rows that the scan has read, and those that it would read now.
Pending == raw \cup {ReadRow(p) : p \in todo}
\* What the tree of r has used, as far as the table still shows it.
Used(r) == Ticks(Tree(AsListed, r))
\* What the scan will find for it, if nothing happens any more.
ReadSoFar(r) == Ticks(Tree(Pending, r))
\* The last scan read the process that is the root now.
Live(r) == previous[r] # Unknown /\ previous[r].start = start[r]

\* A parent in the table runs, and a start is never later than the last fork: a
\* new process is told from whoever had the identifier before.
TableInv ==
    /\ \A p \in Pid : /\ life[p] = "free" <=> start[p] = 0
                      /\ start[p] <= forks
                      /\ life[p] # "free" /\ parent[p] # 0 => life[parent[p]] = "run"
    /\ \A x \in raw : x.start > 0 /\ x.start <= forks
    /\ \A r \in Root : /\ previous[r].start <= forks
                       /\ previous[r] # Unknown => previous[r].start # 0

\* Unless the scan is raced, what it has read is still so but for more ticks; if
\* nothing happened, it is the table.
ScanInv ==
    /\ OnePerPid(raw)
    /\ \A x \in raw : x.pid \notin todo
    /\ Scanning /\ ~raced =>
        /\ todo \subseteq Listed
        /\ \A x \in raw : /\ x.pid \in Listed
                          /\ x.parent = parent[x.pid]
                          /\ x.start = start[x.pid]
                          /\ x.ticks <= cpu[x.pid] + waited[x.pid]
        /\ still => Pending = AsListed

\* What a tree shows is what was used in it, less what left without being waited for.
UsedInv ==
    \A r \in Root : life[r] # "free" =>
        /\ Used(r) <= total[r]
        /\ r \notin left => Used(r) = total[r]

\* The books of a root: what was charged to it and what its tree still has to
\* report, beside what was used in it.
ChargeInv ==
    \A r \in Root : Live(r) /\ ~raced =>
        /\ previous[r].ticks <= first[r] + charged[r]
        /\ first[r] + charged[r] <= total[r]
        /\ first[r] + charged[r] + Used(r) <= total[r] + previous[r].ticks
        /\ Scanning => first[r] + charged[r] + Used(r) <= total[r] + ReadSoFar(r)
        /\ ~Scanning /\ still => previous[r].ticks = Used(r)

\* The inductive invariant of pane accounting.
TicksInv == TicksTypeOK /\ TableInv /\ ScanInv /\ UsedInv /\ ChargeInv

\* What the rows are, in every state of the invariant: at most one per process,
\* with ticks that can be added up.
RowsInv ==
    /\ \A p \in Pid : ReadRow(p) \in Row
    /\ OnePerPid(AsListed) /\ Counts(AsListed) /\ Pids(AsListed) = Listed
    /\ OnePerPid(Pending) /\ Counts(Pending)
    /\ OnePerPid(raw) /\ Counts(raw)
    /\ \A r : Used(r) \in Nat /\ ReadSoFar(r) \in Nat

\* They follow from the types and from what the scan has read.
LEMMA RowsOfTheTable == TicksTypeOK /\ ScanInv => RowsInv
<1> SUFFICES ASSUME TicksTypeOK, ScanInv PROVE RowsInv
  OBVIOUS
<1>1. \A p : ReadRow(p).pid = p
  BY DEF ReadRow
<1>2. \A p \in Pid : ReadRow(p) \in Row
  <2> SUFFICES ASSUME NEW p \in Pid PROVE ReadRow(p) \in Row
    OBVIOUS
  <2>1. parent[p] \in Pid \cup {0} /\ start[p] \in Nat /\ cpu[p] \in Nat /\ waited[p] \in Nat
    BY DEF TicksTypeOK
  <2>2. cpu[p] + waited[p] \in Nat
    BY <2>1
  <2> QED
    BY <2>1, <2>2 DEF ReadRow, Row
<1>3. Listed \subseteq Pid /\ todo \subseteq Pid /\ raw \subseteq Row
  BY DEF Listed, TicksTypeOK
<1>4. OnePerPid(AsListed) /\ Counts(AsListed) /\ Pids(AsListed) = Listed
  <2>1. OnePerPid(AsListed)
    BY <1>1 DEF OnePerPid, AsListed
  <2>2. AsListed \subseteq Row
    BY <1>2, <1>3 DEF AsListed
  <2>3. Pids(AsListed) = Listed
    BY <1>1 DEF Pids, AsListed
  <2> QED
    BY <2>1, <2>2, <2>3, RowsCount
<1>5. OnePerPid(Pending) /\ Counts(Pending)
  <2>1. OnePerPid(Pending)
    BY <1>1 DEF OnePerPid, Pending, ScanInv
  <2>2. Pending \subseteq Row
    BY <1>2, <1>3 DEF Pending
  <2> QED
    BY <2>1, <2>2, RowsCount
<1>6. OnePerPid(raw) /\ Counts(raw)
  BY <1>3, RowsCount DEF ScanInv
<1> QED
  BY <1>2, <1>4, <1>5, <1>6, TreeCounts DEF RowsInv, Used, ReadSoFar

\* ... after a step as well.
LEMMA RowsAfter == TicksTypeOK' /\ ScanInv' => RowsInv'
BY RowsOfTheTable, PTL

\* Steps that leave the rows of the table alone.
LEMMA WorkRows ==
    ASSUME TicksInv, NEW p \in Pid, Work(p), NEW r \in Root
    PROVE  /\ Used(r)' = Used(r) + IF r \in TreesOf(p) THEN 1 ELSE 0
           /\ ReadSoFar(r) <= ReadSoFar(r)'
<1>1. /\ OnePerPid(AsListed) /\ Counts(AsListed) /\ OnePerPid(Pending) /\ Counts(Pending)
      /\ Used(r) \in Nat /\ ReadSoFar(r) \in Nat
  BY RowsOfTheTable, RowsAfter DEF TicksInv, RowsInv
<1>2. p \in Listed /\ Listed' = Listed /\ raw' = raw /\ todo' = todo
  BY DEF Work, Listed, collector
<1> DEFINE old == ReadRow(p)
           new == ReadRow(p)'
<1>3. \A q \in Pid \ {p} : ReadRow(q)' = ReadRow(q)
  BY DEF Work, ReadRow, TicksInv, TicksTypeOK
<1>4. new.pid = p /\ old.pid = p /\ new.parent = old.parent /\ new.ticks = old.ticks + 1
  <2>1. cpu[p]' = cpu[p] + 1 /\ waited' = waited /\ parent' = parent
    BY DEF Work, TicksInv, TicksTypeOK
  <2>2. cpu[p] \in Nat /\ waited[p] \in Nat
    BY DEF TicksInv, TicksTypeOK
  <2> QED
    BY <2>1, <2>2 DEF ReadRow
<1>5. \A q : ReadRow(q).pid = q
  BY DEF ReadRow
<1>6. AsListed' = (AsListed \ {old}) \cup {new}
  BY <1>2, <1>3, <1>5 DEF AsListed, Listed
<1>7. Used(r)' = Used(r) + IF p \in Descendants(AsListed, r) THEN 1 ELSE 0
  <2>1. old \in AsListed
    BY <1>2 DEF AsListed
  <2> HIDE DEF old, new
  <2>2. Ticks(Tree((AsListed \ {old}) \cup {new}, r)) =
            Ticks(Tree(AsListed, r)) + IF old.pid \in Descendants(AsListed, r) THEN 1 ELSE 0
    <3>1. new.pid = old.pid /\ new.parent = old.parent /\ new.ticks = old.ticks + 1 /\ 1 \in Nat
      BY <1>4
    <3>2. Counts(AsListed) /\ OnePerPid(AsListed)
      BY <1>1
    <3> HIDE DEF AsListed
    <3> QED
      BY <2>1, <3>1, <3>2, RowGrows
  <2>3. Ticks(Tree(AsListed', r)) =
            Ticks(Tree(AsListed, r)) + IF p \in Descendants(AsListed, r) THEN 1 ELSE 0
    BY <1>4, <1>6, <2>2
  <2> QED
    BY <2>3 DEF Used
<1>8. ReadSoFar(r) <= ReadSoFar(r)'
  <2>1. CASE p \in todo
    <3>1. old \in Pending
      BY <2>1 DEF Pending
    <3>2. Pending' = (Pending \ {old}) \cup {new}
      BY <1>2, <1>3, <1>4, <1>5, <2>1, SMTT(20) DEF Pending, TicksInv, TicksTypeOK, ScanInv
    <3> HIDE DEF old, new
    <3>3. Ticks(Tree((Pending \ {old}) \cup {new}, r)) =
            Ticks(Tree(Pending, r)) + IF old.pid \in Descendants(Pending, r) THEN 1 ELSE 0
      <4>1. new.pid = old.pid /\ new.parent = old.parent /\ new.ticks = old.ticks + 1 /\ 1 \in Nat
        BY <1>4
      <4>2. Counts(Pending) /\ OnePerPid(Pending)
        BY <1>1
      <4> HIDE DEF Pending
      <4> QED
        BY <3>1, <4>1, <4>2, RowGrows
    <3>4. Ticks(Tree(Pending', r)) =
            Ticks(Tree(Pending, r)) + IF p \in Descendants(Pending, r) THEN 1 ELSE 0
      BY <1>4, <3>2, <3>3
    <3> QED
      BY <1>1, <3>4 DEF ReadSoFar
  <2>2. CASE p \notin todo
    <3>1. Pending' = Pending
      BY <1>2, <1>3, <2>2 DEF Pending, TicksInv, TicksTypeOK
    <3> QED
      BY <1>1, <3>1 DEF ReadSoFar
  <2> QED
    BY <2>1, <2>2
<1> QED
  BY <1>7, <1>8 DEF TreesOf, Family, AsListed

\* The identifier of the world outside is no process.
LEMMA NumbersOfPids == /\ 0 \notin Pid
                       /\ \A p \in Pid : p # 0
BY TicksAssumption

\* A fork adds a row without ticks: no tree shows more or less.
LEMMA ForkRows ==
    ASSUME TicksInv, TicksTypeOK', ScanInv',
           NEW p \in Pid, NEW by \in Pid \cup {0}, Fork(by, p), NEW r \in Root
    PROVE  /\ r # p => Used(r)' = Used(r)
           /\ r = p => Used(r)' = 0
           /\ Scanning /\ ~raced => Pending' = Pending
<1>1. /\ OnePerPid(AsListed') /\ Counts(AsListed') /\ Pids(AsListed)' = Listed'
      /\ OnePerPid(AsListed) /\ Counts(AsListed) /\ Used(r) \in Nat
  BY RowsOfTheTable, RowsAfter DEF TicksInv, RowsInv
<1> DEFINE new == ReadRow(p)'
<1>2. /\ \A q : ReadRow(q).pid = q /\ ReadRow(q)'.pid = q
      /\ \A q : ReadRow(q).parent = parent[q] /\ ReadRow(q)'.parent = parent[q]'
  BY DEF ReadRow
<1>3. /\ p \notin Listed /\ Listed' = Listed \cup {p}
      /\ \A q \in Pid \ {p} : ReadRow(q)' = ReadRow(q)
      /\ new.parent = by /\ new.ticks = 0
      /\ raw' = raw /\ todo' = todo
  BY DEF Fork, ReadRow, Listed, TicksInv, TicksTypeOK, collector
<1>4. AsListed' = AsListed \cup {new} /\ new \notin AsListed
  <2>1. AsListed' = {ReadRow(q)' : q \in Listed'}
    BY DEF AsListed
  <2>2. \A q \in Listed : q \in Pid \ {p}
    BY <1>3 DEF Listed
  <2> QED
    BY <1>2, <1>3, <2>1, <2>2 DEF AsListed
<1>5. \A x \in AsListed' : x.parent # p
  <2>1. by # p
    BY NumbersOfPids DEF Fork
  <2>2. ASSUME NEW q \in Listed PROVE parent[q] # p
    BY NumbersOfPids DEF Fork, TicksInv, TableInv, Listed
  <2>3. \A x \in AsListed : x.parent # p
    BY <1>2, <2>2 DEF AsListed
  <2> QED
    BY <1>3, <1>4, <2>1, <2>3
<1>6. ASSUME r # p PROVE Used(r)' = Used(r)
  <2> DEFINE R == AsListed'
  <2>1. R \ {new} = AsListed
    BY <1>4
  <2>2. new \in R /\ new.pid = p /\ new.parent # new.pid /\ \A x \in R : x.parent # new.pid
    BY <1>2, <1>4, <1>5
  <2>3. Counts(R) /\ OnePerPid(R)
    BY <1>1
  <2> HIDE DEF R, new
  <2>4. Ticks(Tree(R, r)) =
            Ticks(Tree(R \ {new}, r)) + IF new.pid \in Descendants(R, r) THEN new.ticks ELSE 0
    BY <1>6, <2>2, <2>3, LeafLeaves
  <2>5. Ticks(Tree(R, r)) = Used(r)
    BY <1>1, <1>3, <2>1, <2>4 DEF Used
  <2> QED
    BY <2>5 DEF R, Used
<1>7. ASSUME r = p PROVE Used(r)' = 0
  <2> DEFINE R == AsListed'
  <2>1. Descendants(R, p) \subseteq {p}
    <3>1. \A x \in R : x.parent \in {p} => x.pid \in {p}
      BY <1>5
    <3> HIDE DEF R
    <3> QED
      BY <3>1, DescendantsAre
  <2>2. \A x \in AsListed : x.pid # p
    BY <1>2, <1>3 DEF AsListed
  <2>3. Tree(R, p) \subseteq {new}
    BY <1>4, <2>1, <2>2 DEF Tree
  <2>4. Counts({}) /\ Ticks({}) = 0
    BY FS_EmptySet, TicksWithout DEF Counts
  <2>5. new \notin {} /\ new.ticks = 0
    BY <1>3
  <2> HIDE DEF R, new
  <2>6. Ticks({} \cup {new}) = 0
    <3>1. new.ticks \in Nat
      BY <2>5
    <3>2. Ticks({} \cup {new}) = new.ticks + Ticks({})
      BY <2>4, <2>5, <3>1, TicksWith
    <3> QED
      BY <2>4, <2>5, <3>2
  <2>7. Ticks(Tree(R, p)) = 0
    <3>1. Tree(R, p) = {} \/ Tree(R, p) = {} \cup {new}
      BY <2>3
    <3> QED
      BY <2>4, <2>6, <3>1
  <2> QED
    BY <1>7, <2>7 DEF R, Used
<1>8. ASSUME Scanning, ~raced PROVE Pending' = Pending
  <2>1. \A q \in todo : ReadRow(q)' = ReadRow(q)
    BY <1>3, <1>8 DEF TicksInv, ScanInv, Listed
  <2> QED
    BY <1>3, <2>1 DEF Pending
<1> QED
  BY <1>6, <1>7, <1>8

\* An exit takes the orphans out of trees, where there are any, and adds to none.
LEMMA ExitRows ==
    ASSUME TicksInv, TicksTypeOK', ScanInv', NEW p \in Pid, Exit(p), NEW r \in Root
    PROVE  /\ Used(r)' <= Used(r)
           /\ life[r] # "free" /\ r \notin left' => Used(r)' = Used(r)
           /\ ~raced' /\ Scanning => Pending' = Pending
<1> DEFINE orphans == {q \in Listed : parent[q] = p}
<1>1. /\ OnePerPid(AsListed') /\ Counts(AsListed') /\ Pids(AsListed') = Listed'
      /\ OnePerPid(AsListed) /\ Counts(AsListed) /\ Pids(AsListed) = Listed
      /\ Used(r) \in Nat /\ Used(r)' \in Nat
  BY RowsOfTheTable, RowsAfter DEF TicksInv, RowsInv
<1>2. /\ \A q : ReadRow(q).pid = q /\ ReadRow(q)'.pid = q
      /\ \A q : ReadRow(q).parent = parent[q] /\ ReadRow(q)'.parent = parent[q]'
      /\ \A q : ReadRow(q).ticks = ReadRow(q)'.ticks
  BY DEF ReadRow, Exit
<1>3. Listed' = Listed /\ raw' = raw /\ todo' = todo
  BY DEF Exit, Listed, TicksInv, TicksTypeOK, collector
<1>4. \A q \in Pid : parent[q]' = IF q \in orphans THEN 0 ELSE parent[q]
  BY DEF Exit
<1>5. ASSUME orphans = {} PROVE AsListed' = AsListed /\ Pending' = Pending
  <2>1. parent' = parent
    BY <1>4, <1>5 DEF Exit, TicksInv, TicksTypeOK
  <2>2. \A q : ReadRow(q)' = ReadRow(q)
    BY <2>1 DEF ReadRow, Exit
  <2> QED
    BY <1>3, <2>2 DEF AsListed, Pending
<1>6. Descendants(AsListed', r) \subseteq Descendants(AsListed, r)
  <2> DEFINE R == AsListed'
  <2>1. \A x \in R : \E y \in AsListed : y.pid = x.pid /\ (x.parent = y.parent \/ x.parent \notin Pids(R))
    <3> SUFFICES ASSUME NEW q \in Listed
                 PROVE \/ ReadRow(q)'.parent = ReadRow(q).parent
                       \/ ReadRow(q)'.parent \notin Pids(R)
      BY <1>2, <1>3 DEF AsListed
    <3>1. q \in Pid /\ Listed \subseteq Pid
      BY DEF Listed
    <3> QED
      BY <1>1, <1>2, <1>3, <1>4, <3>1, NumbersOfPids
  <2> HIDE DEF R
  <2>2. Descendants(R, r) \subseteq Descendants(AsListed, r)
    BY <2>1, DescendantsWithin
  <2> QED
    BY <2>2 DEF R
<1>7. \A x \in AsListed' : \E y \in AsListed : y.pid = x.pid /\ x.ticks = y.ticks
  BY <1>2, <1>3 DEF AsListed
<1>8. \A x \in AsListed : \E y \in AsListed' : y.pid = x.pid /\ x.ticks = y.ticks
  BY <1>2, <1>3 DEF AsListed
<1>9. \A x \in AsListed \cup AsListed' : x.ticks \in Nat
  BY <1>1 DEF Counts
<1>10. Used(r)' <= Used(r)
  <2> DEFINE A == Tree(AsListed', r)
             B == Tree(AsListed, r)
  <2>1. \A x \in A : \E y \in B : y.pid = x.pid /\ x.ticks <= y.ticks
    BY <1>6, <1>7, <1>9 DEF Tree
  <2>2. Counts(A) /\ OnePerPid(A) /\ Counts(B)
    BY <1>1, TreeCounts
  <2> HIDE DEF A, B
  <2>3. Ticks(A) <= Ticks(B)
    BY <2>1, <2>2, TicksBounded
  <2> QED
    BY <2>3 DEF A, B, Used
<1>11. ASSUME life[r] # "free", r \notin left', orphans # {} PROVE Used(r) <= Used(r)'
  <2>1. r \in Pid /\ r \in Listed
    BY <1>11, TicksAssumption DEF Listed
  <2>2. p \notin Descendants(AsListed, r)
    BY <1>11 DEF Exit, TreesOf, Family, AsListed
  <2> DEFINE S == Descendants(AsListed', r)
  <2>3. r \in S
    BY <1>1, <1>3, <2>1, DescendantsAre
  <2>4. ASSUME NEW x \in AsListed, x.parent \in S PROVE x.pid \in S
    <3>1. PICK q \in Listed : x = ReadRow(q)
      BY DEF AsListed
    <3>2. parent[q] # p
      BY <1>2, <1>6, <2>2, <2>4, <3>1
    <3>3. ReadRow(q)' \in AsListed' /\ ReadRow(q)'.parent \in S
      BY <1>2, <1>3, <1>4, <2>4, <3>1, <3>2 DEF AsListed, Listed
    <3> QED
      BY <1>2, <3>1, <3>3, DescendantsAre
  <2>5. Descendants(AsListed, r) \subseteq S
    <3> HIDE DEF S
    <3> QED
      BY <2>3, <2>4, DescendantsAre
  <2> DEFINE A == Tree(AsListed, r)
             B == Tree(AsListed', r)
  <2>6. \A x \in A : \E y \in B : y.pid = x.pid /\ x.ticks <= y.ticks
    BY <1>8, <1>9, <2>5 DEF Tree
  <2>7. Counts(A) /\ OnePerPid(A) /\ Counts(B)
    BY <1>1, TreeCounts
  <2> HIDE DEF A, B
  <2>8. Ticks(A) <= Ticks(B)
    BY <2>6, <2>7, TicksBounded
  <2> QED
    BY <2>8 DEF A, B, Used
<1>12. ASSUME life[r] # "free", r \notin left' PROVE Used(r)' = Used(r)
  <2>1. CASE orphans = {}
    BY <1>5, <2>1 DEF Used
  <2>2. CASE orphans # {}
    BY <1>1, <1>10, <1>11, <1>12, <2>2
  <2> QED
    BY <2>1, <2>2
<1>13. ASSUME ~raced', Scanning PROVE Pending' = Pending
  BY <1>5, <1>13 DEF Exit
<1> QED
  BY <1>10, <1>12, <1>13

\* A zombie has no children.
LEMMA ZombieRows ==
    ASSUME TicksInv, NEW p \in Pid, life[p] = "zombie", NEW r \in Root, r # p
    PROVE  LET leaf == ReadRow(p)
               rest == AsListed \ {leaf}
           IN  /\ leaf \in AsListed
               /\ Counts(rest) /\ OnePerPid(rest)
               /\ Descendants(rest, r) = Descendants(AsListed, r) \ {p}
               /\ Ticks(Tree(rest, r)) \in Nat
               /\ Used(r) = Ticks(Tree(rest, r))
                              + IF p \in Descendants(AsListed, r) THEN leaf.ticks ELSE 0
               /\ p \in Descendants(AsListed, r) <=> parent[p] \in Descendants(AsListed, r)
<1> DEFINE leaf == ReadRow(p)
           rest == AsListed \ {leaf}
<1>1. OnePerPid(AsListed) /\ Counts(AsListed)
  BY RowsOfTheTable DEF TicksInv, RowsInv
<1>2. \A q : ReadRow(q).pid = q /\ ReadRow(q).parent = parent[q]
  BY DEF ReadRow
<1>3. p \in Listed /\ leaf \in AsListed
  BY DEF Listed, AsListed
<1>4. \A x \in AsListed : x.parent # p
  <2>1. ASSUME NEW q \in Listed PROVE parent[q] # p
    BY NumbersOfPids DEF TicksInv, TableInv, Listed
  <2> QED
    BY <1>2, <2>1 DEF AsListed
<1>5. leaf.pid = p /\ leaf.parent = parent[p] /\ leaf.parent # leaf.pid
  BY <1>2, <1>3, <1>4
<1>6. Counts(rest) /\ OnePerPid(rest)
  <2>1. IsFiniteSet(rest)
    BY <1>1, FS_RemoveElement DEF Counts
  <2> QED
    BY <1>1, <2>1 DEF Counts, OnePerPid
<1>7. /\ Descendants(rest, r) = Descendants(AsListed, r) \ {p}
      /\ Used(r) = Ticks(Tree(rest, r))
                     + IF p \in Descendants(AsListed, r) THEN leaf.ticks ELSE 0
      /\ p \in Descendants(AsListed, r) => parent[p] \in Descendants(AsListed, r)
  <2> HIDE DEF leaf
  <2>1. /\ Descendants(AsListed \ {leaf}, r) = Descendants(AsListed, r) \ {leaf.pid}
        /\ Ticks(Tree(AsListed, r)) = Ticks(Tree(AsListed \ {leaf}, r))
              + IF leaf.pid \in Descendants(AsListed, r) THEN leaf.ticks ELSE 0
        /\ leaf.pid \in Descendants(AsListed, r) => leaf.parent \in Descendants(AsListed, r)
    <3>1. leaf \in AsListed /\ leaf.parent # leaf.pid /\ r # leaf.pid
          /\ \A x \in AsListed : x.parent # leaf.pid
      BY <1>3, <1>4, <1>5
    <3> QED
      BY <1>1, <3>1, LeafLeaves
  <2> QED
    BY <1>5, <2>1 DEF Used
<1>8. parent[p] \in Descendants(AsListed, r) => p \in Descendants(AsListed, r)
  BY <1>3, <1>5, DescendantsAre
<1>9. Ticks(Tree(rest, r)) \in Nat
  <2> HIDE DEF rest
  <2> QED
    BY <1>6, TreeCounts
<1> QED
  BY <1>3, <1>6, <1>7, <1>8, <1>9

\* A zombie nobody waits for takes its ticks out of its trees.
LEMMA VanishRows ==
    ASSUME TicksInv, NEW p \in Pid, Vanish(p), NEW r \in Root, r # p
    PROVE  /\ Used(r)' <= Used(r)
           /\ r \notin left' => Used(r)' = Used(r)
<1> DEFINE leaf == ReadRow(p)
           rest == AsListed \ {leaf}
<1>1. \A q \in Pid \ {p} : ReadRow(q)' = ReadRow(q)
  BY DEF Vanish, Leave, ReadRow, TicksInv, TicksTypeOK
<1>2. Listed' = Listed \ {p} /\ p \in Listed
  BY DEF Vanish, Leave, Listed, TicksInv, TicksTypeOK
<1>3. \A q : ReadRow(q).pid = q
  BY DEF ReadRow
<1>4. AsListed' = rest
  BY <1>1, <1>2, <1>3 DEF AsListed, Listed
<1>5. /\ Ticks(Tree(rest, r)) \in Nat
      /\ Used(r) = Ticks(Tree(rest, r))
                              + IF p \in Descendants(AsListed, r) THEN leaf.ticks ELSE 0
  BY ZombieRows DEF Vanish
<1>6. Used(r)' = Ticks(Tree(rest, r))
  BY <1>4 DEF Used
<1>7. leaf.ticks \in Nat
  BY <1>2, RowsOfTheTable DEF TicksInv, RowsInv, Row
<1>8. r \notin left' => p \notin Descendants(AsListed, r)
  BY DEF Vanish, TreesOf, Family, AsListed
<1> HIDE DEF rest, leaf
<1> QED
  BY <1>5, <1>6, <1>7, <1>8

\* One that is waited for leaves them in every tree of its parent.
LEMMA ReapRows ==
    ASSUME TicksInv, NEW p \in Pid, Reap(p), NEW r \in Root, r # p
    PROVE  Used(r)' = Used(r)
<1>1. PICK q \in Pid : q = parent[p] /\ q # p /\ life[q] = "run"
  BY DEF Reap, TicksInv, TicksTypeOK
<1> DEFINE leaf == ReadRow(p)
           rest == AsListed \ {leaf}
           old == ReadRow(q)
           new == ReadRow(q)'
<1>2. /\ \A s : ReadRow(s).pid = s /\ ReadRow(s)'.pid = s
      /\ \A s : ReadRow(s).parent = parent[s] /\ ReadRow(s)'.parent = parent[s]'
      /\ \A s : ReadRow(s).ticks = cpu[s] + waited[s] /\ ReadRow(s)'.ticks = cpu[s]' + waited[s]'
  BY DEF ReadRow
<1>3. /\ \A s \in Pid \ {p, q} : ReadRow(s)' = ReadRow(s)
      /\ parent[q]' = parent[q] /\ cpu[q]' = cpu[q] /\ waited[q]' = waited[q] + waited[p] + cpu[p]
  BY <1>1 DEF Reap, Leave, ReadRow, TicksInv, TicksTypeOK
<1>4. Listed' = Listed \ {p} /\ p \in Listed /\ q \in Listed
  BY <1>1 DEF Reap, Leave, Listed, TicksInv, TicksTypeOK
<1>5. AsListed' = (rest \ {old}) \cup {new} /\ old \in rest
  BY <1>1, <1>2, <1>3, <1>4 DEF AsListed, Listed
<1>6. new.pid = old.pid /\ new.parent = old.parent /\ new.ticks = old.ticks + leaf.ticks
      /\ leaf.ticks \in Nat /\ old.pid = q
  <2>1. cpu[p] \in Nat /\ waited[p] \in Nat /\ cpu[q] \in Nat /\ waited[q] \in Nat
    BY <1>1 DEF TicksInv, TicksTypeOK
  <2> QED
    BY <1>2, <1>3, <2>1
<1>7. /\ Counts(rest) /\ OnePerPid(rest)
      /\ Descendants(rest, r) = Descendants(AsListed, r) \ {p}
      /\ Ticks(Tree(rest, r)) \in Nat
      /\ Used(r) = Ticks(Tree(rest, r))
                     + IF p \in Descendants(AsListed, r) THEN leaf.ticks ELSE 0
      /\ p \in Descendants(AsListed, r) <=> q \in Descendants(AsListed, r)
  BY <1>1, ZombieRows DEF Reap
<1>8. Ticks(Tree(AsListed', r)) =
        Ticks(Tree(rest, r)) + IF old.pid \in Descendants(rest, r) THEN leaf.ticks ELSE 0
  <2> HIDE DEF rest, old, new, leaf
  <2>1. PICK k \in Nat : k = leaf.ticks
    BY <1>6
  <2>2. Counts(rest) /\ OnePerPid(rest) /\ old \in rest
    BY <1>5, <1>7
  <2>3. new.pid = old.pid /\ new.parent = old.parent /\ new.ticks = old.ticks + k
    BY <1>6, <2>1
  <2>4. Ticks(Tree((rest \ {old}) \cup {new}, r)) =
        Ticks(Tree(rest, r)) + IF old.pid \in Descendants(rest, r) THEN k ELSE 0
    BY <2>2, <2>3, RowGrows
  <2> QED
    BY <1>5, <2>1, <2>4
<1>9. old.pid \in Descendants(rest, r) <=> p \in Descendants(AsListed, r)
  BY <1>1, <1>6, <1>7
<1>10. Used(r)' = Ticks(Tree(AsListed', r))
  BY DEF Used
<1> HIDE DEF rest, leaf, old, new
<1> QED
  BY <1>7, <1>8, <1>9, <1>10

\* The collector adds up the rows of the tree among those it has read.
LEMMA TreeTicksIsSum ==
    ASSUME TicksInv, NEW r
    PROVE  TreeTicks(r) = Ticks(Tree(raw, r)) /\ TreeTicks(r) \in Nat
<1>1. TreeTicks(r) = Ticks(Tree(raw, r))
  BY DEF TreeTicks, Ticks, Tree
<1> QED
  BY <1>1, RowsOfTheTable, TreeCounts DEF TicksInv, RowsInv

\* The identity it gives a root is that of the row it has read of it.
LEMMA IdentityIsRead ==
    ASSUME NEW r, \E x \in raw : x.pid = r
    PROVE  \E x \in raw : x.pid = r /\ Identity(r) = x.start
BY DEF Identity

\* Every step keeps the types ...
LEMMA TypeStep ==
    ASSUME TicksInv, [TicksNext]_ticksVars
    PROVE  TicksTypeOK'
<1> USE DEF TicksTypeOK, TicksInv
<1>1. ASSUME NEW p \in Pid, Work(p) PROVE TicksTypeOK'
  <2>1. cpu[p] + 1 \in Nat /\ work + 1 \in Nat
    OBVIOUS
  <2>2. cpu' \in [Pid -> Nat] /\ work' \in Nat
    BY <1>1, <2>1 DEF Work
  <2>3. total' \in [Root -> Nat]
    <3>1. \A r \in Root : (IF r \in TreesOf(p) THEN total[r] + 1 ELSE total[r]) \in Nat
      OBVIOUS
    <3> QED
      BY <1>1, <3>1 DEF Work
  <2> QED
    BY <1>1, <2>2, <2>3 DEF Work, collector
<1>2. ASSUME NEW p \in Pid, Exit(p) PROVE TicksTypeOK'
  BY <1>2 DEF Exit, collector, bounds, TreesOf
<1>3. ASSUME NEW p \in Pid, Reap(p) PROVE TicksTypeOK'
  <2>1. waited[parent[p]] + waited[p] + cpu[p] \in Nat
    BY <1>3 DEF Reap
  <2> QED
    BY <1>3, <2>1 DEF Reap, Leave, collector, bounds
<1>4. ASSUME NEW p \in Pid, Vanish(p) PROVE TicksTypeOK'
  BY <1>4 DEF Vanish, Leave, collector, bounds, TreesOf
<1>5. ASSUME NEW p \in Pid, NEW by \in Pid \cup {0}, Fork(by, p) PROVE TicksTypeOK'
  <2>1. forks + 1 \in Nat
    OBVIOUS
  <2>2. /\ life' \in [Pid -> {"free", "run", "zombie"}] /\ start' \in [Pid -> Nat]
        /\ parent' \in [Pid -> Pid \cup {0}] /\ forks' \in Nat
        /\ cpu' \in [Pid -> Nat] /\ waited' \in [Pid -> Nat]
    BY <1>5, <2>1 DEF Fork
  <2>3. total' \in [Root -> Nat] /\ left' \subseteq Root
    BY <1>5 DEF Fork
  <2> QED
    BY <1>5, <2>2, <2>3 DEF Fork, collector
<1>6. ASSUME NEW roots \in SUBSET Root, BeginScan(roots) PROVE TicksTypeOK'
  BY <1>6 DEF BeginScan, table, Listed
<1>7. CASE ReadProcess
  <2>1. \A p \in Pid : ReadRow(p) \in Row
    BY RowsOfTheTable DEF RowsInv
  <2> QED
    BY <1>7, <2>1 DEF ReadProcess, table, bounds
<1>8. CASE FinishScan
  <2>1. \A r \in Root : TreeTicks(r) \in Nat
    BY TreeTicksIsSum
  <2>2. \A r : (\E x \in raw : x.pid = r) => Identity(r) \in Nat
    BY IdentityIsRead DEF Row
  <2>3. \A r \in Root : Report(r) \in Nat
    BY <2>1 DEF Report
  <2> DEFINE met == {r \in scan : r \in {x.pid : x \in raw}}
  <2>4. \A r \in met : \E x \in raw : x.pid = r
    OBVIOUS
  <2>5. previous' \in [Root -> [start : Nat, ticks : Nat]]
    <3>1. previous' = [r \in Root |->
                IF r \in met THEN [start |-> Identity(r), ticks |-> TreeTicks(r)]
                ELSE Unknown]
      BY <1>8 DEF FinishScan
    <3> HIDE DEF met
    <3> QED
      BY <2>1, <2>2, <2>4, <3>1 DEF Unknown
  <2>6. first' \in [Root -> Nat]
    <3>1. first' = [r \in Root |->
                IF r \notin met THEN 0 ELSE IF Known(r) THEN first[r] ELSE TreeTicks(r)]
      BY <1>8 DEF FinishScan
    <3> HIDE DEF met
    <3> QED
      BY <2>1, <3>1
  <2>7. charged' \in [Root -> Nat]
    <3>1. charged' = [r \in Root |->
                IF r \in met /\ Known(r) THEN charged[r] + Report(r) ELSE 0]
      BY <1>8 DEF FinishScan
    <3>2. \A r \in Root : charged[r] + Report(r) \in Nat
      BY <2>3
    <3> HIDE DEF met
    <3> QED
      BY <3>1, <3>2
  <2> QED
    BY <1>8, <2>5, <2>6, <2>7 DEF FinishScan, table, bounds, Idle
<1>9. CASE UNCHANGED ticksVars
  BY <1>9 DEF ticksVars, table, collector, bounds
<1> QED
  BY <1>1, <1>2, <1>3, <1>4, <1>5, <1>6, <1>7, <1>8, <1>9 DEF TicksNext

\* ... the links of the table ...
LEMMA TableStep ==
    ASSUME TicksInv, [TicksNext]_ticksVars
    PROVE  TableInv'
<1> USE NumbersOfPids DEF TicksTypeOK, TicksInv, TableInv
<1>1. ASSUME NEW p \in Pid, Work(p) PROVE TableInv'
  BY <1>1 DEF Work, collector
<1>2. ASSUME NEW p \in Pid, Exit(p) PROVE TableInv'
  BY <1>2 DEF Exit, collector, bounds, Listed
<1>3. ASSUME NEW p \in Pid, Reap(p) PROVE TableInv'
  BY <1>3 DEF Reap, Leave, collector, bounds
<1>4. ASSUME NEW p \in Pid, Vanish(p) PROVE TableInv'
  BY <1>4 DEF Vanish, Leave, collector, bounds
<1>5. ASSUME NEW p \in Pid, NEW by \in Pid \cup {0}, Fork(by, p) PROVE TableInv'
  BY <1>5 DEF Fork, collector, Row
<1>6. ASSUME NEW roots \in SUBSET Root, BeginScan(roots) PROVE TableInv'
  BY <1>6 DEF BeginScan, table
<1>7. CASE ReadProcess
  <2>1. \A p \in Pid : life[p] # "free" => ReadRow(p).start > 0 /\ ReadRow(p).start <= forks
    BY DEF ReadRow
  <2> QED
    BY <1>7, <2>1 DEF ReadProcess, table, bounds
<1>8. CASE FinishScan
  <2>1. \A r : (\E x \in raw : x.pid = r) => Identity(r) > 0 /\ Identity(r) <= forks
    BY IdentityIsRead
  <2> QED
    BY <1>8, <2>1 DEF FinishScan, table, bounds, Unknown
<1>9. CASE UNCHANGED ticksVars
  BY <1>9 DEF ticksVars, table, collector, bounds
<1> QED
  BY <1>1, <1>2, <1>3, <1>4, <1>5, <1>6, <1>7, <1>8, <1>9 DEF TicksNext

\* ... and what is read of it.
LEMMA ScanStep ==
    ASSUME TicksInv, [TicksNext]_ticksVars
    PROVE  ScanInv'
<1> USE DEF TicksTypeOK, TicksInv, ScanInv, Scanning
<1>1. ASSUME NEW p \in Pid, Work(p) PROVE ScanInv'
  BY <1>1 DEF Work, collector, Listed, OnePerPid, Row
<1>2. ASSUME NEW p \in Pid, Exit(p) PROVE ScanInv'
  BY <1>2 DEF Exit, collector, bounds, Listed, OnePerPid, Row
<1>3. ASSUME NEW p \in Pid, Reap(p) PROVE ScanInv'
  BY <1>3 DEF Reap, Leave, collector, bounds, OnePerPid
<1>4. ASSUME NEW p \in Pid, Vanish(p) PROVE ScanInv'
  BY <1>4 DEF Vanish, Leave, collector, bounds, OnePerPid
<1>5. ASSUME NEW p \in Pid, NEW by \in Pid \cup {0}, Fork(by, p) PROVE ScanInv'
  BY <1>5 DEF Fork, collector, Listed, OnePerPid
<1>6. ASSUME NEW roots \in SUBSET Root, BeginScan(roots) PROVE ScanInv'
  <2>1. raw' = {} /\ todo' = Listed /\ Listed' = Listed
    BY <1>6 DEF BeginScan, table, Listed
  <2>2. \A p : ReadRow(p)' = ReadRow(p)
    BY <1>6 DEF BeginScan, table, ReadRow
  <2>3. Pending' = AsListed /\ AsListed' = AsListed
    BY <2>1, <2>2 DEF Pending, AsListed
  <2> QED
    BY <2>1, <2>3 DEF OnePerPid
<1>7. CASE ReadProcess
  <2>1. PICK p \in todo : /\ todo' = todo \ {p}
                          /\ raw' = IF life[p] = "free" THEN raw ELSE raw \cup {ReadRow(p)}
    BY <1>7 DEF ReadProcess
  <2>2. \A q : ReadRow(q)' = ReadRow(q)
    BY <1>7 DEF ReadProcess, table, ReadRow
  <2>3. Listed' = Listed /\ AsListed' = AsListed
    BY <1>7, <2>2 DEF ReadProcess, table, Listed, AsListed
  <2>4. /\ ReadRow(p).pid = p /\ ReadRow(p).parent = parent[p] /\ ReadRow(p).start = start[p]
        /\ ReadRow(p).ticks = cpu[p] + waited[p]
    BY DEF ReadRow
  <2>5. OnePerPid(raw') /\ \A x \in raw' : x.pid \notin todo'
    BY <2>1, <2>4 DEF OnePerPid
  <2>6. ASSUME Scanning', ~raced'
        PROVE  /\ todo' \subseteq Listed'
               /\ \A x \in raw' : /\ x.pid \in Listed'
                                  /\ x.parent = parent[x.pid]'
                                  /\ x.start = start[x.pid]'
                                  /\ x.ticks <= cpu[x.pid]' + waited[x.pid]'
               /\ still' => Pending' = AsListed'
    <3>1. Scanning /\ ~raced /\ still' = still /\ UNCHANGED table
      BY <1>7, <2>6 DEF ReadProcess
    <3>2. life[p] # "free" /\ p \in Pid
      BY <2>1, <3>1 DEF Listed
    <3>3. Pending' = Pending
      BY <2>1, <2>2, <3>2 DEF Pending
    <3>4. cpu[p] + waited[p] \in Nat
      BY <3>2
    <3> QED
      BY <2>1, <2>3, <2>4, <3>1, <3>2, <3>3, <3>4 DEF table, Listed
  <2> QED
    BY <2>5, <2>6 DEF ScanInv
<1>8. CASE FinishScan
  BY <1>8 DEF FinishScan, OnePerPid
<1>9. CASE UNCHANGED ticksVars
  <2>1. Pending' = Pending /\ AsListed' = AsListed /\ Listed' = Listed
    BY <1>9 DEF ticksVars, table, collector, bounds, Listed, AsListed, Pending, ReadRow
  <2> QED
    BY <1>9, <2>1 DEF ticksVars, table, collector, bounds
<1> QED
  BY <1>1, <1>2, <1>3, <1>4, <1>5, <1>6, <1>7, <1>8, <1>9 DEF TicksNext

\* The rows change only with the table.
LEMMA SameTable ==
    ASSUME UNCHANGED table
    PROVE  /\ AsListed' = AsListed
           /\ \A p : ReadRow(p)' = ReadRow(p)
           /\ \A r : Used(r)' = Used(r)
<1>1. \A p : ReadRow(p)' = ReadRow(p)
  BY DEF ReadRow, table
<1>2. AsListed' = AsListed
  BY <1>1 DEF AsListed, Listed, table
<1> QED
  BY <1>1, <1>2 DEF Used

\* Every step keeps what trees show beside what was used in them.
LEMMA UsedStep ==
    ASSUME TicksInv, TicksTypeOK', ScanInv', [TicksNext]_ticksVars
    PROVE  UsedInv'
<1> SUFFICES ASSUME NEW r \in Root, life[r]' # "free"
             PROVE  /\ Used(r)' <= total[r]'
                    /\ r \notin left' => Used(r)' = total[r]'
  BY DEF UsedInv
<1>1. /\ life[r] # "free" => Used(r) <= total[r] /\ (r \notin left => Used(r) = total[r])
      /\ Used(r) \in Nat /\ Used(r)' \in Nat /\ total[r] \in Nat
      /\ r \in Pid
  BY RowsOfTheTable, RowsAfter, TicksAssumption DEF TicksInv, UsedInv, RowsInv, TicksTypeOK
<1>2. ASSUME NEW p \in Pid, Work(p) PROVE Used(r)' <= total[r]' /\ (r \notin left' => Used(r)' = total[r]')
  <2>1. life[r] # "free" /\ left' = left
    BY <1>2 DEF Work
  <2>2. total[r]' = total[r] + IF r \in TreesOf(p) THEN 1 ELSE 0
    BY <1>1, <1>2 DEF Work
  <2>3. Used(r)' = Used(r) + IF r \in TreesOf(p) THEN 1 ELSE 0
    BY <1>2, WorkRows
  <2> QED
    BY <1>1, <2>1, <2>2, <2>3
<1>3. ASSUME NEW p \in Pid, Exit(p) PROVE Used(r)' <= total[r]' /\ (r \notin left' => Used(r)' = total[r]')
  <2>1. life[r] # "free"
    BY <1>1, <1>3 DEF Exit, TicksInv, TicksTypeOK
  <2>2. total' = total /\ left \subseteq left'
    BY <1>3 DEF Exit
  <2>3. Used(r)' <= Used(r) /\ (r \notin left' => Used(r)' = Used(r))
    BY <1>3, <2>1, ExitRows
  <2> QED
    BY <1>1, <2>1, <2>2, <2>3
<1>4. ASSUME NEW p \in Pid, Reap(p) PROVE Used(r)' <= total[r]' /\ (r \notin left' => Used(r)' = total[r]')
  <2>1. r # p /\ life[r] # "free" /\ total' = total /\ left' = left
    BY <1>1, <1>4 DEF Reap, Leave, TicksInv, TicksTypeOK
  <2>2. Used(r)' = Used(r)
    BY <1>4, <2>1, ReapRows
  <2> QED
    BY <1>1, <2>1, <2>2
<1>5. ASSUME NEW p \in Pid, Vanish(p) PROVE Used(r)' <= total[r]' /\ (r \notin left' => Used(r)' = total[r]')
  <2>1. r # p /\ life[r] # "free" /\ total' = total /\ left \subseteq left'
    BY <1>1, <1>5 DEF Vanish, Leave, TicksInv, TicksTypeOK
  <2>2. Used(r)' <= Used(r) /\ (r \notin left' => Used(r)' = Used(r))
    BY <1>5, <2>1, VanishRows
  <2> QED
    BY <1>1, <2>1, <2>2
<1>6. ASSUME NEW p \in Pid, NEW by \in Pid \cup {0}, Fork(by, p)
      PROVE  Used(r)' <= total[r]' /\ (r \notin left' => Used(r)' = total[r]')
  <2>1. /\ r # p => Used(r)' = Used(r) /\ total[r]' = total[r] /\ life[r] # "free"
        /\ r = p => Used(r)' = 0 /\ total[r]' = 0
        /\ r # p => (r \in left <=> r \in left')
    <3>1. (r # p => Used(r)' = Used(r)) /\ (r = p => Used(r)' = 0)
      BY <1>6, ForkRows
    <3>2. total[r]' = IF r = p THEN 0 ELSE total[r]
      BY <1>6 DEF Fork
    <3>3. r # p => life[r] # "free" /\ (r \in left <=> r \in left')
      BY <1>1, <1>6 DEF Fork, TicksInv, TicksTypeOK
    <3> QED
      BY <3>1, <3>2, <3>3
  <2> QED
    BY <1>1, <2>1
<1>7. ASSUME UNCHANGED <<table, total, left>>
      PROVE  Used(r)' <= total[r]' /\ (r \notin left' => Used(r)' = total[r]')
  <2>1. Used(r)' = Used(r)
    BY <1>7, SameTable
  <2>2. life[r] # "free" /\ total' = total /\ left' = left
    BY <1>7 DEF table
  <2> QED
    BY <1>1, <2>1, <2>2
<1>8. (\E roots \in SUBSET Root : BeginScan(roots)) \/ ReadProcess \/ FinishScan \/ UNCHANGED ticksVars
        => UNCHANGED <<table, total, left>>
  BY DEF BeginScan, ReadProcess, FinishScan, ticksVars
<1> QED
  BY <1>2, <1>3, <1>4, <1>5, <1>6, <1>7, <1>8 DEF TicksNext

\* The sums of one root.
Charged(r) ==
    /\ previous[r].ticks <= first[r] + charged[r]
    /\ first[r] + charged[r] <= total[r]
    /\ first[r] + charged[r] + Used(r) <= total[r] + previous[r].ticks
    /\ Scanning => first[r] + charged[r] + Used(r) <= total[r] + ReadSoFar(r)
    /\ ~Scanning /\ still => previous[r].ticks = Used(r)

\* No step of a process disturbs the books.
LEMMA ChargeByProcesses ==
    ASSUME TicksInv, TicksTypeOK', ScanInv', UNCHANGED <<scan, previous, first, charged>>,
           \/ \E p \in Pid : Work(p) \/ Exit(p) \/ Reap(p) \/ Vanish(p)
           \/ \E p \in Pid, by \in Pid \cup {0} : Fork(by, p)
    PROVE  ChargeInv'
<1> SUFFICES ASSUME NEW r \in Root, Live(r)', ~raced' PROVE Charged(r)'
  BY DEF ChargeInv, Charged
<1>1. /\ Live(r) /\ ~raced => Charged(r)
      /\ Used(r) \in Nat /\ Used(r)' \in Nat /\ total[r] \in Nat /\ total[r]' \in Nat
      /\ ReadSoFar(r) \in Nat /\ ReadSoFar(r)' \in Nat
      /\ first[r] \in Nat /\ charged[r] \in Nat /\ previous[r].ticks \in Nat
      /\ r \in Pid
  BY RowsOfTheTable, RowsAfter, TicksAssumption
     DEF TicksInv, ChargeInv, Charged, RowsInv, TicksTypeOK
<1>2. /\ first' = first /\ charged' = charged /\ previous' = previous
      /\ (Scanning' <=> Scanning)
  BY DEF Scanning
<1>3. /\ start[r] <= forks /\ start[r] \in Nat /\ forks \in Nat
      /\ previous[r].start <= forks /\ previous[r].start \in Nat
      /\ previous[r] # Unknown => previous[r].start # 0
  BY <1>1 DEF TicksInv, TableInv, TicksTypeOK
<1>4. Live(r)' <=> previous[r] # Unknown /\ previous[r].start = start[r]'
  BY <1>2 DEF Live
<1> DEFINE Keeps(d) == /\ Live(r) /\ ~raced /\ ~still'
                       /\ Used(r)' <= Used(r) + d /\ total[r]' = total[r] + d
                       /\ Scanning => ReadSoFar(r) <= ReadSoFar(r)'
<1>5. ASSUME NEW p \in Pid, Work(p) PROVE Keeps(IF r \in TreesOf(p) THEN 1 ELSE 0)
  <2>1. start' = start /\ raced' = raced /\ still' = FALSE
    BY <1>5 DEF Work
  <2>2. total[r]' = total[r] + IF r \in TreesOf(p) THEN 1 ELSE 0
    BY <1>1, <1>5 DEF Work
  <2>3. /\ Used(r)' = Used(r) + IF r \in TreesOf(p) THEN 1 ELSE 0
        /\ ReadSoFar(r) <= ReadSoFar(r)'
    BY <1>5, WorkRows
  <2>4. Live(r)
    BY <1>4, <2>1 DEF Live
  <2> QED
    BY <1>1, <2>1, <2>2, <2>3, <2>4
<1>6. ASSUME NEW p \in Pid, Exit(p) PROVE Keeps(0)
  <2>1. start' = start /\ ~raced /\ still' = FALSE /\ total' = total
    BY <1>6 DEF Exit, bounds
  <2>2. Used(r)' <= Used(r) /\ (Scanning => Pending' = Pending)
    BY <1>6, ExitRows
  <2>3. Scanning => ReadSoFar(r)' = ReadSoFar(r)
    BY <2>2 DEF ReadSoFar
  <2>4. Live(r)
    BY <1>4, <2>1 DEF Live
  <2> QED
    BY <1>1, <2>1, <2>2, <2>3, <2>4
<1>7. ASSUME NEW p \in Pid, Leave(p) PROVE r # p /\ ~Scanning /\ ~raced /\ Live(r) /\ ~still' /\ total' = total
  <2>1. ~Scanning /\ ~raced /\ ~still' /\ total' = total
    BY <1>7 DEF Leave
  <2>2. start[r]' = IF r = p THEN 0 ELSE start[r]
    BY <1>1, <1>7 DEF Leave, TicksInv, TicksTypeOK
  <2>3. r # p
    BY <1>3, <1>4, <2>2
  <2> QED
    BY <1>4, <2>1, <2>2, <2>3 DEF Live
<1>8. ASSUME NEW p \in Pid, Reap(p) PROVE Keeps(0)
  <2>1. r # p /\ ~Scanning /\ ~raced /\ Live(r) /\ ~still' /\ total' = total
    BY <1>7, <1>8 DEF Reap
  <2>2. Used(r)' = Used(r)
    BY <1>8, <2>1, ReapRows
  <2> QED
    BY <1>1, <2>1, <2>2
<1>9. ASSUME NEW p \in Pid, Vanish(p) PROVE Keeps(0)
  <2>1. r # p /\ ~Scanning /\ ~raced /\ Live(r) /\ ~still' /\ total' = total
    BY <1>7, <1>9 DEF Vanish
  <2>2. Used(r)' <= Used(r)
    BY <1>9, <2>1, VanishRows
  <2> QED
    BY <1>1, <2>1, <2>2
<1>10. ASSUME NEW p \in Pid, NEW by \in Pid \cup {0}, Fork(by, p) PROVE Keeps(0)
  <2>1. /\ start[r]' = IF r = p THEN forks + 1 ELSE start[r]
        /\ total[r]' = IF r = p THEN 0 ELSE total[r]
        /\ ~raced /\ ~still'
    BY <1>1, <1>10 DEF Fork, TicksInv, TicksTypeOK
  <2>2. r # p
    BY <1>3, <1>4, <2>1
  <2>3. Used(r)' = Used(r) /\ (Scanning => Pending' = Pending)
    BY <1>10, <2>1, <2>2, ForkRows
  <2>4. Scanning => ReadSoFar(r)' = ReadSoFar(r)
    BY <2>3 DEF ReadSoFar
  <2>5. Live(r)
    BY <1>4, <2>1, <2>2 DEF Live
  <2> QED
    BY <1>1, <2>1, <2>2, <2>3, <2>4, <2>5
<1>11. PICK d \in {0, 1} : Keeps(d)
  BY <1>5, <1>6, <1>8, <1>9, <1>10
<1>12. /\ Charged(r) /\ Used(r)' <= Used(r) + d /\ total[r]' = total[r] + d
       /\ Scanning => ReadSoFar(r) <= ReadSoFar(r)'
       /\ ~still'
  BY <1>1, <1>11
<1>13. Charged(r)' <=>
         /\ previous[r].ticks <= first[r] + charged[r]
         /\ first[r] + charged[r] <= total[r]'
         /\ first[r] + charged[r] + Used(r)' <= total[r]' + previous[r].ticks
         /\ Scanning => first[r] + charged[r] + Used(r)' <= total[r]' + ReadSoFar(r)'
         /\ ~Scanning /\ still' => previous[r].ticks = Used(r)'
  BY <1>2 DEF Charged
<1> QED
  BY <1>1, <1>12, <1>13 DEF Charged

\* No step of a scan does: the report at its end is what the tree has used since.
LEMMA ChargeByCollector ==
    ASSUME TicksInv, TicksTypeOK', ScanInv',
           \/ \E roots \in SUBSET Root : BeginScan(roots)
           \/ ReadProcess
           \/ FinishScan
    PROVE  ChargeInv'
<1> SUFFICES ASSUME NEW r \in Root, Live(r)', ~raced' PROVE Charged(r)'
  BY DEF ChargeInv, Charged
<1>1. /\ Live(r) /\ ~raced => Charged(r)
      /\ Used(r) \in Nat /\ Used(r)' \in Nat /\ total[r] \in Nat
      /\ ReadSoFar(r) \in Nat /\ ReadSoFar(r)' \in Nat
      /\ first[r] \in Nat /\ charged[r] \in Nat /\ previous[r].ticks \in Nat
      /\ r \in Pid
  BY RowsOfTheTable, RowsAfter, TicksAssumption
     DEF TicksInv, ChargeInv, Charged, RowsInv, TicksTypeOK
<1>2. /\ UNCHANGED <<table, total, raced>>
      /\ Used(r)' = Used(r) /\ AsListed' = AsListed /\ \A p : ReadRow(p)' = ReadRow(p)
  BY SameTable DEF BeginScan, ReadProcess, FinishScan
<1>3. ~raced /\ total[r]' = total[r] /\ start[r]' = start[r]
  BY <1>2 DEF table
<1>4. ASSUME NEW roots \in SUBSET Root, BeginScan(roots) PROVE Charged(r)'
  <2>1. first' = first /\ charged' = charged /\ previous' = previous
    BY <1>4 DEF BeginScan
  <2>2. Live(r) /\ Charged(r)
    BY <1>1, <1>3, <2>1 DEF Live
  <2>3. Pending' = AsListed
    BY <1>2, <1>4 DEF BeginScan, Pending, AsListed
  <2>4. ReadSoFar(r)' = Used(r)
    BY <2>3 DEF ReadSoFar, Used
  <2>5. Scanning'
    BY <1>4, NumbersOfPids, TicksAssumption DEF BeginScan, Scanning, Idle
  <2> QED
    BY <1>1, <1>2, <1>3, <2>1, <2>2, <2>4, <2>5 DEF Charged
<1>5. CASE ReadProcess
  <2>1. first' = first /\ charged' = charged /\ previous' = previous /\ Scanning /\ Scanning'
    BY <1>5 DEF ReadProcess, Scanning
  <2>2. Live(r) /\ Charged(r)
    BY <1>1, <1>3, <2>1 DEF Live
  <2>3. Pending' = Pending
    <3>1. PICK p \in todo : /\ todo' = todo \ {p}
                            /\ raw' = IF life[p] = "free" THEN raw ELSE raw \cup {ReadRow(p)}
      BY <1>5 DEF ReadProcess
    <3>2. life[p] # "free"
      BY <1>3, <2>1, <3>1 DEF TicksInv, ScanInv, Listed
    <3> QED
      BY <1>2, <3>1, <3>2 DEF Pending
  <2>4. ReadSoFar(r)' = ReadSoFar(r)
    BY <2>3 DEF ReadSoFar
  <2> QED
    BY <1>1, <1>2, <1>3, <2>1, <2>2, <2>4 DEF Charged
<1>6. CASE FinishScan
  <2> DEFINE met == {s \in scan : s \in {x.pid : x \in raw}}
             ticks == TreeTicks(r)
  <2>1. /\ previous[r]' = IF r \in met THEN [start |-> Identity(r), ticks |-> TreeTicks(r)]
                          ELSE Unknown
        /\ first[r]' = IF r \notin met THEN 0 ELSE IF Known(r) THEN first[r] ELSE TreeTicks(r)
        /\ charged[r]' = IF r \in met /\ Known(r) THEN charged[r] + Report(r) ELSE 0
        /\ Scanning /\ todo = {} /\ ~Scanning' /\ still' = still
    BY <1>6 DEF FinishScan, Scanning
  <2>2. r \in met
    BY <2>1 DEF Live
  <2>3. previous[r]' = [start |-> Identity(r), ticks |-> ticks]
    BY <2>1, <2>2
  <2>4. Identity(r) = start[r]
    BY <1>3, <2>3 DEF Live
  <2>5. Pending = raw
    BY <2>1 DEF Pending
  <2>6. ticks = ReadSoFar(r) /\ ticks \in Nat
    BY <2>5, TreeTicksIsSum DEF ReadSoFar
  <2>7. still => ticks = Used(r)
    <3>1. still => Pending = AsListed
      BY <1>3, <2>1 DEF TicksInv, ScanInv
    <3> QED
      BY <2>6, <3>1 DEF ReadSoFar, Used
  <2>8. ticks <= Used(r)
    <3>1. \A x \in raw : \E y \in AsListed :
                y.pid = x.pid /\ x.parent = y.parent /\ x.ticks <= y.ticks
      <4>1. \A p : /\ ReadRow(p).pid = p /\ ReadRow(p).parent = parent[p]
                   /\ ReadRow(p).ticks = cpu[p] + waited[p]
        BY DEF ReadRow
      <4> QED
        BY <1>3, <2>1, <4>1 DEF TicksInv, ScanInv, AsListed
    <3>2. Descendants(raw, r) \subseteq Descendants(AsListed, r)
      BY <3>1, DescendantsWithin
    <3> DEFINE A == Tree(raw, r)
               B == Tree(AsListed, r)
    <3>3. \A x \in A : \E y \in B : y.pid = x.pid /\ x.ticks <= y.ticks
      BY <3>1, <3>2 DEF Tree
    <3>4. Counts(A) /\ OnePerPid(A) /\ Counts(B)
      BY RowsOfTheTable, TreeCounts DEF TicksInv, RowsInv
    <3> HIDE DEF A, B
    <3>5. Ticks(A) <= Ticks(B)
      BY <3>3, <3>4, TicksBounded
    <3> QED
      BY <2>5, <2>6, <3>5 DEF A, B, Used, ReadSoFar
  <2>9. Used(r) <= total[r]
    <3>1. r \in Listed
      BY <1>3, <2>1, <2>2 DEF TicksInv, ScanInv
    <3> QED
      BY <3>1 DEF Listed, TicksInv, UsedInv
  <2> HIDE DEF met, ticks
  <2>10. CASE Known(r)
    <3>1. Live(r) /\ Charged(r)
      BY <1>1, <1>3, <2>4, <2>10 DEF Known, Live
    <3>2. /\ previous[r].ticks <= first[r] + charged[r]
          /\ first[r] + charged[r] <= total[r]
          /\ first[r] + charged[r] + Used(r) <= total[r] + previous[r].ticks
          /\ first[r] + charged[r] + Used(r) <= total[r] + ticks
      BY <2>1, <2>6, <3>1 DEF Charged
    <3>3. charged[r]' = charged[r] + IF ticks > previous[r].ticks THEN ticks - previous[r].ticks ELSE 0
      BY <2>1, <2>2, <2>10 DEF Report, ticks
    <3>4. first[r]' = first[r]
      BY <2>1, <2>2, <2>10
    <3>5. /\ ticks <= first[r]' + charged[r]'
          /\ first[r]' + charged[r]' <= total[r]
          /\ first[r]' + charged[r]' + Used(r) <= total[r] + ticks
      BY <1>1, <2>6, <2>8, <3>2, <3>3, <3>4
    <3> QED
      BY <1>2, <1>3, <2>1, <2>3, <2>7, <3>5 DEF Charged
  <2>11. CASE ~Known(r)
    <3>1. first[r]' = ticks /\ charged[r]' = 0
      BY <2>1, <2>2, <2>11 DEF ticks
    <3>2. /\ ticks <= first[r]' + charged[r]'
          /\ first[r]' + charged[r]' <= total[r]
          /\ first[r]' + charged[r]' + Used(r) <= total[r] + ticks
      BY <1>1, <2>6, <2>8, <2>9, <3>1
    <3> QED
      BY <1>2, <1>3, <2>1, <2>3, <2>7, <3>2 DEF Charged
  <2> QED
    BY <2>10, <2>11
<1> QED
  BY <1>4, <1>5, <1>6

\* The accounting of LinuxCollector keeps its books, whatever the processes do
\* between two scans and during one.
THEOREM TicksInvariant == TicksSpec => []TicksInv
<1>1. TicksInit => TicksInv
  <2> SUFFICES ASSUME TicksInit PROVE TicksInv
    OBVIOUS
  <2>1. TicksTypeOK
    BY DEF TicksInit, TicksTypeOK, Unknown, Idle
  <2>2. TableInv /\ ScanInv
    BY NumbersOfPids, TicksAssumption
       DEF TicksInit, TableInv, ScanInv, OnePerPid, Unknown, Scanning
  <2>3. \A r \in Root : life[r] = "free" /\ ~Live(r)
    BY TicksAssumption DEF TicksInit, Live
  <2> QED
    BY <2>1, <2>2, <2>3 DEF TicksInv, UsedInv, ChargeInv
<1>2. TicksInv /\ [TicksNext]_ticksVars => TicksInv'
  <2> SUFFICES ASSUME TicksInv, [TicksNext]_ticksVars PROVE TicksInv'
    OBVIOUS
  <2>1. TicksTypeOK' /\ TableInv' /\ ScanInv'
    BY TypeStep, TableStep, ScanStep
  <2>2. UsedInv'
    BY <2>1, UsedStep
  <2>3. ASSUME NEW p \in Pid, Work(p) \/ Exit(p) \/ Reap(p) \/ Vanish(p)
        PROVE  ChargeInv'
    <3>1. UNCHANGED <<scan, previous, first, charged>>
      BY <2>3 DEF Work, Exit, Reap, Vanish, Leave, collector
    <3> QED
      BY <2>1, <2>3, <3>1, ChargeByProcesses
  <2>4. ASSUME NEW p \in Pid, NEW by \in Pid \cup {0}, Fork(by, p) PROVE ChargeInv'
    <3>1. UNCHANGED <<scan, previous, first, charged>>
      BY <2>4 DEF Fork, collector
    <3> QED
      BY <2>1, <2>4, <3>1, ChargeByProcesses
  <2>5. ASSUME (\E roots \in SUBSET Root : BeginScan(roots)) \/ ReadProcess \/ FinishScan
        PROVE  ChargeInv'
    BY <2>1, <2>5, ChargeByCollector
  <2>6. ASSUME UNCHANGED ticksVars PROVE ChargeInv'
    <3>1. /\ UNCHANGED table
          /\ scan' = scan /\ previous' = previous /\ first' = first /\ charged' = charged
          /\ total' = total /\ raced' = raced /\ still' = still /\ start' = start
          /\ todo' = todo /\ raw' = raw
      BY <2>6 DEF ticksVars, table, collector
    <3>2. /\ \A r : Used(r)' = Used(r)
          /\ \A p : ReadRow(p)' = ReadRow(p)
      BY <3>1, SameTable
    <3>3. Pending' = Pending
      BY <3>1, <3>2 DEF Pending
    <3> QED
      <4> SUFFICES ASSUME NEW r \in Root, Live(r)', ~raced' PROVE Charged(r)'
        BY DEF ChargeInv, Charged
      <4>1. Charged(r)
        BY <3>1 DEF TicksInv, ChargeInv, Charged, Live
      <4>2. ReadSoFar(r)' = ReadSoFar(r) /\ Used(r)' = Used(r) /\ (Scanning' <=> Scanning)
        BY <3>1, <3>2, <3>3 DEF ReadSoFar, Scanning
      <4> QED
        BY <3>1, <4>1, <4>2 DEF Charged
  <2> QED
    BY <2>1, <2>2, <2>3, <2>4, <2>5, <2>6 DEF TicksInv, TicksNext
<1> QED
  BY <1>1, <1>2, PTL DEF TicksSpec

\* The types of the accounting.
THEOREM TicksTypes == TicksSpec => []TicksTypeOK
<1>1. TicksInv => TicksTypeOK
  BY DEF TicksInv
<1> QED
  BY <1>1, TicksInvariant, PTL

\* A pane is charged for the CPU time of its tree once: never for more than was
\* used, and for all of it unless a process left the tree without being waited for.
\* This is for scans in which no process leaves the table or changes its parent (~raced
\* in both parts of ChargedOnce); with one that is waited for while a scan reads, it
\* does not hold.
THEOREM ChargedOnceAlways == TicksSpec => []ChargedOnce
<1>1. TicksInv => ChargedOnce
  <2> SUFFICES ASSUME TicksInv, NEW r \in Root, UpToDate(r), ~raced
               PROVE  /\ first[r] + charged[r] <= total[r]
                      /\ still /\ r \notin left => first[r] + charged[r] = total[r]
    BY DEF ChargedOnce, NeverOvercharged, AllWorkIsCharged
  <2>1. ~Scanning /\ Live(r)
    BY DEF UpToDate, Live
  <2>2. Charged(r)
    BY <2>1 DEF TicksInv, ChargeInv, Charged
  <2>3. life[r] # "free"
    BY <2>1, TicksAssumption DEF Live, TicksInv, TableInv
  <2>4. /\ Used(r) <= total[r] /\ (r \notin left => Used(r) = total[r])
        /\ first[r] \in Nat /\ charged[r] \in Nat /\ total[r] \in Nat
    BY <2>3 DEF TicksInv, UsedInv, TicksTypeOK
  <2> QED
    BY <2>1, <2>2, <2>4 DEF Charged
<1> QED
  BY <1>1, TicksInvariant, PTL
----
\* TelemetryRing: its types, "newest-wins" and whole records (RecordsAreWhole),
\* and histories of one daemon (HistoryIsOneRun).
\*
\* None of the three is inductive.  A reader's view is of a file that was
\* written by daemons of several geometries and left by some of them in the
\* middle of a store.  RingInv therefore says of the file that is being written
\* which slots still hold what was published into them, step by step
\* (WindowFits, SlotFits, HeaderFits), and of every other file what these come
\* to when the writer goes away (Settled).  The arithmetic it rests on comes
\* first: two sequences less than a round apart are in different slots, and
\* slots do not overlap.

\* The cells of the slot of a sequence.
SlotCells(g, s) == Extent(Offset(g, s), g.size)

\* The slot of a sequence has its record, written by a daemon.
SlotWhole(cells, g, r, s) ==
    LET place == Offset(g, s)
        head == cells[place].head
    IN  /\ head \in Record /\ head.run = r /\ head.sequence = s /\ head.length <= g.size
        /\ \A i \in Extent(place, head.length) : cells[i].body = head

\* There is no record of that sequence in it.
SlotVoid(cells, g, s) ==
    LET head == cells[Offset(g, s)].head
    IN  head # None => head.sequence # s

\* The recent sequences that a daemon has published.
Published(r, g, latest) == {s \in Recent(latest, g) : <<r, s>> \notin skipped}

----
\* The inductive invariant, in parts.

Alive == wpc # "off"
Filling == {"fill", "slot", "commit"}
\* The header names what the daemon that runs has published last.
HeaderIsOwn == {"ready"} \cup Filling

Cell == [head : Record \cup {None}, body : Record \cup {None}]

RingFile == [header : Header \cup {None}, cells : Seq(Cell)]

RingShape ==
    /\ files \in Seq(RingFile)
    /\ \A f \in 1 .. Len(files) :
        files[f].header # None => Len(files[f].cells) = Size(files[f].header.geometry)
    /\ wpc \in {"off", "start", "reset", "ready", "advance"} \cup Filling
    /\ run \in 0 .. MaxRun /\ sequence \in 0 .. MaxSequence
    /\ record \in Record \cup {None}
    /\ skipped \subseteq Run \X (1 .. MaxSequence)
    /\ mapped \in [Reader -> [file : Nat, geometry : Geometry \cup {None}]]
    /\ \A r \in Reader : mapped[r] # Unmapped =>
        mapped[r].file \in 1 .. Len(files) /\ mapped[r].geometry \in Geometry

\* The writer has a file of its geometry, and counts its own samples.
WriterFits ==
    /\ Alive <=> own # None
    /\ Alive => /\ own \in Geometry /\ run \in Run
                /\ files # <<>> /\ Len(files[Current].cells) = Size(own)
    /\ \A u \in skipped : u[1] <= run /\ (Alive /\ u[1] = run => u[2] <= sequence)
    /\ wpc \in {"start", "reset"} => sequence = 0
    /\ wpc \in {"reset", "advance"} => files[Current].header = None
    /\ wpc \in Filling \cup {"advance"} =>
        /\ record \in Record /\ record.run = run /\ record.sequence = sequence
        /\ record.length <= own.size /\ <<run, sequence>> \notin skipped

\* What was published before the sample that is in hand.
Before == IF wpc = "ready" THEN sequence ELSE sequence - 1

\* The header of a daemon that runs names its last sample that was not skipped.
HeaderFits ==
    wpc \in HeaderIsOwn =>
        LET header == files[Current].header
        IN  /\ header # None /\ header.geometry = own /\ header.run = run
            /\ header.latest <= Before
            /\ header.latest > 0 => <<run, header.latest>> \notin skipped
            /\ \A s \in header.latest + 1 .. Before : <<run, s>> \in skipped

\* The slot that is being written.
SlotFits ==
    LET cells == files[Current].cells
        place == Offset(own, sequence)
        written == \A i \in Extent(place, record.length) : cells[i].body = record
    IN  /\ wpc \in {"fill", "slot"} => cells[place].head = None
        /\ wpc = "slot" => written
        /\ wpc \in {"commit", "advance"} => cells[place].head = record /\ written

\* Every other slot still has what was published into it.
WindowFits ==
    LET cells == files[Current].cells
        kept(s) == SlotWhole(cells, own, run, s)
    IN  /\ wpc = "ready" => \A s \in Published(run, own, files[Current].header.latest) : kept(s)
        /\ wpc \in Filling => \A s \in Published(run, own, files[Current].header.latest) :
               Offset(own, s) # Offset(own, sequence) => kept(s)
        /\ wpc = "advance" => \A s \in Published(run, own, sequence) \ {sequence} : kept(s)

\* What a reader of a file can rely on when nobody is writing it.
Settled(ring) ==
    LET header == ring.header
        g == header.geometry
        whole(s) == SlotWhole(ring.cells, g, header.run, s)
        round == header.latest + 1 .. header.latest + g.count - 1
        published == Published(header.run, g, header.latest)
    IN  header # None =>
        /\ header.latest > 0 /\ (\E s \in round : <<header.run, s>> \notin skipped) =>
               whole(header.latest)
        /\ \A s \in published : whole(s) \/ SlotVoid(ring.cells, g, s)
        /\ \A s, t \in published : s # t => whole(s) \/ whole(t)

OthersAreSettled ==
    \A f \in 1 .. Len(files) : f # Current \/ wpc \in {"off", "start"} => Settled(files[f])

RingInv ==
    RingShape /\ WriterFits /\ HeaderFits /\ SlotFits /\ WindowFits /\ OthersAreSettled

----
\* Where slots are.

\* Sequences that are less than a round apart are in different slots.
LEMMA RestsDiffer ==
    ASSUME NEW n \in Nat \ {0}, NEW a \in Nat, NEW b \in Nat, a < b, b - a < n
    PROVE  a % n # b % n
<1> DEFINE p == a \div n
           q == b \div n
<1>1. p \in Int /\ q \in Int /\ a - n * p = a % n /\ b - n * q = b % n
  OBVIOUS
<1> HIDE DEF p, q
<1>2. ASSUME a % n = b % n PROVE FALSE
  <2>1. b - a = n * (q - p)
    BY <1>1, <1>2
  <2>2. q - p >= 1
    BY <1>1, <2>1
  <2>3. n * (q - p) >= n
    BY <1>1, <2>2
  <2>4. QED
    BY <2>1, <2>3
<1>3. QED
  BY <1>2

\* Slots do not overlap.
LEMMA RowsApart ==
    ASSUME NEW size \in Nat \ {0}, NEW a \in Nat, NEW b \in Nat, a < b
    PROVE  a * size + size <= b * size
<1>1. (b - (a + 1)) * size >= 0
  OBVIOUS
<1>2. b * size = (b - (a + 1)) * size + a * size + size
  OBVIOUS
<1>3. a * size \in Nat /\ b * size \in Nat
  OBVIOUS
<1>4. QED
  BY <1>1, <1>2, <1>3

\* The slots of a ring lie in the cells of its file.
LEMMA SlotsInFile ==
    ASSUME NEW g \in [count : Nat, size : Nat \ {0}], g.count >= MinSlots, NEW s \in Nat \ {0}
    PROVE  /\ Offset(g, s) \in 1 .. Size(g) /\ SlotCells(g, s) \subseteq 1 .. Size(g)
           /\ Offset(g, s) \in SlotCells(g, s)
           /\ \A length \in 1 .. g.size : Extent(Offset(g, s), length) \subseteq SlotCells(g, s)
<1> DEFINE a == (s - 1) % g.count
<1>1. g.count \in Nat \ {0} /\ g.size \in Nat \ {0} /\ s - 1 \in Nat
  BY DEF MinSlots
<1>2. a \in Nat /\ a < g.count
  BY <1>1
<1>3. Offset(g, s) = a * g.size + 1
  BY DEF Offset
<1> HIDE DEF a
<1>4. a * g.size + g.size <= g.count * g.size
  BY <1>1, <1>2, RowsApart
<1>5. a * g.size \in Nat /\ g.count * g.size \in Nat
  BY <1>1, <1>2
<1>6. QED
  BY <1>1, <1>3, <1>4, <1>5 DEF Size, SlotCells, Extent

\* Two sequences have the same slot or slots that do not meet.
LEMMA SlotsApart ==
    ASSUME NEW g \in [count : Nat, size : Nat \ {0}], g.count >= MinSlots,
           NEW s \in Nat \ {0}, NEW t \in Nat \ {0}, Offset(g, s) # Offset(g, t)
    PROVE  SlotCells(g, s) \cap SlotCells(g, t) = {}
<1> DEFINE a == (s - 1) % g.count
           b == (t - 1) % g.count
<1>1. g.count \in Nat \ {0} /\ g.size \in Nat \ {0} /\ s - 1 \in Nat /\ t - 1 \in Nat
  BY DEF MinSlots
<1>2. a \in Nat /\ b \in Nat
  BY <1>1
<1>3. Offset(g, s) = a * g.size + 1 /\ Offset(g, t) = b * g.size + 1
  BY DEF Offset
<1> HIDE DEF a, b
<1>4. a # b
  BY <1>3
<1>5. a * g.size + g.size <= b * g.size \/ b * g.size + g.size <= a * g.size
  BY <1>1, <1>2, <1>4, RowsApart
<1>6. a * g.size \in Nat /\ b * g.size \in Nat
  BY <1>1, <1>2
<1>7. QED
  BY <1>1, <1>3, <1>5, <1>6 DEF SlotCells, Extent

\* Sequences that are less than a round apart have slots of their own.
LEMMA NearApart ==
    ASSUME NEW g \in [count : Nat, size : Nat \ {0}], g.count >= MinSlots,
           NEW s \in Nat \ {0}, NEW t \in Nat \ {0}, s < t, t - s < g.count
    PROVE  Offset(g, s) # Offset(g, t)
<1> DEFINE a == (s - 1) % g.count
           b == (t - 1) % g.count
<1>1. g.count \in Nat \ {0} /\ g.size \in Nat \ {0} /\ s - 1 \in Nat /\ t - 1 \in Nat
  BY DEF MinSlots
<1>2. a \in Nat /\ b \in Nat
  BY <1>1
<1>3. Offset(g, s) = a * g.size + 1 /\ Offset(g, t) = b * g.size + 1
  BY DEF Offset
<1>4. a # b
  <2>1. s - 1 < t - 1 /\ (t - 1) - (s - 1) < g.count
    BY <1>1
  <2>2. \A n \in Nat \ {0}, x \in Nat, y \in Nat : x < y /\ y - x < n => x % n # y % n
    BY RestsDiffer
  <2>3. QED
    BY <1>1, <2>1, <2>2
<1> HIDE DEF a, b
<1>5. a * g.size + g.size <= b * g.size \/ b * g.size + g.size <= a * g.size
  BY <1>1, <1>2, <1>4, RowsApart
<1>6. a * g.size \in Nat /\ b * g.size \in Nat
  BY <1>1, <1>2
<1>7. QED
  BY <1>1, <1>3, <1>5, <1>6

----
\* What a step changes.

\* A geometry a daemon may have.
LEMMA Geometries ==
    ASSUME NEW g \in Geometry
    PROVE  /\ g \in [count : Nat, size : Nat \ {0}] /\ g.count >= MinSlots /\ g # None
           /\ g.count \in Nat /\ g.size \in Nat \ {0} /\ g.count >= 2
BY RingAssumption DEF MinSlots

\* A store to the file that the path names.
LEMMA FileChange ==
    ASSUME files \in Seq(RingFile), files # <<>>, NEW new \in RingFile,
           files' = [files EXCEPT ![Current] = new]
    PROVE  /\ files' \in Seq(RingFile) /\ Len(files') = Len(files) /\ files'[Current] = new
           /\ \A f \in 1 .. Len(files) : f # Current => files'[f] = files[f]
BY DEF Current

\* A store to the header.
LEMMA HeaderChange ==
    ASSUME files \in Seq(RingFile), files # <<>>, NEW h \in Header \cup {None},
           files' = [files EXCEPT ![Current].header = h]
    PROVE  /\ files' \in Seq(RingFile) /\ Len(files') = Len(files)
           /\ files'[Current].header = h /\ files'[Current].cells = files[Current].cells
           /\ \A f \in 1 .. Len(files) : f # Current => files'[f] = files[f]
<1> DEFINE new == [files[Current] EXCEPT !.header = h]
<1>1. Current \in 1 .. Len(files)
  BY DEF Current
<1>2. files[Current] \in RingFile
  BY <1>1
<1>3. new \in RingFile /\ new.header = h /\ new.cells = files[Current].cells
  BY <1>2 DEF RingFile
<1>4. files' = [files EXCEPT ![Current] = new]
  OBVIOUS
<1> HIDE DEF new
<1>5. QED
  BY <1>3, <1>4, FileChange

\* A store to a cell.
LEMMA CellChange ==
    ASSUME files \in Seq(RingFile), files # <<>>,
           NEW i \in 1 .. Len(files[Current].cells), NEW c \in Cell,
           files' = [files EXCEPT ![Current].cells[i] = c]
    PROVE  /\ files' \in Seq(RingFile) /\ Len(files') = Len(files)
           /\ files'[Current].header = files[Current].header
           /\ Len(files'[Current].cells) = Len(files[Current].cells)
           /\ files'[Current].cells[i] = c
           /\ \A j \in 1 .. Len(files[Current].cells) :
                  j # i => files'[Current].cells[j] = files[Current].cells[j]
           /\ \A f \in 1 .. Len(files) : f # Current => files'[f] = files[f]
<1> DEFINE cells == [files[Current].cells EXCEPT ![i] = c]
           new == [files[Current] EXCEPT !.cells = cells]
<1>1. Current \in 1 .. Len(files)
  BY DEF Current
<1>2. files[Current] \in RingFile
  BY <1>1
<1>3. files[Current].cells \in Seq(Cell)
  BY <1>2 DEF RingFile
<1>4. /\ cells \in Seq(Cell) /\ Len(cells) = Len(files[Current].cells) /\ cells[i] = c
      /\ \A j \in 1 .. Len(files[Current].cells) : j # i => cells[j] = files[Current].cells[j]
  BY <1>3
<1>5. files' = [files EXCEPT ![Current] = new]
  OBVIOUS
<1> HIDE DEF cells
<1>6. new \in RingFile /\ new.cells = cells /\ new.header = files[Current].header
  BY <1>2, <1>4 DEF RingFile
<1> HIDE DEF new
<1>7. /\ files' \in Seq(RingFile) /\ Len(files') = Len(files) /\ files'[Current] = new
      /\ \A f \in 1 .. Len(files) : f # Current => files'[f] = files[f]
  BY <1>5, <1>6, FileChange
<1>8. QED
  BY <1>4, <1>6, <1>7

\* A slot is what it was as long as its cells are.
LEMMA SlotKept ==
    ASSUME NEW g \in [count : Nat, size : Nat \ {0}], g.count >= MinSlots, NEW s \in Nat \ {0},
           NEW cells, NEW new, \A i \in SlotCells(g, s) : new[i] = cells[i], NEW r
    PROVE  SlotWhole(cells, g, r, s) => SlotWhole(new, g, r, s)
<1>1. Offset(g, s) \in SlotCells(g, s)
  BY SlotsInFile
<1>2. new[Offset(g, s)] = cells[Offset(g, s)]
  BY <1>1
<1> SUFFICES ASSUME SlotWhole(cells, g, r, s) PROVE SlotWhole(new, g, r, s)
  OBVIOUS
<1> DEFINE head == cells[Offset(g, s)].head
<1>3. /\ head \in Record /\ head.run = r /\ head.sequence = s /\ head.length <= g.size
      /\ \A i \in Extent(Offset(g, s), head.length) : cells[i].body = head
  BY DEF SlotWhole
<1>4. head.length \in 1 .. g.size
  BY <1>3 DEF Record
<1> HIDE DEF head
<1>5. Extent(Offset(g, s), head.length) \subseteq SlotCells(g, s)
  BY <1>4, SlotsInFile
<1>6. \A i \in Extent(Offset(g, s), head.length) : new[i].body = head
  BY <1>3, <1>5
<1>7. QED
  BY <1>2, <1>3, <1>6 DEF SlotWhole, head

----
\* While a daemon runs, the slot it writes is the only one of the recent ones a
\* reader may miss; and it is the one that the header names only if the daemon
\* had to skip a whole round.
LEMMA LiveIsSettled ==
    ASSUME RingInv, wpc \in HeaderIsOwn
    PROVE  Settled(files[Current])
<1> DEFINE cells == files[Current].cells
           latest == files[Current].header.latest
           published == Published(run, own, latest)
<1>1. /\ files[Current].header # None
      /\ files[Current].header.geometry = own /\ files[Current].header.run = run
      /\ latest <= Before /\ (latest > 0 => <<run, latest>> \notin skipped)
      /\ \A s \in latest + 1 .. Before : <<run, s>> \in skipped
  BY DEF RingInv, HeaderFits
<1>2. own \in Geometry /\ files # <<>> /\ files \in Seq(RingFile) /\ sequence \in Nat
  BY RingAssumption DEF RingInv, RingShape, WriterFits, HeaderIsOwn, Filling, Alive
<1>3. files[Current] \in RingFile
  BY <1>2 DEF Current
<1>4. latest \in Nat
  BY <1>1, <1>3, RingAssumption DEF RingFile, Header
<1>5. /\ own \in [count : Nat, size : Nat \ {0}] /\ own.count >= MinSlots
      /\ own.count \in Nat /\ own.count >= 2
  BY <1>2, Geometries
<1>6. \A s \in published : s \in Nat \ {0} /\ s <= latest /\ s > latest - own.count
  BY <1>4, <1>5 DEF Published, Recent
<1>7. latest > 0 => latest \in published
  BY <1>1, <1>4, <1>5 DEF Published, Recent
<1>8. SUFFICES /\ latest > 0
                    /\ (\E s \in latest + 1 .. latest + own.count - 1 : <<run, s>> \notin skipped)
                    => SlotWhole(cells, own, run, latest)
               /\ \A s \in published : SlotWhole(cells, own, run, s) \/ SlotVoid(cells, own, s)
               /\ \A s, t \in published :
                    s # t => SlotWhole(cells, own, run, s) \/ SlotWhole(cells, own, run, t)
  BY <1>1 DEF Settled
<1>9. CASE wpc = "ready"
  <2>1. \A s \in published : SlotWhole(cells, own, run, s)
    BY <1>9 DEF RingInv, WindowFits
  <2>2. QED
    BY <1>7, <2>1
<1>10. CASE wpc \in Filling
  <2>1. latest < sequence /\ \A s \in latest + 1 .. sequence - 1 : <<run, s>> \in skipped
    BY <1>1, <1>2, <1>4, <1>10 DEF Before, Filling
  <2>2. \A s \in published :
            Offset(own, s) # Offset(own, sequence) => SlotWhole(cells, own, run, s)
    BY <1>10 DEF RingInv, WindowFits
  <2>3. ASSUME NEW s \in published, Offset(own, s) = Offset(own, sequence)
        PROVE  SlotVoid(cells, own, s)
    <3>1. CASE wpc \in {"fill", "slot"}
      BY <2>3, <3>1 DEF RingInv, SlotFits, SlotVoid
    <3>2. CASE wpc = "commit"
      <4>1. cells[Offset(own, s)].head = record
        BY <2>3, <3>2 DEF RingInv, SlotFits
      <4>2. record.sequence = sequence
        BY <3>2 DEF RingInv, WriterFits, Filling
      <4>3. s # sequence
        BY <1>2, <1>4, <1>6, <2>1
      <4>4. QED
        BY <4>1, <4>2, <4>3 DEF SlotVoid
    <3>3. QED
      BY <1>10, <3>1, <3>2 DEF Filling
  <2>4. ASSUME NEW s \in published, NEW t \in published, s < t
        PROVE  Offset(own, s) # Offset(own, t)
    <3>1. t - s < own.count
      BY <1>4, <1>5, <1>6
    <3>2. QED
      BY <1>5, <1>6, <2>4, <3>1, NearApart
  <2>5. ASSUME NEW s \in published, NEW t \in published, s # t
        PROVE  SlotWhole(cells, own, run, s) \/ SlotWhole(cells, own, run, t)
    <3>1. s < t \/ t < s
      BY <1>6, <2>5
    <3>2. Offset(own, s) # Offset(own, t)
      BY <2>4, <3>1
    <3>3. QED
      BY <2>2, <3>2
  <2>6. ASSUME latest > 0,
               NEW s \in latest + 1 .. latest + own.count - 1, <<run, s>> \notin skipped
        PROVE  SlotWhole(cells, own, run, latest)
    <3>1. sequence - latest < own.count
      BY <1>2, <1>4, <1>5, <2>1, <2>6, SMTT(20)
    <3>2. Offset(own, latest) # Offset(own, sequence)
      <4>1. latest \in Nat \ {0} /\ sequence \in Nat \ {0} /\ latest < sequence
        BY <1>2, <1>4, <2>1, <2>6
      <4> HIDE DEF latest
      <4>2. QED
        BY <1>5, <3>1, <4>1, NearApart
    <3>3. QED
      BY <1>7, <2>2, <2>6, <3>2
  <2>7. QED
    BY <2>2, <2>3, <2>5, <2>6
<1>11. QED
  BY <1>9, <1>10 DEF HeaderIsOwn

\* A reader who is not kept out finds a file that is settled.
LEMMA AllSettled ==
    ASSUME RingInv, NEW f \in 1 .. Len(files)
    PROVE  Settled(files[f])
<1>1. CASE f # Current \/ wpc \in {"off", "start"}
  BY <1>1 DEF RingInv, OthersAreSettled
<1>2. CASE f = Current /\ wpc \in HeaderIsOwn
  BY <1>2, LiveIsSettled
<1>3. CASE f = Current /\ wpc \in {"reset", "advance"}
  BY <1>3 DEF RingInv, WriterFits, Settled
<1>4. QED
  BY <1>1, <1>2, <1>3 DEF RingInv, RingShape, HeaderIsOwn, Filling

----
\* The invariant from step to step.

\* A file that is left alone stays settled, whatever is skipped.
LEMMA SettledLasts ==
    ASSUME NEW f, Settled(files[f]), files'[f] = files[f], skipped \subseteq skipped'
    PROVE  Settled(files[f])'
<1>1. \A r, g, latest : Published(r, g, latest)' \subseteq Published(r, g, latest)
  BY DEF Published
<1>2. QED
  BY <1>1 DEF Settled

\* What is known while a daemon runs.
LEMMA Running ==
    ASSUME RingInv, Alive
    PROVE  /\ files \in Seq(RingFile) /\ files # <<>> /\ Current \in 1 .. Len(files)
           /\ files[Current] \in RingFile /\ Len(files[Current].cells) = Size(own)
           /\ own \in Geometry /\ own \in [count : Nat, size : Nat \ {0}]
           /\ own.count >= MinSlots /\ own.count \in Nat /\ own.size \in Nat
           /\ run \in Run /\ sequence \in Nat /\ sequence \in 0 .. MaxSequence
<1>1. /\ files \in Seq(RingFile) /\ files # <<>> /\ Len(files[Current].cells) = Size(own)
      /\ own \in Geometry /\ run \in Run /\ sequence \in 0 .. MaxSequence /\ MaxSequence \in Nat
  BY RingAssumption DEF RingInv, RingShape, WriterFits
<1>2. Current \in 1 .. Len(files) /\ files[Current] \in RingFile
  BY <1>1 DEF Current
<1>3. sequence \in Nat
  BY <1>1
<1>4. QED
  BY <1>1, <1>2, <1>3, Geometries

\* The readers' mappings fit as long as no file goes away.
MappedFits ==
    /\ mapped \in [Reader -> [file : Nat, geometry : Geometry \cup {None}]]
    /\ \A r \in Reader : mapped[r] # Unmapped =>
        mapped[r].file \in 1 .. Len(files) /\ mapped[r].geometry \in Geometry

LEMMA MappedLasts ==
    ASSUME RingInv, UNCHANGED mapped, Len(files') \in Nat, Len(files') >= Len(files)
    PROVE  MappedFits'
<1>1. Len(files) \in Nat
  BY DEF RingInv, RingShape
<1>2. QED
  BY <1>1 DEF RingInv, RingShape, MappedFits

\* A store leaves the number of files and the other files as they are.
LEMMA OthersLast ==
    ASSUME RingInv, Len(files') = Len(files), skipped \subseteq skipped',
           \A f \in 1 .. Len(files) : f # Current => files'[f] = files[f],
           wpc' \notin {"off", "start"}
    PROVE  OthersAreSettled'
<1> SUFFICES ASSUME NEW f \in 1 .. Len(files), f # Current
             PROVE  Settled(files[f])'
  BY DEF OthersAreSettled, Current
<1>1. Settled(files[f])
  BY DEF RingInv, OthersAreSettled
<1>2. QED
  BY <1>1, SettledLasts

\* RingWriter(): the file is kept, or a new one gets the name.
LEMMA StartStep ==
    ASSUME RingInv, NEW g \in Geometry, Start(g)
    PROVE  RingInv'
<1>1. /\ wpc = "off" /\ wpc' = "start" /\ own' = g /\ sequence' = 0 /\ run' = run + 1
      /\ run < MaxRun /\ UNCHANGED <<record, skipped, mapped>>
  BY DEF Start
<1>2. /\ files \in Seq(RingFile) /\ run \in Nat /\ MaxRun \in Nat /\ MaxSequence \in Nat
      /\ run \in 0 .. MaxRun
  BY RingAssumption DEF RingInv, RingShape
<1>3. run' \in Run /\ run' \in 0 .. MaxRun
  BY <1>1, <1>2 DEF Run
<1>4. \A f \in 1 .. Len(files) : Settled(files[f])
  BY <1>1 DEF RingInv, OthersAreSettled
<1>5. \A u \in skipped : u[1] <= run /\ u[1] \in Nat
  BY DEF RingInv, WriterFits, RingShape, Run
<1>6. HeaderFits' /\ SlotFits' /\ WindowFits'
  BY <1>1 DEF HeaderFits, HeaderIsOwn, Filling, SlotFits, WindowFits
<1>7. g # None
  BY Geometries
<1>8. CASE files # <<>> /\ Len(files[Current].cells) = Size(g) /\ files' = files
  <2>1. RingShape'
    BY <1>1, <1>2, <1>3, <1>8 DEF RingInv, RingShape
  <2>2. WriterFits'
    BY <1>1, <1>2, <1>3, <1>5, <1>7, <1>8 DEF WriterFits, Alive, Current, Filling
  <2>3. OthersAreSettled'
    BY <1>1, <1>4, <1>8, SettledLasts DEF OthersAreSettled
  <2>4. QED
    BY <1>6, <2>1, <2>2, <2>3 DEF RingInv
<1>9. CASE files' = Append(files, [header |-> None, cells |-> [i \in 1 .. Size(g) |-> Blank]])
  <2> DEFINE cells == [i \in 1 .. Size(g) |-> Blank]
             new == [header |-> None, cells |-> cells]
  <2>1. Size(g) \in Nat
    BY Geometries DEF Size
  <2>2. Blank \in Cell
    BY DEF Blank, Cell
  <2>3. cells \in Seq(Cell) /\ Len(cells) = Size(g)
    BY <2>1, <2>2
  <2> HIDE DEF cells
  <2>4. new \in RingFile /\ new.header = None /\ new.cells = cells
    BY <2>3 DEF RingFile
  <2>5. files' = Append(files, new)
    BY <1>9 DEF cells
  <2> HIDE DEF new
  <2>6. /\ files' \in Seq(RingFile) /\ Len(files') = Len(files) + 1 /\ files'[Len(files')] = new
        /\ \A f \in 1 .. Len(files) : files'[f] = files[f]
    BY <1>2, <2>4, <2>5
  <2>7. Len(files) \in Nat /\ files' # <<>>
    BY <1>2, <2>6
  <2>8. MappedFits'
    BY <1>1, <2>6, <2>7, MappedLasts
  <2>9. \A f \in 1 .. Len(files') : f \in 1 .. Len(files) \/ files'[f] = new
    BY <2>6, <2>7
  <2>10. RingShape'
    BY <1>1, <1>2, <1>3, <2>4, <2>6, <2>8, <2>9 DEF RingInv, RingShape, MappedFits
  <2>11. WriterFits'
    BY <1>1, <1>2, <1>3, <1>5, <1>7, <2>3, <2>4, <2>6, <2>7
    DEF WriterFits, Alive, Current, Filling
  <2>12. OthersAreSettled'
    <3> SUFFICES ASSUME NEW f \in 1 .. Len(files') PROVE Settled(files[f])'
      BY DEF OthersAreSettled
    <3>1. CASE f \in 1 .. Len(files)
      BY <1>1, <1>4, <2>6, <3>1, SettledLasts
    <3>2. CASE files'[f] = new
      BY <2>4, <3>2 DEF Settled
    <3>3. QED
      BY <2>9, <3>1, <3>2
  <2>13. QED
    BY <1>6, <2>10, <2>11, <2>12 DEF RingInv
<1>10. QED
  BY <1>8, <1>9 DEF Start

\* A store to the header of the file that is open leaves the shape; only a record
\* that fits the file may be named.
LEMMA HeaderShape ==
    ASSUME RingInv, Alive, NEW h \in Header \cup {None},
           h # None => h.geometry = own,
           files' = [files EXCEPT ![Current].header = h],
           wpc' \in {"reset", "ready", "advance"}, record' \in Record \cup {None},
           UNCHANGED <<run, own, sequence, skipped, mapped>>
    PROVE  /\ RingShape' /\ OthersAreSettled' /\ files' # <<>> /\ Current' = Current
           /\ files'[Current].header = h /\ files'[Current].cells = files[Current].cells
<1>1. /\ files' \in Seq(RingFile) /\ Len(files') = Len(files)
      /\ files'[Current].header = h /\ files'[Current].cells = files[Current].cells
      /\ \A f \in 1 .. Len(files) : f # Current => files'[f] = files[f]
  BY Running, HeaderChange
<1>2. Len(files) \in Nat /\ Len(files) # 0
  BY Running
<1>3. MappedFits'
  BY <1>1, <1>2, MappedLasts
<1>4. \A f \in 1 .. Len(files) :
          files'[f].header # None => Len(files'[f].cells) = Size(files'[f].header.geometry)
  BY <1>1, Running DEF RingInv, RingShape
<1>5. RingShape'
  BY <1>1, <1>3, <1>4 DEF RingInv, RingShape, MappedFits
<1>6. OthersAreSettled'
  BY <1>1, OthersLast
<1>7. QED
  BY <1>1, <1>2, <1>5, <1>6 DEF Current

\* _write_header() begins: what was published before the sample in hand, and this
\* sample, are all there.
LEMMA ClearHeaderStep ==
    ASSUME RingInv, ClearHeader
    PROVE  RingInv'
<1>1. /\ wpc \in {"start", "commit"} /\ wpc' = IF wpc = "start" THEN "reset" ELSE "advance"
      /\ files' = [files EXCEPT ![Current].header = None]
      /\ UNCHANGED <<run, own, sequence, record, skipped, mapped>>
  BY DEF ClearHeader
<1>2. Alive
  BY <1>1 DEF Alive
<1>3. record \in Record \cup {None}
  BY DEF RingInv, RingShape
<1>4. /\ RingShape' /\ OthersAreSettled' /\ files' # <<>> /\ Current' = Current
      /\ files'[Current].header = None /\ files'[Current].cells = files[Current].cells
  <2>1. wpc' \in {"reset", "ready", "advance"}
    BY <1>1
  <2>2. QED
    BY <1>1, <1>2, <1>3, <2>1, HeaderShape
<1>5. WriterFits'
  BY <1>1, <1>2, <1>4 DEF RingInv, WriterFits, Alive, Filling
<1>6. HeaderFits'
  BY <1>1 DEF HeaderFits, HeaderIsOwn, Filling
<1>7. CASE wpc = "start"
  BY <1>1, <1>4, <1>5, <1>6, <1>7 DEF RingInv, SlotFits, WindowFits, Filling
<1>8. CASE wpc = "commit"
  <2>1. SlotFits'
    BY <1>1, <1>4, <1>8 DEF RingInv, SlotFits
  <2> DEFINE latest == files[Current].header.latest
  <2>2. /\ latest < sequence /\ latest \in Nat
        /\ \A s \in latest + 1 .. sequence - 1 : <<run, s>> \in skipped
    <3>1. files[Current].header \in Header
      BY <1>2, <1>8, Running DEF RingInv, HeaderFits, HeaderIsOwn, Filling, RingFile
    <3>2. QED
      BY <1>2, <1>8, <3>1, Running, RingAssumption
         DEF RingInv, HeaderFits, HeaderIsOwn, Filling, Header, Before
  <2>3. ASSUME NEW s \in Published(run, own, sequence) \ {sequence}
        PROVE  SlotWhole(files[Current].cells, own, run, s)
    <3>1. /\ s \in Nat \ {0} /\ s < sequence /\ sequence - s < own.count
          /\ <<run, s>> \notin skipped
      BY <1>2, Running DEF Published, Recent
    <3>2. s <= latest /\ s > latest - own.count
      <4>1. sequence \in Nat /\ own.count \in Nat
        BY <1>2, Running
      <4> HIDE DEF latest
      <4>2. ~(s \in latest + 1 .. sequence - 1)
        BY <2>2, <3>1
      <4>3. QED
        BY <2>2, <3>1, <4>1, <4>2
    <3>3. s \in Published(run, own, latest)
      BY <2>2, <3>1, <3>2 DEF Published, Recent
    <3>4. Offset(own, s) # Offset(own, sequence)
      <4>1. sequence \in Nat \ {0}
        BY <1>2, <3>1, Running
      <4>2. QED
        BY <1>2, <3>1, <4>1, Running, NearApart
    <3>5. QED
      BY <1>8, <3>3, <3>4 DEF RingInv, WindowFits, Filling
  <2>4. WindowFits'
    BY <1>1, <1>4, <1>8, <2>3 DEF WindowFits, Filling, Published
  <2>5. QED
    BY <1>4, <1>5, <1>6, <2>1, <2>4 DEF RingInv
<1>9. QED
  BY <1>1, <1>7, <1>8

\* The first header of a daemon names nothing.
LEMMA ResetHeaderStep ==
    ASSUME RingInv, ResetHeader
    PROVE  RingInv'
<1> DEFINE h == [geometry |-> own, run |-> run, latest |-> 0]
<1>1. /\ wpc = "reset" /\ wpc' = "ready" /\ files' = [files EXCEPT ![Current].header = h]
      /\ UNCHANGED <<run, own, sequence, record, skipped, mapped>>
  BY DEF ResetHeader, WriteHeader
<1>2. Alive /\ sequence = 0
  BY <1>1 DEF Alive, RingInv, WriterFits
<1>3. h \in Header /\ h.geometry = own /\ h.run = run /\ h.latest = 0 /\ h # None
  BY <1>2, Running, RingAssumption DEF Header
<1> HIDE DEF h
<1>4. /\ RingShape' /\ OthersAreSettled' /\ files' # <<>> /\ Current' = Current
      /\ files'[Current].header = h /\ files'[Current].cells = files[Current].cells
  <2>1. record' \in Record \cup {None}
    BY <1>1 DEF RingInv, RingShape
  <2>2. QED
    BY <1>1, <1>2, <1>3, <2>1, HeaderShape
<1>5. WriterFits'
  BY <1>1, <1>2, <1>4 DEF RingInv, WriterFits, Alive, Filling
<1>6. HeaderFits'
  BY <1>1, <1>2, <1>3, <1>4 DEF HeaderFits, HeaderIsOwn, Filling, Before
<1>7. SlotFits'
  BY <1>1 DEF SlotFits
<1>8. WindowFits'
  BY <1>1, <1>3, <1>4 DEF WindowFits, Filling, Published, Recent
<1>9. QED
  BY <1>4, <1>5, <1>6, <1>7, <1>8 DEF RingInv

\* The header gets to name the sample in hand.
LEMMA AdvanceStep ==
    ASSUME RingInv, Advance
    PROVE  RingInv'
<1> DEFINE h == [geometry |-> own, run |-> run, latest |-> record.sequence]
<1>1. /\ wpc = "advance" /\ wpc' = "ready" /\ files' = [files EXCEPT ![Current].header = h]
      /\ record' = None /\ UNCHANGED <<run, own, sequence, skipped, mapped>>
  BY DEF Advance, WriteHeader
<1>2. /\ Alive /\ record \in Record /\ record.sequence = sequence /\ record.run = run
      /\ record.length <= own.size /\ <<run, sequence>> \notin skipped
  BY <1>1 DEF Alive, RingInv, WriterFits
<1>3. h \in Header /\ h.geometry = own /\ h.run = run /\ h.latest = sequence /\ h # None
  BY <1>2, Running, RingAssumption DEF Header
<1> HIDE DEF h
<1>4. /\ RingShape' /\ OthersAreSettled' /\ files' # <<>> /\ Current' = Current
      /\ files'[Current].header = h /\ files'[Current].cells = files[Current].cells
  BY <1>1, <1>2, <1>3, HeaderShape
<1>5. WriterFits'
  BY <1>1, <1>2, <1>4 DEF RingInv, WriterFits, Alive, Filling
<1>6. HeaderFits'
  <2>1. sequence \in Nat /\ Before' = sequence
    BY <1>1, <1>2, Running DEF Before
  <2>2. \A s \in sequence + 1 .. sequence : FALSE
    BY <2>1
  <2>3. QED
    BY <1>1, <1>2, <1>3, <1>4, <2>1, <2>2 DEF HeaderFits
<1>7. SlotFits'
  BY <1>1 DEF SlotFits
<1>8. WindowFits'
  <2>1. SlotWhole(files[Current].cells, own, run, sequence)
    BY <1>1, <1>2 DEF RingInv, SlotFits, SlotWhole
  <2>2. \A s \in Published(run, own, sequence) : SlotWhole(files[Current].cells, own, run, s)
    BY <1>1, <2>1 DEF RingInv, WindowFits
  <2>3. QED
    BY <1>1, <1>3, <1>4, <2>2 DEF WindowFits, Filling, Published
<1>9. QED
  BY <1>4, <1>5, <1>6, <1>7, <1>8 DEF RingInv

\* A store to a cell of one slot leaves the header and the other slots.
LEMMA CellStep ==
    ASSUME RingInv, wpc \in HeaderIsOwn, wpc' \in Filling,
           NEW q \in Nat \ {0}, NEW i \in SlotCells(own, q), NEW c \in Cell,
           files' = [files EXCEPT ![Current].cells[i] = c],
           record' \in Record \cup {None}, sequence' \in 0 .. MaxSequence,
           UNCHANGED <<run, own, skipped, mapped>>
    PROVE  /\ RingShape' /\ OthersAreSettled' /\ files' # <<>> /\ Current' = Current
           /\ files'[Current].header = files[Current].header
           /\ Len(files'[Current].cells) = Size(own)
           /\ files'[Current].cells[i] = c
           /\ \A j \in 1 .. Size(own) :
                  j # i => files'[Current].cells[j] = files[Current].cells[j]
           /\ \A s \in Nat \ {0} :
                /\ Offset(own, s) # Offset(own, q)
                /\ SlotWhole(files[Current].cells, own, run, s)
                => SlotWhole(files'[Current].cells, own, run, s)
<1> DEFINE old == files[Current].cells
           new == files'[Current].cells
<1>1. Alive
  BY DEF Alive, HeaderIsOwn, Filling
<1>2. i \in 1 .. Size(own) /\ i \in 1 .. Len(old)
  BY <1>1, Running, SlotsInFile
<1>3. /\ files' \in Seq(RingFile) /\ Len(files') = Len(files)
      /\ files'[Current].header = files[Current].header
      /\ Len(new) = Len(old) /\ new[i] = c
      /\ \A j \in 1 .. Len(old) : j # i => new[j] = old[j]
      /\ \A f \in 1 .. Len(files) : f # Current => files'[f] = files[f]
  BY <1>1, <1>2, Running, CellChange
<1>4. Len(files) \in Nat /\ Len(files) # 0 /\ Len(old) = Size(own)
  BY <1>1, Running
<1>5. MappedFits'
  BY <1>3, <1>4, MappedLasts
<1>6. \A f \in 1 .. Len(files) :
          files'[f].header # None => Len(files'[f].cells) = Size(files'[f].header.geometry)
  BY <1>3 DEF RingInv, RingShape
<1>7. RingShape'
  BY <1>3, <1>5, <1>6 DEF RingInv, RingShape, MappedFits
<1>8. OthersAreSettled'
  BY <1>3, OthersLast DEF Filling
<1>9. ASSUME NEW s \in Nat \ {0}, Offset(own, s) # Offset(own, q), SlotWhole(old, own, run, s)
      PROVE  SlotWhole(new, own, run, s)
  <2>1. \A j \in SlotCells(own, s) : new[j] = old[j]
    BY <1>1, <1>3, <1>4, <1>9, Running, SlotsApart, SlotsInFile
  <2>2. QED
    BY <1>1, <1>9, <2>1, Running, SlotKept
<1>10. QED
  BY <1>3, <1>4, <1>7, <1>8, <1>9 DEF Current

\* publish() begins with the header of the next slot.
LEMMA PublishStep ==
    ASSUME RingInv, own # None, NEW length \in 1 .. own.size, Publish(length)
    PROVE  RingInv'
<1> DEFINE q == sequence + 1
           place == Offset(own, q)
<1>1. /\ wpc = "ready" /\ wpc' = "fill" /\ sequence < MaxSequence /\ sequence' = q
      /\ record' = [run |-> run, sequence |-> q, length |-> length]
      /\ files' = [files EXCEPT ![Current].cells[place] = Blank]
      /\ UNCHANGED <<run, own, skipped, mapped>>
  BY DEF Publish
<1>2. Alive
  BY <1>1 DEF Alive
<1>3. q \in Nat \ {0} /\ q \in 1 .. MaxSequence /\ q \in 0 .. MaxSequence
  BY <1>1, <1>2, Running, RingAssumption
<1>4. place \in SlotCells(own, q)
  BY <1>2, <1>3, Running, SlotsInFile
<1>5. /\ record' \in Record /\ record'.run = run /\ record'.sequence = q
      /\ record'.length <= own.size
  <2>1. length \in Nat \ {0} /\ length <= own.size
    BY <1>2, Running
  <2>2. QED
    BY <1>1, <1>2, <1>3, <2>1, Running DEF Record
<1>6. Blank \in Cell /\ Blank.head = None
  BY DEF Blank, Cell
<1> HIDE DEF q, place
<1>7. /\ RingShape' /\ OthersAreSettled' /\ files' # <<>> /\ Current' = Current
      /\ files'[Current].header = files[Current].header
      /\ Len(files'[Current].cells) = Size(own)
      /\ files'[Current].cells[place] = Blank
      /\ \A s \in Nat \ {0} :
            /\ Offset(own, s) # Offset(own, q)
            /\ SlotWhole(files[Current].cells, own, run, s)
            => SlotWhole(files'[Current].cells, own, run, s)
  BY <1>1, <1>3, <1>4, <1>5, <1>6, CellStep DEF HeaderIsOwn, Filling
<1>8. \A u \in skipped : u[1] = run => u[2] <= sequence
  BY <1>2 DEF RingInv, WriterFits
<1>9. WriterFits'
  <2>1. <<run, q>> \notin skipped
    BY <1>2, <1>8, Running DEF q
  <2>2. \A u \in skipped : u[1] <= run /\ (u[1] = run => u[2] <= q)
    <3>1. \A u \in skipped : u[2] \in Nat
      BY RingAssumption DEF RingInv, RingShape
    <3>2. QED
      BY <1>2, <1>8, <3>1, Running DEF q, RingInv, WriterFits
  <2>3. QED
    BY <1>1, <1>2, <1>5, <1>7, <2>1, <2>2 DEF RingInv, WriterFits, Alive, Filling
<1>10. HeaderFits'
  <2>1. Before' = Before
    BY <1>1, <1>2, Running DEF Before, q
  <2>2. QED
    BY <1>1, <1>7, <2>1 DEF RingInv, HeaderFits, HeaderIsOwn, Filling
<1>11. SlotFits'
  BY <1>1, <1>6, <1>7 DEF SlotFits, place
<1>12. WindowFits'
  <2>1. \A s \in Published(run, own, files[Current].header.latest) : s \in Nat \ {0}
    BY DEF Published, Recent
  <2>2. \A s \in Published(run, own, files[Current].header.latest) :
            SlotWhole(files[Current].cells, own, run, s)
    BY <1>1 DEF RingInv, WindowFits
  <2>3. \A s \in Published(run, own, files[Current].header.latest) :
            Offset(own, s) # Offset(own, q) => SlotWhole(files'[Current].cells, own, run, s)
    BY <1>7, <2>1, <2>2
  <2>4. QED
    BY <1>1, <1>7, <2>3 DEF WindowFits, Filling, Published
<1>13. QED
  BY <1>7, <1>9, <1>10, <1>11, <1>12 DEF RingInv

\* While the slot is written, in whatever order, its header stays as it is.
LEMMA WritePayloadStep ==
    ASSUME RingInv, WritePayload
    PROVE  RingInv'
<1> DEFINE place == Offset(own, sequence)
           c == [head |-> None, body |-> record]
<1>1. wpc = "fill" /\ UNCHANGED <<wpc, run, own, sequence, record, skipped, mapped>>
  BY DEF WritePayload
<1>2. /\ Alive /\ record \in Record /\ record.run = run /\ record.sequence = sequence
      /\ record.length <= own.size /\ <<run, sequence>> \notin skipped
  BY <1>1 DEF Alive, RingInv, WriterFits, Filling
<1>3. sequence \in Nat \ {0} /\ sequence \in 0 .. MaxSequence /\ record.length \in 1 .. own.size
  BY <1>2, Running DEF Record
<1>4. PICK i \in Extent(place, record.length) : files' = [files EXCEPT ![Current].cells[i] = c]
  BY <1>2 DEF WritePayload
<1>5. i \in SlotCells(own, sequence) /\ place \in 1 .. Size(own)
  BY <1>2, <1>3, <1>4, Running, SlotsInFile
<1>6. c \in Cell /\ c.head = None /\ c.body = record
  BY <1>2 DEF Cell
<1> HIDE DEF c, place
<1>7. /\ RingShape' /\ OthersAreSettled' /\ files' # <<>> /\ Current' = Current
      /\ files'[Current].header = files[Current].header
      /\ Len(files'[Current].cells) = Size(own)
      /\ files'[Current].cells[i] = c
      /\ \A j \in 1 .. Size(own) : j # i => files'[Current].cells[j] = files[Current].cells[j]
      /\ \A s \in Nat \ {0} :
            /\ Offset(own, s) # Offset(own, sequence)
            /\ SlotWhole(files[Current].cells, own, run, s)
            => SlotWhole(files'[Current].cells, own, run, s)
  BY <1>1, <1>2, <1>3, <1>4, <1>5, <1>6, CellStep, ZenonT(30) DEF HeaderIsOwn, Filling
<1>8. WriterFits'
  BY <1>1, <1>2, <1>7 DEF RingInv, WriterFits, Alive, Filling
<1>9. HeaderFits'
  BY <1>1, <1>7 DEF RingInv, HeaderFits, HeaderIsOwn, Filling, Before
<1>10. SlotFits'
  <2>1. files'[Current].cells[place].head = None
    BY <1>1, <1>5, <1>6, <1>7 DEF RingInv, SlotFits, place
  <2>2. QED
    BY <1>1, <1>7, <2>1 DEF SlotFits, place
<1>11. WindowFits'
  <2>1. \A s \in Published(run, own, files[Current].header.latest) : s \in Nat \ {0}
    BY DEF Published, Recent
  <2>2. \A s \in Published(run, own, files[Current].header.latest) :
            Offset(own, s) # Offset(own, sequence)
                => SlotWhole(files'[Current].cells, own, run, s)
    BY <1>1, <1>7, <2>1 DEF RingInv, WindowFits, Filling
  <2>3. QED
    BY <1>1, <1>7, <2>2 DEF WindowFits, Filling, Published
<1>12. QED
  BY <1>7, <1>8, <1>9, <1>10, <1>11 DEF RingInv

\* The payload is whole, and only then the header of the slot is written.
LEMMA PayloadWrittenStep ==
    ASSUME RingInv, PayloadWritten
    PROVE  RingInv'
<1>1. /\ wpc = "fill" /\ wpc' = "slot"
      /\ UNCHANGED <<files, run, own, sequence, record, skipped, mapped>>
      /\ \A i \in Extent(Offset(own, record.sequence), record.length) :
            files[Current].cells[i].body = record
  BY DEF PayloadWritten
<1>2. record.sequence = sequence
  BY <1>1 DEF RingInv, WriterFits, Filling
<1>3. RingShape' /\ OthersAreSettled'
  BY <1>1, OthersLast DEF RingInv, RingShape, Filling
<1>4. WriterFits' /\ HeaderFits'
  BY <1>1 DEF RingInv, WriterFits, HeaderFits, HeaderIsOwn, Filling, Alive, Current, Before
<1>5. SlotFits'
  BY <1>1, <1>2 DEF RingInv, SlotFits, Current
<1>6. WindowFits'
  BY <1>1 DEF RingInv, WindowFits, Filling, Current, Published
<1>7. QED
  BY <1>3, <1>4, <1>5, <1>6 DEF RingInv

\* The header of the slot is the last thing written before the header of the file.
LEMMA WriteSlotStep ==
    ASSUME RingInv, WriteSlot
    PROVE  RingInv'
<1> DEFINE place == Offset(own, sequence)
           old == files[Current].cells[place]
           c == [old EXCEPT !.head = record]
<1>1. /\ wpc = "slot" /\ wpc' = "commit"
      /\ files' = [files EXCEPT ![Current].cells[Offset(own, record.sequence)].head = record]
      /\ UNCHANGED <<run, own, sequence, record, skipped, mapped>>
  BY DEF WriteSlot
<1>2. /\ Alive /\ record \in Record /\ record.run = run /\ record.sequence = sequence
      /\ record.length <= own.size /\ <<run, sequence>> \notin skipped
  BY <1>1 DEF Alive, RingInv, WriterFits, Filling
<1>3. sequence \in Nat \ {0} /\ sequence \in 0 .. MaxSequence /\ record.length \in 1 .. own.size
  BY <1>2, Running DEF Record
<1>4. place \in SlotCells(own, sequence) /\ place \in 1 .. Size(own)
  BY <1>2, <1>3, Running, SlotsInFile
<1>5. old \in Cell
  BY <1>2, <1>4, Running DEF RingFile
<1>6. c \in Cell /\ c.head = record /\ c.body = old.body
  BY <1>2, <1>5 DEF Cell
<1>7. files' = [files EXCEPT ![Current].cells[place] = c]
  BY <1>1, <1>2
<1> HIDE DEF c, old, place
<1>same. /\ wpc \in HeaderIsOwn /\ wpc' \in Filling /\ record' \in Record \cup {None}
      /\ sequence' \in 0 .. MaxSequence /\ UNCHANGED <<run, own, skipped, mapped>>
  BY <1>1, <1>2, <1>3 DEF HeaderIsOwn, Filling
<1>8. /\ RingShape' /\ OthersAreSettled' /\ files' # <<>> /\ Current' = Current
      /\ files'[Current].header = files[Current].header
      /\ Len(files'[Current].cells) = Size(own)
      /\ files'[Current].cells[place] = c
      /\ \A j \in 1 .. Size(own) :
            j # place => files'[Current].cells[j] = files[Current].cells[j]
      /\ \A s \in Nat \ {0} :
            /\ Offset(own, s) # Offset(own, sequence)
            /\ SlotWhole(files[Current].cells, own, run, s)
            => SlotWhole(files'[Current].cells, own, run, s)
  BY <1>3, <1>4, <1>6, <1>7, <1>same, CellStep
<1>9. WriterFits'
  BY <1>1, <1>2, <1>8 DEF RingInv, WriterFits, Alive, Filling
<1>10. HeaderFits'
  BY <1>1, <1>8 DEF RingInv, HeaderFits, HeaderIsOwn, Filling, Before
<1>11. SlotFits'
  <2>1. \A j \in Extent(place, record.length) :
            j \in 1 .. Size(own) /\ files[Current].cells[j].body = record
    BY <1>1, <1>2, <1>3, Running, SlotsInFile DEF RingInv, SlotFits, place
  <2>2. \A j \in Extent(place, record.length) : files'[Current].cells[j].body = record
    BY <1>6, <1>8, <2>1 DEF old
  <2>3. QED
    BY <1>1, <1>6, <1>8, <2>2 DEF SlotFits, place
<1>12. WindowFits'
  <2>1. \A s \in Published(run, own, files[Current].header.latest) : s \in Nat \ {0}
    BY DEF Published, Recent
  <2>2. \A s \in Published(run, own, files[Current].header.latest) :
            Offset(own, s) # Offset(own, sequence)
                => SlotWhole(files'[Current].cells, own, run, s)
    BY <1>1, <1>8, <2>1 DEF RingInv, WindowFits, Filling
  <2>3. QED
    BY <1>1, <1>8, <2>2 DEF WindowFits, Filling, Published
<1>13. QED
  BY <1>8, <1>9, <1>10, <1>11, <1>12 DEF RingInv

\* A sample that cannot be published is counted.
LEMMA SkipStep ==
    ASSUME RingInv, Skip
    PROVE  RingInv'
<1> DEFINE q == sequence + 1
<1>1. /\ wpc = "ready" /\ sequence < MaxSequence /\ sequence' = q
      /\ skipped' = skipped \cup {<<run, q>>}
      /\ UNCHANGED <<files, wpc, run, own, record, mapped>>
  BY DEF Skip
<1>2. Alive
  BY <1>1 DEF Alive
<1>3. q \in 1 .. MaxSequence /\ q \in 0 .. MaxSequence /\ sequence \in Nat
  BY <1>1, <1>2, Running, RingAssumption
<1>4. <<run, q>> \in Run \X (1 .. MaxSequence)
  BY <1>2, <1>3, Running
<1>5. RingShape'
  <2>1. skipped' \subseteq Run \X (1 .. MaxSequence)
    BY <1>1, <1>4 DEF RingInv, RingShape
  <2> HIDE DEF q
  <2>2. QED
    BY <1>1, <1>3, <2>1 DEF RingInv, RingShape
<1>6. OthersAreSettled'
  <2>1. wpc' \notin {"off", "start"} /\ Len(files') = Len(files) /\ skipped \subseteq skipped'
    BY <1>1
  <2>2. \A f \in 1 .. Len(files) : f # Current => files'[f] = files[f]
    BY <1>1
  <2>3. QED
    BY <2>1, <2>2, OthersLast
<1>7. WriterFits'
  <2>1. \A u \in skipped : u[2] \in Nat /\ u[1] <= run /\ (u[1] = run => u[2] <= sequence)
    BY <1>2, RingAssumption DEF RingInv, RingShape, WriterFits
  <2>2. run <= run
    BY <1>2, Running DEF Run
  <2>3. \A u \in skipped' : u[1] <= run /\ (u[1] = run => u[2] <= q)
    BY <1>1, <1>3, <2>1, <2>2
  <2> HIDE DEF q
  <2>4. QED
    BY <1>1, <2>3 DEF RingInv, WriterFits, Alive, Current, Filling
<1>8. HeaderFits'
  <2> DEFINE header == files[Current].header
  <2>1. /\ header # None /\ header.geometry = own /\ header.run = run
        /\ header.latest <= sequence
        /\ header.latest > 0 => <<run, header.latest>> \notin skipped
        /\ \A s \in header.latest + 1 .. sequence : <<run, s>> \in skipped
    BY <1>1 DEF RingInv, HeaderFits, HeaderIsOwn, Before
  <2>2. header.latest \in Nat
    BY <1>2, <2>1, Running, RingAssumption DEF RingFile, Header
  <2> HIDE DEF header
  <2>3. header.latest <= q /\ header.latest # q
    BY <1>3, <2>1, <2>2
  <2>4. header.latest > 0 => <<run, header.latest>> \notin skipped'
    BY <1>1, <2>1, <2>3
  <2>5. \A s \in header.latest + 1 .. q : s = q \/ s \in header.latest + 1 .. sequence
    BY <1>3, <2>2
  <2>6. \A s \in header.latest + 1 .. q : <<run, s>> \in skipped'
    BY <1>1, <2>1, <2>5
  <2>7. Before' = q
    BY <1>1 DEF Before
  <2> HIDE DEF q
  <2>8. QED
    BY <1>1, <2>1, <2>3, <2>4, <2>6, <2>7 DEF HeaderFits, header, Current
<1>9. SlotFits'
  BY <1>1 DEF SlotFits
<1>10. WindowFits'
  <2>1. \A s : s \in Published(run, own, files[Current].header.latest)' =>
               s \in Published(run, own, files[Current].header.latest)
    BY <1>1 DEF Published, Current
  <2>2. \A s \in Published(run, own, files[Current].header.latest) :
            SlotWhole(files[Current].cells, own, run, s)
    BY <1>1 DEF RingInv, WindowFits
  <2>3. QED
    BY <1>1, <2>1, <2>2 DEF WindowFits, Filling, Current
<1>11. QED
  BY <1>5, <1>6, <1>7, <1>8, <1>9, <1>10 DEF RingInv

\* The daemon is gone: what it left behind is settled, wherever it died.
LEMMA StopStep ==
    ASSUME RingInv, Stop
    PROVE  RingInv'
<1>1. /\ wpc' = "off" /\ own' = None /\ sequence' = 0 /\ record' = None
      /\ UNCHANGED <<files, run, skipped, mapped>>
  BY DEF Stop
<1>2. RingShape'
  BY <1>1, RingAssumption DEF RingInv, RingShape
<1>3. WriterFits'
  BY <1>1 DEF RingInv, WriterFits, Alive, Filling
<1>4. HeaderFits' /\ SlotFits' /\ WindowFits'
  BY <1>1 DEF HeaderFits, HeaderIsOwn, Filling, SlotFits, WindowFits
<1>5. OthersAreSettled'
  <2> SUFFICES ASSUME NEW f \in 1 .. Len(files) PROVE Settled(files[f])'
    BY <1>1 DEF OthersAreSettled
  <2>1. Settled(files[f])
    BY AllSettled
  <2>2. QED
    BY <1>1, <2>1, SettledLasts
<1>6. QED
  BY <1>2, <1>3, <1>4, <1>5 DEF RingInv

\* The readers' steps change their mapping and nothing else.
LEMMA MappingStep ==
    ASSUME RingInv, UNCHANGED writer, MappedFits'
    PROVE  RingInv'
<1>1. UNCHANGED <<files, wpc, run, own, sequence, record, skipped>>
  BY DEF writer
<1>2. RingShape'
  BY <1>1 DEF RingInv, RingShape, MappedFits
<1>3. WriterFits' /\ HeaderFits' /\ SlotFits'
  BY <1>1 DEF RingInv, WriterFits, HeaderFits, SlotFits, Alive, HeaderIsOwn, Filling, Current,
              Before
<1>4. WindowFits'
  BY <1>1 DEF RingInv, WindowFits, Filling, Current, Published
<1>5. OthersAreSettled'
  <2> SUFFICES ASSUME NEW f \in 1 .. Len(files), f # Current \/ wpc \in {"off", "start"}
               PROVE  Settled(files[f])'
    BY <1>1 DEF OthersAreSettled, Current
  <2>1. Settled(files[f])
    BY DEF RingInv, OthersAreSettled
  <2>2. QED
    BY <1>1, <2>1, SettledLasts
<1>6. QED
  BY <1>2, <1>3, <1>4, <1>5 DEF RingInv

LEMMA OpenStep ==
    ASSUME RingInv, NEW r \in Reader, Open(r)
    PROVE  RingInv'
<1> DEFINE header == files[Current].header
           new == IF header = None THEN Unmapped
                  ELSE [file |-> Current, geometry |-> header.geometry]
<1>1. files # <<>> /\ mapped' = [mapped EXCEPT ![r] = new] /\ UNCHANGED writer
  BY DEF Open
<1>2. files' = files /\ MappedFits
  BY <1>1 DEF writer, RingInv, RingShape, MappedFits
<1>3. Current \in 1 .. Len(files) /\ files[Current] \in RingFile /\ Current \in Nat
  BY <1>1 DEF RingInv, RingShape, Current
<1>4. header # None => header.geometry \in Geometry
  BY <1>3 DEF RingFile, Header
<1>5. /\ new \in [file : Nat, geometry : Geometry \cup {None}]
      /\ new # Unmapped => new.file \in 1 .. Len(files) /\ new.geometry \in Geometry
  BY <1>3, <1>4 DEF Unmapped
<1> HIDE DEF new
<1>6. MappedFits'
  BY <1>1, <1>2, <1>5 DEF MappedFits, Unmapped
<1>7. QED
  BY <1>1, <1>6, MappingStep

LEMMA UnavailableStep ==
    ASSUME RingInv, NEW r \in Reader, Unavailable(r)
    PROVE  RingInv'
<1>1. mapped' = [mapped EXCEPT ![r] = Unmapped] /\ UNCHANGED writer
  BY DEF Unavailable
<1>2. files' = files /\ MappedFits
  BY <1>1 DEF writer, RingInv, RingShape, MappedFits
<1>3. Unmapped \in [file : Nat, geometry : Geometry \cup {None}]
  BY DEF Unmapped
<1>4. MappedFits'
  BY <1>1, <1>2, <1>3 DEF MappedFits, Unmapped
<1>5. QED
  BY <1>1, <1>4, MappingStep

LEMMA RingInvInit ==
    ASSUME RingInit
    PROVE  RingInv
<1>1. /\ files = <<>> /\ wpc = "off" /\ run = 0 /\ own = None /\ sequence = 0 /\ record = None
      /\ skipped = {} /\ mapped = [r \in Reader |-> Unmapped]
  BY DEF RingInit
<1>2. RingShape
  <2>1. Unmapped \in [file : Nat, geometry : Geometry \cup {None}]
    BY DEF Unmapped
  <2>2. files \in Seq(RingFile) /\ Len(files) = 0
    BY <1>1
  <2>3. MappedFits
    BY <1>1, <2>1 DEF MappedFits
  <2>4. QED
    BY <1>1, <2>2, <2>3, RingAssumption DEF RingShape, MappedFits
<1>3. WriterFits /\ HeaderFits /\ SlotFits /\ WindowFits
  BY <1>1 DEF WriterFits, HeaderFits, SlotFits, WindowFits, Alive, HeaderIsOwn, Filling
<1>4. OthersAreSettled
  BY <1>1 DEF OthersAreSettled
<1>5. QED
  BY <1>2, <1>3, <1>4 DEF RingInv

LEMMA RingInvStep ==
    ASSUME RingInv, [RingNext]_ringVars
    PROVE  RingInv'
<1>1. ASSUME NEW g \in Geometry, Start(g) PROVE RingInv'
  BY <1>1, StartStep
<1>2. CASE ClearHeader
  BY <1>2, ClearHeaderStep
<1>3. CASE ResetHeader
  BY <1>3, ResetHeaderStep
<1>4. CASE Advance
  BY <1>4, AdvanceStep
<1>5. ASSUME own # None, NEW length \in 1 .. own.size, Publish(length) PROVE RingInv'
  BY <1>5, PublishStep
<1>6. CASE Skip
  BY <1>6, SkipStep
<1>7. CASE WritePayload
  BY <1>7, WritePayloadStep
<1>8. CASE PayloadWritten
  BY <1>8, PayloadWrittenStep
<1>9. CASE WriteSlot
  BY <1>9, WriteSlotStep
<1>10. CASE Stop
  BY <1>10, StopStep
<1>11. ASSUME NEW r \in Reader, Open(r) PROVE RingInv'
  BY <1>11, OpenStep
<1>12. ASSUME NEW r \in Reader, Unavailable(r) PROVE RingInv'
  BY <1>12, UnavailableStep
<1>13. CASE UNCHANGED ringVars
  <2>1. UNCHANGED writer /\ UNCHANGED mapped /\ UNCHANGED files
    BY <1>13 DEF ringVars, writer
  <2>2. MappedFits'
    BY <2>1 DEF RingInv, RingShape, MappedFits
  <2>3. QED
    BY <2>1, <2>2, MappingStep
<1>14. QED
  BY <1>1, <1>2, <1>3, <1>4, <1>5, <1>6, <1>7, <1>8, <1>9, <1>10, <1>11, <1>12, <1>13
     DEF RingNext

\* A daemon that runs, or that died at any store, leaves every file so that a
\* reader who takes the lock can rely on it.
THEOREM RingInvariant == RingSpec => []RingInv
<1>1. RingInit => RingInv
  BY RingInvInit
<1>2. RingInv /\ [RingNext]_ringVars => RingInv'
  BY RingInvStep
<1>3. QED
  BY <1>1, <1>2, PTL DEF RingSpec

----
\* What the invariant says to a reader.

\* Every variable keeps to its range, whatever the geometries and the faults.
THEOREM RingTypes == RingSpec => []RingTypeOK
<1>1. RingInv => RingTypeOK
  <2> SUFFICES ASSUME RingInv PROVE RingTypeOK
    OBVIOUS
  <2>1. \A f \in 1 .. Len(files) :
            /\ files[f].header \in Header \cup {None}
            /\ \A i \in DOMAIN files[f].cells :
                  files[f].cells[i] \in [head : Record \cup {None}, body : Record \cup {None}]
    <3> SUFFICES ASSUME NEW f \in 1 .. Len(files)
                 PROVE  /\ files[f].header \in Header \cup {None}
                        /\ \A i \in DOMAIN files[f].cells : files[f].cells[i] \in Cell
      BY DEF Cell
    <3>1. files[f] \in RingFile
      BY DEF RingInv, RingShape
    <3>2. QED
      BY <3>1 DEF RingFile
  <2>2. \A r \in Reader :
            mapped[r] = Unmapped \/ mapped[r] \in [file : 1 .. Len(files), geometry : Geometry]
    BY DEF RingInv, RingShape
  <2>3. own \in Geometry \cup {None}
    BY DEF RingInv, WriterFits
  <2>4. wpc \in {"off", "start", "reset", "ready", "fill", "slot", "commit", "advance"}
    BY DEF RingInv, RingShape, Filling
  <2>5. QED
    BY <2>1, <2>2, <2>3, <2>4 DEF RingTypeOK, RingInv, RingShape
<1>2. QED
  BY <1>1, RingInvariant, PTL

\* A slot that is whole is copied and passes the checksum.
LEMMA WholeIsRead ==
    ASSUME NEW ring, NEW g \in Geometry, NEW r, NEW s \in Nat \ {0},
           SlotWhole(ring.cells, g, r, s)
    PROVE  /\ Parse(Copy(ring, g, s)) # None
           /\ Parse(Copy(ring, g, s)).record.run = r
           /\ Parse(Copy(ring, g, s)).record.sequence = s
<1> DEFINE place == Offset(g, s)
           head == ring.cells[place].head
           bodies == {ring.cells[i].body : i \in Extent(place, head.length)}
           copy == [record |-> head, bodies |-> bodies]
<1>1. /\ head \in Record /\ head.run = r /\ head.sequence = s /\ head.length <= g.size
      /\ \A i \in Extent(place, head.length) : ring.cells[i].body = head
  BY DEF SlotWhole
<1>2. bodies = {head}
  <2>1. head.length \in Nat \ {0}
    BY <1>1 DEF Record
  <2>2. place \in Int
    BY Geometries, SlotsInFile
  <2> HIDE DEF place, head
  <2>3. place \in Extent(place, head.length)
    BY <2>1, <2>2 DEF Extent
  <2>4. QED
    BY <1>1, <2>3
<1>3. copy \in Slot /\ copy # None /\ head # None
  BY <1>1, <1>2, RingAssumption DEF Slot
<1>4. Copy(ring, g, s) = copy
  <2>1. s # 0 /\ head.sequence = s /\ ~(head.length > g.size)
    BY <1>1, Geometries DEF Record
  <2>2. QED
    BY <1>3, <2>1 DEF Copy
<1>5. copy.bodies = {head} /\ copy.record = head
  BY <1>2
<1> HIDE DEF copy
<1>6. QED
  BY <1>1, <1>3, <1>4, <1>5 DEF Parse

LEMMA NamedIsRead ==
    ASSUME NEW ring, NEW header, header.geometry \in Geometry,
           header.latest \in Nat \ {0},
           SlotWhole(ring.cells, header.geometry, header.run, header.latest)
    PROVE  LET copy == Parse(Copy(ring, header.geometry, header.latest))
           IN  copy # None /\ copy.record.run = header.run
<1> DEFINE s == header.latest
           g == header.geometry
           read == Parse(Copy(ring, g, s))
<1>1. SlotWhole(ring.cells, g, header.run, s) /\ g \in Geometry /\ s \in Nat \ {0}
  OBVIOUS
<1>2. read # None /\ read.record.run = header.run /\ read.record.sequence = s
  <2> HIDE DEF s, g
  <2>1. QED
    BY <1>1, WholeIsRead
<1>3. QED
  BY <1>2

\* "newest-wins" and no reader is given parts of two records: for every geometry,
\* reader and number of daemons, and wherever a daemon dies.
THEOREM RecordsAreWholeAlways == RingSpec => []RecordsAreWhole
<1>1. RingInv => RecordsAreWhole
  <2> SUFFICES ASSUME RingInv PROVE RecordsAreWhole
    OBVIOUS
  <2>1. NamedSlotIsWhole
    <3> SUFFICES ASSUME NEW f \in 1 .. Len(files),
                        files[f].header # None, files[f].header.latest > 0,
                        \E s \in files[f].header.latest + 1 ..
                                files[f].header.latest + files[f].header.geometry.count - 1 :
                            <<files[f].header.run, s>> \notin skipped
                 PROVE  LET copy == Latest(files[f], files[f].header.geometry)
                        IN  copy # None /\ copy.record.run = files[f].header.run
      BY DEF NamedSlotIsWhole
    <3>1. files[f] \in RingFile
      BY DEF RingInv, RingShape
    <3>2. files[f].header.latest \in Nat \ {0} /\ files[f].header.geometry \in Geometry
      BY <3>1, RingAssumption DEF RingFile, Header
    <3>3. SlotWhole(files[f].cells, files[f].header.geometry, files[f].header.run,
                    files[f].header.latest)
      BY AllSettled DEF Settled
    <3>4. QED
      BY <3>2, <3>3, NamedIsRead DEF Latest
  <2>2. ReadIsWhole
    BY DEF ReadIsWhole, Given, Latest, History, Parse
  <2>3. QED
    BY <2>1, <2>2 DEF RecordsAreWhole
<1>2. QED
  BY <1>1, RingInvariant, PTL

\* A history is of one daemon, but for the samples that one had to skip, and at
\* most one record is missing from it: for every geometry, reader and number of
\* daemons, and wherever a daemon dies.
THEOREM HistoryIsOneRunAlways == RingSpec => []HistoryIsOneRun
<1>1. RingInv => HistoryIsOneRun
  <2> SUFFICES ASSUME RingInv, NEW r \in Reader, Readable(r), Matches(r)
               PROVE  LET header == files[mapped[r].file].header
                          recent == Recent(header.latest, header.geometry)
                          skip(s) == <<header.run, s>> \in skipped
                          has(s) == \E copy \in Given(r) :
                              copy.record.sequence = s /\ copy.record.run = header.run
                      IN  /\ \A copy \in Given(r) :
                                has(copy.record.sequence) \/ skip(copy.record.sequence)
                          /\ \A s, t \in recent :
                                has(s) \/ skip(s) \/ has(t) \/ skip(t) \/ s = t
    BY DEF HistoryIsOneRun
  <2> DEFINE ring == files[mapped[r].file]
             header == ring.header
             g == header.geometry
             recent == Recent(header.latest, g)
             skip(s) == <<header.run, s>> \in skipped
             has(s) == \E copy \in Given(r) :
                           copy.record.sequence = s /\ copy.record.run = header.run
             read(s) == Parse(Copy(ring, g, s))
             whole(s) == SlotWhole(ring.cells, g, header.run, s)
  <2>1. /\ mapped[r].file \in 1 .. Len(files) /\ ring \in RingFile /\ header # None
        /\ mapped[r].geometry = g
    BY DEF RingInv, RingShape, Readable, Matches
  <2>2. header \in Header /\ header.latest \in Nat /\ g \in Geometry /\ g.count \in Nat
        /\ g.count >= 2
    BY <2>1, Geometries, RingAssumption DEF RingFile, Header, MinSlots
  <2>3. Settled(ring)
    BY <2>1, AllSettled
  <2>4. Given(r) = ({read(header.latest)} \cup {read(s) : s \in recent}) \ {None}
    BY <2>1 DEF Given, History, Latest
  <2>5. \A s \in recent : s \in Nat \ {0}
    BY <2>2 DEF Recent
  <2>6. \A s : read(s) # None => read(s).record.sequence = s /\ s # 0
    BY DEF Parse, Copy
  <2>7. \A s \in recent : whole(s) => has(s)
    <3> SUFFICES ASSUME NEW s \in recent, whole(s) PROVE has(s)
      OBVIOUS
    <3>1. read(s) # None /\ read(s).record.run = header.run /\ read(s).record.sequence = s
      <4>1. SlotWhole(ring.cells, g, header.run, s) /\ g \in Geometry /\ s \in Nat \ {0}
        BY <2>2, <2>5
      <4> HIDE DEF header, g, ring
      <4>2. QED
        BY <4>1, WholeIsRead
    <3>2. read(s) \in Given(r)
      BY <2>4, <3>1
    <3>3. QED
      BY <3>1, <3>2
  <2>8. \A s \in recent : ~skip(s) => s \in Published(header.run, g, header.latest)
    BY DEF Published
  <2>9. ASSUME NEW copy \in Given(r)
        PROVE  has(copy.record.sequence) \/ skip(copy.record.sequence)
    <3>1. PICK s \in {header.latest} \cup recent : copy = read(s) /\ copy # None
      BY <2>4
    <3>2. copy.record.sequence = s /\ s # 0
      BY <2>6, <3>1
    <3>3. s \in recent
      <4>1. CASE s = header.latest
        <5>1. PICK n \in Nat, c \in Nat : n = header.latest /\ c = g.count /\ c >= 2
          BY <2>2
        <5>2. n \in 1 .. n /\ n > n - c
          BY <3>2, <4>1, <5>1
        <5>3. QED
          BY <4>1, <5>1, <5>2 DEF Recent
      <4>2. QED
        BY <3>1, <4>1
    <3>4. ~SlotVoid(ring.cells, g, s)
      BY <3>1 DEF SlotVoid, Parse, Copy
    <3>5. skip(s) \/ whole(s)
      BY <2>1, <2>3, <2>8, <3>3, <3>4 DEF Settled
    <3>6. QED
      BY <2>7, <3>2, <3>3, <3>5
  <2>10. ASSUME NEW s \in recent, NEW t \in recent
         PROVE  has(s) \/ skip(s) \/ has(t) \/ skip(t) \/ s = t
    <3>1. skip(s) \/ skip(t) \/ s = t \/ whole(s) \/ whole(t)
      BY <2>1, <2>3, <2>8 DEF Settled
    <3>2. QED
      BY <2>7, <3>1
  <2>11. QED
    BY <2>9, <2>10
<1>2. QED
  BY <1>1, RingInvariant, PTL


----
\* The data together: a step of one part is a step of its own module, and the
\* others rest.
LEMMA PartsAreSeparate ==
    Spec => RegistrySpec /\ TicksSpec /\ SensorSpec /\ RingSpec
<1>1. Init => RegistryInit /\ TicksInit /\ SensorInit /\ RingInit
  BY DEF Init
<1>2. [Next]_vars => /\ [RegistryNext]_registryVars /\ [TicksNext]_ticksVars
                     /\ [SensorNext]_sensorVars /\ [RingNext]_ringVars
  BY DEF Next, vars
<1> QED
  BY <1>1, <1>2, PTL DEF Spec, RegistrySpec, TicksSpec, SensorSpec, RingSpec

\* Type correctness of the data, whichever part of it changes.
THEOREM TelemetryDataTypes == Spec => []TypeOK
<1> QED
  BY PartsAreSeparate, RegistryTypes, TicksTypes, SensorTypes, RingTypes, PTL DEF TypeOK
====
