---- MODULE HardwareProofs ----
(***************************************************************************)
(* Theorems about plebian-hardware.  Of SnapshotCache, for any number of   *)
(* commands, observations and missing directories: what kills, failing     *)
(* calls and power losses leave of the cache.  Of BoundedProbe, for any    *)
(* limit and any amount of output: what a command that was given up or     *)
(* that has answered leaves running and unread.  Of HardwareProbe, for a   *)
(* directory of any length: what a document states of devices that are     *)
(* unplugged or silent while they are looked at, and that it is one the    *)
(* validator accepts.                                                      *)
(***************************************************************************)
EXTENDS SnapshotCache, BoundedProbe, HardwareProbe, FiniteSetTheorems, TLAPS

\* The steps of write_snapshot() once it has decided to write.
Writing == {"create", "write", "sync", "replace", "syncdir"}

----
\* The inductive invariant, in parts.

\* Only a refresh writes, and it has an observation of its own.
StepsFit ==
    \A p \in Proc :
        /\ cmd[p].at \in {"mkdir", "look"} \cup Writing => cmd[p].refresh
        /\ cmd[p].refresh <=> cmd[p].obs # Absent
        /\ cmd[p].at = "mkdir" => cmd[p].level < Depth

ObsUnique == \A p, q \in Proc : cmd[p].obs = cmd[q].obs /\ cmd[p].obs # Absent => p = q

\* A file is whole before it is synced, and synced before it takes the name.
WrittenFirst ==
    /\ \A n \in synced : written[n] = "whole"
    /\ \A p \in Proc :
        /\ At(p, "sync") => written[cmd[p].obs] = "whole"
        /\ At(p, "replace") => cmd[p].obs \in synced

\* Whatever has or had the name was synced, ...
CachedIsSynced ==
    /\ (former \cup onDisk \cup {cache}) \cap Observation \subseteq synced
    /\ cache \in onDisk
    /\ gone \subseteq former

\* ... and is not what a refresh has still to put in place, nor, while one is
\* about to sync the directory, something that was replaced.
CacheIsNew ==
    /\ \A p \in Proc :
        ~At(p, "syncdir") => cmd[p].obs \notin (former \cup onDisk \cup {cache}) \ {Absent}
    /\ (\E p \in Proc : At(p, "syncdir")) => cache \notin former

\* Nobody who writes has seen a damaged cache, and only a power loss brings one
\* back.
DamagedIsAlone ==
    cache = Malformed => onDisk = {Malformed} /\ \A p \in Proc : cmd[p].at \notin Writing

\* A temporary name is only there between creation and replacement.
TempInUse ==
    \A p \in Proc : cmd[p].at \notin {"write", "sync", "replace"} => cmd[p].obs \notin temps

CacheInv ==
    /\ CacheTypeOK
    /\ StepsFit
    /\ ObsUnique
    /\ WrittenFirst
    /\ CachedIsSynced
    /\ CacheIsNew
    /\ SuccessSticks
    /\ DamagedIsAlone
    /\ TempInUse
    /\ LitterMeansKilled

----
\* What a command becomes when it goes on.
Command == [at : Step, refresh : BOOLEAN, obs : Observation \cup {Absent},
            level : 0..Depth, fd : File \cup {Absent}]

\* Only the command of p changes: it becomes c.
Becomes(p, c) ==
    /\ cmd' \in [Proc -> Command]
    /\ \A q \in Proc \ {p} : cmd'[q] = cmd[q]
    /\ cmd'[p] = c

LEMMA ChangeBecomes ==
    ASSUME CacheTypeOK, NEW p \in Proc, NEW c \in Command, cmd' = [cmd EXCEPT ![p] = c]
    PROVE  Becomes(p, c)
BY DEF CacheTypeOK, Command, Becomes

\* A command goes to another step, ...
LEMMA GotoMoves ==
    ASSUME CacheTypeOK, NEW p \in Proc, NEW s \in Step, Goto(p, s)
    PROVE  Becomes(p, [cmd[p] EXCEPT !.at = s])
<1>1. [cmd[p] EXCEPT !.at = s] \in Command
  BY DEF CacheTypeOK, Command
<1>2. cmd' = [cmd EXCEPT ![p] = [cmd[p] EXCEPT !.at = s]]
  BY DEF Goto
<1>3. QED
  BY <1>1, <1>2, ChangeBecomes

\* ... or ends, ...
LEMMA EndMoves ==
    ASSUME CacheTypeOK, NEW p \in Proc, End(p)
    PROVE  Becomes(p, Idle)
<1>1. Idle \in Command
  BY CacheAssumption DEF Command, Idle, Step
<1>2. QED
  BY <1>1, ChangeBecomes DEF End

\* ... or goes down one component of the path, ...
LEMMA LevelMoves ==
    ASSUME CacheTypeOK, NEW p \in Proc, NEW k \in 0..Depth, NEW s \in Step,
           cmd' = [cmd EXCEPT ![p].at = s, ![p].level = k]
    PROVE  Becomes(p, [cmd[p] EXCEPT !.at = s, !.level = k])
<1>1. [cmd[p] EXCEPT !.at = s, !.level = k] \in Command
  BY DEF CacheTypeOK, Command
<1>2. cmd' = [cmd EXCEPT ![p] = [cmd[p] EXCEPT !.at = s, !.level = k]]
  BY DEF CacheTypeOK
<1>3. QED
  BY <1>1, <1>2, ChangeBecomes

\* Where each operation takes its process, and the observation it has then.
Moves(p, s, n) ==
    /\ cmd' \in [Proc -> Command]
    /\ \A q \in Proc \ {p} : cmd'[q] = cmd[q]
    /\ cmd'[p].at = s /\ cmd'[p].obs = n
    /\ cmd'[p].refresh <=> n # Absent

LEMMA StartMoves ==
    ASSUME CacheTypeOK, NEW p \in Proc
    PROVE  /\ StartDoctor(p) => Moves(p, "root", Absent)
           /\ StartRefresh(p) => \E n \in Unused : Moves(p, "root", n)
<1>1. Idle \in Command /\ Absent \notin Observation
  BY CacheAssumption DEF Idle, Command, Step, Observation
<1>2. ASSUME StartDoctor(p) PROVE Moves(p, "root", Absent)
  <2> DEFINE begun == [Idle EXCEPT !.at = "root"]
  <2>1. begun \in Command
    BY <1>1 DEF Command, Step
  <2>2. begun.at = "root" /\ ~begun.refresh /\ begun.obs = Absent
    BY DEF Idle
  <2>3. cmd' = [cmd EXCEPT ![p] = begun]
    BY <1>2 DEF StartDoctor
  <2> HIDE DEF begun
  <2>4. QED
    BY <2>1, <2>2, <2>3, ChangeBecomes DEF Becomes, Moves
<1>3. ASSUME StartRefresh(p) PROVE \E n \in Unused : Moves(p, "root", n)
  <2>1. PICK n \in Unused :
            cmd' = [cmd EXCEPT ![p] = [Idle EXCEPT !.at = "root", !.refresh = TRUE, !.obs = n]]
    BY <1>3 DEF StartRefresh
  <2> DEFINE begun == [Idle EXCEPT !.at = "root", !.refresh = TRUE, !.obs = n]
  <2>2. n \in Observation
    BY DEF Unused, Observation
  <2>3. begun \in Command
    BY <1>1, <2>2 DEF Command, Step
  <2>4. begun.at = "root" /\ begun.refresh /\ begun.obs = n
    BY DEF Idle
  <2>5. cmd' = [cmd EXCEPT ![p] = begun]
    BY <2>1
  <2> HIDE DEF begun
  <2>6. Moves(p, "root", n)
    BY <1>1, <2>2, <2>3, <2>4, <2>5, ChangeBecomes DEF Becomes, Moves
  <2>7. QED
    BY <2>6
<1>4. QED
  BY <1>2, <1>3

\* A step keeps the observation, the end of a command drops it.
LEMMA StepMoves ==
    ASSUME CacheTypeOK, StepsFit, NEW p \in Proc
    PROVE  /\ \A s \in Step : Goto(p, s) => Moves(p, s, cmd[p].obs)
           /\ End(p) => Moves(p, "idle", Absent)
           /\ \A s \in Step, k \in 0..Depth :
                cmd' = [cmd EXCEPT ![p].at = s, ![p].level = k]
                    => Moves(p, s, cmd[p].obs) /\ cmd'[p].level = k
<1>1. cmd[p] \in Command /\ (cmd[p].refresh <=> cmd[p].obs # Absent)
  BY DEF CacheTypeOK, StepsFit, Command
<1>2. ASSUME NEW s \in Step, Goto(p, s) PROVE Moves(p, s, cmd[p].obs)
  <2>1. Becomes(p, [cmd[p] EXCEPT !.at = s])
    BY <1>2, GotoMoves
  <2>2. QED
    BY <1>1, <2>1 DEF Becomes, Moves, Command
<1>3. ASSUME End(p) PROVE Moves(p, "idle", Absent)
  <2>1. Becomes(p, Idle)
    BY <1>3, EndMoves
  <2>2. QED
    BY <2>1 DEF Becomes, Moves, Idle
<1>4. ASSUME NEW s \in Step, NEW k \in 0..Depth,
             cmd' = [cmd EXCEPT ![p].at = s, ![p].level = k]
      PROVE  Moves(p, s, cmd[p].obs) /\ cmd'[p].level = k
  <2>1. Becomes(p, [cmd[p] EXCEPT !.at = s, !.level = k])
    BY <1>4, LevelMoves
  <2>2. QED
    BY <1>1, <2>1 DEF Becomes, Moves, Command
<1>5. QED
  BY <1>2, <1>3, <1>4

\* The operations that do not always go on to the same step.
LEMMA BranchMoves ==
    ASSUME CacheTypeOK, StepsFit, NEW p \in Proc
    PROVE  /\ OpenRoot(p) =>
                \/ Moves(p, "look", cmd[p].obs) /\ cmd[p].refresh
                \/ Moves(p, "open", cmd[p].obs)
                \/ Moves(p, "root", cmd[p].obs)
                \/ Moves(p, "mkdir", cmd[p].obs) /\ cmd[p].refresh /\ cmd'[p].level < Depth
                \/ Moves(p, "idle", Absent)
           /\ MakeRoot(p) =>
                \/ /\ Moves(p, "root", cmd[p].obs)
                   /\ made' = made + 1 /\ made < Depth
                \/ Moves(p, "idle", Absent) /\ made' = made
           /\ Open(p) => Moves(p, "read", cmd[p].obs) \/ Moves(p, "idle", Absent)
           /\ Read(p) =>
                \/ Moves(p, "create", cmd[p].obs) /\ cmd[p].refresh /\ cache # Malformed
                \/ Moves(p, "idle", Absent)
           /\ Write(p) =>
                \/ UNCHANGED cmd /\ written' = [written EXCEPT ![cmd[p].obs] = "part"]
                \/ /\ Moves(p, "sync", cmd[p].obs)
                   /\ written' = [written EXCEPT ![cmd[p].obs] = "whole"]
<1>1. /\ cmd \in [Proc -> Command] /\ cmd[p] \in Command /\ Depth \in Nat /\ made \in 0..Depth
      /\ {"root", "look", "open", "mkdir", "read", "create", "sync"} \subseteq Step
  BY CacheAssumption DEF CacheTypeOK, Command, Step
<1>2. ASSUME OpenRoot(p)
      PROVE  \/ Moves(p, "look", cmd[p].obs) /\ cmd[p].refresh
             \/ Moves(p, "open", cmd[p].obs)
             \/ Moves(p, "root", cmd[p].obs)
             \/ Moves(p, "mkdir", cmd[p].obs) /\ cmd[p].refresh /\ cmd'[p].level < Depth
             \/ Moves(p, "idle", Absent)
  <2>1. CASE cmd[p].level = Depth /\ Goto(p, IF cmd[p].refresh THEN "look" ELSE "open")
    BY <1>1, <2>1, StepMoves
  <2>2. CASE cmd[p].level < made /\ cmd' = [cmd EXCEPT ![p].level = @ + 1]
    <3>1. [cmd[p] EXCEPT !.level = cmd[p].level + 1] \in Command
      BY <1>1, <2>2 DEF Command
    <3>2. Becomes(p, [cmd[p] EXCEPT !.level = cmd[p].level + 1])
      BY <1>1, <2>2, <3>1, ChangeBecomes
    <3>3. cmd[p].at = "root"
      BY <1>2 DEF OpenRoot, At
    <3>4. QED
      BY <1>1, <3>2, <3>3 DEF Becomes, Moves, Command, StepsFit
  <2>3. CASE cmd[p].level = made /\ made < Depth /\ cmd[p].refresh /\ Goto(p, "mkdir")
    <3>1. Becomes(p, [cmd[p] EXCEPT !.at = "mkdir"])
      BY <1>1, <2>3, GotoMoves
    <3>2. cmd'[p].level = cmd[p].level
      BY <1>1, <3>1 DEF Becomes, Command
    <3>3. QED
      BY <1>1, <2>3, <3>2, StepMoves
  <2>4. CASE End(p)
    BY <2>4, StepMoves
  <2>5. QED
    BY <1>2, <2>1, <2>2, <2>3, <2>4 DEF OpenRoot
<1>3. ASSUME MakeRoot(p)
      PROVE  \/ /\ Moves(p, "root", cmd[p].obs)
                /\ made' = made + 1 /\ made < Depth
             \/ Moves(p, "idle", Absent) /\ made' = made
  <2>1. CASE /\ cmd[p].level = made /\ made' = made + 1
             /\ cmd' = [cmd EXCEPT ![p].at = "root", ![p].level = made + 1]
    <3>1. made < Depth
      BY <1>3, <2>1 DEF MakeRoot, At, StepsFit
    <3>2. made + 1 \in 0..Depth
      BY <1>1, <3>1
    <3>3. QED
      BY <1>1, <2>1, <3>1, <3>2, StepMoves
  <2>2. CASE End(p) /\ made' = made
    BY <2>2, StepMoves
  <2>3. QED
    BY <1>3, <2>1, <2>2 DEF MakeRoot
<1>4. ASSUME Open(p) PROVE Moves(p, "read", cmd[p].obs) \/ Moves(p, "idle", Absent)
  <2>1. CASE cache # Absent /\ cmd' = [cmd EXCEPT ![p].at = "read", ![p].fd = cache]
    <3>1. cache \in File
      BY <2>1 DEF CacheTypeOK
    <3>2. [cmd[p] EXCEPT !.at = "read", !.fd = cache] \in Command
      BY <1>1, <3>1 DEF Command
    <3>3. cmd' = [cmd EXCEPT ![p] = [cmd[p] EXCEPT !.at = "read", !.fd = cache]]
      BY <1>1, <2>1
    <3>4. Becomes(p, [cmd[p] EXCEPT !.at = "read", !.fd = cache])
      BY <3>2, <3>3, ChangeBecomes
    <3>5. QED
      BY <1>1, <3>4 DEF Becomes, Moves, Command, StepsFit
  <2>2. CASE End(p)
    BY <2>2, StepMoves
  <2>3. QED
    BY <1>4, <2>1, <2>2 DEF Open
<1>5. ASSUME Read(p)
      PROVE  \/ Moves(p, "create", cmd[p].obs) /\ cmd[p].refresh /\ cache # Malformed
             \/ Moves(p, "idle", Absent)
  BY <1>1, <1>5, StepMoves DEF Read, Accepts
<1>6. ASSUME Write(p)
      PROVE  \/ UNCHANGED cmd /\ written' = [written EXCEPT ![cmd[p].obs] = "part"]
             \/ /\ Moves(p, "sync", cmd[p].obs)
                /\ written' = [written EXCEPT ![cmd[p].obs] = "whole"]
  BY <1>1, <1>6, StepMoves DEF Write
<1>7. QED
  BY <1>2, <1>3, <1>4, <1>5, <1>6

----
\* Every step keeps the invariant, one operation at a time.
LEMMA CacheInvStep ==
    ASSUME CacheInv, CacheNext
    PROVE  CacheInv'
<1> USE DEF At, Writing, files, history
<1>a. /\ CacheTypeOK /\ StepsFit /\ Absent \notin Observation /\ Malformed \notin Observation
      /\ Absent # Malformed
  BY CacheAssumption DEF CacheInv, Observation
<1>1. ASSUME NEW p \in Proc, StartRefresh(p) PROVE CacheInv'
  <2>unused. PICK n \in Unused : Moves(p, "root", n)
    BY <1>a, <1>1, StartMoves
  <2>moves. /\ Moves(p, "root", n) /\ n \in Observation \ temps /\ written[n] = "none"
            /\ \A q \in Proc : cmd[q].obs # n
    BY <2>unused DEF Unused, Observation
  <2>1. CacheTypeOK'
    BY <1>a, <1>1, <2>moves DEF CacheInv, CacheTypeOK, Command, Moves, StartRefresh
  <2>2. StepsFit' /\ ObsUnique'
    BY <1>a, <1>1, <2>moves DEF CacheInv, StepsFit, ObsUnique, Moves, StartRefresh
  <2>3. WrittenFirst' /\ CachedIsSynced'
    BY <1>a, <1>1, <2>moves DEF CacheInv, CachedIsSynced, WrittenFirst, StepsFit, ObsUnique,
       CacheTypeOK, Moves, StartRefresh
  <2>4. CacheIsNew' /\ SuccessSticks'
    BY <1>a, <1>1, <2>moves DEF CacheInv, CacheIsNew, SuccessSticks, CachedIsSynced,
       WrittenFirst, ObsUnique, StepsFit, CacheTypeOK, Moves, StartRefresh
  <2>5. DamagedIsAlone'
    BY <1>a, <1>1, <2>moves DEF CacheInv, DamagedIsAlone, StepsFit, Moves, StartRefresh
  <2>6. TempInUse' /\ LitterMeansKilled'
    BY <1>a, <1>1, <2>moves DEF CacheInv, TempInUse, LitterMeansKilled, ObsUnique, StepsFit,
       CacheTypeOK, Moves, StartRefresh
  <2> QED
    BY <2>1, <2>2, <2>3, <2>4, <2>5, <2>6 DEF CacheInv
<1>2. ASSUME NEW p \in Proc, StartDoctor(p) PROVE CacheInv'
  <2>moves. Moves(p, "root", Absent)
    BY <1>a, <1>2, StartMoves
  <2>1. CacheTypeOK'
    BY <1>a, <1>2, <2>moves DEF CacheInv, CacheTypeOK, Command, Moves, StartDoctor
  <2>2. StepsFit' /\ ObsUnique'
    BY <1>a, <1>2, <2>moves DEF CacheInv, StepsFit, ObsUnique, Moves, StartDoctor
  <2>3. WrittenFirst' /\ CachedIsSynced'
    BY <1>a, <1>2, <2>moves DEF CacheInv, CachedIsSynced, WrittenFirst, StepsFit, ObsUnique,
       CacheTypeOK, Moves, StartDoctor
  <2>4. CacheIsNew' /\ SuccessSticks'
    BY <1>a, <1>2, <2>moves DEF CacheInv, CacheIsNew, SuccessSticks, CachedIsSynced,
       WrittenFirst, ObsUnique, StepsFit, CacheTypeOK, Moves, StartDoctor
  <2>5. DamagedIsAlone'
    BY <1>a, <1>2, <2>moves DEF CacheInv, DamagedIsAlone, StepsFit, Moves, StartDoctor
  <2>6. TempInUse' /\ LitterMeansKilled'
    BY <1>a, <1>2, <2>moves DEF CacheInv, TempInUse, LitterMeansKilled, ObsUnique, StepsFit,
       CacheTypeOK, Moves, StartDoctor
  <2> QED
    BY <2>1, <2>2, <2>3, <2>4, <2>5, <2>6 DEF CacheInv
<1>3. ASSUME NEW p \in Proc, OpenRoot(p) PROVE CacheInv'
  <2>moves. \/ Moves(p, "look", cmd[p].obs) /\ cmd[p].refresh
            \/ Moves(p, "open", cmd[p].obs)
            \/ Moves(p, "root", cmd[p].obs)
            \/ Moves(p, "mkdir", cmd[p].obs) /\ cmd[p].refresh /\ cmd'[p].level < Depth
            \/ Moves(p, "idle", Absent)
    BY <1>a, <1>3, BranchMoves
  <2>1. CacheTypeOK'
    BY <1>a, <1>3, <2>moves DEF CacheInv, CacheTypeOK, Command, Moves, OpenRoot
  <2>2. StepsFit' /\ ObsUnique'
    BY <1>a, <1>3, <2>moves DEF CacheInv, StepsFit, ObsUnique, Moves, OpenRoot
  <2>3. WrittenFirst' /\ CachedIsSynced'
    BY <1>a, <1>3, <2>moves DEF CacheInv, CachedIsSynced, WrittenFirst, StepsFit, ObsUnique,
       CacheTypeOK, Moves, OpenRoot
  <2>4. CacheIsNew' /\ SuccessSticks'
    BY <1>a, <1>3, <2>moves DEF CacheInv, CacheIsNew, SuccessSticks, CachedIsSynced,
       WrittenFirst, ObsUnique, StepsFit, CacheTypeOK, Moves, OpenRoot
  <2>5. DamagedIsAlone'
    BY <1>a, <1>3, <2>moves DEF CacheInv, DamagedIsAlone, StepsFit, Moves, OpenRoot
  <2>6. TempInUse' /\ LitterMeansKilled'
    BY <1>a, <1>3, <2>moves DEF CacheInv, TempInUse, LitterMeansKilled, ObsUnique, StepsFit,
       CacheTypeOK, Moves, OpenRoot
  <2> QED
    BY <2>1, <2>2, <2>3, <2>4, <2>5, <2>6 DEF CacheInv
<1>4. ASSUME NEW p \in Proc, MakeRoot(p) PROVE CacheInv'
  <2>moves. \/ Moves(p, "root", cmd[p].obs) /\ made' = made + 1 /\ made < Depth
            \/ Moves(p, "idle", Absent) /\ made' = made
    BY <1>a, <1>4, BranchMoves
  <2>1. CacheTypeOK'
    BY <1>a, <1>4, <2>moves, CacheAssumption DEF CacheInv, CacheTypeOK, Command, Step,
       Moves, MakeRoot
  <2>2. StepsFit' /\ ObsUnique'
    BY <1>a, <1>4, <2>moves DEF CacheInv, StepsFit, ObsUnique, Moves, MakeRoot
  <2>3. WrittenFirst' /\ CachedIsSynced'
    BY <1>a, <1>4, <2>moves DEF CacheInv, CachedIsSynced, WrittenFirst, StepsFit, ObsUnique,
       CacheTypeOK, Moves, MakeRoot
  <2>4. CacheIsNew' /\ SuccessSticks'
    BY <1>a, <1>4, <2>moves DEF CacheInv, CacheIsNew, SuccessSticks, CachedIsSynced,
       WrittenFirst, ObsUnique, StepsFit, CacheTypeOK, Moves, MakeRoot
  <2>5. DamagedIsAlone'
    BY <1>a, <1>4, <2>moves DEF CacheInv, DamagedIsAlone, StepsFit, Moves, MakeRoot
  <2>6. TempInUse' /\ LitterMeansKilled'
    BY <1>a, <1>4, <2>moves DEF CacheInv, TempInUse, LitterMeansKilled, ObsUnique, StepsFit,
       CacheTypeOK, Moves, MakeRoot
  <2> QED
    BY <2>1, <2>2, <2>3, <2>4, <2>5, <2>6 DEF CacheInv
<1>5. ASSUME NEW p \in Proc, Look(p) PROVE CacheInv'
  <2>moves. Moves(p, IF cache = Absent THEN "create" ELSE "open", cmd[p].obs)
    BY <1>a, <1>5, StepMoves DEF Look, Step
  <2>1. CacheTypeOK'
    BY <1>a, <1>5, <2>moves DEF CacheInv, CacheTypeOK, Command, Moves, Look
  <2>2. StepsFit' /\ ObsUnique'
    BY <1>a, <1>5, <2>moves DEF CacheInv, StepsFit, ObsUnique, Moves, Look
  <2>3. WrittenFirst' /\ CachedIsSynced'
    BY <1>a, <1>5, <2>moves DEF CacheInv, CachedIsSynced, WrittenFirst, StepsFit, ObsUnique,
       CacheTypeOK, Moves, Look
  <2>4. CacheIsNew' /\ SuccessSticks'
    BY <1>a, <1>5, <2>moves DEF CacheInv, CacheIsNew, SuccessSticks, CachedIsSynced,
       WrittenFirst, ObsUnique, StepsFit, CacheTypeOK, Moves, Look
  <2>5. DamagedIsAlone'
    BY <1>a, <1>5, <2>moves DEF CacheInv, DamagedIsAlone, StepsFit, Moves, Look
  <2>6. TempInUse' /\ LitterMeansKilled'
    BY <1>a, <1>5, <2>moves DEF CacheInv, TempInUse, LitterMeansKilled, ObsUnique, StepsFit,
       CacheTypeOK, Moves, Look
  <2> QED
    BY <2>1, <2>2, <2>3, <2>4, <2>5, <2>6 DEF CacheInv
<1>6. ASSUME NEW p \in Proc, Open(p) PROVE CacheInv'
  <2>moves. Moves(p, "read", cmd[p].obs) \/ Moves(p, "idle", Absent)
    BY <1>a, <1>6, BranchMoves
  <2>1. CacheTypeOK'
    BY <1>a, <1>6, <2>moves DEF CacheInv, CacheTypeOK, Command, Moves, Open
  <2>2. StepsFit' /\ ObsUnique'
    BY <1>a, <1>6, <2>moves DEF CacheInv, StepsFit, ObsUnique, Moves, Open
  <2>3. WrittenFirst' /\ CachedIsSynced'
    BY <1>a, <1>6, <2>moves DEF CacheInv, CachedIsSynced, WrittenFirst, StepsFit, ObsUnique,
       CacheTypeOK, Moves, Open
  <2>4. CacheIsNew' /\ SuccessSticks'
    BY <1>a, <1>6, <2>moves DEF CacheInv, CacheIsNew, SuccessSticks, CachedIsSynced,
       WrittenFirst, ObsUnique, StepsFit, CacheTypeOK, Moves, Open
  <2>5. DamagedIsAlone'
    BY <1>a, <1>6, <2>moves DEF CacheInv, DamagedIsAlone, StepsFit, Moves, Open
  <2>6. TempInUse' /\ LitterMeansKilled'
    BY <1>a, <1>6, <2>moves DEF CacheInv, TempInUse, LitterMeansKilled, ObsUnique, StepsFit,
       CacheTypeOK, Moves, Open
  <2> QED
    BY <2>1, <2>2, <2>3, <2>4, <2>5, <2>6 DEF CacheInv
<1>7. ASSUME NEW p \in Proc, Read(p) PROVE CacheInv'
  <2>moves. \/ Moves(p, "create", cmd[p].obs) /\ cmd[p].refresh /\ cache # Malformed
            \/ Moves(p, "idle", Absent)
    BY <1>a, <1>7, BranchMoves
  <2>1. CacheTypeOK'
    BY <1>a, <1>7, <2>moves DEF CacheInv, CacheTypeOK, Command, Moves, Read
  <2>2. StepsFit' /\ ObsUnique'
    BY <1>a, <1>7, <2>moves DEF CacheInv, StepsFit, ObsUnique, Moves, Read
  <2>3. WrittenFirst' /\ CachedIsSynced'
    BY <1>a, <1>7, <2>moves DEF CacheInv, CachedIsSynced, WrittenFirst, StepsFit, ObsUnique,
       CacheTypeOK, Moves, Read
  <2>4. CacheIsNew' /\ SuccessSticks'
    BY <1>a, <1>7, <2>moves DEF CacheInv, CacheIsNew, SuccessSticks, CachedIsSynced,
       WrittenFirst, ObsUnique, StepsFit, CacheTypeOK, Moves, Read
  <2>5. DamagedIsAlone'
    BY <1>a, <1>7, <2>moves DEF CacheInv, DamagedIsAlone, StepsFit, Moves, Read
  <2>6. TempInUse' /\ LitterMeansKilled'
    BY <1>a, <1>7, <2>moves DEF CacheInv, TempInUse, LitterMeansKilled, ObsUnique, StepsFit,
       CacheTypeOK, Moves, Read
  <2> QED
    BY <2>1, <2>2, <2>3, <2>4, <2>5, <2>6 DEF CacheInv
<1>8. ASSUME NEW p \in Proc, Create(p) PROVE CacheInv'
  <2>moves. Moves(p, "write", cmd[p].obs)
    BY <1>a, <1>8, StepMoves DEF Create, Step
  <2>own. cmd[p].obs \in Observation
    BY <1>a, <1>8 DEF Create, CacheTypeOK, StepsFit
  <2>1. CacheTypeOK'
    BY <1>a, <1>8, <2>moves, <2>own DEF CacheInv, CacheTypeOK, Command, Moves, Create
  <2>2. StepsFit' /\ ObsUnique'
    BY <1>a, <1>8, <2>moves, <2>own DEF CacheInv, StepsFit, ObsUnique, Moves, Create
  <2>3. WrittenFirst' /\ CachedIsSynced'
    BY <1>a, <1>8, <2>moves, <2>own DEF CacheInv, CachedIsSynced, WrittenFirst, StepsFit,
       ObsUnique, CacheTypeOK, Moves, Create
  <2>4. CacheIsNew' /\ SuccessSticks'
    BY <1>a, <1>8, <2>moves, <2>own DEF CacheInv, CacheIsNew, SuccessSticks, CachedIsSynced,
       WrittenFirst, ObsUnique, StepsFit, CacheTypeOK, Moves, Create
  <2>5. DamagedIsAlone'
    BY <1>a, <1>8, <2>moves, <2>own DEF CacheInv, DamagedIsAlone, StepsFit, Moves, Create
  <2>6. TempInUse' /\ LitterMeansKilled'
    BY <1>a, <1>8, <2>moves, <2>own DEF CacheInv, TempInUse, LitterMeansKilled, ObsUnique,
       StepsFit, CacheTypeOK, Moves, Create
  <2> QED
    BY <2>1, <2>2, <2>3, <2>4, <2>5, <2>6 DEF CacheInv
<1>9. ASSUME NEW p \in Proc, Write(p) PROVE CacheInv'
  <2>moves. \/ UNCHANGED cmd /\ written' = [written EXCEPT ![cmd[p].obs] = "part"]
            \/ /\ Moves(p, "sync", cmd[p].obs)
               /\ written' = [written EXCEPT ![cmd[p].obs] = "whole"]
    BY <1>a, <1>9, BranchMoves
  <2>own. cmd[p].obs \in Observation
    BY <1>a, <1>9 DEF Write, CacheTypeOK, StepsFit
  <2>1. CacheTypeOK'
    BY <1>a, <1>9, <2>moves, <2>own DEF CacheInv, CacheTypeOK, Command, Moves, Write
  <2>2. StepsFit' /\ ObsUnique'
    BY <1>a, <1>9, <2>moves, <2>own DEF CacheInv, StepsFit, ObsUnique, Moves, Write
  <2>3. WrittenFirst' /\ CachedIsSynced'
    BY <1>a, <1>9, <2>moves, <2>own DEF CacheInv, CachedIsSynced, WrittenFirst, StepsFit,
       ObsUnique, CacheTypeOK, Moves, Write
  <2>4. CacheIsNew' /\ SuccessSticks'
    BY <1>a, <1>9, <2>moves, <2>own DEF CacheInv, CacheIsNew, SuccessSticks, CachedIsSynced,
       WrittenFirst, ObsUnique, StepsFit, CacheTypeOK, Moves, Write
  <2>5. DamagedIsAlone'
    BY <1>a, <1>9, <2>moves, <2>own DEF CacheInv, DamagedIsAlone, StepsFit, Moves, Write
  <2>6. TempInUse' /\ LitterMeansKilled'
    BY <1>a, <1>9, <2>moves, <2>own DEF CacheInv, TempInUse, LitterMeansKilled, ObsUnique,
       StepsFit, CacheTypeOK, Moves, Write
  <2> QED
    BY <2>1, <2>2, <2>3, <2>4, <2>5, <2>6 DEF CacheInv
<1>10. ASSUME NEW p \in Proc, Sync(p) PROVE CacheInv'
  <2>moves. Moves(p, "replace", cmd[p].obs)
    BY <1>a, <1>10, StepMoves DEF Sync, Step
  <2>own. cmd[p].obs \in Observation
    BY <1>a, <1>10 DEF Sync, CacheTypeOK, StepsFit
  <2>1. CacheTypeOK'
    BY <1>a, <1>10, <2>moves, <2>own DEF CacheInv, CacheTypeOK, Command, Moves, Sync
  <2>2. StepsFit' /\ ObsUnique'
    BY <1>a, <1>10, <2>moves, <2>own DEF CacheInv, StepsFit, ObsUnique, Moves, Sync
  <2>3. WrittenFirst' /\ CachedIsSynced'
    BY <1>a, <1>10, <2>moves, <2>own DEF CacheInv, CachedIsSynced, WrittenFirst, StepsFit,
       ObsUnique, CacheTypeOK, Moves, Sync
  <2>4. CacheIsNew' /\ SuccessSticks'
    BY <1>a, <1>10, <2>moves, <2>own DEF CacheInv, CacheIsNew, SuccessSticks,
       CachedIsSynced, WrittenFirst, ObsUnique, StepsFit, CacheTypeOK, Moves, Sync
  <2>5. DamagedIsAlone'
    BY <1>a, <1>10, <2>moves, <2>own DEF CacheInv, DamagedIsAlone, StepsFit, Moves, Sync
  <2>6. TempInUse' /\ LitterMeansKilled'
    BY <1>a, <1>10, <2>moves, <2>own DEF CacheInv, TempInUse, LitterMeansKilled, ObsUnique,
       StepsFit, CacheTypeOK, Moves, Sync
  <2> QED
    BY <2>1, <2>2, <2>3, <2>4, <2>5, <2>6 DEF CacheInv
<1>11. ASSUME NEW p \in Proc, Replace(p) PROVE CacheInv'
  <2>moves. Moves(p, "syncdir", cmd[p].obs)
    BY <1>a, <1>11, StepMoves DEF Replace, Step
  <2>own. cmd[p].obs \in Observation
    BY <1>a, <1>11 DEF Replace, CacheTypeOK, StepsFit
  <2>1. CacheTypeOK'
    BY <1>a, <1>11, <2>moves, <2>own DEF CacheInv, CacheTypeOK, Command, Moves, Replace,
       File
  <2>2. StepsFit' /\ ObsUnique'
    BY <1>a, <1>11, <2>moves, <2>own DEF CacheInv, StepsFit, ObsUnique, Moves, Replace
  <2>3. WrittenFirst' /\ CachedIsSynced'
    BY <1>a, <1>11, <2>moves, <2>own DEF CacheInv, CachedIsSynced, WrittenFirst, StepsFit,
       ObsUnique, CacheTypeOK, Moves, Replace
  <2>4. CacheIsNew' /\ SuccessSticks'
    BY <1>a, <1>11, <2>moves, <2>own DEF CacheInv, CacheIsNew, SuccessSticks,
       CachedIsSynced, WrittenFirst, ObsUnique, StepsFit, CacheTypeOK, Moves, Replace
  <2>5. DamagedIsAlone'
    BY <1>a, <1>11, <2>moves, <2>own DEF CacheInv, DamagedIsAlone, StepsFit, Moves, Replace
  <2>6. TempInUse' /\ LitterMeansKilled'
    BY <1>a, <1>11, <2>moves, <2>own DEF CacheInv, TempInUse, LitterMeansKilled, ObsUnique,
       StepsFit, CacheTypeOK, Moves, Replace
  <2> QED
    BY <2>1, <2>2, <2>3, <2>4, <2>5, <2>6 DEF CacheInv
<1>12. ASSUME NEW p \in Proc, SyncDir(p) PROVE CacheInv'
  <2>moves. Moves(p, "idle", Absent)
    BY <1>a, <1>12, StepMoves DEF SyncDir
  <2>1. CacheTypeOK'
    BY <1>a, <1>12, <2>moves DEF CacheInv, CacheTypeOK, Command, Moves, SyncDir
  <2>2. StepsFit' /\ ObsUnique'
    BY <1>a, <1>12, <2>moves DEF CacheInv, StepsFit, ObsUnique, Moves, SyncDir
  <2>3. WrittenFirst' /\ CachedIsSynced'
    BY <1>a, <1>12, <2>moves DEF CacheInv, CachedIsSynced, WrittenFirst, StepsFit,
       ObsUnique, CacheTypeOK, Moves, SyncDir
  <2>4. CacheIsNew' /\ SuccessSticks'
    BY <1>a, <1>12, <2>moves DEF CacheInv, CacheIsNew, SuccessSticks, CachedIsSynced,
       WrittenFirst, ObsUnique, StepsFit, CacheTypeOK, Moves, SyncDir
  <2>5. DamagedIsAlone'
    BY <1>a, <1>12, <2>moves DEF CacheInv, DamagedIsAlone, StepsFit, Moves, SyncDir
  <2>6. TempInUse' /\ LitterMeansKilled'
    BY <1>a, <1>12, <2>moves DEF CacheInv, TempInUse, LitterMeansKilled, ObsUnique,
       StepsFit, CacheTypeOK, Moves, SyncDir
  <2> QED
    BY <2>1, <2>2, <2>3, <2>4, <2>5, <2>6 DEF CacheInv
<1>13. ASSUME NEW p \in Proc, Fail(p) PROVE CacheInv'
  <2>moves. Moves(p, "idle", Absent)
    BY <1>a, <1>13, StepMoves DEF Fail
  <2>1. CacheTypeOK'
    BY <1>a, <1>13, <2>moves DEF CacheInv, CacheTypeOK, Command, Moves, Fail, RemovesTemp
  <2>2. StepsFit' /\ ObsUnique'
    BY <1>a, <1>13, <2>moves DEF CacheInv, StepsFit, ObsUnique, Moves, Fail, RemovesTemp
  <2>3. WrittenFirst' /\ CachedIsSynced'
    BY <1>a, <1>13, <2>moves DEF CacheInv, CachedIsSynced, WrittenFirst, StepsFit,
       ObsUnique, CacheTypeOK, Moves, Fail, RemovesTemp
  <2>4. CacheIsNew' /\ SuccessSticks'
    BY <1>a, <1>13, <2>moves DEF CacheInv, CacheIsNew, SuccessSticks, CachedIsSynced,
       WrittenFirst, ObsUnique, StepsFit, CacheTypeOK, Moves, Fail, RemovesTemp
  <2>5. DamagedIsAlone'
    BY <1>a, <1>13, <2>moves DEF CacheInv, DamagedIsAlone, StepsFit, Moves, Fail,
       RemovesTemp
  <2>6. TempInUse' /\ LitterMeansKilled'
    BY <1>a, <1>13, <2>moves DEF CacheInv, TempInUse, LitterMeansKilled, ObsUnique,
       StepsFit, CacheTypeOK, Moves, Fail, RemovesTemp
  <2> QED
    BY <2>1, <2>2, <2>3, <2>4, <2>5, <2>6 DEF CacheInv
<1>14. ASSUME NEW p \in Proc, Kill(p) PROVE CacheInv'
  <2>moves. Moves(p, "idle", Absent)
    BY <1>a, <1>14, StepMoves DEF Kill
  <2>1. CacheTypeOK'
    BY <1>a, <1>14, <2>moves DEF CacheInv, CacheTypeOK, Command, Moves, Kill
  <2>2. StepsFit' /\ ObsUnique'
    BY <1>a, <1>14, <2>moves DEF CacheInv, StepsFit, ObsUnique, Moves, Kill
  <2>3. WrittenFirst' /\ CachedIsSynced'
    BY <1>a, <1>14, <2>moves DEF CacheInv, CachedIsSynced, WrittenFirst, StepsFit,
       ObsUnique, CacheTypeOK, Moves, Kill
  <2>4. CacheIsNew' /\ SuccessSticks'
    BY <1>a, <1>14, <2>moves DEF CacheInv, CacheIsNew, SuccessSticks, CachedIsSynced,
       WrittenFirst, ObsUnique, StepsFit, CacheTypeOK, Moves, Kill
  <2>5. DamagedIsAlone'
    BY <1>a, <1>14, <2>moves DEF CacheInv, DamagedIsAlone, StepsFit, Moves, Kill
  <2>6. TempInUse' /\ LitterMeansKilled'
    BY <1>a, <1>14, <2>moves DEF CacheInv, TempInUse, LitterMeansKilled, ObsUnique,
       StepsFit, CacheTypeOK, Moves, Kill
  <2> QED
    BY <2>1, <2>2, <2>3, <2>4, <2>5, <2>6 DEF CacheInv
<1>15. ASSUME RemoveCache PROVE CacheInv'
  <2>1. CacheTypeOK'
    BY <1>a, <1>15 DEF CacheInv, CacheTypeOK, Command, RemoveCache
  <2>2. StepsFit' /\ ObsUnique'
    BY <1>a, <1>15 DEF CacheInv, StepsFit, ObsUnique, RemoveCache
  <2>3. WrittenFirst' /\ CachedIsSynced'
    BY <1>a, <1>15 DEF CacheInv, CachedIsSynced, WrittenFirst, StepsFit, ObsUnique,
       CacheTypeOK, RemoveCache
  <2>4. CacheIsNew' /\ SuccessSticks'
    BY <1>a, <1>15 DEF CacheInv, CacheIsNew, SuccessSticks, CachedIsSynced, WrittenFirst,
       ObsUnique, StepsFit, CacheTypeOK, RemoveCache
  <2>5. DamagedIsAlone'
    BY <1>a, <1>15 DEF CacheInv, DamagedIsAlone, StepsFit, RemoveCache
  <2>6. TempInUse' /\ LitterMeansKilled'
    BY <1>a, <1>15 DEF CacheInv, TempInUse, LitterMeansKilled, ObsUnique, StepsFit,
       CacheTypeOK, RemoveCache
  <2> QED
    BY <2>1, <2>2, <2>3, <2>4, <2>5, <2>6 DEF CacheInv
<1>16. ASSUME Writeback PROVE CacheInv'
  <2>1. CacheTypeOK'
    BY <1>a, <1>16 DEF CacheInv, CacheTypeOK, Command, Writeback
  <2>2. StepsFit' /\ ObsUnique'
    BY <1>a, <1>16 DEF CacheInv, StepsFit, ObsUnique, Writeback
  <2>3. WrittenFirst' /\ CachedIsSynced'
    BY <1>a, <1>16 DEF CacheInv, CachedIsSynced, WrittenFirst, StepsFit, ObsUnique,
       CacheTypeOK, Writeback
  <2>4. CacheIsNew' /\ SuccessSticks'
    BY <1>a, <1>16 DEF CacheInv, CacheIsNew, SuccessSticks, CachedIsSynced, WrittenFirst,
       ObsUnique, StepsFit, CacheTypeOK, Writeback
  <2>5. DamagedIsAlone'
    BY <1>a, <1>16 DEF CacheInv, DamagedIsAlone, StepsFit, Writeback
  <2>6. TempInUse' /\ LitterMeansKilled'
    BY <1>a, <1>16 DEF CacheInv, TempInUse, LitterMeansKilled, ObsUnique, StepsFit,
       CacheTypeOK, Writeback
  <2> QED
    BY <2>1, <2>2, <2>3, <2>4, <2>5, <2>6 DEF CacheInv
<1>17. ASSUME PowerLoss PROVE CacheInv'
  <2>idle. cmd' \in [Proc -> Command] /\ \A p \in Proc : cmd'[p] = Idle
    BY <1>17, CacheAssumption DEF PowerLoss, Command, Idle, Step
  <2>1. CacheTypeOK'
    <3>1. made' \in 0..Depth /\ rooted' \in 0..made'
      BY <1>a, <1>17, CacheAssumption DEF PowerLoss, CacheTypeOK
    <3>2. /\ cache' \in File \cup {Absent} /\ onDisk' \subseteq File \cup {Absent}
          /\ former' \subseteq File \cup {Absent} /\ gone' \subseteq File \cup {Absent}
          /\ temps' \subseteq Observation /\ synced' \subseteq Observation /\ killed'
      BY <1>a, <1>17 DEF PowerLoss, CacheTypeOK
    <3>3. written' \in [Observation -> {"none", "part", "whole"}]
      BY <1>a, <1>17 DEF PowerLoss, CacheTypeOK
    <3>4. QED
      BY <2>idle, <3>1, <3>2, <3>3 DEF CacheTypeOK, Command
  <2>2. StepsFit' /\ ObsUnique'
    BY <1>a, <1>17, <2>idle DEF CacheInv, StepsFit, ObsUnique, PowerLoss, Idle
  <2>3. WrittenFirst' /\ CachedIsSynced'
    BY <1>a, <1>17, <2>idle DEF CacheInv, CachedIsSynced, WrittenFirst, StepsFit, ObsUnique,
       CacheTypeOK, PowerLoss, Idle
  <2>4. CacheIsNew' /\ SuccessSticks'
    BY <1>a, <1>17, <2>idle DEF CacheInv, CacheIsNew, SuccessSticks, CachedIsSynced,
       WrittenFirst, ObsUnique, StepsFit, CacheTypeOK, PowerLoss, Idle
  <2>5. DamagedIsAlone'
    BY <1>a, <1>17, <2>idle DEF CacheInv, DamagedIsAlone, StepsFit, PowerLoss, Idle
  <2>6. TempInUse' /\ LitterMeansKilled'
    BY <1>a, <1>17, <2>idle DEF CacheInv, TempInUse, LitterMeansKilled, ObsUnique, StepsFit,
       CacheTypeOK, PowerLoss, Idle
  <2> QED
    BY <2>1, <2>2, <2>3, <2>4, <2>5, <2>6 DEF CacheInv
<1>18. QED
  BY <1>1, <1>2, <1>3, <1>4, <1>5, <1>6, <1>7, <1>8, <1>9, <1>10, <1>11, <1>12,
     <1>13, <1>14, <1>15, <1>16, <1>17 DEF CacheNext, CommandNext

\* A cache may be there, be damaged or be missing before the first command.
LEMMA InitCacheInv == CacheInit => CacheInv
<1> SUFFICES ASSUME CacheInit PROVE CacheInv
  OBVIOUS
<1>1. /\ cache \in {Absent, Malformed, 0} /\ onDisk = {cache}
      /\ made \in 0..Depth /\ rooted = made
      /\ synced = {0} /\ temps = {} /\ former = {} /\ gone = {} /\ killed = FALSE
      /\ written \in [Observation -> {"none", "part", "whole"}] /\ written[0] = "whole"
      /\ 0 \in Observation /\ Absent \notin Observation /\ Malformed \notin Observation
      /\ Absent # Malformed
  BY CacheAssumption DEF CacheInit, Observation
<1>2. /\ cmd \in [Proc -> Command]
      /\ \A p \in Proc : cmd[p].at = "idle" /\ ~cmd[p].refresh /\ cmd[p].obs = Absent
  BY CacheAssumption DEF CacheInit, Command, Idle, Step
<1>3. CacheTypeOK
  <2>1. cache \in File \cup {Absent} /\ onDisk \subseteq File \cup {Absent}
    BY <1>1 DEF File
  <2>2. made \in 0..Depth /\ rooted \in 0..made
    BY <1>1, CacheAssumption
  <2>3. QED
    BY <1>1, <1>2, <2>1, <2>2 DEF CacheTypeOK, Command
<1>4. StepsFit /\ ObsUnique /\ WrittenFirst /\ TempInUse /\ LitterMeansKilled
  BY <1>1, <1>2 DEF StepsFit, ObsUnique, WrittenFirst, TempInUse, LitterMeansKilled, Writing, At
<1>5. CachedIsSynced /\ CacheIsNew /\ SuccessSticks /\ DamagedIsAlone
  BY <1>1, <1>2 DEF CachedIsSynced, CacheIsNew, SuccessSticks, DamagedIsAlone, Writing, At
<1>6. QED
  BY <1>3, <1>4, <1>5 DEF CacheInv

\* The invariant holds whatever commands run at once and whatever stops them.
THEOREM CacheInvariant == CacheSpec => []CacheInv
<1>1. CacheInv /\ UNCHANGED cacheVars => CacheInv'
  BY DEF cacheVars, CacheInv, CacheTypeOK, StepsFit, ObsUnique, WrittenFirst, CachedIsSynced,
     CacheIsNew, SuccessSticks, DamagedIsAlone, TempInUse, LitterMeansKilled, At
<1>2. CacheInv /\ [CacheNext]_cacheVars => CacheInv'
  BY <1>1, CacheInvStep
<1>3. QED
  BY <1>2, InitCacheInv, PTL DEF CacheSpec

\* Every step, descriptor and observation stays of its type.
THEOREM CacheTypeCorrect == CacheSpec => []CacheTypeOK
<1>1. CacheInv => CacheTypeOK
  BY DEF CacheInv
<1>2. QED
  BY <1>1, CacheInvariant, PTL

\* Whatever has the name of the cache, now or after a power loss, is a whole
\* snapshot, and none that a successful refresh has replaced comes back.
THEOREM CacheIsDurableAlways == CacheSpec => []CacheIsDurable
<1>1. CacheInv => CacheIsDurable
  BY DEF CacheInv, CacheIsDurable, CacheIsWhole, CachedIsSynced, WrittenFirst
<1>2. QED
  BY <1>1, CacheInvariant, PTL

\* A temporary file that no refresh owns was left by a kill, or by a clean-up
\* that failed: no refusal forgets one.
THEOREM LitterMeansKilledAlways == CacheSpec => []LitterMeansKilled
<1>1. CacheInv => LitterMeansKilled
  BY DEF CacheInv
<1>2. QED
  BY <1>1, CacheInvariant, PTL

\* No command replaces a damaged cache, however its look, its reading and its
\* replacement interleave with the other commands and with the user.
THEOREM MalformedIsKeptAlways == CacheSpec => MalformedIsKept
<1>1. CacheInv /\ [CacheNext]_cacheVars
        => (cache = Malformed => cache' \in {Malformed, Absent})
  <2> SUFFICES ASSUME CacheInv, cache = Malformed, [CacheNext]_cacheVars
               PROVE  cache' \in {Malformed, Absent}
    OBVIOUS
  <2>1. \A p \in Proc : ~Replace(p)
    BY DEF CacheInv, DamagedIsAlone, Writing, Replace, At
  <2>2. ASSUME NEW p \in Proc,
               \/ StartRefresh(p) \/ StartDoctor(p)
               \/ OpenRoot(p) \/ MakeRoot(p) \/ Look(p) \/ Open(p) \/ Read(p)
               \/ Create(p) \/ Write(p) \/ Sync(p) \/ SyncDir(p) \/ Fail(p) \/ Kill(p)
        PROVE  cache' = cache
    BY <2>2 DEF StartRefresh, StartDoctor, OpenRoot, MakeRoot, Look, Open, Read, Create, Write,
       Sync, SyncDir, Fail, Kill, files
  <2>3. RemoveCache \/ Writeback => cache' \in {cache, Absent}
    BY DEF RemoveCache, Writeback
  <2>4. PowerLoss => cache' \in onDisk \cup {Absent}
    BY DEF PowerLoss
  <2>5. onDisk = {Malformed}
    BY DEF CacheInv, DamagedIsAlone
  <2>6. QED
    BY <2>1, <2>2, <2>3, <2>4, <2>5 DEF CacheNext, CommandNext, cacheVars
<1>2. QED
  BY <1>1, CacheInvariant, PTL DEF CacheSpec, MalformedIsKept

----
\* BoundedProbe.

\* A runner that waits has all output there will ever be, within the limit.
HasAll == got = sent /\ writers = {} /\ sent <= Limit

\* Where the runner is, and what that says of the command.
RunnerFits ==
    /\ runner = "reading" => got <= Limit
    /\ runner = "waiting" => HasAll
    /\ runner \in {"reading", "waiting", "killing"} => leader # "reaped"
    /\ runner # "done" => ~answer
    /\ runner = "reaping" => leader = "zombie" /\ helper # "member"
    /\ runner = "done" => leader = "reaped" /\ (answer => HasAll) /\ (~answer => helper # "member")

ProbeInv == ProbeTypeOK /\ RunnerFits

\* What the command does while it runs: it writes to the pipe as long as it holds
\* its end, and nobody else gets it.
LEMMA CommandStep ==
    ASSUME ProbeInv,
           \/ \E who \in {"leader", "helper"} : Send(who) \/ CloseOutput(who) \/ Ends(who)
           \/ StartHelper \/ LeaveGroup \/ Deadline
    PROVE  ProbeInv'
<1>1. ASSUME NEW who \in {"leader", "helper"}, Send(who) PROVE ProbeInv'
  BY <1>1, ProbeAssumption DEF Send, Runs, ProbeInv, ProbeTypeOK, RunnerFits, HasAll
<1>2. ASSUME NEW who \in {"leader", "helper"}, CloseOutput(who) PROVE ProbeInv'
  BY <1>2, ProbeAssumption DEF CloseOutput, Runs, ProbeInv, ProbeTypeOK, RunnerFits, HasAll
<1>3. ASSUME NEW who \in {"leader", "helper"}, Ends(who) PROVE ProbeInv'
  BY <1>3, ProbeAssumption DEF Ends, Runs, ProbeInv, ProbeTypeOK, RunnerFits, HasAll
<1>4. CASE StartHelper
  BY <1>4, ProbeAssumption DEF StartHelper, ProbeInv, ProbeTypeOK, RunnerFits, HasAll
<1>5. CASE LeaveGroup
  BY <1>5, ProbeAssumption DEF LeaveGroup, ProbeInv, ProbeTypeOK, RunnerFits, HasAll
<1>6. CASE Deadline
  BY <1>6, ProbeAssumption DEF Deadline, command, ProbeInv, ProbeTypeOK, RunnerFits, HasAll
<1>7. QED
  BY <1>1, <1>2, <1>3, <1>4, <1>5, <1>6

\* What _run_bounded() does with it.
LEMMA RunnerStep ==
    ASSUME ProbeInv, ReadOutput \/ WaitForLeader \/ GiveUp \/ Reap \/ Interrupt
    PROVE  ProbeInv'
<1>1. CASE ReadOutput
  BY <1>1, ProbeAssumption
     DEF ReadOutput, IsAtEnd, command, ProbeInv, ProbeTypeOK, RunnerFits, HasAll
<1>2. CASE WaitForLeader
  <2>1. HasAll /\ runner = "waiting" /\ UNCHANGED <<helper, writers, sent, got, late>>
    BY <1>2 DEF WaitForLeader, ProbeInv, RunnerFits
  <2>2. CASE leader' = "reaped" /\ runner' = "done" /\ answer' = TRUE
    <3>1. ProbeTypeOK'
      BY <2>1, <2>2 DEF ProbeInv, ProbeTypeOK
    <3>2. RunnerFits'
      BY <2>1, <2>2 DEF RunnerFits, HasAll
    <3>3. QED
      BY <3>1, <3>2 DEF ProbeInv
  <2>3. CASE runner' = "killing" /\ leader = "runs" /\ UNCHANGED <<leader, answer>>
    BY <2>1, <2>3 DEF ProbeInv, ProbeTypeOK, RunnerFits
  <2>4. QED
    BY <1>2, <2>2, <2>3 DEF WaitForLeader
<1>3. CASE GiveUp
  BY <1>3, ProbeAssumption DEF GiveUp, KillGroup, ProbeInv, ProbeTypeOK, RunnerFits, HasAll
<1>4. CASE Reap
  BY <1>4, ProbeAssumption DEF Reap, ProbeInv, ProbeTypeOK, RunnerFits, HasAll
<1>5. CASE Interrupt
  BY <1>5, ProbeAssumption DEF Interrupt, ProbeInv, ProbeTypeOK, RunnerFits, HasAll
<1>6. QED
  BY <1>1, <1>2, <1>3, <1>4, <1>5

\* The runner is never past the end of the output without having read all of it,
\* nor done with a command that it has not reaped, unless it was interrupted.
THEOREM ProbeInvariant == ProbeSpec => []ProbeInv
<1>1. ProbeInit => ProbeInv
  <2>1. ProbeInit => ProbeTypeOK
    <3>1. ProbeInit => late \in BOOLEAN /\ answer \in BOOLEAN
      BY DEF ProbeInit
    <3>2. ProbeInit => sent \in 0..MaxSent /\ got \in 0..sent
      BY ProbeAssumption DEF ProbeInit
    <3>3. QED
      BY <3>1, <3>2 DEF ProbeInit, ProbeTypeOK
  <2>2. ProbeInit => RunnerFits
    BY ProbeAssumption DEF ProbeInit, RunnerFits
  <2>3. QED
    BY <2>1, <2>2 DEF ProbeInv
<1>2. ProbeInv /\ UNCHANGED probeVars => ProbeInv'
  BY DEF probeVars, ProbeInv, ProbeTypeOK, RunnerFits, HasAll
<1>3. ProbeInv /\ [ProbeNext]_probeVars => ProbeInv'
  BY <1>2, CommandStep, RunnerStep DEF ProbeNext
<1>4. QED
  BY <1>1, <1>3, PTL DEF ProbeSpec

\* The types of a bounded command.
THEOREM ProbeTypes == ProbeSpec => []ProbeTypeOK
<1>1. ProbeInv => ProbeTypeOK
  BY DEF ProbeInv
<1> QED
  BY <1>1, ProbeInvariant, PTL

\* A probe that is not interrupted ends with all output there will ever be, within
\* the limit, or with the command reaped and nobody left in its process group; a
\* helper that has left the group, in the session or out of it, may go on.
THEOREM ProbeIsBoundedAlways == ProbeSpec => []ProbeIsBounded
<1>1. ProbeInv => ProbeIsBounded
  BY DEF ProbeInv, RunnerFits, HasAll, ProbeIsBounded, AnswerIsComplete, GivenUpIsGone
<1>2. QED
  BY <1>1, ProbeInvariant, PTL

----
(* HardwareProbe. *)

\* A sequence, of whatever kind of members.
IsList(f) == \E n \in Nat : f = [i \in 1 .. n |-> f[i]]

\* Sequences have a length, and grow at their end.
LEMMA ListIs ==
    ASSUME NEW f, IsList(f), NEW x
    PROVE  /\ Len(f) \in Nat /\ DOMAIN f = 1 .. Len(f)
           /\ IsList(Append(f, x))
           /\ Len(Append(f, x)) = Len(f) + 1
           /\ DOMAIN Append(f, x) = 1 .. Len(f) + 1
           /\ \A i \in 1 .. Len(f) : Append(f, x)[i] = f[i]
           /\ Append(f, x)[Len(f) + 1] = x
<1>1. PICK n \in Nat : f = [i \in 1 .. n |-> f[i]]
  BY DEF IsList
<1>2. Len(f) = n /\ DOMAIN f = 1 .. n
  BY <1>1
<1>3. Append(f, x) = [i \in 1 .. n + 1 |-> Append(f, x)[i]]
  BY <1>1
<1>4. n + 1 \in Nat
  BY <1>1
<1>5. IsList(Append(f, x))
  BY <1>3, <1>4 DEF IsList
<1>6. /\ Len(Append(f, x)) = n + 1 /\ DOMAIN Append(f, x) = 1 .. n + 1
      /\ \A i \in 1 .. n : Append(f, x)[i] = f[i]
      /\ Append(f, x)[n + 1] = x
  BY <1>1
<1> QED
  BY <1>2, <1>5, <1>6

\* What the sections have in common: a row is of an entry that was listed, and rows
\* are numbered as they are written.
ScanShape ==
    /\ section \in Section /\ visible \in BOOLEAN /\ tool \in Tool /\ doubt \in BOOLEAN
    /\ scanned \in 0 .. Devices /\ here \subseteq 1 .. scanned
    /\ IsList(truth) /\ Len(truth) = scanned
    /\ IsList(rows) /\ IsList(origin) /\ Len(rows) = Len(origin)
    /\ \A i \in DOMAIN rows : rows[i].index = i - 1 /\ origin[i] \in 1 .. scanned
    /\ IsList(readings) /\ Len(readings) <= scanned

\* Looking at an entry adds it to those that were looked at, and changes none.
LEMMA EntryIs ==
    ASSUME ScanShape, NEW e, NEW stays \in BOOLEAN, Entry(e, stays)
    PROVE  /\ scanned \in Nat /\ scanned' = scanned + 1 /\ scanned' \in 0 .. Devices
           /\ DOMAIN truth = 1 .. scanned
           /\ IsList(truth)' /\ Len(truth)' = scanned' /\ DOMAIN truth' = 1 .. scanned'
           /\ truth'[scanned'] = e
           /\ \A d \in 1 .. scanned : truth'[d] = truth[d]
           /\ here' \subseteq 1 .. scanned'
           /\ \A d \in here' : d \in here \/ (d = scanned' /\ stays)
           /\ here \subseteq here'
           /\ document = None
<1>1. /\ scanned \in Nat /\ scanned' = scanned + 1 /\ scanned' \in 0 .. Devices
      /\ truth' = Append(truth, e)
      /\ here' = IF stays THEN here \cup {scanned + 1} ELSE here
      /\ document = None
  BY UnknownAssumption DEF ScanShape, Entry
<1>2. IsList(truth) /\ Len(truth) = scanned /\ here \subseteq 1 .. scanned
  BY DEF ScanShape
<1>3. /\ DOMAIN truth = 1 .. scanned
      /\ IsList(truth') /\ Len(truth') = scanned' /\ DOMAIN truth' = 1 .. scanned'
      /\ truth'[scanned'] = e
      /\ \A d \in 1 .. scanned : truth'[d] = truth[d]
  BY <1>1, <1>2, ListIs
<1> QED
  BY <1>1, <1>2, <1>3

\* Writing a row of the entry that is looked at leaves the others as they are.
LEMMA WrittenIs ==
    ASSUME ScanShape, NEW row, Written(row), scanned' = scanned + 1
    PROVE  /\ IsList(rows') /\ IsList(origin') /\ Len(rows') = Len(origin')
           /\ DOMAIN rows' = 1 .. Len(rows) + 1 /\ DOMAIN rows = 1 .. Len(rows) /\ Len(rows) \in Nat
           /\ DOMAIN origin = DOMAIN rows /\ DOMAIN origin' = DOMAIN rows'
           /\ \A i \in 1 .. Len(rows) : rows'[i] = rows[i] /\ origin'[i] = origin[i]
           /\ rows'[Len(rows) + 1] = row /\ origin'[Len(rows) + 1] = scanned'
           /\ row.index = NextIndex =>
                \A i \in DOMAIN rows' : rows'[i].index = i - 1 /\ origin'[i] \in 1 .. scanned'
<1>1. /\ rows' = Append(rows, row) /\ origin' = Append(origin, scanned')
      /\ IsList(rows) /\ IsList(origin) /\ Len(rows) = Len(origin)
  BY DEF Written, ScanShape
<1>2. /\ IsList(rows') /\ IsList(origin') /\ Len(rows') = Len(origin')
      /\ DOMAIN rows' = 1 .. Len(rows) + 1 /\ DOMAIN rows = 1 .. Len(rows) /\ Len(rows) \in Nat
      /\ DOMAIN origin = DOMAIN rows /\ DOMAIN origin' = DOMAIN rows'
      /\ \A i \in 1 .. Len(rows) : rows'[i] = rows[i] /\ origin'[i] = origin[i]
      /\ rows'[Len(rows) + 1] = row /\ origin'[Len(rows) + 1] = scanned'
  BY <1>1, ListIs
<1>3. /\ scanned \in Nat /\ scanned' = scanned + 1
      /\ \A i \in 1 .. Len(rows) : rows[i].index = i - 1 /\ origin[i] \in 1 .. scanned
  BY <1>2, UnknownAssumption DEF ScanShape
<1>4. ASSUME row.index = NextIndex, NEW i \in DOMAIN rows'
      PROVE  rows'[i].index = i - 1 /\ origin'[i] \in 1 .. scanned'
  <2>1. i \in 1 .. Len(rows) \/ i = Len(rows) + 1
    BY <1>2
  <2>2. CASE i \in 1 .. Len(rows)
    BY <1>2, <1>3, <2>2
  <2>3. CASE i = Len(rows) + 1
    BY <1>2, <1>3, <1>4, <2>3 DEF NextIndex
  <2> QED
    BY <2>1, <2>2, <2>3
<1> QED
  BY <1>2, <1>4

----
\* Network: every interface has a row, which is true of it as long as it is there;
\* and only one that is up is said to be.
NetworkInv ==
    section = "network" =>
        /\ \A i \in DOMAIN rows :
             /\ rows[i] \in [index : Int, type : {"wireless", "ethernet", "other", None},
                             online : BOOLEAN \cup {None},
                             bus : {"pci", "usb", "virtual", "other", None}]
             /\ origin[i] \in here => InterfaceIsTrue(rows[i], truth[origin[i]])
             /\ rows[i].online = TRUE => truth[origin[i]].state = "up"
        /\ \A d \in 1 .. scanned : \E i \in DOMAIN rows : origin[i] = d

\* One row of _network(): every fact of an interface that answered is true or
\* unknown, and no interface is said to be up that is not.
LEMMA InterfaceRow ==
    ASSUME NEW e \in Interfaces, NEW answers \in 0 .. 3,
           NEW number \in Answer(IF e.kind = "other" THEN 24 ELSE 1, 1, answers),
           NEW state \in Answer(e.state, 2, answers),
           NEW subsystem \in (IF e.bus = "virtual" THEN {None} ELSE Answer(e.bus, 3, answers)),
           NEW row, NEW n \in Int,
           row = [index |-> n,
                  type |-> TypeOf(number, e.kind = "wireless" /\ answers >= 2),
                  online |-> Online(state),
                  bus |-> BusOf(subsystem, e.bus # "virtual" /\ answers = 3)]
    PROVE  /\ row \in [index : Int, type : {"wireless", "ethernet", "other", None},
                       online : BOOLEAN \cup {None},
                       bus : {"pci", "usb", "virtual", "other", None}]
           /\ answers = 3 => InterfaceIsTrue(row, e)
           /\ row.online = TRUE => e.state = "up"
<1>1. /\ e.kind \in {"wireless", "ethernet", "other"} /\ e.state \in {"up", "down", "testing"}
      /\ e.bus \in {"pci", "platform", "virtual"}
      /\ e.kind = "other" => e.bus = "virtual"
      /\ e.kind = "wireless" => e.bus = "pci"
  BY DEF Interfaces
<1>2. state \in {e.state, None} /\ None \notin {"up", "down", "testing", "pci", "usb", "platform"}
      /\ None \notin BOOLEAN /\ None \notin {1, 24}
  <2>2. None \notin {"up", "down", "testing", "pci", "usb", "platform"}
    BY UnknownAssumption DEF Words
  <2>3. None \notin BOOLEAN /\ None \notin {1, 24}
    BY UnknownAssumption
  <2>4. state \in {e.state, None}
    BY DEF Answer
  <2> QED
    BY <2>2, <2>3, <2>4
<1>3. number \in {IF e.kind = "other" THEN 24 ELSE 1, None}
  BY DEF Answer
<1>4. subsystem \in {e.bus, None} /\ (e.bus = "virtual" => subsystem = None)
  BY DEF Answer
<1>5. row.type \in {"wireless", "ethernet", "other", None}
  BY DEF TypeOf
<1>6. answers = 3 => row.type \in {None, e.kind}
  BY <1>1, <1>2, <1>3 DEF TypeOf
<1>7. row.online \in BOOLEAN \cup {None}
  BY <1>1, <1>2 DEF Online
<1>8. row.online \in {None, e.state = "up"}
  BY <1>1, <1>2 DEF Online
<1>9. row.online = TRUE => e.state = "up"
  BY <1>1, <1>2 DEF Online
<1>10. row.bus \in {"pci", "usb", "virtual", "other", None}
  BY DEF BusOf
<1>11. answers = 3 => row.bus \in {None, IF e.bus = "platform" THEN "other" ELSE e.bus}
  BY <1>1, <1>2, <1>4 DEF BusOf
<1> QED
  BY <1>5, <1>6, <1>7, <1>8, <1>9, <1>10, <1>11 DEF InterfaceIsTrue

\* Looking at an interface keeps what is stated of the network.
LEMMA InterfaceKeeps ==
    ASSUME ScanShape, NetworkInv, ScanInterface
    PROVE  ScanShape' /\ NetworkInv' /\ document = None /\ document' = None /\ section' = section
           /\ section = "network"
<1>1. PICK e \in Interfaces, answers \in 0 .. 3 :
        \E number \in Answer(IF e.kind = "other" THEN 24 ELSE 1, 1, answers),
           state \in Answer(e.state, 2, answers),
           subsystem \in (IF e.bus = "virtual" THEN {None} ELSE Answer(e.bus, 3, answers)) :
            /\ Entry(e, answers = 3)
            /\ Written([index |-> NextIndex,
                        type |-> TypeOf(number, e.kind = "wireless" /\ answers >= 2),
                        online |-> Online(state),
                        bus |-> BusOf(subsystem, e.bus # "virtual" /\ answers = 3)])
  BY DEF ScanInterface
<1>2. PICK number \in Answer(IF e.kind = "other" THEN 24 ELSE 1, 1, answers),
           state \in Answer(e.state, 2, answers),
           subsystem \in (IF e.bus = "virtual" THEN {None} ELSE Answer(e.bus, 3, answers)) :
            /\ Entry(e, answers = 3)
            /\ Written([index |-> NextIndex,
                        type |-> TypeOf(number, e.kind = "wireless" /\ answers >= 2),
                        online |-> Online(state),
                        bus |-> BusOf(subsystem, e.bus # "virtual" /\ answers = 3)])
  BY <1>1
<1>3. UNCHANGED <<section, visible, tool, readings, doubt, document>> /\ section = "network"
  BY DEF ScanInterface
<1> DEFINE row == [index |-> NextIndex,
                   type |-> TypeOf(number, e.kind = "wireless" /\ answers >= 2),
                   online |-> Online(state),
                   bus |-> BusOf(subsystem, e.bus # "virtual" /\ answers = 3)]
           stays == (answers = 3)
           n == Len(rows)
<1>4. NextIndex \in Int /\ row.index = NextIndex
  BY ListIs DEF NextIndex, ScanShape
<1>5. /\ row \in [index : Int, type : {"wireless", "ethernet", "other", None},
                  online : BOOLEAN \cup {None},
                  bus : {"pci", "usb", "virtual", "other", None}]
      /\ stays => InterfaceIsTrue(row, e)
      /\ row.online = TRUE => e.state = "up"
  <2>1. row = [index |-> NextIndex,
               type |-> TypeOf(number, e.kind = "wireless" /\ answers >= 2),
               online |-> Online(state),
               bus |-> BusOf(subsystem, e.bus # "virtual" /\ answers = 3)]
    OBVIOUS
  <2> HIDE DEF row
  <2>2. /\ row \in [index : Int, type : {"wireless", "ethernet", "other", None},
                    online : BOOLEAN \cup {None},
                    bus : {"pci", "usb", "virtual", "other", None}]
        /\ answers = 3 => InterfaceIsTrue(row, e)
        /\ row.online = TRUE => e.state = "up"
    BY <1>4, <2>1, InterfaceRow, ZenonT(30)
  <2> QED
    BY <2>2
<1>6. stays \in BOOLEAN /\ Entry(e, stays) /\ Written(row)
  BY <1>2
<1> HIDE DEF row, stays
<1>7. /\ scanned \in Nat /\ scanned' = scanned + 1 /\ scanned' \in 0 .. Devices
      /\ DOMAIN truth = 1 .. scanned
      /\ IsList(truth)' /\ Len(truth)' = scanned' /\ DOMAIN truth' = 1 .. scanned'
      /\ truth'[scanned'] = e
      /\ \A d \in 1 .. scanned : truth'[d] = truth[d]
      /\ here' \subseteq 1 .. scanned'
      /\ \A d \in here' : d \in here \/ (d = scanned' /\ stays)
      /\ here \subseteq here' /\ here \subseteq 1 .. scanned
      /\ document = None
  BY <1>6, EntryIs DEF ScanShape
<1>8. /\ IsList(rows') /\ IsList(origin') /\ Len(rows') = Len(origin')
      /\ DOMAIN rows' = 1 .. n + 1 /\ DOMAIN rows = 1 .. n /\ n \in Nat
      /\ DOMAIN origin = DOMAIN rows /\ DOMAIN origin' = DOMAIN rows'
      /\ \A i \in 1 .. n : rows'[i] = rows[i] /\ origin'[i] = origin[i]
      /\ rows'[n + 1] = row /\ origin'[n + 1] = scanned'
      /\ \A i \in DOMAIN rows' : rows'[i].index = i - 1 /\ origin'[i] \in 1 .. scanned'
  BY <1>4, <1>6, <1>7, WrittenIs
<1> HIDE DEF n
<1>9. ScanShape'
  <2>1. IsList(readings) /\ Len(readings) \in Nat /\ Len(readings) <= scanned
    BY ListIs DEF ScanShape
  <2>2. Len(readings) <= scanned'
    BY <1>7, <2>1
  <2> QED
    BY <1>3, <1>7, <1>8, <2>1, <2>2 DEF ScanShape
<1>10. \A i \in 1 .. n : origin[i] \in 1 .. scanned
  BY <1>8 DEF ScanShape
<1>11. ASSUME NEW i \in DOMAIN rows'
       PROVE  /\ rows'[i] \in [index : Int, type : {"wireless", "ethernet", "other", None},
                               online : BOOLEAN \cup {None},
                               bus : {"pci", "usb", "virtual", "other", None}]
              /\ origin'[i] \in here' => InterfaceIsTrue(rows'[i], truth'[origin'[i]])
              /\ rows'[i].online = TRUE => truth'[origin'[i]].state = "up"
  <2>1. CASE i = n + 1
    BY <1>5, <1>7, <1>8, <1>10, <2>1
  <2>2. CASE i \in 1 .. n
    <3>1. /\ rows'[i] = rows[i] /\ origin'[i] = origin[i] /\ truth'[origin[i]] = truth[origin[i]]
          /\ origin[i] \in 1 .. scanned /\ i \in DOMAIN rows
      BY <1>7, <1>8, <1>10, <2>2
    <3>2. origin[i] \in here' => origin[i] \in here
      BY <1>7, <3>1
    <3> QED
      BY <1>3, <3>1, <3>2 DEF NetworkInv
  <2>3. n \in Nat /\ i \in 1 .. n + 1
    BY <1>8
  <2>4. i = n + 1 \/ i \in 1 .. n
    BY <2>3
  <2> QED
    BY <2>1, <2>2, <2>4
<1>12. ASSUME NEW d \in 1 .. scanned' PROVE \E i \in DOMAIN rows' : origin'[i] = d
  <2>1. CASE d = scanned'
    BY <1>8, <2>1
  <2>2. CASE d \in 1 .. scanned
    <3>1. PICK i \in DOMAIN rows : origin[i] = d
      BY <1>3, <2>2 DEF NetworkInv
    <3> QED
      BY <1>8, <3>1
  <2> QED
    BY <1>7, <2>1, <2>2
<1>13. NetworkInv'
  BY <1>11, <1>12 DEF NetworkInv
<1> QED
  BY <1>3, <1>7, <1>9, <1>13

----
\* Power: a battery's charge is what it is or unknown, a mains supply that was read as
\* online is, and while nothing was silent every battery has a row.
PowerInv ==
    section = "power" =>
        /\ \A i \in DOMAIN rows :
             /\ rows[i] \in [index : Int, percent : {20, 80, None}]
             /\ rows[i].percent \in {None, truth[origin[i]].percent}
        /\ \A k \in DOMAIN readings : readings[k] = TRUE =>
             \E d \in 1 .. scanned : truth[d].kind = "mains" /\ truth[d].online
        /\ doubt \/ \A d \in 1 .. scanned :
             truth[d].kind = "battery" => \E i \in DOMAIN rows : origin[i] = d

\* Graphics: a backend that only lists devices, or did not answer, tells nothing, and
\* one is available only where its tool serves the device.
GpuInv ==
    section = "gpu" =>
        \A i \in DOMAIN rows :
             /\ DOMAIN rows[i] = {"index", "vendor", "vram", "backends"}
             /\ \A b \in DOMAIN rows[i].backends :
                  /\ b \in {"cuda", "rocm", "vulkan"}
                  /\ rows[i].backends[b].evidence \in {"command-unavailable", "contradictory", "unknown"}
                       => rows[i].backends[b].status = None
                  /\ rows[i].backends[b].status = "available"
                       => b = "cuda" /\ truth[origin[i]].served

\* Sensors: each reading is of a sensor of its kind, and while nothing is in doubt
\* and no zone has answered there are but fans.
ThermalInv ==
    section = "thermal" =>
        /\ rows = << >>
        /\ \A k \in DOMAIN readings :
             /\ readings[k].kind \in {"zone", "input", "fan"} /\ readings[k].value \in {40, 60}
             /\ \E d \in 1 .. scanned :
                  truth[d].kind = readings[k].kind /\ truth[d].value = readings[k].value
        /\ doubt \/ Readings({"zone"}) # {} \/ \A d \in 1 .. scanned : truth[d].kind = "fan"

\* Looking at a power supply keeps what is stated of the power.
LEMMA SupplyKeeps ==
    ASSUME ScanShape, PowerInv, ScanSupply
    PROVE  ScanShape' /\ PowerInv' /\ document = None /\ document' = None /\ section' = section
           /\ section = "power"
<1>1. PICK e \in Supplies, answers \in 0 .. 2 :
        \E kind \in Answer(e.kind, 1, answers),
           value \in Answer(IF e.kind = "mains" THEN e.online ELSE e.percent, 2, answers) :
            /\ Entry(e, answers = 2)
            /\ doubt' = (doubt \/ kind = None)
            /\ IF kind = "battery" THEN Written([index |-> NextIndex, percent |-> value])
               ELSE UNCHANGED <<rows, origin>>
            /\ readings' = IF kind = "mains" /\ value # None THEN Append(readings, value) ELSE readings
  BY DEF ScanSupply
<1>2. PICK kind \in Answer(e.kind, 1, answers),
           value \in Answer(IF e.kind = "mains" THEN e.online ELSE e.percent, 2, answers) :
            /\ Entry(e, answers = 2)
            /\ doubt' = (doubt \/ kind = None)
            /\ IF kind = "battery" THEN Written([index |-> NextIndex, percent |-> value])
               ELSE UNCHANGED <<rows, origin>>
            /\ readings' = IF kind = "mains" /\ value # None THEN Append(readings, value) ELSE readings
  BY <1>1
<1>3. UNCHANGED <<section, visible, tool, document>> /\ section = "power"
  BY DEF ScanSupply
<1>4. /\ e.kind \in {"mains", "battery"} /\ e.online \in BOOLEAN /\ e.percent \in {20, 80}
      /\ kind \in {e.kind, None}
      /\ value \in {IF e.kind = "mains" THEN e.online ELSE e.percent, None}
      /\ None # "mains" /\ None # "battery" /\ None \notin BOOLEAN
  BY UnknownAssumption DEF Supplies, Answer, Words
<1> DEFINE stays == (answers = 2)
           row == [index |-> NextIndex, percent |-> value]
           n == Len(rows)
           m == Len(readings)
<1>5. /\ stays \in BOOLEAN /\ Entry(e, stays)
      /\ IF kind = "battery" THEN Written(row) ELSE UNCHANGED <<rows, origin>>
  BY <1>2
<1>6. NextIndex \in Int /\ row.index = NextIndex /\ row.percent = value
      /\ (value \in {20, 80, None} => row \in [index : Int, percent : {20, 80, None}])
  BY ListIs DEF NextIndex, ScanShape
<1> HIDE DEF row, stays
<1>7. /\ scanned \in Nat /\ scanned' = scanned + 1 /\ scanned' \in 0 .. Devices
      /\ DOMAIN truth = 1 .. scanned
      /\ IsList(truth)' /\ Len(truth)' = scanned' /\ DOMAIN truth' = 1 .. scanned'
      /\ truth'[scanned'] = e
      /\ \A d \in 1 .. scanned : truth'[d] = truth[d]
      /\ here' \subseteq 1 .. scanned'
      /\ document = None
  BY <1>5, EntryIs DEF ScanShape
<1>8. /\ IsList(rows) /\ IsList(origin) /\ Len(rows) = Len(origin) /\ n \in Nat
      /\ DOMAIN rows = 1 .. n /\ DOMAIN origin = 1 .. n
      /\ \A i \in DOMAIN rows : rows[i].index = i - 1 /\ origin[i] \in 1 .. scanned
      /\ IsList(readings) /\ m \in Nat /\ m <= scanned /\ DOMAIN readings = 1 .. m
  BY ListIs DEF ScanShape
<1>9. kind = "battery" =>
      /\ IsList(rows') /\ IsList(origin') /\ Len(rows') = Len(origin')
      /\ DOMAIN rows' = 1 .. n + 1 /\ DOMAIN origin' = DOMAIN rows'
      /\ \A i \in 1 .. n : rows'[i] = rows[i] /\ origin'[i] = origin[i]
      /\ rows'[n + 1] = row /\ origin'[n + 1] = scanned'
      /\ \A i \in DOMAIN rows' : rows'[i].index = i - 1 /\ origin'[i] \in 1 .. scanned'
  BY <1>5, <1>6, <1>7, WrittenIs
<1>10. kind = "mains" /\ value # None =>
      /\ IsList(readings') /\ Len(readings') = m + 1 /\ DOMAIN readings' = 1 .. m + 1
      /\ \A k \in 1 .. m : readings'[k] = readings[k]
      /\ readings'[m + 1] = value
  BY <1>2, <1>8, ListIs
<1>11. /\ kind # "battery" => rows' = rows /\ origin' = origin
       /\ ~(kind = "mains" /\ value # None) => readings' = readings
       /\ doubt' = (doubt \/ kind = None)
  BY <1>2
<1> HIDE DEF n, m
<1>12. ScanShape'
  <2>1. /\ IsList(rows') /\ IsList(origin') /\ Len(rows') = Len(origin')
        /\ \A i \in DOMAIN rows' : rows'[i].index = i - 1 /\ origin'[i] \in 1 .. scanned'
    <3>1. CASE kind = "battery"
      BY <1>9, <3>1
    <3>2. CASE kind # "battery"
      BY <1>7, <1>8, <1>11, <3>2
    <3> QED
      BY <3>1, <3>2
  <2>2. IsList(readings') /\ Len(readings') <= scanned'
    <3>1. CASE kind = "mains" /\ value # None
      BY <1>7, <1>8, <1>10, <3>1
    <3>2. CASE ~(kind = "mains" /\ value # None)
      BY <1>7, <1>8, <1>11, <3>2 DEF m
    <3> QED
      BY <3>1, <3>2
  <2>3. doubt' \in BOOLEAN
    BY <1>11, Zenon DEF ScanShape
  <2> QED
    BY <1>3, <1>7, <2>1, <2>2, <2>3 DEF ScanShape
<1>13. ASSUME NEW i \in DOMAIN rows'
       PROVE  /\ rows'[i] \in [index : Int, percent : {20, 80, None}]
              /\ rows'[i].percent \in {None, truth'[origin'[i]].percent}
  <2>1. CASE i \in DOMAIN rows /\ rows'[i] = rows[i] /\ origin'[i] = origin[i]
    <3>1. truth'[origin[i]] = truth[origin[i]]
      BY <1>7, <1>8, <2>1
    <3> QED
      BY <1>3, <2>1, <3>1 DEF PowerInv
  <2>2. CASE kind = "battery" /\ i = n + 1
    <3>1. value \in {e.percent, None}
      BY <1>4, <2>2
    <3> QED
      BY <1>4, <1>6, <1>7, <1>9, <2>2, <3>1
  <2>3. kind = "battery" => i = n + 1 \/ i \in 1 .. n
    BY <1>8, <1>9
  <2> QED
    BY <1>8, <1>9, <1>11, <2>1, <2>2, <2>3
<1>14. ASSUME NEW k \in DOMAIN readings', readings'[k] = TRUE
       PROVE  \E d \in 1 .. scanned' : truth'[d].kind = "mains" /\ truth'[d].online
  <2>1. CASE k \in DOMAIN readings /\ readings'[k] = readings[k]
    <3>1. PICK d \in 1 .. scanned : truth[d].kind = "mains" /\ truth[d].online
      BY <1>3, <1>14, <2>1 DEF PowerInv
    <3> QED
      BY <1>7, <3>1
  <2>2. CASE kind = "mains" /\ value # None /\ k = m + 1
    <3>1. value = e.online /\ value = TRUE
      BY <1>4, <1>10, <1>14, <2>2
    <3>2. truth'[scanned'].kind = "mains" /\ truth'[scanned'].online
      BY <1>4, <1>7, <2>2, <3>1
    <3> QED
      BY <1>7, <3>2
  <2>3. kind = "mains" /\ value # None => k = m + 1 \/ k \in 1 .. m
    BY <1>8, <1>10
  <2> QED
    BY <1>8, <1>10, <1>11, <2>1, <2>2, <2>3
<1>15. ASSUME ~doubt', NEW d \in 1 .. scanned', truth'[d].kind = "battery"
       PROVE  \E i \in DOMAIN rows' : origin'[i] = d
  <2>1. kind # None /\ ~doubt
    BY <1>11, <1>15
  <2>2. CASE d = scanned'
    <3>1. kind = "battery"
      BY <1>4, <1>7, <1>15, <2>1, <2>2
    <3> QED
      BY <1>8, <1>9, <2>2, <3>1
  <2>3. CASE d \in 1 .. scanned
    <3>1. PICK i \in DOMAIN rows : origin[i] = d
      BY <1>3, <1>7, <1>15, <2>1, <2>3 DEF PowerInv
    <3>2. CASE kind = "battery"
      <4>1. i \in DOMAIN rows' /\ origin'[i] = origin[i]
        BY <1>8, <1>9, <3>2
      <4> QED
        BY <3>1, <4>1
    <3>3. CASE kind # "battery"
      BY <1>11, <3>1, <3>3
    <3> QED
      BY <3>2, <3>3
  <2> QED
    BY <1>7, <2>2, <2>3
<1>16. PowerInv'
  BY <1>13, <1>14, <1>15 DEF PowerInv
<1> QED
  BY <1>3, <1>7, <1>12, <1>16

\* Looking at a graphics device keeps what is stated of the backends.
LEMMA CardKeeps ==
    ASSUME ScanShape, GpuInv, ScanCard
    PROVE  ScanShape' /\ GpuInv' /\ document = None /\ document' = None /\ section' = section
           /\ section = "gpu"
<1> DEFINE Probed(vendor, count) ==
               IF vendor = "nvidia" THEN [cuda |-> Cuda(count), vulkan |-> Unanswered]
               ELSE IF vendor = "amd" THEN [rocm |-> Unanswered, vulkan |-> Unanswered]
               ELSE [vulkan |-> Unanswered]
           New(vendor, vram, backends) ==
               [index |-> NextIndex, vendor |-> vendor, vram |-> vram, backends |-> backends]
<1>1. PICK e \in Cards, answers \in 0 .. 2 : \E vendor, count, vram :
        /\ vendor \in {e.vendor, None} /\ count \in {0, 1, 2} /\ (count # 0 => e.served)
        /\ Entry(e, answers = 2)
        /\ \/ Written(New(vendor, vram, Probed(vendor, count)))
           \/ UNCHANGED <<rows, origin>>
  <2>1. PICK e \in Cards, answers \in 0 .. 2 :
       \E vendor \in Answer(e.vendor, 1, answers),
          listed \in (IF e.served THEN {1, 2} ELSE {0}), vram \in {e.vram, None} :
            LET own == [vendor |-> vendor, listed |-> IF answers = 2 THEN listed ELSE 0]
                backends == IF vendor = "nvidia" THEN [cuda |-> Cuda(own.listed), vulkan |-> Unanswered]
                            ELSE IF vendor = "amd" THEN [rocm |-> Unanswered, vulkan |-> Unanswered]
                            ELSE [vulkan |-> Unanswered]
                bound == vendor = "nvidia" /\ backends.cuda.status = "available"
            IN  /\ Entry(e, answers = 2)
                /\ IF answers > 0 /\ \A i \in DOMAIN origin : truth[origin[i]].device # e.device
                   THEN Written([index |-> NextIndex, vendor |-> vendor,
                                 vram |-> IF bound THEN vram ELSE None, backends |-> backends])
                   ELSE UNCHANGED <<rows, origin>>
    BY DEF ScanCard
  <2>2. PICK vendor \in Answer(e.vendor, 1, answers),
             listed \in (IF e.served THEN {1, 2} ELSE {0}), vram \in {e.vram, None} :
            LET own == [vendor |-> vendor, listed |-> IF answers = 2 THEN listed ELSE 0]
                backends == Probed(vendor, own.listed)
                bound == vendor = "nvidia" /\ backends.cuda.status = "available"
            IN  /\ Entry(e, answers = 2)
                /\ IF answers > 0 /\ \A i \in DOMAIN origin : truth[origin[i]].device # e.device
                   THEN Written(New(vendor, IF bound THEN vram ELSE None, backends))
                   ELSE UNCHANGED <<rows, origin>>
    BY <2>1
  <2> DEFINE count == IF answers = 2 THEN listed ELSE 0
             bound == vendor = "nvidia" /\ Probed(vendor, count).cuda.status = "available"
  <2>3. /\ Entry(e, answers = 2)
        /\ \/ Written(New(vendor, IF bound THEN vram ELSE None, Probed(vendor, count)))
           \/ UNCHANGED <<rows, origin>>
    <3> HIDE DEF New, Probed
    <3> QED
      BY <2>2
  <2>4. count \in {0, 1, 2} /\ (count # 0 => e.served)
    OBVIOUS
  <2>5. vendor \in {e.vendor, None}
    BY DEF Answer
  <2> HIDE DEF New, Probed, count, bound
  <2> QED
    BY <2>3, <2>4, <2>5
<1>2. PICK vendor, count, vram :
        /\ vendor \in {e.vendor, None} /\ count \in {0, 1, 2} /\ (count # 0 => e.served)
        /\ Entry(e, answers = 2)
        /\ \/ Written(New(vendor, vram, Probed(vendor, count)))
           \/ UNCHANGED <<rows, origin>>
  BY <1>1
<1>3. UNCHANGED <<section, visible, tool, readings, doubt, document>> /\ section = "gpu"
  BY DEF ScanCard
<1> DEFINE backends == Probed(vendor, count)
           row == New(vendor, vram, backends)
           stays == (answers = 2)
           n == Len(rows)
<1>4. /\ NextIndex \in Int /\ row.index = NextIndex /\ row.backends = backends
      /\ DOMAIN row = {"index", "vendor", "vram", "backends"}
  BY ListIs DEF NextIndex, ScanShape
<1>5. ASSUME NEW b \in DOMAIN backends
      PROVE  /\ b \in {"cuda", "rocm", "vulkan"}
             /\ backends[b].evidence \in {"command-unavailable", "contradictory", "unknown"}
                  => backends[b].status = None
             /\ backends[b].status = "available" => b = "cuda" /\ e.served
  <2>1. None # "available"
    BY UnknownAssumption DEF Words
  <2>2. Unanswered.status = None
    BY DEF Unanswered, Backend, ScanShape, Tool
  <2>3. /\ Cuda(count).status # "available" => Cuda(count).status = None
        /\ Cuda(count).status = "available" => count = 1
                                               /\ Cuda(count).evidence = "executable-probe"
    BY <2>1, <2>2 DEF Cuda, Backend
  <2>4. b \in {"cuda", "rocm", "vulkan"} /\ (b = "rocm" \/ b = "vulkan" => backends[b] = Unanswered)
        /\ (b = "cuda" => backends[b] = Cuda(count))
    OBVIOUS
  <2> HIDE DEF backends
  <2>5. CASE b = "cuda"
    <3>1. backends[b].status = Cuda(count).status /\ backends[b].evidence = Cuda(count).evidence
      BY <2>4, <2>5
    <3> QED
      BY <1>2, <2>3, <2>5, <3>1
  <2>6. CASE b # "cuda"
    BY <2>1, <2>2, <2>4, <2>6
  <2> QED
    BY <2>5, <2>6
<1>6. stays \in BOOLEAN /\ Entry(e, stays) /\ (Written(row) \/ UNCHANGED <<rows, origin>>)
  BY <1>2
<1> HIDE DEF row, backends, stays
<1>7. /\ scanned \in Nat /\ scanned' = scanned + 1 /\ scanned' \in 0 .. Devices
      /\ DOMAIN truth = 1 .. scanned
      /\ IsList(truth)' /\ Len(truth)' = scanned' /\ DOMAIN truth' = 1 .. scanned'
      /\ truth'[scanned'] = e
      /\ \A d \in 1 .. scanned : truth'[d] = truth[d]
      /\ here' \subseteq 1 .. scanned'
      /\ document = None
  BY <1>6, EntryIs DEF ScanShape
<1>8. /\ IsList(rows) /\ IsList(origin) /\ Len(rows) = Len(origin) /\ n \in Nat
      /\ DOMAIN rows = 1 .. n /\ DOMAIN origin = 1 .. n
      /\ \A i \in DOMAIN rows : rows[i].index = i - 1 /\ origin[i] \in 1 .. scanned
      /\ IsList(readings) /\ Len(readings) \in Nat /\ Len(readings) <= scanned
  BY ListIs DEF ScanShape
<1>9. Written(row) =>
      /\ IsList(rows') /\ IsList(origin') /\ Len(rows') = Len(origin')
      /\ DOMAIN rows' = 1 .. n + 1 /\ DOMAIN origin' = DOMAIN rows'
      /\ \A i \in 1 .. n : rows'[i] = rows[i] /\ origin'[i] = origin[i]
      /\ rows'[n + 1] = row /\ origin'[n + 1] = scanned'
      /\ \A i \in DOMAIN rows' : rows'[i].index = i - 1 /\ origin'[i] \in 1 .. scanned'
  BY <1>4, <1>7, WrittenIs
<1> HIDE DEF n
<1>10. ScanShape'
  <2>1. /\ IsList(rows') /\ IsList(origin') /\ Len(rows') = Len(origin')
        /\ \A i \in DOMAIN rows' : rows'[i].index = i - 1 /\ origin'[i] \in 1 .. scanned'
    <3>1. CASE Written(row)
      BY <1>9, <3>1
    <3>2. CASE UNCHANGED <<rows, origin>>
      BY <1>7, <1>8, <3>2
    <3> QED
      BY <1>6, <3>1, <3>2
  <2> QED
    BY <1>3, <1>7, <1>8, <2>1 DEF ScanShape
<1>11. ASSUME NEW i \in DOMAIN rows'
       PROVE  /\ DOMAIN rows'[i] = {"index", "vendor", "vram", "backends"}
              /\ \A b \in DOMAIN rows'[i].backends :
                   /\ b \in {"cuda", "rocm", "vulkan"}
                   /\ rows'[i].backends[b].evidence
                        \in {"command-unavailable", "contradictory", "unknown"}
                        => rows'[i].backends[b].status = None
                   /\ rows'[i].backends[b].status = "available"
                        => b = "cuda" /\ truth'[origin'[i]].served
  <2>1. CASE i \in DOMAIN rows /\ rows'[i] = rows[i] /\ origin'[i] = origin[i]
    <3>1. truth'[origin[i]] = truth[origin[i]]
      BY <1>7, <1>8, <2>1
    <3> QED
      BY <1>3, <2>1, <3>1 DEF GpuInv
  <2>2. CASE rows'[i] = row /\ origin'[i] = scanned'
    <3>1. truth'[origin'[i]] = e
      BY <1>7, <2>2
    <3> QED
      BY <1>4, <1>5, <2>2, <3>1
  <2>3. Written(row) => i = n + 1 \/ i \in 1 .. n
    BY <1>8, <1>9
  <2> QED
    BY <1>6, <1>8, <1>9, <2>1, <2>2, <2>3
<1>12. GpuInv'
  BY <1>11 DEF GpuInv
<1> QED
  BY <1>3, <1>7, <1>10, <1>12

\* Looking at a sensor keeps what is stated of the readings.
LEMMA SensorKeeps ==
    ASSUME ScanShape, ThermalInv, ScanSensor
    PROVE  ScanShape' /\ ThermalInv' /\ document = None /\ document' = None /\ section' = section
           /\ section = "thermal"
<1> DEFINE skips(e) == e.kind = "input" /\ Readings({"zone"}) # {}
<1>1. PICK e \in Sensors, answers \in {0, 1} : \E value \in Answer(e.value, 1, answers) :
        /\ Entry(e, answers = 1)
        /\ doubt' = (doubt \/ (e.kind # "fan" /\ ~skips(e)))
        /\ readings' = IF skips(e) \/ value = None THEN readings
                       ELSE Append(readings, [kind |-> e.kind, value |-> value])
  BY DEF ScanSensor
<1>2. PICK value \in Answer(e.value, 1, answers) :
        /\ Entry(e, answers = 1)
        /\ doubt' = (doubt \/ (e.kind # "fan" /\ ~skips(e)))
        /\ readings' = IF skips(e) \/ value = None THEN readings
                       ELSE Append(readings, [kind |-> e.kind, value |-> value])
  BY <1>1
<1>3. UNCHANGED <<section, visible, tool, rows, origin, document>> /\ section = "thermal"
  BY DEF ScanSensor
<1>4. /\ e.kind \in {"zone", "input", "fan"} /\ e.value \in {40, 60}
      /\ value \in {e.value, None}
  BY DEF Sensors, Answer
<1> DEFINE stays == (answers = 1)
           skipped == skips(e)
           reading == [kind |-> e.kind, value |-> value]
           m == Len(readings)
<1>5. /\ stays \in BOOLEAN /\ Entry(e, stays) /\ skipped \in BOOLEAN
      /\ doubt' = (doubt \/ (e.kind # "fan" /\ ~skipped))
      /\ skipped \/ value = None => readings' = readings
      /\ ~(skipped \/ value = None) => readings' = Append(readings, reading)
      /\ skipped => Readings({"zone"}) # {}
      /\ reading.kind = e.kind /\ reading.value = value
  BY <1>2
<1> HIDE DEF skipped, reading, stays
<1>6. /\ scanned \in Nat /\ scanned' = scanned + 1 /\ scanned' \in 0 .. Devices
      /\ DOMAIN truth = 1 .. scanned
      /\ IsList(truth)' /\ Len(truth)' = scanned' /\ DOMAIN truth' = 1 .. scanned'
      /\ truth'[scanned'] = e
      /\ \A d \in 1 .. scanned : truth'[d] = truth[d]
      /\ here' \subseteq 1 .. scanned'
      /\ document = None
  BY <1>5, EntryIs DEF ScanShape
<1>7. IsList(readings) /\ m \in Nat /\ m <= scanned /\ DOMAIN readings = 1 .. m
  BY ListIs DEF ScanShape
<1>8. ~(skipped \/ value = None) =>
      /\ IsList(readings') /\ Len(readings') = m + 1 /\ DOMAIN readings' = 1 .. m + 1
      /\ \A k \in 1 .. m : readings'[k] = readings[k]
      /\ readings'[m + 1] = reading
  <2>1. SUFFICES ASSUME ~(skipped \/ value = None)
                 PROVE  /\ IsList(readings') /\ Len(readings') = m + 1 /\ DOMAIN readings' = 1 .. m + 1
                        /\ \A k \in 1 .. m : readings'[k] = readings[k]
                        /\ readings'[m + 1] = reading
    OBVIOUS
  <2>2. readings' = Append(readings, reading)
    BY <1>5, <2>1
  <2> QED
    BY <1>7, <2>2, ListIs
<1> HIDE DEF m
<1>9. ScanShape'
  <2>1. IsList(readings') /\ Len(readings') <= scanned'
    <3>1. CASE ~(skipped \/ value = None)
      BY <1>6, <1>7, <1>8, <3>1
    <3>2. CASE skipped \/ value = None
      BY <1>5, <1>6, <1>7, <3>2 DEF m
    <3> QED
      BY <3>1, <3>2
  <2>2. \A i \in DOMAIN rows : rows[i].index = i - 1 /\ origin[i] \in 1 .. scanned'
    <3>1. \A i \in DOMAIN rows : rows[i].index = i - 1 /\ origin[i] \in 1 .. scanned
      BY DEF ScanShape
    <3> QED
      BY <1>6, <3>1
  <2>3. doubt' \in BOOLEAN
    BY <1>5, Zenon DEF ScanShape
  <2> QED
    BY <1>3, <1>6, <2>1, <2>2, <2>3 DEF ScanShape
<1>10. ASSUME NEW k \in DOMAIN readings'
       PROVE  /\ readings'[k].kind \in {"zone", "input", "fan"} /\ readings'[k].value \in {40, 60}
              /\ \E d \in 1 .. scanned' :
                   truth'[d].kind = readings'[k].kind /\ truth'[d].value = readings'[k].value
  <2>1. CASE k \in DOMAIN readings /\ readings'[k] = readings[k]
    <3>1. PICK d \in 1 .. scanned :
            truth[d].kind = readings[k].kind /\ truth[d].value = readings[k].value
      BY <1>3, <2>1 DEF ThermalInv
    <3>2. readings[k].kind \in {"zone", "input", "fan"} /\ readings[k].value \in {40, 60}
      BY <1>3, <2>1 DEF ThermalInv
    <3>3. d \in 1 .. scanned' /\ truth'[d] = truth[d]
      BY <1>6
    <3> QED
      BY <2>1, <3>1, <3>2, <3>3
  <2>2. CASE ~(skipped \/ value = None) /\ k = m + 1
    <3>1. readings'[k] = reading /\ value = e.value
      BY <1>4, <1>8, <2>2
    <3>2. scanned' \in 1 .. scanned' /\ truth'[scanned'] = e
      BY <1>6
    <3> QED
      BY <1>4, <1>5, <3>1, <3>2
  <2>3. ~(skipped \/ value = None) => k = m + 1 \/ k \in 1 .. m
    BY <1>7, <1>8
  <2>4. CASE skipped \/ value = None
    BY <1>5, <2>1, <2>4
  <2> QED
    BY <1>7, <1>8, <2>1, <2>2, <2>3, <2>4
<1>11. Readings({"zone"}) # {} => (Readings({"zone"}))' # {}
  <2>1. SUFFICES ASSUME NEW k \in DOMAIN readings, readings[k].kind \in {"zone"}
                 PROVE  k \in DOMAIN readings' /\ readings'[k].kind \in {"zone"}
    BY DEF Readings
  <2>2. CASE skipped \/ value = None
    BY <1>5, <2>1, <2>2
  <2>3. CASE ~(skipped \/ value = None)
    BY <1>7, <1>8, <2>1, <2>3
  <2> QED
    BY <2>2, <2>3
<1>12. doubt' \/ (Readings({"zone"}))' # {} \/ \A d \in 1 .. scanned' : truth'[d].kind = "fan"
  <2>1. CASE skipped
    BY <1>5, <1>11, <2>1
  <2>2. CASE ~skipped /\ e.kind # "fan"
    BY <1>5, <2>2
  <2>3. CASE e.kind = "fan"
    <3>1. doubt \/ Readings({"zone"}) # {} \/ \A d \in 1 .. scanned : truth[d].kind = "fan"
      BY <1>3 DEF ThermalInv
    <3>2. \A d \in 1 .. scanned' : d = scanned' \/ d \in 1 .. scanned
      BY <1>6
    <3>3. CASE \A d \in 1 .. scanned : truth[d].kind = "fan"
      BY <1>6, <2>3, <3>2, <3>3
    <3>4. doubt => doubt'
      BY <1>5
    <3> QED
      BY <1>11, <3>1, <3>3, <3>4
  <2> QED
    BY <2>1, <2>2, <2>3
<1>13. rows' = << >>
  BY <1>3 DEF ThermalInv
<1>14. ThermalInv'
  BY <1>3, <1>10, <1>12, <1>13 DEF ThermalInv
<1> QED
  BY <1>3, <1>6, <1>9, <1>14

----
\* The host has no devices.
HostInv == section = "host" => rows = << >>

\* A document is of what was scanned, with the markers of what is unknown of it.
DocInv ==
    document # None =>
        /\ document.facts \in Aggregates
        /\ document.unknowns = Unresolved(document.facts)

\* The inductive invariant of a capture.
HardwareInv == ScanShape /\ NetworkInv /\ PowerInv /\ GpuInv /\ ThermalInv /\ HostInv /\ DocInv

\* A capture that has looked at nothing states nothing.
LEMMA HardwareStart == HardwareInit => HardwareInv
<1> SUFFICES ASSUME HardwareInit PROVE HardwareInv
  OBVIOUS
<1>1. /\ section \in Section /\ visible \in BOOLEAN /\ scanned = 0 /\ here = {}
      /\ truth = << >> /\ rows = << >> /\ origin = << >> /\ readings = << >> /\ doubt = FALSE
      /\ document = None
  BY DEF HardwareInit
<1>2. tool \in Tool
  BY DEF HardwareInit, Tool
<1>3. IsList(<< >>) /\ Len(<< >>) = 0 /\ DOMAIN << >> = {}
  <2>1. << >> = [i \in 1 .. 0 |-> << >>[i]]
    OBVIOUS
  <2> QED
    BY <2>1 DEF IsList
<1>4. ScanShape
  <2>1. /\ visible \in BOOLEAN /\ doubt \in BOOLEAN
    BY <1>1, Zenon
  <2>2. scanned \in 0 .. Devices /\ here \subseteq 1 .. scanned
    BY <1>1, UnknownAssumption
  <2>3. IsList(truth) /\ Len(truth) = scanned
    BY <1>1, <1>3
  <2>4. IsList(rows) /\ IsList(origin) /\ Len(rows) = Len(origin) /\ DOMAIN rows = {}
    BY <1>1, <1>3
  <2>5. IsList(readings) /\ Len(readings) <= scanned
    BY <1>1, <1>3
  <2> QED
    BY <1>1, <1>2, <2>1, <2>2, <2>3, <2>4, <2>5 DEF ScanShape
<1>5. NetworkInv /\ PowerInv /\ GpuInv /\ ThermalInv /\ HostInv /\ DocInv
  BY <1>1, <1>3 DEF NetworkInv, PowerInv, GpuInv, ThermalInv, HostInv, DocInv
<1> QED
  BY <1>4, <1>5 DEF HardwareInv

\* Completing the document changes nothing of what was scanned.
LEMMA CollectedKeeps ==
    ASSUME HardwareInv, Collected
    PROVE  HardwareInv'
<1>1. UNCHANGED <<section, visible, tool, scanned, truth, here, rows, origin, readings, doubt>>
  BY DEF Collected
<1>2. ScanShape' /\ NetworkInv' /\ PowerInv' /\ GpuInv' /\ ThermalInv' /\ HostInv'
  BY <1>1 DEF HardwareInv, ScanShape, NetworkInv, PowerInv, GpuInv, ThermalInv, HostInv, Readings,
              InterfaceIsTrue
<1>3. PICK facts \in Aggregates : document' = [facts |-> facts, unknowns |-> Unresolved(facts)]
  BY DEF Collected
<1>4. document'.facts = facts /\ document'.unknowns = Unresolved(facts)
  BY <1>3
<1>5. facts \in Aggregates'
  <2>1. Aggregates' = Aggregates
    BY <1>1 DEF Aggregates, Offline, Power, Thermal, Counted, Readings
  <2> QED
    BY <1>3, <2>1
<1>6. document'.unknowns = Unresolved(document.facts)'
  BY <1>1, <1>4 DEF Unresolved, GpuRows
<1>7. DocInv'
  BY <1>4, <1>5, <1>6 DEF DocInv
<1> QED
  BY <1>2, <1>7 DEF HardwareInv

\* Every step of a capture keeps the invariant.
LEMMA HardwareStep == HardwareInv /\ [HardwareNext]_hardwareVars => HardwareInv'
<1> SUFFICES ASSUME HardwareInv, [HardwareNext]_hardwareVars PROVE HardwareInv'
  OBVIOUS
<1>1. ScanShape /\ NetworkInv /\ PowerInv /\ GpuInv /\ ThermalInv
  BY DEF HardwareInv
<1>2. ASSUME document' = None PROVE DocInv'
  BY <1>2 DEF DocInv
<1>3. CASE ScanInterface
  <2>1. /\ ScanShape' /\ NetworkInv' /\ document' = None /\ section' = "network"
    BY <1>1, <1>3, InterfaceKeeps
  <2> QED
    BY <1>2, <2>1 DEF HardwareInv, PowerInv, GpuInv, ThermalInv, HostInv
<1>4. CASE ScanSupply
  <2>1. /\ ScanShape' /\ PowerInv' /\ document' = None /\ section' = "power"
    BY <1>1, <1>4, SupplyKeeps
  <2> QED
    BY <1>2, <2>1 DEF HardwareInv, NetworkInv, GpuInv, ThermalInv, HostInv
<1>5. CASE ScanCard
  <2>1. /\ ScanShape' /\ GpuInv' /\ document' = None /\ section' = "gpu"
    BY <1>1, <1>5, CardKeeps
  <2> QED
    BY <1>2, <2>1 DEF HardwareInv, NetworkInv, PowerInv, ThermalInv, HostInv
<1>6. CASE ScanSensor
  <2>1. /\ ScanShape' /\ ThermalInv' /\ document' = None /\ section' = "thermal"
    BY <1>1, <1>6, SensorKeeps
  <2> QED
    BY <1>2, <2>1 DEF HardwareInv, NetworkInv, PowerInv, GpuInv, HostInv
<1>7. CASE Collected
  BY <1>7, CollectedKeeps
<1>8. CASE UNCHANGED hardwareVars
  <2>1. UNCHANGED <<section, visible, tool, scanned, truth, here, rows, origin, readings, doubt,
                    document>>
    BY <1>8 DEF hardwareVars
  <2>2. ScanShape' /\ NetworkInv' /\ PowerInv' /\ GpuInv' /\ ThermalInv' /\ HostInv'
    BY <2>1 DEF HardwareInv, ScanShape, NetworkInv, PowerInv, GpuInv, ThermalInv, HostInv, Readings,
                InterfaceIsTrue
  <2>3. Aggregates' = Aggregates /\ Unresolved(document.facts)' = Unresolved(document.facts)
    BY <2>1 DEF Aggregates, Offline, Power, Thermal, Counted, Readings, Unresolved, GpuRows
  <2>4. DocInv'
    BY <2>1, <2>3 DEF DocInv, HardwareInv
  <2> QED
    BY <2>2, <2>4 DEF HardwareInv
<1> QED
  BY <1>3, <1>4, <1>5, <1>6, <1>7, <1>8 DEF HardwareNext

\* The inductive invariant of a capture, for a directory of any length.
THEOREM HardwareInvariant == HardwareSpec => []HardwareInv
BY HardwareStart, HardwareStep, PTL DEF HardwareSpec

\* The highest of some temperatures is one of them.
LEMMA MostOf ==
    ASSUME NEW S, S # {}, S \subseteq {40, 60}
    PROVE  Max(S) \in S
<1>1. \E x \in S : \A y \in S : x >= y
  <2>1. CASE 60 \in S
    BY <2>1
  <2>2. CASE 60 \notin S
    <3>1. \A y \in S : y = 40
      BY <2>2
    <3>2. 40 \in S
      BY <3>1
    <3> QED
      BY <3>1, <3>2
  <2> QED
    BY <2>1, <2>2
<1> QED
  BY <1>1 DEF Max

\* The lowest of some charges is below each of them.
LEMMA LeastOf ==
    ASSUME NEW S, S # {}, S \subseteq {20, 80}
    PROVE  \A y \in S : Min(S) <= y
<1>1. \E x \in S : \A y \in S : x <= y
  <2>1. CASE 20 \in S
    BY <2>1
  <2>2. CASE 20 \notin S
    <3>1. \A y \in S : y = 80
      BY <2>2
    <3>2. 80 \in S
      BY <3>1
    <3> QED
      BY <3>1, <3>2
  <2> QED
    BY <2>1, <2>2
<1> QED
  BY <1>1 DEF Min

\* The document of the network is true: offline says that each interface that stayed
\* was read as down, and not offline that one was read as up.
LEMMA NetworkTrue ==
    ASSUME HardwareInv, document # None, section = "network"
    PROVE  NetworkIsTrue(document.facts)
<1> DEFINE states == {rows[i].online : i \in DOMAIN rows}
<1>1. document.facts.offline = Offline(states)
  BY DEF HardwareInv, DocInv, Aggregates
<1>2. /\ \A i \in DOMAIN rows :
           /\ rows[i].online \in BOOLEAN \cup {None}
           /\ origin[i] \in here => InterfaceIsTrue(rows[i], truth[origin[i]])
           /\ rows[i].online = TRUE => truth[origin[i]].state = "up"
      /\ \A d \in 1 .. scanned : \E i \in DOMAIN rows : origin[i] = d
  BY DEF HardwareInv, NetworkInv
<1>3. /\ here \subseteq 1 .. scanned /\ DOMAIN truth = 1 .. scanned
      /\ \A i \in DOMAIN rows : origin[i] \in 1 .. scanned
  BY ListIs DEF HardwareInv, ScanShape
<1>4. None # TRUE /\ None # FALSE
  BY UnknownAssumption
<1>5. ASSUME document.facts.offline = TRUE, NEW d \in here PROVE truth[d].state # "up"
  <2>1. TRUE \notin states /\ (states = {FALSE} \/ states = {})
    BY <1>1, <1>4, <1>5 DEF Offline
  <2>2. PICK i \in DOMAIN rows : origin[i] = d
    BY <1>2, <1>3
  <2>3. rows[i].online \in states
    OBVIOUS
  <2>4. rows[i].online = FALSE
    <3> HIDE DEF states
    <3> QED
      BY <2>1, <2>3
  <2>5. FALSE \in {None, truth[d].state = "up"}
    BY <1>2, <2>2, <2>4 DEF InterfaceIsTrue
  <2> QED
    BY <1>4, <2>5
<1>6. ASSUME document.facts.offline = FALSE PROVE \E d \in DOMAIN truth : truth[d].state = "up"
  <2>1. TRUE \in states
    <3> HIDE DEF states
    <3> QED
      BY <1>1, <1>4, <1>6 DEF Offline
  <2>2. PICK i \in DOMAIN rows : rows[i].online = TRUE
    BY <2>1
  <2> QED
    BY <1>2, <1>3, <2>2
<1> QED
  BY <1>2, <1>5, <1>6 DEF NetworkIsTrue

\* The document of the power is true: no battery is said to be there only if none was
\* silent, and the charge is the lowest only if each is known.
LEMMA PowerTrue ==
    ASSUME HardwareInv, document # None, section = "power"
    PROVE  PowerIsTrue(document.facts)
<1> DEFINE facts == document.facts
           percents == {rows[i].percent : i \in DOMAIN rows}
<1>1. /\ facts.ac_online = IF readings = << >> THEN None ELSE TRUE \in Range(readings)
      /\ facts.battery_present =
           IF rows # << >> THEN TRUE ELSE IF visible /\ ~doubt THEN FALSE ELSE None
      /\ facts.battery_percent = IF percents = {} \/ None \in percents THEN None ELSE Min(percents)
  <2>1. facts = Power
    BY DEF HardwareInv, DocInv, Aggregates
  <2> HIDE DEF facts
  <2> QED
    BY <2>1 DEF Power
<1>2. /\ \A i \in DOMAIN rows :
           /\ rows[i].percent \in {20, 80, None}
           /\ rows[i].percent \in {None, truth[origin[i]].percent}
      /\ \A k \in DOMAIN readings : readings[k] = TRUE =>
           \E d \in 1 .. scanned : truth[d].kind = "mains" /\ truth[d].online
      /\ doubt \/ \A d \in 1 .. scanned :
           truth[d].kind = "battery" => \E i \in DOMAIN rows : origin[i] = d
  BY DEF HardwareInv, PowerInv
<1>3. /\ here \subseteq 1 .. scanned /\ DOMAIN truth = 1 .. scanned
      /\ DOMAIN origin = DOMAIN rows
      /\ rows = << >> => DOMAIN rows = {}
  BY ListIs DEF HardwareInv, ScanShape
<1>4. None # TRUE /\ None # FALSE
  BY UnknownAssumption
<1> HIDE DEF facts
<1>5. ASSUME facts.ac_online = TRUE
      PROVE  \E d \in DOMAIN truth : truth[d].kind = "mains" /\ truth[d].online
  <2>1. TRUE \in Range(readings)
    BY <1>1, <1>4, <1>5
  <2>2. PICK k \in DOMAIN readings : readings[k] = TRUE
    BY <2>1 DEF Range
  <2> QED
    BY <1>2, <1>3, <2>2
<1>6. ASSUME facts.battery_present = FALSE, NEW d \in here PROVE truth[d].kind # "battery"
  <2>1. rows = << >> /\ ~doubt
    BY <1>1, <1>4, <1>6
  <2> QED
    BY <1>2, <1>3, <2>1
<1>7. ASSUME facts.battery_percent # None, NEW d \in Range(origin)
      PROVE  facts.battery_percent <= truth[d].percent
  <2>1. percents # {} /\ None \notin percents /\ facts.battery_percent = Min(percents)
    <3> HIDE DEF percents
    <3> QED
      BY <1>1, <1>7
  <2>2. percents \subseteq {20, 80}
    BY <1>2, <2>1
  <2>3. PICK i \in DOMAIN rows : origin[i] = d
    BY <1>3 DEF Range
  <2>4. rows[i].percent \in percents
    OBVIOUS
  <2>5. rows[i].percent = truth[d].percent
    BY <1>2, <2>1, <2>3, <2>4
  <2> HIDE DEF percents
  <2>6. Min(percents) <= rows[i].percent
    BY <2>1, <2>2, <2>4, LeastOf
  <2> QED
    BY <2>1, <2>5, <2>6
<1> QED
  BY <1>5, <1>6, <1>7 DEF PowerIsTrue, facts

\* The document of the sensors is true: none is counted only if none was silent.
LEMMA ThermalTrue ==
    ASSUME HardwareInv, document # None, section = "thermal"
    PROVE  ThermalIsTrue(document.facts)
<1> DEFINE facts == document.facts
           warm == Readings({"zone", "input"})
           temperatures == {readings[n].value : n \in warm}
<1>1. /\ facts.sensor_count = IF temperatures # {} THEN Counted({"zone", "input"})
                              ELSE IF visible /\ ~doubt THEN 0 ELSE None
      /\ facts.maximum_celsius = IF temperatures = {} THEN None ELSE Max(temperatures)
  <2>1. facts = Thermal
    BY DEF HardwareInv, DocInv, Aggregates
  <2> HIDE DEF facts
  <2> QED
    BY <2>1 DEF Thermal
<1>2. /\ \A k \in DOMAIN readings :
           /\ readings[k].kind \in {"zone", "input", "fan"} /\ readings[k].value \in {40, 60}
           /\ \E d \in 1 .. scanned :
                truth[d].kind = readings[k].kind /\ truth[d].value = readings[k].value
      /\ doubt \/ Readings({"zone"}) # {} \/ \A d \in 1 .. scanned : truth[d].kind = "fan"
  BY DEF HardwareInv, ThermalInv
<1>3. /\ here \subseteq 1 .. scanned /\ DOMAIN truth = 1 .. scanned
      /\ DOMAIN readings = 1 .. Len(readings) /\ Len(readings) \in Nat
  BY ListIs DEF HardwareInv, ScanShape
<1>4. None # 0
  BY UnknownAssumption
<1>5. warm \subseteq DOMAIN readings /\ Readings({"zone"}) \subseteq warm
      /\ \A n \in warm : readings[n].kind # "fan"
  BY DEF Readings
<1> HIDE DEF facts, warm
<1>6. ASSUME facts.sensor_count = 0, NEW d \in here PROVE truth[d].kind = "fan"
  <2>1. IsFiniteSet(warm)
    <3>1. IsFiniteSet(1 .. Len(readings))
      BY <1>3, FS_Interval
    <3> QED
      BY <1>3, <1>5, <3>1, FS_Subset
  <2>2. temperatures = {}
    <3>1. CASE warm = {}
      BY <3>1
    <3>2. CASE warm # {}
      <4>1. Counted({"zone", "input"}) # 0
        BY <2>1, <3>2, FS_EmptySet DEF Counted, warm
      <4>2. temperatures # {}
        BY <3>2
      <4> HIDE DEF temperatures
      <4> QED
        BY <1>1, <1>6, <4>1, <4>2
    <3> QED
      BY <3>1, <3>2
  <2>3. warm = {}
    BY <2>2
  <2>4. ~doubt
    <3> HIDE DEF temperatures
    <3> QED
      BY <1>1, <1>4, <1>6, <2>2
  <2> QED
    BY <1>2, <1>3, <1>5, <2>3, <2>4
<1>7. ASSUME facts.maximum_celsius # None
      PROVE  \E d \in DOMAIN truth : truth[d].kind # "fan" /\ truth[d].value = facts.maximum_celsius
  <2>1. temperatures # {} /\ facts.maximum_celsius = Max(temperatures)
    <3> HIDE DEF temperatures
    <3> QED
      BY <1>1, <1>7
  <2>2. temperatures \subseteq {40, 60}
    BY <1>2, <1>5
  <2>3. Max(temperatures) \in temperatures
    <3> HIDE DEF temperatures
    <3> QED
      BY <2>1, <2>2, MostOf
  <2>4. PICK n \in warm : readings[n].value = facts.maximum_celsius
    BY <2>1, <2>3
  <2>5. PICK d \in 1 .. scanned :
          truth[d].kind = readings[n].kind /\ truth[d].value = readings[n].value
    BY <1>2, <1>5, <2>4
  <2> QED
    BY <1>3, <1>5, <2>4, <2>5
<1> QED
  BY <1>6, <1>7 DEF ThermalIsTrue, facts

\* The types of a capture: there is an entry behind each row.
THEOREM HardwareTypes == HardwareSpec => []HardwareTypeOK
<1>1. HardwareInv => HardwareTypeOK
  <2> SUFFICES ASSUME HardwareInv PROVE HardwareTypeOK
    OBVIOUS
  <2>1. ScanShape
    BY DEF HardwareInv
  <2>2. DOMAIN truth = 1 .. scanned
    BY <2>1, ListIs DEF ScanShape
  <2>3. /\ DOMAIN rows = 1 .. Len(rows) /\ DOMAIN origin = 1 .. Len(origin)
        /\ Len(rows) = Len(origin)
    BY <2>1, ListIs DEF ScanShape
  <2>4. Range(origin) \subseteq 1 .. scanned
    <3>1. \A i \in DOMAIN origin : origin[i] \in 1 .. scanned
      BY <2>1, <2>3 DEF ScanShape
    <3> QED
      BY <3>1 DEF Range
  <2> QED
    BY <2>1, <2>2, <2>3, <2>4 DEF ScanShape, HardwareTypeOK
<1> QED
  BY <1>1, HardwareInvariant, PTL

\* What is stated of a device that stayed plugged in is true of it, whatever is
\* unplugged or cannot be read meanwhile, for a directory of any length.
THEOREM KnownIsTrueAlways == HardwareSpec => []KnownIsTrue
<1>1. HardwareInv => KnownIsTrue
  <2>1. HardwareInv /\ section = "gpu" => GpuIsTrue
    BY DEF HardwareInv, GpuInv, GpuIsTrue
  <2> QED
    BY <2>1, NetworkTrue, PowerTrue, ThermalTrue DEF KnownIsTrue
<1> QED
  BY <1>1, HardwareInvariant, PTL

\* The markers that the validator asks for are among those that were written: the
\* facts it names in a section, and those of a device, are among those of the probe.
LEMMA RequiredIsUnresolved ==
    ASSUME HardwareInv, document # None
    PROVE  Required \subseteq document.unknowns
<1>1. document.unknowns = Unresolved(document.facts)
  BY DEF HardwareInv, DocInv
<1>2. Facts[section] \subseteq MarkedFacts[section] /\ Fields[section] \subseteq MarkedFields[section]
  BY DEF HardwareInv, ScanShape, Section, Facts, MarkedFacts, Fields, MarkedFields
<1>3. Missing(document.facts, Facts[section]) \subseteq Missing(document.facts, MarkedFacts[section])
  BY <1>2 DEF Missing
<1>4. ASSUME NEW row \in Range(rows)
      PROVE  Gaps(row, Fields[section]) \subseteq Gaps(row, MarkedFields[section])
  BY <1>2 DEF Gaps
<1> QED
  BY <1>1, <1>3, <1>4 DEF Unresolved, Required

\* A marker of a device names a row, and a fact that is open there.
LEMMA MarkersNameRows ==
    ASSUME HardwareInv, document # None, NEW marker \in document.unknowns, marker[1] # Whole
    PROVE  \E row \in Range(rows) :
             row.index = marker[1] /\ (marker[2] \in DOMAIN row => row[marker[2]] = None)
<1>1. marker \in Unresolved(document.facts)
  BY DEF HardwareInv, DocInv
<1>2. \/ marker \in {<<Whole, f>> : f \in Missing(document.facts, MarkedFacts[section])}
      \/ \E row \in Range(rows) : marker \in Gaps(row, MarkedFields[section])
      \/ \E row \in GpuRows : marker \in Untested(row)
  BY <1>1 DEF Unresolved
<1>3. CASE marker \in {<<Whole, f>> : f \in Missing(document.facts, MarkedFacts[section])}
  BY <1>3
<1>4. CASE \E row \in Range(rows) : marker \in Gaps(row, MarkedFields[section])
  BY <1>4 DEF Gaps
<1>5. CASE \E row \in GpuRows : marker \in Untested(row)
  <2>1. PICK row \in Range(rows) : section = "gpu" /\ marker \in Untested(row)
    BY <1>5 DEF GpuRows
  <2>2. PICK b \in DOMAIN row.backends : marker = <<row.index, b>>
    BY <2>1 DEF Untested
  <2>3. PICK i \in DOMAIN rows : row = rows[i]
    BY DEF Range
  <2>4. DOMAIN row = {"index", "vendor", "vram", "backends"} /\ b \in {"cuda", "rocm", "vulkan"}
    BY <2>1, <2>2, <2>3 DEF HardwareInv, GpuInv
  <2> QED
    BY <2>2, <2>4
<1> QED
  BY <1>2, <1>3, <1>4, <1>5

\* A document that a probe makes is accepted by the validator, and its markers name
\* devices of it, for a directory of any length.
THEOREM CollectedIsAcceptedAlways == HardwareSpec => []CollectedIsAccepted
<1>1. ASSUME HardwareInv, document # None PROVE Accepted
  <2>1. Required \subseteq document.unknowns
    BY <1>1, RequiredIsUnresolved
  <2>2. \A i \in DOMAIN rows : rows[i].index = i - 1
    BY <1>1 DEF HardwareInv, ScanShape
  <2>3. \A row \in GpuRows : \A b \in DOMAIN row.backends :
          row.backends[b].evidence \in {"command-unavailable", "contradictory", "unknown"}
             => row.backends[b].status = None
    BY <1>1 DEF HardwareInv, GpuInv, GpuRows, Range
  <2> QED
    BY <2>1, <2>2, <2>3 DEF Accepted
<1>2. HardwareInv => CollectedIsAccepted
  BY <1>1, MarkersNameRows DEF CollectedIsAccepted
<1> QED
  BY <1>2, HardwareInvariant, PTL
====
