---- MODULE SnapshotCache ----
(***************************************************************************)
(* The private snapshot cache of plebian-hardware: `refresh` puts a new    *)
(* observation in place of the cached one through a temporary name,        *)
(* `doctor` reads it, and both may run at once, be killed, meet a failing  *)
(* system call or lose power.  There is no lock.                           *)
(*                                                                         *)
(* A file is identified by the observation in it.  What the name of the    *)
(* cache may be found to mean after a power loss is kept in onDisk: fsync  *)
(* of the directory leaves one possibility.  The directories that lead to  *)
(* the root are never synced, so they last when the kernel has written     *)
(* them back by itself.                                                    *)
(***************************************************************************)
EXTENDS Naturals

CONSTANTS
    Proc,       \* command processes
    MaxObs,     \* observations that are written (a bound)
    Depth,      \* components of the root's path that may be missing
    Absent,     \* no file
    Malformed   \* a file that is not a private, canonical snapshot

ASSUME CacheAssumption ==
    /\ MaxObs \in Nat /\ Depth \in Nat
    /\ Absent # Malformed /\ {Absent, Malformed} \cap Nat = {}

VARIABLES
    cache,      \* what has the name snapshot-v1.json
    onDisk,     \* what may have it after a power loss
    written,    \* of each observation, how much of it is in its file
    synced,     \* the observations whose file has been synced
    temps,      \* the observations that have a temporary name
    made,       \* components of the root's path that exist
    rooted,     \* components that outlive a power loss
    cmd,        \* the command each process runs, and how far it is
    former,     \* history: what the cache has been before
    gone,       \* history: what it may not become again
    killed      \* history: a process was killed, or a clean-up failed

cacheVars == <<cache, onDisk, written, synced, temps, made, rooted, cmd,
               former, gone, killed>>

Observation == 0..MaxObs    \* 0 is what an earlier refresh has left
File == Observation \cup {Malformed}
Step == {"idle", "root", "mkdir", "look", "open", "read",
         "create", "write", "sync", "replace", "syncdir"}

CacheTypeOK ==
    /\ cache \in File \cup {Absent} /\ onDisk \subseteq File \cup {Absent}
    /\ written \in [Observation -> {"none", "part", "whole"}]
    /\ synced \subseteq Observation /\ temps \subseteq Observation
    /\ made \in 0..Depth /\ rooted \in 0..made
    /\ cmd \in [Proc -> [at : Step, refresh : BOOLEAN, obs : Observation \cup {Absent},
                         level : 0..Depth, fd : File \cup {Absent}]]
    /\ former \subseteq File \cup {Absent} /\ gone \subseteq File \cup {Absent}
    /\ killed \in BOOLEAN

Idle == [at |-> "idle", refresh |-> FALSE, obs |-> Absent, level |-> 0, fd |-> Absent]

\* Either there is no root yet, or it holds a cache, a damaged one or none.
CacheInit ==
    /\ made \in {0, Depth} /\ rooted = made
    /\ cache \in {Absent, Malformed, 0} /\ (made < Depth => cache = Absent)
    /\ onDisk = {cache}
    /\ written = [n \in Observation |-> IF n = 0 THEN "whole" ELSE "none"]
    /\ synced = {0} /\ temps = {}
    /\ cmd = [p \in Proc |-> Idle]
    /\ former = {} /\ gone = {} /\ killed = FALSE

files == <<cache, onDisk, written, synced, temps, made, rooted>>
history == <<former, gone, killed>>

----
At(p, step) == cmd[p].at = step
Goto(p, step) == cmd' = [cmd EXCEPT ![p].at = step]
End(p) == cmd' = [cmd EXCEPT ![p] = Idle]

Unused == {n \in (1..MaxObs) \ temps : written[n] = "none" /\ \A p \in Proc : cmd[p].obs # n}

\* dispatch(): the collector has run and its document is valid.
StartRefresh(p) ==
    /\ At(p, "idle")
    /\ \E n \in Unused :
        /\ \A m \in Unused : n <= m
        /\ cmd' = [cmd EXCEPT ![p] = [Idle EXCEPT
                    !.at = "root", !.refresh = TRUE, !.obs = n]]
    /\ UNCHANGED <<files, history>>

StartDoctor(p) ==
    /\ At(p, "idle")
    /\ cmd' = [cmd EXCEPT ![p] = [Idle EXCEPT !.at = "root"]]
    /\ UNCHANGED <<files, history>>

\* _open_private_directory(), one component of the path at a time.
OpenRoot(p) ==
    /\ At(p, "root")
    /\ \/ /\ cmd[p].level = Depth
          /\ Goto(p, IF cmd[p].refresh THEN "look" ELSE "open")
       \/ /\ cmd[p].level < made
          /\ cmd' = [cmd EXCEPT ![p].level = @ + 1]
       \/ /\ cmd[p].level = made /\ made < Depth /\ cmd[p].refresh
          /\ Goto(p, "mkdir")
       \/ /\ cmd[p].level = made /\ made < Depth /\ ~cmd[p].refresh
          /\ End(p)                                 \* StateMissing: "absent"
    /\ UNCHANGED <<files, history>>

MakeRoot(p) ==
    /\ At(p, "mkdir")
    /\ \/ /\ cmd[p].level = made
          /\ made' = made + 1
          /\ cmd' = [cmd EXCEPT ![p].at = "root", ![p].level = made + 1]
       \/ /\ cmd[p].level < made                    \* EEXIST: another made it
          /\ End(p)
          /\ UNCHANGED made
    /\ UNCHANGED <<cache, onDisk, written, synced, temps, rooted, history>>

\* write_snapshot(): stat of the cache before it is opened.
Look(p) ==
    /\ At(p, "look")
    /\ Goto(p, IF cache = Absent THEN "create" ELSE "open")
    /\ UNCHANGED <<files, history>>

Open(p) ==
    /\ At(p, "open")
    /\ \/ /\ cache # Absent
          /\ cmd' = [cmd EXCEPT ![p].at = "read", ![p].fd = cache]
       \/ /\ cache = Absent
          /\ End(p)                                    \* refused, or "absent"
    /\ UNCHANGED <<files, history>>

\* _read_open_file() and _parse_snapshot(): a file that has lost its name has
\* no link left, and is refused like a malformed one.
\* Mutant: What is in the file is not looked at.
AcceptsAny(fd) == fd = cache
Accepts(fd) == fd = cache /\ fd # Malformed /\ written[fd] = "whole"

Read(p) ==
    /\ At(p, "read")
    /\ \/ /\ Accepts(cmd[p].fd)
          /\ IF cmd[p].refresh THEN Goto(p, "create") ELSE End(p)
       \/ /\ ~Accepts(cmd[p].fd)
          /\ End(p)
    /\ UNCHANGED <<files, history>>

Create(p) ==
    /\ At(p, "create")
    /\ temps' = temps \cup {cmd[p].obs}
    /\ Goto(p, "write")
    /\ UNCHANGED <<cache, onDisk, written, synced, made, rooted, history>>

Write(p) ==
    /\ At(p, "write")
    /\ \/ /\ written[cmd[p].obs] = "none"
          /\ written' = [written EXCEPT ![cmd[p].obs] = "part"]
          /\ UNCHANGED cmd
       \/ /\ written[cmd[p].obs] = "part"
          /\ written' = [written EXCEPT ![cmd[p].obs] = "whole"]
          /\ Goto(p, "sync")
    /\ UNCHANGED <<cache, onDisk, synced, temps, made, rooted, history>>

\* Mutant: The file is not synced before it takes the name.
SyncNothing(p) == At(p, "sync") /\ Goto(p, "replace") /\ UNCHANGED <<files, history>>

Sync(p) ==
    /\ At(p, "sync")
    /\ synced' = synced \cup {cmd[p].obs}
    /\ Goto(p, "replace")
    /\ UNCHANGED <<cache, onDisk, written, temps, made, rooted, history>>

Replace(p) ==
    /\ At(p, "replace")
    /\ cache' = cmd[p].obs
    /\ onDisk' = onDisk \cup {cmd[p].obs}
    /\ temps' = temps \ {cmd[p].obs}
    /\ former' = former \cup {cache}
    /\ Goto(p, "syncdir")
    /\ UNCHANGED <<written, synced, made, rooted, gone, killed>>

SyncDir(p) ==
    /\ At(p, "syncdir")
    /\ onDisk' = {cache}
    /\ gone' = gone \cup former
    /\ End(p)
    /\ UNCHANGED <<cache, written, synced, temps, made, rooted, former, killed>>

\* A system call fails.  The temporary name is removed, if that does not fail, and if
\* the failure is not an interrupt before the name is noted: killed stands for both.
\* Mutant: It is removed only when the file could not be written.
RemovesUnwritten(p) == temps' = IF At(p, "write") THEN temps \ {cmd[p].obs} ELSE temps
RemovesTemp(p) == temps' = temps \ {cmd[p].obs}

Fail(p) ==
    /\ ~At(p, "idle")
    /\ End(p)
    /\ \/ RemovesTemp(p) /\ UNCHANGED killed
       \/ cmd[p].obs \in temps /\ killed' = TRUE /\ UNCHANGED temps
    /\ UNCHANGED <<cache, onDisk, written, synced, made, rooted, former, gone>>

Kill(p) ==
    /\ ~At(p, "idle")
    /\ End(p)
    /\ killed' = TRUE
    /\ UNCHANGED <<files, former, gone>>

\* The user moves the cache out of the way.
RemoveCache ==
    /\ cache # Absent
    /\ cache' = Absent
    /\ onDisk' = onDisk \cup {Absent}
    /\ former' = {} /\ gone' = {}
    /\ UNCHANGED <<written, synced, temps, made, rooted, cmd, killed>>

\* The kernel writes the directories of the path back by itself.
Writeback ==
    /\ rooted # made
    /\ rooted' = made
    /\ UNCHANGED <<cache, onDisk, written, synced, temps, made, cmd, history>>

\* Power is lost.  What was not synced may be lost with it.
PowerLoss ==
    /\ \E depth \in rooted..made :
        /\ made' = depth /\ rooted' = depth
        /\ IF depth < Depth
           THEN cache' = Absent /\ temps' = {} /\ former' = {} /\ gone' = {}
           ELSE cache' \in onDisk /\ temps' \in SUBSET temps /\ UNCHANGED <<former, gone>>
    /\ onDisk' = {cache'}
    /\ written' = [n \in Observation |->
            IF n \in synced \/ written[n] = "none" THEN written[n] ELSE "part"]
    /\ cmd' = [p \in Proc |-> Idle]
    /\ killed' = TRUE
    /\ UNCHANGED synced

CommandNext ==
    \E p \in Proc :
        \/ StartRefresh(p) \/ StartDoctor(p)
        \/ OpenRoot(p) \/ MakeRoot(p) \/ Look(p) \/ Open(p) \/ Read(p)
        \/ Create(p) \/ Write(p) \/ Sync(p) \/ Replace(p) \/ SyncDir(p)
        \/ Fail(p) \/ Kill(p)

CacheNext ==
    \/ CommandNext
    \/ RemoveCache \/ Writeback \/ PowerLoss

CacheSpec == CacheInit /\ [][CacheNext]_cacheVars

----
\* Whatever snapshot has the name, now or after a power loss, is whole.
CacheIsWhole ==
    \A n \in (onDisk \cup {cache}) \cap Observation : written[n] = "whole" /\ n \in synced

\* Once a refresh has succeeded no power loss brings back what was cached
\* before it, unless it takes the directory as well, and writers that come
\* after it only bring newer files.
SuccessSticks == onDisk \cap gone = {}

\* Both at once: a refresh that has reported success has put a whole snapshot
\* in place for good.
CacheIsDurable == CacheIsWhole /\ SuccessSticks

\* A damaged cache is kept for the user to look at: no sequence of commands
\* replaces it, whatever their steps interleave with.
MalformedIsKept == [][cache = Malformed => cache' \in {Malformed, Absent}]_cacheVars

\* A temporary name belongs to a refresh that runs: a refusal at any step
\* takes its file with it, and only a kill, or a clean-up that does not come to its
\* end, leaves one behind for ever.
LitterMeansKilled ==
    ~killed => \A n \in temps : \E p \in Proc : cmd[p].obs = n
====
