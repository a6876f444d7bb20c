---- MODULE PaneTicks ----
(***************************************************************************)
(* The CPU time of a pane: how the collector of kilix-telemetry charges    *)
(* the ticks of a tree of processes to the pane whose root it is, while    *)
(* the processes fork, work, exit and are waited for.                      *)
(*                                                                         *)
(* A scan lists /proc once and then reads the processes one at a time, in  *)
(* the order of their identifiers: the table changes under it.  A report   *)
(* is the rise of the tree's ticks since the scan before; it is kept here  *)
(* in ticks, not divided by the time between the two.                      *)
(***************************************************************************)
EXTENDS Naturals, FiniteSetsExt

CONSTANTS
    Pid,        \* identifiers of processes, positive numbers
    Root,       \* those a pane is registered for
    MaxWork,    \* bound of the model: ticks used by all processes
    MaxForks,   \* bound of the model: processes started
    MaxScans    \* bound of the model: scans

ASSUME TicksAssumption ==
    /\ Pid \subseteq Nat \ {0} /\ IsFiniteSet(Pid)
    /\ Root \subseteq Pid
    /\ MaxWork \in Nat /\ MaxForks \in Nat /\ MaxScans \in Nat

VARIABLES
    life,       \* of each identifier: free, run, or zombie
    start,      \* ... the start ticks of the process that has it: its identity
    parent,     \* ... its parent, 0 for a process outside Pid
    cpu,        \* ... the ticks it used
    waited,     \* ... the ticks of the children it has waited for
    scan,       \* the roots of the scan that is going on, or Idle
    todo,       \* ... the listed processes it has not read
    raw,        \* ... the rows it has read
    previous,   \* _previous_pane_ticks: of each root, identity and ticks, or Unknown
    work, forks, scans,     \* for the bounds of the model
    total,      \* history: ticks used in the tree of the root's process
    first,      \* history: the ticks of its tree when it was first read
    charged,    \* history: the sum of all reports since
    left,       \* history: a process has left the tree without being waited for
    raced,      \* history: a process was removed from the table, or got another
                \* parent, during a scan
    still       \* history: nothing happened since the last scan began

table == <<life, start, parent, cpu, waited>>
collector == <<scan, todo, raw, previous, first, charged>>
bounds == <<work, forks, scans>>
ticksVars == <<table, collector, bounds, total, left, raced, still>>

Idle == {0}
Unknown == [start |-> 0, ticks |-> 0]
Scanning == scan # Idle

Row == [pid : Pid, parent : Pid \cup {0}, start : Nat, ticks : Nat]

TicksTypeOK ==
    /\ life \in [Pid -> {"free", "run", "zombie"}]
    /\ start \in [Pid -> Nat]
    /\ parent \in [Pid -> Pid \cup {0}]
    /\ cpu \in [Pid -> Nat]
    /\ waited \in [Pid -> Nat]
    /\ scan = Idle \/ scan \subseteq Root
    /\ todo \subseteq Pid
    /\ raw \subseteq Row
    /\ previous \in [Root -> [start : Nat, ticks : Nat]]
    /\ work \in Nat /\ forks \in Nat /\ scans \in Nat
    /\ total \in [Root -> Nat]
    /\ first \in [Root -> Nat]
    /\ charged \in [Root -> Nat]
    /\ left \subseteq Root
    /\ raced \in BOOLEAN
    /\ still \in BOOLEAN

TicksInit ==
    /\ life = [p \in Pid |-> "free"]
    /\ start = [p \in Pid |-> 0]
    /\ parent = [p \in Pid |-> 0]
    /\ cpu = [p \in Pid |-> 0]
    /\ waited = [p \in Pid |-> 0]
    /\ scan = Idle /\ todo = {} /\ raw = {}
    /\ previous = [r \in Root |-> Unknown]
    /\ work = 0 /\ forks = 0 /\ scans = 0
    /\ total = [r \in Root |-> 0]
    /\ first = [r \in Root |-> 0]
    /\ charged = [r \in Root |-> 0]
    /\ left = {}
    /\ raced = FALSE
    /\ still = FALSE

----
\* The processes: what Linux does with them

\* What the collector makes of one process: its own ticks and those of the
\* children it has waited for.
ReadRow(p) ==
    [pid |-> p, parent |-> parent[p], start |-> start[p], ticks |-> cpu[p] + waited[p]]

\* A root and its descendants in a table of rows, as _process_children and
\* _descendant_pids walk it: links are by identifier alone.
Descendants(rows, r) ==
    LET Closed(S) == \A x \in rows : x.parent \in S => x.pid \in S
        pids == {x.pid : x \in rows}
    IN  IF r \in pids
        THEN {p \in pids : \A S \in SUBSET pids : r \in S /\ Closed(S) => p \in S}
        ELSE {}

Listed == {p \in Pid : life[p] # "free"}
Family(r) == Descendants({ReadRow(p) : p \in Listed}, r)
TreesOf(p) == {r \in Root : p \in Family(r)}

Work(p) ==
    /\ life[p] = "run"
    /\ work < MaxWork
    /\ work' = work + 1
    /\ cpu' = [cpu EXCEPT ![p] = @ + 1]
    /\ total' = [r \in Root |-> IF r \in TreesOf(p) THEN total[r] + 1 ELSE total[r]]
    /\ still' = FALSE
    /\ UNCHANGED <<life, start, parent, waited, collector, forks, scans, left, raced>>

\* A process of the table, or (0) one outside it, starts p.
Fork(by, p) ==
    /\ by # 0 => life[by] = "run"
    /\ life[p] = "free"
    /\ forks < MaxForks
    /\ forks' = forks + 1
    /\ life' = [life EXCEPT ![p] = "run"]
    /\ start' = [start EXCEPT ![p] = forks + 1]
    /\ parent' = [parent EXCEPT ![p] = by]
    /\ cpu' = [cpu EXCEPT ![p] = 0]
    /\ waited' = [waited EXCEPT ![p] = 0]
    /\ total' = [r \in Root |-> IF r = p THEN 0 ELSE total[r]]
    /\ left' = left \ {p}
    /\ still' = FALSE
    /\ UNCHANGED <<collector, work, scans, raced>>

\* The children of a process that exits go to init and out of every tree but
\* those of which they are roots themselves.
Exit(p) ==
    LET orphans == {q \in Listed : parent[q] = p}
    IN  /\ life[p] = "run"
        /\ life' = [life EXCEPT ![p] = "zombie"]
        /\ parent' = [q \in Pid |-> IF q \in orphans THEN 0 ELSE parent[q]]
        /\ left' = IF orphans = {} THEN left ELSE left \cup TreesOf(p)
        /\ raced' = (raced \/ (Scanning /\ orphans # {}))
        /\ still' = FALSE
        /\ UNCHANGED <<start, cpu, waited, collector, bounds, total>>

Leave(p) ==
    /\ life' = [life EXCEPT ![p] = "free"]
    /\ start' = [start EXCEPT ![p] = 0]
    /\ parent' = [parent EXCEPT ![p] = 0]
    /\ cpu' = [cpu EXCEPT ![p] = 0]
    /\ raced' = (raced \/ Scanning)
    /\ still' = FALSE
    /\ UNCHANGED <<collector, bounds, total>>

\* Its parent waits for it and takes over all its ticks.
Reap(p) ==
    /\ life[p] = "zombie"
    /\ parent[p] # 0 /\ life[parent[p]] = "run"
    /\ waited' = [waited EXCEPT ![parent[p]] = @ + waited[p] + cpu[p], ![p] = 0]
    /\ Leave(p)
    /\ UNCHANGED left

\* It is not waited for, by a parent that ignores SIGCHLD, or by one outside.
Vanish(p) ==
    /\ life[p] = "zombie"
    /\ Leave(p)
    /\ left' = left \cup TreesOf(p)
    /\ waited' = [waited EXCEPT ![p] = 0]

----
\* LinuxCollector._processes()

\* The registered roots change from scan to scan.
BeginScan(roots) ==
    /\ ~Scanning
    /\ scans < MaxScans
    /\ scans' = scans + 1
    /\ scan' = roots
    /\ todo' = Listed
    /\ raw' = {}
    /\ still' = TRUE
    /\ UNCHANGED <<table, previous, first, charged, work, forks, total, left, raced>>

\* _raw_process(): a process that is gone by now leaves no row.
ReadProcess ==
    /\ Scanning
    /\ \E p \in todo :
        /\ \A q \in todo : p <= q
        /\ todo' = todo \ {p}
        /\ raw' = IF life[p] = "free" THEN raw ELSE raw \cup {ReadRow(p)}
    /\ UNCHANGED <<table, scan, previous, first, charged, bounds, total, left, raced, still>>

TreeTicks(r) ==
    LET ticks(x) == x.ticks
    IN  MapThenSumSet(ticks, {x \in raw : x.pid \in Descendants(raw, r)})
Identity(r) == (CHOOSE x \in raw : x.pid = r).start

\* Mutant: Whoever had the identifier before is taken for the root.
KnownByPid(r) == previous[r] # Unknown
Known(r) == previous[r] # Unknown /\ previous[r].start = Identity(r)

\* Mutant: No clamp at zero.
ReportSigned(r) == TreeTicks(r) - previous[r].ticks
Report(r) == IF TreeTicks(r) > previous[r].ticks THEN TreeTicks(r) - previous[r].ticks ELSE 0

FinishScan ==
    /\ Scanning /\ todo = {}
    /\ LET found == {r \in scan : r \in {x.pid : x \in raw}}
       IN  /\ previous' = [r \in Root |->
                IF r \in found THEN [start |-> Identity(r), ticks |-> TreeTicks(r)]
                ELSE Unknown]
           /\ first' = [r \in Root |->
                IF r \notin found THEN 0 ELSE IF Known(r) THEN first[r] ELSE TreeTicks(r)]
           /\ charged' = [r \in Root |->
                IF r \in found /\ Known(r) THEN charged[r] + Report(r) ELSE 0]
    /\ scan' = Idle
    /\ raw' = {}
    /\ UNCHANGED <<table, todo, bounds, total, left, raced, still>>

TicksNext ==
    \/ \E p \in Pid : Work(p) \/ Exit(p) \/ Reap(p) \/ Vanish(p)
    \/ \E p \in Pid, by \in Pid \cup {0} : Fork(by, p)
    \/ \E roots \in SUBSET Root : BeginScan(roots)
    \/ ReadProcess
    \/ FinishScan

TicksSpec == TicksInit /\ [][TicksNext]_ticksVars

----
\* The last scan read the process that is the root now.
UpToDate(r) == ~Scanning /\ previous[r] # Unknown /\ previous[r].start = start[r]

\* A pane is never charged for more than its processes used, whatever exits,
\* forks, is waited for or takes over an identifier between two scans.
NeverOvercharged ==
    \A r \in Root : UpToDate(r) /\ ~raced => first[r] + charged[r] <= total[r]

\* Work is never lost between two scans, that of commands which came and went
\* included, unless a process left the tree without being waited for.
AllWorkIsCharged ==
    \A r \in Root :
        UpToDate(r) /\ still /\ ~raced /\ r \notin left => first[r] + charged[r] = total[r]

\* Both at once: a pane is charged for its work, all of it and once.
ChargedOnce == NeverOvercharged /\ AllWorkIsCharged

\* What README.md says of a child that is reaped while it is in the tree: its
\* time is not counted again.  A scan it is reaped in counts it twice.
ReapedIsNotRecounted ==
    \A r \in Root : UpToDate(r) /\ r \notin left => charged[r] <= total[r]
====
