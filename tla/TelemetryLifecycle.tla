---- MODULE TelemetryLifecycle ----
(***************************************************************************)
(* Who samples: the singleton lock of the kilix-telemetry daemon, and the  *)
(* clients that look at it and start a daemon when nobody has it.          *)
(*                                                                         *)
(* A probe of the lock takes the lock.  A daemon that finds it taken takes *)
(* this for another daemon and ends.  What a snapshot() call returns is    *)
(* not modelled (see TelemetryRing for what the ring gives a reader): only *)
(* what it does about the writer, and what it believes.                    *)
(*                                                                         *)
(* There is no clock: deadlines, the second for which an answer is         *)
(* remembered and the age limit of a sample may be over at any time.       *)
(***************************************************************************)
EXTENDS FiniteSets

CONSTANTS
    Client,     \* threads inside snapshot(), one at a time in each process
    Daemon,     \* bound of the model: daemon processes at the same time
    None        \* no process

ASSUME LifecycleAssumption ==
    /\ Client \cap Daemon = {}
    /\ None \notin Client \cup Daemon

VARIABLES
    exists,     \* telemetry-v1.lock has been created
    lock,       \* the process with the flock on it, or None
    ring,       \* the newest sample in the ring: none, within the age limit or not
    dpc,        \* of each daemon: its step
    cpc,        \* of each client: its step
    why,        \* of each client: which probe it is at
    knows,      \* of each client: _writer_alive, if it is younger than a second
    taken,      \* the waiting clients whose started_ns is not after the time of
                \* the sample that is about to be published
    after,      \* ... of the sample in the ring
    recent,     \* the waiting clients that saw such a sample at their last look
    served      \* history: the waiting clients for whom one was published

marks == <<taken, after, recent, served>>
vars == <<exists, lock, ring, dpc, cpc, why, knows, taken, after, recent, served>>

Writing == {"open", "sample", "publish"}

TypeOK ==
    /\ exists \in BOOLEAN
    /\ lock \in Client \cup Daemon \cup {None}
    /\ ring \in {"none", "fresh", "old"}
    /\ dpc \in [Daemon -> {"off", "spawned", "lock"} \cup Writing]
    /\ cpc \in [Client -> {"idle", "probe", "unlock", "spawn", "wait", "ready"}]
    /\ why \in [Client -> {"none", "client", "ensure", "loop", "final"}]
    /\ knows \in [Client -> {"unknown", "alive", "gone"}]
    /\ taken \subseteq Client
    /\ after \subseteq Client
    /\ recent \subseteq Client
    /\ served \subseteq Client

Init ==
    /\ exists = FALSE
    /\ lock = None
    /\ ring = "none"
    /\ dpc = [d \in Daemon |-> "off"]
    /\ cpc = [c \in Client |-> "idle"]
    /\ why = [c \in Client |-> "none"]
    /\ knows = [c \in Client |-> "unknown"]
    /\ taken = {}
    /\ after = {}
    /\ recent = {}
    /\ served = {}

----
\* run_daemon()

Become(d, step) == dpc' = [dpc EXCEPT ![d] = step]

\* Somebody runs "kilix-telemetry serve" by hand or from a session.
Serve(d) ==
    /\ dpc[d] = "off"
    /\ Become(d, "spawned")
    /\ UNCHANGED <<exists, lock, ring, cpc, why, knows, marks>>

\* Mutant: the ring is opened, and its header reset, before the lock is taken.
OpenLockAndRing(d) ==
    /\ dpc[d] = "spawned"
    /\ exists' = TRUE
    /\ ring' = "none"
    /\ after' = {}
    /\ Become(d, "lock")
    /\ UNCHANGED <<lock, cpc, why, knows, taken, recent, served>>

\* DaemonLock.acquire opens the file, creating it...
OpenLock(d) ==
    /\ dpc[d] = "spawned"
    /\ exists' = TRUE
    /\ Become(d, "lock")
    /\ UNCHANGED <<lock, ring, cpc, why, knows, marks>>

\* ... and tries the lock once.
TakeLock(d) ==
    /\ dpc[d] = "lock"
    /\ lock = None
    /\ lock' = d
    /\ Become(d, "open")
    /\ UNCHANGED <<exists, ring, cpc, why, knows, marks>>

\* RingBusy: run_daemon returns 0.
FindBusy(d) ==
    /\ dpc[d] = "lock"
    /\ lock # None
    /\ Become(d, "off")
    /\ UNCHANGED <<exists, lock, ring, cpc, why, knows, marks>>

\* RingWriter(): the header names no record.
OpenRing(d) ==
    /\ dpc[d] = "open"
    /\ ring' = "none"
    /\ after' = {}
    /\ Become(d, "sample")
    /\ UNCHANGED <<exists, lock, cpc, why, knows, taken, recent, served>>

\* A client waits in ensure_running() from its spawn to its last probe.
Waiting(c) == cpc[c] = "wait" \/ why[c] \in {"loop", "final"}

\* collector.sample() reads the clock before anything else.
TakeSample(d) ==
    /\ dpc[d] = "sample"
    /\ taken' = {c \in Client : Waiting(c)}
    /\ Become(d, "publish")
    /\ UNCHANGED <<exists, lock, ring, cpc, why, knows, after, recent, served>>

Publish(d) ==
    /\ dpc[d] = "publish"
    /\ ring' = "fresh"
    /\ after' = taken
    /\ served' = served \cup taken
    /\ taken' = {}
    /\ Become(d, "sample")
    /\ UNCHANGED <<exists, lock, cpc, why, knows, recent>>

\* TelemetryError: the sample is skipped and the daemon goes on.
SkipSample(d) ==
    /\ dpc[d] = "publish"
    /\ taken' = {}
    /\ Become(d, "sample")
    /\ UNCHANGED <<exists, lock, ring, cpc, why, knows, after, recent, served>>

\* The end of run_daemon by a signal, by once or by an exception, and the death
\* of the daemon at any step: both give up the lock and leave the ring as it is.
EndDaemon(d) ==
    /\ dpc[d] # "off"
    /\ lock' = IF lock = d THEN None ELSE lock
    /\ taken' = IF dpc[d] \in Writing THEN {} ELSE taken
    /\ Become(d, "off")
    /\ UNCHANGED <<exists, ring, cpc, why, knows, after, recent, served>>

----
\* TelemetryClient.snapshot(start=True) and ensure_running()

Goto(c, step) == cpc' = [cpc EXCEPT ![c] = step]

Probe(c, reason) == Goto(c, "probe") /\ why' = [why EXCEPT ![c] = reason]

Return(c) ==
    /\ Goto(c, "idle")
    /\ why' = [why EXCEPT ![c] = "none"]
    /\ taken' = taken \ {c}
    /\ after' = after \ {c}
    /\ recent' = recent \ {c}
    /\ served' = served \ {c}

Remember(c, belief) == knows' = [knows EXCEPT ![c] = belief]

\* The call ends at once while the client remembers a living writer.
Ask(c) ==
    /\ cpc[c] = "idle"
    /\ knows[c] # "alive"
    /\ Probe(c, IF knows[c] = "unknown" THEN "client" ELSE "ensure")
    /\ UNCHANGED <<exists, lock, ring, dpc, knows, marks>>

\* Mutant: an answer is remembered for as long as it is "alive".
ForgetGone(c) ==
    /\ knows[c] = "gone"
    /\ Remember(c, "unknown")
    /\ UNCHANGED <<exists, lock, ring, dpc, cpc, why, marks>>

\* now - _writer_checked >= 1.0
Forget(c) ==
    /\ knows[c] # "unknown"
    /\ Remember(c, "unknown")
    /\ UNCHANGED <<exists, lock, ring, dpc, cpc, why, marks>>

\* ensure_running() returned True.
Ready(c) ==
    /\ Goto(c, "ready")
    /\ Remember(c, "alive")
    /\ UNCHANGED <<why, marks>>

\* What the client does with the answer of the probe it is at.
Running(c) ==
    \/ why[c] = "client" /\ Return(c) /\ Remember(c, "alive")
    \/ why[c] = "loop" /\ c \notin recent /\ Goto(c, "wait") /\ UNCHANGED <<why, knows, marks>>
    \/ why[c] = "loop" /\ c \in recent /\ Ready(c)
    \/ why[c] \in {"ensure", "final"} /\ Ready(c)

NotRunning(c) ==
    \/ why[c] = "client" /\ Probe(c, "ensure") /\ Remember(c, "gone") /\ UNCHANGED marks
    \/ why[c] = "ensure" /\ Goto(c, "spawn") /\ UNCHANGED <<why, knows, marks>>
    \/ why[c] = "loop" /\ Goto(c, "wait") /\ UNCHANGED <<why, knows, marks>>
    \/ why[c] = "final" /\ Return(c) /\ UNCHANGED knows

\* daemon_running(): no lock file, a lock that is taken, or one that is free
\* and is given back at once.
ProbeMissing(c) ==
    /\ cpc[c] = "probe"
    /\ ~exists
    /\ NotRunning(c)
    /\ UNCHANGED <<exists, lock, ring, dpc>>

ProbeBusy(c) ==
    /\ cpc[c] = "probe"
    /\ exists
    /\ lock # None
    /\ Running(c)
    /\ UNCHANGED <<exists, lock, ring, dpc>>

ProbeFree(c) ==
    /\ cpc[c] = "probe"
    /\ exists
    /\ lock = None
    /\ lock' = c
    /\ Goto(c, "unlock")
    /\ UNCHANGED <<exists, ring, dpc, why, knows, marks>>

ProbeUnlock(c) ==
    /\ cpc[c] = "unlock"
    /\ lock' = None
    /\ NotRunning(c)
    /\ UNCHANGED <<exists, ring, dpc>>

\* started_ns, then Popen.
Spawn(c) ==
    /\ cpc[c] = "spawn"
    /\ \E d \in Daemon : dpc[d] = "off" /\ Become(d, "spawned")
    /\ Goto(c, "wait")
    /\ why' = [why EXCEPT ![c] = "loop"]
    /\ UNCHANGED <<exists, lock, ring, knows, marks>>

\* Popen raises OSError: ensure_running() returns False.
SpawnFails(c) ==
    /\ cpc[c] = "spawn"
    /\ Return(c)
    /\ UNCHANGED <<exists, lock, ring, dpc, knows>>

\* Mutant: any sample within the age limit will do.
LookAtAnySample(c) ==
    /\ cpc[c] = "wait"
    /\ recent' = IF ring = "fresh" THEN recent \cup {c} ELSE recent \ {c}
    /\ Probe(c, "loop")
    /\ UNCHANGED <<exists, lock, ring, dpc, knows, taken, after, served>>

\* One round of the loop: the ring first, then the lock.
LookAtSample(c) ==
    /\ cpc[c] = "wait"
    /\ recent' = IF ring = "fresh" /\ c \in after
                 THEN recent \cup {c} ELSE recent \ {c}
    /\ Probe(c, "loop")
    /\ UNCHANGED <<exists, lock, ring, dpc, knows, taken, after, served>>

\* time.monotonic() >= deadline
GiveUp(c) ==
    /\ cpc[c] = "wait"
    /\ Probe(c, "final")
    /\ UNCHANGED <<exists, lock, ring, dpc, knows, marks>>

\* _read_ring() again, and back to the caller.
ReturnReady(c) ==
    /\ cpc[c] = "ready"
    /\ Return(c)
    /\ UNCHANGED <<exists, lock, ring, dpc, knows>>

\* A client process dies, and with it what it knew; another takes its place.
EndClient(c) ==
    /\ cpc[c] # "idle"
    /\ lock' = IF lock = c THEN None ELSE lock
    /\ Return(c)
    /\ Remember(c, "unknown")
    /\ UNCHANGED <<exists, ring, dpc>>

\* The newest sample passes the age limit.
Age ==
    /\ ring = "fresh"
    /\ ring' = "old"
    /\ UNCHANGED <<exists, lock, dpc, cpc, why, knows, marks>>

----
Start(d) == OpenLock(d) \/ TakeLock(d) \/ FindBusy(d) \/ OpenRing(d)

Sampling(d) == TakeSample(d) \/ Publish(d) \/ SkipSample(d)

Look(c) == ProbeMissing(c) \/ ProbeBusy(c) \/ ProbeFree(c) \/ ProbeUnlock(c)

Wait(c) == SpawnFails(c) \/ LookAtSample(c) \/ ReturnReady(c)

Next ==
    \/ \E d \in Daemon : Serve(d) \/ Start(d) \/ Sampling(d) \/ EndDaemon(d)
    \/ \E c \in Client : \/ Ask(c) \/ Forget(c) \/ Look(c) \/ Wait(c)
                         \/ Spawn(c) \/ GiveUp(c) \/ EndClient(c)
    \/ Age

Spec == Init /\ [][Next]_vars

\* Clients keep asking (a panel polls), take their steps, and time passes for
\* them.  A Popen that could succeed again and again succeeds in the end.
\* Nothing is assumed of the daemons but that they start: they may die.
FairSpec ==
    /\ Spec
    /\ \A c \in Client :
        /\ WF_vars(Ask(c)) /\ WF_vars(Forget(c)) /\ WF_vars(Look(c)) /\ WF_vars(Wait(c))
        /\ SF_vars(Spawn(c)) /\ SF_vars(GiveUp(c))
    /\ \A d \in Daemon : WF_vars(Start(d))

----
\* Properties.

\* "One writer holds an exclusive singleton lock": a spare daemon, however it was started, does not touch the ring
\* of one that runs.  What a daemon has published stays until it ends.
LiveRingIsKept ==
    [][\A d \in Daemon :
        (ring # "none" /\ dpc[d] \in {"sample", "publish"} /\ dpc'[d] # "off") => ring' # "none"]_vars

\* ensure_running() does not take the last sample of a dead daemon for a sign of
\* the one it waits for: when its loop ends with True, a sample taken since the
\* call spawned its daemon has been published.
ReadyMeansSampled ==
    \A c \in Client : cpc[c] = "ready" /\ why[c] = "loop" => c \in served

\* A probe takes another one for a writer.
Misled(c) == ProbeBusy(c) /\ lock \in Client

\* Once no client dies any more and no probe meets another, clients that keep
\* asking start a daemon when there is none, whatever they believed before: no
\* wrong answer lasts.  (Two clients that alternate without end in misleading
\* each other's second probe would start none.)
DeathIsRepaired ==
    (\A c \in Client : <>[][~EndClient(c) /\ ~Misled(c)]_vars)
        => (\A d \in Daemon : dpc[d] = "off") ~> (\E d \in Daemon : dpc[d] # "off")

\* "A dead daemon cannot leave a false running result": who learns that a writer
\* lives learns it while a daemon holds the lock.
NoFalseRunning ==
    [][\A c \in Client :
        (knows[c] # "alive" /\ knows'[c] = "alive") => lock \in Daemon]_vars
====
