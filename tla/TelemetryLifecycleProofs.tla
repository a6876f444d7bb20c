---- MODULE TelemetryLifecycleProofs ----
(***************************************************************************)
(* Theorems about TelemetryLifecycle, for any number of clients and        *)
(* daemons: whoever writes the ring holds the lock, whatever probes take   *)
(* it in between, so nobody resets the ring of a daemon that goes on, and  *)
(* who is told that one runs has been served.                              *)
(***************************************************************************)
EXTENDS TelemetryLifecycle, TLAPS


\* A daemon has the lock from before it opens the ring until it ends.
WriterHasLock == \A d \in Daemon : dpc[d] \in Writing => lock = d

\* A probe has the lock until it gives it back.
ProbeHasLock == \A c \in Client : cpc[c] = "unlock" => lock = c

\* Whoever probes knows what the answer is for.
ProbeHasReason == \A c \in Client : cpc[c] \in {"probe", "unlock"} => why[c] # "none"

LifecycleInv == TypeOK /\ WriterHasLock /\ ProbeHasLock /\ ProbeHasReason

\* The lock is free and nobody needs it.
LEMMA InitLifecycle == Init => LifecycleInv
BY LifecycleAssumption, ZenonT(30)
   DEF Init, LifecycleInv, TypeOK, WriterHasLock, ProbeHasLock, ProbeHasReason, Writing

\* The steps of a daemon: only TakeLock gives it the lock, and only when nobody
\* else has it.
LEMMA DaemonStep ==
    ASSUME LifecycleInv, NEW d \in Daemon,
           Serve(d) \/ Start(d) \/ Sampling(d) \/ EndDaemon(d)
    PROVE  LifecycleInv'
<1> USE LifecycleAssumption DEF LifecycleInv, TypeOK, WriterHasLock, ProbeHasLock, ProbeHasReason, Writing,
        Become, marks
<1>1. CASE Serve(d)
  BY <1>1 DEF Serve
<1>2. CASE OpenLock(d)
  BY <1>2 DEF OpenLock
<1>3. CASE TakeLock(d)
  BY <1>3 DEF TakeLock
<1>4. CASE FindBusy(d)
  BY <1>4 DEF FindBusy
<1>5. CASE OpenRing(d)
  BY <1>5 DEF OpenRing
<1>6. CASE TakeSample(d)
  BY <1>6 DEF TakeSample
<1>7. CASE Publish(d)
  BY <1>7 DEF Publish
<1>8. CASE SkipSample(d)
  BY <1>8 DEF SkipSample
<1>9. CASE EndDaemon(d)
  BY <1>9 DEF EndDaemon
<1> QED
  BY <1>1, <1>2, <1>3, <1>4, <1>5, <1>6, <1>7, <1>8, <1>9 DEF Start, Sampling

\* The answer to a probe changes what the client does and knows, never the lock.
LEMMA Answers ==
    ASSUME TypeOK, NEW c \in Client, why[c] # "none",
           Running(c) \/ NotRunning(c),
           UNCHANGED <<exists, ring, dpc>>, lock' \in {lock, None}
    PROVE  /\ TypeOK'
           /\ cpc'[c] # "unlock"
           /\ cpc'[c] = "probe" => why'[c] # "none"
           /\ \A q \in Client \ {c} : cpc'[q] = cpc[q] /\ why'[q] = why[q]
<1> USE DEF TypeOK, Writing, Goto, Probe, Return, Remember, Ready, marks
<1>1. CASE Running(c)
  BY <1>1 DEF Running
<1>2. CASE NotRunning(c)
  <2>1. why[c] \in {"client", "ensure", "loop", "final"}
    OBVIOUS
  <2>2. CASE why[c] = "client"
    BY <1>2, <2>2 DEF NotRunning
  <2>3. CASE why[c] = "ensure"
    BY <1>2, <2>3 DEF NotRunning
  <2>4. CASE why[c] = "loop"
    BY <1>2, <2>4 DEF NotRunning
  <2>5. CASE why[c] = "final"
    BY <1>2, <2>5 DEF NotRunning
  <2> QED
    BY <2>1, <2>2, <2>3, <2>4, <2>5
<1> QED
  BY <1>1, <1>2

\* The steps of a client: it only gives back a lock that it took itself.
LEMMA ClientStep ==
    ASSUME LifecycleInv, NEW c \in Client,
           \/ Ask(c) \/ Forget(c) \/ Look(c) \/ Wait(c)
           \/ Spawn(c) \/ GiveUp(c) \/ EndClient(c)
    PROVE  LifecycleInv'
<1> USE LifecycleAssumption DEF LifecycleInv, WriterHasLock, ProbeHasLock, ProbeHasReason, Writing
<1>1. CASE Ask(c)
  BY <1>1 DEF Ask, Probe, Goto, TypeOK, marks
<1>2. CASE Forget(c)
  BY <1>2 DEF Forget, Remember, TypeOK, marks
<1>3. CASE ProbeMissing(c)
  BY <1>3, Answers DEF ProbeMissing
<1>4. CASE ProbeBusy(c)
  BY <1>4, Answers DEF ProbeBusy
<1>5. CASE ProbeFree(c)
  BY <1>5 DEF ProbeFree, Goto, TypeOK, marks
<1>6. CASE ProbeUnlock(c)
  <2>1. /\ TypeOK'
        /\ cpc'[c] # "unlock"
        /\ cpc'[c] = "probe" => why'[c] # "none"
        /\ \A q \in Client \ {c} : cpc'[q] = cpc[q] /\ why'[q] = why[q]
    BY <1>6, Answers DEF ProbeUnlock
  <2>2. lock = c /\ lock' = None /\ dpc' = dpc
    BY <1>6 DEF ProbeUnlock
  <2> QED
    BY <2>1, <2>2
<1>7. CASE SpawnFails(c)
  BY <1>7 DEF SpawnFails, Return, Goto, TypeOK, marks
<1>8. CASE LookAtSample(c)
  BY <1>8 DEF LookAtSample, Probe, Goto, TypeOK, marks
<1>9. CASE ReturnReady(c)
  BY <1>9 DEF ReturnReady, Return, Goto, TypeOK, marks
<1>10. CASE Spawn(c)
  <2>1. PICK d \in Daemon : dpc[d] = "off" /\ Become(d, "spawned")
    BY <1>10 DEF Spawn
  <2> QED
    BY <1>10, <2>1 DEF Spawn, Become, Goto, TypeOK, marks
<1>11. CASE GiveUp(c)
  BY <1>11 DEF GiveUp, Probe, Goto, TypeOK, marks
<1>12. CASE EndClient(c)
  BY <1>12 DEF EndClient, Return, Remember, Goto, TypeOK, marks
<1> QED
  BY <1>1, <1>2, <1>3, <1>4, <1>5, <1>6, <1>7, <1>8, <1>9, <1>10, <1>11, <1>12
  DEF Look, Wait

\* Every step keeps the invariant.
LEMMA StepKeeps == LifecycleInv /\ [Next]_vars => LifecycleInv'
<1> SUFFICES ASSUME LifecycleInv, [Next]_vars
             PROVE  LifecycleInv'
  OBVIOUS
<1>1. CASE \E d \in Daemon : Serve(d) \/ Start(d) \/ Sampling(d) \/ EndDaemon(d)
  BY <1>1, DaemonStep
<1>2. CASE \E c \in Client : \/ Ask(c) \/ Forget(c) \/ Look(c) \/ Wait(c)
                             \/ Spawn(c) \/ GiveUp(c) \/ EndClient(c)
  BY <1>2, ClientStep
<1>3. CASE Age
  BY <1>3 DEF Age, LifecycleInv, TypeOK, WriterHasLock, ProbeHasLock, ProbeHasReason, Writing, marks
<1>4. CASE UNCHANGED vars
  BY <1>4 DEF vars, LifecycleInv, TypeOK, WriterHasLock, ProbeHasLock, ProbeHasReason, Writing
<1> QED
  BY <1>1, <1>2, <1>3, <1>4 DEF Next

\* The lock belongs to the writer or to the probe that took it, always: a probe
\* never gives back the lock of a daemon.
THEOREM LifecycleInvariant == Spec => []LifecycleInv
BY InitLifecycle, StepKeeps, PTL DEF Spec

\* The variables keep their types.
THEOREM LifecycleTypes == Spec => []TypeOK
<1>1. LifecycleInv => TypeOK
  BY DEF LifecycleInv
<1> QED
  BY <1>1, LifecycleInvariant, PTL

\* Two daemons never write at a time.
LEMMA OneWriter ==
    ASSUME LifecycleInv, NEW d \in Daemon, NEW e \in Daemon,
           dpc[d] \in Writing, dpc[e] \in Writing
    PROVE  d = e
BY DEF LifecycleInv, WriterHasLock

\* Only OpenRing empties the ring, so only a daemon that has the lock.
LEMMA OnlyOpenRingResets ==
    ASSUME LifecycleInv, [Next]_vars, ring # "none", ring' = "none"
    PROVE  \E d \in Daemon : OpenRing(d)
<1>1. ASSUME NEW d \in Daemon, Serve(d) \/ Start(d) \/ Sampling(d) \/ EndDaemon(d)
      PROVE  OpenRing(d)
  BY <1>1 DEF Serve, Start, Sampling, EndDaemon, OpenLock, TakeLock, FindBusy,
              TakeSample, Publish, SkipSample
<1>2. ASSUME NEW c \in Client,
             \/ Ask(c) \/ Forget(c) \/ Look(c) \/ Wait(c)
             \/ Spawn(c) \/ GiveUp(c) \/ EndClient(c)
      PROVE  ring' = ring
  BY <1>2 DEF Ask, Forget, Look, Wait, Spawn, GiveUp, EndClient, ProbeMissing, ProbeBusy,
              ProbeFree, ProbeUnlock, SpawnFails, LookAtSample, ReturnReady
<1>3. Age => ring' = "old"
  BY DEF Age
<1>4. UNCHANGED vars => ring' = ring
  BY DEF vars
<1> QED
  BY <1>1, <1>2, <1>3, <1>4 DEF Next

\* LiveRingIsKept: whatever is spawned, and however often the lock is probed, the
\* ring of a daemon that goes on is not reset.
THEOREM LiveRingAlways == Spec => LiveRingIsKept
<1>1. ASSUME LifecycleInv, [Next]_vars, NEW d \in Daemon,
             ring # "none", dpc[d] \in {"sample", "publish"}, dpc'[d] # "off"
      PROVE  ring' # "none"
  <2>1. SUFFICES ASSUME ring' = "none"
                 PROVE  FALSE
    OBVIOUS
  <2>2. PICK e \in Daemon : OpenRing(e)
    BY <1>1, <2>1, OnlyOpenRingResets
  <2>3. dpc[e] = "open"
    BY <2>2 DEF OpenRing
  <2>4. d = e
    BY <1>1, <2>3, OneWriter DEF Writing
  <2> QED
    BY <1>1, <2>3, <2>4
<1>2. LifecycleInv /\ [Next]_vars =>
        [\A d \in Daemon :
            (ring # "none" /\ dpc[d] \in {"sample", "publish"} /\ dpc'[d] # "off")
                => ring' # "none"]_vars
  BY <1>1
<1> QED
  BY <1>2, LifecycleInvariant, PTL DEF Spec, LiveRingIsKept
----
\* A sample in the ring, or seen there, was published for the clients it is after.
MarksAreServed == after \subseteq served /\ recent \subseteq served

SampledInv == MarksAreServed /\ ReadyMeansSampled

\* Daemons add to what has been served, and move no client.
LEMMA DaemonServes ==
    ASSUME SampledInv, NEW d \in Daemon,
           Serve(d) \/ Start(d) \/ Sampling(d) \/ EndDaemon(d)
    PROVE  SampledInv'
<1>1. UNCHANGED <<cpc, why, recent>>
  BY DEF Serve, Start, Sampling, EndDaemon, OpenLock, TakeLock, FindBusy, OpenRing, TakeSample,
     Publish, SkipSample, marks
<1>2. served \subseteq served' /\ after' \subseteq served'
  BY DEF Serve, Start, Sampling, EndDaemon, OpenLock, TakeLock, FindBusy, OpenRing, TakeSample,
     Publish, SkipSample, marks, SampledInv, MarksAreServed
<1>3. QED
  BY <1>1, <1>2 DEF SampledInv, MarksAreServed, ReadyMeansSampled

\* A call that returns takes its marks along.
LEMMA ReturnKeeps ==
    ASSUME LifecycleInv, SampledInv, NEW c \in Client, Return(c)
    PROVE  SampledInv'
BY DEF LifecycleInv, TypeOK, SampledInv, MarksAreServed, ReadyMeansSampled, Return, Goto

\* A client that goes on, but not to "ready", leaves the marks.
LEMMA GoingOnKeeps ==
    ASSUME LifecycleInv, SampledInv, NEW c \in Client, NEW step, step # "ready", Goto(c, step),
           \A q \in Client \ {c} : why'[q] = why[q],
           UNCHANGED <<after, served>>, recent' \subseteq recent \cup (after \cap {c})
    PROVE  SampledInv'
BY DEF LifecycleInv, TypeOK, SampledInv, MarksAreServed, ReadyMeansSampled, Goto

\* It is ready after the loop because it has seen a sample that was published for
\* it.
LEMMA AnswerServes ==
    ASSUME LifecycleInv, SampledInv, NEW c \in Client, Running(c) \/ NotRunning(c)
    PROVE  SampledInv'
<1>1. ASSUME NEW reason, Probe(c, reason), UNCHANGED marks PROVE SampledInv'
  <2>1. \A q \in Client \ {c} : why'[q] = why[q]
    BY <1>1 DEF Probe, LifecycleInv, TypeOK
  <2>2. QED
    BY <1>1, <2>1, GoingOnKeeps DEF Probe, marks
<1>2. ASSUME NEW step, step # "ready", Goto(c, step), UNCHANGED <<why, marks>> PROVE SampledInv'
  BY <1>2, GoingOnKeeps DEF marks
<1>3. ASSUME Ready(c), why[c] = "loop" => c \in recent PROVE SampledInv'
  BY <1>3 DEF Ready, Goto, marks, LifecycleInv, TypeOK, SampledInv, MarksAreServed,
     ReadyMeansSampled
<1>4. CASE Running(c)
  BY <1>2, <1>3, <1>4, ReturnKeeps DEF Running
<1>5. CASE NotRunning(c)
  BY <1>1, <1>2, <1>5, ReturnKeeps DEF NotRunning
<1> QED
  BY <1>4, <1>5

LEMMA ClientServes ==
    ASSUME LifecycleInv, SampledInv, NEW c \in Client,
           \/ Ask(c) \/ Forget(c) \/ Look(c) \/ Wait(c)
           \/ Spawn(c) \/ GiveUp(c) \/ EndClient(c)
    PROVE  SampledInv'
<1>1. ASSUME NEW reason, Probe(c, reason), UNCHANGED <<after, served>>,
             recent' \subseteq recent \cup (after \cap {c})
      PROVE  SampledInv'
  <2>1. \A q \in Client \ {c} : why'[q] = why[q]
    BY <1>1 DEF Probe, LifecycleInv, TypeOK
  <2>2. QED
    BY <1>1, <2>1, GoingOnKeeps DEF Probe
<1>2. CASE Ask(c)
  BY <1>1, <1>2 DEF Ask, marks
<1>3. CASE Forget(c)
  BY <1>3 DEF Forget, marks, SampledInv, MarksAreServed, ReadyMeansSampled
<1>4. CASE ProbeMissing(c) \/ ProbeBusy(c) \/ ProbeUnlock(c)
  BY <1>4, AnswerServes DEF ProbeMissing, ProbeBusy, ProbeUnlock
<1>5. CASE ProbeFree(c)
  BY <1>5, GoingOnKeeps DEF ProbeFree, marks
<1>6. CASE SpawnFails(c) \/ ReturnReady(c) \/ EndClient(c)
  BY <1>6, ReturnKeeps DEF SpawnFails, ReturnReady, EndClient
<1>7. CASE LookAtSample(c)
  BY <1>1, <1>7 DEF LookAtSample
<1>8. CASE Spawn(c)
  <2>1. \A q \in Client \ {c} : why'[q] = why[q]
    BY <1>8 DEF Spawn, LifecycleInv, TypeOK
  <2>2. QED
    BY <1>8, <2>1, GoingOnKeeps DEF Spawn, marks
<1>9. CASE GiveUp(c)
  BY <1>1, <1>9 DEF GiveUp, marks
<1> QED
  BY <1>2, <1>3, <1>4, <1>5, <1>6, <1>7, <1>8, <1>9 DEF Look, Wait

\* ReadyMeansSampled: a client that is told after its loop that a daemon runs has
\* been served a sample that was taken since the call, whatever daemons died,
\* skipped their samples or reset the ring meanwhile.
THEOREM ReadyMeansSampledAlways == Spec => []ReadyMeansSampled
<1>1. Init => SampledInv
  BY DEF Init, SampledInv, MarksAreServed, ReadyMeansSampled
<1>2. LifecycleInv /\ SampledInv /\ [Next]_vars => SampledInv'
  <2> SUFFICES ASSUME LifecycleInv, SampledInv, [Next]_vars PROVE SampledInv'
    OBVIOUS
  <2>1. CASE Age
    BY <2>1 DEF Age, marks, SampledInv, MarksAreServed, ReadyMeansSampled
  <2>2. CASE UNCHANGED vars
    BY <2>2 DEF vars, SampledInv, MarksAreServed, ReadyMeansSampled
  <2> QED
    BY <2>1, <2>2, DaemonServes, ClientServes DEF Next
<1>3. SampledInv => ReadyMeansSampled
  BY DEF SampledInv
<1> QED
  BY <1>1, <1>2, <1>3, LifecycleInvariant, PTL DEF Spec
====
