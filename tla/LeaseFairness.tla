---- MODULE LeaseFairness ----
(***************************************************************************)
(* The fair queue that the processes of DeviceLease make of state.json: a  *)
(* pass, a withdrawal, a crash or a save that fails does to the queue what *)
(* FairQueue does, or nothing.  The history of FairQueue is added to the   *)
(* model to say so; it decides nothing.                                    *)
(***************************************************************************)
EXTENDS DeviceLease

VARIABLE patience     \* history, as in FairQueue

Fair == INSTANCE FairQueue WITH queue <- state.queue, last <- state.last, next <- state.next

watchedVars == <<vars, patience>>

\* The grants of a step: one if the record names another one after it.
Grants == IF state'.active.ticket # state.active.ticket THEN 1 ELSE 0

WatchedInit == Init /\ patience = [i \in state.queue |-> 0]

WatchedNext == Next /\ Fair!Watch(Grants)

WatchedSpec == WatchedInit /\ [][WatchedNext]_watchedVars

----
\* Every change of the queue is a join, a grant to whoever the rotation has
\* first, or requests that leave: also a save that raises half way, and the
\* rollback of a grant, which counts as one.
RefinesQueue == Fair!Spec

\* Whatever crashes and fails meanwhile, the place that a pass computes is the
\* one of the rotation, and nobody who waits for the device is bypassed more
\* often than its workload's queue and the rotation explain.
TurnsAreFair == Fair!OrderIsRotation /\ Fair!BypassBounded
====
