---- MODULE LeaseContract ----
(***************************************************************************)
(* What the shared accelerator lease promises, with no registry, queue or  *)
(* file in sight: one grant at a time, engines only under the grant that   *)
(* started them, and no new grant before the previous one is acknowledged. *)
(***************************************************************************)
EXTENDS Integers, FiniteSets

CONSTANT Ticket

NoTicket == 0
NoGrant == [ticket |-> NoTicket, state |-> "none"]

VARIABLES active,     \* the grant on record
          running     \* the tickets whose engine runs

cvars == <<active, running>>

Init == active = NoGrant /\ running = {}

\* A grant needs a proof of cleanup for the one before it.
Grant(t) ==
    /\ active.state # "held"
    /\ running = {}
    /\ t # active.ticket
    /\ active' = [ticket |-> t, state |-> "held"]
    /\ UNCHANGED running

\* A grant that failed half way was never used.
VoidGrant(t) ==
    /\ active.state # "held"
    /\ running = {}
    /\ active' = [ticket |-> t, state |-> "releasing"]
    /\ UNCHANGED running

Start(t) ==
    /\ active = [ticket |-> t, state |-> "held"]
    /\ running' = running \cup {t}
    /\ UNCHANGED active

Finish(t) ==
    /\ running' = running \ {t}
    /\ UNCHANGED active

\* The acknowledgement: no engine of the grant is left.
Acknowledge(t) ==
    /\ active = [ticket |-> t, state |-> "held"]
    /\ t \notin running
    /\ active' = [ticket |-> t, state |-> "releasing"]
    /\ UNCHANGED running

Next == \E t \in Ticket :
    \/ Grant(t) \/ VoidGrant(t) \/ Start(t) \/ Finish(t) \/ Acknowledge(t)

Spec == Init /\ [][Next]_cvars

\* Engines run one at a time, and only under a grant that is held.
OneEngine == running \subseteq (IF active.state = "held" THEN {active.ticket} ELSE {})
====
