---- MODULE MCLeaseWedge ----
(***************************************************************************)
(* A few of the behaviours of DeviceLease, chosen so that TLC reaches the  *)
(* real slack of five entries: requests and passes come one after another, *)
(* in order of the process number, a queued process is slow to poll again, *)
(* one whose deadline passes is stalled, nobody cancels, and only a        *)
(* coordinator about to unlink dies.                                       *)
(***************************************************************************)
EXTENDS LeaseDeaths

QuietNext ==
    \/ /\ \A p \in Proc : pc[p] = "idle" \/ my[p] \in open \/ pc[p] = "holding"
       /\ anchor = None
       /\ \E p \in Proc : /\ \A q \in Proc : q < p => pc[q] # "idle"
                          /\ Request(p)
    \/ \E p \in Proc : /\ anchor = None
                       /\ pc[p] = "poll" /\ my[p] \in open
                       /\ Expire(p)
    \/ \E p \in Proc : /\ IF anchor = None THEN my[p] \notin open ELSE anchor = p
                       /\ Acquire(p)
    \/ \E p \in Proc : anchor = p /\ pc[p] = "unlink" /\ Crash(p)

QuietSpec == CountedInit /\ [][QuietNext /\ CountDeaths]_countedVars
====
