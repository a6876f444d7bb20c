---- MODULE FairQueue ----
(***************************************************************************)
(* What the rotation of LeaseOrder promises a requester, as a machine that *)
(* only joins, grants and leaves: how long can the discipline make one     *)
(* wait?  A grant goes to the first in the declarative order; the loop of  *)
(* the code is shown to agree.  LeaseFairness shows that the processes of  *)
(* DeviceLease do nothing else to their queue.                             *)
(***************************************************************************)
EXTENDS LeaseOrder

CONSTANTS Ticket, MAX_QUEUE, MAX_WORKLOAD_QUEUE

VARIABLES queue,      \* state.json "queue"
          last,       \* state.json "last"
          next,       \* state.json "next"
          patience    \* history: for each waiting request, the grants it must
                      \* at most see go to others before its own turn

vars == <<queue, last, next, patience>>

Full(k) == \/ Cardinality(queue) >= MAX_QUEUE
           \/ Cardinality(Group(queue, k)) >= MAX_WORKLOAD_QUEUE

\* Every request of the own workload that is already waiting, and between two
\* grants of the own workload one of every other.
Allowance(k) == Cardinality(Group(queue, k)) * NKinds + NKinds - 1

Init ==
    /\ queue = {}
    /\ last = NoKind
    /\ next = 0
    /\ patience = [i \in queue |-> 0]

\* The history after so many more grants, and with the allowance of a newcomer.
Watch(grants) ==
    patience' = [i \in queue' |-> IF i \in queue THEN patience[i] - grants
                                                 ELSE Allowance(i.workload)]

Join(t, k) ==
    /\ ~Full(k)
    /\ \A i \in queue : i.ticket # t
    /\ queue' = queue \cup {[ticket |-> t, workload |-> k, sequence |-> next]}
    /\ next' = next + 1
    /\ UNCHANGED last
    /\ Watch(0)

\* Whose turn it is.
First(i) == i \in queue /\ \A j \in queue \ {i} : ServedBefore(i, j, queue, last)

Grant ==
    \E i \in queue :
        /\ First(i)
        /\ queue' = queue \ {i}
        /\ last' = i.workload
        /\ UNCHANGED next
        /\ Watch(1)

\* Withdrawn, expired or dead requests, wherever they stand: one pass may drop
\* several.
Leave ==
    /\ queue' \in SUBSET queue
    /\ UNCHANGED <<last, next>>
    /\ Watch(0)

Next == (\E t \in Ticket, k \in Kind : Join(t, k)) \/ Grant \/ Leave

Spec == Init /\ [][Next]_vars

----
\* The loop of order() serves every queued request exactly once, and in the
\* order of the declarative definition: by rank in the own workload, then by
\* the workload's turn after the last one granted.
OrderIsRotation ==
    LET order == Order(queue, last)
    IN  /\ Len(order) = Cardinality(queue)
        /\ {order[n] : n \in DOMAIN order} = queue
        /\ \A m, n \in DOMAIN order : m < n => ServedBefore(order[m], order[n], queue, last)

\* No request is bypassed more often than its workload's queue and the rotation
\* explain, whoever joins, leaves or is granted meanwhile: a busy workload
\* cannot starve another one.
BypassBounded == \A i \in queue : patience[i] >= 0
====
