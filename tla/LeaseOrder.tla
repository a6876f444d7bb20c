---- MODULE LeaseOrder ----
(***************************************************************************)
(* The queue discipline of kilix_device_lease: workloads rotate, requests  *)
(* of one workload are served in the order they joined.                    *)
(*                                                                         *)
(* A queue is a set of items with a workload and a sequence number.  The   *)
(* list order of state.json does not matter: _Registry.order sorts every   *)
(* group by sequence before it reads it.                                   *)
(***************************************************************************)
EXTENDS Integers, Sequences, FiniteSets

CONSTANT NKinds             \* len(WORKLOADS)

ASSUME NKindsAssumption == NKinds \in Nat \ {0}

Kind == 0 .. NKinds - 1     \* a workload, by its index in WORKLOADS

NoKind == -1                \* "last": null, before the first grant

After(k) == (k + 1) % NKinds

\* Mutant: the rotation forgets whose turn it was.
StartOver(last) == 0

\* index = (WORKLOADS.index(last) + 1) % len(WORKLOADS) if last else 0
Start(last) == IF last = NoKind THEN 0 ELSE After(last)

Group(queue, k) == {i \in queue : i.workload = k}

\* How many turns of the rotation come before k when it stands at index.
Turns(index, k) == (k - index) % NKinds

\* The next workload the loop pops from: it skips the empty groups.
NextKind(queue, index) ==
    CHOOSE k \in Kind :
        /\ Group(queue, k) # {}
        /\ \A j \in Kind : Group(queue, j) # {} => Turns(index, k) <= Turns(index, j)

Earliest(group) == CHOOSE i \in group : \A j \in group : i.sequence <= j.sequence

\* groups[kind].pop(0) at the next non-empty kind
Popped(queue, index) == Earliest(Group(queue, NextKind(queue, index)))

\* while any(groups.values()): pop, append, advance the rotation
Order(queue, last) ==
    LET from[at \in (SUBSET queue) \X Kind] ==     \* at: the groups and the index
            IF at[1] = {} THEN << >>
            ELSE LET item == Popped(at[1], at[2])
                 IN <<item>> \o from[<<at[1] \ {item}, After(item.workload)>>]
    IN from[<<queue, Start(last)>>]

\* Mutant: first come, first served, whatever the workload.
IsOldest(ticket, queue, last) ==
    \E i \in queue : i.ticket = ticket /\ \A j \in queue : i.sequence <= j.sequence

\* ordered[0]["ticket"] == item["ticket"]
IsHead(ticket, queue, last) ==
    /\ queue # {}
    /\ Order(queue, last)[1].ticket = ticket

----
\* The same order without the loop: an item's place is decided by how many of
\* its own workload are before it, then by its workload's turn in the rotation.
Rank(i, queue) == Cardinality({j \in Group(queue, i.workload) : j.sequence < i.sequence})

ServedBefore(i, j, queue, last) ==
    \/ Rank(i, queue) < Rank(j, queue)
    \/ /\ Rank(i, queue) = Rank(j, queue)
       /\ Turns(Start(last), i.workload) < Turns(Start(last), j.workload)
====
