---- MODULE DeviceLeaseProofs ----
(***************************************************************************)
(* Theorems about DeviceLease for every set of processes, every number of  *)
(* requests and every kind of fault, and that its queue is a FairQueue.    *)
(***************************************************************************)
EXTENDS LeaseFairness, LeaseDeaths, FiniteSetTheorems, TLAPS

\* The steps a process only takes while it has the anchor's lock.
InRegistry == Pass \cup Granting \cup {"rollback", "unqueue", "unqueued", "ack_save"}

\* The steps before acquire() has returned a lease.
BeforeLease == Steps \ (Holding \cup {"idle"})

----
\* The inductive invariant, in parts.

\* A process in a request has a ticket name of its own.
RequestsNamed ==
    \A p \in Proc : pc[p] # "idle" =>
        /\ my[p] \in Ticket
        /\ my[p] <= requests
        /\ workload[p] \in Kind

NamesUnique ==
    \A p, q \in Proc : pc[p] # "idle" /\ pc[q] # "idle" /\ my[p] = my[q] => p = q

AnchorExcludes == \A p \in Proc : pc[p] \in InRegistry => anchor = p

\* At most one grant has copies of the guard left...
OneGuard == \A t, u \in Ticket : guard[t] # {} /\ guard[u] # {} => t = u

\* ... a lease among them, until it is closed,
ProviderHasGuard ==
    \A p \in Proc : pc[p] \in Granting \cup Holding => "provider" \in guard[my[p]]

\* and the record names it until the acknowledgement.
LeaseIsHeld ==
    \A p \in Proc : pc[p] \in (Holding \ {"ack_close"}) \cup {"granted"} => HeldBy(my[p])

GrantIsNew ==
    \A p \in Proc :
        /\ pc[p] = "grant" => ~Quarantined
        /\ pc[p] = "rollback" => HeldBy(my[p]) \/ ~Quarantined

NotStarted ==
    /\ \A t \in running : t <= requests
    /\ \A p \in Proc : pc[p] \in BeforeLease => my[p] \notin running

AcknowledgedIsDone ==
    "early_ack" \notin Faults =>
        \A p \in Proc : pc[p] \in {"ack", "ack_save"} => my[p] \notin running

\* Two independent marks of a running engine: its copy of the guard, unless it
\* may lose it, and the record, unless a provider may acknowledge too early.
EngineIsMarked ==
    \A t \in running :
        /\ "guard_loss" \notin Faults => "job" \in guard[t]
        /\ "early_ack" \notin Faults => HeldBy(t)

LeaseInv ==
    /\ TypeOK
    /\ RequestsNamed
    /\ NamesUnique
    /\ AnchorExcludes
    /\ OneGuard
    /\ ProviderHasGuard
    /\ LeaseIsHeld
    /\ GrantIsNew
    /\ NotStarted
    /\ AcknowledgedIsDone
    /\ EngineIsMarked

----
\* What saves do to the record, the only facts about it the invariant needs.

\* The types of the constants every proof below relies on.
LEMMA Constants ==
    /\ None \notin Proc
    /\ MaxRequests \in Nat
    /\ NKinds \in Nat \ {0}
    /\ NoGrant \in Active
    /\ NoTicket \notin Ticket
    /\ Faults \subseteq FaultKinds
BY LeaseAssumption, NKindsAssumption DEF NoGrant, Active, NoTicket, Ticket

\* Pruning, joining and withdrawing keep the grant on record.
LEMMA QueueSaves ==
    ASSUME NEW p \in Proc, state \in Record, my[p] \in Ticket, workload[p] \in Kind
    PROVE  /\ Pruned \in Record /\ Pruned.active = state.active
           /\ Joined(p) \in Record /\ Joined(p).active = state.active
           /\ Unqueued(p) \in Record /\ Unqueued(p).active = state.active
<1>1. Retained \subseteq state.queue
  BY DEF Retained
<1>2. Pruned \in Record /\ Pruned.active = state.active
  BY <1>1 DEF Pruned, Record
<1>3. [ticket |-> my[p], workload |-> workload[p], sequence |-> state.next] \in Item
  BY DEF Item, Record
<1>4. Joined(p) \in Record /\ Joined(p).active = state.active
  <2> DEFINE item == [ticket |-> my[p], workload |-> workload[p], sequence |-> state.next]
  <2>1. state.queue \cup {item} \in SUBSET Item
    BY <1>3 DEF Record
  <2>2. state.next + 1 \in Nat
    BY DEF Record
  <2>3. Joined(p) = [state EXCEPT !.next = state.next + 1, !.queue = state.queue \cup {item}]
    BY DEF Joined
  <2> HIDE DEF item
  <2>4. QED
    BY <2>1, <2>2, <2>3 DEF Record
<1>5. Unqueued(p) \in Record /\ Unqueued(p).active = state.active
  BY DEF Unqueued, Without, Record
<1>6. QED
  BY <1>2, <1>4, <1>5

\* The grant, its rollback and the acknowledgement write these grants.
LEMMA GrantSaves ==
    ASSUME NEW p \in Proc, state \in Record, my[p] \in Ticket, workload[p] \in Kind
    PROVE  /\ Granted(p) \in Record
           /\ Granted(p).active = [ticket |-> my[p], state |-> "held"]
           /\ RolledBack(p) \in Record
           /\ RolledBack(p).active = [ticket |-> my[p], state |-> "releasing"]
<1>1. [ticket |-> my[p], state |-> "held"] \in Active
  BY DEF Active
<1>2. Granted(p) \in Record /\ Granted(p).active = [ticket |-> my[p], state |-> "held"]
  BY <1>1 DEF Granted, Without, Record
<1>3. [ticket |-> my[p], state |-> "releasing"] \in Active
  BY DEF Active
<1>4. RolledBack(p) = [Granted(p) EXCEPT !.active = [@ EXCEPT !.state = "releasing"]]
  BY DEF RolledBack
<1>5. [Granted(p).active EXCEPT !.state = "releasing"] = [ticket |-> my[p], state |-> "releasing"]
  BY <1>2
<1>6. RolledBack(p) \in Record /\ RolledBack(p).active = [ticket |-> my[p], state |-> "releasing"]
  BY <1>2, <1>3, <1>4, <1>5 DEF Record
<1>7. QED
  BY <1>2, <1>6

LEMMA ReleaseSaves ==
    ASSUME state \in Record, NEW t \in Ticket, HeldBy(t)
    PROVE  /\ Released \in Record
           /\ Released.active = [ticket |-> t, state |-> "releasing"]
<1>1. [ticket |-> t, state |-> "releasing"] \in Active
  BY DEF Active
<1>2. Released = [state EXCEPT !.active = [@ EXCEPT !.state = "releasing"]]
  BY DEF Released
<1>3. [state.active EXCEPT !.state = "releasing"] = [ticket |-> t, state |-> "releasing"]
  BY DEF HeldBy
<1>4. QED
  BY <1>1, <1>2, <1>3 DEF Record

\* What is about to be written, by the step that writes it.
LEMMA PendingSaves ==
    ASSUME NEW p \in Proc
    PROVE  /\ pc[p] = "prune" => Pending(p) = Pruned
           /\ pc[p] = "commit" => Pending(p) = Joined(p)
           /\ pc[p] = "grant" => Pending(p) = Granted(p)
           /\ pc[p] = "rollback" => Pending(p) = RolledBack(p)
           /\ pc[p] = "unqueue" => Pending(p) = Unqueued(p)
           /\ pc[p] = "ack_save" => Pending(p) = Released
           /\ pc[p] \notin {"prune", "commit", "grant", "rollback", "unqueue", "ack_save"}
                => Pending(p) = state
BY DEF Pending

\* The grant on record changes in three saves only, and each names its own.
LEMMA PendingActive ==
    ASSUME TypeOK, RequestsNamed, LeaseIsHeld, NEW p \in Proc, pc[p] # "idle"
    PROVE  /\ Pending(p) \in Record
           /\ pc[p] \notin {"grant", "rollback", "ack_save"} => Pending(p).active = state.active
           /\ pc[p] = "grant" => Pending(p).active = [ticket |-> my[p], state |-> "held"]
           /\ pc[p] \in {"rollback", "ack_save"}
                  => Pending(p).active = [ticket |-> my[p], state |-> "releasing"]
<1>1. state \in Record /\ my[p] \in Ticket /\ workload[p] \in Kind
  BY DEF TypeOK, RequestsNamed
<1>2. CASE pc[p] \in {"prune", "commit", "unqueue"}
  BY <1>1, <1>2, QueueSaves, PendingSaves
<1>3. CASE pc[p] \in {"grant", "rollback"}
  BY <1>1, <1>3, GrantSaves, PendingSaves
<1>4. CASE pc[p] = "ack_save"
  <2>1. HeldBy(my[p])
    BY <1>4 DEF LeaseIsHeld, Holding
  <2>2. QED
    BY <1>1, <1>4, <2>1, ReleaseSaves, PendingSaves
<1>5. CASE pc[p] \notin {"prune", "commit", "grant", "rollback", "unqueue", "ack_save"}
  BY <1>1, <1>5, PendingSaves
<1>6. QED
  BY <1>2, <1>3, <1>4, <1>5

\* A save leaves a record of the right shape; one that raises may or may not
\* have written it.
LEMMA SaveEffect ==
    ASSUME TypeOK, RequestsNamed, LeaseIsHeld, NEW p \in Proc, pc[p] # "idle",
           Save(p) \/ SaveRaises(p)
    PROVE  /\ state' \in Record
           /\ temp' \in BOOLEAN
           /\ state' = state \/ state' = Pending(p)
<1>1. Pending(p) \in Record /\ state \in Record /\ temp \in BOOLEAN
  BY PendingActive DEF TypeOK
<1>2. QED
  BY <1>1 DEF Save, SaveRaises

----
\* Type correctness, one action at a time.  Names of steps are needed wherever
\* an action moves a process, so they are expanded throughout.
LEMMA TypeStep ==
    ASSUME LeaseInv, Next
    PROVE  TypeOK'
<1> USE DEF disk, jobs, Goto, Tell, Raise, Return, TypeOK, Steps, Pass, Granting,
        Leaving, Holding, Codes
<1>a. /\ TypeOK /\ RequestsNamed /\ LeaseIsHeld
      /\ \A p \in Proc : pc[p] # "idle" => my[p] \in Ticket /\ workload[p] \in Kind
  BY DEF LeaseInv, RequestsNamed
<1>1. ASSUME NEW p \in Proc, Request(p) PROVE TypeOK'
  <2>1. requests + 1 \in Ticket /\ requests + 1 \in 0 .. MaxRequests
    BY <1>a, <1>1, Constants DEF Request, Ticket
  <2>2. QED
    BY <1>a, <1>1, <2>1 DEF Request
<1>2. ASSUME NEW p \in Proc, MissDeadline(p) PROVE TypeOK'
  BY <1>a, <1>2 DEF MissDeadline
<1>3. ASSUME NEW p \in Proc, Enter(p) PROVE TypeOK'
  BY <1>a, <1>3 DEF Enter
<1>4. ASSUME NEW p \in Proc, PruneScan(p) PROVE TypeOK'
  <2>1. Tickets(Removed) \subseteq Ticket
    BY <1>a DEF Tickets, Removed, Record, Item
  <2>2. state' \in Record /\ temp' \in BOOLEAN
    BY <1>a, <1>4, SaveEffect DEF PruneScan
  <2>3. QED
    BY <1>a, <1>4, <2>1, <2>2 DEF PruneScan
<1>5. ASSUME NEW p \in Proc, UnlinkRemoved(p) PROVE TypeOK'
  BY <1>a, <1>5 DEF UnlinkRemoved
<1>6. ASSUME NEW p \in Proc, RefuseEntries(p) PROVE TypeOK'
  BY <1>a, <1>6 DEF RefuseEntries
<1>7. ASSUME NEW p \in Proc, ListEntries(p) PROVE TypeOK'
  BY <1>a, <1>7 DEF ListEntries, Unreferenced
<1>8. ASSUME NEW p \in Proc, SweepOrphan(p) PROVE TypeOK'
  BY <1>a, <1>8 DEF SweepOrphan
<1>9. ASSUME NEW p \in Proc, EndSweep(p) PROVE TypeOK'
  BY <1>a, <1>9 DEF EndSweep
<1>10. ASSUME NEW p \in Proc, RefuseFull(p) PROVE TypeOK'
  BY <1>a, <1>10 DEF RefuseFull
<1>11. ASSUME NEW p \in Proc, CreateTicket(p) PROVE TypeOK'
  BY <1>a, <1>11 DEF CreateTicket
<1>12. ASSUME NEW p \in Proc, TicketFails(p) PROVE TypeOK'
  BY <1>a, <1>12 DEF TicketFails
<1>13. ASSUME NEW p \in Proc, CommitTicket(p) PROVE TypeOK'
  BY <1>a, <1>13, SaveEffect DEF CommitTicket
<1>14. ASSUME NEW p \in Proc, FindLost(p) PROVE TypeOK'
  BY <1>a, <1>14 DEF FindLost
<1>15. ASSUME NEW p \in Proc, RefuseLost(p) PROVE TypeOK'
  BY <1>a, <1>15 DEF RefuseLost
<1>16. ASSUME NEW p \in Proc, RefuseQuarantined(p) PROVE TypeOK'
  BY <1>a, <1>16 DEF RefuseQuarantined
<1>17. ASSUME NEW p \in Proc, StayQueued(p) PROVE TypeOK'
  BY <1>a, <1>17 DEF StayQueued
<1>18. ASSUME NEW p \in Proc, TakeResource(p) PROVE TypeOK'
  <2>1. guard' \in [Ticket -> SUBSET Holder]
    BY <1>a, <1>18 DEF TakeResource, Holder
  <2>2. QED
    BY <1>a, <1>18, <2>1 DEF TakeResource
<1>19. ASSUME NEW p \in Proc, SaveGrant(p) PROVE TypeOK'
  BY <1>a, <1>19, SaveEffect DEF SaveGrant
<1>20. ASSUME NEW p \in Proc, ReturnLease(p) PROVE TypeOK'
  BY <1>a, <1>20 DEF ReturnLease
<1>21. ASSUME NEW p \in Proc, PassRaises(p) PROVE TypeOK'
  BY <1>a, <1>21, SaveEffect DEF PassRaises
<1>22. ASSUME NEW p \in Proc, GrantRaises(p) PROVE TypeOK'
  BY <1>a, <1>22, SaveEffect DEF GrantRaises
<1>23. ASSUME NEW p \in Proc, RollBack(p) PROVE TypeOK'
  BY <1>a, <1>23, SaveEffect DEF RollBack
<1>24. ASSUME NEW p \in Proc, WithdrawEnter(p) PROVE TypeOK'
  BY <1>a, <1>24 DEF WithdrawEnter
<1>25. ASSUME NEW p \in Proc, WithdrawNothing(p) PROVE TypeOK'
  BY <1>a, <1>25 DEF WithdrawNothing
<1>26. ASSUME NEW p \in Proc, Unqueue(p) PROVE TypeOK'
  BY <1>a, <1>26, SaveEffect DEF Unqueue
<1>27. ASSUME NEW p \in Proc, UnlinkOwn(p) PROVE TypeOK'
  BY <1>a, <1>27 DEF UnlinkOwn
<1>28. ASSUME NEW p \in Proc, WithdrawRaises(p) PROVE TypeOK'
  BY <1>a, <1>28, SaveEffect DEF WithdrawRaises
<1>29. ASSUME NEW p \in Proc, CloseTicket(p) PROVE TypeOK'
  BY <1>a, <1>29 DEF CloseTicket
<1>30. ASSUME NEW p \in Proc, CheckLease(p) PROVE TypeOK'
  BY <1>a, <1>30 DEF CheckLease
<1>31. ASSUME NEW p \in Proc, StartJob(p) PROVE TypeOK'
  <2>1. guard' \in [Ticket -> SUBSET Holder]
    BY <1>a, <1>31 DEF StartJob, Holder
  <2>2. QED
    BY <1>a, <1>31, <2>1 DEF StartJob
<1>32. ASSUME NEW p \in Proc, Abandon(p) PROVE TypeOK'
  BY <1>a, <1>32 DEF Abandon
<1>33. ASSUME NEW p \in Proc, Acknowledge(p) PROVE TypeOK'
  BY <1>a, <1>33 DEF Acknowledge
<1>34. ASSUME NEW p \in Proc, AckEnter(p) PROVE TypeOK'
  BY <1>a, <1>34 DEF AckEnter
<1>35. ASSUME NEW p \in Proc, AckTimeout(p) PROVE TypeOK'
  BY <1>a, <1>35 DEF AckTimeout
<1>36. ASSUME NEW p \in Proc, AckSave(p) PROVE TypeOK'
  BY <1>a, <1>36, SaveEffect DEF AckSave
<1>37. ASSUME NEW p \in Proc, AckRaises(p) PROVE TypeOK'
  BY <1>a, <1>37, SaveEffect DEF AckRaises
<1>38. ASSUME NEW p \in Proc, AckClose(p) PROVE TypeOK'
  BY <1>a, <1>38 DEF AckClose
<1>39. ASSUME NEW p \in Proc, Cancel(p) PROVE TypeOK'
  BY <1>a, <1>39 DEF Cancel
<1>40. ASSUME NEW p \in Proc, HolderFork(p) PROVE TypeOK'
  <2>1. guard' \in [Ticket -> SUBSET Holder]
    BY <1>a, <1>40 DEF HolderFork, Holder
  <2>2. QED
    BY <1>a, <1>40, <2>1 DEF HolderFork
<1>41. ASSUME NEW p \in Proc, Expire(p) PROVE TypeOK'
  BY <1>a, <1>41 DEF Expire
<1>42. ASSUME NEW p \in Proc, Crash(p) PROVE TypeOK'
  BY <1>a, <1>42 DEF Crash
<1>43. ASSUME NEW t \in Ticket, ChildExits(t) PROVE TypeOK'
  BY <1>a, <1>43 DEF ChildExits
<1>44. ASSUME NEW t \in Ticket, JobEnds(t) PROVE TypeOK'
  BY <1>a, <1>44 DEF JobEnds
<1>45. ASSUME NEW t \in Ticket, JobLosesGuard(t) PROVE TypeOK'
  BY <1>a, <1>45 DEF JobLosesGuard
<1>46. QED
    BY <1>1, <1>2, <1>3, <1>4, <1>5, <1>6, <1>7, <1>8, <1>9, <1>10, <1>11, <1>12,
     <1>13, <1>14, <1>15, <1>16, <1>17, <1>18, <1>19, <1>20, <1>21, <1>22, <1>23,
     <1>24, <1>25, <1>26, <1>27, <1>28, <1>29, <1>30, <1>31, <1>32, <1>33, <1>34,
     <1>35, <1>36, <1>37, <1>38, <1>39, <1>40, <1>41, <1>42, <1>43, <1>44, <1>45 DEF
     Next, Acquire, Hold, Environment

----
\* A step of p that leaves every engine, guard, name and the grant on record
\* alone preserves the invariant if it goes where it may go.
LEMMA QuietStep ==
    ASSUME LeaseInv, TypeOK',
           NEW p \in Proc, pc[p] # "idle",
           NEW s \in Steps \ {"idle"}, pc' = [pc EXCEPT ![p] = s],
           UNCHANGED <<requests, my, workload, guard, running>>,
           state'.active = state.active,
           anchor' = anchor \/ anchor \in {p, None},
           s \in InRegistry => anchor' = p,
           s \in Granting \cup Holding => pc[p] \in Granting \cup Holding,
           s \in (Holding \ {"ack_close"}) \cup {"granted"} => HeldBy(my[p]),
           s \notin {"grant", "rollback"},
           s \in BeforeLease => pc[p] \in BeforeLease,
           s \in {"ack", "ack_save"} => my[p] \notin running \/ "early_ack" \in Faults
    PROVE  LeaseInv'
<1>1. /\ pc' \in [Proc -> Steps]
      /\ pc'[p] = s
      /\ \A q \in Proc : q # p => pc'[q] = pc[q]
  BY DEF LeaseInv, TypeOK
<1>2. \A t : HeldBy(t)' <=> HeldBy(t)
  BY DEF HeldBy
<1>3. RequestsNamed'
  BY <1>1 DEF LeaseInv, RequestsNamed
<1>4. NamesUnique'
  BY <1>1 DEF LeaseInv, NamesUnique
<1>5. AnchorExcludes'
  BY <1>1, Constants DEF LeaseInv, AnchorExcludes
<1>6. OneGuard'
  BY DEF LeaseInv, OneGuard
<1>7. ProviderHasGuard'
  BY <1>1 DEF LeaseInv, ProviderHasGuard
<1>8. LeaseIsHeld'
  BY <1>1, <1>2 DEF LeaseInv, LeaseIsHeld
<1>9. GrantIsNew'
  BY <1>1, <1>2 DEF LeaseInv, GrantIsNew, Quarantined
<1>10. NotStarted'
  BY <1>1 DEF LeaseInv, NotStarted
<1>11. AcknowledgedIsDone'
  BY <1>1 DEF LeaseInv, AcknowledgedIsDone
<1>12. EngineIsMarked'
  BY <1>2 DEF LeaseInv, EngineIsMarked
<1>13. QED
  BY <1>3, <1>4, <1>5, <1>6, <1>7, <1>8, <1>9, <1>10, <1>11, <1>12 DEF LeaseInv

\* A request or lease that ends closes what its process had open, and nothing
\* else: engines and forked children keep their copies of the guard.
LEMMA ReturnStep ==
    ASSUME LeaseInv, TypeOK',
           NEW p \in Proc, pc[p] # "idle", Return(p),
           \A t \in Ticket : \/ guard'[t] = guard[t]
                             \/ t = my[p] /\ guard'[t] = guard[t] \ {"provider"},
           UNCHANGED <<requests, running>>,
           state'.active = state.active,
           anchor' = anchor \/ anchor = p
    PROVE  LeaseInv'
<1>1. /\ pc'[p] = "idle"
      /\ \A q \in Proc : q # p => /\ pc'[q] = pc[q]
                                  /\ my'[q] = my[q]
                                  /\ workload'[q] = workload[q]
  BY DEF LeaseInv, TypeOK, Return, Goto
<1>2. \A t : HeldBy(t)' <=> HeldBy(t)
  BY DEF HeldBy
<1>a. "idle" \notin InRegistry \cup Granting \cup Holding \cup BeforeLease
  BY DEF InRegistry, Pass, Granting, Holding, BeforeLease
<1>3. RequestsNamed'
  BY <1>1 DEF LeaseInv, RequestsNamed
<1>4. NamesUnique'
  BY <1>1 DEF LeaseInv, NamesUnique
<1>5. AnchorExcludes'
  BY <1>1, <1>a DEF LeaseInv, AnchorExcludes
<1>6. OneGuard'
  BY DEF LeaseInv, OneGuard
<1>7. ProviderHasGuard'
  <2> SUFFICES ASSUME NEW q \in Proc, pc'[q] \in Granting \cup Holding
               PROVE  "provider" \in guard'[my'[q]]
    BY DEF ProviderHasGuard
  <2>1. q # p /\ pc[q] = pc'[q] /\ my'[q] = my[q]
    BY <1>1, <1>a
  <2>2. pc[q] # "idle"
    BY <2>1, <1>a
  <2>3. my[q] # my[p] /\ my[q] \in Ticket
    BY <2>1, <2>2 DEF LeaseInv, NamesUnique, RequestsNamed
  <2>4. QED
    BY <2>1, <2>3 DEF LeaseInv, ProviderHasGuard
<1>8. LeaseIsHeld'
  <2> SUFFICES ASSUME NEW q \in Proc, pc'[q] \in (Holding \ {"ack_close"}) \cup {"granted"}
               PROVE  HeldBy(my[q])' 
    BY DEF LeaseIsHeld
  <2>1. q # p /\ pc[q] = pc'[q] /\ my'[q] = my[q]
    BY <1>1, <1>a DEF Granting
  <2>2. QED
    BY <2>1, <1>2 DEF LeaseInv, LeaseIsHeld, HeldBy
<1>9. GrantIsNew'
  <2> SUFFICES ASSUME NEW q \in Proc
               PROVE  /\ pc'[q] = "grant" => ~Quarantined'
                      /\ pc'[q] = "rollback" => HeldBy(my[q])' \/ ~Quarantined'
    BY DEF GrantIsNew
  <2>1. CASE q = p
    BY <2>1, <1>1
  <2>2. CASE q # p
    BY <2>2, <1>1 DEF LeaseInv, GrantIsNew, Quarantined, HeldBy
  <2>3. QED
    BY <2>1, <2>2
<1>10. NotStarted'
  BY <1>1, <1>a DEF LeaseInv, NotStarted
<1>11. AcknowledgedIsDone'
  BY <1>1 DEF LeaseInv, AcknowledgedIsDone
<1>12. EngineIsMarked'
  <2> SUFFICES ASSUME NEW t \in running
               PROVE  /\ "guard_loss" \notin Faults => "job" \in guard'[t]
                      /\ "early_ack" \notin Faults => HeldBy(t)'
    BY DEF EngineIsMarked
  <2>1. t \in Ticket
    BY DEF LeaseInv, TypeOK
  <2>2. QED
    BY <2>1, <1>2 DEF LeaseInv, EngineIsMarked
<1>13. QED
  BY <1>3, <1>4, <1>5, <1>6, <1>7, <1>8, <1>9, <1>10, <1>11, <1>12 DEF LeaseInv

\* Whoever is about to write the grant on record is the only one it matters to.
LEMMA NobodyElseHolds ==
    ASSUME LeaseInv, NEW p \in Proc, pc[p] \in {"grant", "granted", "rollback", "ack_save"}
    PROVE  /\ \A q \in Proc : q # p =>
                  pc[q] \notin (Holding \ {"ack_close"}) \cup {"granted", "grant", "rollback"}
           /\ running # {} => "early_ack" \in Faults
<1>1. anchor = p /\ pc[p] # "idle"
  BY DEF LeaseInv, AnchorExcludes, InRegistry, Granting
<1>2. HeldBy(my[p]) \/ ~Quarantined
  BY DEF LeaseInv, LeaseIsHeld, GrantIsNew, Holding
<1>3. ASSUME NEW q \in Proc, q # p
      PROVE  pc[q] \notin (Holding \ {"ack_close"}) \cup {"granted", "grant", "rollback"}
  <2>1. pc[q] \notin {"granted", "grant", "rollback"}
    BY <1>1, <1>3 DEF LeaseInv, AnchorExcludes, InRegistry, Granting
  <2>2. ASSUME pc[q] \in Holding \ {"ack_close"} PROVE FALSE
    <3>1. HeldBy(my[q]) /\ pc[q] # "idle"
      BY <2>2 DEF LeaseInv, LeaseIsHeld, Holding
    <3>2. my[q] = my[p]
      BY <1>2, <3>1 DEF HeldBy, Quarantined
    <3>3. QED
      BY <1>1, <1>3, <3>1, <3>2 DEF LeaseInv, NamesUnique
  <2>3. QED
    BY <2>1, <2>2
<1>4. ASSUME NEW t \in running, "early_ack" \notin Faults PROVE FALSE
  <2>1. HeldBy(t)
    BY <1>4 DEF LeaseInv, EngineIsMarked
  <2>2. my[p] = t
    BY <1>2, <2>1 DEF HeldBy, Quarantined
  <2>3. my[p] \notin running
    BY <1>4 DEF LeaseInv, NotStarted, AcknowledgedIsDone, BeforeLease, Steps, Granting, Holding
  <2>4. QED
    BY <2>2, <2>3
<1>5. QED
  BY <1>3, <1>4

\* A step that writes the grant on record preserves the invariant whatever it
\* writes, as long as it knows what it may rely on afterwards.
LEMMA RecordStep ==
    ASSUME LeaseInv, TypeOK',
           NEW p \in Proc, pc[p] \in {"grant", "granted", "rollback", "ack_save"},
           NEW s \in {"granted", "rollback", "withdraw", "close", "ack_close"},
           pc' = [pc EXCEPT ![p] = s],
           UNCHANGED <<requests, my, workload, running>>,
           \/ guard' = guard
           \/ s = "rollback" /\ guard' = [guard EXCEPT ![my[p]] = {}],
           \/ anchor' = anchor
           \/ anchor' = None /\ s \in {"withdraw", "close", "ack_close"},
           s = "granted" => pc[p] = "grant" /\ HeldBy(my[p])',
           s = "rollback" => pc[p] \in Granting /\ (HeldBy(my[p])' \/ ~Quarantined'),
           s \in {"withdraw", "close"} => pc[p] = "rollback",
           s = "ack_close" => pc[p] = "ack_save"
    PROVE  LeaseInv'
<1>1. /\ pc'[p] = s
      /\ \A q \in Proc : q # p => pc'[q] = pc[q]
  BY DEF LeaseInv, TypeOK
<1>2. /\ anchor = p
      /\ pc[p] # "idle"
      /\ my[p] \in Ticket
      /\ \A q \in Proc : pc[q] # "idle" => my[q] \in Ticket
  BY DEF LeaseInv, RequestsNamed, AnchorExcludes, InRegistry, Granting
<1>3. RequestsNamed'
  BY <1>1, <1>2 DEF LeaseInv, RequestsNamed
<1>4. NamesUnique'
  BY <1>1, <1>2 DEF LeaseInv, NamesUnique
<1>5. AnchorExcludes'
  BY <1>1, <1>2, Constants
     DEF LeaseInv, AnchorExcludes, InRegistry, Pass, Granting
<1>6. OneGuard'
  BY <1>2 DEF LeaseInv, OneGuard, TypeOK
<1>7. ProviderHasGuard'
  <2> SUFFICES ASSUME NEW q \in Proc, pc'[q] \in Granting \cup Holding
               PROVE  "provider" \in guard'[my[q]]
    BY DEF ProviderHasGuard
  <2>1. CASE q = p
    BY <2>1, <1>1 DEF LeaseInv, ProviderHasGuard, Granting, Holding
  <2>2. CASE q # p
    <3>1. pc[q] \in Granting \cup Holding /\ pc[q] # "idle"
      BY <2>2, <1>1 DEF Granting, Holding
    <3>2. my[q] # my[p] /\ my[q] \in Ticket
      BY <3>1, <2>2, <1>2 DEF LeaseInv, NamesUnique
    <3>3. QED
      BY <3>1, <3>2 DEF LeaseInv, ProviderHasGuard, TypeOK
  <2>3. QED
    BY <2>1, <2>2
<1>8. LeaseIsHeld'
  BY <1>1, NobodyElseHolds DEF LeaseIsHeld, Holding
<1>9. GrantIsNew'
  BY <1>1, NobodyElseHolds DEF GrantIsNew
<1>10. NotStarted'
  BY <1>1 DEF LeaseInv, NotStarted, BeforeLease, Steps, Granting, Holding
<1>11. AcknowledgedIsDone'
  BY <1>1 DEF LeaseInv, AcknowledgedIsDone
<1>12. EngineIsMarked'
  <2> SUFFICES ASSUME NEW t \in running
               PROVE  "guard_loss" \notin Faults => "job" \in guard'[t]
    BY NobodyElseHolds DEF EngineIsMarked
  <2>1. t \in Ticket
    BY DEF LeaseInv, TypeOK
  <2>2. s = "rollback" => t # my[p]
    BY DEF LeaseInv, NotStarted, BeforeLease, Steps, Granting, Holding
  <2>3. QED
    BY <2>1, <2>2 DEF LeaseInv, EngineIsMarked, TypeOK
<1>13. QED
  BY <1>3, <1>4, <1>5, <1>6, <1>7, <1>8, <1>9, <1>10, <1>11, <1>12 DEF LeaseInv

\* Engines that end, and copies of the guard that come and go beside the
\* provider's own.
LEMMA GuardStep ==
    ASSUME LeaseInv, TypeOK',
           UNCHANGED <<state, anchor, requests, pc, my, workload>>,
           running' \subseteq running,
           \A t \in Ticket : /\ guard'[t] # {} => guard[t] # {}
                             /\ "provider" \in guard[t] => "provider" \in guard'[t],
           \A t \in running' :
               "job" \in guard[t] => "job" \in guard'[t] \/ "guard_loss" \in Faults
    PROVE  LeaseInv'
<1>1. RequestsNamed' /\ NamesUnique' /\ AnchorExcludes'
  BY DEF LeaseInv, RequestsNamed, NamesUnique, AnchorExcludes
<1>2. OneGuard'
  BY DEF LeaseInv, OneGuard
<1>3. ProviderHasGuard'
  <2>1. \A p \in Proc : pc[p] \in Granting \cup Holding => my[p] \in Ticket
    BY DEF LeaseInv, RequestsNamed, Granting, Holding
  <2>2. QED
    BY <2>1 DEF LeaseInv, ProviderHasGuard
<1>4. LeaseIsHeld' /\ GrantIsNew'
  BY DEF LeaseInv, LeaseIsHeld, GrantIsNew, HeldBy, Quarantined
<1>5. NotStarted' /\ AcknowledgedIsDone'
  BY DEF LeaseInv, NotStarted, AcknowledgedIsDone
<1>6. EngineIsMarked'
  BY DEF LeaseInv, EngineIsMarked, HeldBy
<1>7. QED
  BY <1>1, <1>2, <1>3, <1>4, <1>5, <1>6 DEF LeaseInv

----
\* One step per action, grouped by what they may disturb.
LEMMA LeaseInvStep ==
    ASSUME LeaseInv, Next
    PROVE  LeaseInv'
<1> USE DEF Goto, Tell, Raise, InRegistry, BeforeLease, Steps, Pass, Granting,
        Leaving, Holding, disk, jobs
<1>a. /\ TypeOK /\ RequestsNamed /\ LeaseIsHeld /\ AnchorExcludes
      /\ pc \in [Proc -> Steps]
      /\ \A p \in Proc : pc[p] # "idle" => my[p] \in Ticket /\ workload[p] \in Kind
  BY DEF LeaseInv, RequestsNamed, TypeOK
<1>t. TypeOK'
  BY TypeStep
<1>1. ASSUME NEW p \in Proc, MissDeadline(p) PROVE LeaseInv'
  <2>1. state'.active = state.active
    BY <1>1 DEF MissDeadline
  <2>2. PICK s \in {"withdraw", "close"} : pc' = [pc EXCEPT ![p] = s]
    BY <1>a, <1>1 DEF MissDeadline
  <2>3. QED
    BY <1>a, <1>t, <1>1, <2>1, <2>2, QuietStep DEF MissDeadline
<1>2. ASSUME NEW p \in Proc, Enter(p) PROVE LeaseInv'
  <2>1. state'.active = state.active
    BY <1>2 DEF Enter
  <2>2. pc' = [pc EXCEPT ![p] = "prune"]
    BY <1>a, <1>2 DEF Enter
  <2>3. QED
    BY <1>a, <1>t, <1>2, <2>1, <2>2, QuietStep DEF Enter
<1>3. ASSUME NEW p \in Proc, PruneScan(p) PROVE LeaseInv'
  <2>0. anchor = p
    BY <1>a, <1>3 DEF PruneScan, AnchorExcludes
  <2>1. state'.active = state.active
    BY <1>a, <1>3, PendingActive DEF PruneScan, Save
  <2>2. pc' = [pc EXCEPT ![p] = "unlink"]
    BY <1>a, <1>3 DEF PruneScan
  <2>3. QED
    BY <1>a, <1>t, <1>3, <2>1, <2>2, <2>0, QuietStep DEF PruneScan
<1>4. ASSUME NEW p \in Proc, UnlinkRemoved(p) PROVE LeaseInv'
  <2>0. anchor = p
    BY <1>a, <1>4 DEF UnlinkRemoved, AnchorExcludes
  <2>1. state'.active = state.active
    BY <1>4 DEF UnlinkRemoved
  <2>2. pc' = [pc EXCEPT ![p] = "unlink"]
    BY <1>a, <1>4 DEF UnlinkRemoved
  <2>3. QED
    BY <1>a, <1>t, <1>4, <2>1, <2>2, <2>0, QuietStep DEF UnlinkRemoved
<1>5. ASSUME NEW p \in Proc, RefuseEntries(p) PROVE LeaseInv'
  <2>0. anchor = p
    BY <1>a, <1>5 DEF RefuseEntries, AnchorExcludes
  <2>1. state'.active = state.active
    BY <1>5 DEF RefuseEntries
  <2>2. PICK s \in {"withdraw", "close"} : pc' = [pc EXCEPT ![p] = s]
    BY <1>a, <1>5 DEF RefuseEntries
  <2>3. QED
    BY <1>a, <1>t, <1>5, <2>1, <2>2, <2>0, QuietStep DEF RefuseEntries
<1>6. ASSUME NEW p \in Proc, ListEntries(p) PROVE LeaseInv'
  <2>0. anchor = p
    BY <1>a, <1>6 DEF ListEntries, AnchorExcludes
  <2>1. state'.active = state.active
    BY <1>6 DEF ListEntries
  <2>2. pc' = [pc EXCEPT ![p] = "sweep"]
    BY <1>a, <1>6 DEF ListEntries
  <2>3. QED
    BY <1>a, <1>t, <1>6, <2>1, <2>2, <2>0, QuietStep DEF ListEntries
<1>7. ASSUME NEW p \in Proc, SweepOrphan(p) PROVE LeaseInv'
  <2>0. anchor = p
    BY <1>a, <1>7 DEF SweepOrphan, AnchorExcludes
  <2>1. state'.active = state.active
    BY <1>7 DEF SweepOrphan
  <2>2. pc' = [pc EXCEPT ![p] = "sweep"]
    BY <1>a, <1>7 DEF SweepOrphan
  <2>3. QED
    BY <1>a, <1>t, <1>7, <2>1, <2>2, <2>0, QuietStep DEF SweepOrphan
<1>8. ASSUME NEW p \in Proc, EndSweep(p) PROVE LeaseInv'
  <2>0. anchor = p
    BY <1>a, <1>8 DEF EndSweep, AnchorExcludes
  <2>1. state'.active = state.active
    BY <1>8 DEF EndSweep
  <2>2. PICK s \in {"attempt", "join"} : pc' = [pc EXCEPT ![p] = s]
    BY <1>a, <1>8 DEF EndSweep
  <2>3. QED
    BY <1>a, <1>t, <1>8, <2>1, <2>2, <2>0, QuietStep DEF EndSweep
<1>9. ASSUME NEW p \in Proc, RefuseFull(p) PROVE LeaseInv'
  <2>0. anchor = p
    BY <1>a, <1>9 DEF RefuseFull, AnchorExcludes
  <2>1. state'.active = state.active
    BY <1>9 DEF RefuseFull
  <2>2. PICK s \in {"withdraw", "close"} : pc' = [pc EXCEPT ![p] = s]
    BY <1>a, <1>9 DEF RefuseFull
  <2>3. QED
    BY <1>a, <1>t, <1>9, <2>1, <2>2, <2>0, QuietStep DEF RefuseFull
<1>10. ASSUME NEW p \in Proc, CreateTicket(p) PROVE LeaseInv'
  <2>0. anchor = p
    BY <1>a, <1>10 DEF CreateTicket, AnchorExcludes
  <2>1. state'.active = state.active
    BY <1>10 DEF CreateTicket
  <2>2. pc' = [pc EXCEPT ![p] = "commit"]
    BY <1>a, <1>10 DEF CreateTicket
  <2>3. QED
    BY <1>a, <1>t, <1>10, <2>1, <2>2, <2>0, QuietStep DEF CreateTicket
<1>11. ASSUME NEW p \in Proc, TicketFails(p) PROVE LeaseInv'
  <2>0. anchor = p
    BY <1>a, <1>11 DEF TicketFails, AnchorExcludes
  <2>1. state'.active = state.active
    BY <1>11 DEF TicketFails
  <2>2. pc' = [pc EXCEPT ![p] = "close"]
    BY <1>a, <1>11 DEF TicketFails
  <2>3. QED
    BY <1>a, <1>t, <1>11, <2>1, <2>2, <2>0, QuietStep DEF TicketFails
<1>12. ASSUME NEW p \in Proc, CommitTicket(p) PROVE LeaseInv'
  <2>0. anchor = p
    BY <1>a, <1>12 DEF CommitTicket, AnchorExcludes
  <2>1. state'.active = state.active
    BY <1>a, <1>12, PendingActive DEF CommitTicket, Save
  <2>2. pc' = [pc EXCEPT ![p] = "attempt"]
    BY <1>a, <1>12 DEF CommitTicket
  <2>3. QED
    BY <1>a, <1>t, <1>12, <2>1, <2>2, <2>0, QuietStep DEF CommitTicket
<1>13. ASSUME NEW p \in Proc, FindLost(p) PROVE LeaseInv'
  <2>0. anchor = p
    BY <1>a, <1>13 DEF FindLost, AnchorExcludes
  <2>1. state'.active = state.active
    BY <1>13 DEF FindLost
  <2>2. pc' = [pc EXCEPT ![p] = "lost"]
    BY <1>a, <1>13 DEF FindLost
  <2>3. QED
    BY <1>a, <1>t, <1>13, <2>1, <2>2, <2>0, QuietStep DEF FindLost
<1>14. ASSUME NEW p \in Proc, RefuseLost(p) PROVE LeaseInv'
  <2>1. state'.active = state.active
    BY <1>14 DEF RefuseLost
  <2>2. PICK s \in {"withdraw", "close"} : pc' = [pc EXCEPT ![p] = s]
    BY <1>a, <1>14 DEF RefuseLost
  <2>3. QED
    BY <1>a, <1>t, <1>14, <2>1, <2>2, QuietStep DEF RefuseLost
<1>15. ASSUME NEW p \in Proc, RefuseQuarantined(p) PROVE LeaseInv'
  <2>0. anchor = p
    BY <1>a, <1>15 DEF RefuseQuarantined, AnchorExcludes
  <2>1. state'.active = state.active
    BY <1>15 DEF RefuseQuarantined
  <2>2. PICK s \in {"withdraw", "close"} : pc' = [pc EXCEPT ![p] = s]
    BY <1>a, <1>15 DEF RefuseQuarantined
  <2>3. QED
    BY <1>a, <1>t, <1>15, <2>1, <2>2, <2>0, QuietStep DEF RefuseQuarantined
<1>16. ASSUME NEW p \in Proc, StayQueued(p) PROVE LeaseInv'
  <2>0. anchor = p
    BY <1>a, <1>16 DEF StayQueued, AnchorExcludes
  <2>1. state'.active = state.active
    BY <1>16 DEF StayQueued
  <2>2. pc' = [pc EXCEPT ![p] = "poll"]
    BY <1>a, <1>16 DEF StayQueued
  <2>3. QED
    BY <1>a, <1>t, <1>16, <2>1, <2>2, <2>0, QuietStep DEF StayQueued
<1>17. ASSUME NEW p \in Proc, ReturnLease(p) PROVE LeaseInv'
  <2>0. anchor = p
    BY <1>a, <1>17 DEF ReturnLease, AnchorExcludes
  <2>h. HeldBy(my[p])
    BY <1>a, <1>17 DEF ReturnLease, LeaseIsHeld
  <2>1. state'.active = state.active
    BY <1>17 DEF ReturnLease
  <2>2. pc' = [pc EXCEPT ![p] = "holding"]
    BY <1>a, <1>17 DEF ReturnLease
  <2>3. QED
    BY <1>a, <1>t, <1>17, <2>1, <2>2, <2>0, <2>h, QuietStep DEF ReturnLease
<1>18. ASSUME NEW p \in Proc, PassRaises(p) PROVE LeaseInv'
  <2>0. anchor \in {p, None}
    BY <1>a, <1>18 DEF PassRaises, AnchorExcludes
  <2>1. state'.active = state.active
    BY <1>a, <1>18, SaveEffect, PendingActive DEF PassRaises
  <2>2. PICK s \in {"withdraw", "close"} : pc' = [pc EXCEPT ![p] = s]
    BY <1>a, <1>18 DEF PassRaises
  <2>3. QED
    BY <1>a, <1>t, <1>18, <2>1, <2>2, <2>0, QuietStep DEF PassRaises
<1>19. ASSUME NEW p \in Proc, WithdrawEnter(p) PROVE LeaseInv'
  <2>1. state'.active = state.active
    BY <1>19 DEF WithdrawEnter
  <2>2. pc' = [pc EXCEPT ![p] = "unqueue"]
    BY <1>a, <1>19 DEF WithdrawEnter
  <2>3. QED
    BY <1>a, <1>t, <1>19, <2>1, <2>2, QuietStep DEF WithdrawEnter
<1>20. ASSUME NEW p \in Proc, WithdrawNothing(p) PROVE LeaseInv'
  <2>1. state'.active = state.active
    BY <1>20 DEF WithdrawNothing
  <2>2. pc' = [pc EXCEPT ![p] = "close"]
    BY <1>a, <1>20 DEF WithdrawNothing
  <2>3. QED
    BY <1>a, <1>t, <1>20, <2>1, <2>2, QuietStep DEF WithdrawNothing
<1>21. ASSUME NEW p \in Proc, Unqueue(p) PROVE LeaseInv'
  <2>0. anchor = p
    BY <1>a, <1>21 DEF Unqueue, AnchorExcludes
  <2>1. state'.active = state.active
    BY <1>a, <1>21, PendingActive DEF Unqueue, Save
  <2>2. pc' = [pc EXCEPT ![p] = "unqueued"]
    BY <1>a, <1>21 DEF Unqueue
  <2>3. QED
    BY <1>a, <1>t, <1>21, <2>1, <2>2, <2>0, QuietStep DEF Unqueue
<1>22. ASSUME NEW p \in Proc, UnlinkOwn(p) PROVE LeaseInv'
  <2>0. anchor = p
    BY <1>a, <1>22 DEF UnlinkOwn, AnchorExcludes
  <2>1. state'.active = state.active
    BY <1>22 DEF UnlinkOwn
  <2>2. pc' = [pc EXCEPT ![p] = "close"]
    BY <1>a, <1>22 DEF UnlinkOwn
  <2>3. QED
    BY <1>a, <1>t, <1>22, <2>1, <2>2, <2>0, QuietStep DEF UnlinkOwn
<1>23. ASSUME NEW p \in Proc, WithdrawRaises(p) PROVE LeaseInv'
  <2>0. anchor = p
    BY <1>a, <1>23 DEF WithdrawRaises, AnchorExcludes
  <2>1. state'.active = state.active
    BY <1>a, <1>23, SaveEffect, PendingActive DEF WithdrawRaises
  <2>2. pc' = [pc EXCEPT ![p] = "close"]
    BY <1>a, <1>23 DEF WithdrawRaises
  <2>3. QED
    BY <1>a, <1>t, <1>23, <2>1, <2>2, <2>0, QuietStep DEF WithdrawRaises
<1>24. ASSUME NEW p \in Proc, CheckLease(p) PROVE LeaseInv'
  <2>h. HeldBy(my[p])
    BY <1>a, <1>24 DEF CheckLease, LeaseIsHeld
  <2>1. state'.active = state.active
    BY <1>24 DEF CheckLease
  <2>2. PICK s \in {"checked", "holding"} : pc' = [pc EXCEPT ![p] = s]
    BY <1>a, <1>24 DEF CheckLease
  <2>3. QED
    BY <1>a, <1>t, <1>24, <2>1, <2>2, <2>h, QuietStep DEF CheckLease
<1>25. ASSUME NEW p \in Proc, Acknowledge(p) PROVE LeaseInv'
  <2>h. HeldBy(my[p])
    BY <1>a, <1>25 DEF Acknowledge, LeaseIsHeld
  <2>1. state'.active = state.active
    BY <1>25 DEF Acknowledge
  <2>2. pc' = [pc EXCEPT ![p] = "ack"]
    BY <1>a, <1>25 DEF Acknowledge
  <2>3. QED
    BY <1>a, <1>t, <1>25, <2>1, <2>2, <2>h, QuietStep DEF Acknowledge
<1>26. ASSUME NEW p \in Proc, AckEnter(p) PROVE LeaseInv'
  <2>h. HeldBy(my[p]) /\ (my[p] \notin running \/ "early_ack" \in Faults)
    BY <1>a, <1>26 DEF AckEnter, LeaseInv, LeaseIsHeld, AcknowledgedIsDone
  <2>1. state'.active = state.active
    BY <1>26 DEF AckEnter
  <2>2. PICK s \in {"ack_save", "ack_close"} : pc' = [pc EXCEPT ![p] = s]
    BY <1>a, <1>26 DEF AckEnter
  <2>3. QED
    BY <1>a, <1>t, <1>26, <2>1, <2>2, <2>h, QuietStep DEF AckEnter
<1>27. ASSUME NEW p \in Proc, AckTimeout(p) PROVE LeaseInv'
  <2>h. HeldBy(my[p])
    BY <1>a, <1>27 DEF AckTimeout, LeaseIsHeld
  <2>1. state'.active = state.active
    BY <1>27 DEF AckTimeout
  <2>2. pc' = [pc EXCEPT ![p] = "holding"]
    BY <1>a, <1>27 DEF AckTimeout
  <2>3. QED
    BY <1>a, <1>t, <1>27, <2>1, <2>2, <2>h, QuietStep DEF AckTimeout
<1>28. ASSUME NEW p \in Proc, Cancel(p) PROVE LeaseInv'
  <2>1. state'.active = state.active
    BY <1>28 DEF Cancel
  <2>2. PICK s \in {"withdraw", "close"} : pc' = [pc EXCEPT ![p] = s]
    BY <1>a, <1>28 DEF Cancel
  <2>3. QED
    BY <1>a, <1>t, <1>28, <2>1, <2>2, QuietStep DEF Cancel
<1>29. ASSUME NEW p \in Proc, Expire(p) PROVE LeaseInv'
  <2>1. UNCHANGED <<state, anchor, requests, pc, my, workload, guard, running>>
    BY <1>29 DEF Expire
  <2>2. QED
    BY <1>t, <2>1, GuardStep
<1>30. ASSUME NEW p \in Proc, CloseTicket(p) PROVE LeaseInv'
  <2>1. \A t \in Ticket : \/ guard'[t] = guard[t]
                          \/ t = my[p] /\ guard'[t] = guard[t] \ {"provider"}
    BY <1>a, <1>30 DEF CloseTicket, TypeOK
  <2>2. pc[p] # "idle" /\ Return(p) /\ (anchor' = anchor \/ anchor = p)
    BY <1>30 DEF CloseTicket
  <2>3. UNCHANGED <<requests, running>> /\ state'.active = state.active
    BY <1>30 DEF CloseTicket
  <2>4. QED
    BY <1>t, <2>1, <2>2, <2>3, ReturnStep
<1>31. ASSUME NEW p \in Proc, Abandon(p) PROVE LeaseInv'
  <2>1. \A t \in Ticket : \/ guard'[t] = guard[t]
                          \/ t = my[p] /\ guard'[t] = guard[t] \ {"provider"}
    BY <1>a, <1>31 DEF Abandon, TypeOK
  <2>2. pc[p] # "idle" /\ Return(p) /\ (anchor' = anchor \/ anchor = p)
    BY <1>31 DEF Abandon
  <2>3. UNCHANGED <<requests, running>> /\ state'.active = state.active
    BY <1>31 DEF Abandon
  <2>4. QED
    BY <1>t, <2>1, <2>2, <2>3, ReturnStep
<1>32. ASSUME NEW p \in Proc, AckClose(p) PROVE LeaseInv'
  <2>1. \A t \in Ticket : \/ guard'[t] = guard[t]
                          \/ t = my[p] /\ guard'[t] = guard[t] \ {"provider"}
    BY <1>a, <1>32 DEF AckClose, TypeOK
  <2>2. pc[p] # "idle" /\ Return(p) /\ (anchor' = anchor \/ anchor = p)
    BY <1>32 DEF AckClose
  <2>3. UNCHANGED <<requests, running>> /\ state'.active = state.active
    BY <1>32 DEF AckClose
  <2>4. QED
    BY <1>t, <2>1, <2>2, <2>3, ReturnStep
<1>33. ASSUME NEW p \in Proc, Crash(p) PROVE LeaseInv'
  <2>1. \A t \in Ticket : \/ guard'[t] = guard[t]
                          \/ t = my[p] /\ guard'[t] = guard[t] \ {"provider"}
    BY <1>a, <1>33 DEF Crash, TypeOK
  <2>2. pc[p] # "idle" /\ Return(p) /\ (anchor' = anchor \/ anchor = p)
    BY <1>33 DEF Crash
  <2>3. UNCHANGED <<requests, running>> /\ state'.active = state.active
    BY <1>33 DEF Crash
  <2>4. QED
    BY <1>t, <2>1, <2>2, <2>3, ReturnStep
<1>34. ASSUME NEW p \in Proc, HolderFork(p) PROVE LeaseInv'
  <2>1. my[p] \in Ticket /\ guard[my[p]] # {}
    BY <1>a, <1>34 DEF HolderFork, LeaseInv, ProviderHasGuard
  <2>2. QED
    BY <1>a, <1>t, <1>34, <2>1, GuardStep DEF HolderFork, TypeOK
<1>35. ASSUME NEW t \in Ticket, ChildExits(t) PROVE LeaseInv'
  BY <1>a, <1>t, <1>35, GuardStep DEF ChildExits, TypeOK
<1>36. ASSUME NEW t \in Ticket, JobEnds(t) PROVE LeaseInv'
  BY <1>a, <1>t, <1>36, GuardStep DEF JobEnds, TypeOK
<1>37. ASSUME NEW t \in Ticket, JobLosesGuard(t) PROVE LeaseInv'
  BY <1>a, <1>t, <1>37, GuardStep DEF JobLosesGuard, TypeOK
<1>38. ASSUME NEW p \in Proc, SaveGrant(p) PROVE LeaseInv'
  <2>1. state'.active = [ticket |-> my[p], state |-> "held"]
    BY <1>a, <1>38, PendingActive DEF SaveGrant, Save
  <2>2. pc[p] = "grant" /\ pc' = [pc EXCEPT ![p] = "granted"] /\ HeldBy(my[p])'
    BY <1>38, <2>1 DEF SaveGrant, HeldBy
  <2>3. QED
    BY <1>t, <1>38, <2>2, RecordStep DEF SaveGrant
<1>39. ASSUME NEW p \in Proc, GrantRaises(p) PROVE LeaseInv'
  <2>1. HeldBy(my[p])' \/ ~Quarantined'
    <3>1. CASE pc[p] = "grant"
      BY <1>a, <1>39, <3>1, SaveEffect, PendingActive
         DEF GrantRaises, LeaseInv, GrantIsNew, HeldBy, Quarantined
    <3>2. CASE pc[p] = "granted"
      BY <1>a, <1>39, <3>2, SaveEffect, PendingActive DEF GrantRaises, LeaseIsHeld, HeldBy
    <3>3. QED
      BY <1>39, <3>1, <3>2 DEF GrantRaises
  <2>2. QED
    BY <1>t, <1>39, <2>1, RecordStep DEF GrantRaises
<1>40. ASSUME NEW p \in Proc, RollBack(p) PROVE LeaseInv'
  BY <1>t, <1>40, RecordStep DEF RollBack
<1>41. ASSUME NEW p \in Proc, AckSave(p) PROVE LeaseInv'
  BY <1>t, <1>41, RecordStep DEF AckSave
<1>42. ASSUME NEW p \in Proc, AckRaises(p) PROVE LeaseInv'
  <2>1. CASE pc[p] = "ack_save"
    <3>1. anchor = p
      BY <1>a, <2>1 DEF AnchorExcludes
    <3>2. QED
      BY <1>t, <1>42, <2>1, <3>1, RecordStep DEF AckRaises
  <2>2. CASE pc[p] = "ack"
    <3>1. state'.active = state.active
      BY <1>a, <1>42, <2>2, SaveEffect, PendingActive DEF AckRaises
    <3>2. QED
      BY <1>t, <1>42, <2>2, <3>1, QuietStep DEF AckRaises
  <2>3. QED
    BY <1>42, <2>1, <2>2 DEF AckRaises
<1>43. ASSUME NEW p \in Proc, Request(p) PROVE LeaseInv'
  <2>1. /\ pc'[p] = "poll" /\ my'[p] = requests + 1 /\ workload'[p] \in Kind
        /\ \A q \in Proc : q # p => /\ pc'[q] = pc[q]
                                    /\ my'[q] = my[q]
                                    /\ workload'[q] = workload[q]
    BY <1>a, <1>43 DEF Request, TypeOK
  <2>2. requests \in Nat /\ requests + 1 \in Ticket
    BY <1>a, <1>43, Constants DEF Request, TypeOK, Ticket
  <2>3. \A t : HeldBy(t)' <=> HeldBy(t)
    BY <1>43 DEF Request, HeldBy
  <2>4. \A q \in Proc : pc[q] # "idle" => my[q] \in Ticket /\ my[q] <= requests
    BY DEF LeaseInv, RequestsNamed
  <2>5. \A t \in Ticket : t \in Nat
    BY DEF Ticket
  <2>6. RequestsNamed'
    BY <1>43, <2>1, <2>2, <2>5 DEF Request, LeaseInv, RequestsNamed
  <2>7. NamesUnique'
    BY <2>1, <2>2, <2>4, <2>5 DEF LeaseInv, NamesUnique
  <2>8. AnchorExcludes' /\ OneGuard'
    BY <1>43, <2>1 DEF Request, LeaseInv, AnchorExcludes, OneGuard
  <2>9. ProviderHasGuard' /\ LeaseIsHeld'
    BY <1>43, <2>1, <2>3 DEF Request, LeaseInv, ProviderHasGuard, LeaseIsHeld, HeldBy
  <2>10. GrantIsNew'
    BY <1>43, <2>1, <2>3 DEF Request, LeaseInv, GrantIsNew, HeldBy, Quarantined
  <2>11. NotStarted'
    <3>1. \A t \in running : t \in Nat /\ t <= requests
      BY <1>a, <2>5 DEF LeaseInv, NotStarted, TypeOK
    <3>2. requests + 1 \notin running
      BY <3>1, <2>2
    <3>3. QED
      BY <1>43, <2>1, <2>2, <3>1, <3>2 DEF Request, LeaseInv, NotStarted
  <2>12. AcknowledgedIsDone' /\ EngineIsMarked'
    BY <1>43, <2>1, <2>3 DEF Request, LeaseInv, AcknowledgedIsDone, EngineIsMarked
  <2>13. QED
    BY <1>t, <2>6, <2>7, <2>8, <2>9, <2>10, <2>11, <2>12 DEF LeaseInv
<1>44. ASSUME NEW p \in Proc, TakeResource(p) PROVE LeaseInv'
  <2>1. /\ pc'[p] = "grant"
        /\ \A q \in Proc : q # p => pc'[q] = pc[q]
        /\ guard'[my[p]] = {"provider"}
        /\ \A t \in Ticket : guard[t] = {}
        /\ \A t \in Ticket : t # my[p] => guard'[t] = {}
    BY <1>a, <1>44 DEF TakeResource, TypeOK, Available
  <2>2. \A t : HeldBy(t)' <=> HeldBy(t)
    BY <1>44 DEF TakeResource, HeldBy
  <2>3. RequestsNamed' /\ NamesUnique' /\ AnchorExcludes'
    BY <1>a, <1>44, <2>1
       DEF TakeResource, LeaseInv, RequestsNamed, NamesUnique, AnchorExcludes
  <2>4. OneGuard'
    BY <2>1 DEF OneGuard
  <2>5. \A q \in Proc : pc[q] \notin Granting \cup Holding
    <3>1. \A q \in Proc : pc[q] \in Granting \cup Holding => guard[my[q]] # {} /\ my[q] \in Ticket
      BY <1>a DEF LeaseInv, ProviderHasGuard
    <3>2. QED
      BY <2>1, <3>1
  <2>6. ProviderHasGuard'
    BY <1>44, <2>1, <2>5 DEF TakeResource, ProviderHasGuard
  <2>7. LeaseIsHeld'
    BY <2>1, <2>5 DEF LeaseIsHeld
  <2>8. GrantIsNew'
    BY <1>44, <2>1, <2>2 DEF TakeResource, LeaseInv, GrantIsNew, HeldBy, Quarantined
  <2>9. NotStarted' /\ AcknowledgedIsDone'
    BY <1>44, <2>1 DEF TakeResource, LeaseInv, NotStarted, AcknowledgedIsDone
  <2>10. EngineIsMarked'
    <3>1. \A t \in running : t \in Ticket /\ guard[t] = {}
      BY <1>a, <2>1 DEF TypeOK
    <3>2. QED
      BY <1>44, <2>2, <3>1 DEF TakeResource, LeaseInv, EngineIsMarked
  <2>11. QED
    BY <1>t, <2>3, <2>4, <2>6, <2>7, <2>8, <2>9, <2>10 DEF LeaseInv
<1>45. ASSUME NEW p \in Proc, StartJob(p) PROVE LeaseInv'
  <2>1. /\ pc[p] = "checked" /\ pc'[p] = "working" /\ my[p] \in Ticket
        /\ \A q \in Proc : q # p => pc'[q] = pc[q]
        /\ guard'[my[p]] = guard[my[p]] \cup {"job"}
        /\ \A t \in Ticket : t # my[p] => guard'[t] = guard[t]
    BY <1>a, <1>45 DEF StartJob, TypeOK
  <2>2. \A t : HeldBy(t)' <=> HeldBy(t)
    BY <1>45 DEF StartJob, HeldBy
  <2>3. HeldBy(my[p]) /\ "provider" \in guard[my[p]]
    BY <2>1 DEF LeaseInv, LeaseIsHeld, ProviderHasGuard
  <2>4. RequestsNamed' /\ NamesUnique' /\ AnchorExcludes'
    BY <1>a, <1>45, <2>1
       DEF StartJob, LeaseInv, RequestsNamed, NamesUnique, AnchorExcludes
  <2>5. OneGuard'
    BY <2>1, <2>3 DEF LeaseInv, OneGuard
  <2>6. ProviderHasGuard'
    BY <1>a, <1>45, <2>1 DEF StartJob, LeaseInv, ProviderHasGuard
  <2>7. LeaseIsHeld' /\ GrantIsNew'
    BY <1>45, <2>1, <2>2, <2>3
       DEF StartJob, LeaseInv, LeaseIsHeld, GrantIsNew, HeldBy, Quarantined
  <2>8. NotStarted' /\ AcknowledgedIsDone'
    <3>1. \A q \in Proc : q # p /\ pc[q] # "idle" => my[q] # my[p]
      BY <2>1 DEF LeaseInv, NamesUnique
    <3>2. my[p] <= requests
      BY <2>1 DEF LeaseInv, RequestsNamed
    <3>3. QED
      BY <1>45, <2>1, <3>1, <3>2 DEF StartJob, LeaseInv, NotStarted, AcknowledgedIsDone
  <2>9. EngineIsMarked'
    <3>1. running \subseteq Ticket
      BY <1>a DEF TypeOK
    <3>2. QED
      BY <1>45, <2>1, <2>2, <2>3, <3>1 DEF StartJob, LeaseInv, EngineIsMarked
  <2>10. QED
    BY <1>t, <2>4, <2>5, <2>6, <2>7, <2>8, <2>9 DEF LeaseInv
<1>46. QED
  BY <1>1, <1>2, <1>3, <1>4, <1>5, <1>6, <1>7, <1>8, <1>9, <1>10, <1>11, <1>12,
     <1>13, <1>14, <1>15, <1>16, <1>17, <1>18, <1>19, <1>20, <1>21, <1>22, <1>23,
     <1>24, <1>25, <1>26, <1>27, <1>28, <1>29, <1>30, <1>31, <1>32, <1>33, <1>34,
     <1>35, <1>36, <1>37, <1>38, <1>39, <1>40, <1>41, <1>42, <1>43, <1>44, <1>45 DEF
     Next, Acquire, Hold, Environment

----
\* The theorems.

LEMMA InitLeaseInv == Init => LeaseInv
<1> SUFFICES ASSUME Init PROVE LeaseInv
  OBVIOUS
<1>1. /\ state.active = NoGrant
      /\ \A p \in Proc : pc[p] = "idle"
      /\ \A t \in Ticket : guard[t] = {}
      /\ running = {}
  BY DEF Init
<1>2. "idle" \notin InRegistry \cup Granting \cup Holding \cup BeforeLease
  BY DEF InRegistry, Pass, Granting, Holding, BeforeLease
<1>3. TypeOK
  <2>1. state \in Record
    BY Constants DEF Init, Record
  <2>2. "idle" \in Steps /\ "none" \in Codes /\ NoTicket \in Ticket \cup {NoTicket}
    BY DEF Steps, Codes
  <2>3. /\ files \subseteq Ticket /\ todo \subseteq Ticket
        /\ open \subseteq Ticket /\ running \subseteq Ticket /\ late \subseteq Proc
        /\ temp \in BOOLEAN
        /\ anchor \in Proc \cup {None}
    BY DEF Init
  <2>4. requests \in 0 .. MaxRequests
    BY Constants DEF Init
  <2>5. /\ pc \in [Proc -> Steps]
        /\ my \in [Proc -> Ticket \cup {NoTicket}]
        /\ workload \in [Proc -> Kind \cup {NoKind}]
        /\ code \in [Proc -> Codes]
        /\ guard \in [Ticket -> SUBSET Holder]
    BY <2>2 DEF Init
  <2>6. QED
    BY <2>1, <2>3, <2>4, <2>5 DEF TypeOK
<1>4. RequestsNamed /\ NamesUnique /\ AnchorExcludes /\ ProviderHasGuard
  BY <1>1, <1>2 DEF RequestsNamed, NamesUnique, AnchorExcludes, ProviderHasGuard
<1>5. OneGuard /\ AcknowledgedIsDone /\ EngineIsMarked
  BY <1>1 DEF OneGuard, AcknowledgedIsDone, EngineIsMarked
<1>6. LeaseIsHeld /\ GrantIsNew /\ NotStarted
  BY <1>1, <1>2 DEF LeaseIsHeld, GrantIsNew, NotStarted
<1>7. QED
  BY <1>3, <1>4, <1>5, <1>6 DEF LeaseInv

\* The invariant holds in every reachable state, for any faults.
THEOREM LeaseInvariant == Spec => []LeaseInv
<1>1. LeaseInv /\ UNCHANGED vars => LeaseInv'
  <2> SUFFICES ASSUME LeaseInv, UNCHANGED vars PROVE LeaseInv'
    OBVIOUS
  <2>1. UNCHANGED <<state, anchor, requests, pc, my, workload, guard, running>>
    BY DEF vars
  <2>2. TypeOK'
    BY DEF vars, LeaseInv, TypeOK
  <2>3. QED
    BY <2>1, <2>2, GuardStep
<1>2. LeaseInv /\ [Next]_vars => LeaseInv'
  BY <1>1, LeaseInvStep
<1>3. QED
  BY <1>2, InitLeaseInv, PTL DEF Spec

\* Every variable keeps its type: no handler writes a record, step or code
\* outside the sets the other handlers are written for.
THEOREM TypeCorrect == Spec => []TypeOK
<1>1. LeaseInv => TypeOK
  BY DEF LeaseInv
<1>2. QED
  BY <1>1, LeaseInvariant, PTL

\* At most one engine runs, whatever crashes, forks, stalls and I/O errors do,
\* unless engines may lose the guard and providers acknowledge too early, both:
\* the guard and the record are each enough.
THEOREM ExclusiveAlways ==
    ASSUME ~({"guard_loss", "early_ack"} \subseteq Faults)
    PROVE  Spec => []Exclusive
<1>1. LeaseInv => Exclusive
  <2> SUFFICES ASSUME LeaseInv PROVE Exclusive
    OBVIOUS
  <2>1. running \subseteq Ticket
    BY DEF LeaseInv, TypeOK
  <2>2. ASSUME NEW t \in running, NEW u \in running PROVE t = u
    <3>1. CASE "guard_loss" \notin Faults
      BY <2>1, <3>1 DEF LeaseInv, EngineIsMarked, OneGuard
    <3>2. CASE "early_ack" \notin Faults
      <4>1. HeldBy(t) /\ HeldBy(u)
        BY <2>2, <3>2 DEF LeaseInv, EngineIsMarked
      <4>2. state.active.ticket = t /\ state.active.ticket = u
        BY <4>1 DEF HeldBy
      <4>3. QED
        BY <4>2
    <3>3. QED
      BY <3>1, <3>2
  <2>3. CASE running = {}
    BY <2>3, FS_EmptySet DEF Exclusive
  <2>4. CASE running # {}
    <3>1. PICK t \in running : TRUE
      BY <2>4
    <3>2. running = {t}
      BY <2>2
    <3>3. QED
      <4>1. Cardinality({t}) = 1
        BY FS_Singleton
      <4>2. QED
        BY <3>2, <4>1 DEF Exclusive
  <2>5. QED
    BY <2>3, <2>4
<1>2. QED
  BY <1>1, LeaseInvariant, PTL

\* A lease that is not closed is the one on record, and the only one.
THEOREM LeaseIsCurrentAlways == Spec => []LeaseIsCurrent
<1>1. LeaseInv => LeaseIsCurrent
  <2> SUFFICES ASSUME LeaseInv, NEW p \in Proc, NEW q \in Proc,
                      pc[p] \in {"holding", "checked", "working", "ack"}
               PROVE  Owned(p) /\ (pc[q] \in Holding => p = q)
    BY DEF LeaseIsCurrent
  <2>1. pc[p] \in Holding \ {"ack_close"}
    BY DEF Holding
  <2>2. Owned(p)
    BY <2>1 DEF LeaseInv, LeaseIsHeld, Owned
  <2>3. ASSUME pc[q] \in Holding PROVE p = q
    <3>1. pc[p] # "idle" /\ pc[q] # "idle"
      BY <2>1, <2>3 DEF Holding
    <3>2. my[p] \in Ticket /\ my[q] \in Ticket
      BY <3>1 DEF LeaseInv, RequestsNamed
    <3>3. guard[my[p]] # {} /\ guard[my[q]] # {}
      BY <2>1, <2>3 DEF LeaseInv, ProviderHasGuard
    <3>4. QED
      BY <3>1, <3>2, <3>3 DEF LeaseInv, OneGuard, NamesUnique
  <2>4. QED
    BY <2>2, <2>3
<1>2. QED
  BY <1>1, LeaseInvariant, PTL

----
\* Who writes the grant on record, and who may come to own it.
Writes(p) == SaveGrant(p) \/ GrantRaises(p) \/ RollBack(p) \/ AckSave(p) \/ AckRaises(p)

Owner == Holding \cup {"granted", "rollback"}

\* The steps of a request that may still come to be granted.
Waiting == {"poll", "grant"} \cup Pass

LEMMA GrantEffect ==
    ASSUME LeaseInv, Next
    PROVE  /\ state'.active = state.active \/ \E p \in Proc : Writes(p)
           /\ running' = running \/ \/ \E p \in Proc : StartJob(p)
                                    \/ \E t \in Ticket : JobEnds(t)
           /\ \A q \in Proc : pc'[q] \in Owner =>
                  pc[q] \in Owner \cup {"grant"} /\ my'[q] = my[q]
           /\ \A q \in Proc : pc'[q] \in Waiting =>
                  \/ pc[q] \in Waiting /\ my'[q] = my[q]
                  \/ my'[q] = requests + 1
           /\ requests' \in {requests, requests + 1}
<1> DEFINE Effect == /\ state'.active = state.active \/ \E p \in Proc : Writes(p)
                     /\ running' = running \/ \/ \E p \in Proc : StartJob(p)
                                              \/ \E t \in Ticket : JobEnds(t)
                     /\ \A q \in Proc : pc'[q] \in Owner =>
                            pc[q] \in Owner \cup {"grant"} /\ my'[q] = my[q]
                     /\ \A q \in Proc : pc'[q] \in Waiting =>
                            \/ pc[q] \in Waiting /\ my'[q] = my[q]
                            \/ my'[q] = requests + 1
                     /\ requests' \in {requests, requests + 1}
<1> USE DEF Goto, Tell, Raise, Return, Owner, Waiting, Pass, Holding, disk, jobs
<1>a. /\ TypeOK /\ RequestsNamed /\ LeaseIsHeld
      /\ pc \in [Proc -> Steps] /\ my \in [Proc -> Ticket \cup {NoTicket}]
  BY DEF LeaseInv, TypeOK
<1>1. ASSUME NEW p \in Proc, Request(p) PROVE Effect
  BY <1>a, <1>1 DEF Request
<1>2. ASSUME NEW p \in Proc, MissDeadline(p) PROVE Effect
  BY <1>a, <1>2 DEF MissDeadline
<1>3. ASSUME NEW p \in Proc, Enter(p) PROVE Effect
  BY <1>a, <1>3 DEF Enter
<1>4. ASSUME NEW p \in Proc, PruneScan(p) PROVE Effect
  <2>1. state'.active = state.active
    BY <1>a, <1>4, SaveEffect, PendingActive DEF PruneScan
  <2>2. QED
    BY <1>a, <1>4, <2>1 DEF PruneScan
<1>5. ASSUME NEW p \in Proc, UnlinkRemoved(p) PROVE Effect
  BY <1>a, <1>5 DEF UnlinkRemoved
<1>6. ASSUME NEW p \in Proc, RefuseEntries(p) PROVE Effect
  BY <1>a, <1>6 DEF RefuseEntries
<1>7. ASSUME NEW p \in Proc, ListEntries(p) PROVE Effect
  BY <1>a, <1>7 DEF ListEntries
<1>8. ASSUME NEW p \in Proc, SweepOrphan(p) PROVE Effect
  BY <1>a, <1>8 DEF SweepOrphan
<1>9. ASSUME NEW p \in Proc, EndSweep(p) PROVE Effect
  BY <1>a, <1>9 DEF EndSweep
<1>10. ASSUME NEW p \in Proc, RefuseFull(p) PROVE Effect
  BY <1>a, <1>10 DEF RefuseFull
<1>11. ASSUME NEW p \in Proc, CreateTicket(p) PROVE Effect
  BY <1>a, <1>11 DEF CreateTicket
<1>12. ASSUME NEW p \in Proc, TicketFails(p) PROVE Effect
  BY <1>a, <1>12 DEF TicketFails
<1>13. ASSUME NEW p \in Proc, CommitTicket(p) PROVE Effect
  <2>1. state'.active = state.active
    BY <1>a, <1>13, SaveEffect, PendingActive DEF CommitTicket
  <2>2. QED
    BY <1>a, <1>13, <2>1 DEF CommitTicket
<1>14. ASSUME NEW p \in Proc, FindLost(p) PROVE Effect
  BY <1>a, <1>14 DEF FindLost
<1>15. ASSUME NEW p \in Proc, RefuseLost(p) PROVE Effect
  BY <1>a, <1>15 DEF RefuseLost
<1>16. ASSUME NEW p \in Proc, RefuseQuarantined(p) PROVE Effect
  BY <1>a, <1>16 DEF RefuseQuarantined
<1>17. ASSUME NEW p \in Proc, StayQueued(p) PROVE Effect
  BY <1>a, <1>17 DEF StayQueued
<1>18. ASSUME NEW p \in Proc, TakeResource(p) PROVE Effect
  BY <1>a, <1>18 DEF TakeResource
<1>19. ASSUME NEW p \in Proc, SaveGrant(p) PROVE Effect
  <2>1. Writes(p)
    BY <1>19 DEF Writes
  <2>2. QED
    BY <1>a, <1>19, <2>1 DEF SaveGrant, Granting
<1>20. ASSUME NEW p \in Proc, ReturnLease(p) PROVE Effect
  BY <1>a, <1>20 DEF ReturnLease
<1>21. ASSUME NEW p \in Proc, PassRaises(p) PROVE Effect
  <2>1. state'.active = state.active
    BY <1>a, <1>21, SaveEffect, PendingActive DEF PassRaises
  <2>2. QED
    BY <1>a, <1>21, <2>1 DEF PassRaises
<1>22. ASSUME NEW p \in Proc, GrantRaises(p) PROVE Effect
  <2>1. Writes(p)
    BY <1>22 DEF Writes
  <2>2. QED
    BY <1>a, <1>22, <2>1 DEF GrantRaises, Granting
<1>23. ASSUME NEW p \in Proc, RollBack(p) PROVE Effect
  <2>1. Writes(p)
    BY <1>23 DEF Writes
  <2>2. QED
    BY <1>a, <1>23, <2>1 DEF RollBack, Granting
<1>24. ASSUME NEW p \in Proc, WithdrawEnter(p) PROVE Effect
  BY <1>a, <1>24 DEF WithdrawEnter
<1>25. ASSUME NEW p \in Proc, WithdrawNothing(p) PROVE Effect
  BY <1>a, <1>25 DEF WithdrawNothing
<1>26. ASSUME NEW p \in Proc, Unqueue(p) PROVE Effect
  <2>1. state'.active = state.active
    BY <1>a, <1>26, SaveEffect, PendingActive DEF Unqueue
  <2>2. QED
    BY <1>a, <1>26, <2>1 DEF Unqueue
<1>27. ASSUME NEW p \in Proc, UnlinkOwn(p) PROVE Effect
  BY <1>a, <1>27 DEF UnlinkOwn
<1>28. ASSUME NEW p \in Proc, WithdrawRaises(p) PROVE Effect
  <2>1. state'.active = state.active
    BY <1>a, <1>28, SaveEffect, PendingActive DEF WithdrawRaises
  <2>2. QED
    BY <1>a, <1>28, <2>1 DEF WithdrawRaises
<1>29. ASSUME NEW p \in Proc, CloseTicket(p) PROVE Effect
  BY <1>a, <1>29 DEF CloseTicket
<1>30. ASSUME NEW p \in Proc, CheckLease(p) PROVE Effect
  BY <1>a, <1>30 DEF CheckLease
<1>31. ASSUME NEW p \in Proc, StartJob(p) PROVE Effect
  BY <1>a, <1>31 DEF StartJob
<1>32. ASSUME NEW p \in Proc, Abandon(p) PROVE Effect
  BY <1>a, <1>32 DEF Abandon
<1>33. ASSUME NEW p \in Proc, Acknowledge(p) PROVE Effect
  BY <1>a, <1>33 DEF Acknowledge
<1>34. ASSUME NEW p \in Proc, AckEnter(p) PROVE Effect
  BY <1>a, <1>34 DEF AckEnter
<1>35. ASSUME NEW p \in Proc, AckTimeout(p) PROVE Effect
  BY <1>a, <1>35 DEF AckTimeout
<1>36. ASSUME NEW p \in Proc, AckSave(p) PROVE Effect
  <2>1. Writes(p)
    BY <1>36 DEF Writes
  <2>2. QED
    BY <1>a, <1>36, <2>1 DEF AckSave, Granting
<1>37. ASSUME NEW p \in Proc, AckRaises(p) PROVE Effect
  <2>1. Writes(p)
    BY <1>37 DEF Writes
  <2>2. QED
    BY <1>a, <1>37, <2>1 DEF AckRaises, Granting
<1>38. ASSUME NEW p \in Proc, AckClose(p) PROVE Effect
  BY <1>a, <1>38 DEF AckClose
<1>39. ASSUME NEW p \in Proc, Cancel(p) PROVE Effect
  BY <1>a, <1>39 DEF Cancel
<1>40. ASSUME NEW p \in Proc, HolderFork(p) PROVE Effect
  BY <1>a, <1>40 DEF HolderFork
<1>41. ASSUME NEW p \in Proc, Expire(p) PROVE Effect
  BY <1>a, <1>41 DEF Expire
<1>42. ASSUME NEW p \in Proc, Crash(p) PROVE Effect
  BY <1>a, <1>42 DEF Crash
<1>43. ASSUME NEW t \in Ticket, ChildExits(t) PROVE Effect
  BY <1>a, <1>43 DEF ChildExits
<1>44. ASSUME NEW t \in Ticket, JobEnds(t) PROVE Effect
  BY <1>a, <1>44 DEF JobEnds
<1>45. ASSUME NEW t \in Ticket, JobLosesGuard(t) PROVE Effect
  BY <1>a, <1>45 DEF JobLosesGuard
<1>46. QED
  BY <1>1, <1>2, <1>3, <1>4, <1>5, <1>6, <1>7, <1>8, <1>9, <1>10, <1>11, <1>12,
     <1>13, <1>14, <1>15, <1>16, <1>17, <1>18, <1>19, <1>20, <1>21, <1>22, <1>23,
     <1>24, <1>25, <1>26, <1>27, <1>28, <1>29, <1>30, <1>31, <1>32, <1>33, <1>34,
     <1>35, <1>36, <1>37, <1>38, <1>39, <1>40, <1>41, <1>42, <1>43, <1>44, <1>45 DEF
     Next, Acquire, Hold, Environment

\* Each of those writes names its own request, and only follows its steps.
LEMMA WriteEffect ==
    ASSUME LeaseInv, NEW p \in Proc, Writes(p), state'.active # state.active
    PROVE  /\ my[p] \in Ticket /\ running' = running
           /\ \/ /\ pc[p] = "grant"
                 /\ state'.active = [ticket |-> my[p], state |-> "held"]
              \/ /\ pc[p] \in {"rollback", "ack_save"}
                 /\ state'.active = [ticket |-> my[p], state |-> "releasing"]
<1>1. /\ TypeOK /\ RequestsNamed /\ LeaseIsHeld
  BY DEF LeaseInv
<1>2. pc[p] # "idle" /\ (Save(p) \/ SaveRaises(p)) /\ running' = running
  BY DEF Writes, SaveGrant, GrantRaises, RollBack, AckSave, AckRaises, Granting, jobs
<1>3. pc[p] \in {"grant", "granted", "rollback", "ack", "ack_save"}
  BY DEF Writes, SaveGrant, GrantRaises, RollBack, AckSave, AckRaises, Granting
<1>4. state' = Pending(p)
  BY <1>1, <1>2, SaveEffect
<1>5. my[p] \in Ticket
  BY <1>1, <1>2 DEF RequestsNamed
<1>6. QED
  BY <1>1, <1>2, <1>3, <1>4, <1>5, PendingActive

\* A grant that nobody can acknowledge is neither acknowledged nor replaced by
\* any step.
LEMMA UnprovableStep ==
    ASSUME LeaseInv, Unprovable, Next
    PROVE  Unprovable'
<1>1. \A q \in Proc : ~(pc[q] \in Owner /\ Owned(q))
  BY DEF Unprovable, Owner
<1>2. \A q \in Proc : pc[q] # "grant"
  BY DEF Unprovable, LeaseInv, GrantIsNew
<1>3. \A q \in Proc : pc[q] \notin {"rollback", "ack_save"}
  BY <1>1 DEF Owner, Holding, Owned, Unprovable, LeaseInv, GrantIsNew, LeaseIsHeld
<1>4. state'.active = state.active
  BY <1>2, <1>3, GrantEffect, WriteEffect
<1>5. ASSUME NEW q \in Proc, pc'[q] \in Owner, HeldBy(my[q])' PROVE FALSE
  <2>1. pc[q] \in Owner /\ my'[q] = my[q]
    BY <1>2, <1>5, GrantEffect
  <2>2. HeldBy(my[q])
    BY <1>4, <1>5, <2>1 DEF HeldBy
  <2>3. QED
    BY <1>1, <2>1, <2>2 DEF Owned
<1>6. QED
  BY <1>4, <1>5 DEF Unprovable, Quarantined, Owned, Owner, Holding

\* A grant whose provider can no longer acknowledge it stays on record for ever:
\* no later request, crash or failed save releases it.
THEOREM QuarantineIsForGoodAlways == Spec => QuarantineIsForGood
<1>1. LeaseInv /\ [Next]_vars => (Unprovable => Unprovable')
  <2> SUFFICES ASSUME LeaseInv, [Next]_vars, Unprovable PROVE Unprovable'
    OBVIOUS
  <2>1. CASE UNCHANGED vars
    BY <2>1 DEF vars, Unprovable, Quarantined, Owned, HeldBy, Holding
  <2>2. CASE Next
    BY <2>2, UnprovableStep
  <2>3. QED
    BY <2>1, <2>2
<1>2. QED
  BY <1>1, LeaseInvariant, PTL DEF Spec, QuarantineIsForGood

----
\* The contract.

\* A request that may still be granted is not the one granted last.
NewTicket ==
    /\ state.active.ticket <= requests
    /\ \A p \in Proc : pc[p] \in Waiting => my[p] # state.active.ticket

LEMMA NewTicketStep ==
    ASSUME LeaseInv, NewTicket, Next
    PROVE  NewTicket'
<1>1. /\ requests \in Nat /\ requests' \in {requests, requests + 1}
      /\ state.active.ticket \in Nat
  BY GrantEffect, Constants DEF LeaseInv, TypeOK, Record, Active, NoGrant, NoTicket, Ticket
<1>2. CASE state'.active = state.active
  BY <1>1, <1>2, GrantEffect DEF NewTicket
<1>3. CASE state'.active # state.active
  <2>1. PICK p \in Proc : Writes(p)
    BY <1>3, GrantEffect
  <2>2. my[p] \in Ticket /\ state'.active.ticket = my[p]
    <3>1. \/ state'.active = [ticket |-> my[p], state |-> "held"]
          \/ state'.active = [ticket |-> my[p], state |-> "releasing"]
      BY <1>3, <2>1, WriteEffect
    <3>2. QED
      BY <1>3, <2>1, <3>1, WriteEffect
  <2>3. pc[p] # "idle" /\ my[p] <= requests
    BY <1>3, <2>1, WriteEffect DEF LeaseInv, RequestsNamed
  <2>4. pc'[p] \notin Waiting
    BY <2>1 DEF Writes, SaveGrant, GrantRaises, RollBack, AckSave, AckRaises, Goto, Raise,
       Waiting, Pass, LeaseInv, TypeOK
  <2>5. ASSUME NEW q \in Proc, pc'[q] \in Waiting PROVE my'[q] # my[p]
    <3>1. q # p
      BY <2>4, <2>5
    <3>2. CASE my'[q] = requests + 1
      BY <1>1, <2>2, <2>3, <3>2 DEF Ticket
    <3>3. CASE pc[q] \in Waiting /\ my'[q] = my[q]
      BY <2>3, <3>1, <3>3 DEF LeaseInv, NamesUnique, Waiting, Pass
    <3>4. QED
      BY <2>5, <3>2, <3>3, GrantEffect
  <2>6. my[p] <= requests'
    BY <1>1, <2>2, <2>3, Constants DEF Ticket
  <2>7. QED
    BY <2>2, <2>5, <2>6 DEF NewTicket
<1>4. QED
  BY <1>2, <1>3

\* One step of the namespace is one step of the contract, or none.
LEMMA ContractStep ==
    ASSUME "early_ack" \notin Faults, LeaseInv, NewTicket, Next
    PROVE  [Contract!Next]_Contract!cvars
<1>1. /\ TypeOK /\ RequestsNamed /\ LeaseIsHeld
      /\ \A p \in Proc : pc[p] # "idle" => my[p] \in Ticket
  BY DEF LeaseInv, RequestsNamed
<1>2. ASSUME ~Quarantined PROVE running = {}
  <2>1. \A t \in running : HeldBy(t)
    BY DEF LeaseInv, EngineIsMarked
  <2>2. \A t : ~HeldBy(t)
    BY <1>2 DEF HeldBy, Quarantined
  <2>3. QED
    BY <2>1, <2>2
<1>3. CASE \E p \in Proc : StartJob(p)
  <2>1. PICK p \in Proc : StartJob(p)
    BY <1>3
  <2>2. my[p] \in Ticket /\ HeldBy(my[p])
    BY <1>1, <2>1 DEF StartJob, LeaseIsHeld, Holding
  <2>3. Contract!Start(my[p])
    BY <2>1, <2>2 DEF StartJob, disk, HeldBy, Contract!Start
  <2>4. QED
    BY <2>2, <2>3 DEF Contract!Next
<1>4. CASE \E t \in Ticket : JobEnds(t)
  <2>1. PICK t \in Ticket : JobEnds(t)
    BY <1>4
  <2>2. Contract!Finish(t)
    BY <2>1 DEF JobEnds, disk, Contract!Finish
  <2>3. QED
    BY <2>2 DEF Contract!Next
<1>5. CASE state'.active # state.active
  <2>1. PICK p \in Proc : Writes(p)
    BY <1>5, GrantEffect
  <2>2. my[p] \in Ticket /\ running' = running
    BY <1>5, <2>1, WriteEffect
  <2>3. CASE pc[p] = "grant"
    <3>1. state'.active = [ticket |-> my[p], state |-> "held"]
      BY <1>5, <2>1, <2>3, WriteEffect
    <3>2. ~Quarantined /\ my[p] # state.active.ticket
      BY <2>3 DEF LeaseInv, GrantIsNew, NewTicket, Waiting
    <3>3. Contract!Grant(my[p])
      BY <1>2, <2>2, <3>1, <3>2 DEF Quarantined, Contract!Grant
    <3>4. QED
      BY <2>2, <3>3 DEF Contract!Next
  <2>4. CASE pc[p] \in {"rollback", "ack_save"}
    <3>1. state'.active = [ticket |-> my[p], state |-> "releasing"]
      BY <1>5, <2>1, <2>4, WriteEffect
    <3>2. my[p] \notin running
      BY <2>4 DEF LeaseInv, NotStarted, BeforeLease, Steps, Holding, AcknowledgedIsDone
    <3>3. HeldBy(my[p]) \/ ~Quarantined
      BY <2>4 DEF LeaseInv, GrantIsNew, LeaseIsHeld, Holding
    <3>4. CASE HeldBy(my[p])
      <4>1. Contract!Acknowledge(my[p])
        BY <2>2, <3>1, <3>2, <3>4 DEF HeldBy, Contract!Acknowledge
      <4>2. QED
        BY <2>2, <4>1 DEF Contract!Next
    <3>5. CASE ~Quarantined
      <4>1. Contract!VoidGrant(my[p])
        BY <1>2, <2>2, <3>1, <3>5 DEF Quarantined, Contract!VoidGrant
      <4>2. QED
        BY <2>2, <4>1 DEF Contract!Next
    <3>6. QED
      BY <3>3, <3>4, <3>5
  <2>5. QED
    BY <1>5, <2>1, <2>3, <2>4, WriteEffect
<1>6. CASE state'.active = state.active /\ running' = running
  BY <1>6 DEF Contract!cvars
<1>7. QED
  BY <1>3, <1>4, <1>5, <1>6, GrantEffect

\* As long as providers only acknowledge what has ended, the namespace grants,
\* runs and releases exactly as the contract says, whatever else fails.
THEOREM RefinesContractAlways ==
    ASSUME "early_ack" \notin Faults
    PROVE  Spec => RefinesContract
<1>1. Init => Contract!Init /\ NewTicket
  <2> SUFFICES ASSUME Init PROVE Contract!Init /\ NewTicket
    OBVIOUS
  <2>1. Contract!Init
    BY DEF Init, Contract!Init, NoGrant, NoTicket, Contract!NoGrant, Contract!NoTicket
  <2>2. NewTicket
    BY DEF Init, NewTicket, Waiting, Pass, NoGrant, NoTicket
  <2>3. QED
    BY <2>1, <2>2
<1>2. LeaseInv /\ NewTicket /\ [Next]_vars => NewTicket'
  <2>1. NewTicket /\ UNCHANGED vars => NewTicket'
    BY DEF vars, NewTicket, Waiting
  <2>2. QED
    BY <2>1, NewTicketStep
<1>3. LeaseInv /\ NewTicket /\ [Next]_vars => [Contract!Next]_Contract!cvars
  <2>1. UNCHANGED vars => UNCHANGED Contract!cvars
    BY DEF vars, Contract!cvars
  <2>2. QED
    BY <2>1, ContractStep
<1>4. QED
  BY <1>1, <1>2, <1>3, LeaseInvariant, PTL DEF Spec, RefinesContract, Contract!Spec

\* What the contract promises of engines, the namespace keeps: only the engine
\* of a grant that is held runs, and so one at a time.
THEOREM EngineIsGranted ==
    ASSUME "early_ack" \notin Faults
    PROVE  Spec => []Contract!OneEngine
<1>1. Contract!Init => Contract!OneEngine
  BY DEF Contract!Init, Contract!OneEngine, Contract!NoGrant
<1>2. Contract!OneEngine /\ [Contract!Next]_Contract!cvars => Contract!OneEngine'
  <2> SUFFICES ASSUME Contract!OneEngine, [Contract!Next]_Contract!cvars
               PROVE  Contract!OneEngine'
    OBVIOUS
  <2>1. CASE UNCHANGED Contract!cvars
    BY <2>1 DEF Contract!cvars, Contract!OneEngine
  <2>2. ASSUME NEW t \in Ticket, Contract!Grant(t) \/ Contract!VoidGrant(t)
        PROVE  Contract!OneEngine'
    BY <2>2 DEF Contract!Grant, Contract!VoidGrant, Contract!OneEngine
  <2>3. ASSUME NEW t \in Ticket, Contract!Start(t)
        PROVE  Contract!OneEngine'
    BY <2>3 DEF Contract!Start, Contract!OneEngine
  <2>4. ASSUME NEW t \in Ticket, Contract!Finish(t)
        PROVE  Contract!OneEngine'
    BY <2>4 DEF Contract!Finish, Contract!OneEngine
  <2>5. ASSUME NEW t \in Ticket, Contract!Acknowledge(t)
        PROVE  Contract!OneEngine'
    BY <2>5 DEF Contract!Acknowledge, Contract!OneEngine
  <2>6. QED
    BY <2>1, <2>2, <2>3, <2>4, <2>5 DEF Contract!Next
<1>3. QED
  BY <1>1, <1>2, RefinesContractAlways, PTL DEF RefinesContract, Contract!Spec

----
\* The queue: what every interleaving, death and failed save leaves of it, of
\* the tickets in the directory and of what requesters are told.  The
\* inductive invariant, on top of LeaseInv, in parts.

\* Only requests that were made have a ticket: in the queue, in the directory,
\* among the open ones or to be visited by a pass.
RequestsKnown ==
    files \cup open \cup todo \cup Tickets(state.queue) \subseteq 1 .. requests

QueueAccepted ==
    /\ IsFiniteSet(state.queue)
    /\ RecordIsAccepted

\* What the first pass found when it looked is still so at its save.
RoomToJoin == \A p \in Proc : pc[p] = "commit" => ~Full(workload[p])

\* A request has its ticket open from joining on, and not before.
TicketOpen ==
    \A p \in Proc :
        /\ pc[p] = "join" => my[p] \notin open
        /\ pc[p] = "commit" => my[p] \in open \cap files
        /\ pc[p] = "attempt" => my[p] \in open

\* The steps from which a request may still join.
Joining == {"poll", "prune", "unlink", "sweep", "join"}

NotJoined ==
    \A p \in Proc :
        pc[p] = "commit" \/ (pc[p] \in Joining /\ my[p] \notin open) => ~Queued(my[p])

\* A pass only unlinks what it has dropped: tickets that are closed, or past
\* their deadline.
UnlinksAreDue ==
    \A p, q \in Proc : pc[p] = "unlink" /\ my[q] \in todo \cap open => q \in late

\* Between requests a process has no ticket and no deadline.
IdleIsClear == \A p \in Proc : pc[p] = "idle" => my[p] = NoTicket /\ p \notin late

QueueInv ==
    /\ NewTicket
    /\ RequestsKnown
    /\ QueueAccepted
    /\ RoomToJoin
    /\ TicketOpen
    /\ NotJoined
    /\ UnlinksAreDue
    /\ IdleIsClear
    /\ PlaceIsKept

----
\* What saves do to the queue.

\* A group of a queue is finite, and no larger than the queue or than the same
\* group of a larger queue.
LEMMA GroupBound ==
    ASSUME NEW Q, IsFiniteSet(Q), NEW S \in SUBSET Q, NEW k
    PROVE  /\ IsFiniteSet(S) /\ Cardinality(S) <= Cardinality(Q)
           /\ IsFiniteSet(Group(S, k))
           /\ Cardinality(Group(S, k)) <= Cardinality(Group(Q, k))
           /\ Cardinality(S) \in Nat /\ Cardinality(Group(S, k)) \in Nat
           /\ Cardinality(Q) \in Nat /\ Cardinality(Group(Q, k)) \in Nat
<1>1. IsFiniteSet(S) /\ Cardinality(S) <= Cardinality(Q)
  BY FS_Subset
<1>2. Group(S, k) \subseteq Group(Q, k) /\ Group(Q, k) \subseteq Q
  BY DEF Group
<1>3. IsFiniteSet(Group(Q, k))
  BY <1>2, FS_Subset
<1>4. IsFiniteSet(Group(S, k)) /\ Cardinality(Group(S, k)) <= Cardinality(Group(Q, k))
  BY <1>2, <1>3, FS_Subset
<1>5. QED
  BY <1>1, <1>3, <1>4, FS_CardinalityType

\* Dropping entries keeps a record that is accepted.
LEMMA AcceptedShrinks ==
    ASSUME TypeOK, state' \in Record, QueueAccepted,
           state'.queue \subseteq state.queue, state'.next = state.next,
           state'.active.ticket \notin Tickets(state'.queue)
    PROVE  QueueAccepted'
<1>1. IsFiniteSet(state'.queue) /\ Cardinality(state'.queue) <= MAX_QUEUE
  BY GroupBound, LeaseAssumption DEF QueueAccepted, RecordIsAccepted
<1>2. ASSUME NEW k \in Kind
      PROVE  Cardinality(Group(state'.queue, k)) <= MAX_WORKLOAD_QUEUE
  <2>1. /\ Cardinality(Group(state'.queue, k)) <= Cardinality(Group(state.queue, k))
        /\ Cardinality(Group(state'.queue, k)) \in Nat
        /\ Cardinality(Group(state.queue, k)) \in Nat
    BY GroupBound DEF QueueAccepted
  <2>2. QED
    BY <2>1, LeaseAssumption DEF QueueAccepted, RecordIsAccepted
<1>3. QED
  BY <1>1, <1>2 DEF QueueAccepted, RecordIsAccepted

\* A request that joins where there is room, with the next sequence number and
\* a ticket of its own, keeps it so too.
LEMMA AcceptedJoins ==
    ASSUME TypeOK, QueueAccepted, NEW p \in Proc, my[p] \in Ticket, workload[p] \in Kind,
           ~Full(workload[p]), ~Queued(my[p]), state.active.ticket # my[p],
           state' = Joined(p)
    PROVE  QueueAccepted'
<1> DEFINE item == [ticket |-> my[p], workload |-> workload[p], sequence |-> state.next]
<1>1. /\ state'.queue = state.queue \cup {item}
      /\ state'.next = state.next + 1
      /\ state'.active = state.active
      /\ state.next \in Nat /\ state.queue \subseteq Item
  BY DEF Joined, TypeOK, Record
<1>2. /\ item.ticket = my[p] /\ item.workload = workload[p] /\ item.sequence = state.next
      /\ item \notin state.queue
  BY DEF Queued, Tickets
<1>3. /\ IsFiniteSet(state.queue) /\ Cardinality(state.queue) \in Nat
      /\ Cardinality(state.queue) < MAX_QUEUE
      /\ Cardinality(Group(state.queue, workload[p])) < MAX_WORKLOAD_QUEUE
  <2>1. IsFiniteSet(state.queue) /\ Cardinality(state.queue) \in Nat
    BY FS_CardinalityType DEF QueueAccepted
  <2>2. Cardinality(Group(state.queue, workload[p])) \in Nat
    BY <2>1, GroupBound
  <2>3. QED
    BY <2>1, <2>2, LeaseAssumption DEF Full
<1> HIDE DEF item
<1>4. IsFiniteSet(state'.queue) /\ Cardinality(state'.queue) <= MAX_QUEUE
  <2>1. /\ IsFiniteSet(state.queue \cup {item})
        /\ Cardinality(state.queue \cup {item}) = Cardinality(state.queue) + 1
    BY <1>2, <1>3, FS_AddElement
  <2>2. QED
    BY <1>1, <1>3, <2>1, LeaseAssumption
<1>5. ASSUME NEW k \in Kind
      PROVE  Cardinality(Group(state'.queue, k)) <= MAX_WORKLOAD_QUEUE
  <2>1. CASE k = workload[p]
    <3>1. Group(state'.queue, k) = Group(state.queue, k) \cup {item}
      BY <1>1, <1>2, <2>1 DEF Group
    <3>2. item \notin Group(state.queue, k) /\ IsFiniteSet(Group(state.queue, k))
      BY <1>2, <1>3, GroupBound DEF Group
    <3>3. Cardinality(Group(state.queue, k)) \in Nat
      BY <3>2, FS_CardinalityType
    <3>4. Cardinality(Group(state.queue, k) \cup {item}) = Cardinality(Group(state.queue,
       k)) + 1
      BY <3>2, FS_AddElement
    <3>5. QED
      BY <1>3, <2>1, <3>1, <3>3, <3>4, LeaseAssumption
  <2>2. CASE k # workload[p]
    <3>1. Group(state'.queue, k) = Group(state.queue, k)
      BY <1>1, <1>2, <2>2 DEF Group
    <3>2. QED
      BY <3>1 DEF QueueAccepted, RecordIsAccepted
  <2>3. QED
    BY <2>1, <2>2
<1>6. \A i \in state'.queue : i.sequence < state'.next
  BY <1>1, <1>2 DEF QueueAccepted, RecordIsAccepted, Item
<1>7. \A i, j \in state'.queue : i.ticket = j.ticket \/ i.sequence = j.sequence => i = j
  <2>1. \A i \in state.queue : i.ticket # item.ticket /\ i.sequence # item.sequence
    BY <1>1, <1>2 DEF QueueAccepted, RecordIsAccepted, Queued, Tickets, Item
  <2>2. QED
    BY <1>1, <2>1 DEF QueueAccepted, RecordIsAccepted
<1>8. state'.active.ticket \notin Tickets(state'.queue)
  BY <1>1, <1>2 DEF QueueAccepted, RecordIsAccepted, Tickets
<1>9. QED
  BY <1>4, <1>5, <1>6, <1>7, <1>8 DEF QueueAccepted, RecordIsAccepted

\* Every save that changes the queue drops entries or adds that of the process,
\* and a record that is accepted is followed by one.
LEMMA QueueSaved ==
    ASSUME LeaseInv, QueueInv, NEW p \in Proc, pc[p] # "idle", Save(p) \/ SaveRaises(p)
    PROVE  /\ QueueAccepted'
           /\ \/ state'.queue = state.queue
              \/ pc[p] = "prune" /\ state'.queue = Retained
              \/ /\ pc[p] = "commit"
                 /\ state'.queue = Joined(p).queue
              \/ pc[p] \in {"grant", "rollback", "unqueue"} /\ state'.queue = Without(my[p])
<1>1. /\ TypeOK /\ RequestsNamed /\ LeaseIsHeld /\ QueueAccepted
      /\ my[p] \in Ticket /\ workload[p] \in Kind /\ state \in Record
  BY DEF LeaseInv, QueueInv, RequestsNamed, TypeOK
<1>2. state' \in Record /\ (state' = state \/ state' = Pending(p))
  BY <1>1, SaveEffect
<1>3. CASE state' = state
  BY <1>1, <1>3, AcceptedShrinks DEF QueueAccepted, RecordIsAccepted
<1>4. CASE state' = Pending(p) /\ pc[p] = "prune"
  <2>1. /\ state'.queue = Retained /\ state'.next = state.next
        /\ state'.active = state.active
    BY <1>1, <1>4, PendingSaves DEF Pruned, Record
  <2>2. Retained \subseteq state.queue
    BY DEF Retained
  <2>3. state'.active.ticket \notin Tickets(state'.queue)
    BY <1>1, <2>1, <2>2 DEF QueueAccepted, RecordIsAccepted, Tickets
  <2>4. QED
    BY <1>1, <1>2, <1>4, <2>1, <2>2, <2>3, AcceptedShrinks
<1>5. CASE state' = Pending(p) /\ pc[p] = "commit"
  <2>1. state' = Joined(p)
    BY <1>5, PendingSaves
  <2>2. ~Full(workload[p]) /\ ~Queued(my[p]) /\ state.active.ticket # my[p]
    BY <1>5 DEF QueueInv, RoomToJoin, NotJoined, NewTicket, Waiting, Pass
  <2>3. QED
    BY <1>1, <1>5, <2>1, <2>2, AcceptedJoins
<1>6. CASE state' = Pending(p) /\ pc[p] \in {"grant", "rollback", "unqueue"}
  <2>1. state'.queue = Without(my[p]) /\ state'.next = state.next
    BY <1>1, <1>6, PendingSaves, ZenonT(30) DEF Granted, RolledBack, Unqueued, Record
  <2>2. \/ state'.active = state.active
        \/ state'.active = [ticket |-> my[p], state |-> "held"]
        \/ state'.active = [ticket |-> my[p], state |-> "releasing"]
    <3>1. pc[p] = "grant" \/ pc[p] = "rollback" \/ pc[p] \notin {"grant", "rollback",
       "ack_save"}
      BY <1>6
    <3>2. QED
      BY <1>1, <1>6, <3>1, PendingActive
  <2>3. state'.active.ticket \notin Tickets(state'.queue)
    BY <1>1, <2>1, <2>2 DEF QueueAccepted, RecordIsAccepted, Tickets, Without
  <2>4. Without(my[p]) \subseteq state.queue
    BY DEF Without
  <2>5. QED
    BY <1>1, <1>2, <1>6, <2>1, <2>3, <2>4, AcceptedShrinks
<1>7. CASE state' = Pending(p) /\ pc[p] = "ack_save"
  <2>1. state'.queue = state.queue /\ state'.next = state.next
    BY <1>1, <1>7, PendingSaves DEF Released, Record
  <2>2. state'.active = [ticket |-> my[p], state |-> "releasing"]
    BY <1>1, <1>7, PendingActive
  <2>a. state.active = [ticket |-> my[p], state |-> "held"]
    BY <1>1, <1>7 DEF LeaseIsHeld, HeldBy, Holding
  <2>3. state'.active.ticket \notin Tickets(state'.queue)
    BY <1>1, <2>1, <2>2, <2>a DEF QueueAccepted, RecordIsAccepted
  <2>4. QED
    BY <1>1, <1>2, <2>1, <2>3, AcceptedShrinks
<1>8. CASE state' = Pending(p)
           /\ pc[p] \notin {"prune", "commit", "grant", "rollback", "unqueue", "ack_save"}
  <2>1. state' = state
    BY <1>8, PendingSaves
  <2>2. QED
    BY <1>3, <2>1
<1>9. QED
  BY <1>2, <1>3, <1>4, <1>5, <1>6, <1>7, <1>8

\* The tickets of a queue, by the save that left it.
LEMMA TicketsSaved ==
    ASSUME state \in Record, NEW p \in Proc
    PROVE  /\ Tickets(Without(my[p])) = Tickets(state.queue) \ {my[p]}
           /\ Tickets(Joined(p).queue) = Tickets(state.queue) \cup {my[p]}
           /\ \A t : t \in Tickets(Retained) <=>
                  /\ t \in Tickets(state.queue) \cap files \cap open
                  /\ \A q \in late : my[q] # t
           /\ \A t : t \in Tickets(Removed) <=>
                  /\ t \in Tickets(state.queue) \cap files
                  /\ t \in open => \E q \in late : my[q] = t
<1>1. Tickets(Without(my[p])) = Tickets(state.queue) \ {my[p]}
  BY DEF Tickets, Without
<1>2. Tickets(Joined(p).queue) = Tickets(state.queue) \cup {my[p]}
  <2> DEFINE item == [ticket |-> my[p], workload |-> workload[p], sequence |-> state.next]
  <2>1. Joined(p).queue = state.queue \cup {item} /\ item.ticket = my[p]
    BY DEF Joined, Record
  <2> HIDE DEF item
  <2>2. QED
    BY <2>1 DEF Tickets
<1>3. ASSUME NEW t
      PROVE  /\ t \in Tickets(Retained) <=>
                  /\ t \in Tickets(state.queue) \cap files \cap open
                  /\ \A q \in late : my[q] # t
             /\ t \in Tickets(Removed) <=>
                  /\ t \in Tickets(state.queue) \cap files
                  /\ t \in open => \E q \in late : my[q] = t
  BY DEF Tickets, Retained, Removed, Abandoned, Expired
<1>4. QED
  BY <1>1, <1>2, <1>3

----
\* The parts of the invariant that are about single requests.
PlaceInv == RequestsKnown /\ RoomToJoin /\ TicketOpen /\ NotJoined /\ UnlinksAreDue /\
   IdleIsClear
            /\ PlaceIsKept

\* They are kept by every step: one action at a time, with what its save does to
\* the queue where it has one.
LEMMA PlaceStep ==
    ASSUME LeaseInv, QueueInv, Next
    PROVE  PlaceInv'
<1> USE Constants DEF disk, jobs, Goto, Tell, Raise, Return, TypeOK, RequestsNamed, NamesUnique,
        AnchorExcludes, InRegistry, PlaceInv, RequestsKnown, RoomToJoin, TicketOpen, NotJoined,
        UnlinksAreDue, IdleIsClear, PlaceIsKept, Joining, Pass, Granting, Holding, Queued,
           Ticket, NoTicket
<1>a. /\ TypeOK /\ RequestsNamed /\ NamesUnique /\ AnchorExcludes
      /\ PlaceInv /\ requests \in Nat
  BY DEF LeaseInv, QueueInv
<1>b. state'.queue = state.queue => \A k : Full(k)' = Full(k)
  BY DEF Full
<1>1. ASSUME NEW p \in Proc, Request(p) PROVE PlaceInv'
  BY <1>a, <1>b, <1>1 DEF Request
<1>2. ASSUME NEW p \in Proc, MissDeadline(p) PROVE PlaceInv'
  BY <1>a, <1>b, <1>2 DEF MissDeadline
<1>3. ASSUME NEW p \in Proc, Enter(p) PROVE PlaceInv'
  BY <1>a, <1>b, <1>3 DEF Enter
<1>4. ASSUME NEW p \in Proc, PruneScan(p) PROVE PlaceInv'
  <2>a. \/ state'.queue = state.queue
        \/ pc[p] = "prune" /\ state'.queue = Retained
        \/ pc[p] = "commit" /\ state'.queue = Joined(p).queue
        \/ pc[p] \in {"grant", "rollback", "unqueue"} /\ state'.queue = Without(my[p])
    BY <1>a, <1>4, QueueSaved DEF PruneScan
  <2>1. RequestsKnown'
    BY <1>a, <1>b, <1>4, <2>a, TicketsSaved DEF PruneScan
  <2>2. RoomToJoin'
    BY <1>a, <1>b, <1>4, <2>a, TicketsSaved DEF PruneScan
  <2>3. TicketOpen'
    BY <1>a, <1>b, <1>4, <2>a, TicketsSaved DEF PruneScan
  <2>4. NotJoined'
    BY <1>a, <1>b, <1>4, <2>a, TicketsSaved DEF PruneScan
  <2>5. UnlinksAreDue'
    BY <1>a, <1>b, <1>4, <2>a, TicketsSaved DEF PruneScan
  <2>6. IdleIsClear'
    BY <1>a, <1>b, <1>4, <2>a, TicketsSaved DEF PruneScan
  <2>7. PlaceIsKept'
    BY <1>a, <1>b, <1>4, <2>a, TicketsSaved DEF PruneScan
  <2>8. QED
    BY <2>1, <2>2, <2>3, <2>4, <2>5, <2>6, <2>7
<1>5. ASSUME NEW p \in Proc, UnlinkRemoved(p) PROVE PlaceInv'
  BY <1>a, <1>b, <1>5 DEF UnlinkRemoved
<1>6. ASSUME NEW p \in Proc, RefuseEntries(p) PROVE PlaceInv'
  BY <1>a, <1>b, <1>6 DEF RefuseEntries
<1>7. ASSUME NEW p \in Proc, ListEntries(p) PROVE PlaceInv'
  BY <1>a, <1>b, <1>7 DEF ListEntries, Unreferenced
<1>8. ASSUME NEW p \in Proc, SweepOrphan(p) PROVE PlaceInv'
  BY <1>a, <1>b, <1>8 DEF SweepOrphan
<1>9. ASSUME NEW p \in Proc, EndSweep(p) PROVE PlaceInv'
  BY <1>a, <1>b, <1>9 DEF EndSweep
<1>10. ASSUME NEW p \in Proc, RefuseFull(p) PROVE PlaceInv'
  BY <1>a, <1>b, <1>10 DEF RefuseFull
<1>11. ASSUME NEW p \in Proc, CreateTicket(p) PROVE PlaceInv'
  BY <1>a, <1>b, <1>11 DEF CreateTicket
<1>12. ASSUME NEW p \in Proc, TicketFails(p) PROVE PlaceInv'
  BY <1>a, <1>b, <1>12 DEF TicketFails
<1>13. ASSUME NEW p \in Proc, CommitTicket(p) PROVE PlaceInv'
  <2>a. state'.queue = Joined(p).queue
    BY <1>a, <1>13, PendingSaves DEF CommitTicket, Save
  <2>1. RequestsKnown'
    BY <1>a, <1>b, <1>13, <2>a, TicketsSaved DEF CommitTicket
  <2>2. RoomToJoin'
    BY <1>a, <1>b, <1>13, <2>a, TicketsSaved DEF CommitTicket
  <2>3. TicketOpen'
    BY <1>a, <1>b, <1>13, <2>a, TicketsSaved DEF CommitTicket
  <2>4. NotJoined'
    BY <1>a, <1>b, <1>13, <2>a, TicketsSaved DEF CommitTicket
  <2>5. UnlinksAreDue'
    BY <1>a, <1>b, <1>13, <2>a, TicketsSaved DEF CommitTicket
  <2>6. IdleIsClear'
    BY <1>a, <1>b, <1>13, <2>a, TicketsSaved DEF CommitTicket
  <2>7. PlaceIsKept'
    BY <1>a, <1>b, <1>13, <2>a, TicketsSaved DEF CommitTicket
  <2>8. QED
    BY <2>1, <2>2, <2>3, <2>4, <2>5, <2>6, <2>7
<1>14. ASSUME NEW p \in Proc, FindLost(p) PROVE PlaceInv'
  BY <1>a, <1>b, <1>14 DEF FindLost
<1>15. ASSUME NEW p \in Proc, RefuseLost(p) PROVE PlaceInv'
  BY <1>a, <1>b, <1>15 DEF RefuseLost
<1>16. ASSUME NEW p \in Proc, RefuseQuarantined(p) PROVE PlaceInv'
  BY <1>a, <1>b, <1>16 DEF RefuseQuarantined
<1>17. ASSUME NEW p \in Proc, StayQueued(p) PROVE PlaceInv'
  BY <1>a, <1>b, <1>17 DEF StayQueued
<1>18. ASSUME NEW p \in Proc, TakeResource(p) PROVE PlaceInv'
  BY <1>a, <1>b, <1>18 DEF TakeResource
<1>19. ASSUME NEW p \in Proc, SaveGrant(p) PROVE PlaceInv'
  <2>1. \/ state'.queue = state.queue
        \/ pc[p] = "prune" /\ state'.queue = Retained
        \/ pc[p] = "commit" /\ state'.queue = Joined(p).queue
        \/ pc[p] \in {"grant", "rollback", "unqueue"} /\ state'.queue = Without(my[p])
    BY <1>a, <1>19, QueueSaved DEF SaveGrant
  <2>2. QED
    BY <1>a, <1>b, <1>19, <2>1, TicketsSaved DEF SaveGrant
<1>20. ASSUME NEW p \in Proc, ReturnLease(p) PROVE PlaceInv'
  BY <1>a, <1>b, <1>20 DEF ReturnLease
<1>21. ASSUME NEW p \in Proc, PassRaises(p) PROVE PlaceInv'
  <2>a. \/ state'.queue = state.queue
        \/ pc[p] = "prune" /\ state'.queue = Retained
        \/ pc[p] = "commit" /\ state'.queue = Joined(p).queue
        \/ pc[p] \in {"grant", "rollback", "unqueue"} /\ state'.queue = Without(my[p])
    BY <1>a, <1>21, QueueSaved DEF PassRaises
  <2>1. RequestsKnown'
    BY <1>a, <1>b, <1>21, <2>a, TicketsSaved DEF PassRaises
  <2>2. RoomToJoin'
    BY <1>a, <1>b, <1>21, <2>a, TicketsSaved DEF PassRaises
  <2>3. TicketOpen'
    BY <1>a, <1>b, <1>21, <2>a, TicketsSaved DEF PassRaises
  <2>4. NotJoined'
    BY <1>a, <1>b, <1>21, <2>a, TicketsSaved DEF PassRaises
  <2>5. UnlinksAreDue'
    BY <1>a, <1>b, <1>21, <2>a, TicketsSaved DEF PassRaises
  <2>6. IdleIsClear'
    BY <1>a, <1>b, <1>21, <2>a, TicketsSaved DEF PassRaises
  <2>7. PlaceIsKept'
    BY <1>a, <1>b, <1>21, <2>a, TicketsSaved DEF PassRaises
  <2>8. QED
    BY <2>1, <2>2, <2>3, <2>4, <2>5, <2>6, <2>7
<1>22. ASSUME NEW p \in Proc, GrantRaises(p) PROVE PlaceInv'
  <2>1. \/ state'.queue = state.queue
        \/ pc[p] = "prune" /\ state'.queue = Retained
        \/ pc[p] = "commit" /\ state'.queue = Joined(p).queue
        \/ pc[p] \in {"grant", "rollback", "unqueue"} /\ state'.queue = Without(my[p])
    BY <1>a, <1>22, QueueSaved DEF GrantRaises
  <2>2. QED
    BY <1>a, <1>b, <1>22, <2>1, TicketsSaved DEF GrantRaises
<1>23. ASSUME NEW p \in Proc, RollBack(p) PROVE PlaceInv'
  <2>1. \/ state'.queue = state.queue
        \/ pc[p] = "prune" /\ state'.queue = Retained
        \/ pc[p] = "commit" /\ state'.queue = Joined(p).queue
        \/ pc[p] \in {"grant", "rollback", "unqueue"} /\ state'.queue = Without(my[p])
    BY <1>a, <1>23, QueueSaved DEF RollBack
  <2>2. QED
    BY <1>a, <1>b, <1>23, <2>1, TicketsSaved DEF RollBack
<1>24. ASSUME NEW p \in Proc, WithdrawEnter(p) PROVE PlaceInv'
  BY <1>a, <1>b, <1>24 DEF WithdrawEnter
<1>25. ASSUME NEW p \in Proc, WithdrawNothing(p) PROVE PlaceInv'
  BY <1>a, <1>b, <1>25 DEF WithdrawNothing
<1>26. ASSUME NEW p \in Proc, Unqueue(p) PROVE PlaceInv'
  <2>1. \/ state'.queue = state.queue
        \/ pc[p] = "prune" /\ state'.queue = Retained
        \/ pc[p] = "commit" /\ state'.queue = Joined(p).queue
        \/ pc[p] \in {"grant", "rollback", "unqueue"} /\ state'.queue = Without(my[p])
    BY <1>a, <1>26, QueueSaved DEF Unqueue
  <2>2. QED
    BY <1>a, <1>b, <1>26, <2>1, TicketsSaved DEF Unqueue
<1>27. ASSUME NEW p \in Proc, UnlinkOwn(p) PROVE PlaceInv'
  BY <1>a, <1>b, <1>27 DEF UnlinkOwn
<1>28. ASSUME NEW p \in Proc, WithdrawRaises(p) PROVE PlaceInv'
  <2>1. \/ state'.queue = state.queue
        \/ pc[p] = "prune" /\ state'.queue = Retained
        \/ pc[p] = "commit" /\ state'.queue = Joined(p).queue
        \/ pc[p] \in {"grant", "rollback", "unqueue"} /\ state'.queue = Without(my[p])
    BY <1>a, <1>28, QueueSaved DEF WithdrawRaises
  <2>2. QED
    BY <1>a, <1>b, <1>28, <2>1, TicketsSaved DEF WithdrawRaises
<1>29. ASSUME NEW p \in Proc, CloseTicket(p) PROVE PlaceInv'
  BY <1>a, <1>b, <1>29 DEF CloseTicket
<1>30. ASSUME NEW p \in Proc, CheckLease(p) PROVE PlaceInv'
  BY <1>a, <1>b, <1>30 DEF CheckLease
<1>31. ASSUME NEW p \in Proc, StartJob(p) PROVE PlaceInv'
  BY <1>a, <1>b, <1>31 DEF StartJob
<1>32. ASSUME NEW p \in Proc, Abandon(p) PROVE PlaceInv'
  BY <1>a, <1>b, <1>32 DEF Abandon
<1>33. ASSUME NEW p \in Proc, Acknowledge(p) PROVE PlaceInv'
  BY <1>a, <1>b, <1>33 DEF Acknowledge
<1>34. ASSUME NEW p \in Proc, AckEnter(p) PROVE PlaceInv'
  BY <1>a, <1>b, <1>34 DEF AckEnter
<1>35. ASSUME NEW p \in Proc, AckTimeout(p) PROVE PlaceInv'
  BY <1>a, <1>b, <1>35 DEF AckTimeout
<1>36. ASSUME NEW p \in Proc, AckSave(p) PROVE PlaceInv'
  <2>1. \/ state'.queue = state.queue
        \/ pc[p] = "prune" /\ state'.queue = Retained
        \/ pc[p] = "commit" /\ state'.queue = Joined(p).queue
        \/ pc[p] \in {"grant", "rollback", "unqueue"} /\ state'.queue = Without(my[p])
    BY <1>a, <1>36, QueueSaved DEF AckSave
  <2>2. QED
    BY <1>a, <1>b, <1>36, <2>1, TicketsSaved DEF AckSave
<1>37. ASSUME NEW p \in Proc, AckRaises(p) PROVE PlaceInv'
  <2>1. \/ state'.queue = state.queue
        \/ pc[p] = "prune" /\ state'.queue = Retained
        \/ pc[p] = "commit" /\ state'.queue = Joined(p).queue
        \/ pc[p] \in {"grant", "rollback", "unqueue"} /\ state'.queue = Without(my[p])
    BY <1>a, <1>37, QueueSaved DEF AckRaises
  <2>2. QED
    BY <1>a, <1>b, <1>37, <2>1, TicketsSaved DEF AckRaises
<1>38. ASSUME NEW p \in Proc, AckClose(p) PROVE PlaceInv'
  BY <1>a, <1>b, <1>38 DEF AckClose
<1>39. ASSUME NEW p \in Proc, Cancel(p) PROVE PlaceInv'
  BY <1>a, <1>b, <1>39 DEF Cancel
<1>40. ASSUME NEW p \in Proc, HolderFork(p) PROVE PlaceInv'
  BY <1>a, <1>b, <1>40 DEF HolderFork
<1>41. ASSUME NEW p \in Proc, Expire(p) PROVE PlaceInv'
  BY <1>a, <1>b, <1>41 DEF Expire
<1>42. ASSUME NEW p \in Proc, Crash(p) PROVE PlaceInv'
  BY <1>a, <1>b, <1>42 DEF Crash
<1>43. ASSUME NEW t \in Ticket, ChildExits(t) PROVE PlaceInv'
  BY <1>a, <1>b, <1>43 DEF ChildExits
<1>44. ASSUME NEW t \in Ticket, JobEnds(t) PROVE PlaceInv'
  BY <1>a, <1>b, <1>44 DEF JobEnds
<1>45. ASSUME NEW t \in Ticket, JobLosesGuard(t) PROVE PlaceInv'
  BY <1>a, <1>b, <1>45 DEF JobLosesGuard
<1>46. QED
  BY <1>1, <1>2, <1>3, <1>4, <1>5, <1>6, <1>7, <1>8, <1>9, <1>10, <1>11, <1>12, <1>13,
     <1>14, <1>15, <1>16, <1>17, <1>18, <1>19, <1>20, <1>21, <1>22, <1>23, <1>24, <1>25,
     <1>26, <1>27, <1>28, <1>29, <1>30, <1>31, <1>32, <1>33, <1>34, <1>35, <1>36, <1>37,
     <1>38, <1>39, <1>40, <1>41, <1>42, <1>43, <1>44, <1>45 DEF Next, Acquire, Hold,
     Environment


\* Only saves change the record.
LEMMA RecordWrites ==
    ASSUME Next
    PROVE  state' = state \/ \E p \in Proc : pc[p] # "idle" /\ (Save(p) \/ SaveRaises(p))
<1>1. ASSUME NEW p \in Proc, Acquire(p)
      PROVE  state' = state \/ (pc[p] # "idle" /\ (Save(p) \/ SaveRaises(p)))
  BY <1>1 DEF Acquire, MissDeadline, Enter, PruneScan, UnlinkRemoved, RefuseEntries,
     ListEntries,
     SweepOrphan, EndSweep, RefuseFull, CreateTicket, TicketFails, CommitTicket, FindLost,
     RefuseLost, RefuseQuarantined, StayQueued, TakeResource, SaveGrant, ReturnLease,
        PassRaises,
     GrantRaises, RollBack, WithdrawEnter, WithdrawNothing, Unqueue, UnlinkOwn, WithdrawRaises,
     CloseTicket, disk, Pass, Granting
<1>2. ASSUME NEW p \in Proc, Hold(p)
      PROVE  state' = state \/ (pc[p] # "idle" /\ (Save(p) \/ SaveRaises(p)))
  BY <1>2 DEF Hold, CheckLease, StartJob, Abandon, Acknowledge, AckEnter, AckTimeout, AckSave,
     AckRaises, AckClose, disk
<1>3. ASSUME NEW p \in Proc, Request(p) PROVE state' = state
  BY <1>3 DEF Request, disk
<1>4. ASSUME Environment PROVE state' = state
  BY <1>4 DEF Environment, Cancel, HolderFork, Expire, Crash, ChildExits, JobEnds,
     JobLosesGuard, disk
<1>5. QED
  BY <1>1, <1>2, <1>3, <1>4 DEF Next

\* Every step keeps the invariant, ...
LEMMA QueueInvStep ==
    ASSUME LeaseInv, QueueInv, Next
    PROVE  QueueInv'
<1>1. NewTicket'
  BY NewTicketStep DEF QueueInv
<1>2. QueueAccepted'
  <2>1. CASE state' = state
    BY <2>1 DEF QueueInv, QueueAccepted, RecordIsAccepted
  <2>2. CASE \E p \in Proc : pc[p] # "idle" /\ (Save(p) \/ SaveRaises(p))
    BY <2>2, QueueSaved
  <2>3. QED
    BY <2>1, <2>2, RecordWrites
<1>3. PlaceInv'
  BY PlaceStep
<1>4. QED
  BY <1>1, <1>2, <1>3 DEF QueueInv, PlaceInv

\* ... the first state has it, ...
LEMMA InitQueueInv == Init => QueueInv
<1> SUFFICES ASSUME Init PROVE QueueInv
  OBVIOUS
<1>1. /\ state.queue = {} /\ state.next = 0 /\ state.active = NoGrant
      /\ files = {} /\ open = {} /\ todo = {} /\ late = {} /\ requests = 0
      /\ \A p \in Proc : pc[p] = "idle" /\ my[p] = NoTicket
  BY DEF Init
<1>2. NewTicket
  BY <1>1 DEF NewTicket, Waiting, Pass, NoGrant, NoTicket
<1>3. QueueAccepted
  <2>1. Tickets(state.queue) = {} /\ \A k : Group(state.queue, k) = {}
    BY <1>1 DEF Tickets, Group
  <2>2. IsFiniteSet(state.queue) /\ Cardinality(state.queue) = 0
    BY <1>1, FS_EmptySet
  <2>3. \A k : Cardinality(Group(state.queue, k)) = 0
    BY <2>1, FS_EmptySet
  <2>4. QED
    BY <1>1, <2>1, <2>2, <2>3, LeaseAssumption DEF QueueAccepted, RecordIsAccepted
<1>4. PlaceInv
  BY <1>1 DEF PlaceInv, RequestsKnown, Tickets, RoomToJoin, TicketOpen, NotJoined, Joining,
     UnlinksAreDue, IdleIsClear, PlaceIsKept, Pass
<1>5. QED
  BY <1>2, <1>3, <1>4 DEF QueueInv, PlaceInv

\* ... and so it holds for ever, whatever dies, stalls or fails to be written.
THEOREM QueueInvariant == Spec => []QueueInv
<1>1. QueueInv /\ UNCHANGED vars => QueueInv'
  <2> SUFFICES ASSUME QueueInv, UNCHANGED vars PROVE QueueInv'
    OBVIOUS
  <2>1. /\ NewTicket' /\ QueueAccepted'
    BY DEF vars, QueueInv, NewTicket, Waiting, Pass, QueueAccepted, RecordIsAccepted
  <2>2. PlaceInv'
    BY DEF vars, QueueInv, PlaceInv, RequestsKnown, RoomToJoin, Full, TicketOpen, NotJoined,
       Joining, Queued, UnlinksAreDue, IdleIsClear, PlaceIsKept
  <2>3. QED
    BY <2>1, <2>2 DEF QueueInv, PlaceInv
<1>2. LeaseInv /\ QueueInv /\ [Next]_vars => QueueInv'
  BY <1>1, QueueInvStep
<1>3. QED
  BY <1>2, InitQueueInv, LeaseInvariant, PTL DEF Spec

\* No coordinator leaves a record that the next pass refuses: the bounds, the
\* sequence numbers and the entries always pass _state().
THEOREM RecordIsAcceptedAlways == Spec => []RecordIsAccepted
<1>1. QueueInv => RecordIsAccepted
  BY DEF QueueInv, QueueAccepted
<1>2. QED
  BY <1>1, QueueInvariant, PTL

\* A request that has joined and still has time keeps its entry and its ticket
\* file, whoever prunes, sweeps, dies or withdraws meanwhile.
THEOREM PlaceIsKeptAlways == Spec => []PlaceIsKept
<1>1. QueueInv => PlaceIsKept
  BY DEF QueueInv
<1>2. QED
  BY <1>1, QueueInvariant, PTL

----
\* What requesters and holders are told.

\* Only a request past its deadline may find its entry gone.
LateIfLost ==
    /\ \A p \in Proc : pc[p] = "lost" => p \in late
    /\ NeverLost

LEMMA LateIfLostStep ==
    ASSUME LeaseInv, QueueInv, LateIfLost, Next
    PROVE  LateIfLost'
<1> USE DEF LateIfLost, NeverLost, Goto, Tell, Raise, Return, disk, jobs
<1>a. /\ LeaseIsHeld /\ pc \in [Proc -> Steps] /\ code \in [Proc -> Codes]
      /\ late \subseteq Proc
  BY DEF LeaseInv, TypeOK
<1>1. ASSUME NEW p \in Proc, FindLost(p) PROVE LateIfLost'
  <2>1. p \in late
    BY <1>1 DEF FindLost, QueueInv, TicketOpen, PlaceIsKept, Pass
  <2>2. QED
    BY <1>a, <1>1, <2>1 DEF FindLost
<1>2. ASSUME NEW p \in Proc, RefuseLost(p) PROVE LateIfLost'
  BY <1>a, <1>2 DEF RefuseLost
<1>3. ASSUME NEW p \in Proc, Acquire(p), ~FindLost(p), ~RefuseLost(p) PROVE LateIfLost'
  BY <1>a, <1>3 DEF Acquire, MissDeadline, Enter, PruneScan, UnlinkRemoved, RefuseEntries,
     ListEntries, SweepOrphan, EndSweep, RefuseFull, CreateTicket, TicketFails, CommitTicket,
     RefuseQuarantined, StayQueued, TakeResource, SaveGrant, ReturnLease, PassRaises,
     GrantRaises, RollBack, WithdrawEnter, WithdrawNothing, Unqueue, UnlinkOwn, WithdrawRaises,
     CloseTicket
<1>4. ASSUME NEW p \in Proc, Hold(p) PROVE LateIfLost'
  BY <1>a, <1>4 DEF Hold, CheckLease, StartJob, Abandon, Acknowledge, AckEnter, AckTimeout,
     AckSave, AckRaises, AckClose, LeaseIsHeld, Owned, Holding
<1>5. ASSUME NEW p \in Proc, Request(p) PROVE LateIfLost'
  BY <1>a, <1>5 DEF Request
<1>6. ASSUME Environment PROVE LateIfLost'
  BY <1>a, <1>6 DEF Environment, Cancel, HolderFork, Expire, Crash, ChildExits, JobEnds,
     JobLosesGuard
<1>7. QED
  BY <1>1, <1>2, <1>3, <1>4, <1>5, <1>6 DEF Next

\* lost-lease is never told to a requester that only waited nor to a provider
\* that only used its lease, with every fault the model knows of.
THEOREM NeverLostAlways == Spec => []NeverLost
<1>1. Init => LateIfLost
  BY DEF Init, LateIfLost, NeverLost
<1>2. LateIfLost /\ UNCHANGED vars => LateIfLost'
  BY DEF vars, LateIfLost, NeverLost
<1>3. LeaseInv /\ QueueInv /\ LateIfLost /\ [Next]_vars => LateIfLost'
  BY <1>2, LateIfLostStep
<1>4. LateIfLost => NeverLost
  BY DEF LateIfLost
<1>5. QED
  BY <1>1, <1>3, <1>4, LeaseInvariant, QueueInvariant, PTL DEF Spec

\* Without I/O errors an acknowledgement is on record before its guard is closed:
\* a holder only ever closes what it has acknowledged or given up.
LEMMA AcknowledgementStep ==
    ASSUME "io" \notin Faults, LeaseInv, AcknowledgementIsKept, Next
    PROVE  AcknowledgementIsKept'
<1> SUFFICES ASSUME NEW p \in Proc, pc'[p] = "ack_close" PROVE ~HeldBy(my[p])'
  BY DEF AcknowledgementIsKept
<1>a. /\ TypeOK /\ RequestsNamed /\ NamesUnique /\ LeaseIsHeld /\ pc \in [Proc -> Steps]
  BY DEF LeaseInv, TypeOK
<1>1. pc[p] \in Owner \cup {"grant"} /\ my'[p] = my[p]
  BY GrantEffect DEF Owner, Holding
<1>2. CASE pc[p] = "ack_close"
  <2>1. CASE state'.active = state.active
    BY <1>1, <1>2, <2>1 DEF AcknowledgementIsKept, HeldBy
  <2>2. CASE state'.active # state.active
    <3>1. PICK q \in Proc : Writes(q)
      BY <2>2, GrantEffect
    <3>2. pc[q] \in {"grant", "rollback", "ack_save"}
      BY <2>2, <3>1, WriteEffect
    <3>3. my[q] # my[p]
      BY <1>a, <1>2, <3>2 DEF NamesUnique
    <3>4. state'.active.ticket = my[q]
      <4>1. \/ state'.active = [ticket |-> my[q], state |-> "held"]
            \/ state'.active = [ticket |-> my[q], state |-> "releasing"]
        BY <2>2, <3>1, WriteEffect
      <4>2. QED
        BY <4>1
    <3>5. QED
      BY <1>1, <3>3, <3>4 DEF HeldBy
  <2>3. QED
    BY <2>1, <2>2
<1>3. CASE pc[p] # "ack_close"
  <2>1. AckSave(p)
    <3>1. \/ AckSave(p) \/ AckRaises(p)
          \/ AckEnter(p) /\ ~Owned(p)
      <4>1. ASSUME NEW q \in Proc, Acquire(q) PROVE FALSE
        BY <1>a, <1>3, <4>1 DEF Acquire, MissDeadline, Enter, PruneScan, UnlinkRemoved,
           RefuseEntries,
           ListEntries, SweepOrphan, EndSweep, RefuseFull, CreateTicket, TicketFails,
              CommitTicket,
           FindLost, RefuseLost, RefuseQuarantined, StayQueued, TakeResource, SaveGrant,
           ReturnLease, PassRaises, GrantRaises, RollBack, WithdrawEnter, WithdrawNothing,
           Unqueue, UnlinkOwn, WithdrawRaises, CloseTicket, Goto, Raise, Return
      <4>2. ASSUME NEW q \in Proc, Hold(q)
            PROVE  AckSave(p) \/ AckRaises(p) \/ (AckEnter(p) /\ ~Owned(p))
        BY <1>a, <1>3, <4>2 DEF Hold, CheckLease, StartJob, Abandon, Acknowledge, AckEnter,
           AckTimeout, AckSave, AckRaises, AckClose, Goto, Return
      <4>3. ASSUME NEW q \in Proc, Request(q) PROVE FALSE
        BY <1>a, <1>3, <4>3 DEF Request, Goto
      <4>4. ASSUME Environment PROVE FALSE
        BY <1>a, <1>3, <4>4 DEF Environment, Cancel, HolderFork, Expire, Crash, ChildExits,
           JobEnds, JobLosesGuard, Goto, Raise, Return
      <4>5. QED
        BY <4>1, <4>2, <4>3, <4>4 DEF Next
    <3>2. ~AckRaises(p)
      BY DEF AckRaises
    <3>3. ~(AckEnter(p) /\ ~Owned(p))
      BY <1>a DEF AckEnter, LeaseIsHeld, Holding, Owned
    <3>4. QED
      BY <3>1, <3>2, <3>3
  <2>2. state'.active = [ticket |-> my[p], state |-> "releasing"]
    BY <1>a, <2>1, PendingActive DEF AckSave, Save
  <2>3. QED
    BY <2>2 DEF HeldBy
<1>4. QED
  BY <1>2, <1>3

\* The guard of an acknowledged lease is closed after the acknowledgement is on
\* record, as long as no file operation fails.
THEOREM AcknowledgementIsKeptAlways ==
    ASSUME "io" \notin Faults
    PROVE  Spec => []AcknowledgementIsKept
<1>1. Init => AcknowledgementIsKept
  BY DEF Init, AcknowledgementIsKept
<1>2. AcknowledgementIsKept /\ UNCHANGED vars => AcknowledgementIsKept'
  BY DEF vars, AcknowledgementIsKept, HeldBy
<1>3. LeaseInv /\ AcknowledgementIsKept /\ [Next]_vars => AcknowledgementIsKept'
  BY <1>2, AcknowledgementStep
<1>4. QED
  BY <1>1, <1>3, LeaseInvariant, PTL DEF Spec

----
\* What a refusal means.

\* Without I/O errors nothing is rolled back.
NoRollback == "io" \notin Faults => \A p \in Proc : pc[p] # "rollback"

LEMMA NoRollbackStep ==
    ASSUME LeaseInv, NoRollback, Next
    PROVE  NoRollback'
<1> SUFFICES ASSUME "io" \notin Faults, NEW q \in Proc PROVE pc'[q] # "rollback"
  BY DEF NoRollback
<1> USE DEF disk, jobs, Goto, Tell, Raise, Return
<1>a. pc \in [Proc -> Steps] /\ pc[q] # "rollback"
  BY DEF LeaseInv, TypeOK, NoRollback
<1>1. ASSUME NEW p \in Proc, Acquire(p) PROVE pc'[q] # "rollback"
  <2>1. ~TicketFails(p) /\ ~PassRaises(p) /\ ~GrantRaises(p)
    BY DEF TicketFails, PassRaises, GrantRaises
  <2>2. QED
    BY <1>a, <1>1, <2>1 DEF Acquire, MissDeadline, Enter, PruneScan, UnlinkRemoved,
       RefuseEntries, ListEntries, SweepOrphan, EndSweep, RefuseFull, CreateTicket, CommitTicket,
       FindLost, RefuseLost, RefuseQuarantined, StayQueued, TakeResource, SaveGrant, ReturnLease,
       RollBack, WithdrawEnter, WithdrawNothing, Unqueue, UnlinkOwn, WithdrawRaises, CloseTicket
<1>2. ASSUME NEW p \in Proc, Hold(p) PROVE pc'[q] # "rollback"
  BY <1>a, <1>2 DEF Hold, CheckLease, StartJob, Abandon, Acknowledge, AckEnter, AckTimeout,
     AckSave, AckRaises, AckClose
<1>3. ASSUME NEW p \in Proc, Request(p) PROVE pc'[q] # "rollback"
  BY <1>a, <1>3 DEF Request
<1>4. ASSUME Environment PROVE pc'[q] # "rollback"
  BY <1>a, <1>4 DEF Environment, Cancel, HolderFork, Expire, Crash, ChildExits, JobEnds,
     JobLosesGuard
<1>5. QED
  BY <1>1, <1>2, <1>3, <1>4 DEF Next

\* Whoever was told "unavailable" met a grant that nobody can acknowledge any
\* more, and by QuarantineIsForGood it is there for good.
RefusedForGood == (\E p \in Proc : code[p] = "unavailable") => Unprovable

\* A step that keeps the invariant and that tells "unavailable" is the refusal of
\* a quarantine or of the directory.
LEMMA RefusalStep ==
    ASSUME "io" \notin Faults, LeaseInv, QueueInv, NoRollback, Next,
           NEW q \in Proc, code'[q] = "unavailable"
    PROVE  code[q] = "unavailable" \/ RefuseQuarantined(q) \/ RefuseEntries(q)
<1> USE DEF disk, jobs, Goto, Tell, Raise, Return
<1>a. code \in [Proc -> Codes]
  BY DEF LeaseInv, TypeOK
<1>1. ASSUME NEW p \in Proc, Acquire(p)
      PROVE  code[q] = "unavailable" \/ RefuseQuarantined(q) \/ RefuseEntries(q)
  <2>1. CASE RefuseEntries(p)
    BY <1>a, <2>1 DEF RefuseEntries
  <2>2. ~RollBack(p)
    BY DEF RollBack, NoRollback
  <2>3. ~TicketFails(p) /\ ~PassRaises(p)
    BY DEF TicketFails, PassRaises
  <2>4. CASE RefuseQuarantined(p)
    BY <1>a, <2>4 DEF RefuseQuarantined
  <2>5. CASE ~RefuseQuarantined(p) /\ ~RefuseEntries(p)
    BY <1>a, <1>1, <2>2, <2>3, <2>5 DEF Acquire, MissDeadline, Enter, PruneScan,
       UnlinkRemoved, ListEntries, SweepOrphan, EndSweep, RefuseFull, CreateTicket,
          CommitTicket,
       FindLost, RefuseLost, StayQueued, TakeResource, SaveGrant, ReturnLease, GrantRaises,
       WithdrawEnter, WithdrawNothing, Unqueue, UnlinkOwn, WithdrawRaises, CloseTicket
  <2>6. QED
    BY <2>1, <2>4, <2>5
<1>2. ASSUME NEW p \in Proc, Hold(p) PROVE code[q] = "unavailable"
  BY <1>a, <1>2 DEF Hold, CheckLease, StartJob, Abandon, Acknowledge, AckEnter, AckTimeout,
     AckSave, AckRaises, AckClose
<1>3. ASSUME NEW p \in Proc, Request(p) PROVE code[q] = "unavailable"
  BY <1>a, <1>3 DEF Request
<1>4. ASSUME Environment PROVE code[q] = "unavailable"
  BY <1>a, <1>4 DEF Environment, Cancel, HolderFork, Expire, Crash, ChildExits, JobEnds,
     JobLosesGuard
<1>5. QED
  BY <1>1, <1>2, <1>3, <1>4 DEF Next

\* A quarantine that a pass may refuse is one: the free lock shows that no lease
\* is left, and the anchor that none is being made.
LEMMA RefusedIsUnprovable ==
    ASSUME LeaseInv, NEW p \in Proc, RefuseQuarantined(p)
    PROVE  Unprovable /\ Unprovable'
<1>1. Quarantined /\ Available /\ pc[p] = "attempt"
  BY DEF RefuseQuarantined
<1>2. \A q \in Proc : pc[q] \notin Holding \cup Granting
  BY <1>1 DEF LeaseInv, RequestsNamed, ProviderHasGuard, Available, Holding, Granting
<1>3. \A q \in Proc : pc[q] # "rollback"
  BY <1>1 DEF LeaseInv, AnchorExcludes, InRegistry, Pass
<1>4. Unprovable
  BY <1>1, <1>2, <1>3 DEF Unprovable, Granting
<1>5. Next
  BY DEF Next, Acquire
<1>6. QED
  BY <1>4, <1>5, UnprovableStep

\* There are more tickets that no entry names than the slack has room for beside
\* the three files that are no tickets.
Littered == Cardinality(Unreferenced) + 3 > EntrySlack

\* A directory that is refused is littered: the queue accounts for at most
\* MAX_QUEUE of its entries, and three are not tickets.
LEMMA RefusedIsLittered ==
    ASSUME LeaseInv, QueueInv, TooManyEntries
    PROVE  Littered
<1>1. IsFiniteSet(Ticket)
  BY Constants, FS_Interval DEF Ticket
<1>2. files \subseteq Ticket /\ IsFiniteSet(files) /\ Cardinality(files) \in Nat
  BY <1>1, FS_Subset, FS_CardinalityType DEF LeaseInv, TypeOK
<1>3. /\ IsFiniteSet(state.queue) /\ Cardinality(state.queue) \in Nat
      /\ Cardinality(state.queue) <= MAX_QUEUE
  BY FS_CardinalityType DEF QueueInv, QueueAccepted, RecordIsAccepted
<1>4. /\ IsFiniteSet(Tickets(state.queue)) /\ Cardinality(Tickets(state.queue)) \in Nat
      /\ Cardinality(Tickets(state.queue)) <= Cardinality(state.queue)
  <2> DEFINE name == [i \in state.queue |-> i.ticket]
  <2>1. name \in Surjection(state.queue, Tickets(state.queue))
    BY DEF Surjection, Tickets
  <2> HIDE DEF name
  <2>2. QED
    BY <1>3, <2>1, FS_Surjection, FS_CardinalityType
<1>5. PICK referenced : referenced = files \cap Tickets(state.queue)
  OBVIOUS
<1>6. /\ IsFiniteSet(referenced) /\ Cardinality(referenced) \in Nat
      /\ Cardinality(referenced) <= Cardinality(Tickets(state.queue))
  <2>1. referenced \subseteq Tickets(state.queue)
    BY <1>5
  <2>2. QED
    BY <1>4, <2>1, FS_Subset, FS_CardinalityType
<1>7. IsFiniteSet(Unreferenced) /\ Cardinality(Unreferenced) \in Nat
  <2>1. Unreferenced \subseteq files
    BY DEF Unreferenced
  <2>2. QED
    BY <1>2, <2>1, FS_Subset, FS_CardinalityType
<1>8. Cardinality(files) <= Cardinality(Unreferenced) + Cardinality(referenced)
  <2>1. files = Unreferenced \cup referenced /\ Unreferenced \cap referenced = {}
    BY <1>5 DEF Unreferenced
  <2>2. Cardinality(Unreferenced \cup referenced) =
          Cardinality(Unreferenced) + Cardinality(referenced) - Cardinality(Unreferenced \cap referenced)
    BY <1>6, <1>7, FS_Union
  <2>3. Cardinality(Unreferenced \cap referenced) = 0
    BY <2>1, FS_EmptySet
  <2>4. Cardinality(files) =
          Cardinality(Unreferenced) + Cardinality(referenced) - Cardinality(Unreferenced \cap referenced)
    BY <2>1, <2>2, Zenon
  <2>5. QED
    BY <1>6, <1>7, <2>3, <2>4
<1>9. Entries <= 3 + Cardinality(files) /\ Entries > MAX_QUEUE + EntrySlack
  BY <1>2 DEF Entries, TooManyEntries
<1>10. QED
  BY <1>2, <1>3, <1>4, <1>6, <1>7, <1>8, <1>9, LeaseAssumption DEF Littered, Entries

\* Without a bound on the directory, a request is told "unavailable" for one of two
\* causes: a grant that nobody can acknowledge any more, or more tickets without
\* an entry than the slack of prune() has room for.
RefusalHasCause ==
    [][\A q \in Proc : code'[q] = "unavailable" /\ code[q] # "unavailable"
                        => Unprovable \/ Littered]_vars

\* RefusalHasCause holds while no file operation of a step fails, whatever the
\* bounds on processes, deaths and directory entries are.
THEOREM RefusalHasCauseAlways ==
    ASSUME "io" \notin Faults
    PROVE  Spec => RefusalHasCause
<1>1. Init => NoRollback
  BY DEF Init, NoRollback
<1>2. LeaseInv /\ QueueInv /\ NoRollback /\ [Next]_vars => NoRollback'
  <2>1. NoRollback /\ UNCHANGED vars => NoRollback'
    BY DEF vars, NoRollback
  <2>2. QED
    BY <2>1, NoRollbackStep
<1>3. LeaseInv /\ QueueInv /\ NoRollback /\ [Next]_vars =>
        [\A q \in Proc : code'[q] = "unavailable" /\ code[q] # "unavailable"
                         => Unprovable \/ Littered]_vars
  <2> SUFFICES ASSUME LeaseInv, QueueInv, NoRollback, Next,
                      NEW q \in Proc, code'[q] = "unavailable", code[q] # "unavailable"
               PROVE  Unprovable \/ Littered
    OBVIOUS
  <2>1. CASE RefuseQuarantined(q)
    BY <2>1, RefusedIsUnprovable
  <2>2. CASE RefuseEntries(q)
    BY <2>2, RefusedIsLittered DEF RefuseEntries
  <2>3. QED
    BY <2>1, <2>2, RefusalStep
<1>4. QED
  BY <1>1, <1>2, <1>3, LeaseInvariant, QueueInvariant, PTL DEF Spec, RefusalHasCause

----
\* What the dead leave in the directory.

\* The tickets that no entry names and that no pass is at work on.
Litter == {t \in Unreferenced : \A p \in Proc : t \notin Duty(p)}

\* A pass is never at work on more tickets than a queue has.
DutyFits ==
    \A p \in Proc : IsFiniteSet(Duty(p)) /\ Cardinality(Duty(p)) <= MAX_QUEUE

\* Only a death leaves litter: every other step of a pass keeps or sweeps.
LEMMA LitterStep ==
    ASSUME "io" \notin Faults, LeaseInv, NoRollback, Next, \A p \in Proc : ~Crash(p)
    PROVE  Litter' \subseteq Litter
<1> USE Constants DEF disk, jobs, Goto, Tell, Raise, Return, TypeOK, NamesUnique,
   AnchorExcludes, InRegistry, Pass, Granting, Holding, Litter, Duty, Unreferenced
<1>a. /\ TypeOK /\ NamesUnique /\ AnchorExcludes
  BY DEF LeaseInv
<1>1. ASSUME NEW p \in Proc, Request(p) PROVE Litter' \subseteq Litter
  BY <1>a, <1>1 DEF Request
<1>2. ASSUME NEW p \in Proc, MissDeadline(p) PROVE Litter' \subseteq Litter
  BY <1>a, <1>2 DEF MissDeadline
<1>3. ASSUME NEW p \in Proc, Enter(p) PROVE Litter' \subseteq Litter
  BY <1>a, <1>3 DEF Enter
<1>4. ASSUME NEW p \in Proc, PruneScan(p) PROVE Litter' \subseteq Litter
  <2>1. state' = Pruned /\ (temp' = FALSE \/ temp' = temp)
    BY <1>a, <1>4, PendingSaves DEF PruneScan, Save
  <2>2. state'.queue = Retained
    BY <1>a, <2>1 DEF Pruned, Record
  <2>3. QED
    BY <1>a, <1>4, <2>1, <2>2, TicketsSaved DEF PruneScan
<1>5. ASSUME NEW p \in Proc, UnlinkRemoved(p) PROVE Litter' \subseteq Litter
  BY <1>a, <1>5 DEF UnlinkRemoved
<1>6. ASSUME NEW p \in Proc, RefuseEntries(p) PROVE Litter' \subseteq Litter
  BY <1>a, <1>6 DEF RefuseEntries
<1>7. ASSUME NEW p \in Proc, ListEntries(p) PROVE Litter' \subseteq Litter
  BY <1>a, <1>7 DEF ListEntries
<1>8. ASSUME NEW p \in Proc, SweepOrphan(p) PROVE Litter' \subseteq Litter
  BY <1>a, <1>8 DEF SweepOrphan
<1>9. ASSUME NEW p \in Proc, EndSweep(p) PROVE Litter' \subseteq Litter
  BY <1>a, <1>9 DEF EndSweep
<1>10. ASSUME NEW p \in Proc, RefuseFull(p) PROVE Litter' \subseteq Litter
  BY <1>a, <1>10 DEF RefuseFull
<1>11. ASSUME NEW p \in Proc, CreateTicket(p) PROVE Litter' \subseteq Litter
  <2>1. my[p] \in Ticket
    BY <1>a, <1>11 DEF CreateTicket, LeaseInv, RequestsNamed
  <2>2. my[p] \in Duty(p)'
    BY <1>a, <1>11, <2>1 DEF CreateTicket
  <2>3. my[p] \notin Litter' /\ files' = files \cup {my[p]} /\ state' = state
    BY <1>11, <2>2 DEF CreateTicket
  <2>4. \A q \in Proc : Duty(q) \subseteq Duty(q)'
    BY <1>a, <1>11 DEF CreateTicket
  <2> QED
    BY <2>3, <2>4
<1>12. ASSUME NEW p \in Proc, TicketFails(p) PROVE Litter' \subseteq Litter
  BY <1>a, <1>12 DEF TicketFails
<1>13. ASSUME NEW p \in Proc, CommitTicket(p) PROVE Litter' \subseteq Litter
  <2>1. state' = Joined(p) /\ temp' = FALSE
    BY <1>a, <1>13, PendingSaves DEF CommitTicket, Save
  <2>2. state'.queue = Joined(p).queue
    BY <1>a, <2>1 DEF Joined, Record
  <2>3. QED
    BY <1>a, <1>13, <2>1, <2>2, TicketsSaved DEF CommitTicket
<1>14. ASSUME NEW p \in Proc, FindLost(p) PROVE Litter' \subseteq Litter
  BY <1>a, <1>14 DEF FindLost
<1>15. ASSUME NEW p \in Proc, RefuseLost(p) PROVE Litter' \subseteq Litter
  BY <1>a, <1>15 DEF RefuseLost
<1>16. ASSUME NEW p \in Proc, RefuseQuarantined(p) PROVE Litter' \subseteq Litter
  BY <1>a, <1>16 DEF RefuseQuarantined
<1>17. ASSUME NEW p \in Proc, StayQueued(p) PROVE Litter' \subseteq Litter
  BY <1>a, <1>17 DEF StayQueued
<1>18. ASSUME NEW p \in Proc, TakeResource(p) PROVE Litter' \subseteq Litter
  BY <1>a, <1>18 DEF TakeResource
<1>19. ASSUME NEW p \in Proc, SaveGrant(p) PROVE Litter' \subseteq Litter
  <2>1. state' = Granted(p) /\ temp' = FALSE
    BY <1>a, <1>19, PendingSaves DEF SaveGrant, Save
  <2>2. state'.queue = Without(my[p])
    BY <1>a, <2>1 DEF Granted, Record
  <2>3. QED
    BY <1>a, <1>19, <2>1, <2>2, TicketsSaved DEF SaveGrant
<1>20. ASSUME NEW p \in Proc, ReturnLease(p) PROVE Litter' \subseteq Litter
  BY <1>a, <1>20 DEF ReturnLease
<1>21. ASSUME NEW p \in Proc, PassRaises(p) PROVE Litter' \subseteq Litter
  BY <1>a, <1>21 DEF PassRaises
<1>22. ASSUME NEW p \in Proc, GrantRaises(p) PROVE Litter' \subseteq Litter
  BY <1>a, <1>22 DEF GrantRaises
<1>23. ASSUME NEW p \in Proc, RollBack(p) PROVE Litter' \subseteq Litter
  BY <1>a, <1>23 DEF RollBack, NoRollback
<1>24. ASSUME NEW p \in Proc, WithdrawEnter(p) PROVE Litter' \subseteq Litter
  BY <1>a, <1>24 DEF WithdrawEnter
<1>25. ASSUME NEW p \in Proc, WithdrawNothing(p) PROVE Litter' \subseteq Litter
  BY <1>a, <1>25 DEF WithdrawNothing
<1>26. ASSUME NEW p \in Proc, Unqueue(p) PROVE Litter' \subseteq Litter
  <2>1. state' = Unqueued(p) /\ temp' = FALSE
    BY <1>a, <1>26, PendingSaves DEF Unqueue, Save
  <2>2. state'.queue = Without(my[p])
    BY <1>a, <2>1 DEF Unqueued, Record
  <2>3. QED
    BY <1>a, <1>26, <2>1, <2>2, TicketsSaved DEF Unqueue
<1>27. ASSUME NEW p \in Proc, UnlinkOwn(p) PROVE Litter' \subseteq Litter
  BY <1>a, <1>27 DEF UnlinkOwn
<1>28. ASSUME NEW p \in Proc, WithdrawRaises(p) PROVE Litter' \subseteq Litter
  BY <1>a, <1>28 DEF WithdrawRaises
<1>29. ASSUME NEW p \in Proc, CloseTicket(p) PROVE Litter' \subseteq Litter
  BY <1>a, <1>29 DEF CloseTicket
<1>30. ASSUME NEW p \in Proc, CheckLease(p) PROVE Litter' \subseteq Litter
  BY <1>a, <1>30 DEF CheckLease
<1>31. ASSUME NEW p \in Proc, StartJob(p) PROVE Litter' \subseteq Litter
  BY <1>a, <1>31 DEF StartJob
<1>32. ASSUME NEW p \in Proc, Abandon(p) PROVE Litter' \subseteq Litter
  BY <1>a, <1>32 DEF Abandon
<1>33. ASSUME NEW p \in Proc, Acknowledge(p) PROVE Litter' \subseteq Litter
  BY <1>a, <1>33 DEF Acknowledge
<1>34. ASSUME NEW p \in Proc, AckEnter(p) PROVE Litter' \subseteq Litter
  BY <1>a, <1>34 DEF AckEnter
<1>35. ASSUME NEW p \in Proc, AckTimeout(p) PROVE Litter' \subseteq Litter
  BY <1>a, <1>35 DEF AckTimeout
<1>36. ASSUME NEW p \in Proc, AckSave(p) PROVE Litter' \subseteq Litter
  <2>1. state' = Released /\ temp' = FALSE
    BY <1>a, <1>36, PendingSaves DEF AckSave, Save
  <2>2. state'.queue = state.queue
    BY <1>a, <2>1 DEF Released, Record
  <2>3. QED
    BY <1>a, <1>36, <2>1, <2>2, TicketsSaved DEF AckSave
<1>37. ASSUME NEW p \in Proc, AckRaises(p) PROVE Litter' \subseteq Litter
  BY <1>a, <1>37 DEF AckRaises
<1>38. ASSUME NEW p \in Proc, AckClose(p) PROVE Litter' \subseteq Litter
  BY <1>a, <1>38 DEF AckClose
<1>39. ASSUME NEW p \in Proc, Cancel(p) PROVE Litter' \subseteq Litter
  BY <1>a, <1>39 DEF Cancel
<1>40. ASSUME NEW p \in Proc, HolderFork(p) PROVE Litter' \subseteq Litter
  BY <1>a, <1>40 DEF HolderFork
<1>41. ASSUME NEW p \in Proc, Expire(p) PROVE Litter' \subseteq Litter
  BY <1>a, <1>41 DEF Expire
<1>42. ASSUME NEW p \in Proc, Crash(p) PROVE Litter' \subseteq Litter
  BY <1>42
<1>43. ASSUME NEW t \in Ticket, ChildExits(t) PROVE Litter' \subseteq Litter
  BY <1>a, <1>43 DEF ChildExits
<1>44. ASSUME NEW t \in Ticket, JobEnds(t) PROVE Litter' \subseteq Litter
  BY <1>a, <1>44 DEF JobEnds
<1>45. ASSUME NEW t \in Ticket, JobLosesGuard(t) PROVE Litter' \subseteq Litter
  BY <1>a, <1>45 DEF JobLosesGuard
<1>46. QED
  BY <1>1, <1>2, <1>3, <1>4, <1>5, <1>6, <1>7, <1>8, <1>9, <1>10, <1>11, <1>12,
     <1>13, <1>14, <1>15, <1>16, <1>17, <1>18, <1>19, <1>20, <1>21, <1>22, <1>23,
     <1>24, <1>25, <1>26, <1>27, <1>28, <1>29, <1>30, <1>31, <1>32, <1>33, <1>34,
     <1>35, <1>36, <1>37, <1>38, <1>39, <1>40, <1>41, <1>42, <1>43, <1>44, <1>45 DEF
     Next, Acquire, Hold, Environment

\* A death leaves what the process was at work on.
LEMMA DeathLeaves ==
    ASSUME LeaseInv, NEW p \in Proc, Crash(p)
    PROVE  Litter' \subseteq Litter \cup Duty(p)
<1> USE DEF disk, Return, Goto
<1>1. /\ pc \in [Proc -> Steps] /\ state' = state /\ files' = files
      /\ pc' = [pc EXCEPT ![p] = "idle"] /\ my' = [my EXCEPT ![p] = NoTicket]
      /\ my \in [Proc -> Ticket \cup {NoTicket}]
      /\ todo' = IF anchor = p THEN {} ELSE todo
  BY DEF Crash, LeaseInv, TypeOK
<1>2. \A q \in Proc : q # p => Duty(q) \subseteq Duty(q)'
  <2> SUFFICES ASSUME NEW q \in Proc, q # p, NEW t \in Duty(q) PROVE t \in Duty(q)'
    OBVIOUS
  <2>1. pc'[q] = pc[q] /\ my'[q] = my[q]
    BY <1>1
  <2>2. pc[q] = "unlink" => todo' = todo
    BY <1>1 DEF LeaseInv, AnchorExcludes, InRegistry, Pass
  <2> QED
    BY <2>1, <2>2 DEF Duty
<1> QED
  BY <1>1, <1>2 DEF Litter, Unreferenced

\* The duty of a pass is never more than a queue.
LEMMA DutyStep ==
    ASSUME LeaseInv, QueueInv, DutyFits, Next
    PROVE  DutyFits'
<1> SUFFICES ASSUME NEW q \in Proc
             PROVE  IsFiniteSet(Duty(q)') /\ Cardinality(Duty(q)') <= MAX_QUEUE
  BY DEF DutyFits
<1>1. MAX_QUEUE \in Nat \ {0}
  BY LeaseAssumption
<1>2. IsFiniteSet(state.queue) /\ Cardinality(state.queue) \in Nat /\ Cardinality(state.queue) <= MAX_QUEUE
  BY FS_CardinalityType DEF QueueInv, QueueAccepted, RecordIsAccepted
<1>3. CASE pc'[q] # "unlink"
  <2>1. Duty(q)' \subseteq {my'[q]}
    BY <1>3 DEF Duty
  <2>2. IsFiniteSet({my'[q]}) /\ Cardinality({my'[q]}) = 1
    BY FS_Singleton
  <2> QED
    BY <1>1, <2>1, <2>2, FS_Subset, FS_CardinalityType
<1>4. CASE pc'[q] = "unlink"
  <2>1. \/ todo' \subseteq todo /\ pc[q] = "unlink"
        \/ todo' = Tickets(Removed)
    <3> USE <1>4 DEF Goto, Raise, Return
    <3>1. pc \in [Proc -> Steps] /\ AnchorExcludes
      BY DEF LeaseInv, TypeOK
    <3>2. CASE \E p \in Proc : PruneScan(p)
      BY <3>2 DEF PruneScan
    <3>3. \A p \in Proc : ~ListEntries(p)
      BY <3>1 DEF ListEntries, AnchorExcludes, InRegistry, Pass
    <3>4. ASSUME NEW p \in Proc, Acquire(p), ~PruneScan(p)
          PROVE  todo' \subseteq todo /\ pc[q] = "unlink"
      BY <3>1, <3>3, <3>4 DEF Acquire, MissDeadline, Enter, UnlinkRemoved, RefuseEntries, SweepOrphan,
         EndSweep, RefuseFull, CreateTicket, TicketFails, CommitTicket, FindLost, RefuseLost,
         RefuseQuarantined, StayQueued, TakeResource, SaveGrant, ReturnLease, PassRaises,
         GrantRaises, RollBack, WithdrawEnter, WithdrawNothing, Unqueue, UnlinkOwn,
         WithdrawRaises, CloseTicket
    <3>5. ASSUME NEW p \in Proc, Hold(p) \/ Request(p)
          PROVE  todo' \subseteq todo /\ pc[q] = "unlink"
      BY <3>1, <3>5 DEF Request, Hold, CheckLease, StartJob, Abandon, Acknowledge, AckEnter,
         AckTimeout, AckSave, AckRaises, AckClose
    <3>6. CASE Environment
      BY <3>1, <3>6 DEF Environment, Cancel, HolderFork, Expire, Crash, ChildExits, JobEnds,
         JobLosesGuard
    <3> QED
      BY <3>2, <3>4, <3>5, <3>6 DEF Next
  <2>2. CASE todo' \subseteq todo /\ pc[q] = "unlink"
    <3>1. Duty(q)' \subseteq Duty(q)
      BY <1>4, <2>2 DEF Duty
    <3> QED
      BY <1>1, <3>1, FS_Subset, FS_CardinalityType DEF DutyFits
  <2>3. CASE todo' = Tickets(Removed)
    <3> DEFINE name == [i \in state.queue |-> i.ticket]
    <3>1. name \in Surjection(state.queue, Tickets(state.queue))
      BY DEF Surjection, Tickets
    <3> HIDE DEF name
    <3>2. /\ IsFiniteSet(Tickets(state.queue)) /\ Cardinality(Tickets(state.queue)) \in Nat
          /\ Cardinality(Tickets(state.queue)) <= Cardinality(state.queue)
      BY <1>2, <3>1, FS_Surjection, FS_CardinalityType
    <3>3. Duty(q)' \subseteq Tickets(state.queue)
      BY <1>4, <2>3 DEF Duty, Tickets, Removed
    <3> QED
      BY <1>1, <1>2, <3>2, <3>3, FS_Subset, FS_CardinalityType
  <2> QED
    BY <2>1, <2>2, <2>3
<1> QED
  BY <1>3, <1>4

\* The invariant of the counts.
DeathInv ==
    /\ deaths \in Nat /\ unfinished \in Nat /\ DutyFits
    /\ Cardinality(Litter) <= unfinished
    /\ unfinished <= deaths * MAX_QUEUE

\* One process dies at a time.
LEMMA OneDies ==
    ASSUME LeaseInv, NEW p \in Proc, Crash(p)
    PROVE  {q \in Proc : Crash(q)} = {p}
<1> SUFFICES ASSUME NEW q \in Proc, Crash(q), q # p PROVE FALSE
  OBVIOUS
<1>1. pc \in [Proc -> Steps]
  BY DEF LeaseInv, TypeOK
<1>2. pc' = [pc EXCEPT ![p] = "idle"] /\ pc' = [pc EXCEPT ![q] = "idle"] /\ pc[q] # "idle"
  BY DEF Crash, Return, Goto
<1>3. QED
  BY <1>1, <1>2

\* What a step counts.
LEMMA CountStep ==
    ASSUME LeaseInv, DeathInv, CountDeaths
    PROVE  /\ (\A p \in Proc : ~Crash(p)) => deaths' = deaths /\ unfinished' = unfinished
           /\ \A p \in Proc : Crash(p) =>
                 deaths' = deaths + 1 /\ unfinished' = unfinished + Cardinality(Duty(p))
<1> DEFINE dead == {p \in Proc : Crash(p)}
<1>1. /\ deaths' = deaths + Cardinality(dead)
      /\ unfinished' = unfinished + Cardinality(UNION {Duty(p) : p \in dead})
  BY DEF CountDeaths
<1>2. deaths \in Nat /\ unfinished \in Nat
  BY DEF DeathInv
<1>3. CASE \A p \in Proc : ~Crash(p)
  <2>1. dead = {}
    BY <1>3
  <2> HIDE DEF dead
  <2>2. UNION {Duty(p) : p \in dead} = {} /\ Cardinality({}) = 0
    BY <2>1, FS_EmptySet
  <2>3. QED
    BY <1>1, <1>2, <1>3, <2>1, <2>2
<1>4. ASSUME NEW p \in Proc, Crash(p)
      PROVE  deaths' = deaths + 1 /\ unfinished' = unfinished + Cardinality(Duty(p))
  <2>1. dead = {p}
    BY <1>4, OneDies
  <2> HIDE DEF dead
  <2>2. UNION {Duty(q) : q \in dead} = Duty(p) /\ Cardinality(dead) = 1
    BY <2>1, FS_Singleton
  <2>3. QED
    BY <1>1, <2>2
<1>5. QED
  BY <1>3, <1>4

LEMMA DeathStep ==
    ASSUME "io" \notin Faults, LeaseInv, LeaseInv', QueueInv, NoRollback, DeathInv, Next,
           CountDeaths
    PROVE  DeathInv'
<1>1. deaths \in Nat /\ unfinished \in Nat /\ MAX_QUEUE \in Nat \ {0}
  BY LeaseAssumption DEF DeathInv
<1>2. IsFiniteSet(Litter) /\ Cardinality(Litter) \in Nat
      /\ IsFiniteSet(Litter') /\ Cardinality(Litter') \in Nat
  <2>1. IsFiniteSet(Ticket)
    BY Constants, FS_Interval DEF Ticket
  <2>2. Litter \subseteq Ticket /\ Litter' \subseteq Ticket
    BY DEF LeaseInv, TypeOK, Litter, Unreferenced
  <2> QED
    BY <2>1, <2>2, FS_Subset, FS_CardinalityType
<1>3. DutyFits'
  BY DutyStep DEF DeathInv
<1>4. CASE \A p \in Proc : ~Crash(p)
  <2>1. Litter' \subseteq Litter /\ deaths' = deaths /\ unfinished' = unfinished
    BY <1>4, LitterStep, CountStep
  <2>2. Cardinality(Litter') <= Cardinality(Litter)
    BY <1>2, <2>1, FS_Subset
  <2> QED
    BY <1>1, <1>2, <1>3, <2>1, <2>2 DEF DeathInv
<1>5. CASE \E p \in Proc : Crash(p)
  <2>1. PICK p \in Proc : Crash(p)
    BY <1>5
  <2>2. /\ Litter' \subseteq Litter \cup Duty(p)
        /\ deaths' = deaths + 1 /\ unfinished' = unfinished + Cardinality(Duty(p))
    BY <2>1, DeathLeaves, CountStep
  <2>3. IsFiniteSet(Duty(p)) /\ Cardinality(Duty(p)) \in Nat /\ Cardinality(Duty(p)) <= MAX_QUEUE
    BY FS_CardinalityType DEF DeathInv, DutyFits
  <2>4. /\ IsFiniteSet(Litter \cup Duty(p)) /\ IsFiniteSet(Litter \cap Duty(p))
        /\ Cardinality(Litter \cup Duty(p))
              = Cardinality(Litter) + Cardinality(Duty(p)) - Cardinality(Litter \cap Duty(p))
    BY <1>2, <2>3, FS_Union, FS_Subset
  <2>5. /\ Cardinality(Litter \cap Duty(p)) \in Nat
        /\ Cardinality(Litter') <= Cardinality(Litter \cup Duty(p))
    BY <2>2, <2>4, FS_Subset, FS_CardinalityType
  <2>6. (deaths + 1) * MAX_QUEUE = deaths * MAX_QUEUE + MAX_QUEUE /\ deaths * MAX_QUEUE \in Nat
    BY <1>1
  <2>7. Cardinality(Litter') <= unfinished'
    BY <1>1, <1>2, <2>2, <2>3, <2>4, <2>5 DEF DeathInv
  <2>8. unfinished' <= deaths' * MAX_QUEUE
    BY <1>1, <2>2, <2>3, <2>6 DEF DeathInv
  <2> QED
    BY <1>1, <1>3, <2>2, <2>3, <2>7, <2>8 DEF DeathInv
<1> QED
  BY <1>4, <1>5

\* The counted processes are those of DeviceLease.
LEMMA CountedIsSpec == CountedSpec => Spec
<1>1. CountedInit => Init
  BY DEF CountedInit
<1>2. [CountedNext]_countedVars => [Next]_vars
  BY DEF CountedNext, countedVars
<1> QED
  BY <1>1, <1>2, PTL DEF CountedSpec, Spec

\* The counts are what they are said to be.
LEMMA DeathInvariant ==
    ASSUME "io" \notin Faults
    PROVE  CountedSpec => [](NoRollback /\ DeathInv)
<1>1. CountedInit => NoRollback /\ DeathInv
  <2> SUFFICES ASSUME CountedInit PROVE NoRollback /\ DeathInv
    OBVIOUS
  <2>1. deaths = 0 /\ unfinished = 0 /\ files = {} /\ \A p \in Proc : pc[p] = "idle"
    BY DEF CountedInit, Init
  <2>2. Litter = {} /\ \A p \in Proc : Duty(p) = {}
    BY <2>1 DEF Litter, Unreferenced, Duty
  <2>3. IsFiniteSet({}) /\ Cardinality({}) = 0 /\ MAX_QUEUE \in Nat
    BY FS_EmptySet, LeaseAssumption
  <2> QED
    <3>1. NoRollback
      BY <2>1 DEF NoRollback
    <3>2. DutyFits /\ deaths \in Nat /\ unfinished \in Nat
      BY <2>1, <2>2, <2>3 DEF DutyFits
    <3>3. Cardinality(Litter) <= unfinished /\ unfinished <= deaths * MAX_QUEUE
      BY <2>1, <2>2, <2>3
    <3> QED
      BY <3>1, <3>2, <3>3 DEF DeathInv
<1>2. LeaseInv /\ NoRollback /\ [CountedNext]_countedVars => NoRollback'
  <2>1. NoRollback /\ UNCHANGED countedVars => NoRollback'
    BY DEF countedVars, vars, NoRollback
  <2> QED
    BY <2>1, NoRollbackStep DEF CountedNext
<1>3. LeaseInv /\ LeaseInv' /\ QueueInv /\ NoRollback /\ DeathInv /\ [CountedNext]_countedVars
        => DeathInv'
  <2>1. DeathInv /\ UNCHANGED countedVars => DeathInv'
    BY DEF countedVars, vars, DeathInv, DutyFits, Duty, Litter, Unreferenced
  <2> QED
    BY <2>1, DeathStep DEF CountedNext
<1> QED
  BY <1>1, <1>2, <1>3, CountedIsSpec, LeaseInvariant, QueueInvariant, PTL DEF CountedSpec

\* Nobody is at work on a ticket where the anchor is free, or where the directory is
\* counted: all that lies there unreferenced is litter.
LEMMA CountedIsLitter ==
    ASSUME LeaseInv, anchor = None \/ \E p \in Proc : pc[p] = "unlink" /\ todo = {}
    PROVE  Litter = Unreferenced
<1>1. \A p \in Proc : Duty(p) = {}
  BY Constants DEF Duty, LeaseInv, AnchorExcludes, InRegistry, Pass, Granting
<1>2. QED
  BY <1>1 DEF Litter

\* The tickets in the directory that no entry names are from the dead, no more than
\* they were at work on, which is at most a queue of them for each, for any number
\* of processes and requests.
THEOREM LitterIsOfTheDeadAlways ==
    ASSUME "io" \notin Faults
    PROVE  CountedSpec => []LitterIsOfTheDead
<1>1. LeaseInv /\ DeathInv => LitterIsOfTheDead
  BY CountedIsLitter DEF DeathInv, LitterIsOfTheDead
<1> QED
  BY <1>1, CountedIsSpec, LeaseInvariant, DeathInvariant, PTL

\* A directory is not refused while the slack has room for what the dead left.
LEMMA SparedIsCounted ==
    ASSUME LeaseInv, QueueInv, DeathInv, Spared, NEW p \in Proc
    PROVE  ~RefuseEntries(p)
<1> SUFFICES ASSUME RefuseEntries(p) PROVE FALSE
  OBVIOUS
<1>1. pc[p] = "unlink" /\ todo = {} /\ TooManyEntries
  BY DEF RefuseEntries
<1>2. Cardinality(Unreferenced) <= unfinished /\ unfinished \in Nat
  BY <1>1, CountedIsLitter DEF DeathInv
<1>3. Cardinality(Unreferenced) + 3 > EntrySlack
  BY <1>1, RefusedIsLittered DEF Littered
<1>4. Cardinality(Unreferenced) \in Nat /\ EntrySlack \in Nat
  <2>1. IsFiniteSet(Ticket)
    BY Constants, FS_Interval DEF Ticket
  <2>2. Unreferenced \subseteq Ticket
    BY DEF LeaseInv, TypeOK, Unreferenced
  <2> QED
    BY <2>1, <2>2, FS_Subset, FS_CardinalityType, LeaseAssumption
<1>5. QED
  BY <1>2, <1>3, <1>4 DEF Spared

\* The dead only ever leave more undone.
LEMMA SparedBefore ==
    ASSUME LeaseInv, DeathInv, CountDeaths, Spared'
    PROVE  Spared
<1>1. unfinished \in Nat /\ EntrySlack \in Nat /\ unfinished' + 3 <= EntrySlack
  BY LeaseAssumption DEF DeathInv, Spared
<1>2. \A p \in Proc : Cardinality(Duty(p)) \in Nat
  BY FS_CardinalityType DEF DeathInv, DutyFits
<1>3. PICK n \in Nat : unfinished' = unfinished + n
  BY <1>1, <1>2, CountStep
<1>4. \A a, c \in Nat : \A b \in Nat : a + b + 3 <= c => a + 3 <= c
  OBVIOUS
<1>5. unfinished + n + 3 <= EntrySlack
  BY <1>1, <1>3
<1>6. QED
  BY <1>1, <1>4, <1>5 DEF Spared

\* Whoever is told "unavailable" found a grant whose provider can no longer
\* acknowledge it, with any number of deaths at any steps, as long as the slack has
\* room for the tickets that the dead were at work on, and files can be read and
\* written.  With the slack of five in the code there is room for two of them.
THEOREM RefusalIsJustAlways ==
    ASSUME "io" \notin Faults
    PROVE  CountedSpec => []RefusalIsJust
<1> DEFINE Just == Spared => RefusedForGood
<1>1. CountedInit => Just
  BY DEF CountedInit, Init, RefusedForGood
<1>2. LeaseInv /\ QueueInv /\ NoRollback /\ DeathInv /\ DeathInv' /\ Just
        /\ [CountedNext]_countedVars => Just'
  <2> SUFFICES ASSUME LeaseInv, QueueInv, NoRollback, DeathInv, DeathInv', Just,
                      [CountedNext]_countedVars, Spared'
               PROVE  RefusedForGood'
    OBVIOUS
  <2>1. CASE UNCHANGED countedVars
    BY <2>1 DEF countedVars, vars, Spared, RefusedForGood, Unprovable, Quarantined, Owned, HeldBy
  <2>2. CASE Next /\ CountDeaths
    <3>1. Spared
      BY <2>2, SparedBefore
    <3> SUFFICES ASSUME NEW q \in Proc, code'[q] = "unavailable" PROVE Unprovable'
      BY DEF RefusedForGood
    <3>2. CASE code[q] = "unavailable"
      BY <2>2, <3>1, <3>2, UnprovableStep DEF RefusedForGood
    <3>3. CASE RefuseQuarantined(q)
      BY <3>3, RefusedIsUnprovable
    <3>4. ~RefuseEntries(q)
      BY <3>1, SparedIsCounted
    <3>5. QED
      BY <2>2, <3>2, <3>3, <3>4, RefusalStep
  <2>3. QED
    BY <2>1, <2>2 DEF CountedNext
<1>3. Just => RefusalIsJust
  BY DEF RefusalIsJust, RefusedForGood, Unprovable, UnavailableMeansQuarantine
<1> HIDE DEF Just
<1>4. QED
  BY <1>1, <1>2, <1>3, CountedIsSpec, LeaseInvariant, QueueInvariant, DeathInvariant, PTL
     DEF CountedSpec

\* One coordinator that is killed, at any step, does not wedge the queue: what it
\* leaves is within the limit of a directory that a pass still sweeps, given two
\* entries of slack for the files that are no tickets.
THEOREM OneDeathIsSweptAlways ==
    ASSUME "io" \notin Faults, EntrySlack >= 2
    PROVE  CountedSpec => []OneDeathIsSwept
<1>1. LitterIsOfTheDead /\ DeathInv /\ LeaseInv => OneDeathIsSwept
  <2> SUFFICES ASSUME LitterIsOfTheDead, DeathInv, LeaseInv, deaths <= 1, anchor = None
               PROVE  2 + Cardinality(Unreferenced) <= MAX_QUEUE + EntrySlack
    BY DEF OneDeathIsSwept, NeverWedged
  <2>1. IsFiniteSet(Unreferenced) /\ Cardinality(Unreferenced) \in Nat
    <3>1. IsFiniteSet(Ticket)
      BY Constants, FS_Interval DEF Ticket
    <3>2. Unreferenced \subseteq Ticket
      BY DEF LeaseInv, TypeOK, Unreferenced
    <3> QED
      BY <3>1, <3>2, FS_Subset, FS_CardinalityType
  <2>2. MAX_QUEUE \in Nat /\ EntrySlack \in Nat /\ deaths \in {0, 1} /\ unfinished \in Nat
    BY LeaseAssumption DEF DeathInv
  <2>3. deaths * MAX_QUEUE <= MAX_QUEUE
    BY <2>2
  <2>4. Cardinality(Unreferenced) <= unfinished /\ unfinished <= deaths * MAX_QUEUE
    BY DEF LitterIsOfTheDead
  <2> QED
    BY <2>1, <2>2, <2>3, <2>4
<1> QED
  BY <1>1, CountedIsSpec, LeaseInvariant, DeathInvariant, LitterIsOfTheDeadAlways, PTL

----
\* The rotation: what the processes make of the queue is what FairQueue does.
Rotation == INSTANCE LeaseOrderProofs
                WITH queue <- state.queue, last <- state.last, next <- state.next

\* The steps whose save may change the record.
Saving == {"prune", "commit", "grant", "rollback", "unqueue", "ack_save"}

\* What a save does to the queue and to the turn.
LEMMA PendingQueue ==
    ASSUME NEW p \in Proc, state \in Record
    PROVE  /\ pc[p] = "prune" => /\ Pending(p).queue \in SUBSET state.queue
                                 /\ Pending(p).last = state.last
                                 /\ Pending(p).next = state.next
           /\ pc[p] = "commit" =>
                /\ Pending(p).queue = state.queue \cup
                     {[ticket |-> my[p], workload |-> workload[p], sequence |-> state.next]}
                /\ Pending(p).last = state.last
                /\ Pending(p).next = state.next + 1
           /\ pc[p] \in {"grant", "rollback"} => /\ Pending(p).queue = Without(my[p])
                                                 /\ Pending(p).last = workload[p]
                                                 /\ Pending(p).next = state.next
           /\ pc[p] = "unqueue" => /\ Pending(p).queue = Without(my[p])
                                   /\ Pending(p).last = state.last
                                   /\ Pending(p).next = state.next
           /\ pc[p] = "ack_save" => /\ Pending(p).queue = state.queue
                                    /\ Pending(p).last = state.last
                                    /\ Pending(p).next = state.next
<1>1. CASE pc[p] = "prune"
  <2>1. Retained \in SUBSET state.queue
    BY DEF Retained
  <2> QED
    BY <1>1, <2>1, PendingSaves DEF Pruned, Record
<1>2. CASE pc[p] = "commit"
  <2> DEFINE item == [ticket |-> my[p], workload |-> workload[p], sequence |-> state.next]
  <2>1. Pending(p) = [state EXCEPT !.next = state.next + 1, !.queue = state.queue \cup {item}]
    BY <1>2, PendingSaves DEF Joined
  <2> HIDE DEF item
  <2>2. /\ Pending(p).queue = state.queue \cup {item}
        /\ Pending(p).last = state.last /\ Pending(p).next = state.next + 1
    BY <2>1 DEF Record
  <2> QED
    BY <1>2, <2>2 DEF item
<1>3. CASE pc[p] \in {"grant", "rollback"}
  <2>1. Pending(p) = Granted(p) \/ Pending(p) = RolledBack(p)
    BY <1>3, PendingSaves
  <2> QED
    BY <1>3, <2>1 DEF Granted, RolledBack, Record
<1>4. CASE pc[p] = "unqueue"
  BY <1>4, PendingSaves DEF Unqueued, Record
<1>5. CASE pc[p] = "ack_save"
  BY <1>5, PendingSaves DEF Released, Record
<1> QED
  BY <1>1, <1>2, <1>3, <1>4, <1>5

\* An entry of the queue is of the workload its request is of.
EntryIsOwn ==
    \A p \in Proc, i \in state.queue : i.ticket = my[p] => i.workload = workload[p]

\* The process that grants is the head until its grant is on record, and the
\* rotation stands at its workload from then on.  A failed save leaves it open
\* which of the two a rollback finds.
GrantIsDue ==
    \A p \in Proc :
        /\ pc[p] = "grant" => IsHead(my[p], state.queue, state.last)
        /\ pc[p] = "granted" => state.last = workload[p]
        /\ pc[p] = "rollback" => \/ HeldBy(my[p]) /\ state.last = workload[p]
                                 \/ /\ state.active.ticket # my[p]
                                    /\ IsHead(my[p], state.queue, state.last)

\* How a process comes to grant, with a record that only it writes, and what
\* it keeps meanwhile.
LEMMA GrantPath ==
    ASSUME LeaseInv, Next
    PROVE  /\ \/ state' = state
              \/ \E p \in Proc : state' = Pending(p) /\ pc[p] \in Saving /\ pc'[p] # pc[p]
           /\ \A q \in Proc :
                \/ my'[q] = my[q] /\ workload'[q] = workload[q]
                \/ pc'[q] \notin Granting \cup {"rollback"} /\ my'[q] \in {NoTicket, requests + 1}
           /\ \A q \in Proc : pc'[q] \in Granting \cup {"rollback"} =>
                \/ pc'[q] = pc[q]
                \/ /\ pc[q] = "attempt" /\ pc'[q] = "grant"
                   /\ state' = state /\ IsHead(my[q], state.queue, state.last)
                \/ pc[q] = "grant" /\ pc'[q] = "granted" /\ state' = Granted(q)
                \/ pc[q] \in Granting /\ pc'[q] = "rollback" /\ state' \in {state, Pending(q)}
<1> DEFINE Path ==
              /\ \/ state' = state
                 \/ \E p \in Proc : state' = Pending(p) /\ pc[p] \in Saving /\ pc'[p] # pc[p]
              /\ \A q \in Proc :
                   \/ my'[q] = my[q] /\ workload'[q] = workload[q]
                   \/ pc'[q] \notin Granting \cup {"rollback"}
                      /\ my'[q] \in {NoTicket, requests + 1}
              /\ \A q \in Proc : pc'[q] \in Granting \cup {"rollback"} =>
                   \/ pc'[q] = pc[q]
                   \/ /\ pc[q] = "attempt" /\ pc'[q] = "grant"
                      /\ state' = state /\ IsHead(my[q], state.queue, state.last)
                   \/ pc[q] = "grant" /\ pc'[q] = "granted" /\ state' = Granted(q)
                   \/ pc[q] \in Granting /\ pc'[q] = "rollback" /\ state' \in {state, Pending(q)}
<1> USE DEF Goto, Tell, Raise, Return, Saving, Pass, Granting, disk, jobs
<1>a. /\ TypeOK
      /\ pc \in [Proc -> Steps] /\ my \in [Proc -> Ticket \cup {NoTicket}]
      /\ workload \in [Proc -> Kind \cup {NoKind}]
  BY DEF LeaseInv, TypeOK
<1>1. ASSUME NEW p \in Proc, Request(p) PROVE Path
  BY <1>a, <1>1 DEF Request
<1>2. ASSUME NEW p \in Proc, MissDeadline(p) PROVE Path
  BY <1>a, <1>2 DEF MissDeadline
<1>3. ASSUME NEW p \in Proc, Enter(p) PROVE Path
  BY <1>a, <1>3 DEF Enter
<1>4. ASSUME NEW p \in Proc, PruneScan(p) PROVE Path
  <2>1. state' = state \/ (state' = Pending(p) /\ pc[p] \in Saving /\ pc'[p] # pc[p])
    BY <1>a, <1>4, PendingSaves DEF PruneScan, Save, SaveRaises
  <2> QED
    BY <1>a, <1>4, <2>1 DEF PruneScan
<1>5. ASSUME NEW p \in Proc, UnlinkRemoved(p) PROVE Path
  BY <1>a, <1>5 DEF UnlinkRemoved
<1>6. ASSUME NEW p \in Proc, RefuseEntries(p) PROVE Path
  BY <1>a, <1>6 DEF RefuseEntries
<1>7. ASSUME NEW p \in Proc, ListEntries(p) PROVE Path
  BY <1>a, <1>7 DEF ListEntries
<1>8. ASSUME NEW p \in Proc, SweepOrphan(p) PROVE Path
  BY <1>a, <1>8 DEF SweepOrphan
<1>9. ASSUME NEW p \in Proc, EndSweep(p) PROVE Path
  BY <1>a, <1>9 DEF EndSweep
<1>10. ASSUME NEW p \in Proc, RefuseFull(p) PROVE Path
  BY <1>a, <1>10 DEF RefuseFull
<1>11. ASSUME NEW p \in Proc, CreateTicket(p) PROVE Path
  BY <1>a, <1>11 DEF CreateTicket
<1>12. ASSUME NEW p \in Proc, TicketFails(p) PROVE Path
  BY <1>a, <1>12 DEF TicketFails
<1>13. ASSUME NEW p \in Proc, CommitTicket(p) PROVE Path
  <2>1. state' = state \/ (state' = Pending(p) /\ pc[p] \in Saving /\ pc'[p] # pc[p])
    BY <1>a, <1>13, PendingSaves DEF CommitTicket, Save, SaveRaises
  <2> QED
    BY <1>a, <1>13, <2>1 DEF CommitTicket
<1>14. ASSUME NEW p \in Proc, FindLost(p) PROVE Path
  BY <1>a, <1>14 DEF FindLost
<1>15. ASSUME NEW p \in Proc, RefuseLost(p) PROVE Path
  BY <1>a, <1>15 DEF RefuseLost
<1>16. ASSUME NEW p \in Proc, RefuseQuarantined(p) PROVE Path
  BY <1>a, <1>16 DEF RefuseQuarantined
<1>17. ASSUME NEW p \in Proc, StayQueued(p) PROVE Path
  BY <1>a, <1>17 DEF StayQueued
<1>18. ASSUME NEW p \in Proc, TakeResource(p) PROVE Path
  BY <1>a, <1>18 DEF TakeResource
<1>19. ASSUME NEW p \in Proc, SaveGrant(p) PROVE Path
  <2>1. state' = state \/ (state' = Pending(p) /\ pc[p] \in Saving /\ pc'[p] # pc[p])
    BY <1>a, <1>19, PendingSaves DEF SaveGrant, Save, SaveRaises
  <2>2. state' = Pending(p) /\ pc[p] = "grant"
    BY <1>19 DEF SaveGrant, Save
  <2>3. state' = Granted(p)
    BY <2>2, PendingSaves
  <2> QED
    BY <1>a, <1>19, <2>1, <2>3 DEF SaveGrant
<1>20. ASSUME NEW p \in Proc, ReturnLease(p) PROVE Path
  BY <1>a, <1>20 DEF ReturnLease
<1>21. ASSUME NEW p \in Proc, PassRaises(p) PROVE Path
  <2>1. state' = state \/ (state' = Pending(p) /\ pc[p] \in Saving /\ pc'[p] # pc[p])
    BY <1>a, <1>21, PendingSaves DEF PassRaises, Save, SaveRaises
  <2> QED
    BY <1>a, <1>21, <2>1 DEF PassRaises
<1>22. ASSUME NEW p \in Proc, GrantRaises(p) PROVE Path
  <2>1. state' = state \/ (state' = Pending(p) /\ pc[p] \in Saving /\ pc'[p] # pc[p])
    BY <1>a, <1>22, PendingSaves DEF GrantRaises, Save, SaveRaises
  <2> QED
    BY <1>a, <1>22, <2>1 DEF GrantRaises
<1>23. ASSUME NEW p \in Proc, RollBack(p) PROVE Path
  <2>1. state' = state \/ (state' = Pending(p) /\ pc[p] \in Saving /\ pc'[p] # pc[p])
    BY <1>a, <1>23, PendingSaves DEF RollBack, Save, SaveRaises
  <2> QED
    BY <1>a, <1>23, <2>1 DEF RollBack
<1>24. ASSUME NEW p \in Proc, WithdrawEnter(p) PROVE Path
  BY <1>a, <1>24 DEF WithdrawEnter
<1>25. ASSUME NEW p \in Proc, WithdrawNothing(p) PROVE Path
  BY <1>a, <1>25 DEF WithdrawNothing
<1>26. ASSUME NEW p \in Proc, Unqueue(p) PROVE Path
  <2>1. state' = state \/ (state' = Pending(p) /\ pc[p] \in Saving /\ pc'[p] # pc[p])
    BY <1>a, <1>26, PendingSaves DEF Unqueue, Save, SaveRaises
  <2> QED
    BY <1>a, <1>26, <2>1 DEF Unqueue
<1>27. ASSUME NEW p \in Proc, UnlinkOwn(p) PROVE Path
  BY <1>a, <1>27 DEF UnlinkOwn
<1>28. ASSUME NEW p \in Proc, WithdrawRaises(p) PROVE Path
  <2>1. state' = state \/ (state' = Pending(p) /\ pc[p] \in Saving /\ pc'[p] # pc[p])
    BY <1>a, <1>28, PendingSaves DEF WithdrawRaises, Save, SaveRaises
  <2> QED
    BY <1>a, <1>28, <2>1 DEF WithdrawRaises
<1>29. ASSUME NEW p \in Proc, CloseTicket(p) PROVE Path
  BY <1>a, <1>29 DEF CloseTicket
<1>30. ASSUME NEW p \in Proc, CheckLease(p) PROVE Path
  BY <1>a, <1>30 DEF CheckLease
<1>31. ASSUME NEW p \in Proc, StartJob(p) PROVE Path
  BY <1>a, <1>31 DEF StartJob
<1>32. ASSUME NEW p \in Proc, Abandon(p) PROVE Path
  BY <1>a, <1>32 DEF Abandon
<1>33. ASSUME NEW p \in Proc, Acknowledge(p) PROVE Path
  BY <1>a, <1>33 DEF Acknowledge
<1>34. ASSUME NEW p \in Proc, AckEnter(p) PROVE Path
  BY <1>a, <1>34 DEF AckEnter
<1>35. ASSUME NEW p \in Proc, AckTimeout(p) PROVE Path
  BY <1>a, <1>35 DEF AckTimeout
<1>36. ASSUME NEW p \in Proc, AckSave(p) PROVE Path
  <2>1. state' = state \/ (state' = Pending(p) /\ pc[p] \in Saving /\ pc'[p] # pc[p])
    BY <1>a, <1>36, PendingSaves DEF AckSave, Save, SaveRaises
  <2> QED
    BY <1>a, <1>36, <2>1 DEF AckSave
<1>37. ASSUME NEW p \in Proc, AckRaises(p) PROVE Path
  <2>1. state' = state \/ (state' = Pending(p) /\ pc[p] \in Saving /\ pc'[p] # pc[p])
    BY <1>a, <1>37, PendingSaves DEF AckRaises, Save, SaveRaises
  <2> QED
    BY <1>a, <1>37, <2>1 DEF AckRaises
<1>38. ASSUME NEW p \in Proc, AckClose(p) PROVE Path
  BY <1>a, <1>38 DEF AckClose
<1>39. ASSUME NEW p \in Proc, Cancel(p) PROVE Path
  BY <1>a, <1>39 DEF Cancel
<1>40. ASSUME NEW p \in Proc, HolderFork(p) PROVE Path
  BY <1>a, <1>40 DEF HolderFork
<1>41. ASSUME NEW p \in Proc, Expire(p) PROVE Path
  BY <1>a, <1>41 DEF Expire
<1>42. ASSUME NEW p \in Proc, Crash(p) PROVE Path
  BY <1>a, <1>42 DEF Crash
<1>43. ASSUME NEW t \in Ticket, ChildExits(t) PROVE Path
  BY <1>a, <1>43 DEF ChildExits
<1>44. ASSUME NEW t \in Ticket, JobEnds(t) PROVE Path
  BY <1>a, <1>44 DEF JobEnds
<1>45. ASSUME NEW t \in Ticket, JobLosesGuard(t) PROVE Path
  BY <1>a, <1>45 DEF JobLosesGuard
<1> QED
  BY <1>1, <1>2, <1>3, <1>4, <1>5, <1>6, <1>7, <1>8, <1>9, <1>10, <1>11, <1>12, <1>13,
     <1>14, <1>15, <1>16, <1>17, <1>18, <1>19, <1>20, <1>21, <1>22, <1>23, <1>24, <1>25,
     <1>26, <1>27, <1>28, <1>29, <1>30, <1>31, <1>32, <1>33, <1>34, <1>35, <1>36, <1>37,
     <1>38, <1>39, <1>40, <1>41, <1>42, <1>43, <1>44, <1>45 DEF Next, Acquire, Hold,
     Environment

\* What a writer leaves of the queue.
LEMMA QueuePath ==
    ASSUME LeaseInv, Next
    PROVE  \/ state'.queue \in SUBSET state.queue
           \/ \E p \in Proc :
                /\ pc[p] = "commit"
                /\ state'.queue = state.queue \cup
                     {[ticket |-> my[p], workload |-> workload[p], sequence |-> state.next]}
<1>1. CASE state' = state
  BY <1>1
<1>2. ASSUME NEW p \in Proc, state' = Pending(p), pc[p] \in Saving
      PROVE  \/ state'.queue \in SUBSET state.queue
             \/ /\ pc[p] = "commit"
                /\ state'.queue = state.queue \cup
                     {[ticket |-> my[p], workload |-> workload[p], sequence |-> state.next]}
  <2>1. state \in Record
    BY DEF LeaseInv, TypeOK
  <2>2. Without(my[p]) \in SUBSET state.queue
    BY DEF Without
  <2> QED
    BY <1>2, <2>1, <2>2, PendingQueue DEF Saving
<1> QED
  BY <1>1, <1>2, GrantPath

\* Only its own request writes an entry, and a request does not change workload.
LEMMA EntryIsOwnStep ==
    ASSUME LeaseInv, QueueInv, EntryIsOwn, Next PROVE EntryIsOwn'
<1> SUFFICES ASSUME NEW q \in Proc, NEW i \in state'.queue, i.ticket = my'[q]
             PROVE  i.workload = workload'[q]
  BY DEF EntryIsOwn
<1>1. /\ TypeOK /\ requests \in Nat /\ state.queue \in SUBSET Item
      /\ \A j \in state.queue : j.ticket \in Ticket /\ j.ticket <= requests
      /\ \A p \in Proc : pc[p] # "idle" => my[p] \in Ticket /\ my[p] <= requests
  BY DEF LeaseInv, QueueInv, RequestsNamed, RequestsKnown, TypeOK, Record, Item, Tickets
<1>2. \/ my'[q] = my[q] /\ workload'[q] = workload[q]
      \/ my'[q] \in {NoTicket, requests + 1}
  BY GrantPath
<1>3. CASE i \in state.queue
  BY <1>1, <1>2, <1>3, Constants DEF EntryIsOwn, Ticket
<1>4. ASSUME NEW p \in Proc, pc[p] = "commit",
             i = [ticket |-> my[p], workload |-> workload[p], sequence |-> state.next]
      PROVE  i.workload = workload'[q]
  <2>1. i.ticket = my[p] /\ i.workload = workload[p] /\ my[p] \in Ticket /\ my[p] <= requests
    BY <1>1, <1>4
  <2>2. my'[q] = my[q] /\ workload'[q] = workload[q]
    BY <1>1, <1>2, <2>1, Constants DEF Ticket
  <2>3. pc[q] # "idle"
    BY <2>1, <2>2, Constants DEF QueueInv, IdleIsClear
  <2>4. q = p
    BY <1>4, <2>1, <2>2, <2>3 DEF LeaseInv, NamesUnique
  <2> QED
    BY <2>1, <2>2, <2>4
<1> QED
  BY <1>3, <1>4, QueuePath

\* Nobody else writes while a process grants, so it stays the head.
LEMMA GrantIsDueStep ==
    ASSUME LeaseInv, QueueInv, GrantIsDue, Next PROVE GrantIsDue'
<1> DEFINE Due(q) ==
              /\ pc[q] = "grant" => IsHead(my[q], state.queue, state.last)
              /\ pc[q] = "granted" => state.last = workload[q]
              /\ pc[q] = "rollback" => \/ HeldBy(my[q]) /\ state.last = workload[q]
                                       \/ /\ state.active.ticket # my[q]
                                          /\ IsHead(my[q], state.queue, state.last)
<1> SUFFICES ASSUME NEW q \in Proc, pc'[q] \in Granting \cup {"rollback"} PROVE Due(q)'
  BY DEF GrantIsDue, Granting
<1>1. Due(q)
  BY DEF GrantIsDue
<1>2. my'[q] = my[q] /\ workload'[q] = workload[q] /\ state \in Record
  BY GrantPath DEF LeaseInv, TypeOK
<1>3. CASE pc'[q] = pc[q]
  <2>1. ASSUME NEW p \in Proc, pc[p] \in Saving, pc'[p] # pc[p] PROVE FALSE
    BY <1>3, <2>1 DEF LeaseInv, AnchorExcludes, InRegistry, Saving, Granting, Pass
  <2>2. state' = state
    BY <2>1, GrantPath
  <2> QED
    BY <1>1, <1>2, <1>3, <2>2 DEF HeldBy
<1>4. CASE pc'[q] = "grant" /\ state' = state /\ IsHead(my[q], state.queue, state.last)
  BY <1>2, <1>4
<1>5. CASE pc[q] = "grant" /\ pc'[q] = "granted" /\ state' = Granted(q)
  <2>1. state'.last = workload[q]
    BY <1>2, <1>5, PendingQueue, PendingSaves
  <2> QED
    BY <1>2, <1>5, <2>1
<1>6. CASE pc[q] \in Granting /\ pc'[q] = "rollback" /\ state' = state
  <2>1. CASE pc[q] = "grant"
    <3>1. state.active.ticket # my[q]
      BY <2>1 DEF QueueInv, NewTicket, Waiting
    <3> QED
      BY <1>1, <1>2, <1>6, <2>1, <3>1
  <2>2. CASE pc[q] = "granted"
    <3>1. HeldBy(my[q])
      BY <2>2 DEF LeaseInv, LeaseIsHeld
    <3> QED
      BY <1>1, <1>2, <1>6, <2>2, <3>1 DEF HeldBy
  <2> QED
    BY <1>6, <2>1, <2>2 DEF Granting
<1>7. CASE pc[q] = "grant" /\ pc'[q] = "rollback" /\ state' = Pending(q)
  <2>1. state'.last = workload[q]
    BY <1>2, <1>7, PendingQueue
  <2>2. state'.active = [ticket |-> my[q], state |-> "held"]
    BY <1>7, PendingActive DEF LeaseInv
  <2> QED
    BY <1>2, <1>7, <2>1, <2>2 DEF HeldBy
<1>8. CASE pc[q] = "granted" /\ pc'[q] = "rollback" /\ state' = Pending(q)
  BY <1>6, <1>8, PendingSaves DEF Granting
<1> HIDE DEF Due
<1> QED
  BY <1>3, <1>4, <1>5, <1>6, <1>7, <1>8, GrantPath DEF Granting

\* The library's operators are the same ones in every instance.
LEMMA SameLibrary ==
    /\ \A S : Fair!Cardinality(S) = Cardinality(S)
    /\ \A S : Rotation!Cardinality(S) = Cardinality(S)
    /\ \A S : Rotation!IsFiniteSet(S) <=> IsFiniteSet(S)
BY DEF Fair!Cardinality, Rotation!Cardinality, Cardinality, Rotation!IsFiniteSet, IsFiniteSet

\* Whoever is the head for the loop is the first for FairQueue.
LEMMA HeadIsFirst ==
    ASSUME LeaseInv, QueueInv, NEW t, IsHead(t, state.queue, state.last)
    PROVE  \E i \in state.queue : Fair!First(i) /\ i.ticket = t
<1>1. /\ Rotation!Queued(state.queue) /\ Rotation!Distinct(state.queue)
      /\ state.last \in Rotation!Kind \cup {Rotation!NoKind} /\ state.queue # {}
  <2>1. state.queue \in SUBSET Item /\ state.last \in Kind \cup {NoKind}
    BY DEF LeaseInv, TypeOK, Record
  <2>2. IsFiniteSet(state.queue)
    BY DEF QueueInv, QueueAccepted
  <2>3. \A i, j \in state.queue : i.sequence = j.sequence => i = j
    BY DEF QueueInv, QueueAccepted, RecordIsAccepted
  <2> QED
    BY <2>1, <2>2, <2>3, SameLibrary DEF IsHead, Rotation!Queued, Rotation!Distinct, Rotation!Kind, Kind,
       Rotation!NoKind, NoKind, Item
<1> DEFINE i == Rotation!Popped(state.queue, Rotation!Start(state.last))
<1>2. Rotation!Order(state.queue, state.last)[1] = i
  BY <1>1, Rotation!HeadIs, NKindsAssumption, LeaseAssumption
<1>3. Rotation!Order(state.queue, state.last) = Order(state.queue, state.last)
  BY DEF Rotation!Order, Order, Rotation!Popped, Popped, Rotation!Earliest, Earliest,
     Rotation!NextKind, NextKind, Rotation!Group, Group, Rotation!Turns, Turns,
     Rotation!Start, Start, Rotation!After, After, Rotation!Kind, Kind,
     Rotation!NoKind, NoKind
<1>4. i.ticket = t
  BY <1>2, <1>3 DEF IsHead
<1>5. i \in state.queue
  BY <1>1, Rotation!StartIsKind, Rotation!PoppedIs, NKindsAssumption, LeaseAssumption
<1>6. Rotation!First(i)
  BY <1>1, <1>5, Rotation!FirstIsPopped, NKindsAssumption, LeaseAssumption
<1> HIDE DEF i
<1>7. Fair!First(i)
  BY <1>6, SameLibrary DEF Rotation!First, Fair!First, Rotation!ServedBefore, Fair!ServedBefore,
     Rotation!Rank, Fair!Rank, Rotation!Turns, Fair!Turns, Rotation!Start, Fair!Start,
     Rotation!After, Fair!After, Rotation!NoKind, Fair!NoKind, Rotation!Group, Fair!Group
<1> QED
  BY <1>4, <1>5, <1>7

\* One step of the namespace is one step of the fair queue, or none.
LEMMA FairStep ==
    ASSUME LeaseInv, QueueInv, EntryIsOwn, GrantIsDue, patience \in [state.queue -> Int],
           Next, Fair!Watch(Grants)
    PROVE  [Fair!Next]_Fair!vars
<1>1. /\ state \in Record /\ IsFiniteSet(state.queue)
      /\ \A i, j \in state.queue : i.ticket = j.ticket => i = j
      /\ state.active.ticket \notin Tickets(state.queue)
  BY DEF LeaseInv, TypeOK, QueueInv, QueueAccepted, RecordIsAccepted
<1>2. ASSUME Grants = 0, state'.queue \in SUBSET state.queue,
             state'.last = state.last, state'.next = state.next
      PROVE  [Fair!Next]_Fair!vars
  <2>1. Fair!Leave
    BY <1>2 DEF Fair!Leave
  <2> QED
    BY <2>1 DEF Fair!Next
<1>3. CASE state' = state
  <2>1. Grants = 0
    BY <1>3 DEF Grants
  <2> QED
    BY <1>2, <1>3, <2>1
<1>4. ASSUME NEW p \in Proc, state' = Pending(p), pc[p] \in Saving
      PROVE  [Fair!Next]_Fair!vars
  <2>1. /\ my[p] \in Ticket /\ workload[p] \in Kind
        /\ TypeOK /\ RequestsNamed /\ LeaseIsHeld
    BY <1>4 DEF LeaseInv, RequestsNamed, Saving
  <2>2. Without(my[p]) \in SUBSET state.queue
    BY DEF Without
  <2>3. CASE pc[p] \in {"prune", "unqueue"}
    <3>1. state'.active = state.active
      BY <1>4, <2>1, <2>3, PendingActive
    <3>2. Grants = 0
      BY <3>1 DEF Grants
    <3> QED
      BY <1>1, <1>2, <1>4, <2>2, <2>3, <3>2, PendingQueue
  <2>4. CASE pc[p] = "ack_save"
    <3>1. HeldBy(my[p])
      BY <2>4 DEF LeaseInv, LeaseIsHeld, Holding
    <3>2. state'.active = [ticket |-> my[p], state |-> "releasing"]
      BY <1>4, <2>1, <2>4, PendingActive
    <3>3. Grants = 0
      BY <3>1, <3>2 DEF Grants, HeldBy
    <3> QED
      BY <1>1, <1>2, <1>4, <2>4, <3>3, PendingQueue
  <2>5. CASE pc[p] = "commit"
    <3>1. state'.active = state.active
      BY <1>4, <2>1, <2>5, PendingActive
    <3>2. Grants = 0
      BY <3>1 DEF Grants
    <3>3. ~Full(workload[p]) /\ ~Queued(my[p])
      BY <2>5 DEF QueueInv, RoomToJoin, NotJoined
    <3>4. ~Fair!Full(workload[p]) /\ \A i \in state.queue : i.ticket # my[p]
      BY <3>3, SameLibrary DEF Full, Fair!Full, Group, Fair!Group, Queued, Tickets
    <3>5. Fair!Join(my[p], workload[p])
      BY <1>1, <1>4, <2>5, <3>2, <3>4, PendingQueue DEF Fair!Join
    <3>6. workload[p] \in Fair!Kind
      BY <2>1 DEF Kind, Fair!Kind
    <3> QED
      BY <2>1, <3>5, <3>6 DEF Fair!Next
  <2>6. ASSUME IsHead(my[p], state.queue, state.last), state.active.ticket # my[p],
               pc[p] \in {"grant", "rollback"}
        PROVE  Fair!Grant
    <3>1. PICK i \in state.queue : Fair!First(i) /\ i.ticket = my[p]
      BY <2>6, HeadIsFirst
    <3>2. state'.queue = state.queue \ {i}
      BY <1>1, <1>4, <2>6, <3>1, PendingQueue DEF Without
    <3>3. i.workload = workload[p]
      BY <3>1 DEF EntryIsOwn
    <3>4. state'.active.ticket = my[p]
      <4>1. \/ state'.active = [ticket |-> my[p], state |-> "held"]
            \/ state'.active = [ticket |-> my[p], state |-> "releasing"]
        BY <1>4, <2>1, <2>6, PendingActive
      <4> QED
        BY <4>1
    <3>5. Grants = 1
      BY <2>6, <3>4 DEF Grants
    <3>6. state'.last = i.workload /\ state'.next = state.next
      BY <1>1, <1>4, <2>6, <3>3, PendingQueue
    <3> QED
      BY <3>1, <3>2, <3>5, <3>6 DEF Fair!Grant
  <2>7. CASE pc[p] = "grant"
    <3>1. IsHead(my[p], state.queue, state.last)
      BY <2>7 DEF GrantIsDue
    <3>2. state.active.ticket # my[p]
      BY <2>7 DEF QueueInv, NewTicket, Waiting
    <3> QED
      BY <2>6, <2>7, <3>1, <3>2 DEF Fair!Next
  <2>8. CASE pc[p] = "rollback" /\ HeldBy(my[p]) /\ state.last = workload[p]
    <3>1. state'.active = [ticket |-> my[p], state |-> "releasing"]
      BY <1>4, <2>1, <2>8, PendingActive
    <3>2. Grants = 0
      BY <2>8, <3>1 DEF Grants, HeldBy
    <3> QED
      BY <1>1, <1>2, <1>4, <2>2, <2>8, <3>2, PendingQueue
  <2>9. CASE pc[p] = "rollback" /\ ~(HeldBy(my[p]) /\ state.last = workload[p])
    <3>1. state.active.ticket # my[p] /\ IsHead(my[p], state.queue, state.last)
      BY <2>9 DEF GrantIsDue
    <3> QED
      BY <2>6, <2>9, <3>1 DEF Fair!Next
  <2> QED
    BY <1>4, <2>3, <2>4, <2>5, <2>7, <2>8, <2>9 DEF Saving
<1> QED
  BY <1>3, <1>4, GrantPath

\* The invariant of the history and of the two facts that the refinement needs.
FairHistory == EntryIsOwn /\ GrantIsDue /\ patience \in [state.queue -> Int]

LEMMA FairHistoryStep ==
    ASSUME LeaseInv, QueueInv, QueueInv', FairHistory, Next, Fair!Watch(Grants)
    PROVE  FairHistory'
<1>1. EntryIsOwn' /\ GrantIsDue'
  BY EntryIsOwnStep, GrantIsDueStep DEF FairHistory
<1>2. Grants \in Int
  BY DEF Grants
<1>3. ASSUME NEW k PROVE Fair!Allowance(k) \in Int
  <2>1. IsFiniteSet(Fair!Group(state.queue, k))
    BY FS_Subset DEF QueueInv, QueueAccepted, Fair!Group
  <2>2. Cardinality(Fair!Group(state.queue, k)) \in Nat /\ NKinds \in Nat
    BY <2>1, FS_CardinalityType, Constants
  <2>3. Cardinality(Fair!Group(state.queue, k)) * NKinds \in Nat
    BY <2>2
  <2> QED
    BY <2>2, <2>3, SameLibrary DEF Fair!Allowance
<1>4. patience \in [state.queue -> Int]
  BY DEF FairHistory
<1>5. patience' \in [state'.queue -> Int]
  BY <1>2, <1>3, <1>4 DEF Fair!Watch
<1> QED
  BY <1>1, <1>5 DEF FairHistory

\* The watched processes are those of DeviceLease.
LEMMA WatchedIsSpec == WatchedSpec => Spec
<1>1. WatchedInit => Init
  BY DEF WatchedInit
<1>2. [WatchedNext]_watchedVars => [Next]_vars
  BY DEF WatchedNext, watchedVars
<1> QED
  BY <1>1, <1>2, PTL DEF WatchedSpec, Spec

LEMMA FairHistoryAlways == WatchedSpec => []FairHistory
<1>1. WatchedInit => FairHistory
  <2> SUFFICES ASSUME WatchedInit PROVE FairHistory
    OBVIOUS
  <2>1. state.queue = {} /\ \A p \in Proc : pc[p] = "idle"
    BY DEF WatchedInit, Init
  <2>2. patience \in [state.queue -> Int]
    BY DEF WatchedInit
  <2> QED
    BY <2>1, <2>2 DEF FairHistory, EntryIsOwn, GrantIsDue
<1>2. FairHistory /\ UNCHANGED watchedVars => FairHistory'
  BY DEF watchedVars, vars, FairHistory, EntryIsOwn, GrantIsDue, HeldBy
<1>3. LeaseInv /\ QueueInv /\ QueueInv' /\ FairHistory /\ [WatchedNext]_watchedVars
        => FairHistory'
  BY <1>2, FairHistoryStep DEF WatchedNext
<1> QED
  BY <1>1, <1>3, WatchedIsSpec, LeaseInvariant, QueueInvariant, PTL DEF WatchedSpec

\* Whatever crashes, stalls or fails to be written, and in whatever order the
\* processes come to the registry: what they do to the queue in state.json is
\* a join, a grant to whoever the rotation has first, or a request that leaves.
THEOREM RefinesQueueAlways == WatchedSpec => RefinesQueue
<1>1. WatchedInit => Fair!Init
  BY DEF WatchedInit, Init, Fair!Init, NoKind, Fair!NoKind
<1>2. LeaseInv /\ QueueInv /\ FairHistory /\ [WatchedNext]_watchedVars
        => [Fair!Next]_Fair!vars
  <2> SUFFICES ASSUME LeaseInv, QueueInv, FairHistory, [WatchedNext]_watchedVars
               PROVE  [Fair!Next]_Fair!vars
    OBVIOUS
  <2>1. CASE UNCHANGED watchedVars
    BY <2>1 DEF watchedVars, vars, Fair!vars
  <2>2. CASE WatchedNext
    BY <2>2, FairStep DEF FairHistory, WatchedNext
  <2> QED
    BY <2>1, <2>2
<1> QED
  BY <1>1, <1>2, WatchedIsSpec, LeaseInvariant, QueueInvariant, FairHistoryAlways, PTL
     DEF WatchedSpec, RefinesQueue, Fair!Spec

\* So the place of a request is the one of the rotation, and nobody who waits
\* for the device is bypassed more often than the requests ahead of it and the
\* rotation explain.
THEOREM TurnsAreFairAlways == WatchedSpec => []TurnsAreFair
<1> USE DEF Fair!NoKind, Rotation!NoKind, Fair!Kind, Rotation!Kind, Fair!Group, Rotation!Group
<1>1. Fair!Init => Rotation!Init
  BY DEF Fair!Init, Rotation!Init
<1>2. [Fair!Next]_Fair!vars => [Rotation!Next]_Rotation!vars
  <2>1. \A n : Fair!Watch(n) => Rotation!Watch(n)
    BY SameLibrary DEF Fair!Watch, Rotation!Watch, Fair!Allowance, Rotation!Allowance
  <2>2. \A t, k : Fair!Join(t, k) => Rotation!Join(t, k)
    BY <2>1, SameLibrary DEF Fair!Join, Rotation!Join, Fair!Full, Rotation!Full
  <2>3. \A i : Fair!First(i) => Rotation!First(i)
    BY SameLibrary DEF Rotation!First, Fair!First, Rotation!ServedBefore, Fair!ServedBefore,
       Rotation!Rank, Fair!Rank, Rotation!Turns, Fair!Turns, Rotation!Start, Fair!Start,
       Rotation!After, Fair!After
  <2>4. Fair!Grant => Rotation!Grant
    BY <2>1, <2>3 DEF Fair!Grant, Rotation!Grant
  <2>5. Fair!Leave => Rotation!Leave
    BY <2>1 DEF Fair!Leave, Rotation!Leave
  <2>6. UNCHANGED Fair!vars => UNCHANGED Rotation!vars
    BY DEF Fair!vars, Rotation!vars
  <2> QED
    BY <2>2, <2>4, <2>5, <2>6 DEF Fair!Next, Rotation!Next
<1>3. Rotation!OrderIsRotation => Fair!OrderIsRotation
  <2>1. Rotation!Order(state.queue, state.last) = Fair!Order(state.queue, state.last)
    BY DEF Rotation!Order, Fair!Order, Rotation!Popped, Fair!Popped,
       Rotation!Earliest, Fair!Earliest, Rotation!NextKind, Fair!NextKind,
       Rotation!Turns, Fair!Turns, Rotation!Start, Fair!Start, Rotation!After, Fair!After
  <2>2. \A i, j : Rotation!ServedBefore(i, j, state.queue, state.last)
                    <=> Fair!ServedBefore(i, j, state.queue, state.last)
    BY SameLibrary DEF Rotation!ServedBefore, Fair!ServedBefore, Rotation!Rank, Fair!Rank,
       Rotation!Turns, Fair!Turns, Rotation!Start, Fair!Start, Rotation!After, Fair!After
  <2> QED
    BY <2>1, <2>2, SameLibrary DEF Rotation!OrderIsRotation, Fair!OrderIsRotation
<1>4. Rotation!OrderIsRotation /\ Rotation!BypassBounded => TurnsAreFair
  BY <1>3 DEF TurnsAreFair, Fair!BypassBounded, Rotation!BypassBounded
<1>5. NKinds \in Nat \ {0}
  BY NKindsAssumption
<1> QED
  BY <1>1, <1>2, <1>4, <1>5, RefinesQueueAlways, Rotation!OrderAlwaysRotates,
     Rotation!BypassIsBounded, PTL DEF RefinesQueue, Fair!Spec, Rotation!Spec
====
