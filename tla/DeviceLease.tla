---- MODULE DeviceLease ----
(***************************************************************************)
(* kilix_device_lease: one lease namespace shared by cooperating provider  *)
(* processes.  Every queue or grant change is a pass under the flock of    *)
(* the anchor file: read state.json, prune, act, replace state.json.  A    *)
(* queued request keeps a flock on its ticket file; a grant keeps a flock  *)
(* on accelerator.lock, whose descriptor the provider hands to its job.    *)
(*                                                                         *)
(* registry.value is not a variable: only the anchor holder writes         *)
(* state.json, every change is followed at once by its save, and what a    *)
(* failed save leaves in memory is a function of state.json (Pending).     *)
(***************************************************************************)
EXTENDS LeaseOrder

CONSTANTS
    Proc,                \* processes that use the namespace
    None,                \* no process
    MAX_QUEUE,
    MAX_WORKLOAD_QUEUE,
    EntrySlack,          \* the 5 of "MAX_QUEUE + 5" directory entries
    MaxRequests,         \* bound of the model: requests ever made
    Prompt,              \* processes assumed to keep running (liveness only)
    Faults               \* what the environment may do in this instance

FaultKinds ==
    {"crash",            \* a process dies at any step
     "io",               \* a file operation raises OSError
     "stall",            \* a pass outlasts _ACK_WAIT_SECONDS, an hour
     "fork",             \* a holder forks a child without exec
     "guard_loss",       \* an engine outlives its copy of the guard
     "early_ack"}        \* a provider acknowledges before its engine is gone

ASSUME LeaseAssumption ==
    /\ None \notin Proc
    /\ MAX_QUEUE \in Nat \ {0}
    /\ MAX_WORKLOAD_QUEUE \in Nat \ {0}
    /\ EntrySlack \in Nat
    /\ MaxRequests \in Nat
    /\ Prompt \subseteq Proc
    /\ Faults \subseteq FaultKinds

Ticket == 1 .. MaxRequests
NoTicket == 0
NoGrant == [ticket |-> NoTicket, state |-> "none"]

VARIABLES
    state,      \* state.json: next, last, active, queue
    files,      \* the tickets whose .ticket file is in the directory
    temp,       \* state.next is left in the directory
    anchor,     \* the process that holds the anchor's flock, or None
    todo,       \* the tickets the pass in progress has still to visit
    requests,   \* requests made so far, and the source of ticket names
    pc, my, workload,   \* of each process: its step, request and workload
    late,       \* processes whose request is past its deadline
    code,       \* the last LeaseError code or "granted", of each process
    open,       \* the tickets whose file is open and locked by its requester
    guard,      \* who has a copy of the accelerator.lock descriptor of a grant
    running     \* the tickets with an engine at work

disk == <<state, files, temp>>
jobs == <<guard, running>>
vars == <<state, files, temp, anchor, todo, requests, pc, my, workload, late,
          code, open, guard, running>>

Item == [ticket : Ticket, workload : Kind, sequence : Nat]
Active == [ticket : Ticket, state : {"held", "releasing"}] \cup {NoGrant}
Record == [next : Nat, last : Kind \cup {NoKind}, active : Active, queue : SUBSET Item]
Holder == {"provider", "child", "job"}

Pass == {"prune", "unlink", "sweep", "join", "commit", "attempt"}
Granting == {"grant", "granted"}
Leaving == {"lost", "withdraw", "unqueue", "unqueued", "close"}
Holding == {"holding", "checked", "working", "ack", "ack_save", "ack_close"}
Steps == {"idle", "poll", "rollback"} \cup Pass \cup Granting \cup Leaving \cup Holding

Codes == {"none", "pending", "granted", "cancelled", "deadline", "queue-full",
          "unavailable", "lost-lease"}

TypeOK ==
    /\ state \in Record
    /\ files \subseteq Ticket
    /\ temp \in BOOLEAN
    /\ anchor \in Proc \cup {None}
    /\ todo \subseteq Ticket
    /\ requests \in 0 .. MaxRequests
    /\ pc \in [Proc -> Steps]
    /\ my \in [Proc -> Ticket \cup {NoTicket}]
    /\ workload \in [Proc -> Kind \cup {NoKind}]
    /\ late \subseteq Proc
    /\ code \in [Proc -> Codes]
    /\ open \subseteq Ticket
    /\ guard \in [Ticket -> SUBSET Holder]
    /\ running \subseteq Ticket

Init ==
    /\ state = [next |-> 0, last |-> NoKind, active |-> NoGrant, queue |-> {}]
    /\ files = {}
    /\ temp = FALSE
    /\ anchor = None
    /\ todo = {}
    /\ requests = 0
    /\ pc = [p \in Proc |-> "idle"]
    /\ my = [p \in Proc |-> NoTicket]
    /\ workload = [p \in Proc |-> NoKind]
    /\ late = {}
    /\ code = [p \in Proc |-> "none"]
    /\ open = {}
    /\ guard = [t \in Ticket |-> {}]
    /\ running = {}

----
\* What a pass reads.

Tickets(queue) == {i.ticket : i \in queue}

Queued(t) == t \in Tickets(state.queue)

\* Mutant: the ticket lock is never tried.
AbandonedNever(i) == FALSE

\* flock(ticket) succeeds: the requester has closed it or died.
Abandoned(i) == i.ticket \notin open

\* time.monotonic() >= item["deadline"]
Expired(i) == \E p \in late : my[p] = i.ticket

\* An entry whose file is gone is dropped and needs no unlink.
Removed == {i \in state.queue : i.ticket \in files /\ (Abandoned(i) \/ Expired(i))}
Retained == {i \in state.queue : i.ticket \in files /\ ~(Abandoned(i) \/ Expired(i))}

\* len(os.listdir(directory)): accelerator.lock, state.json, state.next, tickets
Entries == 2 + (IF temp THEN 1 ELSE 0) + Cardinality(files)

\* Mutant: the slack for the files that are not tickets is forgotten.
TooManyTickets == Entries > MAX_QUEUE

TooManyEntries == Entries > MAX_QUEUE + EntrySlack

\* The .ticket files that no retained entry names.
Unreferenced == files \ Tickets(state.queue)

Full(k) == \/ Cardinality(state.queue) >= MAX_QUEUE
           \/ Cardinality(Group(state.queue, k)) >= MAX_WORKLOAD_QUEUE

\* Mutant: a lock that a process owns, and drops with its own descriptor.
AvailableOfProcess == \A t \in Ticket : "provider" \notin guard[t]

\* flock(accelerator.lock) succeeds: no copy of any earlier descriptor is left.
Available == \A t \in Ticket : guard[t] = {}

Quarantined == state.active.state = "held"

HeldBy(t) == state.active = [ticket |-> t, state |-> "held"]

\* Lease._owned, for a lease that its own process still has open
Owned(p) == HeldBy(my[p])

----
\* What a save writes: registry.value at each call of save().

\* Mutant: pruning takes a free lock for a proof of cleanup.
PrunedReleasing ==
    [state EXCEPT !.queue = Retained,
                  !.active.state = IF Quarantined /\ Available THEN "releasing" ELSE @]

Pruned == [state EXCEPT !.queue = Retained]

Joined(p) ==
    [state EXCEPT
        !.next = @ + 1,
        !.queue = @ \cup {[ticket |-> my[p], workload |-> workload[p], sequence |-> state.next]}]

Without(t) == {i \in state.queue : i.ticket # t}

\* Mutant: the grant is not recorded.
GrantedUnrecorded(p) == [state EXCEPT !.last = workload[p], !.queue = Without(my[p])]

Granted(p) ==
    [state EXCEPT
        !.active = [ticket |-> my[p], state |-> "held"],
        !.last = workload[p],
        !.queue = Without(my[p])]

\* Mutant: the rollback starts from the record on disk.
RolledBackQueued(p) == [state EXCEPT !.active = [ticket |-> my[p], state |-> "releasing"]]

\* Mutant: the rollback clears the grant.
RolledBackCleared(p) == [Granted(p) EXCEPT !.active = NoGrant]

RolledBack(p) == [Granted(p) EXCEPT !.active.state = "releasing"]

\* Mutant: a withdrawal removes what it joined with, by workload.
UnqueuedWorkload(p) == [state EXCEPT !.queue = {i \in @ : i.workload # workload[p]}]

Unqueued(p) == [state EXCEPT !.queue = Without(my[p])]

Released == [state EXCEPT !.active.state = "releasing"]

Pending(p) ==
    CASE pc[p] = "prune" -> Pruned
      [] pc[p] = "commit" -> Joined(p)
      [] pc[p] = "grant" -> Granted(p)
      [] pc[p] = "rollback" -> RolledBack(p)
      [] pc[p] = "unqueue" -> Unqueued(p)
      [] pc[p] = "ack_save" -> Released
      [] OTHER -> state

\* _Registry.save: a stale state.next goes first, the new one is renamed over
\* state.json.
Save(p) == state' = Pending(p) /\ temp' = FALSE

\* A save that raises: before the rename, with or without state.next left
\* behind, or in the fsync after it.
SaveRaises(p) ==
    \/ Pending(p) = state /\ UNCHANGED <<state, temp>>
    \/ Pending(p) # state /\ temp' \in BOOLEAN /\ UNCHANGED state
    \/ Pending(p) # state /\ Save(p)

Goto(p, step) == pc' = [pc EXCEPT ![p] = step]

Tell(p, c) == code' = [code EXCEPT ![p] = c]

\* acquire() or release() is over: the process may make another request.
Return(p) ==
    /\ Goto(p, "idle")
    /\ my' = [my EXCEPT ![p] = NoTicket]
    /\ workload' = [workload EXCEPT ![p] = NoKind]
    /\ late' = late \ {p}

\* acquire() raises: "finally" withdraws a request that has joined.
Raise(p, c) ==
    /\ Tell(p, c)
    /\ Goto(p, IF my[p] \in open THEN "withdraw" ELSE "close")

----
\* acquire(): a request waits, polling the anchor.

Request(p) ==
    /\ pc[p] = "idle"
    /\ requests < MaxRequests
    /\ requests' = requests + 1
    /\ my' = [my EXCEPT ![p] = requests + 1]
    /\ \E k \in Kind : workload' = [workload EXCEPT ![p] = k]
    /\ Tell(p, "pending")
    /\ Goto(p, "poll")
    /\ UNCHANGED <<disk, anchor, todo, late, open, jobs>>

\* _check_request raises: a callback asks to cancel.
Cancel(p) ==
    /\ pc[p] = "poll"
    /\ Raise(p, "cancelled")
    /\ UNCHANGED <<disk, anchor, todo, requests, my, workload, late, open, jobs>>

\* Mutant: the deadline is only looked at with the anchor locked.
MissDeadlineInTurn(p) ==
    /\ pc[p] = "poll"
    /\ p \in late
    /\ anchor = None
    /\ Raise(p, "deadline")
    /\ UNCHANGED <<disk, anchor, todo, requests, my, workload, late, open, jobs>>

\* _check_request raises: the deadline is over, whoever holds the anchor.
MissDeadline(p) ==
    /\ pc[p] = "poll"
    /\ p \in late
    /\ Raise(p, "deadline")
    /\ UNCHANGED <<disk, anchor, todo, requests, my, workload, late, open, jobs>>

\* _check_request passes and the anchor is free.  A poll that finds it busy
\* sleeps and changes nothing: it is a stuttering step.
Enter(p) ==
    /\ pc[p] = "poll"
    /\ p \notin late
    /\ anchor = None
    /\ anchor' = p
    /\ Goto(p, "prune")
    /\ UNCHANGED <<disk, todo, requests, my, workload, late, code, open, jobs>>

----
\* prune()

\* The scan and the save it leads to.  Closing a ticket and passing a deadline
\* between the two only matter to the next scan.
PruneScan(p) ==
    /\ pc[p] = "prune"
    /\ IF Pruned # state THEN Save(p) ELSE UNCHANGED <<state, temp>>
    /\ todo' = Tickets(Removed)
    /\ Goto(p, "unlink")
    /\ UNCHANGED <<files, anchor, requests, my, workload, late, code, open, jobs>>

UnlinkRemoved(p) ==
    /\ pc[p] = "unlink"
    /\ \E t \in todo : /\ files' = files \ {t}
                       /\ todo' = todo \ {t}
    /\ UNCHANGED <<state, temp, anchor, requests, pc, my, workload, late, code, open, jobs>>

RefuseEntries(p) ==
    /\ pc[p] = "unlink"
    /\ todo = {}
    /\ TooManyEntries
    /\ Raise(p, "unavailable")
    /\ anchor' = None
    /\ UNCHANGED <<disk, todo, requests, my, workload, late, open, jobs>>

ListEntries(p) ==
    /\ pc[p] = "unlink"
    /\ todo = {}
    /\ ~TooManyEntries
    /\ todo' = Unreferenced
    /\ Goto(p, "sweep")
    /\ UNCHANGED <<disk, anchor, requests, my, workload, late, code, open, jobs>>

\* An unreferenced ticket whose requester still has it locked is left alone.
SweepOrphan(p) ==
    /\ pc[p] = "sweep"
    /\ \E t \in todo : /\ files' = IF t \in open THEN files ELSE files \ {t}
                       /\ todo' = todo \ {t}
    /\ UNCHANGED <<state, temp, anchor, requests, pc, my, workload, late, code, open, jobs>>

EndSweep(p) ==
    /\ pc[p] = "sweep"
    /\ todo = {}
    /\ Goto(p, IF my[p] \in open THEN "attempt" ELSE "join")
    /\ UNCHANGED <<disk, anchor, todo, requests, my, workload, late, code, open, jobs>>

----
\* The first pass joins the queue.

RefuseFull(p) ==
    /\ pc[p] = "join"
    /\ Full(workload[p])
    /\ Raise(p, "queue-full")
    /\ anchor' = None
    /\ UNCHANGED <<disk, todo, requests, my, workload, late, open, jobs>>

CreateTicket(p) ==
    /\ pc[p] = "join"
    /\ ~Full(workload[p])
    /\ files' = files \cup {my[p]}
    /\ open' = open \cup {my[p]}
    /\ Goto(p, "commit")
    /\ UNCHANGED <<state, temp, anchor, todo, requests, my, workload, late, code, jobs>>

\* The ticket is open but item is still None: nothing will be withdrawn.
TicketFails(p) ==
    /\ "io" \in Faults
    /\ pc[p] = "join"
    /\ ~Full(workload[p])
    /\ files' = files \cup {my[p]}
    /\ open' = open \cup {my[p]}
    /\ anchor' = None
    /\ Tell(p, "unavailable")
    /\ Goto(p, "close")
    /\ UNCHANGED <<state, temp, todo, requests, my, workload, late, jobs>>

CommitTicket(p) ==
    /\ pc[p] = "commit"
    /\ Save(p)
    /\ Goto(p, "attempt")
    /\ UNCHANGED <<files, anchor, todo, requests, my, workload, late, code, open, jobs>>
----
\* Every pass ends with an attempt at the grant.

FindLost(p) ==
    /\ pc[p] = "attempt"
    /\ ~Queued(my[p])
    /\ anchor' = None
    /\ Goto(p, "lost")
    /\ UNCHANGED <<disk, todo, requests, my, workload, late, code, open, jobs>>

\* if lost: _check_request, then "Queued shared lease ticket disappeared".
\* (That a callback may cancel at this point too is left out: it would only
\* hide the other two.)
RefuseLost(p) ==
    /\ pc[p] = "lost"
    /\ Raise(p, IF p \in late THEN "deadline" ELSE "lost-lease")
    /\ UNCHANGED <<disk, anchor, todo, requests, my, workload, late, open, jobs>>

RefuseQuarantined(p) ==
    /\ pc[p] = "attempt"
    /\ Queued(my[p])
    /\ Available
    /\ Quarantined
    /\ Raise(p, "unavailable")
    /\ anchor' = None
    /\ UNCHANGED <<disk, todo, requests, my, workload, late, open, jobs>>

StayQueued(p) ==
    /\ pc[p] = "attempt"
    /\ Queued(my[p])
    /\ \/ ~Available
       \/ ~Quarantined /\ ~IsHead(my[p], state.queue, state.last)
    /\ anchor' = None
    /\ Goto(p, "poll")
    /\ UNCHANGED <<disk, todo, requests, my, workload, late, code, open, jobs>>

\* Mutant: a free lock is enough, whatever the record says.
TakeUnproven(p) ==
    /\ pc[p] = "attempt"
    /\ Queued(my[p])
    /\ Available
    /\ IsHead(my[p], state.queue, state.last)
    /\ guard' = [guard EXCEPT ![my[p]] = {"provider"}]
    /\ Goto(p, "grant")
    /\ UNCHANGED <<disk, anchor, todo, requests, my, workload, late, code, open, running>>

\* os.dup of the locked resource: from here the provider holds the guard.
TakeResource(p) ==
    /\ pc[p] = "attempt"
    /\ Queued(my[p])
    /\ Available
    /\ ~Quarantined
    /\ IsHead(my[p], state.queue, state.last)
    /\ guard' = [guard EXCEPT ![my[p]] = {"provider"}]
    /\ Goto(p, "grant")
    /\ UNCHANGED <<disk, anchor, todo, requests, my, workload, late, code, open, running>>

SaveGrant(p) ==
    /\ pc[p] = "grant"
    /\ Save(p)
    /\ Goto(p, "granted")
    /\ UNCHANGED <<files, anchor, todo, requests, my, workload, late, code, open, jobs>>

\* Unlink and close the ticket, leave the registry, return the lease.
ReturnLease(p) ==
    /\ pc[p] = "granted"
    /\ files' = files \ {my[p]}
    /\ open' = open \ {my[p]}
    /\ anchor' = None
    /\ Tell(p, "granted")
    /\ Goto(p, "holding")
    /\ UNCHANGED <<state, temp, todo, requests, my, workload, late, jobs>>

----
\* What an OSError does to a pass.

\* Mutant: a failed pass is tried again.
PassRetries(p) ==
    /\ "io" \in Faults
    /\ pc[p] \in Pass
    /\ SaveRaises(p)
    /\ todo' = {}
    /\ anchor' = None
    /\ Goto(p, "poll")
    /\ UNCHANGED <<files, requests, my, workload, late, code, open, jobs>>

PassRaises(p) ==
    /\ "io" \in Faults
    /\ \/ pc[p] = "poll" /\ anchor = None
       \/ pc[p] \in Pass
    /\ SaveRaises(p)
    /\ todo' = {}
    /\ anchor' = None
    /\ Raise(p, "unavailable")
    /\ UNCHANGED <<files, requests, my, workload, late, open, jobs>>

\* The except clause of the grant closes the duplicate...
GrantRaises(p) ==
    /\ "io" \in Faults
    /\ pc[p] \in Granting
    /\ SaveRaises(p)
    /\ guard' = [guard EXCEPT ![my[p]] = {}]
    /\ Goto(p, "rollback")
    /\ UNCHANGED <<files, anchor, todo, requests, my, workload, late, code, open, running>>

\* ... and marks the unused grant as released, if that save succeeds.
RollBack(p) ==
    /\ pc[p] = "rollback"
    /\ Save(p) \/ SaveRaises(p)
    /\ anchor' = None
    /\ Raise(p, "unavailable")
    /\ UNCHANGED <<files, todo, requests, my, workload, late, open, jobs>>

----
\* The finally clause: one attempt at the anchor to leave the queue.

WithdrawEnter(p) ==
    /\ pc[p] = "withdraw"
    /\ anchor = None
    /\ Queued(my[p])
    /\ anchor' = p
    /\ Goto(p, "unqueue")
    /\ UNCHANGED <<disk, todo, requests, my, workload, late, code, open, jobs>>

\* No entry is left to remove, or the anchor is busy, or the second allowed
\* for it is over.
WithdrawNothing(p) ==
    /\ pc[p] = "withdraw"
    /\ Goto(p, "close")
    /\ UNCHANGED <<disk, anchor, todo, requests, my, workload, late, code, open, jobs>>

Unqueue(p) ==
    /\ pc[p] = "unqueue"
    /\ Save(p)
    /\ Goto(p, "unqueued")
    /\ UNCHANGED <<files, anchor, todo, requests, my, workload, late, code, open, jobs>>

UnlinkOwn(p) ==
    /\ pc[p] = "unqueued"
    /\ files' = files \ {my[p]}
    /\ anchor' = None
    /\ Goto(p, "close")
    /\ UNCHANGED <<state, temp, todo, requests, my, workload, late, code, open, jobs>>

WithdrawRaises(p) ==
    /\ "io" \in Faults
    /\ pc[p] \in {"unqueue", "unqueued"}
    /\ SaveRaises(p)
    /\ anchor' = None
    /\ Goto(p, "close")
    /\ UNCHANGED <<files, todo, requests, my, workload, late, code, open, jobs>>

CloseTicket(p) ==
    /\ pc[p] = "close"
    /\ open' = open \ {my[p]}
    /\ Return(p)
    /\ UNCHANGED <<disk, anchor, todo, requests, code, jobs>>

----
\* The lease: check, run a job under the guard, release.

\* Lease.guard_fd: check() reads the registry under a free anchor.
CheckLease(p) ==
    /\ pc[p] = "holding"
    /\ p \notin late
    /\ anchor = None
    /\ IF Owned(p) THEN Goto(p, "checked") /\ UNCHANGED code
                   ELSE Tell(p, "lost-lease") /\ UNCHANGED pc
    /\ UNCHANGED <<disk, anchor, todo, requests, my, workload, late, open, jobs>>

\* The provider's supervisor inherits the guard and starts the engine.
StartJob(p) ==
    /\ pc[p] = "checked"
    /\ guard' = [guard EXCEPT ![my[p]] = @ \cup {"job"}]
    /\ running' = running \cup {my[p]}
    /\ Goto(p, "working")
    /\ UNCHANGED <<disk, anchor, todo, requests, my, workload, late, code, open>>

\* release(), the end of a with block, or a with block whose check refuses.
Abandon(p) ==
    /\ pc[p] \in {"holding", "checked", "working"}
    /\ guard' = [guard EXCEPT ![my[p]] = @ \ {"provider"}]
    /\ Return(p)
    /\ UNCHANGED <<disk, anchor, todo, requests, code, open, running>>

\* release(cleanup_complete=True): the provider has reaped the engine, or
\* started none.
Acknowledge(p) ==
    /\ pc[p] \in {"holding", "checked", "working"}
    /\ my[p] \notin running \/ "early_ack" \in Faults
    /\ Goto(p, "ack")
    /\ UNCHANGED <<disk, anchor, todo, requests, my, workload, late, code, open, jobs>>

AckEnter(p) ==
    /\ pc[p] = "ack"
    /\ anchor = None
    /\ IF Owned(p) THEN /\ anchor' = p
                        /\ Goto(p, "ack_save")
                        /\ UNCHANGED code
                   ELSE /\ Tell(p, "lost-lease")
                        /\ Goto(p, "ack_close")
                        /\ UNCHANGED anchor
    /\ UNCHANGED <<disk, todo, requests, my, workload, late, open, jobs>>

\* Mutant: the guard is closed whatever the acknowledgement failed of.
AckTimeoutCloses(p) ==
    /\ "stall" \in Faults
    /\ pc[p] = "ack"
    /\ anchor # None
    /\ Tell(p, "deadline")
    /\ Goto(p, "ack_close")
    /\ UNCHANGED <<disk, anchor, todo, requests, my, workload, late, open, jobs>>

\* The registry stayed busy for _ACK_WAIT_SECONDS: the guard is retained.
AckTimeout(p) ==
    /\ "stall" \in Faults
    /\ pc[p] = "ack"
    /\ anchor # None
    /\ Tell(p, "deadline")
    /\ Goto(p, "holding")
    /\ UNCHANGED <<disk, anchor, todo, requests, my, workload, late, open, jobs>>

AckSave(p) ==
    /\ pc[p] = "ack_save"
    /\ Save(p)
    /\ anchor' = None
    /\ Goto(p, "ack_close")
    /\ UNCHANGED <<files, todo, requests, my, workload, late, code, open, jobs>>

AckRaises(p) ==
    /\ "io" \in Faults
    /\ pc[p] \in {"ack", "ack_save"}
    /\ SaveRaises(p)
    /\ anchor' = IF anchor = p THEN None ELSE anchor
    /\ Tell(p, "unavailable")
    /\ Goto(p, "ack_close")
    /\ UNCHANGED <<files, todo, requests, my, workload, late, open, jobs>>

AckClose(p) ==
    /\ pc[p] = "ack_close"
    /\ guard' = [guard EXCEPT ![my[p]] = @ \ {"provider"}]
    /\ Return(p)
    /\ UNCHANGED <<disk, anchor, todo, requests, code, open, running>>

----
\* The environment.

\* Lease descriptors are not in _OPEN: a forked child of the holder keeps one.
HolderFork(p) ==
    /\ "fork" \in Faults
    /\ pc[p] \in Holding
    /\ guard' = [guard EXCEPT ![my[p]] = @ \cup {"child"}]
    /\ UNCHANGED <<disk, anchor, todo, requests, pc, my, workload, late, code, open, running>>

ChildExits(t) ==
    /\ "child" \in guard[t]
    /\ guard' = [guard EXCEPT ![t] = @ \ {"child"}]
    /\ UNCHANGED <<disk, anchor, todo, requests, pc, my, workload, late, code, open, running>>

JobEnds(t) ==
    /\ t \in running
    /\ running' = running \ {t}
    /\ guard' = [guard EXCEPT ![t] = @ \ {"job"}]
    /\ UNCHANGED <<disk, anchor, todo, requests, pc, my, workload, late, code, open>>

\* The supervisor is killed and the engine has no copy of the guard.
JobLosesGuard(t) ==
    /\ "guard_loss" \in Faults
    /\ t \in running
    /\ "job" \in guard[t]
    /\ guard' = [guard EXCEPT ![t] = @ \ {"job"}]
    /\ UNCHANGED <<disk, anchor, todo, requests, pc, my, workload, late, code, open, running>>

\* The deadline of a request or lease passes.
Expire(p) ==
    /\ pc[p] # "idle"
    /\ p \notin late
    /\ late' = late \cup {p}
    /\ UNCHANGED <<disk, anchor, todo, requests, pc, my, workload, code, open, jobs>>

\* Death at any step, a save half done included; the kernel closes every
\* descriptor the process had.
Crash(p) ==
    /\ "crash" \in Faults
    /\ pc[p] # "idle"
    /\ Return(p)
    /\ anchor' = IF anchor = p THEN None ELSE anchor
    /\ todo' = IF anchor = p THEN {} ELSE todo
    /\ open' = open \ {my[p]}
    /\ guard' = [t \in Ticket |-> IF t = my[p] THEN guard[t] \ {"provider"} ELSE guard[t]]
    /\ code' = [code EXCEPT ![p] = "none"]
    /\ temp' \in IF Pending(p) # state THEN BOOLEAN ELSE {temp}
    /\ UNCHANGED <<state, files, requests, running>>

----
\* The steps an acquire() call takes by itself.
Acquire(p) ==
    \/ MissDeadline(p) \/ Enter(p)
    \/ PruneScan(p) \/ UnlinkRemoved(p) \/ RefuseEntries(p) \/ ListEntries(p)
    \/ SweepOrphan(p) \/ EndSweep(p)
    \/ RefuseFull(p) \/ CreateTicket(p) \/ TicketFails(p) \/ CommitTicket(p)
    \/ FindLost(p) \/ RefuseLost(p) \/ RefuseQuarantined(p) \/ StayQueued(p)
    \/ TakeResource(p) \/ SaveGrant(p) \/ ReturnLease(p)
    \/ PassRaises(p) \/ GrantRaises(p) \/ RollBack(p)
    \/ WithdrawEnter(p) \/ WithdrawNothing(p) \/ Unqueue(p) \/ UnlinkOwn(p)
    \/ WithdrawRaises(p) \/ CloseTicket(p)

\* The steps of a provider that holds a lease.
Hold(p) ==
    \/ CheckLease(p) \/ StartJob(p) \/ Abandon(p) \/ Acknowledge(p)
    \/ AckEnter(p) \/ AckTimeout(p) \/ AckSave(p) \/ AckRaises(p) \/ AckClose(p)

Environment ==
    \/ \E p \in Proc : Cancel(p) \/ HolderFork(p) \/ Expire(p) \/ Crash(p)
    \/ \E t \in Ticket : ChildExits(t) \/ JobEnds(t) \/ JobLosesGuard(t)

Next ==
    \/ \E p \in Proc : Request(p) \/ Acquire(p) \/ Hold(p)
    \/ Environment

Spec == Init /\ [][Next]_vars

\* A prompt process that is not killed takes its steps, and its deadlines (at
\* most an hour away) pass.  Nothing is assumed about the others: whoever holds
\* the anchor may hold it for ever.
LiveSpec ==
    /\ Spec
    /\ \A p \in Prompt : WF_vars(Acquire(p)) /\ WF_vars(Expire(p))

\* Every process takes its steps and its turn at a free anchor: a pass is over
\* in milliseconds and whoever finds the anchor busy polls it every 20 ms.
\* Holders release in the end, one way or the other; jobs and forked children
\* end.  No deadline has to pass and nobody has to cancel.
Serviced ==
    /\ \A p \in Proc :
        /\ WF_vars(Acquire(p)) /\ SF_vars(Enter(p))
        /\ WF_vars(Hold(p)) /\ SF_vars(AckEnter(p))
        /\ WF_vars(Abandon(p) \/ Acknowledge(p))
    /\ \A t \in Ticket : WF_vars(JobEnds(t)) /\ WF_vars(ChildExits(t))

----
\* Properties.

\* At most one engine runs, whatever the interleaving of requesters, crashes
\* and engines that outlive their provider ("Every workload uses one
\* conservative execution lock").
Exclusive == Cardinality(running) <= 1

\* At most one process has a lease it may start a job under, and the registry
\* agrees with it: Lease._owned can only fail for a lease that is closed.
LeaseIsCurrent ==
    \A p, q \in Proc :
        pc[p] \in {"holding", "checked", "working", "ack"} =>
            /\ Owned(p)
            /\ pc[q] \in Holding => p = q

\* state.json always passes _state(): no coordinator, whatever crashed before
\* it, leaves a record that the next pass refuses for good.
RecordIsAccepted ==
    /\ Cardinality(state.queue) <= MAX_QUEUE
    /\ \A k \in Kind : Cardinality(Group(state.queue, k)) <= MAX_WORKLOAD_QUEUE
    /\ \A i \in state.queue : i.sequence < state.next
    /\ \A i, j \in state.queue :
           i.ticket = j.ticket \/ i.sequence = j.sequence => i = j
    /\ state.active.ticket \notin Tickets(state.queue)

\* A request that has joined and still has time keeps its entry and its ticket
\* file, whoever prunes, sweeps, crashes or withdraws meanwhile.
PlaceIsKept ==
    \A p \in Proc :
        (pc[p] \in {"poll"} \cup (Pass \ {"commit"}) /\ my[p] \in open /\ p \notin late)
            => Queued(my[p]) /\ my[p] \in files

\* lost-lease is never told to a requester that only waited nor to a provider
\* that only used its lease.
NeverLost == \A p \in Proc : code[p] # "lost-lease"

\* Whoever is told "unavailable" found a grant whose provider can no longer
\* acknowledge it.  (Without I/O errors, and while the slack of prune() has room for
\* what the dead left: RefusalIsJust of LeaseDeaths.)
UnavailableMeansQuarantine ==
    (\E p \in Proc : code[p] = "unavailable") =>
        /\ Quarantined
        /\ \A p \in Proc : pc[p] \in Holding => ~Owned(p)

\* "Process death, PID reuse or the disappearance of all FD copies is never
\* cleanup proof": a grant that is held and has no provider left stays so.
Unprovable == Quarantined /\ \A p \in Proc : ~(pc[p] \in Holding \cup {"granted", "rollback"} /\ Owned(p))
QuarantineIsForGood == [][Unprovable => Unprovable']_vars

\* The guard of an acknowledged lease is not dropped before the acknowledgement
\* is on record ("The acknowledgement is the only cleanup proof... closing it
\* would leave the grant held and the namespace quarantined for good").
AcknowledgementIsKept == \A p \in Proc : pc[p] = "ack_close" => ~HeldBy(my[p])

\* Killed coordinators never leave so many unreferenced tickets that prune()
\* refuses the directory before it sweeps them, which would be for good ("a
\* coordinator killed at any step cannot wedge the queue").
NeverWedged ==
    anchor = None => 2 + Cardinality(Unreferenced) <= MAX_QUEUE + EntrySlack

\* The grants are those of the contract: registry, queue, tickets and crashes
\* only decide who is next.
Contract == INSTANCE LeaseContract WITH active <- state.active
RefinesContract == Contract!Spec

\* acquire() returns or raises by its deadline, even when another process never
\* leaves the registry.
RequestEnds ==
    \A p \in Prompt : pc[p] = "poll" ~> pc[p] \in {"idle", "holding"}

\* Where every process is serviced, whoever waits is served or refused even
\* without a deadline: the rotation, the polling and the pruning starve nobody.
RequestIsServed ==
    Serviced => \A p \in Proc : pc[p] = "poll" ~> pc[p] \in {"close", "holding", "idle"}
====
