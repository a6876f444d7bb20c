---- MODULE BoundedProbe ----
(***************************************************************************)
(* _run_bounded() of plebian-hardware: a command is run with a deadline    *)
(* and a limit on its output, as the leader of a process group of its own  *)
(* that is killed when either is passed.  The command may leave a helper   *)
(* running that holds its end of the pipe and may leave the group, and the *)
(* program may be interrupted: then nobody kills anything.                 *)
(***************************************************************************)
EXTENDS Naturals

CONSTANTS
    Limit,      \* SUBPROCESS_STDOUT_BYTES, in blocks
    MaxSent     \* blocks the command writes (a bound)

\* The limit and the output are numbers of blocks.
ASSUME ProbeAssumption == Limit \in Nat /\ MaxSent \in Nat

VARIABLES
    runner,     \* where _run_bounded() is
    leader,     \* the process it started
    helper,     \* a process that the leader started
    writers,    \* who holds the writing end of the pipe
    sent,       \* blocks written to the pipe
    got,        \* blocks read
    late,       \* the deadline has passed
    answer      \* whether output is returned

probeVars == <<runner, leader, helper, writers, sent, got, late, answer>>

ProbeTypeOK ==
    /\ runner \in {"reading", "waiting", "killing", "reaping", "done", "interrupted"}
    /\ leader \in {"runs", "zombie", "reaped"}
    /\ helper \in {"none", "member", "escaped", "over"}
    /\ writers \subseteq {"leader", "helper"}
    /\ sent \in 0..MaxSent /\ got \in 0..sent
    /\ late \in BOOLEAN /\ answer \in BOOLEAN

ProbeInit ==
    /\ runner = "reading" /\ leader = "runs" /\ helper = "none"
    /\ writers = {"leader"}
    /\ sent = 0 /\ got = 0
    /\ late = FALSE /\ answer = FALSE

command == <<leader, helper, writers, sent>>

----
\* The command.

Runs(who) ==
    \/ who = "leader" /\ leader = "runs"
    \/ who = "helper" /\ helper \in {"member", "escaped"}

Send(who) ==
    /\ Runs(who) /\ who \in writers
    /\ sent < MaxSent
    /\ sent' = sent + 1
    /\ UNCHANGED <<runner, leader, helper, writers, got, late, answer>>

CloseOutput(who) ==
    /\ Runs(who) /\ who \in writers
    /\ writers' = writers \ {who}
    /\ UNCHANGED <<runner, leader, helper, sent, got, late, answer>>

StartHelper ==
    /\ leader = "runs" /\ helper = "none"
    /\ helper' = "member"
    /\ writers' = IF "leader" \in writers THEN writers \cup {"helper"} ELSE writers
    /\ UNCHANGED <<runner, leader, sent, got, late, answer>>

\* setpgid() is enough: the session is new too, but it is the group that is killed.
LeaveGroup ==
    /\ helper = "member"
    /\ helper' = "escaped"
    /\ UNCHANGED <<runner, leader, writers, sent, got, late, answer>>

Ends(who) ==
    /\ Runs(who)
    /\ leader' = IF who = "leader" THEN "zombie" ELSE leader
    /\ helper' = IF who = "helper" THEN "over" ELSE helper
    /\ writers' = writers \ {who}
    /\ UNCHANGED <<runner, sent, got, late, answer>>

Deadline == ~late /\ late' = TRUE /\ UNCHANGED <<runner, command, got, answer>>

----
\* _run_bounded()

\* The pipe is read to its end.  Mutant: Only as long as the leader runs.
LeaderIsOver == got = sent /\ leader = "zombie"
IsAtEnd == got = sent /\ writers = {}

ReadOutput ==
    /\ runner = "reading"
    /\ \/ /\ ~late /\ got < sent
          /\ got' = got + 1
          /\ runner' = IF got + 1 > Limit THEN "killing" ELSE "reading"
       \/ /\ ~late /\ IsAtEnd
          /\ runner' = "waiting"
          /\ UNCHANGED got
       \/ /\ late
          /\ runner' = "killing"
          /\ UNCHANGED got
    /\ UNCHANGED <<command, late, answer>>

\* process.wait(timeout), which looks once even when the time is up.
WaitForLeader ==
    /\ runner = "waiting"
    /\ \/ /\ leader = "zombie"
          /\ leader' = "reaped" /\ runner' = "done" /\ answer' = TRUE
       \/ /\ late /\ leader = "runs"
          /\ runner' = "killing"
          /\ UNCHANGED <<leader, answer>>
    /\ UNCHANGED <<helper, writers, sent, got, late>>

\* killpg() reaches whoever is in the leader's group, which is there as long as
\* the leader has not been reaped.
KillGroup ==
    /\ helper' = IF helper = "member" THEN "over" ELSE helper
    /\ writers' = writers \ (IF helper = "member" THEN {"leader", "helper"} ELSE {"leader"})

GiveUp ==
    /\ runner = "killing"
    /\ leader' = "zombie"
    /\ KillGroup
    /\ runner' = "reaping"
    /\ UNCHANGED <<sent, got, late, answer>>

\* process.wait() without a timeout.
Reap ==
    /\ runner = "reaping" /\ leader = "zombie"
    /\ leader' = "reaped" /\ runner' = "done"
    /\ UNCHANGED <<helper, writers, sent, got, late, answer>>

\* An exception that is neither an OSError nor a TimeoutExpired, as for Ctrl-C:
\* the pipe is closed and the command left as it is, except that wait() may have
\* just collected it.
Interrupt ==
    /\ runner \in {"reading", "waiting", "killing", "reaping"}
    /\ runner' = "interrupted"
    /\ \/ UNCHANGED leader
       \/ runner \in {"waiting", "reaping"} /\ leader = "zombie" /\ leader' = "reaped"
    /\ UNCHANGED <<helper, writers, sent, got, late, answer>>

ProbeNext ==
    \/ \E who \in {"leader", "helper"} : Send(who) \/ CloseOutput(who) \/ Ends(who)
    \/ StartHelper \/ LeaveGroup \/ Deadline
    \/ ReadOutput \/ WaitForLeader \/ GiveUp \/ Reap \/ Interrupt

ProbeSpec == ProbeInit /\ [][ProbeNext]_probeVars

----
\* Output that is returned is all there will ever be, within the limit, also
\* when the leader is gone long before a helper that writes for it.
AnswerIsComplete == answer => got = sent /\ writers = {} /\ sent <= Limit

\* A command that _run_bounded() gave up on, and came to its end, leaves no process
\* behind, zombies included, except one that took itself out of the leader's process
\* group.  Nothing is said of an interrupted one, which is not killed.
GivenUpIsGone == runner = "done" /\ ~answer => leader = "reaped" /\ helper # "member"

\* Both at once: a probe that is not interrupted ends with the whole answer, or
\* with nothing of the command's group left.
ProbeIsBounded == AnswerIsComplete /\ GivenUpIsGone
====
