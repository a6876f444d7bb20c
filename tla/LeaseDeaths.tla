---- MODULE LeaseDeaths ----
(***************************************************************************)
(* DeviceLease with a count of the processes that died and of the tickets  *)
(* they were at work on, to say how much of what lies in the directory     *)
(* they may have left.  The counts decide nothing.                         *)
(***************************************************************************)
EXTENDS DeviceLease

VARIABLES
    deaths,     \* history: how many processes died so far
    unfinished  \* history: how many tickets they were at work on

countedVars == <<vars, deaths, unfinished>>

\* The tickets that a pass has yet to unlink, or to name in the queue.
Duty(p) ==
    {t \in Ticket :
        \/ pc[p] = "unlink" /\ t \in todo
        \/ pc[p] \in {"commit", "granted", "unqueued"} /\ my[p] = t}

CountDeaths ==
    LET dead == {p \in Proc : Crash(p)}     \* one or none
    IN  /\ deaths' = deaths + Cardinality(dead)
        /\ unfinished' = unfinished + Cardinality(UNION {Duty(p) : p \in dead})

CountedInit == Init /\ deaths = 0 /\ unfinished = 0

CountedNext == Next /\ CountDeaths

CountedSpec == CountedInit /\ [][CountedNext]_countedVars

----
\* The tickets in the directory that no entry names are from the dead, who were at
\* work on them, which is at most a queue of them for each: a pass that goes on
\* sweeps what it has removed.
LitterIsOfTheDead ==
    /\ anchor = None => Cardinality(Unreferenced) <= unfinished
    /\ unfinished <= deaths * MAX_QUEUE

\* One coordinator that is killed, at any step, does not wedge the queue.
OneDeathIsSwept == deaths <= 1 => NeverWedged

\* The slack of prune() has room for all that the dead left undone, beside the
\* three files that are no tickets.
Spared == unfinished + 3 <= EntrySlack

\* As long as it has, "unavailable" is told for a quarantine only, however many
\* processes died, and at whatever steps.
RefusalIsJust == Spared => UnavailableMeansQuarantine
====
