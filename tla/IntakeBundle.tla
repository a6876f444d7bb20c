---- MODULE IntakeBundle ----
(***************************************************************************)
(* The output bundle of the measurement intake (tools/measure/profile.py): *)
(* a directory of two files, built under a temporary name, committed by a  *)
(* rename that replaces nothing, verified, and taken back when anything    *)
(* failed.  Several intakes may aim at one name, any call may fail or be   *)
(* interrupted, processes may be killed, power may be lost, and the owner  *)
(* of the directories may move the bundle or its parent meanwhile.         *)
(***************************************************************************)
EXTENDS Naturals, FiniteSets

CONSTANTS Intake    \* processes, each with its directory

VARIABLES
    place,      \* of each intake, the name that its directory has
    placeDisk,  \* the names it may be found to have after a power loss
    content,    \* of each of its files, how much is written
    sealed,     \* the directories that have been synced with their files
    step,       \* where the intake is
    flags,      \* temporary_created, renamed, and whether the fd is open
    parentHere, \* the path of the parent leads where it did
    moved,      \* history: the directories that were moved by their owner
    spoiled     \* history: the intakes whose clean-up did not run in full

intakeVars == <<place, placeDisk, content, sealed, step, flags, parentHere, moved, spoiled>>
disk == <<place, placeDisk, content, sealed>>

BundleFile == {"profile", "receipt"}
Place == {"none", "temp", "final", "away"}
Working == {"begin", "mkdir", "made", "opendir", "profile", "receipt", "seal",
            "check", "rename", "renamed", "verify", "syncparent"}
Cleaning == {"unreceipt", "unprofile", "rmdir"}
Ended == {"ok", "refused", "dead"}

IntakeTypeOK ==
    /\ place \in [Intake -> Place]
    /\ placeDisk \in [Intake -> SUBSET Place]
    /\ content \in [Intake -> [BundleFile -> {"none", "part", "whole"}]]
    /\ sealed \subseteq Intake
    /\ step \in [Intake -> {"preflight"} \cup Working \cup Cleaning \cup Ended]
    /\ flags \in [Intake -> SUBSET {"created", "open", "renamed"}]
    /\ parentHere \in BOOLEAN
    /\ moved \subseteq Intake /\ spoiled \subseteq Intake

IntakeInit ==
    /\ place = [i \in Intake |-> "none"]
    /\ placeDisk = [i \in Intake |-> {"none"}]
    /\ content = [i \in Intake |-> [f \in BundleFile |-> "none"]]
    /\ sealed = {}
    /\ step = [i \in Intake |-> "preflight"]
    /\ flags = [i \in Intake |-> {}]
    /\ parentHere = TRUE
    /\ moved = {} /\ spoiled = {}

----
Taken == \E i \in Intake : place[i] = "final"
Filled(i) == \E f \in BundleFile : content[i][f] # "none"
IsWhole(i) == \A f \in BundleFile : content[i][f] = "whole"

IsAt(i, s) == step[i] = s
MoveTo(i, s) == step' = [step EXCEPT ![i] = s]
Raise(i, flag) == flags' = [flags EXCEPT ![i] = @ \cup {flag}]
Locate(i, name) ==
    /\ place' = [place EXCEPT ![i] = name]
    /\ placeDisk' = [placeDisk EXCEPT ![i] = @ \cup {name}]
Outside == UNCHANGED <<parentHere, moved, spoiled>>

\* The finally clause: what it undoes first depends on how far the intake was.
TakeBack(i) ==
    MoveTo(i, IF "open" \in flags[i] THEN "unreceipt"
            ELSE IF "created" \in flags[i] THEN "rmdir" ELSE "refused")

\* _open_bundle_target(), and the inputs are read and validated.
Preflight(i) ==
    /\ IsAt(i, "preflight")
    /\ \/ ~Taken /\ parentHere /\ MoveTo(i, "begin")
       \/ MoveTo(i, "refused")
    /\ UNCHANGED <<disk, flags>> /\ Outside

\* _target_still_safe()
Begin(i) ==
    /\ IsAt(i, "begin")
    /\ IF parentHere THEN MoveTo(i, "mkdir") ELSE MoveTo(i, "refused")
    /\ UNCHANGED <<disk, flags>> /\ Outside

Mkdir(i) ==
    /\ IsAt(i, "mkdir")
    /\ Locate(i, "temp")
    /\ MoveTo(i, "made")
    /\ UNCHANGED <<content, sealed, flags>> /\ Outside

Made(i) ==
    /\ IsAt(i, "made")
    /\ Raise(i, "created")
    /\ MoveTo(i, "opendir")
    /\ UNCHANGED disk /\ Outside

OpenTemporary(i) ==
    /\ IsAt(i, "opendir")
    /\ Raise(i, "open")
    /\ MoveTo(i, "profile")
    /\ UNCHANGED disk /\ Outside

\* _write_private_file(): created, then written and synced.
WriteFile(i, f, next) ==
    /\ IsAt(i, f)
    /\ \/ /\ content[i][f] = "none"
          /\ content' = [content EXCEPT ![i][f] = "part"]
          /\ UNCHANGED step
       \/ /\ content[i][f] = "part"
          /\ content' = [content EXCEPT ![i][f] = "whole"]
          /\ MoveTo(i, next)
    /\ UNCHANGED <<place, placeDisk, sealed, flags>> /\ Outside

\* Mutant: The directory is not synced before the commit.
SealNothing(i) ==
    /\ IsAt(i, "seal")
    /\ MoveTo(i, "check")
    /\ UNCHANGED <<disk, flags>> /\ Outside

Seal(i) ==
    /\ IsAt(i, "seal")
    /\ sealed' = sealed \cup {i}
    /\ MoveTo(i, "check")
    /\ UNCHANGED <<place, placeDisk, content, flags>> /\ Outside

Check(i) ==
    /\ IsAt(i, "check")
    /\ IF parentHere /\ ~Taken THEN MoveTo(i, "rename") ELSE TakeBack(i)
    /\ UNCHANGED <<disk, flags>> /\ Outside

\* _rename_noreplace()
Rename(i) ==
    /\ IsAt(i, "rename")
    /\ \/ /\ ~Taken
          /\ Locate(i, "final")
          /\ MoveTo(i, "renamed")
       \/ /\ Taken
          /\ TakeBack(i)
          /\ UNCHANGED <<place, placeDisk>>
    /\ UNCHANGED <<content, sealed, flags>> /\ Outside

Renamed(i) ==
    /\ IsAt(i, "renamed")
    /\ Raise(i, "renamed")
    /\ MoveTo(i, "verify")
    /\ UNCHANGED disk /\ Outside

\* _verify_committed_bundle(): the path still leads to the directory whose
\* descriptor was kept, and that holds both files in full.
Verify(i) ==
    /\ IsAt(i, "verify")
    /\ IF parentHere /\ place[i] = "final" /\ IsWhole(i)
       THEN MoveTo(i, "syncparent") ELSE TakeBack(i)
    /\ UNCHANGED <<disk, flags>> /\ Outside

\* A move within one file system is one transaction, whichever side is synced.
SyncParent(i) ==
    /\ IsAt(i, "syncparent")
    /\ placeDisk' = [j \in Intake |-> {place[j]}]
    /\ MoveTo(i, "ok")
    /\ UNCHANGED <<place, content, sealed, flags>> /\ Outside

----
\* Files are unlinked through the descriptor of the intake's own directory.
\* Mutant: They are unlinked through the name of the bundle.
NamedDirectory(i) == {j \in Intake : place[j] = IF "renamed" \in flags[i] THEN "final" ELSE "temp"}
OwnDirectory(i) == {i}

Unlink(i, f, next) ==
    /\ MoveTo(i, next)
    /\ \/ /\ content' = [j \in Intake |->
                IF j \in OwnDirectory(i) THEN [content[j] EXCEPT ![f] = "none"] ELSE content[j]]
          /\ UNCHANGED spoiled
       \/ /\ spoiled' = spoiled \cup {i}
          /\ UNCHANGED content
    /\ UNCHANGED <<place, placeDisk, sealed, flags, parentHere, moved>>

\* rmdir() of a name, which removes whatever directory has it if it is empty.
\* Mutant: It is the temporary name that is removed.
RemovedTemporary(i) == {j \in {i} : place[j] = "temp" /\ ~Filled(j)}
Removed(i) ==
    {j \in Intake : /\ place[j] = IF "renamed" \in flags[i] THEN "final" ELSE "temp"
                    /\ "renamed" \in flags[i] \/ j = i
                    /\ ~Filled(j)}

Rmdir(i) ==
    /\ IsAt(i, "rmdir")
    /\ MoveTo(i, "refused")
    /\ \/ /\ place' = [j \in Intake |-> IF j \in Removed(i) THEN "none" ELSE place[j]]
          /\ placeDisk' = [j \in Intake |->
                IF j \in Removed(i) THEN placeDisk[j] \cup {"none"} ELSE placeDisk[j]]
          /\ UNCHANGED spoiled
       \/ /\ spoiled' = spoiled \cup {i}
          /\ UNCHANGED <<place, placeDisk>>
    /\ UNCHANGED <<content, sealed, flags, parentHere, moved>>

\* A call fails, or an interrupt arrives.  One that arrives after a call has
\* taken effect and before the line that notes it leaves the clean-up blind.
CallFails(i) ==
    /\ step[i] \in Working
    /\ TakeBack(i)
    /\ spoiled' = IF step[i] \in {"made", "renamed"} THEN spoiled \cup {i} ELSE spoiled
    /\ UNCHANGED <<disk, flags, parentHere, moved>>

Dies(i) ==
    /\ step[i] \in Working \cup Cleaning
    /\ MoveTo(i, "dead")
    /\ UNCHANGED <<disk, flags>> /\ Outside

\* The owner of the directories, who is told that this is not prevented.
MoveBundle(i) ==
    /\ \/ place[i] = "final" /\ Locate(i, "away")
       \/ place[i] = "away" /\ ~Taken /\ Locate(i, "final")
    /\ moved' = moved \cup {i}
    /\ UNCHANGED <<content, sealed, step, flags, parentHere, spoiled>>

MoveParent ==
    /\ parentHere' = ~parentHere
    /\ UNCHANGED <<disk, step, flags, moved, spoiled>>

\* What a power loss may change: a file that was unlinked can be back, and of
\* a directory that was not synced nothing is sure.
Uncertain(i, f) == IF i \in sealed THEN content[i][f] = "none" ELSE content[i][f] # "none"

PowerIsLost ==
    /\ place' \in {p \in [Intake -> Place] :
            /\ \A i \in Intake : p[i] \in placeDisk[i]
            /\ Cardinality({i \in Intake : p[i] = "final"}) <= 1}
    /\ placeDisk' = [i \in Intake |-> {place'[i]}]
    /\ \E hit \in SUBSET {u \in Intake \X BundleFile : Uncertain(u[1], u[2])} :
        content' = [i \in Intake |-> [f \in BundleFile |->
            IF <<i, f>> \notin hit THEN content[i][f]
            ELSE IF i \in sealed THEN "whole" ELSE "part"]]
    /\ step' = [i \in Intake |-> IF step[i] \in Ended THEN step[i] ELSE "dead"]
    /\ spoiled' = Intake
    /\ UNCHANGED <<sealed, flags, parentHere, moved>>

IntakeNext ==
    \/ \E i \in Intake :
        \/ Preflight(i) \/ Begin(i) \/ Mkdir(i) \/ Made(i) \/ OpenTemporary(i)
        \/ WriteFile(i, "profile", "receipt") \/ WriteFile(i, "receipt", "seal")
        \/ Seal(i) \/ Check(i) \/ Rename(i) \/ Renamed(i) \/ Verify(i) \/ SyncParent(i)
        \/ IsAt(i, "unreceipt") /\ Unlink(i, "receipt", "unprofile")
        \/ IsAt(i, "unprofile") /\ Unlink(i, "profile", "rmdir")
        \/ Rmdir(i) \/ CallFails(i) \/ Dies(i) \/ MoveBundle(i)
    \/ MoveParent \/ PowerIsLost

IntakeSpec == IntakeInit /\ [][IntakeNext]_intakeVars

----
\* The bundle of an intake that reported success stays what it was: no other
\* intake's commit or clean-up, and no power loss, takes a file or the name
\* from it.
SuccessIsKept ==
    \A i \in Intake : step[i] = "ok" =>
        /\ IsWhole(i) /\ i \in sealed
        /\ placeDisk[i] \subseteq {"final", "away"}

\* A directory that can be seen under the name of the bundle, also after a
\* power loss, holds both files in full: the rename is the single event that makes
\* it visible.  Not so for one that its intake is taking back, or that an intake
\* leaves which was refused or died, perhaps on the way of taking it back.
VisibleIsWhole ==
    \A i \in Intake :
        /\ "final" \in placeDisk[i] \cup {place[i]}
        /\ step[i] \notin Cleaning \cup {"refused", "dead"}
        => IsWhole(i) /\ i \in sealed

\* An intake that was refused leaves nothing behind, wherever it failed and
\* whoever took the name meanwhile, provided that its clean-up was not cut
\* short; of a bundle its owner has moved an empty directory may remain.
RefusedLeavesNothing ==
    \A i \in Intake : step[i] = "refused" /\ i \notin spoiled =>
        ~Filled(i) /\ (i \notin moved => place[i] = "none")
====
