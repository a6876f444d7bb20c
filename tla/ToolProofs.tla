---- MODULE ToolProofs ----
(***************************************************************************)
(* Theorems about the measurement intake, IntakeBundle and IntakeInputs,   *)
(* for any number of intakes, faults, versions and ticks; about the model  *)
(* sizer, SizerVerdict, for any hosts, models and profiles; and about all  *)
(* host tools together.                                                    *)
(***************************************************************************)
EXTENDS MCHostTools, HardwareProofs, SumLemmas

\* The steps before there is a directory, with it under its temporary name and
\* after it was committed.
Early == {"preflight", "begin", "mkdir"}
Building == {"made", "opendir", "profile", "receipt", "seal", "check", "rename"}
Committed == {"renamed", "verify", "syncparent", "ok"}

----
\* The inductive invariant, in parts.

\* The name a directory has, also after a power loss, follows the steps, and
\* only its owner moves it elsewhere.
PlaceFits ==
    \A i \in Intake :
        /\ step[i] \in Early => place[i] = "none"
        /\ step[i] \in Building => place[i] = "temp"
        /\ step[i] \in Early \cup Building => placeDisk[i] \subseteq {"none", "temp"}
        /\ step[i] \in Committed => place[i] \in {"final", "away"}
        /\ step[i] = "ok" => placeDisk[i] \subseteq {"final", "away"}
        /\ "away" \in placeDisk[i] \cup {place[i]} => i \in moved

FlagsFit ==
    \A i \in Intake :
        /\ step[i] \in Early \cup {"made"} => flags[i] = {}
        /\ step[i] = "opendir" => flags[i] = {"created"}
        /\ step[i] \in (Building \cup {"renamed"}) \ {"made", "opendir"}
            => flags[i] = {"created", "open"}
        /\ step[i] \in {"verify", "syncparent"} => flags[i] = {"created", "open", "renamed"}

\* The files are written one after the other, and synced with their directory
\* before the commit.
ContentFits ==
    \A i \in Intake :
        /\ step[i] \in Early \cup {"made", "opendir"} => ~Filled(i)
        /\ step[i] = "profile" => content[i]["receipt"] = "none"
        /\ step[i] = "receipt" => content[i]["profile"] = "whole"
        /\ step[i] \in {"seal", "check", "rename"} \cup Committed => IsWhole(i)
        /\ step[i] \in {"check", "rename"} \cup Committed => i \in sealed

\* A clean-up that runs in full knows under which name the directory is, and has
\* emptied it when it comes to remove it.
CleanUpFits ==
    \A i \in Intake \ spoiled :
        /\ step[i] \in Cleaning =>
            IF "renamed" \in flags[i] THEN place[i] \in {"none", "final", "away"}
                                      ELSE place[i] = "temp"
        /\ step[i] \in {"unprofile", "rmdir"} => content[i]["receipt"] = "none"
        /\ step[i] = "rmdir" => content[i]["profile"] = "none"

IntakeInv ==
    /\ IntakeTypeOK
    /\ PlaceFits
    /\ FlagsFit
    /\ ContentFits
    /\ CleanUpFits
    /\ RefusedLeavesNothing

----
\* A new name is noted with what a power loss may bring back.
LEMMA Located ==
    ASSUME IntakeTypeOK, NEW i \in Intake, NEW name \in Place, Locate(i, name)
    PROVE  place' \in [Intake -> Place] /\ placeDisk' \in [Intake -> SUBSET Place]
<1>1. place' \in [Intake -> Place]
  BY DEF IntakeTypeOK, Locate
<1>2. placeDisk[i] \cup {name} \in SUBSET Place
  BY DEF IntakeTypeOK
<1>3. placeDisk' = [placeDisk EXCEPT ![i] = placeDisk[i] \cup {name}]
  BY DEF Locate
<1>4. QED
  BY <1>1, <1>2, <1>3 DEF IntakeTypeOK

\* Writing a file is one of two changes to one file of one intake.
LEMMA WriteEffect ==
    ASSUME IntakeTypeOK, NEW i \in Intake,
           WriteFile(i, "profile", "receipt") \/ WriteFile(i, "receipt", "seal")
    PROVE  /\ content' \in [Intake -> [BundleFile -> {"none", "part", "whole"}]]
           /\ \A j \in Intake \ {i} : content'[j] = content[j] /\ step'[j] = step[j]
           /\ step'[i] \in {"profile", "receipt", "seal"}
           /\ step' \in [Intake -> {"preflight"} \cup Working \cup Cleaning \cup Ended]
<1>1. ASSUME NEW f \in BundleFile, NEW v \in {"part", "whole"},
             content' = [content EXCEPT ![i][f] = v]
      PROVE  /\ content' \in [Intake -> [BundleFile -> {"none", "part", "whole"}]]
             /\ \A j \in Intake \ {i} : content'[j] = content[j]
  BY <1>1 DEF IntakeTypeOK
<1>2. ASSUME NEW f \in BundleFile, NEW s \in {"receipt", "seal"}, WriteFile(i, f, s)
      PROVE  \E v \in {"part", "whole"} : content' = [content EXCEPT ![i][f] = v]
  BY <1>2 DEF WriteFile
<1>3. \A j \in Intake \ {i} : step'[j] = step[j]
  BY DEF WriteFile, IntakeTypeOK, MoveTo
<1>4. step'[i] \in {"profile", "receipt", "seal"}
  BY DEF WriteFile, IntakeTypeOK, MoveTo, IsAt
<1>5. step' \in [Intake -> {"preflight"} \cup Working \cup Cleaning \cup Ended]
  BY DEF WriteFile, IntakeTypeOK, MoveTo, Working
<1>6. QED
  BY <1>1, <1>2, <1>3, <1>4, <1>5 DEF BundleFile

----
\* Every step keeps the invariant, one operation at a time.
LEMMA IntakeInvStep ==
    ASSUME IntakeInv, IntakeNext
    PROVE  IntakeInv'
<1> USE DEF IsAt, MoveTo, Raise, Locate, Outside, disk, Early, Building, Committed, Working,
        Cleaning, Ended, Place, BundleFile
<1>a. /\ IntakeTypeOK
      /\ step \in [Intake -> {"preflight"} \cup Working \cup Cleaning \cup Ended]
      /\ PlaceFits /\ FlagsFit /\ ContentFits /\ CleanUpFits /\ RefusedLeavesNothing
  BY DEF IntakeInv, IntakeTypeOK
<1>1. ASSUME NEW i \in Intake, Preflight(i) PROVE IntakeInv'
  <2>1. IntakeTypeOK'
    BY <1>a, <1>1 DEF IntakeTypeOK, Preflight, Taken
  <2>2. PlaceFits'
    BY <1>a, <1>1 DEF PlaceFits, IntakeTypeOK, Preflight, Taken
  <2>3. FlagsFit'
    BY <1>a, <1>1 DEF FlagsFit, IntakeTypeOK, Preflight, Taken
  <2>4. ContentFits'
    BY <1>a, <1>1 DEF ContentFits, Filled, IsWhole, IntakeTypeOK, Preflight, Taken
  <2>5. CleanUpFits'
    BY <1>a, <1>1 DEF CleanUpFits, FlagsFit, PlaceFits, ContentFits, Filled, IsWhole,
       IntakeTypeOK, Preflight, Taken
  <2>6. RefusedLeavesNothing'
    BY <1>a, <1>1 DEF RefusedLeavesNothing, CleanUpFits, PlaceFits, FlagsFit, ContentFits,
       Filled, IsWhole, IntakeTypeOK, Preflight, Taken
  <2> QED
    BY <2>1, <2>2, <2>3, <2>4, <2>5, <2>6 DEF IntakeInv
<1>2. ASSUME NEW i \in Intake, Begin(i) PROVE IntakeInv'
  <2>1. IntakeTypeOK'
    BY <1>a, <1>2 DEF IntakeTypeOK, Begin
  <2>2. PlaceFits'
    BY <1>a, <1>2 DEF PlaceFits, IntakeTypeOK, Begin
  <2>3. FlagsFit'
    BY <1>a, <1>2 DEF FlagsFit, IntakeTypeOK, Begin
  <2>4. ContentFits'
    BY <1>a, <1>2 DEF ContentFits, Filled, IsWhole, IntakeTypeOK, Begin
  <2>5. CleanUpFits'
    BY <1>a, <1>2 DEF CleanUpFits, FlagsFit, PlaceFits, ContentFits, Filled, IsWhole,
       IntakeTypeOK, Begin
  <2>6. RefusedLeavesNothing'
    BY <1>a, <1>2 DEF RefusedLeavesNothing, CleanUpFits, PlaceFits, FlagsFit, ContentFits,
       Filled, IsWhole, IntakeTypeOK, Begin
  <2> QED
    BY <2>1, <2>2, <2>3, <2>4, <2>5, <2>6 DEF IntakeInv
<1>3. ASSUME NEW i \in Intake, Mkdir(i) PROVE IntakeInv'
  <2>1. IntakeTypeOK'
    BY <1>a, <1>3 DEF IntakeTypeOK, Mkdir
  <2>2. PlaceFits'
    BY <1>a, <1>3 DEF PlaceFits, IntakeTypeOK, Mkdir
  <2>3. FlagsFit'
    BY <1>a, <1>3 DEF FlagsFit, IntakeTypeOK, Mkdir
  <2>4. ContentFits'
    BY <1>a, <1>3 DEF ContentFits, Filled, IsWhole, IntakeTypeOK, Mkdir
  <2>5. CleanUpFits'
    BY <1>a, <1>3 DEF CleanUpFits, FlagsFit, PlaceFits, ContentFits, Filled, IsWhole,
       IntakeTypeOK, Mkdir
  <2>6. RefusedLeavesNothing'
    BY <1>a, <1>3 DEF RefusedLeavesNothing, CleanUpFits, PlaceFits, FlagsFit, ContentFits,
       Filled, IsWhole, IntakeTypeOK, Mkdir
  <2> QED
    BY <2>1, <2>2, <2>3, <2>4, <2>5, <2>6 DEF IntakeInv
<1>4. ASSUME NEW i \in Intake, Made(i) PROVE IntakeInv'
  <2>1. IntakeTypeOK'
    BY <1>a, <1>4 DEF IntakeTypeOK, Made
  <2>2. PlaceFits'
    BY <1>a, <1>4 DEF PlaceFits, IntakeTypeOK, Made
  <2>3. FlagsFit'
    BY <1>a, <1>4 DEF FlagsFit, IntakeTypeOK, Made
  <2>4. ContentFits'
    BY <1>a, <1>4 DEF ContentFits, Filled, IsWhole, IntakeTypeOK, Made
  <2>5. CleanUpFits'
    BY <1>a, <1>4 DEF CleanUpFits, FlagsFit, PlaceFits, ContentFits, Filled, IsWhole,
       IntakeTypeOK, Made
  <2>6. RefusedLeavesNothing'
    BY <1>a, <1>4 DEF RefusedLeavesNothing, CleanUpFits, PlaceFits, FlagsFit, ContentFits,
       Filled, IsWhole, IntakeTypeOK, Made
  <2> QED
    BY <2>1, <2>2, <2>3, <2>4, <2>5, <2>6 DEF IntakeInv
<1>5. ASSUME NEW i \in Intake, OpenTemporary(i) PROVE IntakeInv'
  <2>1. IntakeTypeOK'
    BY <1>a, <1>5 DEF IntakeTypeOK, OpenTemporary
  <2>2. PlaceFits'
    BY <1>a, <1>5 DEF PlaceFits, IntakeTypeOK, OpenTemporary
  <2>3. FlagsFit'
    BY <1>a, <1>5 DEF FlagsFit, IntakeTypeOK, OpenTemporary
  <2>4. ContentFits'
    BY <1>a, <1>5 DEF ContentFits, Filled, IsWhole, IntakeTypeOK, OpenTemporary
  <2>5. CleanUpFits'
    BY <1>a, <1>5 DEF CleanUpFits, FlagsFit, PlaceFits, ContentFits, Filled, IsWhole,
       IntakeTypeOK, OpenTemporary
  <2>6. RefusedLeavesNothing'
    BY <1>a, <1>5 DEF RefusedLeavesNothing, CleanUpFits, PlaceFits, FlagsFit, ContentFits,
       Filled, IsWhole, IntakeTypeOK, OpenTemporary
  <2> QED
    BY <2>1, <2>2, <2>3, <2>4, <2>5, <2>6 DEF IntakeInv
<1>6. ASSUME NEW i \in Intake, WriteFile(i, "profile", "receipt") PROVE IntakeInv'
  <2>written. /\ content' \in [Intake -> [BundleFile -> {"none", "part", "whole"}]]
             /\ \A j \in Intake \ {i} : content'[j] = content[j] /\ step'[j] = step[j]
             /\ step'[i] \in {"profile", "receipt", "seal"}
             /\ step' \in [Intake -> {"preflight"} \cup Working \cup Cleaning \cup Ended]
    BY <1>a, <1>6, WriteEffect
  <2>1. IntakeTypeOK'
    BY <1>a, <1>6, <2>written DEF IntakeTypeOK, WriteFile
  <2>2. PlaceFits'
    BY <1>a, <1>6, <2>written DEF PlaceFits, IntakeTypeOK, WriteFile
  <2>3. FlagsFit'
    BY <1>a, <1>6, <2>written DEF FlagsFit, IntakeTypeOK, WriteFile
  <2>4. ContentFits'
    BY <1>a, <1>6, <2>written DEF ContentFits, Filled, IsWhole, IntakeTypeOK, WriteFile
  <2>5. CleanUpFits'
    BY <1>a, <1>6, <2>written DEF CleanUpFits, FlagsFit, PlaceFits, ContentFits, Filled,
       IsWhole, IntakeTypeOK, WriteFile
  <2>6. RefusedLeavesNothing'
    BY <1>a, <1>6, <2>written DEF RefusedLeavesNothing, CleanUpFits, PlaceFits, FlagsFit,
       ContentFits, Filled, IsWhole, IntakeTypeOK, WriteFile
  <2> QED
    BY <2>1, <2>2, <2>3, <2>4, <2>5, <2>6 DEF IntakeInv
<1>7. ASSUME NEW i \in Intake, WriteFile(i, "receipt", "seal") PROVE IntakeInv'
  <2>written. /\ content' \in [Intake -> [BundleFile -> {"none", "part", "whole"}]]
             /\ \A j \in Intake \ {i} : content'[j] = content[j] /\ step'[j] = step[j]
             /\ step'[i] \in {"profile", "receipt", "seal"}
             /\ step' \in [Intake -> {"preflight"} \cup Working \cup Cleaning \cup Ended]
    BY <1>a, <1>7, WriteEffect
  <2>1. IntakeTypeOK'
    BY <1>a, <1>7, <2>written DEF IntakeTypeOK, WriteFile
  <2>2. PlaceFits'
    BY <1>a, <1>7, <2>written DEF PlaceFits, IntakeTypeOK, WriteFile
  <2>3. FlagsFit'
    BY <1>a, <1>7, <2>written DEF FlagsFit, IntakeTypeOK, WriteFile
  <2>4. ContentFits'
    BY <1>a, <1>7, <2>written DEF ContentFits, Filled, IsWhole, IntakeTypeOK, WriteFile
  <2>5. CleanUpFits'
    BY <1>a, <1>7, <2>written DEF CleanUpFits, FlagsFit, PlaceFits, ContentFits, Filled,
       IsWhole, IntakeTypeOK, WriteFile
  <2>6. RefusedLeavesNothing'
    BY <1>a, <1>7, <2>written DEF RefusedLeavesNothing, CleanUpFits, PlaceFits, FlagsFit,
       ContentFits, Filled, IsWhole, IntakeTypeOK, WriteFile
  <2> QED
    BY <2>1, <2>2, <2>3, <2>4, <2>5, <2>6 DEF IntakeInv
<1>8. ASSUME NEW i \in Intake, Seal(i) PROVE IntakeInv'
  <2>1. IntakeTypeOK'
    BY <1>a, <1>8 DEF IntakeTypeOK, Seal
  <2>2. PlaceFits'
    BY <1>a, <1>8 DEF PlaceFits, IntakeTypeOK, Seal
  <2>3. FlagsFit'
    BY <1>a, <1>8 DEF FlagsFit, IntakeTypeOK, Seal
  <2>4. ContentFits'
    BY <1>a, <1>8 DEF ContentFits, Filled, IsWhole, IntakeTypeOK, Seal
  <2>5. CleanUpFits'
    BY <1>a, <1>8 DEF CleanUpFits, FlagsFit, PlaceFits, ContentFits, Filled, IsWhole,
       IntakeTypeOK, Seal
  <2>6. RefusedLeavesNothing'
    BY <1>a, <1>8 DEF RefusedLeavesNothing, CleanUpFits, PlaceFits, FlagsFit, ContentFits,
       Filled, IsWhole, IntakeTypeOK, Seal
  <2> QED
    BY <2>1, <2>2, <2>3, <2>4, <2>5, <2>6 DEF IntakeInv
<1>9. ASSUME NEW i \in Intake, Check(i) PROVE IntakeInv'
  <2>1. IntakeTypeOK'
    BY <1>a, <1>9 DEF IntakeTypeOK, Check, TakeBack
  <2>2. PlaceFits'
    BY <1>a, <1>9 DEF PlaceFits, IntakeTypeOK, Check, TakeBack
  <2>3. FlagsFit'
    BY <1>a, <1>9 DEF FlagsFit, IntakeTypeOK, Check, TakeBack
  <2>4. ContentFits'
    BY <1>a, <1>9 DEF ContentFits, Filled, IsWhole, IntakeTypeOK, Check, TakeBack
  <2>5. CleanUpFits'
    BY <1>a, <1>9 DEF CleanUpFits, FlagsFit, PlaceFits, ContentFits, Filled, IsWhole,
       IntakeTypeOK, Check, TakeBack
  <2>6. RefusedLeavesNothing'
    BY <1>a, <1>9 DEF RefusedLeavesNothing, CleanUpFits, PlaceFits, FlagsFit, ContentFits,
       Filled, IsWhole, IntakeTypeOK, Check, TakeBack
  <2> QED
    BY <2>1, <2>2, <2>3, <2>4, <2>5, <2>6 DEF IntakeInv
<1>10. ASSUME NEW i \in Intake, Rename(i) PROVE IntakeInv'
  <2>a. place' \in [Intake -> Place] /\ placeDisk' \in [Intake -> SUBSET Place]
    BY <1>a, <1>10, Located DEF IntakeTypeOK, Rename
  <2>b. step' \in [Intake -> {"preflight"} \cup Working \cup Cleaning \cup Ended]
    BY <1>a, <1>10 DEF Rename, TakeBack
  <2>placed. /\ place' \in [Intake -> Place] /\ placeDisk' \in [Intake -> SUBSET Place]
            /\ step' \in [Intake -> {"preflight"} \cup Working \cup Cleaning \cup Ended]
    BY <2>a, <2>b
  <2>1. IntakeTypeOK'
    BY <1>a, <1>10, <2>placed DEF IntakeTypeOK, Rename, TakeBack, Taken
  <2>2. PlaceFits'
    BY <1>a, <1>10, <2>placed DEF PlaceFits, IntakeTypeOK, Rename, TakeBack, Taken
  <2>3. FlagsFit'
    BY <1>a, <1>10, <2>placed DEF FlagsFit, IntakeTypeOK, Rename, TakeBack, Taken
  <2>4. ContentFits'
    BY <1>a, <1>10, <2>placed DEF ContentFits, Filled, IsWhole, IntakeTypeOK, Rename,
       TakeBack, Taken
  <2>c. \/ step'[i] = "renamed"
        \/ /\ step'[i] = "unreceipt"
           /\ place'[i] = "temp" /\ "renamed" \notin flags'[i]
    BY <1>a, <1>10 DEF Rename, TakeBack, FlagsFit, PlaceFits, IntakeTypeOK
  <2>d. /\ \A j \in Intake \ {i} : step'[j] = step[j] /\ place'[j] = place[j]
        /\ UNCHANGED <<content, flags, spoiled>>
    BY <1>a, <1>10 DEF Rename, TakeBack, IntakeTypeOK
  <2>5. CleanUpFits'
    BY <1>a, <2>c, <2>d DEF CleanUpFits
  <2>6. RefusedLeavesNothing'
    BY <1>a, <1>10, <2>placed DEF RefusedLeavesNothing, CleanUpFits, PlaceFits, FlagsFit,
       ContentFits, Filled, IsWhole, IntakeTypeOK, Rename, TakeBack, Taken
  <2> QED
    BY <2>1, <2>2, <2>3, <2>4, <2>5, <2>6 DEF IntakeInv
<1>11. ASSUME NEW i \in Intake, Renamed(i) PROVE IntakeInv'
  <2>1. IntakeTypeOK'
    BY <1>a, <1>11 DEF IntakeTypeOK, Renamed
  <2>2. PlaceFits'
    BY <1>a, <1>11 DEF PlaceFits, IntakeTypeOK, Renamed
  <2>3. FlagsFit'
    BY <1>a, <1>11 DEF FlagsFit, IntakeTypeOK, Renamed
  <2>4. ContentFits'
    BY <1>a, <1>11 DEF ContentFits, Filled, IsWhole, IntakeTypeOK, Renamed
  <2>5. CleanUpFits'
    BY <1>a, <1>11 DEF CleanUpFits, FlagsFit, PlaceFits, ContentFits, Filled, IsWhole,
       IntakeTypeOK, Renamed
  <2>6. RefusedLeavesNothing'
    BY <1>a, <1>11 DEF RefusedLeavesNothing, CleanUpFits, PlaceFits, FlagsFit, ContentFits,
       Filled, IsWhole, IntakeTypeOK, Renamed
  <2> QED
    BY <2>1, <2>2, <2>3, <2>4, <2>5, <2>6 DEF IntakeInv
<1>12. ASSUME NEW i \in Intake, Verify(i) PROVE IntakeInv'
  <2>1. IntakeTypeOK'
    BY <1>a, <1>12 DEF IntakeTypeOK, Verify, TakeBack
  <2>2. PlaceFits'
    BY <1>a, <1>12 DEF PlaceFits, IntakeTypeOK, Verify, TakeBack
  <2>3. FlagsFit'
    BY <1>a, <1>12 DEF FlagsFit, IntakeTypeOK, Verify, TakeBack
  <2>4. ContentFits'
    BY <1>a, <1>12 DEF ContentFits, Filled, IsWhole, IntakeTypeOK, Verify, TakeBack
  <2>5. CleanUpFits'
    BY <1>a, <1>12 DEF CleanUpFits, FlagsFit, PlaceFits, ContentFits, Filled, IsWhole,
       IntakeTypeOK, Verify, TakeBack
  <2>6. RefusedLeavesNothing'
    BY <1>a, <1>12 DEF RefusedLeavesNothing, CleanUpFits, PlaceFits, FlagsFit, ContentFits,
       Filled, IsWhole, IntakeTypeOK, Verify, TakeBack
  <2> QED
    BY <2>1, <2>2, <2>3, <2>4, <2>5, <2>6 DEF IntakeInv
<1>13. ASSUME NEW i \in Intake, SyncParent(i) PROVE IntakeInv'
  <2>1. IntakeTypeOK'
    BY <1>a, <1>13 DEF IntakeTypeOK, SyncParent
  <2>2. PlaceFits'
    BY <1>a, <1>13 DEF PlaceFits, IntakeTypeOK, SyncParent
  <2>3. FlagsFit'
    BY <1>a, <1>13 DEF FlagsFit, IntakeTypeOK, SyncParent
  <2>4. ContentFits'
    BY <1>a, <1>13 DEF ContentFits, Filled, IsWhole, IntakeTypeOK, SyncParent
  <2>5. CleanUpFits'
    BY <1>a, <1>13 DEF CleanUpFits, FlagsFit, PlaceFits, ContentFits, Filled, IsWhole,
       IntakeTypeOK, SyncParent
  <2>6. RefusedLeavesNothing'
    BY <1>a, <1>13 DEF RefusedLeavesNothing, CleanUpFits, PlaceFits, FlagsFit, ContentFits,
       Filled, IsWhole, IntakeTypeOK, SyncParent
  <2> QED
    BY <2>1, <2>2, <2>3, <2>4, <2>5, <2>6 DEF IntakeInv
<1>14. ASSUME NEW i \in Intake, IsAt(i, "unreceipt") /\ Unlink(i, "receipt", "unprofile")
      PROVE  IntakeInv'
  <2>1. IntakeTypeOK'
    BY <1>a, <1>14 DEF IntakeTypeOK, Unlink, OwnDirectory
  <2>2. PlaceFits'
    BY <1>a, <1>14 DEF PlaceFits, IntakeTypeOK, Unlink, OwnDirectory
  <2>3. FlagsFit'
    BY <1>a, <1>14 DEF FlagsFit, IntakeTypeOK, Unlink, OwnDirectory
  <2>4. ContentFits'
    BY <1>a, <1>14 DEF ContentFits, Filled, IsWhole, IntakeTypeOK, Unlink, OwnDirectory
  <2>5. CleanUpFits'
    BY <1>a, <1>14 DEF CleanUpFits, FlagsFit, PlaceFits, ContentFits, Filled, IsWhole,
       IntakeTypeOK, Unlink, OwnDirectory
  <2>6. RefusedLeavesNothing'
    BY <1>a, <1>14 DEF RefusedLeavesNothing, CleanUpFits, PlaceFits, FlagsFit, ContentFits,
       Filled, IsWhole, IntakeTypeOK, Unlink, OwnDirectory
  <2> QED
    BY <2>1, <2>2, <2>3, <2>4, <2>5, <2>6 DEF IntakeInv
<1>15. ASSUME NEW i \in Intake, IsAt(i, "unprofile") /\ Unlink(i, "profile", "rmdir")
      PROVE  IntakeInv'
  <2>1. IntakeTypeOK'
    BY <1>a, <1>15 DEF IntakeTypeOK, Unlink, OwnDirectory
  <2>2. PlaceFits'
    BY <1>a, <1>15 DEF PlaceFits, IntakeTypeOK, Unlink, OwnDirectory
  <2>3. FlagsFit'
    BY <1>a, <1>15 DEF FlagsFit, IntakeTypeOK, Unlink, OwnDirectory
  <2>4. ContentFits'
    BY <1>a, <1>15 DEF ContentFits, Filled, IsWhole, IntakeTypeOK, Unlink, OwnDirectory
  <2>5. CleanUpFits'
    BY <1>a, <1>15 DEF CleanUpFits, FlagsFit, PlaceFits, ContentFits, Filled, IsWhole,
       IntakeTypeOK, Unlink, OwnDirectory
  <2>6. RefusedLeavesNothing'
    BY <1>a, <1>15 DEF RefusedLeavesNothing, CleanUpFits, PlaceFits, FlagsFit, ContentFits,
       Filled, IsWhole, IntakeTypeOK, Unlink, OwnDirectory
  <2> QED
    BY <2>1, <2>2, <2>3, <2>4, <2>5, <2>6 DEF IntakeInv
<1>16. ASSUME NEW i \in Intake, Rmdir(i) PROVE IntakeInv'
  <2>1. IntakeTypeOK'
    BY <1>a, <1>16 DEF IntakeTypeOK, Rmdir, Removed
  <2>2. PlaceFits'
    BY <1>a, <1>16 DEF PlaceFits, IntakeTypeOK, ContentFits, Filled, IsWhole, Rmdir, Removed
  <2>3. FlagsFit'
    BY <1>a, <1>16 DEF FlagsFit, IntakeTypeOK, Rmdir, Removed
  <2>4. ContentFits'
    BY <1>a, <1>16 DEF ContentFits, Filled, IsWhole, IntakeTypeOK, Rmdir, Removed
  <2>5. CleanUpFits'
    BY <1>a, <1>16 DEF CleanUpFits, FlagsFit, PlaceFits, ContentFits, Filled, IsWhole,
       IntakeTypeOK, Rmdir, Removed
  <2>6. RefusedLeavesNothing'
    BY <1>a, <1>16 DEF RefusedLeavesNothing, CleanUpFits, PlaceFits, FlagsFit, ContentFits,
       Filled, IsWhole, IntakeTypeOK, Rmdir, Removed
  <2> QED
    BY <2>1, <2>2, <2>3, <2>4, <2>5, <2>6 DEF IntakeInv
<1>17. ASSUME NEW i \in Intake, CallFails(i) PROVE IntakeInv'
  <2>1. IntakeTypeOK'
    BY <1>a, <1>17 DEF IntakeTypeOK, CallFails, TakeBack
  <2>2. PlaceFits'
    BY <1>a, <1>17 DEF PlaceFits, IntakeTypeOK, CallFails, TakeBack
  <2>3. FlagsFit'
    BY <1>a, <1>17 DEF FlagsFit, IntakeTypeOK, CallFails, TakeBack
  <2>4. ContentFits'
    BY <1>a, <1>17 DEF ContentFits, Filled, IsWhole, IntakeTypeOK, CallFails, TakeBack
  <2>5. CleanUpFits'
    BY <1>a, <1>17 DEF CleanUpFits, FlagsFit, PlaceFits, ContentFits, Filled, IsWhole,
       IntakeTypeOK, CallFails, TakeBack
  <2>6. RefusedLeavesNothing'
    BY <1>a, <1>17 DEF RefusedLeavesNothing, CleanUpFits, PlaceFits, FlagsFit, ContentFits,
       Filled, IsWhole, IntakeTypeOK, CallFails, TakeBack
  <2> QED
    BY <2>1, <2>2, <2>3, <2>4, <2>5, <2>6 DEF IntakeInv
<1>18. ASSUME NEW i \in Intake, Dies(i) PROVE IntakeInv'
  <2>1. IntakeTypeOK'
    BY <1>a, <1>18 DEF IntakeTypeOK, Dies
  <2>2. PlaceFits'
    BY <1>a, <1>18 DEF PlaceFits, IntakeTypeOK, Dies
  <2>3. FlagsFit'
    BY <1>a, <1>18 DEF FlagsFit, IntakeTypeOK, Dies
  <2>4. ContentFits'
    BY <1>a, <1>18 DEF ContentFits, Filled, IsWhole, IntakeTypeOK, Dies
  <2>5. CleanUpFits'
    BY <1>a, <1>18 DEF CleanUpFits, FlagsFit, PlaceFits, ContentFits, Filled, IsWhole,
       IntakeTypeOK, Dies
  <2>6. RefusedLeavesNothing'
    BY <1>a, <1>18 DEF RefusedLeavesNothing, CleanUpFits, PlaceFits, FlagsFit, ContentFits,
       Filled, IsWhole, IntakeTypeOK, Dies
  <2> QED
    BY <2>1, <2>2, <2>3, <2>4, <2>5, <2>6 DEF IntakeInv
<1>19. ASSUME NEW i \in Intake, MoveBundle(i) PROVE IntakeInv'
  <2>a. place' \in [Intake -> Place] /\ placeDisk' \in [Intake -> SUBSET Place]
    BY <1>a, <1>19, Located DEF IntakeTypeOK, MoveBundle
  <2>b. step' \in [Intake -> {"preflight"} \cup Working \cup Cleaning \cup Ended]
    BY <1>a, <1>19 DEF MoveBundle
  <2>placed. /\ place' \in [Intake -> Place] /\ placeDisk' \in [Intake -> SUBSET Place]
            /\ step' \in [Intake -> {"preflight"} \cup Working \cup Cleaning \cup Ended]
    BY <2>a, <2>b
  <2>1. IntakeTypeOK'
    BY <1>a, <1>19, <2>placed DEF IntakeTypeOK, MoveBundle, Taken
  <2>2. PlaceFits'
    BY <1>a, <1>19, <2>placed DEF PlaceFits, IntakeTypeOK, MoveBundle, Taken
  <2>3. FlagsFit'
    BY <1>a, <1>19, <2>placed DEF FlagsFit, IntakeTypeOK, MoveBundle, Taken
  <2>4. ContentFits'
    BY <1>a, <1>19, <2>placed DEF ContentFits, Filled, IsWhole, IntakeTypeOK, MoveBundle,
       Taken
  <2>5. CleanUpFits'
    BY <1>a, <1>19, <2>placed DEF CleanUpFits, FlagsFit, PlaceFits, ContentFits, Filled,
       IsWhole, IntakeTypeOK, MoveBundle, Taken
  <2>6. RefusedLeavesNothing'
    BY <1>a, <1>19, <2>placed DEF RefusedLeavesNothing, CleanUpFits, PlaceFits, FlagsFit,
       ContentFits, Filled, IsWhole, IntakeTypeOK, MoveBundle, Taken
  <2> QED
    BY <2>1, <2>2, <2>3, <2>4, <2>5, <2>6 DEF IntakeInv
<1>20. ASSUME MoveParent PROVE IntakeInv'
  <2>1. IntakeTypeOK'
    BY <1>a, <1>20 DEF IntakeTypeOK, MoveParent
  <2>2. PlaceFits'
    BY <1>a, <1>20 DEF PlaceFits, IntakeTypeOK, MoveParent
  <2>3. FlagsFit'
    BY <1>a, <1>20 DEF FlagsFit, IntakeTypeOK, MoveParent
  <2>4. ContentFits'
    BY <1>a, <1>20 DEF ContentFits, Filled, IsWhole, IntakeTypeOK, MoveParent
  <2>5. CleanUpFits'
    BY <1>a, <1>20 DEF CleanUpFits, FlagsFit, PlaceFits, ContentFits, Filled, IsWhole,
       IntakeTypeOK, MoveParent
  <2>6. RefusedLeavesNothing'
    BY <1>a, <1>20 DEF RefusedLeavesNothing, CleanUpFits, PlaceFits, FlagsFit, ContentFits,
       Filled, IsWhole, IntakeTypeOK, MoveParent
  <2> QED
    BY <2>1, <2>2, <2>3, <2>4, <2>5, <2>6 DEF IntakeInv
<1>21. ASSUME PowerIsLost PROVE IntakeInv'
  <2>kept. \A i \in Intake :
              /\ step'[i] \in Ended
              /\ step'[i] # "dead" => step'[i] = step[i]
              /\ \A f \in BundleFile :
                    i \in sealed /\ content[i][f] = "whole" => content'[i][f] = "whole"
    <3>1. PICK hit \in SUBSET {u \in Intake \X BundleFile : Uncertain(u[1], u[2])} :
            content' = [i \in Intake |-> [f \in BundleFile |->
                IF <<i, f>> \notin hit THEN content[i][f]
                ELSE IF i \in sealed THEN "whole" ELSE "part"]]
      BY <1>21 DEF PowerIsLost
    <3>2. ASSUME NEW i \in Intake, NEW f \in BundleFile, i \in sealed, content[i][f] = "whole"
          PROVE  content'[i][f] = "whole"
      BY <3>1, <3>2
    <3>3. ASSUME NEW i \in Intake
          PROVE  step'[i] \in Ended /\ (step'[i] # "dead" => step'[i] = step[i])
      BY <1>21 DEF PowerIsLost
    <3>4. QED
      BY <3>2, <3>3
  <2>1. IntakeTypeOK'
    BY <1>a, <1>21, <2>kept DEF IntakeTypeOK, PowerIsLost, Uncertain
  <2>2. PlaceFits'
    BY <1>a, <1>21, <2>kept DEF PlaceFits, IntakeTypeOK, PowerIsLost, Uncertain
  <2>3. FlagsFit'
    BY <1>a, <1>21, <2>kept DEF FlagsFit, IntakeTypeOK, PowerIsLost, Uncertain
  <2>c. sealed' = sealed /\ \A i \in Intake : step'[i] = "ok" => IsWhole(i) /\ i \in sealed
    BY <1>a, <1>21, <2>kept DEF ContentFits, PowerIsLost
  <2>4. ContentFits'
    BY <2>kept, <2>c DEF ContentFits, Filled, IsWhole
  <2>5. CleanUpFits'
    BY <1>a, <1>21, <2>kept DEF CleanUpFits, FlagsFit, PlaceFits, ContentFits, Filled,
       IsWhole, IntakeTypeOK, PowerIsLost, Uncertain
  <2>6. RefusedLeavesNothing'
    BY <1>a, <1>21, <2>kept DEF RefusedLeavesNothing, CleanUpFits, PlaceFits, FlagsFit,
       ContentFits, Filled, IsWhole, IntakeTypeOK, PowerIsLost, Uncertain
  <2> QED
    BY <2>1, <2>2, <2>3, <2>4, <2>5, <2>6 DEF IntakeInv
<1>22. QED
  BY <1>1, <1>2, <1>3, <1>4, <1>5, <1>6, <1>7, <1>8, <1>9, <1>10, <1>11, <1>12,
     <1>13, <1>14, <1>15, <1>16, <1>17, <1>18, <1>19, <1>20, <1>21 DEF IntakeNext

LEMMA InitIntakeInv == IntakeInit => IntakeInv
<1> SUFFICES ASSUME IntakeInit PROVE IntakeInv
  OBVIOUS
<1>1. IntakeTypeOK
  BY DEF IntakeInit, IntakeTypeOK, Place, BundleFile
<1>2. PlaceFits /\ FlagsFit /\ ContentFits
  BY DEF IntakeInit, PlaceFits, FlagsFit, ContentFits, Early, Building, Committed, Filled,
     BundleFile
<1>3. CleanUpFits /\ RefusedLeavesNothing
  BY DEF IntakeInit, CleanUpFits, RefusedLeavesNothing, Cleaning
<1>4. QED
  BY <1>1, <1>2, <1>3 DEF IntakeInv

\* The invariant holds for any number of intakes, at whatever step they stop.
THEOREM IntakeInvariant == IntakeSpec => []IntakeInv
<1>1. IntakeInv /\ UNCHANGED intakeVars => IntakeInv'
  BY DEF intakeVars, disk, IntakeInv, IntakeTypeOK, PlaceFits, FlagsFit, ContentFits,
     CleanUpFits, RefusedLeavesNothing, Filled, IsWhole
<1>2. IntakeInv /\ [IntakeNext]_intakeVars => IntakeInv'
  BY <1>1, IntakeInvStep
<1>3. QED
  BY <1>2, InitIntakeInv, PTL DEF IntakeSpec

\* Every name, file, step and flag stays of its type.
THEOREM IntakeTypeCorrect == IntakeSpec => []IntakeTypeOK
<1>1. IntakeInv => IntakeTypeOK
  BY DEF IntakeInv
<1>2. QED
  BY <1>1, IntakeInvariant, PTL

\* A bundle that was reported as recorded stays whole and under a name its owner
\* knows: no other intake's commit, no clean-up and no power loss takes it.
THEOREM SuccessIsKeptAlways == IntakeSpec => []SuccessIsKept
<1>1. IntakeInv => SuccessIsKept
  BY DEF IntakeInv, SuccessIsKept, PlaceFits, ContentFits, Committed
<1>2. QED
  BY <1>1, IntakeInvariant, PTL

\* A directory that can be seen under the name of the bundle holds both files in
\* full, unless its intake is taking it back.
THEOREM VisibleIsWholeAlways == IntakeSpec => []VisibleIsWhole
<1>1. ASSUME IntakeInv, NEW i \in Intake, "final" \in placeDisk[i] \cup {place[i]},
             step[i] \notin Cleaning \cup {"refused", "dead"}
      PROVE  step[i] \in Committed
  BY <1>1 DEF IntakeInv, IntakeTypeOK, PlaceFits, Early, Building, Committed, Working, Ended
<1>2. IntakeInv => VisibleIsWhole
  BY <1>1 DEF IntakeInv, VisibleIsWhole, ContentFits
<1>3. QED
  BY <1>2, IntakeInvariant, PTL

\* An intake that was refused, wherever it failed, leaves nothing behind if its
\* clean-up ran in full and its owner did not move the bundle.
THEOREM RefusedLeavesNothingAlways == IntakeSpec => []RefusedLeavesNothing
<1>1. IntakeInv => RefusedLeavesNothing
  BY DEF IntakeInv
<1>2. QED
  BY <1>1, IntakeInvariant, PTL


----
\* What the intake reads.

\* The input that is read now.
Current == Order[reading]

InputsShape ==
    /\ blocks \in [Input -> [1..2 -> Int]]
    /\ stamp \in [Input -> Nat] /\ tick \in Nat
    /\ reading \in 1..5 /\ before \in Nat \cup {-1}
    /\ chunks \in Seq(Int) /\ Len(chunks) <= 2
    /\ DOMAIN evidence = {Order[n] : n \in 1..(reading - 1)}
    /\ DOMAIN held = Input

\* A file is only read while it is open.
OpenWhileRead ==
    /\ before = -1 => chunks = <<>>
    /\ before # -1 => reading <= 4
    /\ outcome = "recorded" => reading = 5

\* What was read of a file that has not changed since it was opened is what it
\* holds now.
ReadIsCurrent ==
    outcome = "reading" /\ before # -1 /\ ~sameTick =>
        (stamp[Current] = before => \A k \in 1..Len(chunks) : chunks[k] = blocks[Current][k])

\* What a file holds, and what was accepted of it, are among what it has held.
EvidenceWasHeld ==
    /\ \A f \in Input : blocks[f] \in held[f]
    /\ ~sameTick => \A f \in DOMAIN evidence : evidence[f] \in held[f]

InputsInv == InputsShape /\ OpenWhileRead /\ ReadIsCurrent /\ EvidenceWasHeld

\* The inputs in their order.
LEMMA Inputs ==
    /\ \A n \in 1..4 : Order[n] \in Input
    /\ {Order[n] : n \in 1..4} = Input
    /\ \A m, n \in 1..4 : Order[m] = Order[n] => m = n
<1>1. \A n \in 1..4 : Order[n] \in Input
  BY DEF Input
<1>2. \A m, n \in 1..4 : Order[m] = Order[n] => m = n
  BY DEF Order
<1>3. QED
  BY <1>1, <1>2 DEF Input

\* While a file is read there is one that is read.
LEMMA InputIsOpen ==
    ASSUME InputsInv, before # -1
    PROVE  reading \in 1..4 /\ Current \in Input
<1>1. reading \in 1..4
  BY DEF InputsInv, InputsShape, OpenWhileRead
<1>2. QED
  BY <1>1, Inputs DEF Current

\* A rewrite changes one file, and gives it what it has then held.
LEMMA RewriteStep ==
    ASSUME InputsInv, NEW f \in Input, Rewrite(f)
    PROVE  InputsInv'
<1>1. PICK b \in 1..2 : blocks' = [blocks EXCEPT ![f][b] = @ + 1]
  BY DEF Rewrite
<1>2. /\ blocks' \in [Input -> [1..2 -> Int]]
      /\ \A g \in Input \ {f} : blocks'[g] = blocks[g]
  BY <1>1 DEF InputsInv, InputsShape
<1>3. /\ stamp' = [stamp EXCEPT ![f] = tick]
      /\ held' = [held EXCEPT ![f] = @ \cup {blocks'[f]}]
      /\ UNCHANGED <<tick, reading, before, chunks, evidence, outcome>>
  BY DEF Rewrite
<1>4. InputsShape'
  BY <1>2, <1>3 DEF InputsInv, InputsShape
<1>5. \A g \in Input : held[g] \subseteq held'[g]
  BY <1>3 DEF InputsInv, InputsShape
<1>6. EvidenceWasHeld'
  <2>1. \A g \in Input : blocks'[g] \in held'[g]
    BY <1>2, <1>3, <1>5 DEF InputsInv, InputsShape, EvidenceWasHeld
  <2>2. DOMAIN evidence \subseteq Input
    <3>1. DOMAIN evidence = {Order[n] : n \in 1..(reading - 1)} /\ reading \in 1..5
      BY DEF InputsInv, InputsShape
    <3>2. 1..(reading - 1) \subseteq 1..4
      BY <3>1
    <3>3. QED
      BY <3>1, <3>2, Inputs
  <2>3. ~sameTick' => ~sameTick
    BY DEF Rewrite
  <2>4. QED
    BY <1>3, <1>5, <2>1, <2>2, <2>3 DEF InputsInv, EvidenceWasHeld
<1>7. ReadIsCurrent'
  <2> SUFFICES ASSUME outcome = "reading", before # -1, ~sameTick', stamp'[Current] = before
               PROVE  \A k \in 1..Len(chunks) : chunks[k] = blocks'[Current][k]
    BY <1>3 DEF ReadIsCurrent, Current
  <2>1. Current \in Input /\ ~sameTick
    BY InputIsOpen DEF Rewrite
  <2>2. f # Current
    BY <1>3, <2>1 DEF Rewrite, Current, InputsInv, InputsShape
  <2>3. QED
    BY <1>2, <1>3, <2>1, <2>2 DEF InputsInv, InputsShape, ReadIsCurrent
<1>8. QED
  BY <1>3, <1>4, <1>6, <1>7 DEF InputsInv, OpenWhileRead

\* Both blocks of a file that has not changed are the file.
LEMMA AcceptedIsHeld ==
    ASSUME InputsInv, outcome = "reading", ~sameTick, Len(chunks) = 2, IsStable(Current)
    PROVE  chunks \in held[Current]
<1>1. before # -1 /\ Current \in Input
  <2>1. before # -1
    BY SMTT(20) DEF InputsInv, InputsShape, OpenWhileRead
  <2>2. QED
    BY <2>1, InputIsOpen
<1>2. \A k \in 1..2 : chunks[k] = blocks[Current][k]
  BY <1>1 DEF InputsInv, ReadIsCurrent, IsStable
<1>3. chunks \in [1..2 -> Int] /\ blocks[Current] \in [1..2 -> Int]
  <2>1. chunks \in Seq(Int)
    BY DEF InputsInv, InputsShape
  <2>2. chunks \in [1..2 -> Int]
    BY <2>1
  <2>3. QED
    BY <1>1, <2>2 DEF InputsInv, InputsShape
<1>4. chunks = blocks[Current]
  BY <1>2, <1>3
<1>5. QED
  BY <1>1, <1>4 DEF InputsInv, EvidenceWasHeld

LEMMA InputsInvStep ==
    ASSUME InputsInv, InputsNext
    PROVE  InputsInv'
<1>1. ASSUME ClockTicks PROVE InputsInv'
  BY <1>1 DEF ClockTicks, InputsInv, InputsShape, OpenWhileRead, ReadIsCurrent, EvidenceWasHeld,
     Current
<1>2. ASSUME OpenInput PROVE InputsInv'
  <2>1. Current \in Input
    <3>1. reading \in 1..4
      BY <1>2 DEF OpenInput, InputsInv, InputsShape
    <3>2. QED
      BY <3>1, Inputs DEF Current
  <2>2. before' \in Nat /\ before' = stamp[Current] /\ chunks = <<>>
    BY <1>2, <2>1 DEF OpenInput, Current, InputsInv, InputsShape, OpenWhileRead
  <2>3. QED
    <3>1. /\ before = -1 /\ reading <= 4 /\ outcome = "reading"
          /\ UNCHANGED <<blocks, stamp, tick, reading, chunks, evidence, outcome, held,
                         sameTick>>
      BY <1>2 DEF OpenInput
    <3>2. InputsShape' /\ OpenWhileRead'
      BY <2>2, <3>1 DEF InputsInv, InputsShape, OpenWhileRead
    <3>3. ReadIsCurrent'
      BY <2>2, <3>1 DEF ReadIsCurrent
    <3>4. QED
      BY <3>1, <3>2, <3>3 DEF InputsInv, EvidenceWasHeld
<1>3. ASSUME ReadBlock PROVE InputsInv'
  <2>1. Current \in Input /\ Len(chunks) \in Nat /\ Len(chunks) < 2
    BY <1>3, InputIsOpen DEF ReadBlock, InputsInv, InputsShape
  <2>2. blocks[Current][Len(chunks) + 1] \in Int
    BY <2>1 DEF InputsInv, InputsShape
  <2>3. /\ chunks' \in Seq(Int) /\ Len(chunks') = Len(chunks) + 1
        /\ chunks'[Len(chunks) + 1] = blocks[Current][Len(chunks) + 1]
        /\ \A k \in 1..Len(chunks) : chunks'[k] = chunks[k]
    BY <1>3, <2>1, <2>2 DEF ReadBlock, Current, InputsInv, InputsShape
  <2>4. UNCHANGED <<blocks, stamp, tick, reading, before, evidence, outcome, held, sameTick>>
    BY <1>3 DEF ReadBlock
  <2>5. before # -1
    BY <1>3 DEF ReadBlock
  <2>6. InputsShape' /\ OpenWhileRead' /\ EvidenceWasHeld'
    <3>1. InputsShape'
      BY <2>1, <2>3, <2>4 DEF InputsInv, InputsShape
    <3>2. OpenWhileRead'
      BY <2>4, <2>5 DEF InputsInv, OpenWhileRead
    <3>3. QED
      BY <2>4, <3>1, <3>2 DEF InputsInv, EvidenceWasHeld
  <2>7. ReadIsCurrent'
    BY <2>1, <2>3, <2>4 DEF InputsInv, ReadIsCurrent, Current
  <2>8. QED
    BY <2>6, <2>7 DEF InputsInv
<1>4. ASSUME CloseInput PROVE InputsInv'
  <2>1. /\ before' = -1 /\ chunks' = <<>> /\ outcome = "reading" /\ Len(chunks) = 2
        /\ UNCHANGED <<blocks, stamp, tick, held, sameTick>>
    BY <1>4 DEF CloseInput
  <2>2. before # -1 /\ Current \in Input /\ reading \in 1..4
    <3>1. ASSUME before = -1 PROVE FALSE
      <4>1. chunks = <<>>
        BY <3>1 DEF InputsInv, OpenWhileRead
      <4>2. Len(chunks) = 2
        BY <2>1
      <4>3. QED
        BY <4>1, <4>2
    <3>2. QED
      BY <3>1, InputIsOpen
  <2>3. CASE IsStable(Current) /\ evidence' = WithEvidence(Current) /\ reading' = reading + 1
             /\ outcome' = outcome
    <3>1. DOMAIN evidence' = DOMAIN evidence \cup {Current}
      BY <2>3 DEF WithEvidence
    <3>2. DOMAIN evidence' = {Order[n] : n \in 1..(reading' - 1)}
      <4>1. 1..(reading' - 1) = 1..(reading - 1) \cup {reading}
        BY <2>2, <2>3
      <4>2. QED
        BY <3>1, <4>1 DEF InputsInv, InputsShape, Current
    <3>3. \A g \in DOMAIN evidence' : evidence'[g] = IF g = Current THEN chunks ELSE evidence[g]
      BY <2>3 DEF WithEvidence
    <3>4. InputsShape' /\ OpenWhileRead'
      BY <2>1, <2>2, <2>3, <3>2 DEF InputsInv, InputsShape, OpenWhileRead
    <3>5. EvidenceWasHeld'
      BY <2>1, <2>3, <3>1, <3>3, AcceptedIsHeld DEF InputsInv, EvidenceWasHeld
    <3>6. QED
      BY <2>1, <3>4, <3>5 DEF InputsInv, ReadIsCurrent
  <2>4. CASE outcome' = "refused" /\ UNCHANGED <<evidence, reading>>
    BY <2>1, <2>4, SMTT(20) DEF InputsInv, InputsShape, OpenWhileRead, ReadIsCurrent, EvidenceWasHeld
  <2>5. QED
    BY <1>4, <2>3, <2>4 DEF CloseInput, Current
<1>5. ASSUME BuildOutputs \/ RefuseDocument PROVE InputsInv'
  BY <1>5 DEF BuildOutputs, RefuseDocument, InputsInv, InputsShape, OpenWhileRead, ReadIsCurrent,
     EvidenceWasHeld, Current
<1>6. QED
  BY <1>1, <1>2, <1>3, <1>4, <1>5, RewriteStep DEF InputsNext

\* The invariant of the reads: what was read of a file that has not changed since
\* it was opened is what the file holds.
THEOREM InputsInvariant == InputsSpec => []InputsInv
<1>1. InputsInit => InputsInv
  <2> SUFFICES ASSUME InputsInit PROVE InputsInv
    OBVIOUS
  <2>1. /\ \A f \in Input : blocks[f] = <<1, 1>> /\ held[f] = {<<1, 1>>}
        /\ blocks = [f \in Input |-> <<1, 1>>] /\ <<1, 1>> \in [1..2 -> Int]
        /\ DOMAIN held = Input /\ DOMAIN evidence = {} /\ chunks = <<>> /\ before = -1
        /\ stamp = [f \in Input |-> 0] /\ tick = 0 /\ reading = 1 /\ outcome = "reading"
    BY DEF InputsInit
  <2>2. InputsShape
    BY <2>1 DEF InputsShape
  <2>3. QED
    BY <2>1, <2>2 DEF InputsInv, OpenWhileRead, ReadIsCurrent, EvidenceWasHeld
<1>2. InputsInv /\ UNCHANGED inputVars => InputsInv'
  <2> SUFFICES ASSUME InputsInv, UNCHANGED inputVars PROVE InputsInv'
    OBVIOUS
  <2>1. InputsShape'
    BY DEF inputVars, InputsInv, InputsShape
  <2>2. OpenWhileRead' /\ EvidenceWasHeld'
    BY DEF inputVars, InputsInv, OpenWhileRead, EvidenceWasHeld
  <2>3. ReadIsCurrent'
    BY DEF inputVars, InputsInv, ReadIsCurrent, Current
  <2>4. QED
    BY <2>1, <2>2, <2>3 DEF InputsInv
<1>3. InputsInv /\ [InputsNext]_inputVars => InputsInv'
  BY <1>2, InputsInvStep
<1> QED
  BY <1>1, <1>3, PTL DEF InputsSpec

\* The types of what is read.
LEMMA InputsTypeStep ==
    ASSUME InputsInv, InputsTypeOK, InputsNext PROVE InputsTypeOK'
<1>1. \A n \in 1..4 : Order[n] \in Input
  BY Inputs
<1>2. ASSUME NEW f \in Input, Rewrite(f) PROVE InputsTypeOK'
  <2>1. PICK b \in 1..2 : blocks[f][b] < MaxVersion /\ blocks' = [blocks EXCEPT ![f][b] = @ + 1]
    BY <1>2 DEF Rewrite
  <2>2. blocks[f] \in Version \X Version /\ \A g \in Input : g # f => blocks'[g] = blocks[g]
    BY <2>1 DEF InputsTypeOK
  <2>3. blocks'[f] \in Version \X Version
    <3>1. blocks[f][1] \in Version /\ blocks[f][2] \in Version /\ blocks[f] = <<blocks[f][1], blocks[f][2]>>
      BY <2>2
    <3>2. CASE b = 1
      <4>1. blocks'[f] = <<blocks[f][1] + 1, blocks[f][2]>>
        BY <2>1, <3>1, <3>2 DEF InputsTypeOK
      <4>2. blocks[f][1] + 1 \in Version
        BY <2>1, <3>1, <3>2, InputsAssumption DEF Version
      <4> QED
        BY <3>1, <4>1, <4>2
    <3>3. CASE b = 2
      <4>1. blocks'[f] = <<blocks[f][1], blocks[f][2] + 1>>
        BY <2>1, <3>1, <3>3 DEF InputsTypeOK
      <4>2. blocks[f][2] + 1 \in Version
        BY <2>1, <3>1, <3>3, InputsAssumption DEF Version
      <4> QED
        BY <3>1, <4>1, <4>2
    <3> QED
      BY <3>2, <3>3
  <2>4. blocks' \in [Input -> Version \X Version]
    BY <2>1, <2>2, <2>3 DEF InputsTypeOK
  <2> QED
    BY <1>2, <2>4 DEF Rewrite, InputsTypeOK
<1>3. CASE ClockTicks
  BY <1>3, InputsAssumption DEF ClockTicks, InputsTypeOK
<1>4. CASE OpenInput
  <2>1. Order[reading] \in Input /\ stamp[Order[reading]] \in 0..MaxTick
    BY <1>1, <1>4 DEF OpenInput, InputsTypeOK
  <2>2. before' \in -1..MaxTick
    BY <1>4, <2>1, InputsAssumption DEF OpenInput
  <2> QED
    BY <1>4, <2>2 DEF OpenInput, InputsTypeOK
<1>5. CASE ReadBlock
  <2>1. Order[reading] \in Input
    BY <1>1, <1>5 DEF ReadBlock, InputsInv, OpenWhileRead, InputsTypeOK
  <2>2. blocks[Order[reading]] \in Version \X Version
    BY <2>1 DEF InputsTypeOK
  <2>3. PICK n \in 0..2 : chunks \in [1..n -> Version]
    BY DEF InputsTypeOK
  <2>4. Len(chunks) = n /\ n < 2 /\ chunks \in Seq(Version)
    BY <1>5, <2>3 DEF ReadBlock
  <2>5. blocks[Order[reading]][n + 1] \in Version
    BY <2>2, <2>4
  <2>6. chunks' \in [1..(n + 1) -> Version]
    <3>1. chunks' \in Seq(Version) /\ Len(chunks') = n + 1
      BY <1>5, <2>4, <2>5 DEF ReadBlock
    <3>2. chunks' \in [1..Len(chunks') -> Version]
      BY <3>1
    <3> QED
      BY <3>1, <3>2
  <2>7. chunks' \in UNION {[1..m -> Version] : m \in 0..2}
    BY <2>4, <2>6
  <2> QED
    BY <1>5, <2>7 DEF ReadBlock, InputsTypeOK
<1>6. CASE CloseInput
  <2>1. chunks' = <<>> /\ before' = -1
    BY <1>6 DEF CloseInput
  <2>2. chunks' \in [1..0 -> Version]
    BY <2>1
  <2>3. chunks' \in UNION {[1..m -> Version] : m \in 0..2}
    BY <2>2
  <2>4. InputsShape'
    BY InputsInvStep DEF InputsInv
  <2> QED
    BY <1>6, <2>1, <2>3, <2>4, InputsAssumption DEF CloseInput, InputsTypeOK, InputsShape
<1>7. CASE BuildOutputs
  BY <1>7 DEF BuildOutputs, InputsTypeOK
<1>8. CASE RefuseDocument
  BY <1>8 DEF RefuseDocument, InputsTypeOK
<1> QED
  BY <1>2, <1>3, <1>4, <1>5, <1>6, <1>7, <1>8 DEF InputsNext

\* The types of what is read: versions that were written, in ticks that have come.
THEOREM InputsTypes == InputsSpec => []InputsTypeOK
<1>1. InputsInit => InputsTypeOK
  <2> SUFFICES ASSUME InputsInit PROVE InputsTypeOK
    OBVIOUS
  <2>1. 1 \in Version /\ 0 \in 0..MaxTick /\ -1 \in -1..MaxTick
    BY InputsAssumption DEF Version
  <2>2. DOMAIN evidence = {} /\ {Order[n] : n \in 1..(1 - 1)} = {}
    BY DEF InputsInit
  <2>3. chunks \in [1..0 -> Version]
    BY DEF InputsInit
  <2>4. chunks \in UNION {[1..n -> Version] : n \in 0..2}
    BY <2>3
  <2>5. blocks \in [Input -> Version \X Version]
    BY <2>1 DEF InputsInit
  <2>6. reading = 1 /\ before = -1 /\ outcome = "reading" /\ sameTick = FALSE /\ tick = 0
    BY DEF InputsInit
  <2>7. stamp \in [Input -> 0..MaxTick]
    BY <2>1 DEF InputsInit
  <2>8. DOMAIN evidence = {Order[n] : n \in 1..(reading - 1)}
    BY <2>2, <2>6
  <2>9. sameTick \in BOOLEAN
    BY <2>6
  <2>10. /\ reading \in 1..5 /\ before \in -1..MaxTick /\ tick \in 0..MaxTick
         /\ outcome \in {"reading", "refused", "recorded"}
    BY <2>1, <2>6
  <2> QED
    BY <2>4, <2>5, <2>7, <2>8, <2>9, <2>10 DEF InputsTypeOK
<1>2. InputsInv /\ InputsTypeOK /\ [InputsNext]_inputVars => InputsTypeOK'
  BY InputsTypeStep DEF inputVars, InputsTypeOK
<1> QED
  BY <1>1, <1>2, InputsInvariant, PTL DEF InputsSpec

\* The digests that are recorded are those of bytes each file held at one time,
\* unless a file was written twice within a tick of the clock.
THEOREM RecordedWasHeldAlways == InputsSpec => []RecordedWasHeld
<1>1. InputsInv => RecordedWasHeld
  <2> SUFFICES ASSUME InputsInv, outcome = "recorded", ~sameTick
               PROVE  \A f \in Input : evidence[f] \in held[f]
    BY DEF RecordedWasHeld
  <2>1. reading - 1 = 4
    BY DEF InputsInv, OpenWhileRead
  <2>2. DOMAIN evidence = Input
    BY <2>1 DEF InputsInv, InputsShape, Input
  <2>3. QED
    BY <2>2 DEF InputsInv, EvidenceWasHeld
<1> QED
  BY <1>1, InputsInvariant, PTL

----
\* SizerVerdict.  First, how amounts are added up and compared.

\* Total adds up what a function has for each element of its domain.
LEMMA TotalIsSum == ASSUME NEW f PROVE Total(f) = Sum(f, DOMAIN f)
BY DEF Total, FoldFunction, FoldFunctionOnSet, MapThenFoldSet, Sum, MapThenSumSet

\* The greatest of what a function has is one of its values, and none is greater.
LEMMA MaxIs ==
    ASSUME NEW f, Weighs(f, DOMAIN f), DOMAIN f # {}
    PROVE  /\ \E x \in DOMAIN f : Max(Range(f)) = f[x]
           /\ \A x \in DOMAIN f : f[x] <= Max(Range(f))
           /\ Max(Range(f)) \in Nat
<1>1. PICK x \in DOMAIN f : \A y \in DOMAIN f : f[y] <= f[x]
  BY Greatest
<1>2. \A y \in DOMAIN f : f[y] \in Nat
  BY DEF Weighs
<1>3. f[x] \in Range(f) /\ \A n \in Range(f) : f[x] >= n
  BY <1>1, <1>2 DEF Range
<1>4. Max(Range(f)) \in Range(f) /\ \A n \in Range(f) : Max(Range(f)) >= n
  BY <1>3 DEF Max
<1>5. \A n \in Range(f) : \E y \in DOMAIN f : n = f[y]
  BY DEF Range
<1>6. \A y \in DOMAIN f : f[y] \in Range(f)
  BY DEF Range
<1> QED
  BY <1>2, <1>4, <1>5, <1>6

\* The least of some numbers is one of them, and none is less.
LEMMA MinIs ==
    ASSUME NEW S \in SUBSET Nat, S # {}
    PROVE  Min(S) \in S /\ \A n \in S : Min(S) <= n
<1>1. PICK m \in S : \A n \in S : m <= n
  BY LeastNumber
<1> QED
  BY <1>1 DEF Min

----
\* The observation.

\* What can be read of a host are numbers, or unknown.
LEMMA HostOf ==
    ASSUME NEW h \in Hosts
    PROVE  /\ h.ram \in Amount /\ h.disk \in Amount
           /\ Limits(h) \subseteq Amount
           /\ DOMAIN h.gpus \subseteq Nat /\ IsFiniteSet(DOMAIN h.gpus)
           /\ \A d \in DOMAIN h.gpus : h.gpus[d] \in Nat
           /\ h.masked \in BOOLEAN
<1>1. IsHost(h)
  BY SizerAssumption
<1>2. Range(h.levels) \subseteq Amount \cup {NoLimit}
  BY <1>1 DEF IsHost, Range
<1> QED
  BY <1>1, <1>2 DEF IsHost, Limits

\* What is observed of memory is what the process is sure to have.
LEMMA RamIsSure ==
    ASSUME NEW h \in Hosts, host = h, age = "fresh"
    PROVE  /\ SureRam \in Nat
           /\ Observed(h).ram = Unknown \/ (Observed(h).ram \in Nat /\ Observed(h).ram = SureRam)
           /\ Observed(h).ram \in Amount
<1>1. h.ram \in Amount /\ Limits(h) \subseteq Amount /\ Unknown \notin Nat /\ NoLimit \notin Amount
  BY HostOf, SizerAssumption
<1>2. \A v \in Amount : Sure(v) \in Nat /\ (v \in Nat => Sure(v) = v)
  BY <1>1 DEF Sure, Amount
<1> DEFINE sure == {Sure(h.ram)} \cup {Sure(l) : l \in Limits(h)}
<1>3. sure \in SUBSET Nat /\ sure # {}
  BY <1>1, <1>2
<1>4. Min(sure) \in sure /\ \A n \in sure : Min(sure) <= n
  BY <1>3, MinIs
<1>5. CASE h.hidden \/ Unknown \in Range(h.levels)
  <2>1. SureRam = 0 /\ Headroom(h) = Unknown
    BY <1>5 DEF SureRam, Headroom
  <2> QED
    BY <2>1 DEF Observed, Amount
<1>6. CASE ~h.hidden /\ Unknown \notin Range(h.levels)
  <2>1. SureRam = Min(sure)
    BY <1>6 DEF SureRam
  <2>2. Limits(h) \in SUBSET Nat
    BY <1>1, <1>6 DEF Limits, Amount
  <2>3. sure = {Sure(h.ram)} \cup Limits(h)
    BY <1>2, <2>2 DEF Amount
  <2> HIDE DEF sure
  <2>4. Min(sure) \in Nat
    BY <1>3, <1>4
  <2>5. CASE h.ram = Unknown
    BY <2>1, <2>4, <2>5 DEF Observed, Amount
  <2>6. CASE h.ram \in Nat /\ Limits(h) = {}
    <3>1. Headroom(h) = NoLimit
      BY <1>6, <2>6 DEF Headroom
    <3>2. Observed(h).ram = h.ram
      BY <1>1, <2>6, <3>1 DEF Observed, Amount
    <3>3. sure = {h.ram}
      BY <1>1, <1>2, <2>3, <2>6
    <3> QED
      BY <1>4, <2>1, <2>4, <2>6, <3>2, <3>3 DEF Amount
  <2>7. CASE h.ram \in Nat /\ Limits(h) # {}
    <3>1. Headroom(h) = Min(Limits(h))
      BY <1>6, <2>7 DEF Headroom
    <3>2. Min(Limits(h)) \in Limits(h) /\ \A n \in Limits(h) : Min(Limits(h)) <= n
      BY <2>2, <2>7, MinIs
    <3> DEFINE m == Min(Limits(h))
               o == Min({h.ram, m})
    <3>3. m \in Nat /\ m \in sure /\ h.ram \in sure
      BY <1>1, <1>2, <2>2, <2>3, <2>7, <3>2
    <3>4. \A n \in sure : m <= n \/ n = h.ram
      BY <1>1, <1>2, <2>3, <2>7, <3>2
    <3> HIDE DEF m
    <3>5. o \in {h.ram, m} /\ o <= h.ram /\ o <= m
      <4>1. {h.ram, m} \in SUBSET Nat /\ {h.ram, m} # {}
        BY <2>7, <3>3
      <4> QED
        BY <4>1, MinIs
    <3> HIDE DEF o
    <3>6. Observed(h).ram = o
      <4>1. Headroom(h) = m /\ m # Unknown /\ h.ram # Unknown /\ m # NoLimit
        BY <1>1, <2>7, <3>1, <3>3 DEF m, Amount
      <4> QED
        BY <4>1 DEF Observed, o
    <3>7. o = Min(sure)
      <4>1. o \in sure /\ \A n \in sure : o <= n
        BY <2>7, <3>3, <3>4, <3>5
      <4>2. \A n \in sure : n \in Nat
        BY <1>3
      <4>3. o <= Min(sure) /\ Min(sure) <= o /\ o \in Nat
        BY <1>4, <4>1, <4>2
      <4> QED
        BY <2>4, <4>3
    <3> QED
      BY <2>1, <2>4, <3>6, <3>7 DEF Amount
  <2> QED
    BY <1>1, <2>5, <2>6, <2>7 DEF Amount
<1> QED
  BY <1>5, <1>6

\* Of disk and of a device there is what could be read.
LEMMA RestIsSure ==
    ASSUME host \in Hosts, age = "fresh"
    PROVE  /\ host.disk # Unknown => host.disk \in Nat /\ Sure(host.disk) = host.disk
           /\ \A d \in DOMAIN host.gpus : SureVram(d) = host.gpus[d] /\ host.gpus[d] \in Nat
<1>1. host.disk \in Amount /\ Unknown \notin Nat /\ \A d \in DOMAIN host.gpus : host.gpus[d] \in Nat
  BY HostOf, SizerAssumption
<1> QED
  BY <1>1 DEF Sure, SureVram, Amount

\* What there is is a number, whatever is known of it.
LEMMA SureIsNumber ==
    ASSUME host \in Hosts
    PROVE  SureRam \in Nat /\ Sure(host.disk) \in Nat /\ \A d : SureVram(d) \in Nat
<1>1. /\ host.ram \in Amount /\ host.disk \in Amount /\ Limits(host) \subseteq Amount
      /\ \A d \in DOMAIN host.gpus : host.gpus[d] \in Nat
  BY HostOf
<1>2. \A v \in Amount : Sure(v) \in Nat
  BY DEF Sure, Amount
<1>3. SureRam \in Nat
  <2> DEFINE sure == {Sure(host.ram)} \cup {Sure(l) : l \in Limits(host)}
  <2>1. sure \in SUBSET Nat /\ sure # {}
    BY <1>1, <1>2
  <2>2. SureRam = 0 \/ SureRam = Min(sure)
    BY DEF SureRam
  <2> HIDE DEF sure
  <2>3. Min(sure) \in sure
    BY <2>1, MinIs
  <2>4. Min(sure) \in Nat
    BY <2>1, <2>3
  <2>5. CASE SureRam = 0
    BY <2>5
  <2>6. CASE SureRam = Min(sure)
    BY <2>4, <2>6
  <2> QED
    BY <2>2, <2>5, <2>6
<1>4. \A d : SureVram(d) \in Nat
  BY <1>1, <1>2 DEF SureVram, Amount
<1> QED
  BY <1>1, <1>2, <1>3, <1>4

----
\* Budgets and verdicts.

\* A budget draws the line: what is within it fits beside the reserve, what is
\* not does not.
Divides(left, reserve, sure) ==
    /\ left \in Nat /\ reserve \in Nat /\ sure \in Nat
    /\ left > 0 => left + reserve = sure
    /\ left = 0 => sure <= reserve

\* What is left beside the reserve draws the line.
LEMMA LeftDivides ==
    ASSUME NEW a, NEW reserve \in Nat, Left(a, reserve) # Unknown, a \in Amount
    PROVE  age = "fresh" /\ a \in Nat /\ a # Unknown /\ Divides(Left(a, reserve), reserve, a)
<1>1. age = "fresh" /\ a # Unknown /\ a \in Nat
  BY DEF Left, Amount
<1> DEFINE over == a - reserve
           S == {0, over}
<1>2. Left(a, reserve) = Max(S)
  BY <1>1 DEF Left
<1>3. over \in Int /\ 0 \in Int
  BY <1>1
<1> HIDE DEF over
<1>4. \E x \in S : \A y \in S : x >= y
  BY <1>3
<1>5. Max(S) \in S /\ \A y \in S : Max(S) >= y
  <2> HIDE DEF S
  <2> QED
    BY <1>4 DEF Max
<1>6. Max(S) \in {0, over} /\ Max(S) >= 0 /\ Max(S) >= over
  BY <1>5
<1> QED
  BY <1>1, <1>2, <1>3, <1>6 DEF Divides, over

\* The device that is chosen is one of the host.
LEMMA ChosenIsThere ==
    ASSUME NEW h \in Hosts, snapshot = Observed(h), NEW gpu, Chosen(gpu) # Unknown
    PROVE  Chosen(gpu) \in DOMAIN h.gpus
<1> DEFINE devices == {d \in DOMAIN h.gpus : gpu \in {Unknown, d}}
           best == {d \in devices : \A e \in devices : h.gpus[d] >= h.gpus[e]}
<1>1. snapshot.gpus = h.gpus
  BY DEF Observed
<1>2. devices # {} /\ Chosen(gpu) = Min(best)
  BY <1>1 DEF Chosen
<1>3. /\ DOMAIN h.gpus \subseteq Nat /\ IsFiniteSet(DOMAIN h.gpus)
      /\ \A d \in DOMAIN h.gpus : h.gpus[d] \in Nat
  BY HostOf
<1>4. Weighs(h.gpus, devices)
  BY <1>3, FS_Subset DEF Weighs
<1>5. \E d \in devices : \A e \in devices : h.gpus[e] <= h.gpus[d]
  <2> HIDE DEF devices
  <2> QED
    BY <1>2, <1>4, Greatest
<1>6. best # {} /\ best \in SUBSET Nat
  BY <1>3, <1>5
<1>7. Min(best) \in best
  <2> HIDE DEF best
  <2> QED
    BY <1>6, MinIs
<1> QED
  BY <1>2, <1>7

\* What is kept back are numbers.
IsReserve(reserve) == reserve.ram \in Nat /\ reserve.vram \in Nat /\ reserve.disk \in Nat

\* A budget, where there is one, draws the line at what the host is sure to have.
BudgetHolds(budget, reserve) ==
    /\ budget.ram # Unknown => Divides(budget.ram, reserve.ram, SureRam)
    /\ budget.disk # Unknown => Divides(budget.disk, reserve.disk, Sure(host.disk))
    /\ budget.vram # Unknown => /\ budget.backend = "cuda"
                                /\ Divides(budget.vram, reserve.vram, SureVram(budget.gpu))

\* budgets() gives no budget of more than the host is sure to have.
LEMMA BudgetsHold ==
    ASSUME host \in Hosts, snapshot = Observed(host), NEW backend, NEW gpu, NEW reserve,
           IsReserve(reserve)
    PROVE  BudgetHolds(Budgets(backend, gpu, reserve), reserve)
<1> DEFINE device == Chosen(gpu)
           used == IF backend # "auto" THEN backend
                   ELSE IF device # Unknown \/ gpu # Unknown THEN "cuda" ELSE "cpu"
           b == Budgets(backend, gpu, reserve)
<1>1. PICK h \in Hosts : h = host
  OBVIOUS
<1>2. /\ b.ram = Left(snapshot.ram, reserve.ram) /\ b.disk = Left(snapshot.disk, reserve.disk)
      /\ b.backend = used /\ b.gpu = IF used = "cuda" THEN device ELSE Unknown
      /\ b.vram = IF used = "cuda" /\ device # Unknown
                  THEN Left(snapshot.gpus[device], reserve.vram) ELSE Unknown
  BY DEF Budgets
<1> HIDE DEF b, used
<1>3. snapshot.disk = h.disk /\ snapshot.gpus = h.gpus /\ h.disk \in Amount
  BY <1>1, HostOf DEF Observed
<1>4. ASSUME b.ram # Unknown PROVE Divides(b.ram, reserve.ram, SureRam)
  <2>1. \A v \in Amount : Left(v, reserve.ram) # Unknown =>
            age = "fresh" /\ v # Unknown /\ Divides(Left(v, reserve.ram), reserve.ram, v)
    BY LeftDivides DEF IsReserve
  <2>2. age = "fresh"
    BY <1>2, <1>4 DEF Left
  <2>3. Observed(h).ram = Unknown \/ Observed(h).ram = SureRam
    BY <1>1, <2>2, RamIsSure
  <2>4. Observed(h).ram \in Amount
    BY <1>1, <2>2, RamIsSure
  <2> QED
    BY <1>1, <1>2, <1>4, <2>1, <2>3, <2>4
<1>5. ASSUME b.disk # Unknown PROVE Divides(b.disk, reserve.disk, Sure(host.disk))
  <2>1. age = "fresh" /\ h.disk # Unknown /\ Divides(b.disk, reserve.disk, h.disk)
    BY <1>2, <1>3, <1>5, LeftDivides DEF IsReserve
  <2> QED
    BY <1>1, <2>1, RestIsSure
<1>6. ASSUME b.vram # Unknown
      PROVE  b.backend = "cuda" /\ Divides(b.vram, reserve.vram, SureVram(b.gpu))
  <2>1. used = "cuda" /\ device # Unknown /\ b.gpu = device /\ b.vram = Left(h.gpus[device], reserve.vram)
    BY <1>2, <1>3, <1>6
  <2>2. device \in DOMAIN h.gpus
    BY <1>1, <2>1, ChosenIsThere
  <2> HIDE DEF device
  <2>3. h.gpus[device] \in Nat /\ h.gpus[device] \in Amount
    BY <2>2, HostOf DEF Amount
  <2>4. age = "fresh" /\ Divides(b.vram, reserve.vram, h.gpus[device])
    BY <1>6, <2>1, <2>3, LeftDivides DEF IsReserve
  <2> QED
    BY <1>1, <1>2, <2>1, <2>2, <2>4, RestIsSure
<1> QED
  BY <1>4, <1>5, <1>6 DEF BudgetHolds, b

\* The worst of some verdicts is one of them that takes a side, or takes none.
LEMMA WorstIs ==
    ASSUME NEW S, S \subseteq {"estimated-fit", "does-not-fit", "unknown"}
    PROVE  /\ Worst(S) \in {"estimated-fit", "does-not-fit", "unknown"}
           /\ Worst(S) = "estimated-fit" => S \subseteq {"estimated-fit"}
           /\ Worst(S) = "does-not-fit" => "does-not-fit" \in S
BY DEF Worst

\* A need fits when each of its budgets is known and enough, and does not when
\* one that is known is not.
LEMMA AssessIs ==
    ASSUME NEW needs, NEW budget
    PROVE  /\ Assess(needs, budget) \in {"estimated-fit", "does-not-fit", "unknown"}
           /\ Assess(needs, budget) = "estimated-fit" =>
                \A r \in DOMAIN needs : budget[r] # Unknown /\ needs[r] <= budget[r]
           /\ Assess(needs, budget) = "does-not-fit" =>
                \E r \in DOMAIN needs : budget[r] # Unknown /\ ~(needs[r] <= budget[r])
<1> DEFINE status(r) == IF budget[r] = Unknown THEN "unknown"
                        ELSE IF needs[r] <= budget[r] THEN "estimated-fit" ELSE "does-not-fit"
           S == {status(r) : r \in DOMAIN needs}
<1>1. Assess(needs, budget) = Worst(S)
  BY DEF Assess
<1>2. S \subseteq {"estimated-fit", "does-not-fit", "unknown"}
  OBVIOUS
<1>3. /\ Worst(S) \in {"estimated-fit", "does-not-fit", "unknown"}
      /\ Worst(S) = "estimated-fit" => S \subseteq {"estimated-fit"}
      /\ Worst(S) = "does-not-fit" => "does-not-fit" \in S
  <2> HIDE DEF S
  <2> QED
    BY <1>2, WorstIs
<1>4. S \subseteq {"estimated-fit"} =>
        \A r \in DOMAIN needs : budget[r] # Unknown /\ needs[r] <= budget[r]
  OBVIOUS
<1>5. "does-not-fit" \in S =>
        \E r \in DOMAIN needs : budget[r] # Unknown /\ ~(needs[r] <= budget[r])
  OBVIOUS
<1> QED
  BY <1>1, <1>3, <1>4, <1>5

----
\* Rows, and the jobs they speak of.

\* The parts of a job that serve.
Serving(row) == {p \in row.parts : p.phase = "infer"}

\* A row has some parts, and numbers for what they use.
RowShape(row) ==
    /\ IsFiniteSet(row.parts) /\ row.parts # {}
    /\ \A p \in row.parts : p.ram \in Nat /\ p.vram \in Nat /\ p.phase \in {"train", "infer"}
    /\ Weighs(row.disk, DOMAIN row.disk) /\ row.documents \in Nat
    /\ IsReserve(row.reserve) /\ row.share \in {1, 2} /\ row.co \in BOOLEAN

\* Whatever of the job is loaded and started, in the orders that are possible,
\* there is enough.
Enough(row) ==
    /\ \A p \in row.parts : ~MemoryOverrun(row, {p})
    /\ row.co => \A P \in SUBSET Serving(row) : ~MemoryOverrun(row, P)
    /\ \A P \in SUBSET row.parts : ~DiskOverrun(row, P)

\* Something that the job cannot do without is more than there is.
Short(row) ==
    \/ \E p \in row.parts : MemoryOverrun(row, {p})
    \/ row.co /\ Serving(row) # {} /\ MemoryOverrun(row, Serving(row))
    \/ DiskOverrun(row, row.parts)

\* The verdict of a row takes a side only when the host is as it says.
RowIsJust(row) ==
    /\ RowShape(row) /\ row.verdict \in Verdict
    /\ row.listed => Enough(row)
    /\ row.verdict = "does-not-fit" => Short(row)

\* Whoever uses more does not exceed less.
LEMMA ExceedsMore ==
    ASSUME NEW row, row.share \in {1, 2}, NEW n \in Nat, NEW m \in Nat, n <= m,
           NEW reserve \in Nat, NEW sure \in Nat, Exceeds(row, n, reserve, sure)
    PROVE  Exceeds(row, m, reserve, sure)
<1>1. CASE row.share = 1
  BY <1>1 DEF Exceeds
<1>2. CASE row.share = 2
  BY <1>2 DEF Exceeds
<1> QED
  BY <1>1, <1>2

\* The ram of some parts.
Ram(P) == Total([p \in P |-> p.ram])
\* Those of them on the device of one of them.
Beside(P, p) == {q \in P : q.gpu = p.gpu}
\* Their video memory.
Vram(P) == Total([p \in P |-> p.vram])

\* Memory is overrun in sum, or on the device of a part.
LEMMA OverrunIs ==
    ASSUME NEW row, NEW P
    PROVE  MemoryOverrun(row, P) <=>
             \/ Exceeds(row, Ram(P), row.reserve.ram, SureRam)
             \/ \E p \in P : Exceeds(row, Vram(Beside(P, p)), row.reserve.vram, SureVram(p.gpu))
BY DEF MemoryOverrun, Ram, Vram, Beside

\* What some of the parts use is a number, and no more than all of them use.
LEMMA PartsWeigh ==
    ASSUME NEW Q, IsFiniteSet(Q), \A p \in Q : p.ram \in Nat /\ p.vram \in Nat,
           NEW P \in SUBSET Q
    PROVE  /\ Ram(P) \in Nat /\ Ram(P) <= Ram(Q)
           /\ Vram(P) \in Nat /\ Vram(P) <= Vram(Q)
<1> DEFINE ram == [p \in Q |-> p.ram]
           vram == [p \in Q |-> p.vram]
<1>1. Weighs(ram, Q) /\ Weighs(vram, Q)
  BY DEF Weighs
<1>2. ASSUME NEW S \in SUBSET Q PROVE Ram(S) = Sum(ram, S) /\ Vram(S) = Sum(vram, S)
  <2> DEFINE r == [p \in S |-> p.ram]
             v == [p \in S |-> p.vram]
  <2>1. Ram(S) = Sum(r, S) /\ Vram(S) = Sum(v, S)
    BY TotalIsSum DEF Ram, Vram
  <2>2. (\A p \in S : r[p] = ram[p]) /\ (\A p \in S : v[p] = vram[p]) /\ IsFiniteSet(S)
    BY FS_Subset
  <2> HIDE DEF r, v, ram, vram
  <2> QED
    BY <2>1, <2>2, SumSame
<1> HIDE DEF ram, vram
<1>3. P \in SUBSET Q /\ Q \in SUBSET Q
  OBVIOUS
<1>4. Sum(ram, P) \in Nat /\ Sum(ram, P) <= Sum(ram, Q)
  BY <1>1, SumOfSome
<1>5. Sum(vram, P) \in Nat /\ Sum(vram, P) <= Sum(vram, Q)
  BY <1>1, SumOfSome
<1> QED
  BY <1>2, <1>3, <1>4, <1>5

\* What one part uses.
LEMMA Alone ==
    ASSUME NEW p, p.ram \in Nat, p.vram \in Nat
    PROVE  Ram({p}) = p.ram /\ Vram({p}) = p.vram /\ Beside({p}, p) = {p}
<1> DEFINE ram == [q \in {p} |-> q.ram]
           vram == [q \in {p} |-> q.vram]
<1>1. Ram({p}) = Sum(ram, {p}) /\ Vram({p}) = Sum(vram, {p})
  BY TotalIsSum DEF Ram, Vram
<1>2. ram[p] = p.ram /\ vram[p] = p.vram
  OBVIOUS
<1> HIDE DEF ram, vram
<1>3. Sum(ram, {p}) = ram[p]
  BY <1>2, SumOne
<1>4. Sum(vram, {p}) = vram[p]
  BY <1>2, SumOne
<1> QED
  BY <1>1, <1>2, <1>3, <1>4 DEF Beside

\* One part overruns by what it uses itself.
LEMMA AloneOverruns ==
    ASSUME NEW row, NEW p, p.ram \in Nat, p.vram \in Nat
    PROVE  MemoryOverrun(row, {p}) <=>
             \/ Exceeds(row, p.ram, row.reserve.ram, SureRam)
             \/ Exceeds(row, p.vram, row.reserve.vram, SureVram(p.gpu))
BY OverrunIs, Alone

\* Whoever loads more does not need less.
LEMMA OverrunStays ==
    ASSUME host \in Hosts, NEW row, RowShape(row), NEW Q \in SUBSET row.parts, NEW P \in SUBSET Q,
           MemoryOverrun(row, P)
    PROVE  MemoryOverrun(row, Q)
<1>1. /\ IsFiniteSet(Q) /\ \A p \in Q : p.ram \in Nat /\ p.vram \in Nat
      /\ row.share \in {1, 2} /\ row.reserve.ram \in Nat /\ row.reserve.vram \in Nat
  BY FS_Subset DEF RowShape, IsReserve
<1>2. SureRam \in Nat /\ \A d : SureVram(d) \in Nat
  BY SureIsNumber
<1>3. CASE Exceeds(row, Ram(P), row.reserve.ram, SureRam)
  <2>1. Ram(P) \in Nat /\ Ram(Q) \in Nat /\ Ram(P) <= Ram(Q)
    BY <1>1, PartsWeigh
  <2>2. Exceeds(row, Ram(Q), row.reserve.ram, SureRam)
    BY <1>1, <1>2, <1>3, <2>1, ExceedsMore
  <2> QED
    BY <2>2, OverrunIs
<1>4. ASSUME NEW p \in P, Exceeds(row, Vram(Beside(P, p)), row.reserve.vram, SureVram(p.gpu))
      PROVE  MemoryOverrun(row, Q)
  <2>1. Beside(P, p) \in SUBSET Beside(Q, p) /\ Beside(Q, p) \in SUBSET Q /\ p \in Q
    BY DEF Beside
  <2>2. IsFiniteSet(Beside(Q, p)) /\ \A q \in Beside(Q, p) : q.ram \in Nat /\ q.vram \in Nat
    BY <1>1, <2>1, FS_Subset
  <2>3. /\ Vram(Beside(P, p)) \in Nat /\ Vram(Beside(Q, p)) \in Nat
        /\ Vram(Beside(P, p)) <= Vram(Beside(Q, p))
    BY <2>1, <2>2, PartsWeigh
  <2>4. Exceeds(row, Vram(Beside(Q, p)), row.reserve.vram, SureVram(p.gpu))
    BY <1>1, <1>2, <1>4, <2>3, ExceedsMore
  <2> QED
    BY <2>1, <2>4, OverrunIs
<1> QED
  BY <1>3, <1>4, OverrunIs

\* The tasks that are started.
Started(row, S) == {t \in DOMAIN row.disk : \E p \in S : p.task = t}
\* Their disk, with that of the documents.
Disk(row, S) == row.documents + Sum(row.disk, Started(row, S))
\* The disk of the whole job.
AllDisk(row) == row.documents + Sum(row.disk, DOMAIN row.disk)

\* What is started takes no more disk than the whole job.
LEMMA DiskIs ==
    ASSUME NEW row, RowShape(row), NEW S
    PROVE  /\ DiskOverrun(row, S) <=> Exceeds(row, Disk(row, S), row.reserve.disk, Sure(host.disk))
           /\ Disk(row, S) \in Nat /\ AllDisk(row) \in Nat /\ Disk(row, S) <= AllDisk(row)
           /\ Started(row, S) = DOMAIN row.disk => Disk(row, S) = AllDisk(row)
<1> DEFINE D == DOMAIN row.disk
           tasks == Started(row, S)
           w == [t \in tasks |-> row.disk[t]]
<1>1. Weighs(row.disk, D) /\ row.documents \in Nat /\ tasks \in SUBSET D
  BY DEF RowShape, Started
<1> HIDE DEF D, tasks
<1>2. /\ Weighs(row.disk, tasks) /\ Sum(row.disk, tasks) \in Nat
      /\ Sum(row.disk, tasks) <= Sum(row.disk, D)
  BY <1>1, SumOfSome
<1>3. Sum(row.disk, D) \in Nat
  BY <1>1, SumWithout
<1>4. Total(w) = Sum(row.disk, tasks)
  <2>1. Total(w) = Sum(w, tasks)
    BY TotalIsSum
  <2>2. IsFiniteSet(tasks) /\ \A t \in tasks : w[t] = row.disk[t]
    BY <1>2 DEF Weighs
  <2> HIDE DEF w
  <2> QED
    BY <2>1, <2>2, SumSame
<1>5. DiskOverrun(row, S) <=>
        Exceeds(row, row.documents + Total(w), row.reserve.disk, Sure(host.disk))
  BY DEF DiskOverrun, Started, tasks
<1>6. Disk(row, S) = row.documents + Sum(row.disk, tasks)
  BY DEF Disk, tasks
<1>7. AllDisk(row) = row.documents + Sum(row.disk, D)
  BY DEF AllDisk, D
<1> QED
  BY <1>1, <1>2, <1>3, <1>4, <1>5, <1>6, <1>7 DEF D, tasks

\* Nothing overruns while nothing is loaded.
LEMMA NoneOverrun == ASSUME NEW row PROVE ~MemoryOverrun(row, {})
<1> DEFINE w == [p \in {} |-> p.ram]
<1>1. Ram({}) = Sum(w, {})
  BY TotalIsSum DEF Ram
<1> HIDE DEF w
<1>2. Ram({}) = 0
  BY <1>1, FS_EmptySet, SumRound
<1>3. ~Exceeds(row, Ram({}), row.reserve.ram, SureRam)
  BY <1>2 DEF Exceeds
<1> QED
  BY <1>3, OverrunIs

\* A need is more than there is when it is more than the budget.
LEMMA BudgetDecides ==
    ASSUME NEW row, row.share = 1, NEW left, NEW reserve, NEW sure, Divides(left, reserve, sure),
           NEW n \in Nat
    PROVE  Exceeds(row, n, reserve, sure) <=> ~(n <= left)
BY DEF Exceeds, Divides

\* And where only a half may be used: when it is more than half of the budget.
LEMMA HalfDecides ==
    ASSUME NEW row, row.share = 2, NEW left, NEW reserve, NEW sure, Divides(left, reserve, sure),
           NEW n \in Nat
    PROVE  Exceeds(row, n, reserve, sure) <=> ~(n <= left \div 2)
<1>1. left \in Nat /\ left \div 2 \in Nat /\ (2 * n <= left <=> n <= left \div 2)
  BY DEF Divides
<1> QED
  BY <1>1 DEF Exceeds, Divides

\* Who uses nothing exceeds nothing.
LEMMA NothingExceeds == ASSUME NEW row, NEW reserve, NEW sure PROVE ~Exceeds(row, 0, reserve, sure)
BY DEF Exceeds

\* The reserves of the code are reserves.
LEMMA Reserves == IsReserve(Reserve) /\ IsReserve(MeasuredReserve)
BY DEF IsReserve, Reserve, MeasuredReserve

\* A job of one part that takes no disk.
LEMMA OnePart ==
    ASSUME NEW row, NEW p, row.parts = {p}, p.ram \in Nat, p.vram \in Nat, p.phase = "infer",
           row.disk = <<>>, row.documents = 0, IsReserve(row.reserve), row.share \in {1, 2},
           row.co = FALSE, row.verdict \in Verdict,
           row.listed => ~MemoryOverrun(row, {p}),
           row.verdict = "does-not-fit" => MemoryOverrun(row, {p})
    PROVE  RowIsJust(row)
<1>1. DOMAIN row.disk = {} /\ IsFiniteSet(DOMAIN row.disk)
  BY FS_EmptySet
<1>2. RowShape(row)
  <2>1. Weighs(row.disk, DOMAIN row.disk)
    BY <1>1 DEF Weighs
  <2>2. IsFiniteSet(row.parts) /\ row.parts # {}
    BY FS_Singleton
  <2>3. row.documents \in Nat
    OBVIOUS
  <2>4. row.co \in BOOLEAN
    OBVIOUS
  <2> QED
    BY <2>1, <2>2, <2>3, <2>4 DEF RowShape
<1>3. ASSUME NEW S PROVE ~DiskOverrun(row, S)
  <2>1. AllDisk(row) = 0
    <3>1. Sum(row.disk, DOMAIN row.disk) = 0
      BY <1>1, SumRound
    <3> QED
      BY <3>1 DEF AllDisk
  <2>2. Disk(row, S) = 0
    <3>1. Disk(row, S) \in Nat /\ Disk(row, S) <= AllDisk(row)
      BY <1>2, DiskIs
    <3> QED
      BY <2>1, <3>1
  <2> QED
    BY <1>2, <2>2, DiskIs, NothingExceeds
<1> QED
  BY <1>2, <1>3 DEF RowIsJust, Enough, Short

\* A chat model: half of what is left decides.
LEMMA ChatIsJust ==
    ASSUME host \in Hosts, snapshot = Observed(host), NEW bytes \in ChatSizes, NEW available \in BOOLEAN
    PROVE  RowIsJust(ChatRow(bytes, available))
<1> DEFINE row == ChatRow(bytes, available)
           budget == Budgets("cpu", Unknown, Reserve)
           required == 2 * bytes + 1
           p == Part("chat", "infer", required, 0, Unknown)
<1>1. required \in Nat
  BY SizerAssumption
<1>2. Divides(budget.ram, Reserve.ram, SureRam) \/ budget.ram = Unknown
  BY BudgetsHold, Reserves DEF BudgetHolds
<1> DEFINE limit == IF budget.ram = Unknown THEN Unknown ELSE budget.ram \div 2
           verdict == IF limit = Unknown THEN "unknown"
                      ELSE IF required <= limit THEN "estimated-fit" ELSE "does-not-fit"
<1>3. /\ row.parts = {p} /\ row.disk = <<>> /\ row.documents = 0 /\ row.reserve = Reserve
      /\ row.share = 2 /\ row.co = FALSE /\ row.verdict = verdict
      /\ row.listed => verdict = "estimated-fit"
  BY DEF ChatRow, Row
<1>4. p.ram = required /\ p.vram = 0 /\ p.phase = "infer" /\ p.gpu = Unknown
  BY DEF Part
<1> HIDE DEF row, p, required, budget
<1>5. MemoryOverrun(row, {p}) <=> Exceeds(row, required, Reserve.ram, SureRam)
  BY <1>1, <1>3, <1>4, AloneOverruns, NothingExceeds
<1>6. CASE budget.ram = Unknown
  <2>1. verdict = "unknown"
    BY <1>6
  <2> HIDE DEF verdict
  <2>2. row.verdict \in Verdict /\ row.verdict # "does-not-fit" /\ ~row.listed
    BY <1>3, <2>1 DEF Verdict
  <2>3. p.ram \in Nat /\ p.vram \in Nat /\ IsReserve(row.reserve) /\ row.share \in {1, 2}
    BY <1>1, <1>3, <1>4, Reserves
  <2>4. RowIsJust(row)
    BY <1>3, <1>4, <2>2, <2>3, OnePart
  <2> QED
    BY <2>4 DEF row
<1>7. CASE budget.ram # Unknown
  <2>1. Exceeds(row, required, Reserve.ram, SureRam) <=> ~(required <= budget.ram \div 2)
    BY <1>1, <1>2, <1>3, <1>7, HalfDecides
  <2>2. budget.ram \in Nat /\ budget.ram \div 2 \in Nat /\ Unknown \notin Nat
    BY <1>2, <1>7, SizerAssumption DEF Divides
  <2>3. verdict = IF required <= budget.ram \div 2 THEN "estimated-fit" ELSE "does-not-fit"
    BY <1>7, <2>2
  <2> HIDE DEF verdict
  <2>4. /\ row.verdict \in Verdict
        /\ row.listed => ~MemoryOverrun(row, {p})
        /\ row.verdict = "does-not-fit" => MemoryOverrun(row, {p})
    BY <1>3, <1>5, <2>1, <2>3 DEF Verdict
  <2>5. p.ram \in Nat /\ p.vram \in Nat /\ IsReserve(row.reserve) /\ row.share \in {1, 2}
    BY <1>1, <1>3, <1>4, Reserves
  <2>6. RowIsJust(row)
    BY <1>3, <1>4, <2>4, <2>5, OnePart
  <2> QED
    BY <2>6 DEF row
<1> QED
  BY <1>6, <1>7

\* A measured model: it is listed by what was measured of all it uses, and
\* refused by what was measured of some.
LEMMA MeasuredIsJust ==
    ASSUME host \in Hosts, snapshot = Observed(host),
           NEW kind \in {"voice", "runtime"}, NEW backend \in Backends,
           NEW scoped \in BOOLEAN, NEW matches \in BOOLEAN, NEW supported \in BOOLEAN,
           NEW peak \in Peaks
    PROVE  RowIsJust(MeasuredRow(kind, backend, scoped, matches, peak, supported))
<1> DEFINE row == MeasuredRow(kind, backend, scoped, matches, peak, supported)
           budget == Budgets(backend, IF scoped THEN 0 ELSE Unknown, MeasuredReserve)
           resources == IF backend = "cuda" THEN {"ram", "vram"} ELSE {"ram"}
           known == {r \in resources : peak[r] # Unknown}
           usable == known # {} /\ AsMeasured(scoped, matches) /\ (kind = "voice" => known = resources)
           needs == [r \in known |-> WithMargin(peak[r])]
           assessed == IF usable THEN Assess(needs, budget) ELSE "unknown"
           verdict == IF kind = "voice" THEN (IF supported THEN assessed ELSE "unsupported")
                      ELSE IF known # resources /\ assessed = "estimated-fit" THEN "unknown"
                      ELSE IF backend = "cuda" /\ DOMAIN snapshot.gpus = {} THEN "unknown"
                      ELSE assessed
           use(r) == IF r \notin resources THEN 0
                     ELSE IF matches /\ peak[r] # Unknown /\ (scoped => DOMAIN host.gpus = {0} /\ ~host.masked)
                     THEN WithMargin(peak[r]) ELSE Unmeasured
           p == Part(kind, "infer", use("ram"), use("vram"), budget.gpu)
<1>1. /\ row.parts = {p} /\ row.disk = <<>> /\ row.documents = 0 /\ row.reserve = MeasuredReserve
      /\ row.share = 1 /\ row.co = FALSE /\ row.verdict = verdict
      /\ row.listed <=> verdict = "estimated-fit"
  BY DEF MeasuredRow, Row
<1>2. p.ram = use("ram") /\ p.vram = use("vram") /\ p.phase = "infer" /\ p.gpu = budget.gpu
  BY DEF Part
<1>3. BudgetHolds(budget, MeasuredReserve)
  BY BudgetsHold, Reserves
<1>4. resources \subseteq {"ram", "vram"} /\ "ram" \in resources /\ known \subseteq resources
  OBVIOUS
<1>5. \A r \in {"ram", "vram"} : peak[r] = Unknown \/ peak[r] \in Nat
  BY SizerAssumption DEF Amount
<1>6. \A n \in Nat : WithMargin(n) \in Nat
  BY DEF WithMargin
<1>7. \A r \in known : WithMargin(peak[r]) \in Nat
  BY <1>4, <1>5, <1>6
<1>8. use("ram") \in Nat /\ use("vram") \in Nat
  BY <1>5, <1>6, SizerAssumption
<1>9. usable => \A r \in known : use(r) = WithMargin(peak[r])
  <2>1. scoped /\ snapshot.mapped => DOMAIN host.gpus = {0} /\ ~host.masked
    BY DEF Observed
  <2> QED
    BY <2>1 DEF AsMeasured
<1>10. \A r : r \notin resources => use(r) = 0
  OBVIOUS
<1> HIDE DEF use
<1>11. /\ assessed \in {"estimated-fit", "does-not-fit", "unknown"}
       /\ assessed = "estimated-fit" =>
            usable /\ \A r \in known : budget[r] # Unknown /\ use(r) <= budget[r]
       /\ assessed = "does-not-fit" =>
            usable /\ \E r \in known : budget[r] # Unknown /\ ~(use(r) <= budget[r])
  <2>1. /\ Assess(needs, budget) \in {"estimated-fit", "does-not-fit", "unknown"}
        /\ Assess(needs, budget) = "estimated-fit" =>
             \A r \in DOMAIN needs : budget[r] # Unknown /\ needs[r] <= budget[r]
        /\ Assess(needs, budget) = "does-not-fit" =>
             \E r \in DOMAIN needs : budget[r] # Unknown /\ ~(needs[r] <= budget[r])
    <3> HIDE DEF needs, budget
    <3> QED
      BY AssessIs
  <2>2. DOMAIN needs = known /\ \A r \in known : needs[r] = WithMargin(peak[r])
    OBVIOUS
  <2> HIDE DEF needs, budget, known, usable
  <2> QED
    BY <1>9, <2>1, <2>2
<1> HIDE DEF row, p, budget, assessed, usable
<1>12. verdict = "estimated-fit" => known = resources /\ assessed = "estimated-fit"
  BY <1>11 DEF usable
<1>13. verdict = "does-not-fit" => assessed = "does-not-fit"
  BY <1>11
<1>14. verdict \in Verdict
  BY <1>11 DEF Verdict
<1> HIDE DEF verdict, known
<1>15. /\ budget["ram"] # Unknown => Divides(budget["ram"], MeasuredReserve.ram, SureRam)
       /\ budget["vram"] # Unknown => Divides(budget["vram"], MeasuredReserve.vram, SureVram(budget.gpu))
  BY <1>3 DEF BudgetHolds
<1> DEFINE ramOver == Exceeds(row, use("ram"), MeasuredReserve.ram, SureRam)
           vramOver == Exceeds(row, use("vram"), MeasuredReserve.vram, SureVram(budget.gpu))
<1>16. MemoryOverrun(row, {p}) <=> ramOver \/ vramOver
  BY <1>1, <1>2, <1>8, AloneOverruns
<1>17. /\ budget["ram"] # Unknown => (ramOver <=> ~(use("ram") <= budget["ram"]))
       /\ budget["vram"] # Unknown => (vramOver <=> ~(use("vram") <= budget["vram"]))
       /\ "vram" \notin resources => ~vramOver
  <2>1. ASSUME budget["ram"] # Unknown PROVE ramOver <=> ~(use("ram") <= budget["ram"])
    BY <1>1, <1>8, <1>15, <2>1, BudgetDecides
  <2>2. ASSUME budget["vram"] # Unknown PROVE vramOver <=> ~(use("vram") <= budget["vram"])
    BY <1>1, <1>8, <1>15, <2>2, BudgetDecides
  <2>3. "vram" \notin resources => ~vramOver
    BY <1>10, NothingExceeds
  <2> QED
    BY <2>1, <2>2, <2>3
<1> HIDE DEF ramOver, vramOver
<1>18. row.listed => ~MemoryOverrun(row, {p})
  BY <1>1, <1>4, <1>11, <1>12, <1>16, <1>17
<1>19. row.verdict = "does-not-fit" => MemoryOverrun(row, {p})
  BY <1>1, <1>4, <1>11, <1>13, <1>16, <1>17
<1>20. p.ram \in Nat /\ p.vram \in Nat /\ IsReserve(row.reserve) /\ row.share \in {1, 2}
       /\ row.verdict \in Verdict
  BY <1>1, <1>2, <1>8, <1>14, Reserves
<1>21. RowIsJust(row)
  BY <1>1, <1>2, <1>18, <1>19, <1>20, OnePart
<1> QED
  BY <1>21 DEF row

\* What one phase needs, against what its models use: the largest of them alone,
\* or those that are served together.
LEMMA CombinedIs ==
    ASSUME NEW f, Weighs(f, DOMAIN f), DOMAIN f # {}, NEW phase, NEW co
    PROVE  /\ Combined(phase, co, f) \in Nat
           /\ \A x \in DOMAIN f : f[x] <= Combined(phase, co, f)
           /\ IF phase = "infer" /\ co THEN Combined(phase, co, f) = Total(f)
              ELSE \E x \in DOMAIN f : Combined(phase, co, f) = f[x]
<1>1. CASE phase = "infer" /\ co
  <2>1. Combined(phase, co, f) = Total(f) /\ Total(f) = Sum(f, DOMAIN f)
    BY <1>1, TotalIsSum DEF Combined
  <2>2. ASSUME NEW x \in DOMAIN f PROVE f[x] <= Sum(f, DOMAIN f)
    <3>1. Sum(f, DOMAIN f) = f[x] + Sum(f, DOMAIN f \ {x}) /\ Sum(f, DOMAIN f \ {x}) \in Nat
      BY SumWithout
    <3>2. f[x] \in Nat
      BY DEF Weighs
    <3> QED
      BY <3>1, <3>2
  <2>3. Sum(f, DOMAIN f) \in Nat
    BY SumWithout
  <2> QED
    BY <1>1, <2>1, <2>2, <2>3
<1>2. CASE ~(phase = "infer" /\ co)
  <2>1. Combined(phase, co, f) = Max(Range(f))
    BY <1>2 DEF Combined
  <2> QED
    BY <1>2, <2>1, MaxIs
<1> QED
  BY <1>1, <1>2

\* The models of a phase have its budget.
PhaseOf(S, phase, budget) ==
    /\ IsFiniteSet(S) /\ S # {}
    /\ \A q \in S : /\ q.phase = phase /\ q.gpu = budget.gpu /\ q.ram \in Nat /\ q.vram \in Nat
                    /\ budget.backend # "cuda" => q.vram = 0

\* The two needs of memory, for one resource: what decides alone and together.
LEMMA NeedDecides ==
    ASSUME NEW S, NEW use, Weighs(use, S), S # {}, DOMAIN use = S, NEW phase, NEW co \in BOOLEAN,
           NEW row, row.share = 1, NEW left, NEW reserve, NEW sure, Divides(left, reserve, sure)
    PROVE  LET need == Combined(phase, co, use)
           IN  /\ need \in Nat
               /\ need <= left => /\ \A q \in S : ~Exceeds(row, use[q], reserve, sure)
                                  /\ phase = "infer" /\ co => Total(use) <= left
               /\ ~(need <= left) =>
                    \/ \E q \in S : Exceeds(row, use[q], reserve, sure)
                    \/ phase = "infer" /\ co /\ Exceeds(row, Total(use), reserve, sure)
<1> DEFINE need == Combined(phase, co, use)
<1>1. /\ need \in Nat /\ \A x \in S : use[x] <= need
      /\ IF phase = "infer" /\ co THEN need = Total(use) ELSE \E x \in S : need = use[x]
  BY CombinedIs
<1>2. left \in Nat /\ \A x \in S : use[x] \in Nat
  BY DEF Divides, Weighs
<1> HIDE DEF need
<1>3. \A n \in Nat : Exceeds(row, n, reserve, sure) <=> ~(n <= left)
  BY BudgetDecides
<1>4. need <= left => \A q \in S : use[q] <= left
  BY <1>1, <1>2
<1>5. need <= left => \A q \in S : ~Exceeds(row, use[q], reserve, sure)
  BY <1>2, <1>3, <1>4
<1>6. need <= left /\ phase = "infer" /\ co => Total(use) <= left
  BY <1>1
<1>7. ASSUME ~(need <= left)
      PROVE  \/ \E q \in S : Exceeds(row, use[q], reserve, sure)
             \/ phase = "infer" /\ co /\ Exceeds(row, Total(use), reserve, sure)
  <2>1. Exceeds(row, need, reserve, sure)
    BY <1>1, <1>3, <1>7
  <2> QED
    BY <1>1, <2>1
<1> QED
  BY <1>1, <1>5, <1>6, <1>7 DEF need

\* Nothing adds up to nothing.
LEMMA NothingSums ==
    ASSUME NEW S, IsFiniteSet(S)
    PROVE  Sum([q \in S |-> 0], S) = 0
<1> DEFINE w == [q \in S |-> 0]
           T == {n \in Nat : \A s \in SUBSET S : Cardinality(s) = n => Sum(w, s) = 0}
<1>1. \A s \in SUBSET S : /\ IsFiniteSet(s) /\ Cardinality(s) \in Nat
                          /\ s # {} => /\ Picked(s) \in s
                                       /\ s \ {Picked(s)} \in SUBSET S
                                       /\ Cardinality(s \ {Picked(s)}) = Cardinality(s) - 1
                          /\ s = {} <=> Cardinality(s) = 0
  BY RoundSmaller
<1>2. \A s \in SUBSET S : /\ s = {} => Sum(w, s) = 0
                          /\ s # {} => Sum(w, s) = w[Picked(s)] + Sum(w, s \ {Picked(s)})
  <2> HIDE DEF w
  <2> QED
    BY <1>1, SumRound
<1>3. 0 \in T
  <2> HIDE DEF w
  <2> QED
    BY <1>1, <1>2
<1>4. ASSUME NEW n \in T PROVE n + 1 \in T
  <2>1. ASSUME NEW s \in SUBSET S, Cardinality(s) = n + 1 PROVE Sum(w, s) = 0
    <3>1. s # {} /\ w[Picked(s)] = 0
      BY <1>1, <2>1
    <3> HIDE DEF w
    <3>2. Sum(w, s \ {Picked(s)}) = 0
      BY <1>1, <2>1, <3>1
    <3> QED
      BY <1>2, <3>1, <3>2
  <2> HIDE DEF w
  <2> QED
    BY <2>1
<1>5. T = Nat
  <2> HIDE DEF T
  <2> QED
    BY <1>3, <1>4, NumberInduction DEF T
<1> HIDE DEF w
<1> QED
  BY <1>1, <1>5 DEF w

\* What the models of a phase use, one by one and together.
LEMMA PhaseUse ==
    ASSUME NEW S, NEW phase, NEW budget, PhaseOf(S, phase, budget)
    PROVE  LET ram == [q \in S |-> q.ram]
               vram == [q \in S |-> q.vram]
           IN  /\ Weighs(ram, S) /\ Weighs(vram, S) /\ Ram(S) = Total(ram) /\ Vram(S) = Total(vram)
               /\ \A q \in S : ram[q] = q.ram /\ vram[q] = q.vram
               /\ \A q \in S, P \in SUBSET S : q \in P => Beside(P, q) = P
               /\ \A P \in SUBSET S : /\ Ram(P) \in Nat /\ Ram(P) <= Ram(S) /\ Ram(S) \in Nat
                                      /\ Vram(P) \in Nat /\ Vram(P) <= Vram(S) /\ Vram(S) \in Nat
               /\ budget.backend # "cuda" => \A P \in SUBSET S : Vram(P) = 0
<1> DEFINE ram == [q \in S |-> q.ram]
           vram == [q \in S |-> q.vram]
<1>1. Weighs(ram, S) /\ Weighs(vram, S)
  BY DEF PhaseOf, Weighs
<1>2. Ram(S) = Total(ram) /\ Vram(S) = Total(vram)
  BY DEF Ram, Vram
<1>3. \A q \in S, P \in SUBSET S : q \in P => Beside(P, q) = P
  BY DEF PhaseOf, Beside
<1>4. \A P \in SUBSET S : /\ Ram(P) \in Nat /\ Ram(P) <= Ram(S)
                          /\ Vram(P) \in Nat /\ Vram(P) <= Vram(S)
  BY PartsWeigh DEF PhaseOf
<1>5. S \in SUBSET S
  OBVIOUS
<1>6. ASSUME budget.backend # "cuda", NEW P \in SUBSET S PROVE Vram(P) = 0
  <2>1. Vram(S) = Sum(vram, S)
    BY <1>2, TotalIsSum
  <2>2. \A q \in S : vram[q] = 0
    BY <1>6 DEF PhaseOf
  <2>3. Vram(S) = 0
    <3> DEFINE none == [q \in S |-> 0]
    <3>1. Sum(vram, S) = Sum(none, S) /\ IsFiniteSet(S)
      <4>1. IsFiniteSet(S) /\ \A q \in S : vram[q] = none[q]
        BY <2>2 DEF PhaseOf
      <4> HIDE DEF vram, none
      <4> QED
        BY <4>1, SumSame
    <3>2. Sum(none, S) = 0
      BY <3>1, NothingSums
    <3> QED
      BY <2>1, <3>1, <3>2
  <2> QED
    BY <1>4, <2>3
<1> QED
  BY <1>1, <1>2, <1>3, <1>4, <1>5, <1>6

\* A phase that fits has enough for each of its models, and for all of them
\* where they are served together; one that does not has too little for either,
\* or for the disk.
LEMMA PhaseIsJust ==
    ASSUME host \in Hosts, NEW S, NEW phase, NEW co \in BOOLEAN, NEW budget, NEW space \in Nat, NEW row,
           row.share = 1, IsReserve(row.reserve), BudgetHolds(budget, row.reserve),
           PhaseOf(S, phase, budget)
    PROVE  LET status == Assess(DocumentNeeds(S, phase, co, space, budget), budget)
               over == Exceeds(row, space, row.reserve.disk, Sure(host.disk))
           IN  /\ status \in {"estimated-fit", "does-not-fit", "unknown"}
               /\ status = "estimated-fit" =>
                    /\ \A q \in S : ~MemoryOverrun(row, {q})
                    /\ phase = "infer" /\ co => \A P \in SUBSET S : ~MemoryOverrun(row, P)
                    /\ ~over
               /\ status = "does-not-fit" =>
                    \/ \E q \in S : MemoryOverrun(row, {q})
                    \/ phase = "infer" /\ co /\ MemoryOverrun(row, S)
                    \/ over
<1> DEFINE ram == [q \in S |-> q.ram]
           vram == [q \in S |-> q.vram]
           ramNeed == Combined(phase, co, ram)
           vramNeed == Combined(phase, co, vram)
           needs == DocumentNeeds(S, phase, co, space, budget)
           status == Assess(needs, budget)
           over == Exceeds(row, space, row.reserve.disk, Sure(host.disk))
           together == phase = "infer" /\ co
           cuda == budget.backend = "cuda"
<1>1. /\ Weighs(ram, S) /\ Weighs(vram, S) /\ Ram(S) = Total(ram) /\ Vram(S) = Total(vram)
      /\ \A q \in S : ram[q] = q.ram /\ vram[q] = q.vram
      /\ \A q \in S, P \in SUBSET S : q \in P => Beside(P, q) = P
      /\ \A P \in SUBSET S : /\ Ram(P) \in Nat /\ Ram(P) <= Ram(S) /\ Ram(S) \in Nat
                             /\ Vram(P) \in Nat /\ Vram(P) <= Vram(S) /\ Vram(S) \in Nat
      /\ ~cuda => \A P \in SUBSET S : Vram(P) = 0
  BY PhaseUse
<1>2. /\ DOMAIN needs = IF cuda THEN {"ram", "disk", "vram"} ELSE {"ram", "disk"}
      /\ needs["ram"] = ramNeed /\ needs["disk"] = space
      /\ cuda => needs["vram"] = vramNeed
  BY DEF DocumentNeeds
<1>3. /\ status \in {"estimated-fit", "does-not-fit", "unknown"}
      /\ status = "estimated-fit" =>
           \A r \in DOMAIN needs : budget[r] # Unknown /\ needs[r] <= budget[r]
      /\ status = "does-not-fit" =>
           \E r \in DOMAIN needs : budget[r] # Unknown /\ ~(needs[r] <= budget[r])
  <2> HIDE DEF needs
  <2> QED
    BY AssessIs
<1>4. /\ budget["ram"] # Unknown => Divides(budget["ram"], row.reserve.ram, SureRam)
      /\ budget["disk"] # Unknown => Divides(budget["disk"], row.reserve.disk, Sure(host.disk))
      /\ budget["vram"] # Unknown => Divides(budget["vram"], row.reserve.vram, SureVram(budget.gpu))
  BY DEF BudgetHolds
<1>5. /\ DOMAIN ram = S /\ DOMAIN vram = S /\ S # {}
      /\ \A q \in S : q.gpu = budget.gpu /\ q.ram \in Nat /\ q.vram \in Nat
      /\ ~cuda => \A q \in S : q.vram = 0
  BY DEF PhaseOf
<1> HIDE DEF ram, vram
<1> DEFINE ramOver(n) == Exceeds(row, n, row.reserve.ram, SureRam)
           vramOver(n) == Exceeds(row, n, row.reserve.vram, SureVram(budget.gpu))
<1>6. ASSUME budget["ram"] # Unknown
      PROVE  /\ budget["ram"] \in Nat
             /\ \A n \in Nat : ramOver(n) <=> ~(n <= budget["ram"])
             /\ ramNeed <= budget["ram"] => /\ \A q \in S : ~ramOver(ram[q])
                                            /\ together => Total(ram) <= budget["ram"]
             /\ ~(ramNeed <= budget["ram"]) => (\E q \in S : ramOver(ram[q])) \/ (together /\ ramOver(Total(ram)))
  <2>1. PICK left : left = budget["ram"] /\ Divides(left, row.reserve.ram, SureRam)
    BY <1>4, <1>6
  <2>2. left \in Nat
    BY <2>1 DEF Divides
  <2>3. \A n \in Nat : ramOver(n) <=> ~(n <= left)
    BY <2>1, BudgetDecides
  <2>4. /\ ramNeed <= left => /\ \A q \in S : ~ramOver(ram[q])
                              /\ together => Total(ram) <= left
        /\ ~(ramNeed <= left) => (\E q \in S : ramOver(ram[q])) \/ (together /\ ramOver(Total(ram)))
    BY <1>1, <1>5, <2>1, NeedDecides
  <2> QED
    BY <2>1, <2>2, <2>3, <2>4
<1>7. ASSUME budget["vram"] # Unknown
      PROVE  /\ budget["vram"] \in Nat
             /\ \A n \in Nat : vramOver(n) <=> ~(n <= budget["vram"])
             /\ vramNeed <= budget["vram"] => /\ \A q \in S : ~vramOver(vram[q])
                                              /\ together => Total(vram) <= budget["vram"]
             /\ ~(vramNeed <= budget["vram"]) => (\E q \in S : vramOver(vram[q])) \/ (together /\ vramOver(Total(vram)))
  <2>1. PICK left : left = budget["vram"] /\ Divides(left, row.reserve.vram, SureVram(budget.gpu))
    BY <1>4, <1>7
  <2>2. left \in Nat
    BY <2>1 DEF Divides
  <2>3. \A n \in Nat : vramOver(n) <=> ~(n <= left)
    BY <2>1, BudgetDecides
  <2>4. /\ vramNeed <= left => /\ \A q \in S : ~vramOver(vram[q])
                               /\ together => Total(vram) <= left
        /\ ~(vramNeed <= left) => (\E q \in S : vramOver(vram[q])) \/ (together /\ vramOver(Total(vram)))
    BY <1>1, <1>5, <2>1, NeedDecides
  <2> QED
    BY <2>1, <2>2, <2>3, <2>4
<1>8. budget["disk"] # Unknown => (over <=> ~(space <= budget["disk"]))
  BY <1>4, BudgetDecides
<1>9. ~vramOver(0)
  BY NothingExceeds
<1> HIDE DEF ramOver, vramOver, over, ramNeed, vramNeed, needs, status, cuda
<1>10. \A q \in S : MemoryOverrun(row, {q}) <=> ramOver(q.ram) \/ vramOver(q.vram)
  BY <1>5, AloneOverruns DEF ramOver, vramOver
<1>11. ASSUME NEW P \in SUBSET S, MemoryOverrun(row, P) PROVE ramOver(Ram(P)) \/ vramOver(Vram(P))
  BY <1>1, <1>5, <1>11, OverrunIs DEF ramOver, vramOver
<1>12. ramOver(Ram(S)) \/ vramOver(Vram(S)) => MemoryOverrun(row, S)
  <2>1. ASSUME vramOver(Vram(S)) PROVE MemoryOverrun(row, S)
    <3>1. PICK q \in S : TRUE
      BY <1>5
    <3>2. Beside(S, q) = S /\ q.gpu = budget.gpu
      BY <1>1, <1>5
    <3> QED
      BY <2>1, <3>2, OverrunIs DEF vramOver
  <2>2. ASSUME ramOver(Ram(S)) PROVE MemoryOverrun(row, S)
    BY <2>2, OverrunIs DEF ramOver
  <2> QED
    BY <2>1, <2>2
<1>13. ASSUME status = "estimated-fit"
       PROVE  /\ \A q \in S : ~MemoryOverrun(row, {q})
              /\ together => \A P \in SUBSET S : ~MemoryOverrun(row, P)
              /\ ~over
  <2> DEFINE fits(r) == budget[r] # Unknown /\ needs[r] <= budget[r]
  <2>1. \A r \in DOMAIN needs : fits(r)
    BY <1>3, <1>13
  <2>2. "ram" \in DOMAIN needs /\ "disk" \in DOMAIN needs /\ (cuda => "vram" \in DOMAIN needs)
    BY <1>2
  <2> HIDE DEF fits
  <2>3. fits("ram") /\ fits("disk") /\ (cuda => fits("vram"))
    BY <2>1, <2>2
  <2>4. budget["ram"] # Unknown /\ ramNeed <= budget["ram"]
    BY <1>2, <2>3 DEF fits
  <2>5. budget["disk"] # Unknown /\ space <= budget["disk"]
    BY <1>2, <2>3 DEF fits
  <2>6. cuda => budget["vram"] # Unknown /\ vramNeed <= budget["vram"]
    BY <1>2, <2>3 DEF fits
  <2>7. \A q \in S : ~ramOver(q.ram)
    BY <1>1, <1>6, <2>4
  <2>8. \A q \in S : ~vramOver(q.vram)
    BY <1>1, <1>5, <1>7, <1>9, <2>6
  <2>9. ASSUME together, NEW P \in SUBSET S PROVE ~ramOver(Ram(P)) /\ ~vramOver(Vram(P))
    <3>1. ~ramOver(Ram(P))
      <4>1. Ram(P) \in Nat /\ Ram(P) <= Total(ram) /\ Total(ram) \in Nat
        BY <1>1
      <4>2. Total(ram) <= budget["ram"] /\ budget["ram"] \in Nat
        BY <1>6, <2>4, <2>9
      <4>3. Ram(P) <= budget["ram"]
        BY <4>1, <4>2
      <4> QED
        BY <1>6, <2>4, <4>1, <4>3
    <3>2. CASE cuda
      <4>1. Vram(P) \in Nat /\ Vram(P) <= Total(vram) /\ Total(vram) \in Nat
        BY <1>1
      <4>2. Total(vram) <= budget["vram"] /\ budget["vram"] \in Nat
        BY <1>7, <2>6, <2>9, <3>2
      <4>3. Vram(P) <= budget["vram"]
        BY <4>1, <4>2
      <4> QED
        BY <1>7, <2>6, <3>1, <3>2, <4>1, <4>3
    <3>3. CASE ~cuda
      BY <1>1, <1>9, <3>1, <3>3
    <3> QED
      BY <3>2, <3>3
  <2> QED
    BY <1>8, <1>10, <1>11, <2>5, <2>7, <2>8, <2>9
<1>14. ASSUME status = "does-not-fit"
       PROVE  \/ \E q \in S : MemoryOverrun(row, {q})
              \/ together /\ MemoryOverrun(row, S)
              \/ over
  <2>1. \/ budget["ram"] # Unknown /\ ~(ramNeed <= budget["ram"])
        \/ budget["disk"] # Unknown /\ ~(space <= budget["disk"])
        \/ cuda /\ budget["vram"] # Unknown /\ ~(vramNeed <= budget["vram"])
    <3> DEFINE lacks(r) == budget[r] # Unknown /\ ~(needs[r] <= budget[r])
    <3>1. PICK r \in DOMAIN needs : lacks(r)
      BY <1>3, <1>14
    <3>2. r = "ram" \/ r = "disk" \/ (cuda /\ r = "vram")
      BY <1>2
    <3> HIDE DEF lacks
    <3>3. lacks("ram") \/ lacks("disk") \/ (cuda /\ lacks("vram"))
      BY <3>1, <3>2
    <3> QED
      BY <1>2, <3>3 DEF lacks
  <2>2. CASE budget["ram"] # Unknown /\ ~(ramNeed <= budget["ram"])
    BY <1>1, <1>6, <1>10, <1>12, <2>2
  <2>3. CASE budget["disk"] # Unknown /\ ~(space <= budget["disk"])
    BY <1>8, <2>3
  <2>4. CASE budget["vram"] # Unknown /\ ~(vramNeed <= budget["vram"])
    BY <1>1, <1>7, <1>10, <1>12, <2>4
  <2> QED
    BY <2>1, <2>2, <2>3, <2>4
<1> QED
  BY <1>3, <1>13, <1>14 DEF status, over, needs

\* What is estimated of a model is a number, and without a device it takes no
\* video memory.
LEMMA EstimatesAre ==
    ASSUME NEW t \in Task, NEW phase \in {"train", "infer"}, NEW backend
    PROVE  /\ EstimatedRam(t, phase, backend) \in Nat /\ EstimatedVram(t, phase, backend) \in Nat
           /\ EstimatedDisk(t) \in Nat
           /\ backend # "cuda" => EstimatedVram(t, phase, backend) = 0
<1>1. Size[t] \in Sizes
  BY SizerAssumption
<1>2. /\ Size[t][phase] \in Nat /\ Size[t].bytes \in Nat /\ Size[t].adapter \in Nat
      /\ Size[t].staging \in Nat
  BY <1>1 DEF Sizes
<1> QED
  BY <1>2 DEF EstimatedRam, EstimatedVram, EstimatedDisk

\* The tasks of a workload are finitely many.
LEMMA TasksAreFew == ASSUME NEW tasks \in SUBSET Task PROVE IsFiniteSet(tasks)
<1>1. IsFiniteSet({"answer"}) /\ IsFiniteSet({"rank"})
  BY FS_Singleton
<1>2. IsFiniteSet({"answer"} \cup {"rank"}) /\ Task = {"answer"} \cup {"rank"}
  BY <1>1, FS_Union DEF Task
<1> QED
  BY <1>2, FS_Subset

\* The verdict on document models is just: of a phase that is trained it speaks
\* of each model, of one that is served together of all of them, and of disk for
\* all tasks.
LEMMA DocumentIsJust ==
    ASSUME host \in Hosts, snapshot = Observed(host),
           NEW tasks \in SUBSET Task, tasks # {},
           NEW phases \in SUBSET {"train", "infer"}, phases # {},
           NEW backend, NEW gpu, NEW co \in BOOLEAN, NEW documents \in Nat, NEW refused \in BOOLEAN
    PROVE  RowIsJust(DocumentRow(tasks, phases, backend, gpu, co, documents, refused))
<1> DEFINE row == DocumentRow(tasks, phases, backend, gpu, co, documents, refused)
           b(p) == Budgets(backend[p], gpu, Reserve)
           sel(p) == {DocumentPart(t, p, b(p)) : t \in tasks}
           space == [t \in tasks |-> EstimatedDisk(t)]
           need == Total(space) + 4 * documents
           status(p) == Assess(DocumentNeeds(sel(p), p, co, need, b(p)), b(p))
           checks == {status(p) : p \in phases}
<1>1. /\ row.verdict = IF refused THEN "unknown" ELSE Worst(checks)
      /\ row.listed <=> row.verdict = "estimated-fit"
      /\ row.parts = UNION {sel(p) : p \in phases} /\ row.co = co
      /\ row.disk = space /\ row.documents = 4 * documents /\ row.reserve = Reserve /\ row.share = 1
  BY DEF DocumentRow, Row
<1> HIDE DEF row
<1>2. \A p : BudgetHolds(b(p), Reserve)
  BY BudgetsHold, Reserves
<1> HIDE DEF b
<1>3. ASSUME NEW p \in {"train", "infer"} PROVE PhaseOf(sel(p), p, b(p))
  <2> DEFINE f == [t \in tasks |-> DocumentPart(t, p, b(p))]
  <2>1. IsFiniteSet(tasks)
    BY TasksAreFew
  <2>2. sel(p) = {f[t] : t \in tasks}
    OBVIOUS
  <2>3. IsFiniteSet(sel(p))
    <3>1. f \in Surjection(tasks, sel(p))
      BY <2>2 DEF Surjection
    <3> QED
      BY <2>1, <3>1, FS_Surjection
  <2>4. ASSUME NEW q \in sel(p)
        PROVE  /\ q.phase = p /\ q.gpu = b(p).gpu /\ q.ram \in Nat /\ q.vram \in Nat
               /\ b(p).backend # "cuda" => q.vram = 0
    <3>1. PICK t \in tasks : q = DocumentPart(t, p, b(p))
      OBVIOUS
    <3> QED
      BY <3>1, EstimatesAre DEF DocumentPart, Part
  <2>5. sel(p) # {}
    OBVIOUS
  <2> QED
    BY <2>2, <2>3, <2>4, <2>5 DEF PhaseOf
<1>4. ASSUME NEW p PROVE \A t \in tasks : DocumentPart(t, p, b(p)) \in sel(p) /\ DocumentPart(t, p, b(p)).task = t
  BY DEF DocumentPart, Part
<1>5. Weighs(space, tasks) /\ DOMAIN space = tasks
  <2>1. IsFiniteSet(tasks)
    BY TasksAreFew
  <2>2. \A t \in tasks : EstimatedDisk(t) \in Nat
    BY EstimatesAre
  <2> QED
    BY <2>1, <2>2 DEF Weighs
<1> HIDE DEF sel, space
<1>6. RowShape(row)
  <2>1. IsFiniteSet(row.parts)
    <3>1. IsFiniteSet(sel("train")) /\ IsFiniteSet(sel("infer"))
      BY <1>3 DEF PhaseOf
    <3>2. IsFiniteSet(sel("train") \cup sel("infer"))
      BY <3>1, FS_Union
    <3>3. row.parts \subseteq sel("train") \cup sel("infer")
      BY <1>1
    <3> QED
      BY <3>2, <3>3, FS_Subset
  <2>2. row.parts # {}
    <3>1. PICK p \in phases : sel(p) # {}
      BY <1>3 DEF PhaseOf
    <3> QED
      BY <1>1, <3>1
  <2>3. \A q \in row.parts : q.ram \in Nat /\ q.vram \in Nat /\ q.phase \in {"train", "infer"}
    BY <1>1, <1>3 DEF PhaseOf
  <2>4. 4 * documents \in Nat
    OBVIOUS
  <2>5. row.co \in BOOLEAN
    BY <1>1
  <2> QED
    BY <1>1, <1>5, <2>1, <2>2, <2>3, <2>4, <2>5, Reserves DEF RowShape
<1>7. AllDisk(row) = need /\ need \in Nat /\ Started(row, row.parts) = DOMAIN row.disk
  <2>1. Total(space) = Sum(space, tasks) /\ Sum(space, tasks) \in Nat
    BY <1>5, TotalIsSum, SumWithout
  <2>2. AllDisk(row) = 4 * documents + Sum(space, tasks)
    BY <1>1, <1>5 DEF AllDisk
  <2>3. PICK p \in phases : TRUE
    OBVIOUS
  <2>4. ASSUME NEW t \in tasks PROVE \E q \in row.parts : q.task = t
    <3>1. DocumentPart(t, p, b(p)) \in sel(p) /\ DocumentPart(t, p, b(p)).task = t
      BY <1>4
    <3>2. sel(p) \subseteq row.parts
      BY <1>1
    <3> QED
      BY <3>1, <3>2
  <2>5. Started(row, row.parts) = DOMAIN row.disk
    BY <1>1, <1>5, <2>4 DEF Started
  <2> QED
    BY <2>1, <2>2, <2>5
<1> HIDE DEF need
<1> DEFINE over == Exceeds(row, need, row.reserve.disk, Sure(host.disk))
           phaseFits(p) == /\ \A q \in sel(p) : ~MemoryOverrun(row, {q})
                           /\ p = "infer" /\ co => \A P \in SUBSET sel(p) : ~MemoryOverrun(row, P)
                           /\ ~over
           phaseLacks(p) == \/ \E q \in sel(p) : MemoryOverrun(row, {q})
                            \/ p = "infer" /\ co /\ MemoryOverrun(row, sel(p))
                            \/ over
<1>8. ASSUME NEW p \in phases
      PROVE  /\ status(p) \in {"estimated-fit", "does-not-fit", "unknown"}
             /\ status(p) = "estimated-fit" => phaseFits(p)
             /\ status(p) = "does-not-fit" => phaseLacks(p)
  <2>1. PICK S : S = sel(p)
    OBVIOUS
  <2>2. PICK budget : budget = b(p)
    OBVIOUS
  <2>3. PhaseOf(S, p, budget)
    BY <1>3, <2>1, <2>2
  <2>4. BudgetHolds(budget, row.reserve) /\ IsReserve(row.reserve) /\ row.share = 1
    BY <1>1, <1>2, <2>2, Reserves
  <2> DEFINE result == Assess(DocumentNeeds(S, p, co, need, budget), budget)
  <2>5. need \in Nat
    BY <1>7
  <2>6. /\ result \in {"estimated-fit", "does-not-fit", "unknown"}
        /\ result = "estimated-fit" =>
             /\ \A q \in S : ~MemoryOverrun(row, {q})
             /\ p = "infer" /\ co => \A P \in SUBSET S : ~MemoryOverrun(row, P)
             /\ ~over
        /\ result = "does-not-fit" =>
             \/ \E q \in S : MemoryOverrun(row, {q})
             \/ p = "infer" /\ co /\ MemoryOverrun(row, S)
             \/ over
    BY <2>3, <2>4, <2>5, PhaseIsJust
  <2>7. status(p) = result
    BY <2>1, <2>2
  <2> HIDE DEF status, result, over
  <2> QED
    BY <2>1, <2>6, <2>7
<1> HIDE DEF status
<1>9. Worst(checks) = "estimated-fit" => \A p \in phases : phaseFits(p)
  <2>1. checks \subseteq {"estimated-fit", "does-not-fit", "unknown"}
    BY <1>8
  <2>2. ASSUME Worst(checks) = "estimated-fit" PROVE \A p \in phases : status(p) = "estimated-fit"
    <3> HIDE DEF checks
    <3>1. checks \subseteq {"estimated-fit"}
      BY <2>1, <2>2, WorstIs
    <3> QED
      BY <3>1 DEF checks
  <2> HIDE DEF phaseFits
  <2> QED
    BY <1>8, <2>2
<1>10. Worst(checks) = "does-not-fit" => \E p \in phases : phaseLacks(p)
  <2>1. checks \subseteq {"estimated-fit", "does-not-fit", "unknown"}
    BY <1>8
  <2>2. ASSUME Worst(checks) = "does-not-fit" PROVE \E p \in phases : status(p) = "does-not-fit"
    <3> HIDE DEF checks
    <3>1. "does-not-fit" \in checks
      BY <2>1, <2>2, WorstIs
    <3> QED
      BY <3>1 DEF checks
  <2> HIDE DEF phaseLacks
  <2> QED
    BY <1>8, <2>2
<1>11. Worst(checks) \in {"estimated-fit", "does-not-fit", "unknown"}
  <2>1. checks \subseteq {"estimated-fit", "does-not-fit", "unknown"}
    BY <1>8
  <2> HIDE DEF checks
  <2> QED
    BY <2>1, WorstIs
<1> HIDE DEF checks
<1>12. row.verdict \in Verdict
  BY <1>1, <1>11 DEF Verdict
<1>13. Serving(row) = IF "infer" \in phases THEN sel("infer") ELSE {}
  BY <1>1, <1>3 DEF Serving, PhaseOf
<1>14. ASSUME row.listed PROVE Enough(row)
  <2>1. \A p \in phases : phaseFits(p)
    BY <1>1, <1>9, <1>14
  <2>2. ASSUME NEW q \in row.parts PROVE ~MemoryOverrun(row, {q})
    <3>1. PICK p \in phases : q \in sel(p)
      BY <1>1
    <3>2. phaseFits(p)
      BY <2>1
    <3> QED
      BY <3>1, <3>2
  <2>3. ASSUME row.co, NEW P \in SUBSET Serving(row) PROVE ~MemoryOverrun(row, P)
    <3>1. CASE "infer" \in phases
      BY <1>1, <1>13, <2>1, <2>3, <3>1
    <3>2. CASE "infer" \notin phases
      <4>1. P = {}
        BY <1>13, <3>2
      <4> QED
        BY <4>1, NoneOverrun
    <3> QED
      BY <3>1, <3>2
  <2>4. ~over
    BY <2>1
  <2> HIDE DEF over
  <2>5. ASSUME NEW P \in SUBSET row.parts, DiskOverrun(row, P) PROVE FALSE
    <3>1. /\ Exceeds(row, Disk(row, P), row.reserve.disk, Sure(host.disk))
          /\ Disk(row, P) \in Nat /\ Disk(row, P) <= need
      BY <1>6, <1>7, <2>5, DiskIs
    <3>2. row.reserve.disk \in Nat /\ Sure(host.disk) \in Nat /\ row.share \in {1, 2}
      BY <1>6, SureIsNumber DEF RowShape, IsReserve
    <3>3. over
      BY <1>7, <3>1, <3>2, ExceedsMore DEF over
    <3> QED
      BY <2>4, <3>3
  <2> QED
    BY <2>2, <2>3, <2>5 DEF Enough
<1>15. ASSUME row.verdict = "does-not-fit" PROVE Short(row)
  <2>1. PICK p \in phases : phaseLacks(p)
    BY <1>1, <1>10, <1>15
  <2>2. over => DiskOverrun(row, row.parts)
    BY <1>6, <1>7, DiskIs
  <2>3. p = "infer" => Serving(row) = sel(p) /\ sel(p) # {}
    BY <1>3, <1>13 DEF PhaseOf
  <2>4. sel(p) \subseteq row.parts
    BY <1>1
  <2> HIDE DEF over
  <2> QED
    BY <1>1, <2>1, <2>2, <2>3, <2>4 DEF Short
<1>16. RowIsJust(row)
  BY <1>6, <1>12, <1>14, <1>15 DEF RowIsJust
<1> QED
  BY <1>16 DEF row

----
(* The job. *)

\* What has run so far: nothing but one model, or models that are served
\* together, is in memory, and what a refusal rests on has been used once the
\* parts it speaks of have been there.
Ran(row) ==
    /\ loaded \cup done \subseteq row.parts
    /\ loaded = {} \/ (\E p \in row.parts : loaded = {p}) \/ (row.co /\ loaded \subseteq Serving(row))
    /\ row.listed => ~overran
    /\ \A p \in loaded \cup done : MemoryOverrun(row, {p}) => overran
    /\ row.co /\ done \cap Serving(row) # {} => Serving(row) \subseteq loaded \cup done
    /\ row.co /\ Serving(row) # {} /\ Serving(row) \subseteq loaded \cup done =>
         (MemoryOverrun(row, Serving(row)) => overran)
    /\ loaded \cup done = row.parts => (DiskOverrun(row, row.parts) => overran)

\* The inductive invariant: what is known of the host is true, a row was just
\* when it was made, and the job has used what its parts use.
JobInv ==
    /\ host \in Hosts /\ age \in {"fresh", "stale", "future"}
    /\ snapshot # Unknown => snapshot = Observed(host)
    /\ loaded \cap done = {} /\ overran \in BOOLEAN
    /\ report = Unknown => loaded = {} /\ done = {} /\ ~overran
    /\ \A row \in {report} \ {Unknown} : RowIsJust(row) /\ Ran(row)

\* What there is to use changes with the host and the age of the snapshot only.
LEMMA OverrunsKept ==
    ASSUME UNCHANGED <<host, age>>, NEW row, NEW P
    PROVE  /\ MemoryOverrun(row, P)' <=> MemoryOverrun(row, P)
           /\ DiskOverrun(row, P)' <=> DiskOverrun(row, P)
           /\ RowIsJust(row)' <=> RowIsJust(row)
<1>1. SureRam' = SureRam /\ Sure(host.disk)' = Sure(host.disk)
  BY DEF SureRam, Sure
<1>2. \A d : SureVram(d)' = SureVram(d)
  BY DEF SureVram, Sure
<1>3. ASSUME NEW S PROVE MemoryOverrun(row, S)' <=> MemoryOverrun(row, S)
  BY <1>1, <1>2 DEF MemoryOverrun, Exceeds
<1>4. ASSUME NEW S PROVE DiskOverrun(row, S)' <=> DiskOverrun(row, S)
  BY <1>1 DEF DiskOverrun, Exceeds
<1>5. RowIsJust(row)' <=> RowIsJust(row)
  BY <1>3, <1>4 DEF RowIsJust, Enough, Short
<1> QED
  BY <1>3, <1>4, <1>5

\* A recommendation is just for the host it was made on.
LEMMA RecommendationIsJust ==
    ASSUME host \in Hosts, snapshot = Observed(host), Recommend
    PROVE  RowIsJust(report')
<1> DEFINE recommended ==
             \E tasks \in (SUBSET Task) \ {{}}, phases \in (SUBSET {"train", "infer"}) \ {{}},
                serving \in {"auto", "cuda"}, gpu \in {Unknown, 1}, co, refused \in BOOLEAN,
                documents \in {0, 1} :
               LET backend == [train |-> IF serving = "auto" THEN "auto" ELSE "cpu", infer |-> serving]
               IN  report' = DocumentRow(tasks, phases, backend, gpu, co, documents, refused)
           measured ==
             \E kind \in {"voice", "runtime"}, backend \in Backends, scoped, matches, supported \in BOOLEAN,
                peak \in Peaks :
               report' = MeasuredRow(kind, backend, scoped, matches, peak, supported)
           chat == \E bytes \in ChatSizes, available \in BOOLEAN : report' = ChatRow(bytes, available)
<1>1. ASSUME NEW tasks \in (SUBSET Task) \ {{}}, NEW phases \in (SUBSET {"train", "infer"}) \ {{}},
             NEW backend, NEW gpu, NEW co \in BOOLEAN, NEW refused \in BOOLEAN, NEW documents \in {0, 1}
      PROVE  RowIsJust(DocumentRow(tasks, phases, backend, gpu, co, documents, refused))
  <2>1. tasks \in SUBSET Task /\ tasks # {} /\ phases \in SUBSET {"train", "infer"} /\ phases # {}
    OBVIOUS
  <2>2. documents \in Nat
    OBVIOUS
  <2> QED
    BY <2>1, <2>2, DocumentIsJust
<1>2. CASE recommended
  <2>1. PICK tasks \in (SUBSET Task) \ {{}}, phases \in (SUBSET {"train", "infer"}) \ {{}},
             serving \in {"auto", "cuda"}, gpu \in {Unknown, 1}, co \in BOOLEAN, refused \in BOOLEAN,
             documents \in {0, 1} :
            report' = DocumentRow(tasks, phases,
                        [train |-> IF serving = "auto" THEN "auto" ELSE "cpu", infer |-> serving],
                        gpu, co, documents, refused)
    BY <1>2
  <2>2. PICK backend : backend = [train |-> IF serving = "auto" THEN "auto" ELSE "cpu", infer |-> serving]
    OBVIOUS
  <2>3. report' = DocumentRow(tasks, phases, backend, gpu, co, documents, refused)
    BY <2>1, <2>2
  <2> QED
    BY <1>1, <2>3
<1>3. CASE measured
  BY <1>3, MeasuredIsJust
<1>4. CASE chat
  BY <1>4, ChatIsJust
<1>5. recommended \/ measured \/ chat
  BY ZenonT(30) DEF Recommend
<1> HIDE DEF recommended, measured, chat
<1> QED
  BY <1>2, <1>3, <1>4, <1>5

\* A recommendation speaks of a job that has not started.
LEMMA RecommendKeeps == ASSUME JobInv, Recommend PROVE JobInv'
<1>1. /\ snapshot = Observed(host) /\ host \in Hosts /\ report = Unknown
      /\ loaded = {} /\ done = {} /\ ~overran
      /\ UNCHANGED <<host, snapshot, age, loaded, done, overran>>
  BY DEF JobInv, Recommend
<1>2. RowIsJust(report')
  BY <1>1, RecommendationIsJust
<1>3. PICK row : row = report'
  OBVIOUS
<1>4. RowIsJust(row)'
  BY <1>1, <1>2, <1>3, OverrunsKept
<1>5. Ran(row)'
  <2>1. row.parts # {}
    BY <1>2, <1>3 DEF RowIsJust, RowShape
  <2> QED
    BY <1>1, <2>1 DEF Ran
<1> QED
  BY <1>1, <1>3, <1>4, <1>5 DEF JobInv

\* What is started is counted with all that is in memory beside it.
LEMMA StartKeeps == ASSUME JobInv, NEW p, Start(p) PROVE JobInv'
<1>1. PICK row : row = report
  OBVIOUS
<1>2. /\ RowIsJust(row) /\ Ran(row) /\ host \in Hosts /\ loaded \cap done = {} /\ overran \in BOOLEAN
      /\ row # Unknown /\ p \in row.parts \ (loaded \cup done)
      /\ UNCHANGED <<host, snapshot, age, report, done>>
      /\ loaded' = loaded \cup {p}
      /\ overran' = (overran \/ MemoryOverrun(row, loaded') \/ DiskOverrun(row, done \cup loaded'))
      /\ IF p.phase = "train" THEN loaded = {}
         ELSE /\ \A q \in row.parts \ done : q.phase = "infer"
              /\ loaded # {} => row.co
  BY <1>1 DEF JobInv, Start, Overruns
<1>3. PICK now : now = loaded'
  OBVIOUS
<1>4. RowShape(row) /\ (row.listed => Enough(row)) /\ row.co \in BOOLEAN
  BY <1>2 DEF RowIsJust, RowShape
<1>5. now \subseteq row.parts /\ now = loaded \cup {p} /\ p \in now /\ done \subseteq row.parts
  BY <1>2, <1>3 DEF Ran
<1>6. now = {p} \/ (row.co /\ now \subseteq Serving(row))
  <2>1. CASE loaded = {}
    BY <1>5, <2>1
  <2>2. CASE loaded # {}
    <3>1. row.co /\ \A q \in row.parts \ done : q.phase = "infer"
      BY <1>2, <2>2
    <3>2. now \subseteq row.parts \ done
      BY <1>2, <1>5
    <3> QED
      BY <3>1, <3>2 DEF Serving
  <2> QED
    BY <2>1, <2>2
<1>7. overran' <=> overran \/ MemoryOverrun(row, now) \/ DiskOverrun(row, done \cup now)
  BY <1>2, <1>3
<1>8. row.listed => ~overran'
  <2>1. ASSUME row.listed PROVE ~MemoryOverrun(row, now) /\ ~DiskOverrun(row, done \cup now) /\ ~overran
    <3>1. Enough(row)
      BY <1>4, <2>1
    <3>2. ~MemoryOverrun(row, now)
      BY <1>2, <1>6, <3>1 DEF Enough
    <3>3. ~DiskOverrun(row, done \cup now)
      BY <1>5, <3>1 DEF Enough
    <3> QED
      BY <1>2, <2>1, <3>2, <3>3 DEF Ran
  <2> QED
    BY <1>7, <2>1
<1>9. \A q \in now \cup done : MemoryOverrun(row, {q}) => overran'
  <2>1. ASSUME MemoryOverrun(row, {p}) PROVE MemoryOverrun(row, now)
    <3>1. {p} \in SUBSET now /\ now \in SUBSET row.parts
      BY <1>5
    <3> QED
      BY <1>2, <1>4, <2>1, <3>1, OverrunStays
  <2>2. \A q \in loaded \cup done : MemoryOverrun(row, {q}) => overran
    BY <1>2 DEF Ran
  <2> QED
    BY <1>5, <1>7, <2>1, <2>2
<1>10. row.co /\ done \cap Serving(row) # {} => Serving(row) \subseteq now \cup done
  BY <1>2, <1>5 DEF Ran
<1>11. ASSUME row.co, Serving(row) # {}, Serving(row) \subseteq now \cup done, MemoryOverrun(row, Serving(row))
       PROVE  overran'
  <2>1. CASE Serving(row) \subseteq loaded \cup done
    BY <1>2, <1>7, <1>11, <2>1 DEF Ran
  <2>2. CASE ~(Serving(row) \subseteq loaded \cup done)
    <3>1. done \cap Serving(row) = {}
      BY <1>2, <1>11, <2>2 DEF Ran
    <3>2. Serving(row) \in SUBSET now /\ now \in SUBSET row.parts
      BY <1>5, <1>11, <3>1
    <3>3. MemoryOverrun(row, now)
      BY <1>2, <1>4, <1>11, <3>2, OverrunStays
    <3> QED
      BY <1>7, <3>3
  <2> QED
    BY <2>1, <2>2
<1>12. now \cup done = row.parts => (DiskOverrun(row, row.parts) => overran')
  <2>1. done \cup now = now \cup done
    OBVIOUS
  <2> QED
    BY <1>7, <2>1
<1>13. \A P : /\ MemoryOverrun(row, P)' <=> MemoryOverrun(row, P)
              /\ DiskOverrun(row, P)' <=> DiskOverrun(row, P)
              /\ RowIsJust(row)' <=> RowIsJust(row)
  BY <1>2, OverrunsKept
<1>14. Ran(row)'
  <2>1. now \cup done \subseteq row.parts /\ p \in row.parts
    BY <1>2, <1>5
  <2> QED
    BY <1>2, <1>3, <1>6, <1>8, <1>9, <1>10, <1>11, <1>12, <1>13, <2>1 DEF Ran, Serving
<1>15. overran' \in BOOLEAN /\ loaded' \cap done' = {}
  BY <1>2
<1>16. RowIsJust(row)'
  BY <1>2, <1>13
<1> QED
  BY <1>1, <1>2, <1>14, <1>15, <1>16 DEF JobInv

\* What has run has been counted; of what is served together nothing leaves
\* before all of it was there.
LEMMA FinishKeeps == ASSUME JobInv, NEW p, Finish(p) PROVE JobInv'
<1>1. PICK row : row = report
  OBVIOUS
<1>2. report # Unknown
  BY DEF JobInv, Finish
<1>3. /\ RowIsJust(row) /\ Ran(row) /\ host \in Hosts /\ loaded \cap done = {} /\ overran \in BOOLEAN
      /\ row # Unknown /\ p \in loaded
      /\ row.co => \A q \in row.parts : q.phase = p.phase => q \in loaded \cup done \/ p.phase = "train"
      /\ UNCHANGED <<host, snapshot, age, report, overran>>
      /\ loaded' = loaded \ {p} /\ done' = done \cup {p}
  BY <1>1, <1>2 DEF JobInv, Finish
<1>4. loaded' \cup done' = loaded \cup done /\ loaded' \cap done' = {}
  BY <1>3
<1>5. loaded' = {} \/ (\E q \in row.parts : loaded' = {q}) \/ (row.co /\ loaded' \subseteq Serving(row))
  BY <1>3 DEF Ran
<1>6. ASSUME row.co, done' \cap Serving(row) # {} PROVE Serving(row) \subseteq loaded \cup done
  <2>1. CASE p.phase = "infer"
    BY <1>3, <1>6, <2>1 DEF Serving
  <2>2. CASE p.phase # "infer"
    BY <1>3, <1>6, <2>2 DEF Ran, Serving
  <2> QED
    BY <2>1, <2>2
<1>7. \A P : /\ MemoryOverrun(row, P)' <=> MemoryOverrun(row, P)
             /\ DiskOverrun(row, P)' <=> DiskOverrun(row, P)
             /\ RowIsJust(row)' <=> RowIsJust(row)
  BY <1>3, OverrunsKept
<1>8. Ran(row)'
  BY <1>3, <1>4, <1>5, <1>6, <1>7 DEF Ran, Serving
<1>9. RowIsJust(row)'
  BY <1>3, <1>7
<1> QED
  BY <1>1, <1>3, <1>4, <1>8, <1>9 DEF JobInv

\* Sitting still keeps what is known.
LEMMA StillKeeps == ASSUME JobInv, UNCHANGED sizerVars PROVE JobInv'
<1>1. UNCHANGED <<host, snapshot, age, report, loaded, done, overran>>
  BY DEF sizerVars
<1>2. ASSUME NEW row, RowIsJust(row), Ran(row) PROVE RowIsJust(row)' /\ Ran(row)'
  <2>1. \A P : /\ MemoryOverrun(row, P)' <=> MemoryOverrun(row, P)
               /\ DiskOverrun(row, P)' <=> DiskOverrun(row, P)
               /\ RowIsJust(row)' <=> RowIsJust(row)
    BY <1>1, OverrunsKept
  <2> QED
    BY <1>1, <1>2, <2>1 DEF Ran, Serving
<1> QED
  BY <1>1, <1>2 DEF JobInv

\* The invariant from which the verdict is just: what is known of the host is
\* true, a row was right of the host when it was made, and the job has used
\* what its parts use.
THEOREM JobInvariant == SizerSpec => []JobInv
<1>1. SizerInit => JobInv
  BY DEF SizerInit, JobInv
<1>2. JobInv /\ [SizerNext]_sizerVars => JobInv'
  <2> SUFFICES ASSUME JobInv, [SizerNext]_sizerVars PROVE JobInv'
    OBVIOUS
  <2>1. CASE Collect
    <3>1. /\ UNCHANGED <<host, age, report, loaded, done, overran>> /\ snapshot' = Observed(host)'
      BY <2>1 DEF Collect, Observed, Headroom, Limits
    <3>2. ASSUME NEW row, RowIsJust(row), Ran(row) PROVE RowIsJust(row)' /\ Ran(row)'
      <4>1. \A P : /\ MemoryOverrun(row, P)' <=> MemoryOverrun(row, P)
                   /\ DiskOverrun(row, P)' <=> DiskOverrun(row, P)
                   /\ RowIsJust(row)' <=> RowIsJust(row)
        BY <3>1, OverrunsKept
      <4> QED
        BY <3>1, <3>2, <4>1 DEF Ran, Serving
    <3> QED
      BY <3>1, <3>2 DEF JobInv
  <2>2. CASE Wait
    BY <2>2 DEF Wait, JobInv, Observed, Headroom, Limits
  <2>3. CASE Recommend
    BY <2>3, RecommendKeeps
  <2>4. ASSUME NEW p, Start(p) PROVE JobInv'
    BY <2>4, StartKeeps
  <2>5. ASSUME NEW p, Finish(p) PROVE JobInv'
    BY <2>5, FinishKeeps
  <2>6. CASE UNCHANGED sizerVars
    BY <2>6, StillKeeps
  <2> QED
    BY <2>1, <2>2, <2>3, <2>4, <2>5, <2>6 DEF SizerNext
<1> QED
  BY <1>1, <1>2, PTL DEF SizerSpec

\* The types of the sizer.
THEOREM SizerTypes == SizerSpec => []SizerTypeOK
<1>1. JobInv => SizerTypeOK
  BY DEF JobInv, SizerTypeOK, RowIsJust, Ran
<1> QED
  BY <1>1, JobInvariant, PTL

\* A verdict that takes a side is right: a job that was listed never uses more
\* than the host was sure to have left, and one that was said not to fit uses
\* more than that before it has run to its end.
THEOREM VerdictIsJustAlways == SizerSpec => []VerdictIsJust
<1>1. JobInv => FitIsEnough
  BY DEF JobInv, FitIsEnough, Ran
<1>2. JobInv => RefusalIsJustified
  <2> SUFFICES ASSUME JobInv, report # Unknown, report.verdict = "does-not-fit", done = report.parts
               PROVE  overran
    BY DEF RefusalIsJustified
  <2>1. PICK row : row = report
    OBVIOUS
  <2>2. RowShape(row) /\ Short(row) /\ Ran(row) /\ loaded \cup done = row.parts
    BY <2>1 DEF JobInv, RowIsJust, Ran
  <2>3. Serving(row) \subseteq loaded \cup done
    BY <2>2 DEF Serving
  <2> QED
    BY <2>2, <2>3 DEF Short, Ran
<1> QED
  BY <1>1, <1>2, JobInvariant, PTL DEF VerdictIsJust
----
\* The tools together: a step of one is a step of its own module, and the
\* others rest.
LEMMA ToolsAreSeparate ==
    Spec => /\ CacheSpec /\ ProbeSpec /\ HardwareSpec
            /\ IntakeSpec /\ InputsSpec /\ SizerSpec
<1>1. Init => /\ CacheInit /\ ProbeInit /\ HardwareInit
              /\ IntakeInit /\ InputsInit /\ SizerInit
  BY DEF Init
<1>2. [Next]_vars => /\ [CacheNext]_cacheVars /\ [ProbeNext]_probeVars
                     /\ [HardwareNext]_hardwareVars /\ [IntakeNext]_intakeVars
                     /\ [InputsNext]_inputVars /\ [SizerNext]_sizerVars
  BY DEF Next, vars
<1> QED
  BY <1>1, <1>2, PTL DEF Spec, CacheSpec, ProbeSpec, HardwareSpec, IntakeSpec, InputsSpec,
                         SizerSpec

\* Type correctness of all host tools, whichever of them is at work.
THEOREM HostToolTypes == Spec => []TypeOK
<1> QED
  BY ToolsAreSeparate, CacheTypeCorrect, ProbeTypes, HardwareTypes, IntakeTypeCorrect,
     InputsTypes, SizerTypes, PTL DEF TypeOK
====
