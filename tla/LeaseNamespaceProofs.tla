---- MODULE LeaseNamespaceProofs ----
(***************************************************************************)
(* Theorems about LeaseNamespace for every set of processes and inodes.    *)
(***************************************************************************)
EXTENDS LeaseNamespace, TLAPS

\* The steps before the identity is recorded.
Creating == {"create", "adopt", "record"} \cup Building

----
\* The inductive invariant, in parts.

\* Beyond the wait a process has the lock, and the anchor exists.
LockIsHeld ==
    \A p \in Proc :
        /\ pc[p] # "idle" => anchor # "absent"
        /\ pc[p] \notin {"idle", "wait"} => lock = p

\* The anchor is empty for as long as its creation goes on, and only then.
EmptyWhileCreating ==
    \A p \in Proc :
        /\ pc[p] \in Creating => anchor = "empty"
        /\ pc[p] \in {"read", "validate", "inside"} => Recorded

\* What the builder has made so far is what it has open.
BuildIsOwn ==
    \A p \in Proc :
        /\ pc[p] \in Building => leaf = None
        /\ pc[p] \in {"lockfile", "next", "replace", "rename"} =>
               /\ build # None
               /\ build.inode = dir[p]
               /\ ~build.used /\ build.made
        /\ pc[p] = "rename" => build.names = NAMESPACE_ENTRIES
        /\ pc[p] = "adopt" => leaf # None
        /\ pc[p] = "record" => leaf # None /\ Fresh(leaf) /\ leaf.inode = dir[p]
        /\ pc[p] = "inside" => dir[p] = anchor
        /\ pc[p] = "validate" /\ leaf # None /\ leaf.made => dir[p] = anchor

\* A directory in place is somebody else's, or the one recorded.
LeafIsRecorded == leaf # None /\ leaf.made /\ Recorded => leaf.inode = anchor

NamespaceInv ==
    /\ TypeOK
    /\ LockIsHeld
    /\ EmptyWhileCreating
    /\ BuildIsOwn
    /\ LeafIsRecorded
    /\ PlacedIsComplete
    /\ RefusedForCause

----
LEMMA InodeValues ==
    ASSUME NEW i \in Inode
    PROVE  i # "absent" /\ i # "empty" /\ i # None
BY NamespaceAssumption

LEMMA InitNamespace == Init => NamespaceInv
<1> SUFFICES ASSUME Init PROVE NamespaceInv
  OBVIOUS
<1>1. leaf \in Foreign \cup {None} /\ ~Recorded
  BY InodeValues DEF Init, Recorded
<1>2. leaf # None => leaf \in Directory /\ ~leaf.made /\ leaf.inode \in Inode
  BY <1>1 DEF Foreign, Directory
<1>3. TypeOK
  BY <1>1, <1>2 DEF Init, TypeOK, Steps
<1>4. LockIsHeld /\ EmptyWhileCreating /\ BuildIsOwn
  BY DEF Init, LockIsHeld, EmptyWhileCreating, BuildIsOwn, Creating, Building
<1>5. LeafIsRecorded /\ PlacedIsComplete /\ RefusedForCause
  BY <1>1, <1>2, InodeValues DEF Init, LeafIsRecorded, PlacedIsComplete, RefusedForCause
<1>6. QED
  BY <1>3, <1>4, <1>5 DEF NamespaceInv

\* One action at a time: the types, who has the lock, what is in place.
LEMMA NamespaceStep ==
    ASSUME NamespaceInv, Next
    PROVE  NamespaceInv'
<1> USE DEF Goto, Building, Steps, Recorded
<1>a. /\ TypeOK /\ LockIsHeld /\ EmptyWhileCreating /\ BuildIsOwn
      /\ LeafIsRecorded /\ PlacedIsComplete /\ RefusedForCause
  BY DEF NamespaceInv
<1>b. \A p, q \in Proc : pc[p] \notin {"idle", "wait"} /\ pc[q] \notin {"idle", "wait"} => p = q
  BY <1>a DEF LockIsHeld
<1>c. /\ leaf # None => leaf.inode \in Inode /\ leaf.names \in SUBSET Names /\ leaf.used \in BOOLEAN /\ leaf.made \in BOOLEAN
      /\ build # None => build.inode \in Inode
  BY <1>a DEF TypeOK, Directory
<1>d. None \notin Proc
  BY NamespaceAssumption
<1> DEFINE Placing == LeafIsRecorded /\ PlacedIsComplete /\ RefusedForCause
<1>1. ASSUME NEW p \in Proc, OpenAnchor(p) PROVE NamespaceInv'
  <2>1. TypeOK'
    BY <1>a, <1>1 DEF OpenAnchor, TypeOK, Directory, Names, NAMESPACE_ENTRIES
  <2>2. LockIsHeld' /\ EmptyWhileCreating'
    BY <1>a, <1>b, <1>1, InodeValues DEF OpenAnchor, TypeOK, LockIsHeld, EmptyWhileCreating, BuildIsOwn, Creating
  <2>3. BuildIsOwn'
    BY <1>a, <1>b, <1>c, <1>1, InodeValues DEF OpenAnchor, TypeOK, BuildIsOwn, EmptyWhileCreating, Creating, LeafIsRecorded, PlacedIsComplete
  <2>4. Placing'
    BY <1>a, <1>b, <1>c, <1>1, InodeValues DEF OpenAnchor, TypeOK, BuildIsOwn, EmptyWhileCreating, Creating, LeafIsRecorded, PlacedIsComplete, RefusedForCause, Fresh
  <2>5. QED
    BY <2>1, <2>2, <2>3, <2>4 DEF NamespaceInv
<1>2. ASSUME NEW p \in Proc, LockAnchor(p) PROVE NamespaceInv'
  <2>1. TypeOK'
    BY <1>a, <1>2 DEF LockAnchor, TypeOK, Directory, Names, NAMESPACE_ENTRIES
  <2>2. LockIsHeld' /\ EmptyWhileCreating'
    <3>1. \A q \in Proc : pc[q] \in {"idle", "wait"}
      BY <1>a, <1>d, <1>2 DEF LockAnchor, LockIsHeld
    <3>2. QED
      BY <1>a, <1>2, <3>1 DEF LockAnchor, TypeOK, LockIsHeld, EmptyWhileCreating, Creating
  <2>3. BuildIsOwn'
    BY <1>a, <1>b, <1>c, <1>2, InodeValues DEF LockAnchor, TypeOK, BuildIsOwn, EmptyWhileCreating, Creating, LeafIsRecorded, PlacedIsComplete
  <2>4. Placing'
    BY <1>a, <1>b, <1>c, <1>2, InodeValues DEF LockAnchor, TypeOK, BuildIsOwn, EmptyWhileCreating, Creating, LeafIsRecorded, PlacedIsComplete, RefusedForCause, Fresh
  <2>5. QED
    BY <2>1, <2>2, <2>3, <2>4 DEF NamespaceInv
<1>3. ASSUME NEW p \in Proc, StatLeaf(p) PROVE NamespaceInv'
  <2>1. TypeOK'
    BY <1>a, <1>3 DEF StatLeaf, TypeOK, Directory, Names, NAMESPACE_ENTRIES
  <2>2. LockIsHeld' /\ EmptyWhileCreating'
    BY <1>a, <1>b, <1>3, InodeValues DEF StatLeaf, TypeOK, LockIsHeld, EmptyWhileCreating, BuildIsOwn, Creating
  <2>3. BuildIsOwn'
    BY <1>a, <1>b, <1>c, <1>3, InodeValues DEF StatLeaf, TypeOK, BuildIsOwn, EmptyWhileCreating, Creating, LeafIsRecorded, PlacedIsComplete
  <2>4. Placing'
    BY <1>a, <1>b, <1>c, <1>3, InodeValues DEF StatLeaf, TypeOK, BuildIsOwn, EmptyWhileCreating, Creating, LeafIsRecorded, PlacedIsComplete, RefusedForCause, Fresh
  <2>5. QED
    BY <2>1, <2>2, <2>3, <2>4 DEF NamespaceInv
<1>4. ASSUME NEW p \in Proc, Adopt(p) PROVE NamespaceInv'
  <2>1. TypeOK'
    BY <1>a, <1>4 DEF Adopt, Adoptable, Fresh, TypeOK, Directory, Names, NAMESPACE_ENTRIES
  <2>2. LockIsHeld' /\ EmptyWhileCreating'
    BY <1>a, <1>b, <1>4, InodeValues DEF Adopt, Adoptable, Fresh, TypeOK, LockIsHeld, EmptyWhileCreating, BuildIsOwn, Creating
  <2>3. BuildIsOwn'
    BY <1>a, <1>b, <1>c, <1>4, InodeValues DEF Adopt, Adoptable, Fresh, TypeOK, BuildIsOwn, EmptyWhileCreating, Creating, LeafIsRecorded, PlacedIsComplete
  <2>4. Placing'
    BY <1>a, <1>b, <1>c, <1>4, InodeValues DEF Adopt, Adoptable, Fresh, TypeOK, BuildIsOwn, EmptyWhileCreating, Creating, LeafIsRecorded, PlacedIsComplete, RefusedForCause
  <2>5. QED
    BY <2>1, <2>2, <2>3, <2>4 DEF NamespaceInv
<1>5. ASSUME NEW p \in Proc, RefuseAdoption(p) PROVE NamespaceInv'
  <2>1. TypeOK'
    BY <1>a, <1>5 DEF RefuseAdoption, Adoptable, Fresh, Refuse, Close, TypeOK, Directory, Names, NAMESPACE_ENTRIES
  <2>2. LockIsHeld' /\ EmptyWhileCreating'
    BY <1>a, <1>b, <1>5, InodeValues DEF RefuseAdoption, Adoptable, Fresh, Refuse, Close, TypeOK, LockIsHeld, EmptyWhileCreating, BuildIsOwn, Creating
  <2>3. BuildIsOwn'
    BY <1>a, <1>b, <1>c, <1>5, InodeValues DEF RefuseAdoption, Adoptable, Fresh, Refuse, Close, TypeOK, BuildIsOwn, EmptyWhileCreating, Creating, LeafIsRecorded, PlacedIsComplete
  <2>4. Placing'
    BY <1>a, <1>b, <1>c, <1>5, InodeValues DEF RefuseAdoption, Adoptable, Fresh, Refuse, Close, TypeOK, BuildIsOwn, EmptyWhileCreating, Creating, LeafIsRecorded, PlacedIsComplete, RefusedForCause
  <2>5. QED
    BY <2>1, <2>2, <2>3, <2>4 DEF NamespaceInv
<1>6. ASSUME NEW p \in Proc, CleanName(p) PROVE NamespaceInv'
  <2>1. TypeOK'
    BY <1>a, <1>6 DEF CleanName, TypeOK, Directory, Names, NAMESPACE_ENTRIES
  <2>2. LockIsHeld' /\ EmptyWhileCreating'
    BY <1>a, <1>b, <1>6, InodeValues DEF CleanName, TypeOK, LockIsHeld, EmptyWhileCreating, BuildIsOwn, Creating
  <2>3. BuildIsOwn'
    BY <1>a, <1>b, <1>c, <1>6, InodeValues DEF CleanName, TypeOK, BuildIsOwn, EmptyWhileCreating, Creating, LeafIsRecorded, PlacedIsComplete
  <2>4. Placing'
    BY <1>a, <1>b, <1>c, <1>6, InodeValues DEF CleanName, TypeOK, BuildIsOwn, EmptyWhileCreating, Creating, LeafIsRecorded, PlacedIsComplete, RefusedForCause, Fresh
  <2>5. QED
    BY <2>1, <2>2, <2>3, <2>4 DEF NamespaceInv
<1>7. ASSUME NEW p \in Proc, RemoveBuild(p) PROVE NamespaceInv'
  <2>1. TypeOK'
    BY <1>a, <1>7 DEF RemoveBuild, TypeOK, Directory, Names, NAMESPACE_ENTRIES
  <2>2. LockIsHeld' /\ EmptyWhileCreating'
    BY <1>a, <1>b, <1>7, InodeValues DEF RemoveBuild, TypeOK, LockIsHeld, EmptyWhileCreating, BuildIsOwn, Creating
  <2>3. BuildIsOwn'
    BY <1>a, <1>b, <1>c, <1>7, InodeValues DEF RemoveBuild, TypeOK, BuildIsOwn, EmptyWhileCreating, Creating, LeafIsRecorded, PlacedIsComplete
  <2>4. Placing'
    BY <1>a, <1>b, <1>c, <1>7, InodeValues DEF RemoveBuild, TypeOK, BuildIsOwn, EmptyWhileCreating, Creating, LeafIsRecorded, PlacedIsComplete, RefusedForCause, Fresh
  <2>5. QED
    BY <2>1, <2>2, <2>3, <2>4 DEF NamespaceInv
<1>8. ASSUME NEW p \in Proc, MakeBuild(p) PROVE NamespaceInv'
  <2>1. TypeOK'
    BY <1>a, <1>8 DEF MakeBuild, InUse, TypeOK, Directory, Names, NAMESPACE_ENTRIES
  <2>2. LockIsHeld' /\ EmptyWhileCreating'
    BY <1>a, <1>b, <1>8, InodeValues DEF MakeBuild, InUse, TypeOK, LockIsHeld, EmptyWhileCreating, BuildIsOwn, Creating
  <2>3. BuildIsOwn'
    <3>1. PICK i \in Inode : /\ build' = [inode |-> i, names |-> {}, used |-> FALSE, made |-> TRUE]
                             /\ dir' = [dir EXCEPT ![p] = i]
      BY <1>8 DEF MakeBuild
    <3>2. build' # None
      <4>1. build' \in Directory
        BY <3>1 DEF Directory
      <4>2. QED
        BY <4>1, NamespaceAssumption
    <3>3. build'.inode = i /\ ~build'.used /\ build'.made
      BY <3>1
    <3>4. dir'[p] = i /\ pc'[p] = "lockfile" /\ leaf' = None
      BY <1>a, <1>8, <3>1 DEF MakeBuild, TypeOK, BuildIsOwn
    <3>5. \A q \in Proc \ {p} : pc'[q] \in {"idle", "wait"}
      BY <1>a, <1>b, <1>8 DEF MakeBuild, TypeOK
    <3>6. QED
      BY <3>2, <3>3, <3>4, <3>5 DEF BuildIsOwn
  <2>4. Placing'
    BY <1>a, <1>b, <1>c, <1>8, InodeValues DEF MakeBuild, InUse, TypeOK, BuildIsOwn, EmptyWhileCreating, Creating, LeafIsRecorded, PlacedIsComplete, RefusedForCause, Fresh
  <2>5. QED
    BY <2>1, <2>2, <2>3, <2>4 DEF NamespaceInv
<1>9. ASSUME NEW p \in Proc, Fill(p) PROVE NamespaceInv'
  <2>1. TypeOK'
    <3>1. build # None /\ build \in Directory
      BY <1>a, <1>9 DEF Fill, MakeName, BuildIsOwn, TypeOK
    <3>2. \A names \in SUBSET Names : [build EXCEPT !.names = names] \in Directory
      BY <3>1 DEF Directory
    <3>3. \E names \in SUBSET Names : build' = [build EXCEPT !.names = names]
      BY <1>9 DEF Fill, MakeName, Names, NAMESPACE_ENTRIES
    <3>4. build' \in Directory
      BY <3>2, <3>3
    <3>5. QED
      BY <1>a, <1>9, <3>4 DEF Fill, MakeName, TypeOK
  <2>2. LockIsHeld' /\ EmptyWhileCreating'
    BY <1>a, <1>b, <1>9, InodeValues DEF Fill, MakeName, TypeOK, LockIsHeld, EmptyWhileCreating, BuildIsOwn, Creating
  <2>3. BuildIsOwn'
    <3>1. build # None /\ build \in Directory
      BY <1>a, <1>9 DEF Fill, MakeName, BuildIsOwn, TypeOK
    <3>a. PICK names \in SUBSET Names : build' = [build EXCEPT !.names = names]
      BY <1>9 DEF Fill, MakeName, Names, NAMESPACE_ENTRIES
    <3>b. build' \in Directory
      BY <3>1, <3>a DEF Directory
    <3>c. build' # None
      BY <3>b, NamespaceAssumption
    <3>2. /\ build' # None /\ build'.inode = build.inode
          /\ build'.used = build.used /\ build'.made = build.made
      BY <3>1, <3>a, <3>c DEF Directory
    <3>d. pc'[p] = "rename" => build'.names = NAMESPACE_ENTRIES
      BY <1>a, <1>9, <3>1 DEF Fill, MakeName, TypeOK, Directory
    <3>3. /\ pc[p] \in {"lockfile", "next", "replace"}
          /\ pc'[p] \in {"next", "replace", "rename"}
          /\ UNCHANGED <<leaf, dir>>
      BY <1>a, <1>9 DEF Fill, MakeName, TypeOK
    <3>4. \A q \in Proc \ {p} : pc'[q] \in {"idle", "wait"}
      BY <1>a, <1>b, <1>9 DEF Fill, MakeName, TypeOK
    <3>5. QED
      BY <1>a, <3>2, <3>d, <3>3, <3>4 DEF BuildIsOwn
  <2>4. Placing'
    BY <1>a, <1>b, <1>c, <1>9, InodeValues DEF Fill, MakeName, TypeOK, BuildIsOwn, EmptyWhileCreating, Creating, LeafIsRecorded, PlacedIsComplete, RefusedForCause, Fresh
  <2>5. QED
    BY <2>1, <2>2, <2>3, <2>4 DEF NamespaceInv
<1>10. ASSUME NEW p \in Proc, RenameBuild(p) PROVE NamespaceInv'
  <2>1. TypeOK'
    BY <1>a, <1>10 DEF RenameBuild, TypeOK, Directory, Names, NAMESPACE_ENTRIES
  <2>2. LockIsHeld' /\ EmptyWhileCreating'
    BY <1>a, <1>b, <1>10, InodeValues DEF RenameBuild, TypeOK, LockIsHeld, EmptyWhileCreating, BuildIsOwn, Creating
  <2>3. BuildIsOwn'
    BY <1>a, <1>b, <1>c, <1>10, InodeValues DEF RenameBuild, Fresh, TypeOK, BuildIsOwn, EmptyWhileCreating, Creating, LeafIsRecorded, PlacedIsComplete
  <2>4. Placing'
    BY <1>a, <1>b, <1>c, <1>10, InodeValues DEF RenameBuild, Fresh, TypeOK, BuildIsOwn, EmptyWhileCreating, Creating, LeafIsRecorded, PlacedIsComplete, RefusedForCause, Fresh
  <2>5. QED
    BY <2>1, <2>2, <2>3, <2>4 DEF NamespaceInv
<1>11. ASSUME NEW p \in Proc, RecordIdentity(p) PROVE NamespaceInv'
  <2>a. anchor' \in Inode
    BY <1>a, <1>c, <1>11 DEF RecordIdentity, BuildIsOwn
  <2>1. TypeOK'
    BY <1>a, <1>11, <2>a DEF RecordIdentity, TypeOK
  <2>2. LockIsHeld' /\ EmptyWhileCreating'
    BY <1>a, <1>b, <1>11, <2>a, InodeValues DEF RecordIdentity, TypeOK, LockIsHeld, EmptyWhileCreating, Creating
  <2>3. BuildIsOwn'
    BY <1>a, <1>b, <1>c, <1>11, InodeValues DEF RecordIdentity, TypeOK, BuildIsOwn, EmptyWhileCreating, Creating, LeafIsRecorded, PlacedIsComplete
  <2>4. Placing'
    BY <1>a, <1>b, <1>c, <1>11, InodeValues DEF RecordIdentity, TypeOK, BuildIsOwn, EmptyWhileCreating, Creating, LeafIsRecorded, PlacedIsComplete, RefusedForCause, Fresh
  <2>5. QED
    BY <2>1, <2>2, <2>3, <2>4 DEF NamespaceInv
<1>12. ASSUME NEW p \in Proc, OpenLeaf(p) PROVE NamespaceInv'
  <2>1. TypeOK'
    BY <1>a, <1>12 DEF OpenLeaf, Complete, TypeOK, Directory, Names, NAMESPACE_ENTRIES
  <2>2. LockIsHeld' /\ EmptyWhileCreating'
    BY <1>a, <1>b, <1>12, InodeValues DEF OpenLeaf, Complete, TypeOK, LockIsHeld, EmptyWhileCreating, BuildIsOwn, Creating
  <2>3. BuildIsOwn'
    BY <1>a, <1>b, <1>c, <1>12, InodeValues DEF OpenLeaf, Complete, TypeOK, BuildIsOwn, EmptyWhileCreating, Creating, LeafIsRecorded, PlacedIsComplete
  <2>4. Placing'
    BY <1>a, <1>b, <1>c, <1>12, InodeValues DEF OpenLeaf, Complete, TypeOK, BuildIsOwn, EmptyWhileCreating, Creating, LeafIsRecorded, PlacedIsComplete, RefusedForCause, Fresh
  <2>5. QED
    BY <2>1, <2>2, <2>3, <2>4 DEF NamespaceInv
<1>13. ASSUME NEW p \in Proc, RefuseLeaf(p) PROVE NamespaceInv'
  <2>1. TypeOK'
    BY <1>a, <1>13 DEF RefuseLeaf, Complete, Refuse, Close, TypeOK, Directory, Names, NAMESPACE_ENTRIES
  <2>2. LockIsHeld' /\ EmptyWhileCreating'
    BY <1>a, <1>b, <1>13, InodeValues DEF RefuseLeaf, Complete, Refuse, Close, TypeOK, LockIsHeld, EmptyWhileCreating, BuildIsOwn, Creating
  <2>3. BuildIsOwn'
    BY <1>a, <1>b, <1>c, <1>13, InodeValues DEF RefuseLeaf, Complete, Refuse, Close, TypeOK, BuildIsOwn, EmptyWhileCreating, Creating, LeafIsRecorded, PlacedIsComplete
  <2>4. Placing'
    BY <1>a, <1>b, <1>c, <1>13, InodeValues DEF RefuseLeaf, Complete, Refuse, Close, TypeOK, BuildIsOwn, EmptyWhileCreating, Creating, LeafIsRecorded, PlacedIsComplete, RefusedForCause, Fresh
  <2>5. QED
    BY <2>1, <2>2, <2>3, <2>4 DEF NamespaceInv
<1>14. ASSUME NEW p \in Proc, EnterNamespace(p) PROVE NamespaceInv'
  <2>1. TypeOK'
    BY <1>a, <1>14 DEF EnterNamespace, Valid, TypeOK, Directory, Names, NAMESPACE_ENTRIES
  <2>2. LockIsHeld' /\ EmptyWhileCreating'
    BY <1>a, <1>b, <1>14, InodeValues DEF EnterNamespace, Valid, TypeOK, LockIsHeld, EmptyWhileCreating, BuildIsOwn, Creating
  <2>3. BuildIsOwn'
    BY <1>a, <1>b, <1>c, <1>14, InodeValues DEF EnterNamespace, Valid, TypeOK, BuildIsOwn, EmptyWhileCreating, Creating, LeafIsRecorded, PlacedIsComplete
  <2>4. Placing'
    BY <1>a, <1>b, <1>c, <1>14, InodeValues DEF EnterNamespace, Valid, TypeOK, BuildIsOwn, EmptyWhileCreating, Creating, LeafIsRecorded, PlacedIsComplete, RefusedForCause, Fresh
  <2>5. QED
    BY <2>1, <2>2, <2>3, <2>4 DEF NamespaceInv
<1>15. ASSUME NEW p \in Proc, RefuseInvalid(p) PROVE NamespaceInv'
  <2>1. TypeOK'
    BY <1>a, <1>15 DEF RefuseInvalid, Valid, Refuse, Close, TypeOK, Directory, Names, NAMESPACE_ENTRIES
  <2>2. LockIsHeld' /\ EmptyWhileCreating'
    BY <1>a, <1>b, <1>15, InodeValues DEF RefuseInvalid, Valid, Refuse, Close, TypeOK, LockIsHeld, EmptyWhileCreating, BuildIsOwn, Creating
  <2>3. BuildIsOwn'
    BY <1>a, <1>b, <1>c, <1>15, InodeValues DEF RefuseInvalid, Valid, Refuse, Close, TypeOK, BuildIsOwn, EmptyWhileCreating, Creating, LeafIsRecorded, PlacedIsComplete
  <2>4. Placing'
    BY <1>a, <1>b, <1>c, <1>15, InodeValues DEF RefuseInvalid, Valid, Refuse, Close, TypeOK, BuildIsOwn, EmptyWhileCreating, Creating, LeafIsRecorded, PlacedIsComplete, RefusedForCause, Fresh
  <2>5. QED
    BY <2>1, <2>2, <2>3, <2>4 DEF NamespaceInv
<1>16. ASSUME NEW p \in Proc, UseNamespace(p) PROVE NamespaceInv'
  <2>1. TypeOK'
    BY <1>a, <1>16 DEF UseNamespace, Close, TypeOK, Directory, Names, NAMESPACE_ENTRIES
  <2>2. LockIsHeld' /\ EmptyWhileCreating'
    BY <1>a, <1>b, <1>16, InodeValues DEF UseNamespace, Close, TypeOK, LockIsHeld, EmptyWhileCreating, BuildIsOwn, Creating
  <2>3. BuildIsOwn'
    BY <1>a, <1>b, <1>c, <1>16, InodeValues DEF UseNamespace, Close, TypeOK, BuildIsOwn, EmptyWhileCreating, Creating, LeafIsRecorded, PlacedIsComplete
  <2>4. Placing'
    BY <1>a, <1>b, <1>c, <1>16, InodeValues DEF UseNamespace, Close, TypeOK, BuildIsOwn, EmptyWhileCreating, Creating, LeafIsRecorded, PlacedIsComplete, RefusedForCause, Fresh
  <2>5. QED
    BY <2>1, <2>2, <2>3, <2>4 DEF NamespaceInv
<1>17. ASSUME NEW p \in Proc, Crash(p) PROVE NamespaceInv'
  <2>1. TypeOK'
    BY <1>a, <1>17 DEF Crash, Close, TypeOK, Directory, Names, NAMESPACE_ENTRIES
  <2>2. LockIsHeld' /\ EmptyWhileCreating'
    BY <1>a, <1>b, <1>17, InodeValues DEF Crash, Close, TypeOK, LockIsHeld, EmptyWhileCreating, BuildIsOwn, Creating
  <2>3. BuildIsOwn'
    BY <1>a, <1>b, <1>c, <1>17, InodeValues DEF Crash, Close, TypeOK, BuildIsOwn, EmptyWhileCreating, Creating, LeafIsRecorded, PlacedIsComplete
  <2>4. Placing'
    BY <1>a, <1>b, <1>c, <1>17, InodeValues DEF Crash, Close, TypeOK, BuildIsOwn, EmptyWhileCreating, Creating, LeafIsRecorded, PlacedIsComplete, RefusedForCause, Fresh
  <2>5. QED
    BY <2>1, <2>2, <2>3, <2>4 DEF NamespaceInv
<1>18. ASSUME Remove PROVE NamespaceInv'
  <2>1. TypeOK'
    BY <1>a, <1>18 DEF Remove, TypeOK, Directory, Names, NAMESPACE_ENTRIES
  <2>2. LockIsHeld' /\ EmptyWhileCreating'
    BY <1>a, <1>b, <1>18, InodeValues DEF Remove, TypeOK, LockIsHeld, EmptyWhileCreating, BuildIsOwn, Creating
  <2>3. BuildIsOwn'
    BY <1>a, <1>b, <1>c, <1>18, InodeValues DEF Remove, TypeOK, BuildIsOwn, EmptyWhileCreating, Creating, LeafIsRecorded, PlacedIsComplete
  <2>4. Placing'
    BY <1>a, <1>b, <1>c, <1>18, InodeValues DEF Remove, TypeOK, BuildIsOwn, EmptyWhileCreating, Creating, LeafIsRecorded, PlacedIsComplete, RefusedForCause, Fresh
  <2>5. QED
    BY <2>1, <2>2, <2>3, <2>4 DEF NamespaceInv
<1>19. ASSUME Replace PROVE NamespaceInv'
  <2>1. TypeOK'
    BY <1>a, <1>19 DEF Replace, InUse, Foreign, TypeOK, Directory, Names, NAMESPACE_ENTRIES
  <2>2. LockIsHeld' /\ EmptyWhileCreating'
    BY <1>a, <1>b, <1>19, InodeValues DEF Replace, InUse, Foreign, TypeOK, LockIsHeld, EmptyWhileCreating, BuildIsOwn, Creating
  <2>3. BuildIsOwn'
    BY <1>a, <1>b, <1>c, <1>19, InodeValues DEF Replace, InUse, Foreign, TypeOK, BuildIsOwn, EmptyWhileCreating, Creating, LeafIsRecorded, PlacedIsComplete
  <2>4. Placing'
    BY <1>a, <1>b, <1>c, <1>19, InodeValues DEF Replace, InUse, Foreign, TypeOK, BuildIsOwn, EmptyWhileCreating, Creating, LeafIsRecorded, PlacedIsComplete, RefusedForCause, Fresh
  <2>5. QED
    BY <2>1, <2>2, <2>3, <2>4 DEF NamespaceInv
<1>20. QED
  BY <1>1, <1>2, <1>3, <1>4, <1>5, <1>6, <1>7, <1>8, <1>9, <1>10, <1>11, <1>12, <1>13, <1>14, <1>15, <1>16, <1>17, <1>18, <1>19 DEF Next, Open

\* Every state has the invariant: whoever creates a namespace, wherever it dies.
THEOREM NamespaceInvariant == Spec => []NamespaceInv
<1>1. ASSUME NamespaceInv, UNCHANGED vars PROVE NamespaceInv'
  BY <1>1 DEF vars, NamespaceInv, TypeOK, LockIsHeld, EmptyWhileCreating, BuildIsOwn,
      LeafIsRecorded, PlacedIsComplete, RefusedForCause, Recorded, Fresh, Steps, Building, Creating
<1>2. QED
  BY <1>1, InitNamespace, NamespaceStep, PTL DEF Spec

\* The types of anchor, directories and steps.
THEOREM NamespaceTypes == Spec => []TypeOK
BY NamespaceInvariant, PTL DEF NamespaceInv

\* __enter__ after validate(): one process at a time works in the namespace,
\* in the directory whose identity the anchor records.
THEOREM OneHomeAlways == Spec => []OneHome
<1>1. NamespaceInv => OneHome
  <2> SUFFICES ASSUME NamespaceInv, NEW p \in Proc, pc[p] = "inside"
               PROVE  dir[p] = anchor /\ \A q \in Proc : pc[q] = "inside" => q = p
    BY DEF OneHome
  <2>1. dir[p] = anchor
    BY DEF NamespaceInv, BuildIsOwn
  <2>2. \A q \in Proc : pc[q] = "inside" => lock = q
    BY DEF NamespaceInv, LockIsHeld
  <2>3. QED
    BY <2>1, <2>2
<1>2. QED
  BY <1>1, NamespaceInvariant, PTL

\* create() and adopt(): nobody is refused because of what this module, or a
\* creator killed at any step of it, has left behind.
THEOREM RefusedForCauseAlways == Spec => []RefusedForCause
BY NamespaceInvariant, PTL DEF NamespaceInv

\* The rename in create() publishes complete directories only.
THEOREM PlacedIsCompleteAlways == Spec => []PlacedIsComplete
BY NamespaceInvariant, PTL DEF NamespaceInv

\* What one step may do to the identity and to the directory in place.
Kept ==
    LET own(d) == d # None /\ d.made
    IN  /\ Recorded => anchor' = anchor /\ (own(leaf') => own(leaf))
        /\ ~Recorded /\ Recorded' => leaf # None /\ Fresh(leaf) /\ leaf.inode = anchor'
        /\ leaf # None /\ ~own(leaf) /\ leaf.inode # anchor => leaf' \in {leaf, None}

LEMMA StepKeeps ==
    ASSUME NamespaceInv, Next
    PROVE  Kept
<1> USE DEF Goto, Building, Recorded
<1>a. TypeOK /\ EmptyWhileCreating /\ BuildIsOwn /\ LeafIsRecorded
  BY DEF NamespaceInv
<1>b. leaf # None => leaf \in Directory /\ leaf.inode \in Inode
  BY <1>a DEF TypeOK, Directory
<1>1. ASSUME NEW p \in Proc, OpenAnchor(p) PROVE Kept
  BY <1>a, <1>b, <1>1, InodeValues DEF OpenAnchor, Kept, LeafIsRecorded
<1>2. ASSUME NEW p \in Proc, RenameBuild(p) PROVE Kept
  BY <1>a, <1>b, <1>2, InodeValues DEF RenameBuild, Kept, EmptyWhileCreating, BuildIsOwn, Creating
<1>3. ASSUME NEW p \in Proc, RecordIdentity(p) PROVE Kept
  BY <1>a, <1>b, <1>3, InodeValues DEF RecordIdentity, Kept, EmptyWhileCreating, BuildIsOwn, Creating
<1>4. ASSUME NEW p \in Proc, UseNamespace(p) PROVE Kept
  <2>1. anchor' = anchor /\ Recorded
    BY <1>a, <1>4 DEF UseNamespace, EmptyWhileCreating
  <2>2. dir[p] = anchor
    BY <1>a, <1>4 DEF UseNamespace, BuildIsOwn
  <2>3. leaf # None /\ leaf.inode # anchor => leaf' = leaf
    BY <1>4, <2>2 DEF UseNamespace
  <2>4. leaf' # None /\ leaf'.made => leaf # None /\ leaf.made
    BY <1>b, <1>4 DEF UseNamespace, Directory
  <2>5. QED
    BY <2>1, <2>3, <2>4 DEF Kept
<1>5. ASSUME Replace PROVE Kept
  BY <1>5 DEF Replace, Foreign, Kept
<1>6. ASSUME Remove PROVE Kept
  BY <1>a, <1>b, <1>6 DEF Remove, Kept, LeafIsRecorded
<1>7. ASSUME UNCHANGED <<anchor, leaf>> PROVE Kept
  BY <1>a, <1>b, <1>7, InodeValues DEF Kept, LeafIsRecorded
<1>8. ASSUME NEW p \in Proc,
             LockAnchor(p) \/ StatLeaf(p) \/ Adopt(p) \/ RefuseAdoption(p) \/ CleanName(p)
                 \/ RemoveBuild(p) \/ MakeBuild(p) \/ Fill(p) \/ OpenLeaf(p) \/ RefuseLeaf(p)
                 \/ EnterNamespace(p) \/ RefuseInvalid(p) \/ Crash(p)
      PROVE  UNCHANGED <<anchor, leaf>>
  BY <1>8 DEF LockAnchor, StatLeaf, Adopt, RefuseAdoption, CleanName, RemoveBuild, MakeBuild,
      Fill, MakeName, OpenLeaf, RefuseLeaf, EnterNamespace, RefuseInvalid, Crash, Refuse
<1>9. QED
  BY <1>1, <1>2, <1>3, <1>4, <1>5, <1>6, <1>7, <1>8 DEF Next, Open

\* record() and the refusals of __init__: an identity is recorded once, of a
\* directory that nobody has used; nothing is made in a removed one's place, and
\* what somebody else put there is left alone unless it has the same numbers.
THEOREM NeverRecreatedAlways == Spec => NeverRecreated
<1>2. NamespaceInv /\ [Next]_vars => [Kept]_vars
  BY StepKeeps
<1>3. [Kept]_vars <=> [LET own(d) == d # None /\ d.made
                       IN  /\ Recorded => anchor' = anchor /\ (own(leaf') => own(leaf))
                           /\ ~Recorded /\ Recorded' => leaf # None /\ Fresh(leaf) /\ leaf.inode = anchor'
                           /\ leaf # None /\ ~own(leaf) /\ leaf.inode # anchor
                                => leaf' \in {leaf, None}]_vars
  BY DEF Kept
<1>4. QED
  BY <1>2, <1>3, NamespaceInvariant, PTL DEF Spec, NeverRecreated
====
