---- MODULE LeaseNamespace ----
(***************************************************************************)
(* The first creation of a lease namespace.  An empty anchor file means    *)
(* that nobody has finished it: whoever locks the anchor then builds the   *)
(* directory under a sibling name, renames it into place, or adopts one    *)
(* that is in place already, and records its identity in the anchor last.  *)
(* Every pass of DeviceLease begins with these steps.                      *)
(*                                                                         *)
(* A directory is known by its inode, which stands for the two identities  *)
(* that the anchor records, the directory's and its lock file's.  Numbers  *)
(* may be used again once the directory is gone and nobody has it open,    *)
(* also by a directory that somebody else makes: validate() compares       *)
(* nothing but numbers.  An operation that raises OSError leaves what a    *)
(* death at that step leaves: both are Crash.                              *)
(***************************************************************************)
EXTENDS Integers, FiniteSets

CONSTANTS
    Proc,       \* processes that open the namespace
    None,       \* no process, no directory
    Inode,      \* the inode numbers the file system hands out
    Faults      \* subset of {"crash", "removal", "foreign"}

Names == {"accelerator.lock", "state.json", "state.next"}

NAMESPACE_ENTRIES == {"accelerator.lock", "state.json"}

\* used: state.json is not _fresh(), or the lock file is not empty
\* made: by this module (history)
Directory == [inode : Inode, names : SUBSET Names, used : BOOLEAN, made : BOOLEAN]

ASSUME NamespaceAssumption ==
    /\ None \notin Proc
    /\ {"absent", "empty", None} \cap Inode = {}
    /\ None \notin Directory
    /\ Faults \subseteq {"crash", "removal", "foreign"}

VARIABLES
    anchor,     \* the anchor file: "absent", "empty", or the inode it records
    leaf,       \* the directory at the namespace path, or None
    build,      \* the directory at the private sibling name, or None
    lock,       \* the process that holds the anchor's flock, or None
    pc,         \* of each process: its step
    dir,        \* of each process: the directory it has open, or None
    refused     \* the processes last told "unavailable"

vars == <<anchor, leaf, build, lock, pc, dir, refused>>

\* What adopt() accepts.
Fresh(d) == d.names = NAMESPACE_ENTRIES /\ ~d.used

\* A directory that somebody else made, whatever is in it.
Foreign == {d \in Directory : ~d.made}

Building == {"clean", "make", "lockfile", "next", "replace", "rename"}
Steps == {"idle", "wait", "create", "adopt", "record", "read", "validate", "inside"} \cup Building

TypeOK ==
    /\ anchor \in {"absent", "empty"} \cup Inode
    /\ leaf \in Directory \cup {None}
    /\ build \in Directory \cup {None}
    /\ lock \in Proc \cup {None}
    /\ pc \in [Proc -> Steps]
    /\ dir \in [Proc -> Inode \cup {None}]
    /\ refused \subseteq Proc

Init ==
    /\ anchor = "absent"
    /\ leaf \in IF "foreign" \in Faults THEN Foreign \cup {None} ELSE {None}
    /\ build = None
    /\ lock = None
    /\ pc = [p \in Proc |-> "idle"]
    /\ dir = [p \in Proc |-> None]
    /\ refused = {}

Goto(p, step) == pc' = [pc EXCEPT ![p] = step]

Recorded == anchor \in Inode

\* The inodes that cannot be handed out: on disk, or open somewhere.
InUse == {d.inode : d \in {leaf, build} \ {None}} \cup {dir[p] : p \in Proc}

\* Mutant: a way out that leaves the anchor open.
CloseKeepsLock(p) ==
    /\ Goto(p, "idle")
    /\ dir' = [dir EXCEPT ![p] = None]
    /\ UNCHANGED lock

\* Every way out closes all descriptors, and with them gives up the lock.
Close(p) ==
    /\ Goto(p, "idle")
    /\ dir' = [dir EXCEPT ![p] = None]
    /\ lock' = IF lock = p THEN None ELSE lock

\* _refuse
Refuse(p) ==
    /\ Close(p)
    /\ refused' = refused \cup {p}
    /\ UNCHANGED <<anchor, leaf, build>>

----
\* Create the anchor exclusively, or open the one that exists.  The flock is
\* another system call: others may lock a new anchor before its creator does.
OpenAnchor(p) ==
    /\ pc[p] = "idle"
    /\ anchor' = IF anchor = "absent" THEN "empty" ELSE anchor
    /\ refused' = refused \ {p}
    /\ Goto(p, "wait")
    /\ UNCHANGED <<leaf, build, lock, dir>>

\* Mutant: a missing directory is built again.
LockAnchorRecreates(p) ==
    /\ pc[p] = "wait"
    /\ lock = None
    /\ lock' = p
    /\ Goto(p, IF anchor = "empty" \/ leaf = None THEN "create" ELSE "read")
    /\ UNCHANGED <<anchor, leaf, build, dir, refused>>

LockAnchor(p) ==
    /\ pc[p] = "wait"
    /\ lock = None
    /\ lock' = p
    /\ Goto(p, IF anchor = "empty" THEN "create" ELSE "read")
    /\ UNCHANGED <<anchor, leaf, build, dir, refused>>

\* create(): a directory in place is adopted, anything else is built anew.
StatLeaf(p) ==
    /\ pc[p] = "create"
    /\ Goto(p, IF leaf # None THEN "adopt" ELSE "clean")
    /\ UNCHANGED <<anchor, leaf, build, lock, dir, refused>>

\* Mutant: whatever stands beside an empty anchor is refused.
AdoptableNever == FALSE

\* adopt(): only a complete directory that nobody has used.
Adoptable == leaf # None /\ Fresh(leaf)

Adopt(p) ==
    /\ pc[p] = "adopt"
    /\ Adoptable
    /\ dir' = [dir EXCEPT ![p] = leaf.inode]
    /\ Goto(p, "record")
    /\ UNCHANGED <<anchor, leaf, build, lock, refused>>

RefuseAdoption(p) ==
    /\ pc[p] = "adopt"
    /\ ~Adoptable
    /\ Refuse(p)

\* remove_build(), one file at a time, in the order of os.listdir
CleanName(p) ==
    /\ pc[p] = "clean"
    /\ build # None
    /\ \E name \in build.names : build' = [build EXCEPT !.names = @ \ {name}]
    /\ UNCHANGED <<anchor, leaf, lock, pc, dir, refused>>

RemoveBuild(p) ==
    /\ pc[p] = "clean"
    /\ build # None => build.names = {}
    /\ build' = None
    /\ Goto(p, "make")
    /\ UNCHANGED <<anchor, leaf, lock, dir, refused>>

MakeBuild(p) ==
    /\ pc[p] = "make"
    /\ \E i \in Inode \ InUse :
           /\ build' = [inode |-> i, names |-> {}, used |-> FALSE, made |-> TRUE]
           /\ dir' = [dir EXCEPT ![p] = i]
    /\ Goto(p, "lockfile")
    /\ UNCHANGED <<anchor, leaf, lock, refused>>

\* The lock file, then save(): state.next, renamed to state.json.
MakeName(p, step, then, names) ==
    /\ pc[p] = step
    /\ build' = [build EXCEPT !.names = names]
    /\ Goto(p, then)
    /\ UNCHANGED <<anchor, leaf, lock, dir, refused>>

\* Mutant: the directory is put in place before its record is.
FillPartly(p) ==
    \/ MakeName(p, "lockfile", "next", {"accelerator.lock"})
    \/ MakeName(p, "next", "rename", {"accelerator.lock", "state.next"})

Fill(p) ==
    \/ MakeName(p, "lockfile", "next", {"accelerator.lock"})
    \/ MakeName(p, "next", "replace", {"accelerator.lock", "state.next"})
    \/ MakeName(p, "replace", "rename", NAMESPACE_ENTRIES)

RenameBuild(p) ==
    /\ pc[p] = "rename"
    /\ leaf' = build
    /\ build' = None
    /\ Goto(p, "record")
    /\ UNCHANGED <<anchor, lock, dir, refused>>

\* record(): one short write to an empty file
RecordIdentity(p) ==
    /\ pc[p] = "record"
    /\ anchor' = dir[p]
    /\ Goto(p, "validate")
    /\ UNCHANGED <<leaf, build, lock, dir, refused>>

\* A recorded namespace is opened as it is.
Complete == leaf # None /\ NAMESPACE_ENTRIES \subseteq leaf.names

OpenLeaf(p) ==
    /\ pc[p] = "read"
    /\ Complete
    /\ dir' = [dir EXCEPT ![p] = leaf.inode]
    /\ Goto(p, "validate")
    /\ UNCHANGED <<anchor, leaf, build, lock, refused>>

RefuseLeaf(p) ==
    /\ pc[p] = "read"
    /\ ~Complete
    /\ Refuse(p)

\* validate()
Valid(p) == leaf # None /\ leaf.inode = anchor /\ dir[p] = anchor

\* Mutant: the anchor is given up before the pass.
EnterUnlocked(p) ==
    /\ pc[p] = "validate"
    /\ Valid(p)
    /\ lock' = None
    /\ Goto(p, "inside")
    /\ UNCHANGED <<anchor, leaf, build, dir, refused>>

EnterNamespace(p) ==
    /\ pc[p] = "validate"
    /\ Valid(p)
    /\ Goto(p, "inside")
    /\ UNCHANGED <<anchor, leaf, build, lock, dir, refused>>

RefuseInvalid(p) ==
    /\ pc[p] = "validate"
    /\ ~Valid(p)
    /\ Refuse(p)

\* A pass changes the directory: it is never fresh again.
UseNamespace(p) ==
    /\ pc[p] = "inside"
    /\ leaf' = IF leaf # None /\ leaf.inode = dir[p] THEN [leaf EXCEPT !.used = TRUE] ELSE leaf
    /\ Close(p)
    /\ UNCHANGED <<anchor, build, refused>>

Crash(p) ==
    /\ "crash" \in Faults
    /\ pc[p] # "idle"
    /\ Close(p)
    /\ UNCHANGED <<anchor, leaf, build, refused>>

\* Somebody deletes the directory of a recorded namespace...
Remove ==
    /\ "removal" \in Faults
    /\ Recorded
    /\ leaf # None
    /\ leaf' = None
    /\ UNCHANGED <<anchor, build, lock, pc, dir, refused>>

\* ... or puts another one in its place, which may be given the numbers that
\* the anchor records.
Replace ==
    /\ "foreign" \in Faults
    /\ Recorded
    /\ leaf = None
    /\ leaf' \in {d \in Foreign : d.inode \notin InUse}
    /\ UNCHANGED <<anchor, build, lock, pc, dir, refused>>

\* The steps of opening the namespace.
Open(p) ==
    \/ LockAnchor(p) \/ StatLeaf(p) \/ Adopt(p) \/ RefuseAdoption(p)
    \/ CleanName(p) \/ RemoveBuild(p) \/ MakeBuild(p) \/ Fill(p) \/ RenameBuild(p)
    \/ RecordIdentity(p) \/ OpenLeaf(p) \/ RefuseLeaf(p)
    \/ EnterNamespace(p) \/ RefuseInvalid(p) \/ UseNamespace(p)

Next ==
    \/ \E p \in Proc : OpenAnchor(p) \/ Open(p) \/ Crash(p)
    \/ Remove \/ Replace

Spec == Init /\ [][Next]_vars

\* A process that is not killed goes on, and has its turn at the anchor.
FairSpec == Spec /\ \A p \in Proc : WF_vars(Open(p)) /\ SF_vars(LockAnchor(p))

----
\* Properties.

\* Everybody who gets in works in the directory the anchor records, alone: that
\* of this module, or one that was given its numbers after it was removed.
OneHome ==
    \A p \in Proc : pc[p] = "inside" =>
        /\ dir[p] = anchor
        /\ \A q \in Proc : pc[q] = "inside" => q = p

\* "Simultaneous first requesters all wait their turn instead of being refused",
\* and a creator killed at any step leaves nothing that is refused later: only
\* somebody else's directory at the path, or the removal of a recorded one,
\* makes anybody be refused.
RefusedForCause ==
    refused # {} => IF leaf = None THEN Recorded ELSE ~leaf.made

\* Nobody uses a directory before the anchor records it, so an adopted one is
\* as its creator left it; a directory in place is complete, and leaves no
\* sibling behind.
PlacedIsComplete ==
    leaf # None /\ leaf.made =>
        /\ leaf.names = NAMESPACE_ENTRIES
        /\ build = None
        /\ leaf.used => anchor = leaf.inode

\* "An existing incomplete or replaced namespace is never silently recreated":
\* an identity is recorded once, and of a directory that nobody has used; none
\* is made in a removed one's place; and what somebody else put at the path is
\* left as it is, unless its numbers are the ones recorded, by which validate()
\* takes it for the directory that was removed.
NeverRecreated ==
    [][LET own(d) == d # None /\ d.made
       IN  /\ Recorded => anchor' = anchor /\ (own(leaf') => own(leaf))
           /\ ~Recorded /\ Recorded' => leaf # None /\ Fresh(leaf) /\ leaf.inode = anchor'
           /\ leaf # None /\ ~own(leaf) /\ leaf.inode # anchor => leaf' \in {leaf, None}]_vars

\* Whoever waits for the anchor gets in or is refused.
OpenEnds == \A p \in Proc : pc[p] = "wait" ~> pc[p] \in {"inside", "idle"}
====
