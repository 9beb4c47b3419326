------------------------------ MODULE DeltaPatch ------------------------------
(***************************************************************************)
(* StepDeltaPatch: the delta is moved out of the unpacked directory, which *)
(* is filled again with a copy of the installed package, without what the  *)
(* installer and the running application have added to it; then the        *)
(* changes the delta lists are made to that copy.                          *)
(***************************************************************************)
EXTENDS ModificationState

CONSTANTS
  DeltaPaths,  \* the paths that occur in the lists of a delta
  Climbing,    \* a path that leads out of the package
  BinDir,      \* the directory of the executables
  Storage,     \* the directories the application writes to
  IconCopies,  \* icons of web applications, copied by the installer
  MountPoint   \* where the external storage is mounted

ASSUME DeltaAssumption ==
  /\ Climbing \notin Paths
  /\ Storage \cup IconCopies \cup {BinDir, MountPoint} \cup DeltaPaths \subseteq Paths

\* delta_root_: the delta is for a part of the package, not for all of it.
DeltaRoot == kind = "partial"

\* What the delta says, each path at most once in each of its lists.
DeltaLists ==
  [add    : {<<>>} \cup {<<p>> : p \in DeltaPaths \cup {Climbing}}
                   \cup {<<p, q>> : p, q \in DeltaPaths},
   modify : {<<>>} \cup {<<p>> : p \in DeltaPaths},
   delete : {<<>>} \cup {<<p>> : p \in DeltaPaths}]

\* ValidateDeltaInfo()
ValidDelta(l) == \A k \in DOMAIN l : \A i \in 1..Len(l[k]) : l[k][i] # Climbing

\* Mutant: what is added comes first.
ChangesAddFirst(l) ==
  Pairs("add", l.add) \o Pairs("delete", l.delete) \o Pairs("modify", l.modify)

\* ApplyPatch()
Changes(l) ==
  Pairs("delete", l.delete) \o Pairs("modify", l.modify) \o Pairs("add", l.add)

\* What a move that copies has come to when it fails.
CutMove == {[p \in Paths |-> IF {p} \cup Above[p] \subseteq cut THEN unpacked[p] ELSE "none"] :
              cut \in SUBSET Paths}

\* The delta file is read and the delta moved to the patch directory.
DeltaPatch ==
  /\ Process("DeltaPatch", "")
  /\ \/ \E l \in DeltaLists :
          \/ /\ ValidDelta(l) /\ NoFault
             /\ Files(pkg, NoPaths, unpacked, (temp \ {"unpacked"}) \cup {"patch"})
             /\ GoOn([memory EXCEPT !.lists = l, !.part = "copy"])
          \/ ~ValidDelta(l) /\ NoFault /\ NoFiles /\ Fails
     \/ Fault("parse") /\ NoFiles /\ Fails
     \/ /\ Fault("move") /\ Fails
        /\ \E part \in CutMove : Files(pkg, unpacked, part, temp \cup {"patch"})

\* CopySkipMount()
CopySkipMount ==
  /\ Process("DeltaPatch", "copy")
  /\ \/ /\ NoFault /\ Files(pkg, Without(pkg, {MountPoint}), aside, temp \cup {"unpacked"})
        /\ GoOn([memory EXCEPT !.part = "clear"])
     \/ Fault("copy") /\ Files(pkg, NoPaths, aside, temp \cup {"unpacked"}) /\ Fails

\* Mutant: the directories the application writes to are kept.
ClearedKeepsStorage ==
  IF DeltaRoot THEN {}
  ELSE {p \in Paths : unpacked[p] = "link" /\ ParentOf[p] = BinDir} \cup IconCopies

\* RemoveBinarySymlinks(), RemoveStorageDirectories(), RemoveExtraIconFiles()
Cleared ==
  IF DeltaRoot THEN {}
  ELSE {p \in Paths : unpacked[p] = "link" /\ ParentOf[p] = BinDir} \cup Storage \cup IconCopies

\* What cannot be removed stays, and is not noticed; the iteration over a directory
\* of executables that is not there throws.
ClearCopy ==
  /\ Process("DeltaPatch", "clear")
  /\ \/ /\ DeltaRoot \/ IsDir(unpacked, BinDir)
        /\ \E gone \in SUBSET Cleared :
             /\ IF gone = Cleared THEN NoFault ELSE Fault("clear")
             /\ Files(pkg, Without(unpacked, gone), aside, temp)
        /\ GoOn([memory EXCEPT !.part = "apply", !.todo = Changes(memory.lists)])
     \/ ~DeltaRoot /\ ~IsDir(unpacked, BinDir) /\ NoFault /\ NoFiles /\ Fails

Change == Head(memory.todo)[1]
Target == Head(memory.todo)[2]
Applies(op) == Process("DeltaPatch", "apply") /\ memory.todo # <<>> /\ Change = op
NextChange == GoOn([memory EXCEPT !.todo = Tail(@)])

\* ApplyDeletedFiles(): a failure is only logged.
ApplyDeleted ==
  /\ Applies("delete") /\ NextChange
  /\ \/ NoFault /\ Files(pkg, Without(unpacked, {Target}), aside, temp)
     \/ Fault("delete") /\ NoFiles

\* ApplyModifiedFiles(): xdelta3 writes to a temporary file, which is copied
\* over the old one.  When xdelta3 fails the temporary file is not removed, and
\* when its removal fails that is not noticed.
XDelta == aside[Target] = "diff" /\ unpacked[Target] = "old"
ApplyModified ==
  /\ Applies("modify")
  /\ \/ /\ IsFile(unpacked, Target) /\ XDelta /\ NextChange
        /\ \E left \in SUBSET {"tmp_file"} :
             /\ IF left = {} THEN NoFault ELSE Fault("removeTmp")
             /\ Files(pkg, [unpacked EXCEPT ![Target] = "new"], aside, temp \cup left)
     \/ /\ IsFile(unpacked, Target) /\ ~XDelta /\ NoFault /\ NoFiles /\ Fails
     \/ /\ IsFile(unpacked, Target) /\ Fault("xdelta") /\ Fails
        /\ Files(pkg, unpacked, aside, temp \cup {"tmp_file"})
     \/ /\ IsFile(unpacked, Target) /\ XDelta /\ Fault("copy") /\ Fails
        /\ Files(pkg, [unpacked EXCEPT ![Target] = "torn"], aside, temp)
     \/ ~IsFile(unpacked, Target) /\ NoFault /\ NoFiles /\ Fails

\* ApplyAddedFiles(): what is in the way of a file is removed, what is in the
\* way of a directory is not.
CanAdd ==
  \/ IsDir(aside, Target) /\ CanMakeDirs(unpacked, {Target} \cup Above[Target])
  \/ /\ ~IsDir(aside, Target) /\ There(aside, Target)
     /\ CanRemove(unpacked, Target) /\ CanMakeDirs(unpacked, Above[Target])

\* Mutant: the directories of an added file are not made.
AddedAlone == [unpacked EXCEPT ![Target] = aside[Target]]

Added ==
  [MakeDirs(unpacked, Above[Target]) EXCEPT ![Target] = aside[Target]]
Left == IF IsDir(aside, Target) THEN aside ELSE Without(aside, {Target})
ApplyAdded ==
  /\ Applies("add")
  /\ \/ CanAdd /\ NoFault /\ Files(pkg, Added, Left, temp) /\ NextChange
     \/ ~CanAdd /\ NoFault /\ NoFiles /\ Fails
     \/ Fault("add") /\ NoFiles /\ Fails

\* A patch directory that cannot be removed is not noticed, here and in undo().
RemovePatch ==
  \/ NoFault /\ Files(pkg, unpacked, NoPaths, temp \ {"patch"})
  \/ "patch" \in temp /\ Fault("removePatch") /\ NoFiles

DeltaPatchEnds ==
  /\ Process("DeltaPatch", "apply") /\ memory.todo = <<>>
  /\ RemovePatch /\ Ok

DeltaPatchUndo ==
  /\ Undo("DeltaPatch", "") /\ RemovePatch /\ Undone(TRUE)
===============================================================================
