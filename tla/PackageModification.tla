-------------------------- MODULE PackageModification -------------------------
(***************************************************************************)
(* Requests that bring only what has changed, on the step loop: the        *)
(* changes in place of rapid development and the delta update, with the    *)
(* step that unpacks the package before them and one that may fail after   *)
(* them.  The list of changes is what the developer or the server made of  *)
(* it: it need not fit the package.                                        *)
(***************************************************************************)
EXTENDS RdsModify, DeltaPatch

CONSTANTS Installed, RdsContents, DeltaContents   \* the trees to begin with

ASSUME TreesAssumption ==
  \A t \in Installed \cup RdsContents \cup DeltaContents : t \in Trees /\ WellFormed(t)

Init ==
  /\ RunnerInit
  /\ kind \in DOMAIN Pipeline
  /\ pkg \in Installed
  /\ unpacked \in IF kind = "rds" THEN RdsContents ELSE DeltaContents
  /\ aside = NoPaths /\ memory = NoMemory
  /\ temp = {"unpacked"}
  /\ before = [pkg |-> pkg, unpacked |-> unpacked]
  /\ faults = {} /\ budget = FaultBudget

Begin == BeginRun /\ NoFault /\ NoFiles /\ UNCHANGED memory

\* The steps around: all of them may fail, and Unzip removes what it unpacked.
Others ==
  /\ Process("Later", "") \/ Process("Unzip", "")
  /\ NoFiles /\ UNCHANGED memory
  /\ \/ NoFault /\ StepOk(NumSteps)
     \/ Fault("later") /\ StepFails
UndoUnzip ==
  /\ Undo("Unzip", "")
  /\ \/ NoFault /\ Files(pkg, NoPaths, aside, temp \ {"unpacked"}) /\ Undone(TRUE)
     \/ "unpacked" \in temp /\ Fault("removeUnpacked") /\ NoFiles /\ Undone(FALSE)
UndoNothing ==
  /\ Undo("Later", "") \/ Undo("RDSParse", "")
  /\ NoFault /\ NoFiles /\ Undone(TRUE)
CleanNothing ==
  /\ Clean("Later") \/ Clean("Unzip") \/ Clean("RDSParse") \/ Clean("DeltaPatch")
  /\ NoFault /\ NoFiles /\ Cleaned

Next ==
  \/ Begin \/ Others \/ UndoUnzip \/ UndoNothing \/ CleanNothing
  \/ RDSParse \/ RDSModify \/ RDSModifyFile \/ RDSModifyEnds
  \/ RDSModifyUndo \/ RDSModifyRestore \/ RDSModifyRestored \/ RDSModifyClean
  \/ DeltaPatch \/ CopySkipMount \/ ClearCopy
  \/ ApplyDeleted \/ ApplyModified \/ ApplyAdded \/ DeltaPatchEnds \/ DeltaPatchUndo

Spec == Init /\ [][Next]_vars

-------------------------------------------------------------------------------
(* Properties *)

TypeOK ==
  /\ kind \in DOMAIN Pipeline /\ phase \in Phases /\ ret \in Results
  /\ it \in 1..NumSteps
  /\ {pkg, unpacked, aside} \subseteq Trees
  /\ WellFormed(pkg) /\ WellFormed(unpacked)
  /\ temp \subseteq {"unpacked", "aside", "patch", "tmp_file"}
  /\ budget \in 0..FaultBudget
  /\ memory.part \in {"", "files", "copy", "clear", "apply"}

Listed(l) == {memory.lists[l][i] : i \in 1..Len(memory.lists[l])}
RdsEnd(results) == kind = "rds" /\ phase = "end" /\ ret \in results

\* What the list of changes asks for, in whatever order it is done: deleting wins
\* over changing and adding, a directory that is there stays, and the directories
\* a new file needs are made.
RdsReference ==
  [p \in Paths |->
     CASE p \in Listed("delete") -> "none"
       [] p \in Listed("modify") \ Listed("delete") -> before.unpacked[p]
       [] p \in Listed("add") \ (Listed("modify") \cup Listed("delete")) ->
            IF IsDir(before.pkg, p) THEN "dir" ELSE before.unpacked[p]
       [] OTHER ->
            IF \E q \in Listed("add") : p \in Above[q] /\ ~IsDir(before.pkg, q)
              THEN "dir" ELSE before.pkg[p]]

\* A modification that succeeds has brought the package to the listed state,
\* and has not made a file half.
RdsApplied == RdsEnd({"OK", "CLEANUP_ERROR"}) => pkg = RdsReference

\* The changes that undo() cannot take back: a file is to be added where there is
\* one already, the addition fails, and undo() removes the old one; the same path
\* is changed twice, and restoring goes through the changes from the first on.
Twice(p) == Cardinality({i \in 1..Len(memory.done) : memory.done[i][2] = p}) > 1
CannotBeUndone(p) == (p \in Listed("add") /\ There(before.pkg, p)) \/ Twice(p)

\* After a failed modification every file of the package is what it was but those
\* of changes that cannot be taken back: these do no harm to the others.  Directories
\* made for added files stay; restoring says so when it could not.
RdsRestored ==
  RdsEnd({"ERROR"}) =>
    \A p \in Paths :
      /\ IsFile(pkg, p) \/ IsFile(before.pkg, p)
      /\ \A q \in {p} \cup Above[p] : ~CannotBeUndone(q)
      => pkg[p] = before.pkg[p]

\* The new version: the installed one without what the installer and the running
\* application had put into it, and with the changes of the delta.
DeltaReference ==
  LET gone == Listed("delete") \cup {MountPoint}
              \cup (IF DeltaRoot THEN {} ELSE Storage \cup IconCopies \cup
                      {p \in Paths : before.pkg[p] = "link" /\ ParentOf[p] = BinDir})
  IN [p \in Paths |->
        CASE p \in Listed("add") -> before.unpacked[p]
          [] p \in Listed("modify") \ Listed("add") -> "new"
          [] OTHER -> IF \E q \in Listed("add") : p \in Above[q] THEN "dir"
                      ELSE Without(before.pkg, gone)[p]]

\* A delta that is applied without a failure has rebuilt the new version; the
\* installed one is not touched.  Only removals that fail are not noticed.
DeltaRebuilds ==
  kind # "rds" =>
    /\ pkg = before.pkg
    /\ Step = "Later" /\ phase = "process" /\ {"clear", "delete"} \cap faults = {} =>
         unpacked = DeltaReference
===============================================================================
