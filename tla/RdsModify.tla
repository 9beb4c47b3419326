------------------------------- MODULE RdsModify ------------------------------
(***************************************************************************)
(* Rapid development: the list of changes (rds_parser.cc, StepRDSParse)    *)
(* and their application to the installed package, with the backup in /tmp *)
(* that undo() restores (StepRDSModify).                                   *)
(***************************************************************************)
EXTENDS ModificationState

CONSTANTS
  RdsPaths,   \* the paths that occur in lists of changes
  MaxLines    \* how many lines such a list has at most

Headers == [add |-> "#add", modify |-> "#modify", delete |-> "#delete"]
ListOf(line) == {l \in DOMAIN Headers : Headers[l] = line}

\* RDSParser::Parse(): a line goes to the list of the last header above it.
ParseLine(line, acc) ==
  CASE ListOf(line) # {} -> [acc EXCEPT !.into = ListOf(line)]
    [] OTHER -> [acc EXCEPT !.lists =
                   [l \in DOMAIN @ |-> IF l \in acc.into THEN Append(@[l], line) ELSE @[l]]]
Parse(lines) == FoldLeft(LAMBDA acc, line : ParseLine(line, acc),
                         [lists |-> NoLists, into |-> {}], lines).lists

ParsedLists == {Parse(s) : s \in BoundedSeq({"#add", "#modify", "#delete"} \cup RdsPaths, MaxLines)}

\* StepRDSParse: without the file .rds_delta precheck() fails.
RDSParse ==
  /\ Process("RDSParse", "") /\ NoFiles
  /\ \/ NoFault /\ StepOk(NumSteps) /\ \E l \in ParsedLists : memory' = [memory EXCEPT !.lists = l]
     \/ Fault("parse") /\ Fails

-------------------------------------------------------------------------------
(* StepRDSModify::process() *)

\* Mutant: files are deleted before files are added and modified.
OperationsDeleteFirst(l) ==
  Pairs("delete", l.delete) \o Pairs("add", l.add) \o Pairs("modify", l.modify)

Operations(l) ==
  Pairs("add", l.add) \o Pairs("modify", l.modify) \o Pairs("delete", l.delete)

RDSModify ==
  /\ Process("RDSModify", "")
  /\ \/ /\ NoFault /\ Files(pkg, unpacked, NoPaths, temp \cup {"aside"})
        /\ GoOn([memory EXCEPT !.part = "files", !.todo = Operations(memory.lists), !.done = <<>>])
     \/ Fault("setup") /\ NoFiles /\ Fails

Op == Head(memory.todo)[1]
Path == Head(memory.todo)[2]

\* PerformBackup(): for a file that is added nothing but its name is kept.
CanBackUp ==
  \/ Op = "add"
  \/ IsDir(pkg, Path) /\ CanMakeDirs(aside, {Path} \cup Above[Path])
  \/ IsFile(pkg, Path) /\ ~There(aside, Path) /\ CanMakeDirs(aside, Above[Path])
BackedUp ==
  IF Op = "add" THEN aside
  ELSE [MakeDirs(aside, Above[Path]) EXCEPT ![Path] = pkg[Path]]

\* AddFiles(), ModifyFiles(), DeleteFiles(): one file.
CanApply ==
  CASE Op = "add"    -> \/ IsDir(pkg, Path)
                        \/ /\ IsFile(unpacked, Path) /\ ~There(pkg, Path)
                           /\ CanMakeDirs(pkg, Above[Path])
    [] Op = "modify" -> CanCopyOver(unpacked, pkg, Path)
    [] Op = "delete" -> CanRemove(pkg, Path)
\* What a file that cannot be backed up, or added, has been given all the same.
BackupBegun ==
  IF IsDir(pkg, Path) \/ ~CanMakeDirs(aside, Above[Path]) THEN aside
  ELSE MakeDirs(aside, Above[Path])
Begun ==
  IF Op = "add" /\ ~IsDir(pkg, Path) /\ CanMakeDirs(pkg, Above[Path])
    THEN MakeDirs(pkg, Above[Path]) ELSE pkg
Applied(content) ==
  CASE Op = "add"    -> IF IsDir(pkg, Path) THEN pkg
                        ELSE [MakeDirs(pkg, Above[Path]) EXCEPT ![Path] = content]
    [] Op = "modify" -> [pkg EXCEPT ![Path] = content]
    [] Op = "delete" -> Without(pkg, {Path})

RDSModifyFile ==
  /\ Process("RDSModify", "files") /\ memory.todo # <<>>
  /\ LET Noted == [memory EXCEPT !.done = Append(@, <<Op, Path>>)]
         NotedAndFails == memory' = [Noted EXCEPT !.part = "", !.todo = <<>>] /\ StepFails
     IN \/ /\ CanBackUp /\ CanApply /\ NoFault
           /\ Files(Applied(unpacked[Path]), unpacked, BackedUp, temp)
           /\ GoOn([Noted EXCEPT !.todo = Tail(@)])
        \/ /\ CanBackUp /\ ~CanApply /\ NoFault /\ NotedAndFails
           /\ Files(Begun, unpacked, BackedUp, temp)
        \/ /\ Fails /\ Files(pkg, unpacked, BackupBegun, temp)
           /\ (~CanBackUp /\ NoFault) \/ (Op # "add" /\ Fault("backup"))
        \/ /\ CanBackUp /\ CanApply /\ Fault("change") /\ NotedAndFails
           /\ Files(IF Op = "delete" THEN pkg ELSE Applied("torn"), unpacked, BackedUp, temp)

RDSModifyEnds ==
  /\ Process("RDSModify", "files") /\ memory.todo = <<>>
  /\ NoFault /\ NoFiles /\ Ok

-------------------------------------------------------------------------------
(* RestoreFiles(), in the order in which the files were changed; the operations
   of boost throw here, which ends it and leaves the backup, or what its removal
   has not reached. *)

RDSModifyUndo ==
  /\ Undo("RDSModify", "")
  /\ NoFault /\ NoFiles
  /\ GoOn([memory EXCEPT !.part = "files", !.todo = memory.done])

CanRestore ==
  CASE Op = "add"    -> IsDir(aside, Path) \/ CanRemove(pkg, Path)
    [] Op = "modify" -> CanCopyOver(aside, pkg, Path)
    [] Op = "delete" -> IsDir(aside, Path) \/ CanCopyOver(aside, pkg, Path)

\* Mutant: an added file is left where it is.
RestoredKeepsAdded ==
  CASE Op = "add" -> pkg
    [] Op = "modify" -> [pkg EXCEPT ![Path] = aside[Path]]
    [] Op = "delete" -> IF IsDir(aside, Path)
                          THEN MakeDirs(pkg, {Path}) ELSE [pkg EXCEPT ![Path] = aside[Path]]

\* CreateDir() is content with whatever is there, and only logs a failure.
Restored ==
  CASE Op = "add"    -> Without(pkg, {Path})
    [] Op = "modify" -> [pkg EXCEPT ![Path] = aside[Path]]
    [] Op = "delete" ->
         IF ~IsDir(aside, Path) THEN [pkg EXCEPT ![Path] = aside[Path]]
         ELSE IF There(pkg, Path) \/ ~CanMakeDirs(pkg, Above[Path]) THEN pkg
         ELSE MakeDirs(pkg, {Path} \cup Above[Path])

RDSModifyRestore ==
  /\ Undo("RDSModify", "files") /\ memory.todo # <<>>
  /\ \/ /\ CanRestore /\ NoFault /\ Files(Restored, unpacked, aside, temp)
        /\ GoOn([memory EXCEPT !.todo = Tail(@)])
     \/ ~CanRestore /\ NoFault /\ NoFiles /\ Undone(FALSE)
     \/ Fault("restore") /\ NoFiles /\ Undone(FALSE)

RDSModifyRestored ==
  /\ Undo("RDSModify", "files") /\ memory.todo = <<>>
  /\ \/ NoFault /\ Files(pkg, unpacked, NoPaths, temp \ {"aside"}) /\ Undone(TRUE)
     \/ Fault("removeBackup") /\ NoFiles /\ Undone(FALSE)

\* The removal of the backup throws when it fails.
RDSModifyClean ==
  /\ Clean("RDSModify")
  /\ \/ NoFault /\ Files(pkg, unpacked, NoPaths, temp \ {"aside"}) /\ Cleaned
     \/ Fault("removeBackup") /\ NoFiles /\ Reset /\ StepCleanFails
===============================================================================
