------------------------------ MODULE SharedDirs ------------------------------
(***************************************************************************)
(* The directories a package has for each user (shared_dirs.cc) and the    *)
(* operations on them, one action per step of their loops over the users.  *)
(* Two executors may be inside an operation at the same time: the process  *)
(* that serves the D-Bus calls and the installer, which runs an operation  *)
(* itself when its call was not answered with "true".                      *)
(***************************************************************************)
EXTENDS Integers, Sequences, FiniteSets

CONSTANTS
  UserList,     \* the users in the order GetUserList() returns them
  Outsiders,    \* those of them whose primary group is not the group of users
  Depth,        \* a package has the directories 1..Depth for a user; 1 is the root
  FaultBudget   \* how many operations of the environment may fail

Users == {UserList[i] : i \in 1..Len(UserList)}
Global == "GLOBAL_USER"   \* uid of the packages installed for everybody
Executors == {"installer", "service"}
Paths == 1..Depth

ASSUME SharedDirsAssumption ==
  /\ UserList \in Seq(STRING)
  /\ Global \notin Users
  /\ Outsiders \subseteq Users
  /\ Depth \in Nat \ {0}
  /\ FaultBudget \in Nat

VARIABLES
  fs,         \* the directories: skel in /etc/skel, dir, own and label per user,
              \* legacy in /opt/usr/apps, ext on the external card, if there is one
  installed,  \* the users, and Global, for whom the package is in the database
  job,        \* what each executor is doing
  faults,     \* history: the kinds of the failures so far
  budget      \* how many more may happen

Ops == {"CopyUserDirs", "DeleteUserDirs", "CreateExternalDirs", "DeleteExternalDirs",
        "CreateLegacyDirs", "DeleteLegacyDirs"}

\* pc is the next step of the operation for the user at the head of todo; at is
\* the directory that CopyDir() has come to.
NoJob == [op |-> "none", uid |-> Global, todo |-> <<>>, pc |-> "idle", at |-> 1]
NewJob(op, uid) ==
  [op   |-> op, uid |-> uid, at |-> 1,
   todo |-> IF op \in {"CreateLegacyDirs", "DeleteLegacyDirs"} THEN <<>> ELSE UserList,
   pc   |-> CASE op = "CopyUserDirs"     -> "check"
              [] op = "CreateLegacyDirs" -> "make"
              [] op = "DeleteLegacyDirs" -> "check"
              [] OTHER                   -> "user"]

\* A package installed for one user has brought that user's directories, one
\* installed for everybody those of every user.
InitialDisk(private, global, card) ==
  LET Where(cond) == IF cond THEN Paths ELSE {}
      dirs == [u \in Users |-> Where(global \/ u \in private)]
  IN [skel |-> Where(global), skelLabel |-> global, dir |-> dirs, own |-> dirs, label |-> dirs,
      legacy |-> Where(global \/ private # {}), legacyLabel |-> global \/ private # {},
      card |-> card, ext |-> [u \in Users |-> {}]]

NoFault == UNCHANGED <<faults, budget>>
Fault(kind) == budget > 0 /\ budget' = budget - 1 /\ faults' = faults \cup {kind}

-------------------------------------------------------------------------------
(* The steps of an operation; r is what it returns. *)

At(e, op, p) == job[e].op = op /\ job[e].pc = p
User(e) == Head(job[e].todo)
HasUser(e) == job[e].todo # <<>>

Goto(e, p) == job' = [job EXCEPT ![e].pc = p]
Return(e, r) == job' = [job EXCEPT ![e].pc = IF r THEN "true" ELSE "false", ![e].todo = <<>>]
NextUser(e, p) == job' = [job EXCEPT ![e].todo = Tail(@), ![e].pc = p, ![e].at = 1]
Returned(e) == job[e].pc \in {"true", "false"}
Disk(d) == fs' = d /\ UNCHANGED installed

\* The loop over the users is over.
AllUsersDone(e) ==
  /\ job[e].pc \in {"check", "user"} /\ ~HasUser(e) /\ job[e].op # "DeleteLegacyDirs"
  /\ Return(e, TRUE)
  /\ Disk(fs) /\ NoFault

\* QueryIsPackageInstalled()
Has(uid) == uid \in installed

\* What a removal that fails half way leaves.
Remains(dirs) == {{}} \cup {kept \in SUBSET dirs : 1 \in kept}

-------------------------------------------------------------------------------
(* CopyUserDirectories(): CopyDir() without merging, owner, label.  Whatever
   CopyDir() finds in its way makes it return false, and the loop goes on with
   the next user. *)

\* The next directory of the user's copy; after the last one comes the owner.
NextPath(e) ==
  IF job[e].at < Depth THEN job' = [job EXCEPT ![e].pc = "check", ![e].at = @ + 1]
                       ELSE Goto(e, "own")

CopyGone(e) == job[e].at = 1 /\ fs.skel = {}
CopyTaken(e) == job[e].at \in fs.dir[User(e)]

\* Mutant: the loop ends, instead of going on, at a user whose copy is there.
CopyCheckBreaks(e) ==
  /\ At(e, "CopyUserDirs", "check") /\ HasUser(e)
  /\ Disk(fs) /\ NoFault
  /\ \/ CopyGone(e) /\ Return(e, TRUE)
     \/ job[e].at \in fs.skel /\ CopyTaken(e) /\ Return(e, TRUE)
     \/ job[e].at \notin fs.skel /\ ~CopyGone(e) /\ NextPath(e)
     \/ job[e].at \in fs.skel /\ ~CopyTaken(e) /\ Goto(e, "make")

\* Mutant: a copy that is in the way is waited for.
CopyCheckWaits(e) ==
  /\ At(e, "CopyUserDirs", "check") /\ HasUser(e)
  /\ Disk(fs) /\ NoFault
  /\ \/ CopyGone(e) /\ NextUser(e, "check")
     \/ job[e].at \notin fs.skel /\ ~CopyGone(e) /\ NextPath(e)
     \/ job[e].at \in fs.skel /\ ~CopyTaken(e) /\ Goto(e, "make")

CopyCheck(e) ==
  /\ At(e, "CopyUserDirs", "check") /\ HasUser(e)
  /\ Disk(fs) /\ NoFault
  /\ \/ CopyGone(e) /\ NextUser(e, "check")
     \/ job[e].at \in fs.skel /\ CopyTaken(e) /\ NextUser(e, "check")
     \/ job[e].at \notin fs.skel /\ ~CopyGone(e) /\ NextPath(e)
     \/ job[e].at \in fs.skel /\ ~CopyTaken(e) /\ Goto(e, "make")

\* Mutant: the loop ends at the user for whom the copy fails.
CopyMakeBreaks(e) ==
  /\ At(e, "CopyUserDirs", "make")
  /\ \/ /\ Disk([fs EXCEPT !.dir[User(e)] = @ \cup {1, job[e].at}])
        /\ NoFault /\ NextPath(e)
     \/ Fault("copy") /\ Disk(fs) /\ Return(e, TRUE)

\* CreateDir() is content with a directory that has appeared meanwhile.
CopyMake(e) ==
  /\ At(e, "CopyUserDirs", "make")
  /\ \/ /\ Disk([fs EXCEPT !.dir[User(e)] = @ \cup {1, job[e].at}])
        /\ NoFault /\ NextPath(e)
     \/ Fault("copy") /\ Disk(fs) /\ NextUser(e, "check")

\* SetPackageDirectoryOwnerAndPermissions() of the directory and its content.
CopyOwn(e) ==
  /\ At(e, "CopyUserDirs", "own")
  /\ \/ /\ fs.dir[User(e)] # {} /\ NoFault
        /\ Disk([fs EXCEPT !.own[User(e)] = fs.dir[User(e)]])
        /\ Goto(e, "label")
     \/ fs.dir[User(e)] = {} /\ NoFault /\ Disk(fs) /\ Return(e, FALSE)
     \/ Fault("own") /\ Disk(fs) /\ Return(e, FALSE)

\* PreparePathRequest(): a path that is not there is left out.
Labelled(u) == fs.dir[u]

\* RegisterSecurityContextForPath()
CopyLabel(e) ==
  /\ At(e, "CopyUserDirs", "label")
  /\ \/ /\ NoFault /\ NextUser(e, "check")
        /\ Disk([fs EXCEPT !.label[User(e)] = Labelled(User(e))])
     \/ Fault("label") /\ Disk(fs) /\ Return(e, FALSE)

-------------------------------------------------------------------------------
(* The other operations *)

\* DeleteUserDirectories(): ends at the first failure.
DeleteUser(e) ==
  /\ At(e, "DeleteUserDirs", "user") /\ HasUser(e)
  /\ LET u == User(e)
         Left(dirs) == [fs EXCEPT !.dir[u] = dirs, !.own[u] = @ \cap dirs, !.label[u] = @ \cap dirs]
     IN \/ Has(u) /\ Disk(fs) /\ NoFault /\ NextUser(e, "user")
        \/ ~Has(u) /\ Disk(Left({})) /\ NoFault /\ NextUser(e, "user")
        \/ /\ ~Has(u) /\ Fault("delete") /\ Return(e, FALSE)
           /\ \E kept \in Remains(fs.dir[u]) : Disk(Left(kept))

\* The card is there; a user outside the group of users gets no directories.
ExternalWanted(u) == fs.card /\ u \notin Outsiders
\* CreateDirectories(): a package directory that exists is left as it is.
Create(u, n) == [fs EXCEPT !.ext[u] = IF @ = {} THEN 1..n ELSE @]

\* PerformExternalDirectoryCreationForAllUsers(): a failure is only logged.
CreateExternal(e) ==
  /\ At(e, "CreateExternalDirs", "user") /\ HasUser(e)
  /\ NextUser(e, "user")
  /\ \/ ExternalWanted(User(e)) /\ NoFault /\ Disk(Create(User(e), Depth))
     \/ /\ ExternalWanted(User(e)) /\ Fault("external")
        /\ \E n \in 0..Depth-1 : Disk(Create(User(e), n))
     \/ ~ExternalWanted(User(e)) /\ NoFault /\ Disk(fs)

\* PerformExternalDirectoryDeletionForAllUsers(): likewise.
DeleteExternal(e) ==
  /\ At(e, "DeleteExternalDirs", "user") /\ HasUser(e)
  /\ NextUser(e, "user")
  /\ LET u == User(e)
         Removes == ~Has(u) /\ fs.card
     IN \/ Removes /\ NoFault /\ Disk([fs EXCEPT !.ext[u] = {}])
        \/ /\ Removes /\ Fault("external")
           /\ \E kept \in Remains(fs.ext[u]) : Disk([fs EXCEPT !.ext[u] = kept])
        \/ ~Removes /\ NoFault /\ Disk(fs)

CreateLegacyMake(e) ==
  /\ At(e, "CreateLegacyDirs", "make")
  /\ \/ NoFault /\ Disk([fs EXCEPT !.legacy = Paths]) /\ Goto(e, "label")
     \/ /\ Fault("legacy") /\ Return(e, FALSE)
        /\ \E n \in 0..Depth-1 : Disk([fs EXCEPT !.legacy = @ \cup 1..n])

CreateLegacyLabel(e) ==
  /\ At(e, "CreateLegacyDirs", "label")
  /\ \/ NoFault /\ Disk([fs EXCEPT !.legacyLabel = fs.legacy # {}]) /\ Return(e, TRUE)
     \/ Fault("legacy") /\ Disk(fs) /\ Return(e, FALSE)

\* Mutant: only the users of the list are asked, not the global installation.
LegacyWantedUsersOnly(uid) == \E u \in Users \ {uid} : Has(u)

\* DeleteLegacyDirectories(): somebody other than the caller has the package.
LegacyWanted(uid) ==
  \/ \E u \in Users \ {uid} : Has(u)
  \/ uid # Global /\ Has(Global)

DeleteLegacyCheck(e) ==
  /\ At(e, "DeleteLegacyDirs", "check")
  /\ IF UserList = <<>> \/ LegacyWanted(job[e].uid) THEN Return(e, TRUE) ELSE Goto(e, "remove")
  /\ Disk(fs) /\ NoFault

DeleteLegacyRemove(e) ==
  /\ At(e, "DeleteLegacyDirs", "remove")
  /\ Return(e, TRUE)
  /\ \/ NoFault /\ Disk([fs EXCEPT !.legacy = {}, !.legacyLabel = FALSE])
     \/ /\ Fault("legacy")
        /\ \E kept \in Remains(fs.legacy) : Disk([fs EXCEPT !.legacy = kept])

OperationStep(e) ==
  \/ AllUsersDone(e)
  \/ CopyCheck(e) \/ CopyMake(e) \/ CopyOwn(e) \/ CopyLabel(e)
  \/ DeleteUser(e)
  \/ CreateExternal(e) \/ DeleteExternal(e)
  \/ CreateLegacyMake(e) \/ CreateLegacyLabel(e)
  \/ DeleteLegacyCheck(e) \/ DeleteLegacyRemove(e)
===============================================================================
