---------------------------- MODULE PkgdirToolProofs ----------------------------
(***************************************************************************)
(* What the directory service and the installer that calls it keep, for    *)
(* any list of users, any number of requests and any failures.             *)
(***************************************************************************)
EXTENDS PkgdirTool, SequenceTheorems, TLAPS

Everybody == Users \cup {Global}
Suffixes == {SubSeq(UserList, i, Len(UserList)) : i \in 1..Len(UserList)+1}
LegacyOps == {"CreateLegacyDirs", "DeleteLegacyDirs"}
LoopOps == {"DeleteUserDirs", "CreateExternalDirs", "DeleteExternalDirs"}
Pcs == {"idle", "check", "make", "own", "label", "user", "remove", "true", "false"}

-------------------------------------------------------------------------------
(* The types *)

\* Where an operation can be, and with which users left to serve.
JobShape(j) ==
  /\ j.op = "none" <=> j = NoJob
  /\ j.op = "CopyUserDirs" =>
       /\ j.pc \in {"check", "make", "own", "label", "true", "false"}
       /\ j.pc \in {"make", "own", "label"} => j.todo # <<>>
  /\ j.op \in LoopOps => j.pc \in {"user", "true", "false"}
  /\ j.op = "CreateLegacyDirs" => j.pc \in {"make", "label", "true", "false"} /\ j.todo = <<>>
  /\ j.op = "DeleteLegacyDirs" => j.pc \in {"check", "remove", "true", "false"} /\ j.todo = <<>>

JobTypes == [op : Ops \cup {"none"}, uid : Everybody, todo : Suffixes, pc : Pcs, at : Paths]
JobsOK == job \in [Executors -> JobTypes] /\ \A e \in Executors : JobShape(job[e])

DiskType ==
  [skel : SUBSET Paths, skelLabel : BOOLEAN,
   dir : [Users -> SUBSET Paths], own : [Users -> SUBSET Paths], label : [Users -> SUBSET Paths],
   legacy : SUBSET Paths, legacyLabel : BOOLEAN, card : BOOLEAN, ext : [Users -> SUBSET Paths]]
DiskOK == fs \in DiskType /\ installed \subseteq Everybody
BudgetOK == budget \in 0..FaultBudget

PartNames == Ops \cup {"skel", "skelLabel", "unskel", "files"}
Kinds == {"none", "Install", "Uninstall", "CreateExternal", "DeleteExternal"}

\* The installer waits for, or runs itself, the operation at the head of its list.
ClientOK ==
  /\ client \in [state : {"idle", "next", "waiting", "direct"}, todo : Seq(PartNames),
                 kind : Kinds, uid : Everybody]
  /\ client.state \in {"waiting", "direct"} => client.todo # <<>> /\ Head(client.todo) \in Ops
InstallerOK ==
  /\ client.state = "direct" <=> job["installer"] # NoJob
  /\ job["installer"].op \notin LegacyOps
QueueOK == queue \in Seq([op : Ops, uid : Everybody])
ServiceOK ==
  /\ service \in [up : BOOLEAN, timer : {"armed", "due"}]
  /\ ServiceBusy => service.up
HistoryOK ==
  /\ past \in [private : SUBSET Users, failed : BOOLEAN, overlap : BOOLEAN]
  /\ made \in 0..MaxRequests

TypeInv ==
  DiskOK /\ JobsOK /\ BudgetOK /\ ClientOK /\ InstallerOK /\ QueueOK /\ ServiceOK /\ HistoryOK

-------------------------------------------------------------------------------
(* Lists of users *)

LEMMA ListOfUsers == UserList \in Seq(Users) /\ Len(UserList) \in Nat
  BY SharedDirsAssumption DEF Users

LEMMA SuffixMoves ==
  /\ <<>> \in Suffixes /\ UserList \in Suffixes
  /\ \A s \in Suffixes : s # <<>> => Head(s) \in Users /\ Tail(s) \in Suffixes
<1> DEFINE n == Len(UserList)
<1>1. \A i \in 1..n+1 : i > n => SubSeq(UserList, i, n) = <<>>
  BY ListOfUsers, SubSeqEmpty
<1>2. <<>> \in Suffixes
  BY <1>1, ListOfUsers DEF Suffixes
<1>3. UserList \in Suffixes
  <2>1. SubSeq(UserList, 1, n) = UserList
    BY ListOfUsers, SubSeqFull
  <2> QED
    BY <2>1, ListOfUsers DEF Suffixes
<1>4. ASSUME NEW s \in Suffixes, s # <<>>
      PROVE  Head(s) \in Users /\ Tail(s) \in Suffixes
  <2>1. PICK i \in 1..n+1 : s = SubSeq(UserList, i, n)
    BY DEF Suffixes
  <2>2. i \in 1..n
    BY <1>1, <1>4, <2>1, ListOfUsers
  <2>3. Head(s) = UserList[i] /\ Tail(s) = SubSeq(UserList, i + 1, n)
    BY <2>1, <2>2, ListOfUsers, HeadTailOfSubSeq
  <2>4. UserList[i] \in Users
    BY <2>2 DEF Users
  <2>5. i + 1 \in 1..n+1
    BY <2>2, ListOfUsers
  <2>6. SubSeq(UserList, i + 1, n) \in Suffixes
    BY <2>5 DEF Suffixes
  <2> QED
    BY <2>3, <2>4, <2>6
<1> QED
  BY <1>2, <1>3, <1>4

LEMMA PathsExist == 1 \in Paths /\ Depth \in Nat /\ Depth >= 1
  BY SharedDirsAssumption DEF Paths

-------------------------------------------------------------------------------
(* Jobs *)

LEMMA NewJobTyped ==
  /\ NoJob \in JobTypes /\ JobShape(NoJob)
  /\ \A op \in Ops, uid \in Everybody : NewJob(op, uid) \in JobTypes /\ JobShape(NewJob(op, uid))
<1>1. NoJob \in JobTypes /\ JobShape(NoJob)
  BY SuffixMoves, PathsExist DEF NoJob, JobTypes, JobShape, Everybody, Pcs, LoopOps
<1>2. ASSUME NEW op \in Ops, NEW uid \in Everybody
      PROVE  NewJob(op, uid) \in JobTypes /\ JobShape(NewJob(op, uid))
  <2>1. NewJob(op, uid).op = op /\ op # "none"
    BY DEF NewJob, Ops
  <2>2. NewJob(op, uid) \in JobTypes
    BY SuffixMoves, PathsExist DEF NewJob, JobTypes, Pcs, Ops
  <2>3. JobShape(NewJob(op, uid))
    BY <2>1 DEF NewJob, NoJob, JobShape, LoopOps, Ops
  <2> QED
    BY <2>2, <2>3
<1> QED
  BY <1>1, <1>2

\* The job of an executor goes on to k.
Becomes(e, k) ==
  /\ job' = [job EXCEPT ![e] = k]
  /\ k \in JobTypes /\ JobShape(k) /\ k.op = job[e].op /\ k.uid = job[e].uid

\* A job ends, goes to another step, or to the next user.
LEMMA JobReturns ==
  ASSUME JobsOK, NEW e \in Executors, job[e].op # "none", NEW r, Return(e, r)
  PROVE  \E k : Becomes(e, k) /\ k.pc = (IF r THEN "true" ELSE "false") /\ k.todo = <<>>
<1> DEFINE j == job[e]
           k == [j EXCEPT !.pc = IF r THEN "true" ELSE "false", !.todo = <<>>]
<1>0. job \in [Executors -> JobTypes] /\ j \in JobTypes /\ JobShape(j)
  BY DEF JobsOK
<1>1. job' = [job EXCEPT ![e] = k]
  BY <1>0 DEF Return
<1>2. k \in JobTypes /\ k.op = j.op /\ k.uid = j.uid /\ k.pc \in {"true", "false"} /\ k.todo = <<>>
  BY <1>0, SuffixMoves DEF JobTypes, Pcs
<1>3. JobShape(k)
  BY <1>0, <1>2 DEF JobShape, NoJob, LoopOps
<1> QED
  BY <1>0, <1>1, <1>2, <1>3 DEF Becomes, JobTypes

LEMMA JobGoes ==
  ASSUME JobsOK, NEW e \in Executors, NEW p \in {"make", "label", "remove", "own", "check"},
         NEW at \in Paths,
         job' = [job EXCEPT ![e].pc = p, ![e].at = at],
         \/ p \in {"make", "label", "own", "check"} /\ job[e].op = "CopyUserDirs" /\ HasUser(e)
         \/ p = "label" /\ job[e].op = "CreateLegacyDirs"
         \/ p = "remove" /\ job[e].op = "DeleteLegacyDirs"
  PROVE  \E k : Becomes(e, k) /\ k.pc = p /\ k.todo = job[e].todo
<1> DEFINE j == job[e]
           k == [j EXCEPT !.pc = p, !.at = at]
<1>0. job \in [Executors -> JobTypes] /\ j \in JobTypes /\ JobShape(j)
  BY DEF JobsOK
<1>1. job' = [job EXCEPT ![e] = k]
  BY <1>0
<1>2. k \in JobTypes /\ k.op = j.op /\ k.uid = j.uid /\ k.pc = p /\ k.todo = j.todo
  BY <1>0 DEF JobTypes, Pcs
<1>3. JobShape(k)
  BY <1>0, <1>2 DEF JobShape, NoJob, LoopOps, HasUser
<1> QED
  BY <1>0, <1>1, <1>2, <1>3 DEF Becomes

LEMMA JobServesNext ==
  ASSUME JobsOK, NEW e \in Executors, HasUser(e), NEW p, NextUser(e, p),
         \/ p = "check" /\ job[e].op = "CopyUserDirs"
         \/ p = "user" /\ job[e].op \in LoopOps
  PROVE  \E k : Becomes(e, k) /\ k.pc = p /\ k.todo = Tail(job[e].todo)
<1> DEFINE j == job[e]
           k == [j EXCEPT !.todo = Tail(@), !.pc = p, !.at = 1]
<1>0. job \in [Executors -> JobTypes] /\ j \in JobTypes /\ JobShape(j)
  BY DEF JobsOK
<1>1. job' = [job EXCEPT ![e] = k]
  BY <1>0 DEF NextUser
<1>t. Tail(j.todo) \in Suffixes
  BY <1>0, SuffixMoves DEF HasUser, JobTypes
<1>2. k \in JobTypes /\ k.op = j.op /\ k.uid = j.uid /\ k.pc = p /\ k.todo = Tail(j.todo)
  BY <1>0, <1>t, PathsExist DEF JobTypes, Pcs
<1>3. JobShape(k)
  BY <1>0, <1>2 DEF JobShape, NoJob, LoopOps
<1> QED
  BY <1>0, <1>1, <1>2, <1>3 DEF Becomes

LEMMA BecomesKeeps ==
  ASSUME JobsOK, NEW e \in Executors, NEW k, Becomes(e, k)
  PROVE  /\ JobsOK' /\ job'[e] = k
         /\ \A f \in Executors \ {e} : job'[f] = job[f]
  BY DEF JobsOK, Becomes

-------------------------------------------------------------------------------
(* Operations *)

\* A step of an operation moves the job of its executor, and leaves the database alone.
LEMMA OperationTyped ==
  ASSUME JobsOK, DiskOK, BudgetOK, NEW e \in Executors, OperationStep(e)
  PROVE  /\ job[e].op # "none" /\ \E k : Becomes(e, k)
         /\ DiskOK' /\ installed' = installed /\ BudgetOK'
<1> DEFINE j == job[e]
<1>0. job \in [Executors -> JobTypes] /\ j \in JobTypes /\ JobShape(j)
  BY DEF JobsOK
<1>d. fs \in DiskType /\ installed \subseteq Everybody
  BY DEF DiskOK
<1>b. \A kind : Fault(kind) \/ NoFault => BudgetOK'
  BY SharedDirsAssumption DEF Fault, NoFault, BudgetOK
<1>n. j.pc # "idle" => j.op # "none"
  BY <1>0 DEF JobShape, NoJob
<1>w. \A d : Disk(d) /\ d \in DiskType => DiskOK' /\ installed' = installed
  BY <1>d DEF Disk, DiskOK
<1>r. \A r : Return(e, r) /\ j.op # "none" => \E k : Becomes(e, k)
  BY JobReturns
<1>g. \A p \in {"make", "label", "remove", "own", "check"} :
        /\ Goto(e, p)
        /\ \/ p \in {"make", "label", "own", "check"} /\ j.op = "CopyUserDirs" /\ HasUser(e)
           \/ p = "label" /\ j.op = "CreateLegacyDirs"
           \/ p = "remove" /\ j.op = "DeleteLegacyDirs"
        => \E k : Becomes(e, k)
  <2> SUFFICES ASSUME NEW p \in {"make", "label", "remove", "own", "check"}, Goto(e, p),
                      \/ p \in {"make", "label", "own", "check"} /\ j.op = "CopyUserDirs" /\ HasUser(e)
                      \/ p = "label" /\ j.op = "CreateLegacyDirs"
                      \/ p = "remove" /\ j.op = "DeleteLegacyDirs"
               PROVE  \E k : Becomes(e, k)
    OBVIOUS
  <2>1. job' = [job EXCEPT ![e].pc = p, ![e].at = j.at] /\ j.at \in Paths
    BY <1>0 DEF Goto, JobTypes
  <2> QED
    BY <2>1, JobGoes
<1>p. NextPath(e) /\ j.op = "CopyUserDirs" /\ HasUser(e) => \E k : Becomes(e, k)
  <2> SUFFICES ASSUME NextPath(e), j.op = "CopyUserDirs", HasUser(e)
               PROVE  \E k : Becomes(e, k)
    OBVIOUS
  <2>1. CASE j.at < Depth
    <3>1. j.at + 1 \in Paths
      BY <1>0, <2>1, PathsExist DEF JobTypes, Paths
    <3>2. job' = [job EXCEPT ![e].pc = "check", ![e].at = j.at + 1]
      BY <1>0, <2>1 DEF NextPath
    <3> QED
      BY <3>1, <3>2, JobGoes
  <2>2. CASE ~(j.at < Depth)
    BY <1>g, <2>2 DEF NextPath
  <2> QED
    BY <2>1, <2>2
<1>u. \A p : /\ NextUser(e, p) /\ HasUser(e)
            /\ \/ p = "check" /\ j.op = "CopyUserDirs"
               \/ p = "user" /\ j.op \in LoopOps
            => \E k : Becomes(e, k)
  BY JobServesNext
<1>1. CASE AllUsersDone(e)
  BY <1>1, <1>b, <1>d, <1>n, <1>w, <1>r DEF AllUsersDone
<1>2. CASE CopyCheck(e)
  BY <1>2, <1>b, <1>d, <1>w, <1>r, <1>g, <1>p, <1>u DEF CopyCheck, At
<1>3. CASE CopyMake(e)
  <2>1. j.op = "CopyUserDirs" /\ j.op # "none" /\ HasUser(e) /\ User(e) \in Users /\ j.at \in Paths
    BY <1>0, <1>3, SuffixMoves DEF CopyMake, At, JobShape, HasUser, User, JobTypes
  <2>2. [fs EXCEPT !.dir[User(e)] = @ \cup {1, j.at}] \in DiskType
    BY <1>d, <2>1, PathsExist DEF DiskType
  <2> QED
    BY <1>3, <2>1, <2>2, <1>b, <1>d, <1>w, <1>p, <1>u DEF CopyMake
<1>4. CASE CopyOwn(e)
  <2>1. j.op = "CopyUserDirs" /\ j.op # "none" /\ HasUser(e) /\ User(e) \in Users
    BY <1>0, <1>4, SuffixMoves DEF CopyOwn, At, JobShape, HasUser, User, JobTypes
  <2>2. [fs EXCEPT !.own[User(e)] = fs.dir[User(e)]] \in DiskType
    BY <1>d, <2>1 DEF DiskType
  <2> QED
    BY <1>4, <2>1, <2>2, <1>b, <1>d, <1>w, <1>r, <1>g DEF CopyOwn
<1>5. CASE CopyLabel(e)
  <2>1. j.op = "CopyUserDirs" /\ j.op # "none" /\ HasUser(e) /\ User(e) \in Users
    BY <1>0, <1>5, SuffixMoves DEF CopyLabel, At, JobShape, HasUser, User, JobTypes
  <2>2. [fs EXCEPT !.label[User(e)] = Labelled(User(e))] \in DiskType
    BY <1>d, <2>1 DEF DiskType, Labelled
  <2> QED
    BY <1>5, <2>1, <2>2, <1>b, <1>d, <1>w, <1>r, <1>u DEF CopyLabel
<1>6. CASE DeleteUser(e)
  <2> DEFINE u == User(e)
             Left(dirs) == [fs EXCEPT !.dir[u] = dirs, !.own[u] = @ \cap dirs, !.label[u] = @ \cap dirs]
  <2>1. j.op = "DeleteUserDirs" /\ j.op \in LoopOps /\ j.op # "none" /\ HasUser(e) /\ u \in Users
    BY <1>0, <1>6, SuffixMoves DEF DeleteUser, At, HasUser, User, JobTypes, LoopOps
  <2>2. \A dirs \in SUBSET Paths : Left(dirs) \in DiskType
    BY <1>d, <2>1 DEF DiskType
  <2>3. \A dirs \in Remains(fs.dir[u]) : dirs \in SUBSET Paths
    BY <1>d, <2>1 DEF Remains, DiskType
  <2> HIDE DEF Left
  <2>4. \/ (Disk(fs) \/ Disk(Left({}))) /\ NoFault /\ NextUser(e, "user")
        \/ Fault("delete") /\ Return(e, FALSE) /\ \E kept \in Remains(fs.dir[u]) : Disk(Left(kept))
    BY <1>6 DEF DeleteUser, Left
  <2> QED
    BY <2>1, <2>2, <2>3, <2>4, <1>b, <1>d, <1>w, <1>r, <1>u
<1>7. CASE CreateExternal(e)
  <2>1. j.op = "CreateExternalDirs" /\ j.op \in LoopOps /\ j.op # "none" /\ HasUser(e) /\ User(e) \in Users
    BY <1>0, <1>7, SuffixMoves DEF CreateExternal, At, HasUser, User, JobTypes, LoopOps
  <2>2. \A n \in 0..Depth : Create(User(e), n) \in DiskType
    BY <1>d, <2>1, PathsExist DEF DiskType, Create, Paths
  <2>3. Depth \in 0..Depth /\ 0..Depth-1 \subseteq 0..Depth
    BY PathsExist
  <2> QED
    BY <1>7, <2>1, <2>2, <2>3, <1>b, <1>d, <1>w, <1>u DEF CreateExternal
<1>8. CASE DeleteExternal(e)
  <2> DEFINE u == User(e)
             Kept(dirs) == [fs EXCEPT !.ext[u] = dirs]
  <2>1. j.op = "DeleteExternalDirs" /\ j.op \in LoopOps /\ j.op # "none" /\ HasUser(e) /\ u \in Users
    BY <1>0, <1>8, SuffixMoves DEF DeleteExternal, At, HasUser, User, JobTypes, LoopOps
  <2>2. \A dirs \in SUBSET Paths : Kept(dirs) \in DiskType
    BY <1>d, <2>1 DEF DiskType
  <2>3. \A dirs \in Remains(fs.ext[u]) : dirs \in SUBSET Paths
    BY <1>d, <2>1 DEF Remains, DiskType
  <2> HIDE DEF Kept
  <2>4. /\ NextUser(e, "user")
        /\ \/ (Disk(fs) \/ Disk(Kept({}))) /\ NoFault
           \/ Fault("external") /\ \E kept \in Remains(fs.ext[u]) : Disk(Kept(kept))
    BY <1>8 DEF DeleteExternal, Kept
  <2> QED
    BY <2>1, <2>2, <2>3, <2>4, <1>b, <1>d, <1>w, <1>u
<1>9. CASE CreateLegacyMake(e)
  <2>1. j.op = "CreateLegacyDirs" /\ j.op # "none"
    BY <1>9 DEF CreateLegacyMake, At
  <2>2. [fs EXCEPT !.legacy = Paths] \in DiskType
    BY <1>d DEF DiskType
  <2>3. \A n \in 0..Depth-1 : [fs EXCEPT !.legacy = @ \cup 1..n] \in DiskType
    BY <1>d, PathsExist DEF DiskType, Paths
  <2> QED
    BY <1>9, <2>1, <2>2, <2>3, <1>b, <1>w, <1>g, <1>r DEF CreateLegacyMake
<1>10. CASE CreateLegacyLabel(e)
  <2>1. j.op = "CreateLegacyDirs" /\ j.op # "none"
    BY <1>10 DEF CreateLegacyLabel, At
  <2>2. [fs EXCEPT !.legacyLabel = fs.legacy # {}] \in DiskType
    BY <1>d DEF DiskType
  <2> QED
    BY <1>10, <2>1, <2>2, <1>b, <1>d, <1>w, <1>r DEF CreateLegacyLabel
<1>11. CASE DeleteLegacyCheck(e)
  BY <1>11, <1>b, <1>d, <1>w, <1>g, <1>r DEF DeleteLegacyCheck, At
<1>12. CASE DeleteLegacyRemove(e)
  <2>1. j.op # "none"
    BY <1>12 DEF DeleteLegacyRemove, At
  <2>2. [fs EXCEPT !.legacy = {}, !.legacyLabel = FALSE] \in DiskType
    BY <1>d DEF DiskType
  <2>3. \A kept \in Remains(fs.legacy) : [fs EXCEPT !.legacy = kept] \in DiskType
    BY <1>d DEF DiskType, Remains
  <2> QED
    BY <1>12, <2>1, <2>2, <2>3, <1>b, <1>w, <1>r DEF DeleteLegacyRemove
<1> QED
  BY <1>1, <1>2, <1>3, <1>4, <1>5, <1>6, <1>7, <1>8, <1>9, <1>10, <1>11, <1>12 DEF OperationStep

-------------------------------------------------------------------------------
(* The installer and the service *)

LEMMA PartsTyped ==
  ASSUME NEW kind \in Kinds \ {"none"}, NEW uid \in Everybody
  PROVE  Parts(kind, uid) \in Seq(PartNames)
<1>1. /\ <<"skel", "skelLabel", "CopyUserDirs", "CreateLegacyDirs">> \in Seq(PartNames)
      /\ <<"unskel", "DeleteUserDirs", "DeleteLegacyDirs">> \in Seq(PartNames)
      /\ <<"files", "DeleteLegacyDirs">> \in Seq(PartNames)
      /\ <<"CreateExternalDirs">> \in Seq(PartNames)
      /\ <<"DeleteExternalDirs">> \in Seq(PartNames)
  BY DEF PartNames, Ops
<1> HIDE DEF PartNames
<1>2. kind \in {"Install", "Uninstall", "CreateExternal", "DeleteExternal"}
  BY DEF Kinds
<1> QED
  BY <1>1, <1>2 DEF Parts

\* The head of the list is done with.
LEMMA NextPartTyped ==
  ASSUME ClientOK, client.todo # <<>>, NextPart
  PROVE  /\ ClientOK' /\ client'.state = "next" /\ client'.todo = Tail(client.todo)
         /\ client'.kind = client.kind /\ client'.uid = client.uid
<1>1. Tail(client.todo) \in Seq(PartNames)
  BY DEF ClientOK
<1> QED
  BY <1>1 DEF ClientOK, NextPart

\* Without the answer "true" the installer goes on, or does it itself.
LEMMA NoTrueTyped ==
  ASSUME ClientOK, client.todo # <<>>, Head(client.todo) \in Ops, NEW jobs, NoTrue(jobs),
         jobs \in [Executors -> JobTypes], \A e \in Executors : JobShape(jobs[e]),
         jobs["installer"] = NoJob
  PROVE  /\ ClientOK' /\ JobsOK' /\ InstallerOK'
         /\ job'["service"] = jobs["service"]
<1> DEFINE op == Head(client.todo)
           j == NewJob(op, client.uid)
<1>0. "installer" \in Executors /\ "service" \in Executors /\ "installer" # "service"
  BY DEF Executors
<1>n. NoJob.op = "none" /\ "none" \notin Ops
  BY DEF NoJob, Ops
<1>1. CASE IgnoresAnswer(op) /\ NextPart /\ job' = jobs
  <2>1. ClientOK' /\ client'.state = "next"
    BY <1>1, NextPartTyped
  <2> QED
    BY <1>0, <1>1, <1>n, <2>1 DEF JobsOK, InstallerOK, LegacyOps, Ops
<1>2. CASE /\ ~IgnoresAnswer(op)
           /\ client' = [client EXCEPT !.state = "direct"]
           /\ job' = [jobs EXCEPT !["installer"] = j]
  <2>1. j \in JobTypes /\ JobShape(j) /\ j.op = op /\ client.uid \in Everybody
    BY NewJobTyped DEF ClientOK, NewJob
  <2>2. ClientOK' /\ client'.state = "direct"
    BY <1>2 DEF ClientOK
  <2>3. JobsOK' /\ job'["installer"] = j /\ job'["service"] = jobs["service"]
    BY <1>0, <1>2, <2>1 DEF JobsOK
  <2>4. j # NoJob /\ op \notin LegacyOps
    BY <1>2, <1>n, <2>1 DEF IgnoresAnswer, LegacyOps
  <2> QED
    BY <2>1, <2>2, <2>3, <2>4 DEF InstallerOK
<1> QED
  BY <1>1, <1>2 DEF NoTrue

\* The service has answered; the installer may have waited for it.
LEMMA AnswerTyped ==
  ASSUME ClientOK, JobsOK, InstallerOK, Answer
  PROVE  ClientOK' /\ JobsOK' /\ InstallerOK' /\ job'["service"] = NoJob
<1>0. "installer" \in Executors /\ "service" \in Executors /\ "installer" # "service"
  BY DEF Executors
<1>1. /\ HandledJobs \in [Executors -> JobTypes] /\ \A e \in Executors : JobShape(HandledJobs[e])
      /\ HandledJobs["installer"] = job["installer"] /\ HandledJobs["service"] = NoJob
  BY <1>0, NewJobTyped DEF HandledJobs, JobsOK
<1>2. CASE job' = HandledJobs /\ UNCHANGED client
  BY <1>1, <1>2 DEF ClientOK, JobsOK, InstallerOK
<1>3. CASE Awaited
  <2>1. /\ client.state = "waiting" /\ client.todo # <<>> /\ Head(client.todo) \in Ops
        /\ job["installer"] = NoJob
    BY <1>3 DEF Awaited, ClientOK, InstallerOK
  <2>2. CASE job' = HandledJobs /\ NextPart
    <3>1. ClientOK' /\ client'.state = "next"
      BY <2>1, <2>2, NextPartTyped
    <3> QED
      BY <1>1, <2>1, <2>2, <3>1 DEF JobsOK, InstallerOK
  <2>3. CASE NoTrue(HandledJobs)
    BY <1>1, <2>1, <2>3, NoTrueTyped
  <2> QED
    BY <1>2, <1>3, <2>2, <2>3 DEF Answer
<1> QED
  BY <1>2, <1>3 DEF Answer

\* A request ends with an error.
LEMMA RequestFailsTyped ==
  ASSUME ClientOK, DiskOK, HistoryOK, RequestFails, made' = made
  PROVE  ClientOK' /\ HistoryOK' /\ installed' \subseteq Everybody /\ client'.state = "idle"
<1>1. ClientOK' /\ client'.state = "idle"
  BY DEF RequestFails, IdleClient, ClientOK, Everybody, Kinds
<1>2. HistoryOK'
  BY DEF RequestFails, HistoryOK
<1>3. installed' \subseteq Everybody
  BY DEF RequestFails, ClientOK, DiskOK, Everybody
<1> QED
  BY <1>1, <1>2, <1>3

LEMMA TypeInvInit == Init => TypeInv
<1> SUFFICES ASSUME Init
             PROVE  TypeInv
  OBVIOUS
<1>1. HistoryOK
  <2>1. past \in [private : SUBSET Users, failed : BOOLEAN, overlap : BOOLEAN]
    BY DEF Init
  <2> QED
    BY <2>1, PkgdirToolAssumption DEF Init, HistoryOK
<1>2. PICK global \in BOOLEAN, card \in BOOLEAN :
        /\ installed = past.private \cup (IF global THEN {Global} ELSE {})
        /\ fs = InitialDisk(past.private, global, card)
  BY DEF Init
<1>3. DiskOK
  BY <1>1, <1>2, PathsExist DEF DiskOK, DiskType, InitialDisk, HistoryOK, Everybody
<1>4. JobsOK /\ job["installer"] = NoJob /\ job["service"] = NoJob
  BY NewJobTyped DEF Init, JobsOK, Executors
<1>5. BudgetOK
  BY SharedDirsAssumption DEF Init, BudgetOK
<1>6. ClientOK /\ InstallerOK
  BY <1>4 DEF Init, ClientOK, InstallerOK, IdleClient, Everybody, Kinds, NoJob, LegacyOps
<1>7. QueueOK /\ ServiceOK
  BY <1>4 DEF Init, QueueOK, ServiceOK, ServiceBusy
<1> QED
  BY <1>1, <1>3, <1>4, <1>5, <1>6, <1>7 DEF TypeInv

LEMMA TypeInvStep == TypeInv /\ [Next]_vars => TypeInv'
<1> SUFFICES ASSUME TypeInv, [Next]_vars
             PROVE  TypeInv'
  OBVIOUS
<1>t. DiskOK /\ JobsOK /\ BudgetOK /\ ClientOK /\ InstallerOK /\ QueueOK /\ ServiceOK /\ HistoryOK
  BY DEF TypeInv
<1>b. \A kind : Fault(kind) \/ NoFault => BudgetOK'
  BY <1>t, SharedDirsAssumption DEF Fault, NoFault, BudgetOK
<1>f. \A d : d \in DiskType /\ fs' = d /\ UNCHANGED installed => DiskOK'
  BY <1>t DEF DiskOK
<1>d. fs \in DiskType
  BY <1>t DEF DiskOK
<1>e. "installer" \in Executors /\ "service" \in Executors /\ "installer" # "service"
  BY DEF Executors
<1>l. Local => QueueOK' /\ made' = made /\ service' = service
  BY <1>t DEF Local, QueueOK
<1>k. \A p : Doing(p) => client.todo # <<>> /\ Head(client.todo) = p /\ client.state = "next"
  BY DEF Doing
\* A step that leaves all but the installer's list, the disk and the faults alone.
<1>p. ASSUME NextPart, client.todo # <<>>, client.state = "next",
             UNCHANGED <<job, past, installed>>, Local, fs' \in DiskType, BudgetOK'
      PROVE  TypeInv'
  <2>1. ClientOK' /\ client'.state = "next"
    BY <1>t, <1>p, NextPartTyped
  <2>2. JobsOK' /\ InstallerOK' /\ ServiceOK'
    BY <1>t, <1>p, <1>l, <2>1 DEF JobsOK, InstallerOK, ServiceOK, ServiceBusy
  <2> QED
    BY <1>t, <1>p, <1>l, <1>f, <2>1, <2>2 DEF TypeInv, HistoryOK
\* A request fails: its job in the installer, if any, is over.
<1>q. ASSUME RequestFails, Local, fs' \in DiskType, BudgetOK',
             job' = [job EXCEPT !["installer"] = NoJob] \/ (job' = job /\ job["installer"] = NoJob)
      PROVE  TypeInv'
  <2>1. ClientOK' /\ HistoryOK' /\ installed' \subseteq Everybody /\ client'.state = "idle"
    BY <1>t, <1>q, <1>l, RequestFailsTyped
  <2>2. JobsOK' /\ job'["installer"] = NoJob /\ job'["service"] = job["service"]
    BY <1>t, <1>q, <1>e, NewJobTyped DEF JobsOK
  <2>3. InstallerOK' /\ ServiceOK'
    BY <1>t, <1>l, <1>q, <2>1, <2>2 DEF InstallerOK, ServiceOK, ServiceBusy, NoJob, LegacyOps
  <2> QED
    BY <1>q, <1>l, <2>1, <2>2, <2>3 DEF TypeInv, DiskOK
<1>1. CASE UNCHANGED vars
  BY <1>t, <1>1
  DEF TypeInv, vars, DiskOK, JobsOK, BudgetOK, ClientOK, InstallerOK, QueueOK, ServiceOK,
      ServiceBusy, HistoryOK
<1>2. CASE RequestStep
  <2>1. PICK kind \in Kinds \ {"none"}, uid \in Everybody : Request(kind, uid)
    BY <1>2 DEF RequestStep, Kinds, Everybody
  <2>2. ClientOK' /\ client'.state = "next"
    BY <2>1, PartsTyped DEF Request, ClientOK
  <2>3. DiskOK' /\ HistoryOK'
    BY <1>t, <2>1, PkgdirToolAssumption DEF Request, DiskOK, HistoryOK, Everybody
  <2>4. JobsOK' /\ InstallerOK' /\ ServiceOK' /\ QueueOK'
    BY <1>t, <2>1, <2>2
    DEF Request, JobsOK, InstallerOK, ServiceOK, ServiceBusy, QueueOK
  <2> QED
    BY <1>b, <2>1, <2>2, <2>3, <2>4 DEF Request, TypeInv
<1>3. CASE SkelMake
  <2>1. client.todo # <<>> /\ client.state = "next" /\ job["installer"] = NoJob /\ Local /\ job' = job
    BY <1>3, <1>k, <1>t DEF SkelMake, InstallerOK
  <2>2. fs' \in DiskType
    <3>1. [fs EXCEPT !.skel = Paths] \in DiskType
      BY <1>d DEF DiskType
    <3>2. \A n \in 0..Depth-1 : [fs EXCEPT !.skel = @ \cup 1..n] \in DiskType
      BY <1>d, PathsExist DEF DiskType, Paths
    <3> QED
      BY <1>3, <3>1, <3>2 DEF SkelMake
  <2> QED
    BY <1>3, <1>b, <1>p, <1>q, <2>1, <2>2 DEF SkelMake
<1>4. CASE SkelLabel
  <2>1. client.todo # <<>> /\ client.state = "next" /\ job["installer"] = NoJob /\ Local /\ job' = job
    BY <1>4, <1>k, <1>t DEF SkelLabel, InstallerOK
  <2>2. fs' \in DiskType
    BY <1>4, <1>d DEF SkelLabel, DiskType
  <2> QED
    BY <1>4, <1>b, <1>p, <1>q, <2>1, <2>2 DEF SkelLabel
<1>5. CASE SkelDelete
  <2>1. client.todo # <<>> /\ client.state = "next" /\ job["installer"] = NoJob /\ Local /\ job' = job
    BY <1>5, <1>k, <1>t DEF SkelDelete, InstallerOK
  <2>2. fs' \in DiskType
    BY <1>5, <1>d DEF SkelDelete, DiskType, Remains
  <2> QED
    BY <1>5, <1>b, <1>p, <1>q, <2>1, <2>2 DEF SkelDelete
<1>6. CASE RemoveFiles
  <2>1. client.todo # <<>> /\ client.state = "next"
    BY <1>6, <1>k DEF RemoveFiles
  <2>2. fs' \in DiskType
    BY <1>6, <1>d DEF RemoveFiles, DiskType
  <2> QED
    BY <1>6, <1>b, <1>p, <2>1, <2>2 DEF RemoveFiles
<1>7. CASE Send
  <2>1. PICK op \in Ops : Doing(op) /\ queue' = Append(queue, [op |-> op, uid |-> client.uid])
    BY <1>7 DEF Send
  <2>2. client.todo # <<>> /\ Head(client.todo) \in Ops /\ client.state = "next"
    BY <1>k, <2>1
  <2>3. client' = [client EXCEPT !.state = "waiting"] /\ client.uid \in Everybody
    BY <1>7, <1>t DEF Send, ClientOK
  <2>4. ClientOK' /\ client'.state = "waiting"
    BY <1>t, <2>2, <2>3 DEF ClientOK
  <2>5. QueueOK'
    BY <1>t, <2>1, <2>3 DEF QueueOK
  <2>6. UNCHANGED <<fs, installed, job, service, made, past>> /\ BudgetOK'
    BY <1>7, <1>b DEF Send
  <2>7. DiskOK' /\ JobsOK' /\ InstallerOK' /\ ServiceOK' /\ HistoryOK'
    BY <1>t, <2>2, <2>4, <2>6 DEF DiskOK, JobsOK, InstallerOK, ServiceOK, ServiceBusy, HistoryOK
  <2> QED
    BY <2>4, <2>5, <2>6, <2>7 DEF TypeInv
<1>8. CASE DirectReturns
  <2>1. client.todo # <<>> /\ client.state = "direct" /\ Local /\ fs' = fs /\ BudgetOK'
    BY <1>8, <1>t, <1>b DEF DirectReturns, ClientOK
  <2>2. job' = [job EXCEPT !["installer"] = NoJob]
    BY <1>8 DEF DirectReturns
  <2>3. CASE NextPart /\ UNCHANGED <<installed, past>>
    <3>1. ClientOK' /\ client'.state = "next"
      BY <1>t, <2>1, <2>3, NextPartTyped
    <3>2. JobsOK' /\ job'["installer"] = NoJob /\ job'["service"] = job["service"]
      BY <1>t, <1>e, <2>2, NewJobTyped DEF JobsOK
    <3>3. InstallerOK' /\ ServiceOK' /\ QueueOK'
      BY <1>t, <1>l, <2>1, <3>1, <3>2 DEF InstallerOK, ServiceOK, ServiceBusy, NoJob, LegacyOps
    <3>4. DiskOK' /\ HistoryOK'
      BY <1>t, <1>l, <2>1, <2>3 DEF DiskOK, HistoryOK
    <3> QED
      BY <2>1, <3>1, <3>2, <3>3, <3>4 DEF TypeInv
  <2>4. CASE RequestFails
    BY <1>d, <1>q, <2>1, <2>2, <2>4
  <2> QED
    BY <1>8, <2>3, <2>4 DEF DirectReturns
<1>9. CASE RequestEnds
  <2>1. client' = IdleClient /\ client.state = "next" /\ BudgetOK'
    BY <1>9, <1>b DEF RequestEnds
  <2>2. UNCHANGED <<fs, installed, job, queue, service, made, past>>
    BY <1>9 DEF RequestEnds
  <2>3. ClientOK' /\ client'.state = "idle"
    BY <2>1 DEF ClientOK, IdleClient, Kinds, Everybody
  <2>4. DiskOK' /\ JobsOK' /\ InstallerOK' /\ QueueOK' /\ ServiceOK' /\ HistoryOK'
    BY <1>t, <2>1, <2>2, <2>3
    DEF DiskOK, JobsOK, InstallerOK, QueueOK, ServiceOK, ServiceBusy, HistoryOK
  <2> QED
    BY <2>1, <2>3, <2>4 DEF TypeInv
<1>10. CASE \E e \in Executors : Operation(e)
  <2>1. PICK e \in Executors : Operation(e)
    BY <1>10
  <2>2. /\ OperationStep(e) /\ UNCHANGED <<queue, service, client, made>>
        /\ past' = [past EXCEPT !.overlap = @ \/ Overlap]
    BY <2>1 DEF Operation
  <2>3. /\ job[e].op # "none" /\ DiskOK' /\ BudgetOK'
        /\ \E k : Becomes(e, k)
    BY <1>t, <2>2, OperationTyped
  <2>4. PICK k : Becomes(e, k)
    BY <2>3
  <2>5. JobsOK' /\ job'[e] = k /\ k.op = job[e].op /\ \A g \in Executors \ {e} : job'[g] = job[g]
    BY <1>t, <2>4, BecomesKeeps DEF Becomes
  <2>6. \A g \in Executors : job'[g].op = job[g].op /\ (job'[g] = NoJob <=> job[g] = NoJob)
    BY <1>t, <2>3, <2>5 DEF JobsOK, JobShape
  <2>7. ClientOK' /\ InstallerOK' /\ QueueOK' /\ ServiceOK'
    BY <1>t, <1>e, <2>2, <2>6 DEF ClientOK, InstallerOK, QueueOK, ServiceOK, ServiceBusy
  <2>8. HistoryOK'
    <3>1. [past EXCEPT !.overlap = @ \/ Overlap] \in [private : SUBSET Users, failed : BOOLEAN, overlap : BOOLEAN]
      BY <1>t DEF HistoryOK
    <3> QED
      BY <1>t, <2>2, <3>1 DEF HistoryOK
  <2> QED
    BY <2>3, <2>5, <2>7, <2>8 DEF TypeInv
<1>11. CASE ServiceStarts \/ TimerElapses
  <2>1. /\ UNCHANGED <<fs, installed, job, queue, client, made, past>> /\ BudgetOK'
        /\ service' \in [up : BOOLEAN, timer : {"armed", "due"}] /\ service'.up
    <3>1. CASE ServiceStarts
      BY <1>b, <3>1 DEF ServiceStarts
    <3>2. CASE TimerElapses
      <4>1. service.up /\ service' = [service EXCEPT !.timer = "due"]
        BY <3>2 DEF TimerElapses
      <4>2. service' \in [up : BOOLEAN, timer : {"armed", "due"}] /\ service'.up
        BY <1>t, <4>1 DEF ServiceOK
      <4> QED
        BY <1>b, <3>2, <4>2 DEF TimerElapses
    <3> QED
      BY <1>11, <3>1, <3>2
  <2>2. DiskOK' /\ JobsOK' /\ ClientOK' /\ InstallerOK' /\ QueueOK' /\ ServiceOK' /\ HistoryOK'
    BY <1>t, <2>1
    DEF DiskOK, JobsOK, ClientOK, InstallerOK, QueueOK, ServiceOK, ServiceBusy, HistoryOK
  <2> QED
    BY <2>1, <2>2 DEF TypeInv
<1>12. CASE TakeCall
  <2> DEFINE c == Head(queue)
  <2>1. queue # <<>> /\ queue' = Tail(queue) /\ UNCHANGED <<fs, installed, service, client, made, past>>
    BY <1>12 DEF TakeCall
  <2>2. c.op \in Ops /\ c.uid \in Everybody /\ QueueOK'
    <3>1. c \in [op : Ops, uid : Everybody] /\ Tail(queue) \in Seq([op : Ops, uid : Everybody])
      BY <1>t, <2>1, HeadTailProperties DEF QueueOK
    <3> QED
      BY <2>1, <3>1 DEF QueueOK
  <2>3. NewJob(c.op, c.uid) \in JobTypes /\ JobShape(NewJob(c.op, c.uid))
    BY <2>2, NewJobTyped
  <2>4. \E j \in JobTypes : job' = [job EXCEPT !["service"] = j] /\ JobShape(j)
    <3>1. CASE job' = [job EXCEPT !["service"] = NewJob(c.op, c.uid)]
      BY <2>3, <3>1
    <3>2. CASE /\ c.op = "DeleteLegacyDirs"
               /\ job' = [job EXCEPT !["service"] = [NewJob(c.op, c.uid) EXCEPT !.pc = "false"]]
      <4> DEFINE j == [NewJob(c.op, c.uid) EXCEPT !.pc = "false"]
      <4>1. j \in JobTypes /\ j.op = "DeleteLegacyDirs" /\ j.pc = "false" /\ j.todo = <<>>
        BY <2>3, <3>2 DEF JobTypes, NewJob, Pcs
      <4>2. JobShape(j)
        BY <4>1 DEF JobShape, NoJob, LoopOps
      <4> QED
        BY <3>2, <4>1, <4>2
    <3> QED
      BY <1>12, <3>1, <3>2 DEF TakeCall
  <2>5. JobsOK' /\ job'["installer"] = job["installer"]
    BY <1>t, <1>e, <2>4 DEF JobsOK
  <2>6. BudgetOK' /\ service.up
    BY <1>12, <1>b DEF TakeCall
  <2>7. DiskOK' /\ ClientOK' /\ InstallerOK' /\ ServiceOK' /\ HistoryOK'
    BY <1>t, <2>1, <2>5, <2>6 DEF DiskOK, ClientOK, InstallerOK, ServiceOK, HistoryOK
  <2> QED
    BY <2>2, <2>5, <2>6, <2>7 DEF TypeInv
<1>13. CASE Reply
  <2>1. /\ UNCHANGED <<fs, installed, queue, made, past>> /\ BudgetOK'
        /\ service' = [service EXCEPT !.timer = "armed"]
    BY <1>13, <1>b DEF Reply
  <2>2. ClientOK' /\ JobsOK' /\ InstallerOK' /\ job'["service"] = NoJob
    BY <1>13, <1>t, AnswerTyped DEF Reply
  <2>3. DiskOK' /\ QueueOK' /\ ServiceOK' /\ HistoryOK'
    BY <1>t, <2>1, <2>2 DEF DiskOK, QueueOK, ServiceOK, ServiceBusy, HistoryOK
  <2> QED
    BY <2>1, <2>2, <2>3 DEF TypeInv
<1>14. CASE SendFails \/ TimesOut
  <2>1. client.todo # <<>> /\ Head(client.todo) \in Ops /\ client.state \in {"next", "waiting"}
    BY <1>14, <1>t, <1>k DEF SendFails, TimesOut, ClientOK
  <2>2. job["installer"] = NoJob /\ NoTrue(job) /\ BudgetOK'
    BY <1>14, <1>t, <1>b, <2>1 DEF SendFails, TimesOut, InstallerOK
  <2>3. UNCHANGED <<fs, installed, queue, service, made, past>>
    BY <1>14 DEF SendFails, TimesOut
  <2>4. ClientOK' /\ JobsOK' /\ InstallerOK' /\ job'["service"] = job["service"]
    BY <1>t, <2>1, <2>2, NoTrueTyped DEF JobsOK
  <2>5. DiskOK' /\ QueueOK' /\ ServiceOK' /\ HistoryOK'
    BY <1>t, <2>3, <2>4 DEF DiskOK, QueueOK, ServiceOK, ServiceBusy, HistoryOK
  <2> QED
    BY <2>2, <2>4, <2>5 DEF TypeInv
<1>15. CASE InstallerDies
  BY <1>15, <1>d, <1>b, <1>q DEF InstallerDies
<1>16. CASE ServiceQuits \/ ServiceDies
  <2>1. PICK jobs : Stops(jobs) /\ (jobs = HandledJobs \/ (jobs = job /\ ~ServiceBusy))
    BY <1>16 DEF ServiceQuits, ServiceDies
  <2>2. BudgetOK'
    BY <1>16, <1>b, <1>t DEF ServiceQuits, ServiceDies, BudgetOK
  <2>3. /\ jobs \in [Executors -> JobTypes] /\ \A e \in Executors : JobShape(jobs[e])
        /\ jobs["installer"] = job["installer"] /\ jobs["service"] = NoJob
    BY <1>t, <1>e, <2>1, NewJobTyped DEF HandledJobs, ServiceBusy, JobsOK
  <2>4. service' = Down /\ queue' = <<>> /\ UNCHANGED <<fs, installed, made, past>>
    BY <2>1 DEF Stops
  <2>5. ClientOK' /\ JobsOK' /\ InstallerOK' /\ job'["service"] = NoJob
    <3>1. CASE client.state = "waiting"
      <4>1. jobs["installer"] = NoJob /\ client.todo # <<>> /\ Head(client.todo) \in Ops /\ NoTrue(jobs)
        BY <1>t, <2>1, <2>3, <3>1 DEF InstallerOK, ClientOK, Stops
      <4> QED
        BY <1>t, <2>3, <4>1, NoTrueTyped
    <3>2. CASE client.state # "waiting"
      <4>1. job' = jobs /\ client' = client
        BY <2>1, <3>2 DEF Stops
      <4> QED
        BY <1>t, <2>3, <4>1 DEF ClientOK, JobsOK, InstallerOK
    <3> QED
      BY <3>1, <3>2
  <2>6. DiskOK' /\ QueueOK' /\ ServiceOK' /\ HistoryOK'
    BY <1>t, <2>4, <2>5 DEF DiskOK, QueueOK, ServiceOK, ServiceBusy, HistoryOK, Down
  <2> QED
    BY <2>2, <2>5, <2>6 DEF TypeInv
<1> QED
  BY <1>1, <1>2, <1>3, <1>4, <1>5, <1>6, <1>7, <1>8, <1>9, <1>10, <1>11, <1>12, <1>13, <1>14,
     <1>15, <1>16, <1>e DEF Next, InstallerStep, ServiceStep

\* The processes keep the shape of what they share, whatever fails or dies.
THEOREM PkgdirTypeInvariant == Spec => []TypeInv
<1>1. TypeInv /\ [Next]_vars => TypeInv'
  BY TypeInvStep
<1> QED
  BY <1>1, TypeInvInit, PTL DEF Spec

\* An operation has the users left to serve that its list ends with; the installer
\* runs one itself exactly when it says so, the service is up when it is busy.
THEOREM PkgdirTypeOKHolds == Spec => []TypeOK
<1>1. TypeInv => TypeOK
  <2> SUFFICES ASSUME TypeInv
               PROVE  TypeOK
    OBVIOUS
  <2>1. \A e \in Executors : job[e] \in JobTypes
    BY DEF TypeInv, JobsOK
  <2>2. \A i \in 1..Len(queue) : queue[i].op \in Ops /\ queue[i].uid \in Users \cup {Global}
    <3>1. queue \in Seq([op : Ops, uid : Everybody])
      BY DEF TypeInv, QueueOK
    <3>2. \A i \in 1..Len(queue) : queue[i] \in [op : Ops, uid : Everybody]
      BY <3>1, ElementOfSeq
    <3> QED
      BY <3>2 DEF Everybody
  <2>3. \A e \in Executors :
       /\ job[e].op \in Ops \cup {"none"} /\ job[e].at \in Paths
       /\ \E i \in 1..Len(UserList)+1 : job[e].todo = SubSeq(UserList, i, Len(UserList))
       /\ job[e].pc \in {"idle", "check", "make", "own", "label", "user", "remove", "true", "false"}
    BY <2>1 DEF JobTypes, Suffixes, Pcs
  <2>4. fs \in DiskType /\ installed \subseteq Users \cup {Global}
    BY DEF TypeInv, DiskOK, Everybody
  <2>5. /\ client.state \in {"idle", "next", "waiting", "direct"}
        /\ client.state = "direct" <=> job["installer"] # NoJob
        /\ service.up \in BOOLEAN /\ service.timer \in {"armed", "due"}
        /\ ServiceBusy => service.up
        /\ made \in 0..MaxRequests /\ budget \in 0..FaultBudget
        /\ past.failed \in BOOLEAN /\ past.overlap \in BOOLEAN
    BY DEF TypeInv, ClientOK, InstallerOK, ServiceOK, HistoryOK, BudgetOK
  <2> QED
    BY <2>2, <2>3, <2>4, <2>5 DEF TypeOK, DiskType
<1> QED
  BY <1>1, PkgdirTypeInvariant, PTL

-------------------------------------------------------------------------------
(* The legacy directories *)

\* Failures that take no legacy directory, no call and no request along.
Calm == faults \subseteq {"external"} /\ ~past.failed

\* A call the installer is still going to make.
Unsent(op) ==
  \E i \in 1..Len(client.todo) : client.todo[i] = op /\ (client.state # "next" => i > 1)

\* Calls that wait for the service: whether a creation comes after the removals on
\* behalf of the global package, and whether a removal comes after the creations.
GlobalDelete(c) == c.op = "DeleteLegacyDirs" /\ c.uid = Global
NoGlobalDelete == \A i \in 1..Len(queue) : ~GlobalDelete(queue[i])
CreateQueued ==
  \E i \in 1..Len(queue) :
    queue[i].op = "CreateLegacyDirs" /\ \A k \in 1..Len(queue) : k > i => ~GlobalDelete(queue[k])
NoCreate == \A i \in 1..Len(queue) : queue[i].op # "CreateLegacyDirs"
DeleteQueued ==
  \E i \in 1..Len(queue) :
    queue[i].op = "DeleteLegacyDirs" /\ \A k \in 1..Len(queue) : k > i => queue[k].op # "CreateLegacyDirs"

Serving(op, pcs) == job["service"].op = op /\ job["service"].pc \in pcs

\* Who removes the directories, and who still has the package: a call may be long
\* out of date when it is served.
CallsFit ==
  /\ client.state = "idle" => client.todo = <<>>
  /\ Unsent("CreateLegacyDirs") => Global \in installed
  /\ Unsent("DeleteLegacyDirs") => client.uid \notin installed
  /\ \A i \in 1..Len(queue) :
       queue[i].op = "DeleteLegacyDirs" => queue[i].uid \notin installed \ {Global}
  /\ job["service"].op = "DeleteLegacyDirs" => job["service"].uid \notin installed \ {Global}

\* Everybody has the package: the directories are there and stay, or are made
\* after all removals that do not look for the global package.
GlobalHas ==
  \/ Unsent("CreateLegacyDirs")
  \/ CreateQueued
  \/ NoGlobalDelete /\ Serving("CreateLegacyDirs", {"make"})
  \/ /\ NoGlobalDelete /\ fs.legacy # {}
     /\ ~Serving("DeleteLegacyDirs", {"remove"})
     /\ Serving("DeleteLegacyDirs", {"check"}) => job["service"].uid # Global

\* A user has the package, as from the start: no removal gets past its check.
UserHas == fs.legacy # {} /\ ~Serving("DeleteLegacyDirs", {"remove"})

\* Nobody has it: the directories are gone for good, or a removal comes last.
NobodyHas ==
  \/ Unsent("DeleteLegacyDirs")
  \/ DeleteQueued
  \/ NoCreate /\ Serving("DeleteLegacyDirs", {"check", "remove"})
  \/ NoCreate /\ fs.legacy = {} /\ ~Serving("CreateLegacyDirs", {"make"})

LegacyState ==
  /\ CallsFit
  /\ Global \in installed => GlobalHas
  /\ installed \cap Users # {} => UserHas
  /\ installed = {} => NobodyHas
LegacyInv == Calm => LegacyState

\* The call at the head is taken, or one comes to the end.
LEMMA QueueMoves ==
  ASSUME QueueOK
  PROVE  /\ \A i \in 1..Len(queue) : queue[i] \in [op : Ops, uid : Everybody]
         /\ queue # <<>> /\ queue' = Tail(queue) =>
              /\ Len(queue') = Len(queue) - 1 /\ Len(queue) \in Nat /\ Len(queue) >= 1
              /\ \A i \in 1..Len(queue') : queue'[i] = queue[i + 1]
              /\ Head(queue) = queue[1]
         /\ \A c \in [op : Ops, uid : Everybody] : queue' = Append(queue, c) =>
              /\ Len(queue') = Len(queue) + 1 /\ Len(queue) \in Nat
              /\ \A i \in 1..Len(queue) : queue'[i] = queue[i]
              /\ queue'[Len(queue) + 1] = c
<1> DEFINE R == [op : Ops, uid : Everybody]
<1>0. queue \in Seq(R) /\ Len(queue) \in Nat
  BY DEF QueueOK
<1> HIDE DEF R
<1>1. \A i \in 1..Len(queue) : queue[i] \in R
  BY <1>0, ElementOfSeq
<1>2. queue # <<>> => /\ Len(Tail(queue)) = Len(queue) - 1 /\ Len(queue) >= 1
                      /\ \A i \in 1..Len(Tail(queue)) : Tail(queue)[i] = queue[i + 1]
                      /\ Head(queue) = queue[1]
  BY <1>0
<1>3. \A c \in R : /\ Len(Append(queue, c)) = Len(queue) + 1
                   /\ \A i \in 1..Len(queue) : Append(queue, c)[i] = queue[i]
                   /\ Append(queue, c)[Len(queue) + 1] = c
  BY <1>0, AppendProperties
<1> QED
  BY <1>0, <1>1, <1>2, <1>3 DEF R

\* What is said of the queue after the call at its head is taken,
LEMMA TakenFromQueue ==
  ASSUME QueueOK, queue # <<>>, queue' = Tail(queue)
  PROVE  /\ NoGlobalDelete => NoGlobalDelete' /\ ~GlobalDelete(Head(queue))
         /\ CreateQueued => CreateQueued' \/ (NoGlobalDelete' /\ Head(queue).op = "CreateLegacyDirs")
         /\ NoCreate => NoCreate' /\ Head(queue).op # "CreateLegacyDirs"
         /\ DeleteQueued => DeleteQueued' \/ (NoCreate' /\ Head(queue).op = "DeleteLegacyDirs")
<1>1. /\ Len(queue') = Len(queue) - 1 /\ Len(queue) \in Nat /\ Len(queue) >= 1
      /\ \A i \in 1..Len(queue') : queue'[i] = queue[i + 1]
      /\ Head(queue) = queue[1]
  BY QueueMoves
<1>2. NoGlobalDelete => NoGlobalDelete' /\ ~GlobalDelete(Head(queue))
  BY <1>1 DEF NoGlobalDelete, GlobalDelete
<1>3. ASSUME CreateQueued
      PROVE  CreateQueued' \/ (NoGlobalDelete' /\ Head(queue).op = "CreateLegacyDirs")
  <2>1. PICK i \in 1..Len(queue) :
          queue[i].op = "CreateLegacyDirs" /\ \A k \in 1..Len(queue) : k > i => ~GlobalDelete(queue[k])
    BY <1>3 DEF CreateQueued
  <2>2. CASE i = 1
    BY <1>1, <2>1, <2>2 DEF NoGlobalDelete, GlobalDelete
  <2>3. CASE i # 1
    <3>1. i - 1 \in 1..Len(queue') /\ queue'[i - 1].op = "CreateLegacyDirs"
      BY <1>1, <2>1, <2>3
    <3>2. \A k \in 1..Len(queue') : k > i - 1 => ~GlobalDelete(queue'[k])
      BY <1>1, <2>1, <2>3
    <3> QED
      BY <3>1, <3>2 DEF CreateQueued, GlobalDelete
  <2> QED
    BY <2>2, <2>3
<1>4. NoCreate => NoCreate' /\ Head(queue).op # "CreateLegacyDirs"
  BY <1>1 DEF NoCreate
<1>5. ASSUME DeleteQueued
      PROVE  DeleteQueued' \/ (NoCreate' /\ Head(queue).op = "DeleteLegacyDirs")
  <2>1. PICK i \in 1..Len(queue) :
          /\ queue[i].op = "DeleteLegacyDirs"
          /\ \A k \in 1..Len(queue) : k > i => queue[k].op # "CreateLegacyDirs"
    BY <1>5 DEF DeleteQueued
  <2>2. CASE i = 1
    BY <1>1, <2>1, <2>2 DEF NoCreate
  <2>3. CASE i # 1
    <3>1. i - 1 \in 1..Len(queue') /\ queue'[i - 1].op = "DeleteLegacyDirs"
      BY <1>1, <2>1, <2>3
    <3>2. \A k \in 1..Len(queue') : k > i - 1 => queue'[k].op # "CreateLegacyDirs"
      BY <1>1, <2>1, <2>3
    <3> QED
      BY <3>1, <3>2 DEF DeleteQueued
  <2> QED
    BY <2>2, <2>3
<1> QED
  BY <1>2, <1>3, <1>4, <1>5

\* and after another has come.
LEMMA AddedToQueue ==
  ASSUME QueueOK, NEW c \in [op : Ops, uid : Everybody], queue' = Append(queue, c)
  PROVE  /\ NoGlobalDelete /\ ~GlobalDelete(c) => NoGlobalDelete'
         /\ (CreateQueued /\ ~GlobalDelete(c)) \/ c.op = "CreateLegacyDirs" => CreateQueued'
         /\ NoCreate /\ c.op # "CreateLegacyDirs" => NoCreate'
         /\ (DeleteQueued /\ c.op # "CreateLegacyDirs") \/ c.op = "DeleteLegacyDirs" => DeleteQueued'
<1> DEFINE n == Len(queue) + 1
<1>1. /\ Len(queue') = n /\ Len(queue) \in Nat
      /\ \A i \in 1..Len(queue) : queue'[i] = queue[i]
      /\ queue'[n] = c
  BY QueueMoves
<1>2. \A i \in 1..n : i \in 1..Len(queue) \/ i = n
  BY <1>1
<1>3. NoGlobalDelete /\ ~GlobalDelete(c) => NoGlobalDelete'
  BY <1>1, <1>2 DEF NoGlobalDelete, GlobalDelete
<1>4. NoCreate /\ c.op # "CreateLegacyDirs" => NoCreate'
  BY <1>1, <1>2 DEF NoCreate
<1>5. /\ c.op = "CreateLegacyDirs" => CreateQueued'
      /\ c.op = "DeleteLegacyDirs" => DeleteQueued'
  <2>1. n \in 1..Len(queue') /\ \A k \in 1..Len(queue') : ~(k > n)
    BY <1>1
  <2> QED
    BY <1>1, <2>1 DEF CreateQueued, DeleteQueued
<1>6. ASSUME CreateQueued, ~GlobalDelete(c)
      PROVE  CreateQueued'
  <2>1. PICK i \in 1..Len(queue) :
          queue[i].op = "CreateLegacyDirs" /\ \A k \in 1..Len(queue) : k > i => ~GlobalDelete(queue[k])
    BY <1>6 DEF CreateQueued
  <2>2. i \in 1..Len(queue') /\ queue'[i].op = "CreateLegacyDirs"
    BY <1>1, <2>1
  <2>3. \A k \in 1..Len(queue') : k > i => ~GlobalDelete(queue'[k])
    BY <1>1, <1>2, <1>6, <2>1
  <2> QED
    BY <2>2, <2>3 DEF CreateQueued, GlobalDelete
<1>7. ASSUME DeleteQueued, c.op # "CreateLegacyDirs"
      PROVE  DeleteQueued'
  <2>1. PICK i \in 1..Len(queue) :
          /\ queue[i].op = "DeleteLegacyDirs"
          /\ \A k \in 1..Len(queue) : k > i => queue[k].op # "CreateLegacyDirs"
    BY <1>7 DEF DeleteQueued
  <2>2. i \in 1..Len(queue') /\ queue'[i].op = "DeleteLegacyDirs"
    BY <1>1, <2>1
  <2>3. \A k \in 1..Len(queue') : k > i => queue'[k].op # "CreateLegacyDirs"
    BY <1>1, <1>2, <1>7, <2>1
  <2> QED
    BY <2>2, <2>3 DEF DeleteQueued
<1> QED
  BY <1>3, <1>4, <1>5, <1>6, <1>7

\* The list of the installer: what is at its head is no longer to be sent.
LEMMA ListMoves ==
  ASSUME ClientOK, client.todo # <<>>, NEW op,
         \/ client' = [client EXCEPT !.state = "next", !.todo = Tail(@)]
         \/ client' = [client EXCEPT !.state = "waiting"]
         \/ client' = [client EXCEPT !.state = "direct"] /\ client.state = "waiting"
  PROVE  /\ Unsent(op)' => Unsent(op)
         /\ Unsent(op) /\ (client.state # "next" \/ Head(client.todo) # op) => Unsent(op)'
<1>0. /\ client.todo \in Seq(PartNames) /\ Len(client.todo) \in Nat
      /\ Len(Tail(client.todo)) = Len(client.todo) - 1
      /\ \A i \in 1..Len(Tail(client.todo)) : Tail(client.todo)[i] = client.todo[i + 1]
      /\ Head(client.todo) = client.todo[1]
  BY HeadTailProperties DEF ClientOK
<1>1. CASE client' = [client EXCEPT !.state = "next", !.todo = Tail(@)]
  <2>1. client'.todo = Tail(client.todo) /\ client'.state = "next"
    BY <1>1 DEF ClientOK
  <2>2. ASSUME Unsent(op)'
        PROVE  Unsent(op)
    <3>1. PICK i \in 1..Len(Tail(client.todo)) : Tail(client.todo)[i] = op
      BY <2>1, <2>2 DEF Unsent
    <3>2. i + 1 \in 1..Len(client.todo) /\ client.todo[i + 1] = op /\ i + 1 > 1
      BY <1>0, <3>1
    <3> QED
      BY <3>2 DEF Unsent
  <2>3. ASSUME Unsent(op), client.state # "next" \/ Head(client.todo) # op
        PROVE  Unsent(op)'
    <3>1. PICK i \in 1..Len(client.todo) : client.todo[i] = op /\ (client.state # "next" => i > 1)
      BY <2>3 DEF Unsent
    <3>2. i > 1
      BY <1>0, <2>3, <3>1
    <3>3. i - 1 \in 1..Len(Tail(client.todo)) /\ Tail(client.todo)[i - 1] = op
      BY <1>0, <3>1, <3>2
    <3> QED
      BY <2>1, <3>3 DEF Unsent
  <2> QED
    BY <2>2, <2>3
<1>2. CASE \/ client' = [client EXCEPT !.state = "waiting"]
           \/ client' = [client EXCEPT !.state = "direct"] /\ client.state = "waiting"
  <2>1. client'.todo = client.todo /\ client'.state # "next"
    BY <1>2 DEF ClientOK
  <2>2. Unsent(op)' => Unsent(op)
    BY <2>1 DEF Unsent
  <2>3. ASSUME Unsent(op), client.state # "next" \/ Head(client.todo) # op
        PROVE  Unsent(op)'
    <3>1. PICK i \in 1..Len(client.todo) : client.todo[i] = op /\ (client.state # "next" => i > 1)
      BY <2>3 DEF Unsent
    <3>2. i > 1
      BY <1>0, <2>3, <3>1
    <3> QED
      BY <2>1, <3>1, <3>2 DEF Unsent
  <2> QED
    BY <2>2, <2>3
<1> QED
  BY <1>1, <1>2

-------------------------------------------------------------------------------
(* LegacyInv is an invariant. *)

\* A call whose operation still has something to do to the legacy directories.
Active(j) == j.op \in LegacyOps /\ j.pc \in {"check", "make", "remove"}

\* A step that has nothing to do with the legacy directories.
LEMMA LegacyFrame ==
  ASSUME LegacyState, UNCHANGED <<installed, queue>>, fs'.legacy = fs.legacy,
         \/ job'["service"] = job["service"]
         \/ /\ ~Active(job["service"]) /\ ~Active(job'["service"])
            /\ job'["service"].op = "DeleteLegacyDirs" =>
                 job["service"].op = "DeleteLegacyDirs" /\ job'["service"].uid = job["service"].uid,
         \A op \in LegacyOps : Unsent(op)' <=> Unsent(op),
         client'.uid = client.uid \/ ~Unsent("DeleteLegacyDirs"),
         client'.state = "idle" => client'.todo = <<>>
  PROVE  LegacyState'
<1>1. (NoGlobalDelete' <=> NoGlobalDelete) /\ (CreateQueued' <=> CreateQueued)
      /\ (NoCreate' <=> NoCreate) /\ (DeleteQueued' <=> DeleteQueued)
  BY DEF NoGlobalDelete, CreateQueued, NoCreate, DeleteQueued, GlobalDelete
<1>2. \A op \in LegacyOps, pcs \in SUBSET {"check", "make", "remove"} :
        Serving(op, pcs)' <=> Serving(op, pcs)
  BY DEF Serving, Active
<1>3. {"remove"} \in SUBSET {"check", "make", "remove"} /\ {"check"} \in SUBSET {"check", "make", "remove"}
      /\ {"make"} \in SUBSET {"check", "make", "remove"}
      /\ {"check", "remove"} \in SUBSET {"check", "make", "remove"}
      /\ "CreateLegacyDirs" \in LegacyOps /\ "DeleteLegacyDirs" \in LegacyOps
  BY DEF LegacyOps
<1>4. /\ Serving("CreateLegacyDirs", {"make"})' <=> Serving("CreateLegacyDirs", {"make"})
      /\ Serving("DeleteLegacyDirs", {"remove"})' <=> Serving("DeleteLegacyDirs", {"remove"})
      /\ Serving("DeleteLegacyDirs", {"check"})' <=> Serving("DeleteLegacyDirs", {"check"})
      /\ Serving("DeleteLegacyDirs", {"check", "remove"})' <=> Serving("DeleteLegacyDirs", {"check", "remove"})
  BY <1>2, <1>3
<1>5. (Unsent("CreateLegacyDirs")' <=> Unsent("CreateLegacyDirs"))
      /\ (Unsent("DeleteLegacyDirs")' <=> Unsent("DeleteLegacyDirs"))
  BY <1>3
<1>6. CallsFit'
  BY <1>5 DEF LegacyState, CallsFit
<1>7. Serving("DeleteLegacyDirs", {"check"}) => job'["service"] = job["service"]
  BY DEF Serving, Active, LegacyOps
<1>8. Global \in installed => GlobalHas'
  BY <1>1, <1>4, <1>5, <1>7 DEF LegacyState, GlobalHas
<1>9. installed \cap Users # {} => UserHas'
  BY <1>4 DEF LegacyState, UserHas
<1>10. installed = {} => NobodyHas'
  BY <1>1, <1>4, <1>5 DEF LegacyState, NobodyHas
<1> QED
  BY <1>6, <1>8, <1>9, <1>10 DEF LegacyState

\* The history only grows.
LEMMA HistoryGrows ==
  ASSUME TypeInv, Next
  PROVE  faults \subseteq faults' /\ (past.failed => past'.failed)
<1>1. \A kind : Fault(kind) => faults \subseteq faults'
  BY DEF Fault
<1>2. faults \subseteq faults'
  BY <1>1
  DEF Next, RequestStep, Request, InstallerStep, ServiceStep, SkelMake, SkelLabel, SkelDelete,
      RemoveFiles, Send, DirectReturns, RequestEnds, Operation, OperationStep, AllUsersDone,
      CopyCheck, CopyMake, CopyOwn, CopyLabel, DeleteUser, CreateExternal, DeleteExternal,
      CreateLegacyMake, CreateLegacyLabel, DeleteLegacyCheck, DeleteLegacyRemove,
      ServiceStarts, TakeCall, Reply, SendFails, TimesOut, InstallerDies, TimerElapses,
      ServiceQuits, ServiceDies, NoFault
<1>3. past'.failed = past.failed \/ past'.failed
  <2>1. past \in [private : SUBSET Users, failed : BOOLEAN, overlap : BOOLEAN]
    BY DEF TypeInv, HistoryOK
  <2>2. RequestFails => past'.failed
    BY <2>1 DEF RequestFails
  <2>3. \A e : Operation(e) => past'.failed = past.failed
    BY <2>1 DEF Operation
  <2> QED
    BY <2>2, <2>3
    DEF Next, RequestStep, Request, InstallerStep, ServiceStep, SkelMake, SkelLabel, SkelDelete,
        RemoveFiles, Send, DirectReturns, RequestEnds, ServiceStarts, TakeCall, Reply, SendFails,
        TimesOut, InstallerDies, TimerElapses, ServiceQuits, ServiceDies, Stops
<1> QED
  BY <1>2, <1>3

\* A failure that matters is not forgotten.
LEMMA CalmBefore ==
  ASSUME TypeInv, Next, Calm'
  PROVE  Calm /\ \A kind : Fault(kind) => kind = "external"
<1>1. \A kind : Fault(kind) => kind \in faults'
  BY DEF Fault
<1> QED
  BY <1>1, HistoryGrows DEF Calm

\* Only two operations touch the legacy directories.
LEMMA OtherOperations ==
  ASSUME TypeInv, NEW e \in Executors, OperationStep(e), job[e].op \notin LegacyOps
  PROVE  fs'.legacy = fs.legacy
<1>1. fs \in DiskType
  BY DEF TypeInv, DiskOK
<1>2. \A d : Disk(d) => fs' = d
  BY DEF Disk
<1>3. \A u, n : Create(u, n).legacy = fs.legacy
  BY <1>1 DEF Create, DiskType
<1>4. CASE AllUsersDone(e) \/ CopyCheck(e)
  BY <1>2, <1>4 DEF AllUsersDone, CopyCheck
<1>5. CASE CopyMake(e) \/ CopyOwn(e) \/ CopyLabel(e)
  BY <1>1, <1>2, <1>5 DEF CopyMake, CopyOwn, CopyLabel, DiskType
<1>6. CASE DeleteUser(e)
  <2> DEFINE u == User(e)
             Left(dirs) == [fs EXCEPT !.dir[u] = dirs, !.own[u] = @ \cap dirs, !.label[u] = @ \cap dirs]
  <2>1. \A dirs : Left(dirs).legacy = fs.legacy
    BY <1>1 DEF DiskType
  <2> HIDE DEF Left
  <2>2. \/ Disk(fs) \/ Disk(Left({}))
        \/ \E kept \in Remains(fs.dir[u]) : Disk(Left(kept))
    BY <1>6 DEF DeleteUser, Left
  <2> QED
    BY <1>2, <2>1, <2>2
<1>7. CASE CreateExternal(e)
  BY <1>2, <1>3, <1>7 DEF CreateExternal
<1>8. CASE DeleteExternal(e)
  <2>1. \A dirs : [fs EXCEPT !.ext[User(e)] = dirs].legacy = fs.legacy
    BY <1>1 DEF DiskType
  <2> DEFINE Kept(dirs) == [fs EXCEPT !.ext[User(e)] = dirs]
  <2>2. \A dirs : Kept(dirs).legacy = fs.legacy
    BY <2>1
  <2> HIDE DEF Kept
  <2>3. \/ Disk(fs) \/ Disk(Kept({}))
        \/ \E kept \in Remains(fs.ext[User(e)]) : Disk(Kept(kept))
    BY <1>8 DEF DeleteExternal, Kept
  <2> QED
    BY <1>2, <2>2, <2>3
<1> QED
  BY <1>4, <1>5, <1>6, <1>7, <1>8
  DEF OperationStep, CreateLegacyMake, CreateLegacyLabel, DeleteLegacyCheck, DeleteLegacyRemove,
      At, LegacyOps

LEMMA LegacyInvInit == Init => LegacyInv
<1> SUFFICES ASSUME Init
             PROVE  LegacyState
  BY DEF LegacyInv
<1>1. PICK global \in BOOLEAN, card \in BOOLEAN :
        /\ installed = past.private \cup (IF global THEN {Global} ELSE {})
        /\ fs = InitialDisk(past.private, global, card)
  BY DEF Init
<1>2. client.todo = <<>> /\ client.state = "idle" /\ queue = <<>> /\ job["service"].op = "none"
  BY DEF Init, IdleClient, Executors, NoJob
<1>3. \A op : ~Unsent(op)
  BY <1>2 DEF Unsent
<1>4. \A op \in LegacyOps : \A pcs : ~Serving(op, pcs)
  BY <1>2 DEF Serving, LegacyOps
<1>5. "CreateLegacyDirs" \in LegacyOps /\ "DeleteLegacyDirs" \in LegacyOps
  BY DEF LegacyOps
<1>6. NoGlobalDelete /\ NoCreate
  BY <1>2 DEF NoGlobalDelete, NoCreate
<1>7. CallsFit
  BY <1>2, <1>3 DEF CallsFit
<1>8. past.private \in SUBSET Users /\ Global \notin past.private
  <2>1. past.private \in SUBSET Users
    BY DEF Init
  <2> QED
    BY <2>1, SharedDirsAssumption
<1>9. fs.legacy = {} <=> ~global /\ past.private = {}
  BY <1>1, PathsExist DEF InitialDisk
<1>10. Global \in installed => GlobalHas
  BY <1>1, <1>4, <1>5, <1>6, <1>8, <1>9 DEF GlobalHas
<1>11. installed \cap Users # {} => UserHas
  BY <1>1, <1>4, <1>5, <1>8, <1>9, SharedDirsAssumption DEF UserHas
<1>12. installed = {} => NobodyHas
  BY <1>1, <1>4, <1>5, <1>6, <1>9 DEF NobodyHas
<1> QED
  BY <1>7, <1>10, <1>11, <1>12 DEF LegacyState

\* What is in the lists of the requests.
LEMMA PartsUnsent ==
  ASSUME NEW kind \in Kinds \ {"none"}, NEW uid \in Everybody,
         client' = [state |-> "next", todo |-> Parts(kind, uid), kind |-> kind, uid |-> uid]
  PROVE  /\ Unsent("CreateLegacyDirs")' <=> kind = "Install"
         /\ Unsent("DeleteLegacyDirs")' <=> kind = "Uninstall"
<1>1. \A op : Unsent(op)' <=> \E i \in 1..Len(Parts(kind, uid)) : Parts(kind, uid)[i] = op
  BY DEF Unsent
<1>2. kind \in {"Install", "Uninstall", "CreateExternal", "DeleteExternal"}
  BY DEF Kinds
<1>3. CASE kind = "Install"
  <2>1. Parts(kind, uid) = <<"skel", "skelLabel", "CopyUserDirs", "CreateLegacyDirs">>
    BY <1>3 DEF Parts
  <2>2. 4 \in 1..Len(Parts(kind, uid)) /\ Parts(kind, uid)[4] = "CreateLegacyDirs"
    BY <2>1
  <2>3. \A i \in 1..Len(Parts(kind, uid)) : Parts(kind, uid)[i] # "DeleteLegacyDirs"
    BY <2>1
  <2> QED
    BY <1>1, <1>3, <2>2, <2>3
<1>4. CASE kind = "Uninstall" /\ uid = Global
  <2>1. Parts(kind, uid) = <<"unskel", "DeleteUserDirs", "DeleteLegacyDirs">>
    BY <1>4 DEF Parts
  <2>2. 3 \in 1..Len(Parts(kind, uid)) /\ Parts(kind, uid)[3] = "DeleteLegacyDirs"
    BY <2>1
  <2>3. \A i \in 1..Len(Parts(kind, uid)) : Parts(kind, uid)[i] # "CreateLegacyDirs"
    BY <2>1
  <2> QED
    BY <1>1, <1>4, <2>2, <2>3
<1>5. CASE kind = "Uninstall" /\ uid # Global
  <2>1. Parts(kind, uid) = <<"files", "DeleteLegacyDirs">>
    BY <1>5 DEF Parts
  <2>2. 2 \in 1..Len(Parts(kind, uid)) /\ Parts(kind, uid)[2] = "DeleteLegacyDirs"
    BY <2>1
  <2>3. \A i \in 1..Len(Parts(kind, uid)) : Parts(kind, uid)[i] # "CreateLegacyDirs"
    BY <2>1
  <2> QED
    BY <1>1, <1>5, <2>2, <2>3
<1>6. CASE kind \in {"CreateExternal", "DeleteExternal"}
  <2>1. Parts(kind, uid) = <<"CreateExternalDirs">> \/ Parts(kind, uid) = <<"DeleteExternalDirs">>
    BY <1>6 DEF Parts
  <2>2. \A i \in 1..Len(Parts(kind, uid)) :
          Parts(kind, uid)[i] # "CreateLegacyDirs" /\ Parts(kind, uid)[i] # "DeleteLegacyDirs"
    BY <2>1
  <2> QED
    BY <1>1, <1>6, <2>2
<1> QED
  BY <1>2, <1>3, <1>4, <1>5, <1>6

\* The installer goes on without having sent a call for the legacy directories.
LEMMA CallsKept ==
  ASSUME ClientOK, client.todo # <<>>, client.state # "next" \/ Head(client.todo) \notin LegacyOps,
         \/ NextPart
         \/ client' = [client EXCEPT !.state = "direct"] /\ client.state = "waiting"
         \/ client' = [client EXCEPT !.state = "waiting"]
  PROVE  /\ \A op \in LegacyOps : Unsent(op)' <=> Unsent(op)
         /\ client'.uid = client.uid /\ client'.state # "idle"
<1>1. client'.uid = client.uid /\ client'.state # "idle"
  BY DEF ClientOK, NextPart
<1>2. \A op \in LegacyOps : Unsent(op)' <=> Unsent(op)
  BY ListMoves DEF NextPart
<1> QED
  BY <1>1, <1>2

\* A request changes who has the package, and the list of the installer.
LEMMA LegacyRequest ==
  ASSUME TypeInv, LegacyState, RequestStep
  PROVE  LegacyState'
<1>1. PICK kind \in Kinds \ {"none"}, uid \in Everybody : Request(kind, uid)
  BY DEF RequestStep, Kinds, Everybody
<1>2. /\ client' = [state |-> "next", todo |-> Parts(kind, uid), kind |-> kind, uid |-> uid]
      /\ client'.uid = uid /\ client'.state = "next" /\ client.state = "idle"
      /\ UNCHANGED <<fs, job, queue>>
  BY <1>1 DEF Request
<1>3. /\ Unsent("CreateLegacyDirs")' <=> kind = "Install"
      /\ Unsent("DeleteLegacyDirs")' <=> kind = "Uninstall"
  BY <1>2, PartsUnsent
<1>4. ~Unsent("CreateLegacyDirs") /\ ~Unsent("DeleteLegacyDirs")
  BY <1>2 DEF LegacyState, CallsFit, Unsent
<1>5. /\ kind = "Install" => uid = Global /\ installed' = installed \cup {Global}
      /\ kind = "Uninstall" => installed' = installed \ {uid}
      /\ kind \notin {"Install", "Uninstall"} => installed' = installed
  BY <1>1 DEF Request
<1>6. (NoGlobalDelete' <=> NoGlobalDelete) /\ (CreateQueued' <=> CreateQueued)
      /\ (NoCreate' <=> NoCreate) /\ (DeleteQueued' <=> DeleteQueued)
  BY <1>2 DEF NoGlobalDelete, CreateQueued, NoCreate, DeleteQueued, GlobalDelete
<1>7. \A op, pcs : Serving(op, pcs)' <=> Serving(op, pcs)
  BY <1>2 DEF Serving
<1>8. CallsFit'
  <2>1. installed' \ {Global} \subseteq installed \ {Global}
    BY <1>5
  <2>2. Unsent("CreateLegacyDirs")' => Global \in installed'
    BY <1>3, <1>5
  <2>3. Unsent("DeleteLegacyDirs")' => client'.uid \notin installed'
    BY <1>2, <1>3, <1>5
  <2> QED
    BY <1>2, <2>1, <2>2, <2>3 DEF LegacyState, CallsFit
<1>9. Global \in installed' => GlobalHas'
  <2>1. CASE kind = "Install"
    BY <1>3, <2>1 DEF GlobalHas
  <2>2. CASE kind # "Install"
    <3>1. Global \in installed' => Global \in installed
      BY <1>5, <2>2
    <3> QED
      BY <1>2, <1>4, <1>6, <1>7, <3>1 DEF LegacyState, GlobalHas
  <2> QED
    BY <2>1, <2>2
<1>10. installed' \cap Users # {} => UserHas'
  <2>1. installed' \cap Users # {} => installed \cap Users # {}
    BY <1>5, SharedDirsAssumption
  <2> QED
    BY <1>2, <1>7, <2>1 DEF LegacyState, UserHas
<1>11. installed' = {} => NobodyHas'
  <2>1. CASE kind = "Uninstall"
    BY <1>3, <2>1 DEF NobodyHas
  <2>2. CASE kind # "Uninstall"
    <3>1. installed' = {} => installed = {}
      BY <1>5, <2>2
    <3> QED
      BY <1>2, <1>4, <1>6, <1>7, <3>1 DEF LegacyState, NobodyHas
  <2> QED
    BY <2>1, <2>2
<1> QED
  BY <1>8, <1>9, <1>10, <1>11 DEF LegacyState

\* A call leaves the list and comes to the end of the queue.
LEMMA LegacySend ==
  ASSUME TypeInv, LegacyState, Send
  PROVE  LegacyState'
<1> DEFINE c == [op |-> Head(client.todo), uid |-> client.uid]
<1>t. ClientOK /\ QueueOK
  BY DEF TypeInv
<1>1. /\ client.state = "next" /\ client.todo # <<>> /\ Head(client.todo) \in Ops
      /\ queue' = Append(queue, c)
      /\ client' = [client EXCEPT !.state = "waiting"]
      /\ UNCHANGED <<fs, installed, job>>
  BY DEF Send, Doing
<1>2. c \in [op : Ops, uid : Everybody]
  BY <1>t, <1>1 DEF ClientOK
<1>3. /\ NoGlobalDelete /\ ~GlobalDelete(c) => NoGlobalDelete'
      /\ (CreateQueued /\ ~GlobalDelete(c)) \/ c.op = "CreateLegacyDirs" => CreateQueued'
      /\ NoCreate /\ c.op # "CreateLegacyDirs" => NoCreate'
      /\ (DeleteQueued /\ c.op # "CreateLegacyDirs") \/ c.op = "DeleteLegacyDirs" => DeleteQueued'
  BY <1>t, <1>1, <1>2, AddedToQueue
<1>4. \A op : Unsent(op)' => Unsent(op)
  BY <1>t, <1>1, ListMoves
<1>5. \A op : Unsent(op) /\ c.op # op => Unsent(op)'
  BY <1>t, <1>1, ListMoves
<1>6. Unsent(c.op)
  <2>1. 1 \in 1..Len(client.todo) /\ client.todo[1] = c.op
    <3>1. client.todo \in Seq(PartNames)
      BY <1>t DEF ClientOK
    <3> HIDE DEF PartNames
    <3> QED
      BY <1>1, <3>1
  <2> QED
    BY <1>1, <2>1 DEF Unsent
<1>7. \A op, pcs : Serving(op, pcs)' <=> Serving(op, pcs)
  BY <1>1 DEF Serving
<1>8. c.op = "CreateLegacyDirs" => Global \in installed
  BY <1>6 DEF LegacyState, CallsFit
<1>9. c.op = "DeleteLegacyDirs" => c.uid \notin installed
  BY <1>6 DEF LegacyState, CallsFit
<1>10. CallsFit'
  <2>1. client'.state = "waiting" /\ client'.uid = client.uid
    BY <1>t, <1>1 DEF ClientOK
  <2>2. \A i \in 1..Len(queue') :
          queue'[i].op = "DeleteLegacyDirs" => queue'[i].uid \notin installed \ {Global}
    <3>1. /\ Len(queue') = Len(queue) + 1 /\ Len(queue) \in Nat
          /\ \A i \in 1..Len(queue) : queue'[i] = queue[i]
          /\ queue'[Len(queue) + 1] = c
      BY <1>t, <1>1, <1>2, QueueMoves
    <3>2. \A i \in 1..Len(queue') : i \in 1..Len(queue) \/ i = Len(queue) + 1
      BY <3>1
    <3> HIDE DEF c
    <3> QED
      BY <1>9, <3>1, <3>2 DEF LegacyState, CallsFit
  <2> QED
    BY <1>1, <1>4, <2>1, <2>2 DEF LegacyState, CallsFit
<1> HIDE DEF c
<1>11. Global \in installed => GlobalHas'
  <2>1. Global \in installed => ~GlobalDelete(c)
    BY <1>9 DEF GlobalDelete
  <2> QED
    BY <1>1, <1>3, <1>5, <1>7, <2>1 DEF LegacyState, GlobalHas
<1>12. installed \cap Users # {} => UserHas'
  BY <1>1, <1>7 DEF LegacyState, UserHas
<1>13. installed = {} => NobodyHas'
  BY <1>1, <1>3, <1>5, <1>7, <1>8 DEF LegacyState, NobodyHas
<1> QED
  BY <1>1, <1>10, <1>11, <1>12, <1>13 DEF LegacyState

\* The service takes the call at the head of the queue.
LEMMA LegacyTake ==
  ASSUME TypeInv, LegacyState, TakeCall, ~Fault("sender")
  PROVE  LegacyState'
<1> DEFINE c == Head(queue)
<1>t. JobsOK /\ QueueOK
  BY DEF TypeInv
<1>1. /\ queue # <<>> /\ queue' = Tail(queue) /\ job["service"] = NoJob
      /\ job' = [job EXCEPT !["service"] = NewJob(c.op, c.uid)]
      /\ UNCHANGED <<fs, installed, client>>
  BY DEF TakeCall, ServiceBusy
<1>2. /\ NoGlobalDelete => NoGlobalDelete' /\ ~GlobalDelete(c)
      /\ CreateQueued => CreateQueued' \/ (NoGlobalDelete' /\ c.op = "CreateLegacyDirs")
      /\ NoCreate => NoCreate' /\ c.op # "CreateLegacyDirs"
      /\ DeleteQueued => DeleteQueued' \/ (NoCreate' /\ c.op = "DeleteLegacyDirs")
  BY <1>t, <1>1, TakenFromQueue
<1>3. /\ Len(queue') = Len(queue) - 1 /\ Len(queue) \in Nat /\ Len(queue) >= 1
      /\ \A i \in 1..Len(queue') : queue'[i] = queue[i + 1]
      /\ c = queue[1]
  BY <1>t, <1>1, QueueMoves
<1>4. job'["service"].op = c.op /\ job'["service"].uid = c.uid
      /\ (c.op = "CreateLegacyDirs" => job'["service"].pc = "make")
      /\ (c.op = "DeleteLegacyDirs" => job'["service"].pc = "check")
  BY <1>t, <1>1 DEF JobsOK, Executors, NewJob
<1>5. \A op \in LegacyOps : \A pcs : ~Serving(op, pcs)
  BY <1>1 DEF Serving, NoJob, LegacyOps
<1>6. "CreateLegacyDirs" \in LegacyOps /\ "DeleteLegacyDirs" \in LegacyOps
  BY DEF LegacyOps
<1>7. /\ Serving("CreateLegacyDirs", {"make"})' <=> c.op = "CreateLegacyDirs"
      /\ Serving("DeleteLegacyDirs", {"check"})' <=> c.op = "DeleteLegacyDirs"
      /\ Serving("DeleteLegacyDirs", {"check", "remove"})' <=> c.op = "DeleteLegacyDirs"
      /\ ~Serving("DeleteLegacyDirs", {"remove"})'
  BY <1>4 DEF Serving
<1>8. \A op : Unsent(op)' <=> Unsent(op)
  BY <1>1 DEF Unsent
<1>9. CallsFit'
  <2>1. c.op = "DeleteLegacyDirs" => c.uid \notin installed \ {Global}
    BY <1>3 DEF LegacyState, CallsFit
  <2>2. \A i \in 1..Len(queue') : i + 1 \in 1..Len(queue)
    BY <1>3
  <2> HIDE DEF c
  <2>3. \A i \in 1..Len(queue') :
          queue'[i].op = "DeleteLegacyDirs" => queue'[i].uid \notin installed \ {Global}
    BY <1>3, <2>2 DEF LegacyState, CallsFit
  <2> QED
    BY <1>1, <1>4, <1>8, <2>1, <2>3 DEF LegacyState, CallsFit
<1>10. c.op = "DeleteLegacyDirs" /\ ~GlobalDelete(c) => job'["service"].uid # Global
  BY <1>4 DEF GlobalDelete
<1> HIDE DEF c
<1>11. Global \in installed => GlobalHas'
  BY <1>1, <1>2, <1>5, <1>6, <1>7, <1>8, <1>10 DEF LegacyState, GlobalHas
<1>12. installed \cap Users # {} => UserHas'
  BY <1>1, <1>7 DEF LegacyState, UserHas
<1>13. installed = {} => NobodyHas'
  BY <1>1, <1>2, <1>5, <1>6, <1>7, <1>8 DEF LegacyState, NobodyHas
<1> QED
  BY <1>1, <1>9, <1>11, <1>12, <1>13 DEF LegacyState

\* A removal is only carried out when nobody else has the package.
LEMMA LegacyRemoval ==
  ASSUME TypeInv, LegacyState, UserList # <<>>, job["service"].op = "DeleteLegacyDirs"
  PROVE  /\ installed \cap Users # {} => LegacyWanted(job["service"].uid)
         /\ Global \in installed /\ job["service"].uid # Global => LegacyWanted(job["service"].uid)
         /\ installed = {} => ~LegacyWanted(job["service"].uid)
<1>1. job["service"].uid \notin installed \ {Global}
  BY DEF LegacyState, CallsFit
<1>2. installed \cap Users # {} => \E u \in Users : u \in installed /\ u # Global
  BY SharedDirsAssumption
<1> QED
  BY <1>1, <1>2 DEF LegacyWanted, Has

\* The service carries the operation on.
LEMMA LegacyOperation ==
  ASSUME UserList # <<>>, TypeInv, LegacyState, NEW e \in Executors, Operation(e),
         \A kind : Fault(kind) => kind = "external"
  PROVE  LegacyState'
<1>t. JobsOK /\ DiskOK /\ BudgetOK /\ InstallerOK
  BY DEF TypeInv
<1>0. OperationStep(e) /\ UNCHANGED <<queue, client>> /\ "service" \in Executors
  BY DEF Operation, Executors
<1>1. job[e].op # "none" /\ installed' = installed /\ \E k : Becomes(e, k)
  BY <1>t, <1>0, OperationTyped
<1>2. PICK k : Becomes(e, k)
  BY <1>1
<1>3. /\ job'[e] = k /\ k.op = job[e].op /\ k.uid = job[e].uid
      /\ \A g \in Executors \ {e} : job'[g] = job[g]
  BY <1>t, <1>2, BecomesKeeps DEF Becomes
<1>4. \A op : Unsent(op)' <=> Unsent(op)
  BY <1>0 DEF Unsent
<1>5. client'.state = "idle" => client'.todo = <<>>
  BY <1>0 DEF LegacyState, CallsFit
<1>6. CASE job[e].op \notin LegacyOps
  <2>1. fs'.legacy = fs.legacy
    BY <1>0, <1>6, OtherOperations
  <2>2. \/ job'["service"] = job["service"]
        \/ /\ ~Active(job["service"]) /\ ~Active(job'["service"])
           /\ job'["service"].op # "DeleteLegacyDirs"
    BY <1>0, <1>3, <1>6 DEF Active, LegacyOps
  <2> QED
    BY <1>0, <1>1, <1>4, <1>5, <2>1, <2>2, LegacyFrame
<1>7. CASE job[e].op \in LegacyOps
  <2> DEFINE j == job["service"]
  <2>1. e = "service" /\ job \in [Executors -> JobTypes] /\ JobShape(j)
    BY <1>t, <1>7 DEF InstallerOK, JobsOK, Executors
  <2>2. j.op = "CreateLegacyDirs" => j.pc # "check" /\ j.pc # "user"
    BY <2>1 DEF JobShape
  <2>3. j.op = "DeleteLegacyDirs" => j.pc # "user"
    BY <2>1 DEF JobShape
  <2>4. \/ CreateLegacyMake("service") \/ CreateLegacyLabel("service")
        \/ DeleteLegacyCheck("service") \/ DeleteLegacyRemove("service")
    BY <1>0, <1>7, <2>1, <2>2, <2>3
    DEF OperationStep, AllUsersDone, CopyCheck, CopyMake, CopyOwn, CopyLabel, DeleteUser,
        CreateExternal, DeleteExternal, At, LegacyOps
  <2>5. /\ NoGlobalDelete' <=> NoGlobalDelete
        /\ CreateQueued' <=> CreateQueued
        /\ NoCreate' <=> NoCreate
        /\ DeleteQueued' <=> DeleteQueued
    BY <1>0 DEF NoGlobalDelete, CreateQueued, NoCreate, DeleteQueued, GlobalDelete
  <2>6. CallsFit'
    BY <1>0, <1>1, <1>3, <1>4, <2>1 DEF LegacyState, CallsFit
  <2>7. CASE CreateLegacyMake("service")
    <3>1. j.op = "CreateLegacyDirs" /\ j.pc = "make"
      BY <2>7 DEF CreateLegacyMake, At
    <3>2. fs' = [fs EXCEPT !.legacy = Paths] /\ Goto("service", "label")
      BY <2>7 DEF CreateLegacyMake, Disk
    <3>3. fs'.legacy # {}
      BY <1>t, <3>2, PathsExist DEF DiskOK, DiskType
    <3>4. job'["service"].pc = "label" /\ job'["service"].op = "CreateLegacyDirs"
      BY <1>3, <2>1, <3>1, <3>2 DEF Goto, JobTypes
    <3>5. /\ ~Serving("DeleteLegacyDirs", {"remove"})'
          /\ ~Serving("DeleteLegacyDirs", {"check"})'
          /\ ~Serving("CreateLegacyDirs", {"make"})'
      BY <3>4 DEF Serving
    <3>6. Global \in installed => GlobalHas'
      BY <1>4, <2>5, <3>1, <3>3, <3>5 DEF LegacyState, GlobalHas, Serving
    <3>7. installed \cap Users # {} => UserHas'
      BY <3>3, <3>5 DEF UserHas
    <3>8. installed = {} => NobodyHas'
      BY <1>4, <2>5, <3>1, <3>5 DEF LegacyState, NobodyHas, Serving
    <3> QED
      BY <1>1, <2>6, <3>6, <3>7, <3>8 DEF LegacyState
  <2>8. CASE CreateLegacyLabel("service")
    <3>1. j.op = "CreateLegacyDirs" /\ j.pc = "label" /\ Return("service", TRUE)
      BY <2>8 DEF CreateLegacyLabel, At
    <3>2. fs'.legacy = fs.legacy
      BY <1>t, <2>8 DEF CreateLegacyLabel, Disk, DiskOK, DiskType
    <3>3. job'["service"].pc = "true" /\ job'["service"].op = "CreateLegacyDirs"
      BY <1>3, <2>1, <3>1 DEF Return, JobTypes
    <3>4. ~Active(j) /\ ~Active(job'["service"])
      BY <3>1, <3>3 DEF Active
    <3> QED
      BY <1>0, <1>1, <1>4, <1>5, <3>2, <3>3, <3>4, LegacyFrame
  <2>9. CASE DeleteLegacyCheck("service")
    <3>1. j.op = "DeleteLegacyDirs" /\ j.pc = "check" /\ fs' = fs
      BY <2>9 DEF DeleteLegacyCheck, At, Disk
    <3>2. IF LegacyWanted(j.uid) THEN Return("service", TRUE) ELSE Goto("service", "remove")
      BY <2>9 DEF DeleteLegacyCheck
    <3>3. job'["service"].op = "DeleteLegacyDirs"
      BY <1>3, <2>1, <3>1
    <3>4. /\ LegacyWanted(j.uid) => job'["service"].pc = "true"
          /\ ~LegacyWanted(j.uid) => job'["service"].pc = "remove"
      BY <1>3, <2>1, <3>2 DEF Return, Goto, JobTypes
    <3>5. /\ Serving("DeleteLegacyDirs", {"check"})
          /\ ~Serving("CreateLegacyDirs", {"make"})
          /\ ~Serving("CreateLegacyDirs", {"make"})'
          /\ ~Serving("DeleteLegacyDirs", {"check"})'
          /\ LegacyWanted(j.uid) => ~Serving("DeleteLegacyDirs", {"remove"})'
          /\ ~LegacyWanted(j.uid) => Serving("DeleteLegacyDirs", {"check", "remove"})'
      BY <3>1, <3>3, <3>4 DEF Serving
    <3>6. /\ installed \cap Users # {} => LegacyWanted(j.uid)
          /\ Global \in installed /\ j.uid # Global => LegacyWanted(j.uid)
          /\ installed = {} => ~LegacyWanted(j.uid)
      BY <3>1, LegacyRemoval
    <3>7. Global \in installed => GlobalHas'
      BY <1>4, <2>5, <3>1, <3>5, <3>6 DEF LegacyState, GlobalHas
    <3>8. installed \cap Users # {} => UserHas'
      BY <3>1, <3>5, <3>6 DEF LegacyState, UserHas
    <3>9. installed = {} => NobodyHas'
      <4>1. installed = {} => \/ Unsent("DeleteLegacyDirs") \/ DeleteQueued \/ NoCreate
        BY DEF LegacyState, NobodyHas
      <4> QED
        BY <1>4, <2>5, <3>5, <3>6, <4>1 DEF NobodyHas
    <3> QED
      BY <1>1, <2>6, <3>7, <3>8, <3>9 DEF LegacyState
  <2>10. CASE DeleteLegacyRemove("service")
    <3>1. j.op = "DeleteLegacyDirs" /\ j.pc = "remove" /\ Return("service", TRUE)
      BY <2>10 DEF DeleteLegacyRemove, At
    <3>2. fs' = [fs EXCEPT !.legacy = {}, !.legacyLabel = FALSE]
      BY <2>10 DEF DeleteLegacyRemove, Disk
    <3>3. fs'.legacy = {}
      BY <1>t, <3>2 DEF DiskOK, DiskType
    <3>4. job'["service"].op = "DeleteLegacyDirs" /\ job'["service"].pc = "true"
      BY <1>3, <2>1, <3>1 DEF Return, JobTypes
    <3>5. /\ Serving("DeleteLegacyDirs", {"remove"})
          /\ ~Serving("CreateLegacyDirs", {"make"})
          /\ ~Serving("CreateLegacyDirs", {"make"})'
      BY <3>1, <3>4 DEF Serving
    <3>6. Global \in installed => GlobalHas'
      BY <1>4, <2>5, <3>5 DEF LegacyState, GlobalHas
    <3>7. installed \cap Users = {}
      BY <3>5 DEF LegacyState, UserHas
    <3>8. installed = {} => NobodyHas'
      <4>1. installed = {} => \/ Unsent("DeleteLegacyDirs") \/ DeleteQueued \/ NoCreate
        BY DEF LegacyState, NobodyHas
      <4> QED
        BY <1>4, <2>5, <3>3, <3>5, <4>1 DEF NobodyHas
    <3> QED
      BY <1>1, <2>6, <3>6, <3>7, <3>8 DEF LegacyState
  <2> QED
    BY <2>4, <2>7, <2>8, <2>9, <2>10
<1> QED
  BY <1>6, <1>7

LEMMA LegacyInvStep == UserList # <<>> /\ TypeInv /\ LegacyInv /\ [Next]_vars => LegacyInv'
<1> SUFFICES ASSUME UserList # <<>>, TypeInv, LegacyInv, [Next]_vars, Calm'
             PROVE  LegacyState'
  BY DEF LegacyInv
<1>t. DiskOK /\ JobsOK /\ ClientOK /\ InstallerOK /\ QueueOK /\ HistoryOK
  BY DEF TypeInv
<1>e. "installer" \in Executors /\ "service" \in Executors /\ "installer" # "service"
  BY DEF Executors
<1>c. Calm /\ (Next => \A kind : Fault(kind) => kind = "external")
  <2>1. UNCHANGED vars => Calm
    BY DEF vars, Calm
  <2> QED
    BY <2>1, CalmBefore
<1>s. LegacyState
  BY <1>c DEF LegacyInv
<1>f. ~RequestFails
  BY <1>t DEF RequestFails, HistoryOK, Calm
\* Nothing is left to be sent when the list is at its end.
<1>u. client.todo = <<>> => \A op : ~Unsent(op)
  BY DEF Unsent
\* The installer was answered, or gives up waiting.
<1>a. \A jobs : client.state = "waiting" /\ (NoTrue(jobs) \/ NextPart) =>
        /\ \A op \in LegacyOps : Unsent(op)' <=> Unsent(op)
        /\ client'.uid = client.uid /\ client'.state # "idle"
  <2> SUFFICES ASSUME NEW jobs, client.state = "waiting", NoTrue(jobs) \/ NextPart
               PROVE  /\ \A op \in LegacyOps : Unsent(op)' <=> Unsent(op)
                      /\ client'.uid = client.uid /\ client'.state # "idle"
    OBVIOUS
  <2>1. client.todo # <<>>
    BY <1>t DEF ClientOK
  <2>2. NextPart \/ client' = [client EXCEPT !.state = "direct"]
    BY DEF NoTrue
  <2> QED
    BY <1>t, <2>1, <2>2, CallsKept
<1>1. CASE UNCHANGED vars
  <2>1. \A op \in LegacyOps : Unsent(op)' <=> Unsent(op)
    BY <1>1 DEF vars, Unsent
  <2>2. client'.state = "idle" => client'.todo = <<>>
    BY <1>1, <1>s DEF vars, LegacyState, CallsFit
  <2> QED
    BY <1>1, <1>s, <2>1, <2>2, LegacyFrame DEF vars
<1>2. ASSUME Next
      PROVE  LegacyState'
  <2>f. \A kind : Fault(kind) => kind = "external"
    BY <1>2, <1>c
  <2>1. CASE RequestStep
    BY <1>s, <2>1, LegacyRequest
  <2>2. CASE (SkelMake \/ SkelLabel \/ SkelDelete \/ RemoveFiles)
    <3>1. PICK p \in {"skel", "skelLabel", "unskel", "files"} : Doing(p)
      BY <2>2 DEF SkelMake, SkelLabel, SkelDelete, RemoveFiles
    <3>2. client.todo # <<>> /\ Head(client.todo) \notin LegacyOps
      BY <3>1 DEF Doing, LegacyOps
    <3>3. NextPart /\ UNCHANGED <<installed, queue, job>>
      BY <1>f, <2>2 DEF SkelMake, SkelLabel, SkelDelete, RemoveFiles, Local
    <3>4. fs'.legacy = fs.legacy
      <4>1. fs \in DiskType
        BY <1>t DEF DiskOK
      <4> QED
        BY <2>2, <4>1 DEF SkelMake, SkelLabel, SkelDelete, RemoveFiles, DiskType
    <3>5. /\ \A op \in LegacyOps : Unsent(op)' <=> Unsent(op)
          /\ client'.uid = client.uid /\ client'.state # "idle"
      BY <1>t, <3>2, <3>3, CallsKept
    <3> QED
      BY <1>s, <3>3, <3>4, <3>5, LegacyFrame
  <2>3. CASE Send
    BY <1>s, <2>3, LegacySend
  <2>4. CASE DirectReturns
    <3>1. NextPart /\ client.state = "direct" /\ UNCHANGED <<installed, queue, fs>>
      BY <1>f, <2>4 DEF DirectReturns, Local
    <3>2. job'["service"] = job["service"]
      BY <1>t, <1>e, <2>4 DEF DirectReturns, JobsOK
    <3>3. /\ \A op \in LegacyOps : Unsent(op)' <=> Unsent(op)
          /\ client'.uid = client.uid /\ client'.state # "idle"
      BY <1>t, <3>1, CallsKept DEF ClientOK
    <3> QED
      BY <1>s, <3>1, <3>2, <3>3, LegacyFrame
  <2>5. CASE RequestEnds
    <3>1. client.todo = <<>> /\ client'.todo = <<>> /\ UNCHANGED <<installed, queue, fs, job>>
      BY <2>5 DEF RequestEnds, IdleClient
    <3>2. \A op : ~Unsent(op) /\ ~Unsent(op)'
      BY <3>1 DEF Unsent
    <3> QED
      BY <1>s, <3>1, <3>2, LegacyFrame
  <2>6. ASSUME NEW e \in Executors, Operation(e)
        PROVE  LegacyState'
    BY <1>s, <2>f, <2>6, LegacyOperation
  <2>7. CASE (ServiceStarts \/ TimerElapses)
    <3>1. UNCHANGED <<fs, installed, job, queue, client>>
      BY <2>7 DEF ServiceStarts, TimerElapses
    <3>2. \A op \in LegacyOps : Unsent(op)' <=> Unsent(op)
      BY <3>1 DEF Unsent
    <3>3. client'.state = "idle" => client'.todo = <<>>
      BY <1>s, <3>1 DEF LegacyState, CallsFit
    <3> QED
      BY <1>s, <3>1, <3>2, <3>3, LegacyFrame
  <2>8. CASE TakeCall
    BY <1>s, <2>8, <2>f, LegacyTake
  <2>9. CASE Reply
    <3>1. UNCHANGED <<fs, installed, queue>> /\ job["service"].pc \in {"true", "false"} /\ Answer
      BY <2>9 DEF Reply, Returned
    <3>2. job'["service"] = NoJob
      BY <1>t, <3>1, AnswerTyped
    <3>3. /\ ~Active(job["service"]) /\ ~Active(job'["service"])
          /\ job'["service"].op # "DeleteLegacyDirs"
      BY <3>1, <3>2 DEF Active, NoJob
    <3>4. /\ \A op \in LegacyOps : Unsent(op)' <=> Unsent(op)
          /\ client'.uid = client.uid
          /\ client'.state = "idle" => client'.todo = <<>>
      <4>1. CASE client' = client
        BY <1>s, <4>1 DEF Unsent, LegacyState, CallsFit
      <4>2. CASE client.state = "waiting" /\ (NextPart \/ NoTrue(HandledJobs))
        BY <1>a, <4>2
      <4> QED
        BY <3>1, <4>1, <4>2 DEF Answer, Awaited
    <3> QED
      BY <1>s, <3>1, <3>3, <3>4, LegacyFrame
  <2>10. CASE TimesOut
    <3>1. client.state = "waiting" /\ NoTrue(job) /\ UNCHANGED <<fs, installed, queue>>
      BY <2>10 DEF TimesOut
    <3>2. job'["service"] = job["service"]
      BY <1>t, <1>e, <3>1 DEF NoTrue, JobsOK
    <3>3. /\ \A op \in LegacyOps : Unsent(op)' <=> Unsent(op)
          /\ client'.uid = client.uid /\ client'.state # "idle"
      BY <1>a, <3>1
    <3> QED
      BY <1>s, <3>1, <3>2, <3>3, LegacyFrame
  <2>11. CASE ServiceQuits
    <3>1. queue = <<>>
      BY <2>11 DEF ServiceQuits, Calm
    <3>2. queue' = queue /\ UNCHANGED <<fs, installed>> /\ Stops(job)
      BY <2>11, <3>1 DEF ServiceQuits, Stops
    <3>3. job'["service"] = job["service"]
      BY <1>t, <1>e, <3>2 DEF Stops, NoTrue, JobsOK
    <3>4. /\ \A op \in LegacyOps : Unsent(op)' <=> Unsent(op)
          /\ client'.uid = client.uid
          /\ client'.state = "idle" => client'.todo = <<>>
      <4>1. CASE client' = client
        BY <1>s, <4>1 DEF Unsent, LegacyState, CallsFit
      <4>2. CASE client.state = "waiting" /\ NoTrue(job)
        BY <1>a, <4>2
      <4> QED
        BY <3>2, <4>1, <4>2 DEF Stops
    <3> QED
      BY <1>s, <3>2, <3>3, <3>4, LegacyFrame
  <2>12. ~SendFails /\ ~InstallerDies /\ ~ServiceDies
    BY <2>f DEF SendFails, InstallerDies, ServiceDies
  <2> QED
    BY <1>2, <1>e, <2>1, <2>2, <2>3, <2>4, <2>5, <2>6, <2>7, <2>8, <2>9, <2>10, <2>11, <2>12
    DEF Next, InstallerStep, ServiceStep
<1> QED
  BY <1>1, <1>2

\* As long as no failure takes a call or a request along, the directories in the
\* old place are there exactly while somebody has the package, whenever nothing is
\* going on: DeleteLegacyDirectories() does nothing where the system has no users.
THEOREM LegacyFollowsPackageHolds == UserList # <<>> => (Spec => []LegacyFollowsPackage)
<1> SUFFICES ASSUME UserList # <<>>
             PROVE  Spec => []LegacyFollowsPackage
  OBVIOUS
<1>1. TypeInv /\ LegacyInv /\ [Next]_vars => LegacyInv'
  BY LegacyInvStep
<1>2. TypeInv /\ LegacyInv => LegacyFollowsPackage
  <2> SUFFICES ASSUME TypeInv, LegacyInv, Quiet, faults \subseteq {"external"}, ~past.failed
               PROVE  fs.legacy # {} <=> installed # {}
    BY DEF LegacyFollowsPackage
  <2>1. LegacyState
    BY DEF LegacyInv, Calm
  <2>2. client.todo = <<>> /\ queue = <<>> /\ job["service"] = NoJob
    BY <2>1 DEF Quiet, ServiceBusy, LegacyState, CallsFit
  <2>3. ~Unsent("CreateLegacyDirs") /\ ~Unsent("DeleteLegacyDirs") /\ ~CreateQueued /\ ~DeleteQueued
    BY <2>2 DEF Unsent, CreateQueued, DeleteQueued
  <2>4. /\ ~Serving("CreateLegacyDirs", {"make"})
        /\ ~Serving("DeleteLegacyDirs", {"check", "remove"})
    BY <2>2 DEF Serving, NoJob
  <2>5. Global \in installed => fs.legacy # {}
    BY <2>1, <2>3, <2>4 DEF LegacyState, GlobalHas
  <2>6. installed \cap Users # {} => fs.legacy # {}
    BY <2>1 DEF LegacyState, UserHas
  <2>7. installed = {} => fs.legacy = {}
    BY <2>1, <2>3, <2>4 DEF LegacyState, NobodyHas
  <2>8. installed \subseteq Users \cup {Global}
    BY DEF TypeInv, DiskOK, Everybody
  <2> QED
    BY <2>5, <2>6, <2>7, <2>8
<1> QED
  BY <1>1, <1>2, LegacyInvInit, PkgdirTypeInvariant, PTL DEF Spec

-------------------------------------------------------------------------------
(* The list of the installer *)

\* A list is what is left of the parts of its request, and the database is as the
\* request has left it.
ListFits ==
  client.state # "idle" =>
    \/ /\ client.kind = "Install" /\ Global \in installed
       /\ client.todo \in {<<"skel", "skelLabel", "CopyUserDirs", "CreateLegacyDirs">>,
                           <<"skelLabel", "CopyUserDirs", "CreateLegacyDirs">>,
                           <<"CopyUserDirs", "CreateLegacyDirs">>, <<"CreateLegacyDirs">>, <<>>}
    \/ /\ client.kind = "Uninstall" /\ client.uid = Global /\ Global \notin installed
       /\ client.todo \in {<<"unskel", "DeleteUserDirs", "DeleteLegacyDirs">>,
                           <<"DeleteUserDirs", "DeleteLegacyDirs">>, <<"DeleteLegacyDirs">>, <<>>}
    \/ /\ client.kind = "Uninstall" /\ client.uid \in Users
       /\ client.todo \in {<<"files", "DeleteLegacyDirs">>, <<"DeleteLegacyDirs">>, <<>>}
    \/ /\ client.kind \in {"CreateExternal", "DeleteExternal"}
       /\ client.todo \in {<<"CreateExternalDirs">>, <<"DeleteExternalDirs">>, <<>>}

\* What the installer runs itself is at the head of its list; an operation that
\* has returned has no user left to serve.
DirectFits == client.state = "direct" => job["installer"].op = Head(client.todo)
JobsEnd == \A e \in Executors : Returned(e) => job[e].todo = <<>>
ListInv == ListFits /\ DirectFits /\ JobsEnd

LEMMA ListInvInit == Init => ListInv
<1> SUFFICES ASSUME Init
             PROVE  ListInv
  OBVIOUS
<1>1. client.state = "idle" /\ \A e \in Executors : job[e].pc = "idle"
  BY DEF Init, IdleClient, NoJob
<1> QED
  BY <1>1 DEF ListInv, ListFits, DirectFits, JobsEnd, Returned

\* The head of the list is done with.
LEMMA ListGoesOn ==
  ASSUME ClientOK, ListFits, client.state # "idle", client.todo # <<>>, NextPart,
         UNCHANGED installed
  PROVE  ListFits'
<1>1. /\ client'.state = "next" /\ client'.todo = Tail(client.todo)
      /\ client'.kind = client.kind /\ client'.uid = client.uid
  BY NextPartTyped
<1>2. /\ Tail(<<"skel", "skelLabel", "CopyUserDirs", "CreateLegacyDirs">>)
           = <<"skelLabel", "CopyUserDirs", "CreateLegacyDirs">>
      /\ Tail(<<"skelLabel", "CopyUserDirs", "CreateLegacyDirs">>) = <<"CopyUserDirs", "CreateLegacyDirs">>
      /\ Tail(<<"CopyUserDirs", "CreateLegacyDirs">>) = <<"CreateLegacyDirs">>
      /\ Tail(<<"CreateLegacyDirs">>) = <<>>
  OBVIOUS
<1>3. /\ Tail(<<"unskel", "DeleteUserDirs", "DeleteLegacyDirs">>) = <<"DeleteUserDirs", "DeleteLegacyDirs">>
      /\ Tail(<<"DeleteUserDirs", "DeleteLegacyDirs">>) = <<"DeleteLegacyDirs">>
      /\ Tail(<<"files", "DeleteLegacyDirs">>) = <<"DeleteLegacyDirs">>
      /\ Tail(<<"DeleteLegacyDirs">>) = <<>>
      /\ Tail(<<"CreateExternalDirs">>) = <<>> /\ Tail(<<"DeleteExternalDirs">>) = <<>>
  OBVIOUS
<1>4. CASE client.kind = "Install"
  BY <1>1, <1>2, <1>4 DEF ListFits
<1>5. CASE client.kind = "Uninstall"
  BY <1>1, <1>3, <1>5 DEF ListFits
<1>6. CASE client.kind \in {"CreateExternal", "DeleteExternal"}
  BY <1>1, <1>3, <1>6 DEF ListFits
<1> QED
  BY <1>4, <1>5, <1>6 DEF ListFits

\* Without the answer "true" it goes on, or does the head itself.
LEMMA ListWithoutTrue ==
  ASSUME TypeInv, ListFits, client.state \in {"next", "waiting"}, client.todo # <<>>,
         UNCHANGED installed, NEW jobs, NoTrue(jobs),
         jobs \in [Executors -> JobTypes]
  PROVE  ListFits' /\ DirectFits'
<1>c. ClientOK
  BY DEF TypeInv
<1>1. CASE NextPart
  BY <1>c, <1>1, ListGoesOn, NextPartTyped DEF DirectFits
<1>2. CASE /\ client' = [client EXCEPT !.state = "direct"]
           /\ job' = [jobs EXCEPT !["installer"] = NewJob(Head(client.todo), client.uid)]
  <2>1. /\ client'.todo = client.todo /\ client'.kind = client.kind /\ client'.uid = client.uid
        /\ client'.state = "direct"
    BY <1>c, <1>2 DEF ClientOK
  <2>2. ListFits'
    BY <2>1 DEF ListFits
  <2>3. job'["installer"].op = Head(client.todo)
    BY <1>2 DEF NewJob, Executors
  <2> QED
    BY <2>1, <2>2, <2>3 DEF DirectFits
<1> QED
  BY <1>1, <1>2 DEF NoTrue

\* A step of an operation goes on for the same user, to the next user, or returns.
LEMMA OperationMoves ==
  ASSUME NEW e \in Executors, OperationStep(e)
  PROVE  \/ \E r \in BOOLEAN : Return(e, r)
         \/ \E p \in {"make", "label", "remove", "own"} : Goto(e, p)
         \/ \E p \in {"check", "user"} : NextUser(e, p)
         \/ NextPath(e)
<1>1. CASE AllUsersDone(e)
  BY <1>1 DEF AllUsersDone
<1>2. CASE CopyCheck(e)
  BY <1>2 DEF CopyCheck
<1>3. CASE CopyMake(e) \/ CopyOwn(e) \/ CopyLabel(e)
  BY <1>3 DEF CopyMake, CopyOwn, CopyLabel
<1>4. CASE DeleteUser(e) \/ CreateExternal(e) \/ DeleteExternal(e)
  <2>1. DeleteUser(e) => NextUser(e, "user") \/ Return(e, FALSE)
    <3> DEFINE u == User(e)
               Left(dirs) == [fs EXCEPT !.dir[u] = dirs, !.own[u] = @ \cap dirs, !.label[u] = @ \cap dirs]
    <3>1. DeleteUser(e) =>
            \/ Disk(fs) /\ NextUser(e, "user")
            \/ Disk(Left({})) /\ NextUser(e, "user")
            \/ Return(e, FALSE)
      BY Zenon DEF DeleteUser
    <3> QED
      BY <3>1
  <2>2. CreateExternal(e) \/ DeleteExternal(e) => NextUser(e, "user")
    BY DEF CreateExternal, DeleteExternal
  <2> QED
    BY <1>4, <2>1, <2>2
<1>5. CASE CreateLegacyMake(e) \/ CreateLegacyLabel(e)
  BY <1>5 DEF CreateLegacyMake, CreateLegacyLabel
<1>6. CASE DeleteLegacyCheck(e) \/ DeleteLegacyRemove(e)
  BY <1>6 DEF DeleteLegacyCheck, DeleteLegacyRemove
<1> QED
  BY <1>1, <1>2, <1>3, <1>4, <1>5, <1>6 DEF OperationStep

LEMMA OperationEnds ==
  ASSUME TypeInv, JobsEnd, NEW e \in Executors, OperationStep(e)
  PROVE  JobsEnd'
<1>1. job \in [Executors -> JobTypes]
  BY DEF TypeInv, JobsOK
<1>2. \A g \in Executors \ {e} : job'[g] = job[g]
  BY <1>1, OperationMoves DEF Return, Goto, NextUser, NextPath
<1>3. job'[e].pc \in {"true", "false"} => job'[e].todo = <<>>
  <2>1. CASE \E r \in BOOLEAN : Return(e, r)
    BY <1>1, <2>1 DEF Return, JobTypes
  <2>2. CASE \E p \in {"make", "label", "remove", "own"} : Goto(e, p)
    BY <1>1, <2>2 DEF Goto, JobTypes
  <2>3. CASE \E p \in {"check", "user"} : NextUser(e, p)
    BY <1>1, <2>3 DEF NextUser, JobTypes
  <2>4. CASE NextPath(e)
    BY <1>1, <2>4 DEF NextPath, Goto, JobTypes
  <2> QED
    BY <2>1, <2>2, <2>3, <2>4, OperationMoves
<1> QED
  BY <1>2, <1>3 DEF JobsEnd, Returned

\* Whatever happens, the list of the installer stays the rest of a request.
LEMMA ListInvStep == TypeInv /\ ListInv /\ [Next]_vars => ListInv'
<1> SUFFICES ASSUME TypeInv, ListInv, [Next]_vars
             PROVE  ListInv'
  OBVIOUS
<1>t. JobsOK /\ ClientOK /\ InstallerOK /\ QueueOK /\ DiskOK
  BY DEF TypeInv
<1>e. "installer" \in Executors /\ "service" \in Executors /\ "installer" # "service"
  BY DEF Executors
<1>l. ListFits /\ DirectFits /\ JobsEnd /\ job \in [Executors -> JobTypes]
  BY <1>t DEF ListInv, JobsOK
<1>j. NoJob.pc = "idle" /\ NoJob.op = "none"
  BY DEF NoJob
\* The installer goes on, and no operation moves but that it has ended.
<1>n. ASSUME NextPart, client.todo # <<>>, client.state # "idle", UNCHANGED installed,
             \A e \in Executors : job'[e] = job[e] \/ job'[e] = NoJob
      PROVE  ListInv'
  <2>1. ListFits' /\ client'.state = "next"
    BY <1>t, <1>l, <1>n, ListGoesOn, NextPartTyped
  <2>2. JobsEnd'
    BY <1>l, <1>n, <1>j DEF JobsEnd, Returned
  <2> QED
    BY <2>1, <2>2 DEF ListInv, DirectFits
<1>i. ASSUME client'.state = "idle", \A e \in Executors : job'[e] = job[e] \/ job'[e] = NoJob
      PROVE  ListInv'
  <2>1. JobsEnd'
    BY <1>l, <1>i, <1>j DEF JobsEnd, Returned
  <2> QED
    BY <1>i, <2>1 DEF ListInv, ListFits, DirectFits
\* The installer waits, or does not know that anything happens.
<1>u. ASSUME client'.todo = client.todo, client'.kind = client.kind, client'.uid = client.uid,
             client'.state = client.state \/ (client.state = "next" /\ client'.state = "waiting"),
             UNCHANGED installed, job'["installer"].op = job["installer"].op, JobsEnd'
      PROVE  ListInv'
  BY <1>l, <1>u DEF ListInv, ListFits, DirectFits
\* The call of the installer has not brought "true".
<1>w. ASSUME NEW jobs, NoTrue(jobs), client.state \in {"next", "waiting"}, client.todo # <<>>,
             Head(client.todo) \in Ops, UNCHANGED installed, jobs \in [Executors -> JobTypes],
             \A e \in Executors : jobs[e] = job[e] \/ jobs[e] = NoJob
      PROVE  ListInv'
  <2>1. ListFits' /\ DirectFits'
    BY <1>l, <1>w, ListWithoutTrue
  <2>2. NewJob(Head(client.todo), client.uid).pc \notin {"true", "false"}
    BY <1>w DEF NewJob, Ops
  <2>3. \A e \in Executors : job'[e] = jobs[e] \/ job'[e] = NewJob(Head(client.todo), client.uid)
    BY <1>w DEF NoTrue
  <2>4. JobsEnd'
    BY <1>l, <1>w, <1>j, <2>2, <2>3 DEF JobsEnd, Returned
  <2> QED
    BY <2>1, <2>4 DEF ListInv
<1>h. /\ HandledJobs \in [Executors -> JobTypes]
      /\ \A e \in Executors : HandledJobs[e] = job[e] \/ HandledJobs[e] = NoJob
      /\ HandledJobs["installer"] = job["installer"]
  BY <1>l, <1>e, NewJobTyped DEF HandledJobs
<1>1. CASE UNCHANGED vars
  BY <1>1, <1>l DEF vars, ListInv, ListFits, DirectFits, JobsEnd, Returned
<1>2. CASE RequestStep
  <2>1. PICK kind \in {"Install", "Uninstall", "CreateExternal", "DeleteExternal"},
             uid \in Users \cup {Global} : Request(kind, uid)
    BY <1>2 DEF RequestStep
  <2>2. /\ client'.state = "next" /\ client'.todo = Parts(kind, uid)
        /\ client'.kind = kind /\ client'.uid = uid /\ job' = job
    BY <2>1 DEF Request
  <2>3. /\ kind = "Install" => uid = Global /\ Global \in installed'
        /\ kind = "Uninstall" => uid \notin installed'
    BY <2>1 DEF Request
  <2>4. ListFits'
    BY <2>2, <2>3 DEF ListFits, Parts
  <2> QED
    BY <1>l, <2>2, <2>4 DEF ListInv, DirectFits, JobsEnd, Returned
<1>3. CASE SkelMake \/ SkelLabel \/ SkelDelete \/ RemoveFiles
  <2>1. client.todo # <<>> /\ client.state = "next" /\ job' = job
    BY <1>3 DEF SkelMake, SkelLabel, SkelDelete, RemoveFiles, Doing
  <2>2. (NextPart /\ UNCHANGED installed) \/ RequestFails
    BY <1>3 DEF SkelMake, SkelLabel, SkelDelete, RemoveFiles
  <2>3. RequestFails => client'.state = "idle"
    BY DEF RequestFails, IdleClient
  <2> QED
    BY <1>n, <1>i, <2>1, <2>2, <2>3
<1>4. CASE Send
  <2>1. client.state = "next" /\ client' = [client EXCEPT !.state = "waiting"] /\ UNCHANGED <<job, installed>>
    BY <1>4 DEF Send, Doing
  <2>2. /\ client'.todo = client.todo /\ client'.kind = client.kind /\ client'.uid = client.uid
        /\ client'.state = "waiting"
    BY <1>t, <2>1 DEF ClientOK
  <2>3. JobsEnd'
    BY <1>l, <2>1 DEF JobsEnd, Returned
  <2> QED
    BY <1>u, <2>1, <2>2, <2>3
<1>5. CASE DirectReturns
  <2>1. client.todo # <<>> /\ client.state # "idle"
    BY <1>5, <1>t DEF DirectReturns, ClientOK
  <2>2. \A e \in Executors : job'[e] = job[e] \/ job'[e] = NoJob
    BY <1>5, <1>l DEF DirectReturns
  <2>3. (NextPart /\ UNCHANGED installed) \/ RequestFails
    BY <1>5 DEF DirectReturns
  <2>4. RequestFails => client'.state = "idle"
    BY DEF RequestFails, IdleClient
  <2> QED
    BY <1>n, <1>i, <2>1, <2>2, <2>3, <2>4
<1>6. CASE RequestEnds \/ InstallerDies
  <2>1. client'.state = "idle"
    BY <1>6 DEF RequestEnds, InstallerDies, RequestFails, IdleClient
  <2>2. \A e \in Executors : job'[e] = job[e] \/ job'[e] = NoJob
    BY <1>6, <1>l DEF RequestEnds, InstallerDies
  <2> QED
    BY <1>i, <2>1, <2>2
<1>7. ASSUME NEW e \in Executors, Operation(e)
      PROVE  ListInv'
  <2>1. OperationStep(e) /\ client' = client
    BY <1>7 DEF Operation
  <2>2. JobsEnd' /\ installed' = installed
    BY <1>t, <1>l, <2>1, OperationEnds, OperationTyped DEF TypeInv
  <2>3. job'["installer"].op = job["installer"].op
    <3>1. \E k : Becomes(e, k)
      BY <1>t, <2>1, OperationTyped DEF TypeInv
    <3> QED
      BY <1>t, <1>e, <3>1, BecomesKeeps DEF Becomes
  <2> QED
    BY <1>u, <2>1, <2>2, <2>3
<1>8. CASE ServiceStarts \/ TimerElapses
  <2>1. UNCHANGED <<client, job, installed>>
    BY <1>8 DEF ServiceStarts, TimerElapses
  <2> QED
    BY <1>l, <1>u, <2>1 DEF JobsEnd, Returned
<1>9. CASE TakeCall
  <2> DEFINE c == Head(queue)
  <2>1. UNCHANGED <<client, installed>> /\ queue # <<>>
    BY <1>9 DEF TakeCall
  <2>2. c.op \in Ops
    <3>1. c \in [op : Ops, uid : Everybody]
      BY <1>t, <2>1, HeadTailProperties DEF QueueOK
    <3> QED
      BY <3>1
  <2>3. NewJob(c.op, c.uid).pc \notin {"true", "false"}
    BY <2>2 DEF NewJob, Ops
  <2>4. PICK j : /\ job' = [job EXCEPT !["service"] = j]
                 /\ \/ j = NewJob(c.op, c.uid)
                    \/ c.op = "DeleteLegacyDirs" /\ j = [NewJob(c.op, c.uid) EXCEPT !.pc = "false"]
    BY <1>9 DEF TakeCall
  <2>5. j.pc \in {"true", "false"} => j.todo = <<>>
    BY <2>3, <2>4 DEF NewJob
  <2>6. job'["installer"] = job["installer"] /\ \A e \in Executors : job'[e] = job[e] \/ job'[e] = j
    BY <1>l, <1>e, <2>4
  <2>7. JobsEnd'
    BY <1>l, <2>5, <2>6 DEF JobsEnd, Returned
  <2> QED
    BY <1>u, <2>1, <2>6, <2>7
<1>10. CASE Reply
  <2>1. Answer /\ UNCHANGED installed
    BY <1>10 DEF Reply
  <2>2. CASE job' = HandledJobs /\ UNCHANGED client
    <3>1. JobsEnd'
      BY <1>l, <1>h, <1>j, <2>2 DEF JobsEnd, Returned
    <3> QED
      BY <1>u, <1>h, <2>1, <2>2, <3>1
  <2>3. CASE Awaited
    <3>1. client.state = "waiting" /\ client.todo # <<>> /\ Head(client.todo) \in Ops
      BY <1>t, <2>3 DEF Awaited, ClientOK
    <3>2. (job' = HandledJobs /\ NextPart) \/ NoTrue(HandledJobs)
      BY <2>1, <2>3 DEF Answer
    <3> QED
      BY <1>n, <1>w, <1>h, <2>1, <3>1, <3>2
  <2> QED
    BY <2>1, <2>2, <2>3 DEF Answer
<1>11. CASE SendFails \/ TimesOut
  <2>1. client.state \in {"next", "waiting"} /\ client.todo # <<>> /\ Head(client.todo) \in Ops
    BY <1>11, <1>t DEF SendFails, TimesOut, Doing, ClientOK
  <2>2. NoTrue(job) /\ UNCHANGED installed
    BY <1>11 DEF SendFails, TimesOut
  <2> QED
    BY <1>l, <1>w, <2>1, <2>2
<1>12. CASE ServiceQuits \/ ServiceDies
  <2>1. PICK jobs : Stops(jobs) /\ (jobs = HandledJobs \/ jobs = job)
    BY <1>12 DEF ServiceQuits, ServiceDies
  <2>2. /\ jobs \in [Executors -> JobTypes] /\ jobs["installer"] = job["installer"]
        /\ \A e \in Executors : jobs[e] = job[e] \/ jobs[e] = NoJob
    BY <1>l, <1>h, <2>1
  <2>3. CASE client.state = "waiting"
    <3>1. client.todo # <<>> /\ Head(client.todo) \in Ops
      BY <1>t, <2>3 DEF ClientOK
    <3> QED
      BY <1>w, <2>1, <2>2, <2>3, <3>1 DEF Stops
  <2>4. CASE client.state # "waiting"
    <3>1. job' = jobs /\ UNCHANGED <<client, installed>>
      BY <2>1, <2>4 DEF Stops
    <3>2. JobsEnd'
      BY <1>l, <1>j, <2>2, <3>1 DEF JobsEnd, Returned
    <3> QED
      BY <1>u, <2>2, <3>1, <3>2
  <2> QED
    BY <2>3, <2>4
<1> QED
  BY <1>e, <1>1, <1>2, <1>3, <1>4, <1>5, <1>6, <1>7, <1>8, <1>9, <1>10, <1>11, <1>12
  DEF Next, InstallerStep, ServiceStep

-------------------------------------------------------------------------------
(* The directories of the users after a removal *)

\* Failures that take no directory and no request along; a call may get lost.
Gentle == faults \subseteq Harmless /\ ~past.failed

\* The installer still has to ask for the deletion, or waits for its answer; it has
\* still to remove the private package of u.
DeletionDue == Doing("unskel") \/ Doing("DeleteUserDirs")
DeletionAwaited == client.state = "waiting" /\ Head(client.todo) = "DeleteUserDirs"
Clears(u) == Doing("files") /\ client.uid = u
DeletionQueued == \E i \in 1..Len(queue) : queue[i].op = "DeleteUserDirs"

\* An executor that deletes has not come past u; a copy is in the middle of
\* the directories of a user.
InList(u, s) == \E i \in 1..Len(s) : s[i] = u
Deletes(e, u) == job[e].op = "DeleteUserDirs" /\ InList(u, job[e].todo)
MidCopy(e) ==
  /\ job[e].op = "CopyUserDirs"
  /\ job[e].pc \in {"make", "own", "label"} \/ (job[e].pc = "check" /\ job[e].at > 1)

Stays(u) == u \notin installed /\ fs.dir[u] # {}
ByInstaller(u) == DeletionDue \/ Clears(u) \/ Deletes("installer", u)
ServiceMayQuit == ~ServiceBusy /\ service.timer = "due"

\* A directory that stays is still going to be deleted.  Behind a copy in the
\* service a deletion is in the queue, whatever the installer does itself; when the
\* service can quit and take the queue along, the installer sees to it.
RemovedState ==
  /\ fs.skel = {} \/ Doing("unskel")
  /\ MidCopy("service") => DeletionDue \/ DeletionQueued
  /\ \A u \in Users :
       /\ Stays(u) => ByInstaller(u) \/ DeletionQueued \/ Deletes("service", u)
       /\ Stays(u) /\ ServiceMayQuit => ByInstaller(u) \/ DeletionAwaited
RemovedInv == Gentle /\ Global \notin installed => RemovedState

\* Failures that matter are not forgotten.
LEMMA GentleBefore ==
  ASSUME TypeInv, Next, Gentle'
  PROVE  Gentle /\ \A kind : Fault(kind) => kind \in {"lostCall", "external"}
<1>1. \A kind : Fault(kind) => kind \in faults'
  BY DEF Fault
<1> QED
  BY <1>1, HistoryGrows DEF Gentle, Harmless

LEMMA RemovedInvInit == Init => RemovedInv
<1> SUFFICES ASSUME Init, Global \notin installed
             PROVE  RemovedState
  BY DEF RemovedInv
<1>1. PICK global \in BOOLEAN, card \in BOOLEAN :
        /\ installed = past.private \cup (IF global THEN {Global} ELSE {})
        /\ fs = InitialDisk(past.private, global, card)
  BY DEF Init
<1>2. ~global
  BY <1>1
<1>3. fs.skel = {} /\ \A u \in Users : ~Stays(u)
  BY <1>1, <1>2 DEF InitialDisk, Stays
<1>4. ~MidCopy("service")
  BY DEF Init, MidCopy, Executors, NoJob
<1> QED
  BY <1>3, <1>4 DEF RemovedState

\* A step that leaves the directories, or empties some.
LEMMA RemovedFrame ==
  ASSUME RemovedState, UNCHANGED installed,
         fs'.skel = {} \/ (fs'.skel = fs.skel /\ (Doing("unskel") => Doing("unskel")')),
         MidCopy("service")' => MidCopy("service"),
         DeletionDue => DeletionDue',
         DeletionQueued => DeletionQueued',
         \A u \in Users : Stays(u)' =>
           /\ Stays(u)
           /\ Clears(u) => Clears(u)'
           /\ Deletes("installer", u) => Deletes("installer", u)'
           /\ Deletes("service", u) => Deletes("service", u)'
           /\ ServiceMayQuit' =>
                \/ ServiceMayQuit /\ (DeletionAwaited => DeletionAwaited' \/ ByInstaller(u)')
                \/ ~DeletionQueued /\ ~Deletes("service", u)
  PROVE  RemovedState'
<1>1. MidCopy("service")' => DeletionDue' \/ DeletionQueued'
  BY DEF RemovedState
<1>2. \A u \in Users : Stays(u)' /\ ByInstaller(u) => ByInstaller(u)'
  BY DEF ByInstaller
<1>3. \A u \in Users : Stays(u)' => ByInstaller(u)' \/ DeletionQueued' \/ Deletes("service", u)'
  BY <1>2 DEF RemovedState
<1>4. \A u \in Users : Stays(u)' /\ ServiceMayQuit' => ByInstaller(u)' \/ DeletionAwaited'
  BY <1>2 DEF RemovedState
<1> QED
  BY <1>1, <1>3, <1>4 DEF RemovedState

\* The service is busy with something else: it cannot quit.
LEMMA RemovedBusy ==
  ASSUME RemovedState, UNCHANGED installed, ServiceBusy',
         fs'.skel = {} \/ (fs'.skel = fs.skel /\ (Doing("unskel") => Doing("unskel")')),
         MidCopy("service")' => DeletionDue' \/ DeletionQueued',
         \A u \in Users : Stays(u)' => ByInstaller(u)' \/ DeletionQueued' \/ Deletes("service", u)'
  PROVE  RemovedState'
BY DEF RemovedState, ServiceMayQuit

LEMMA ListMembers ==
  /\ \A u \in Users : InList(u, UserList)
  /\ \A u : ~InList(u, <<>>)
  /\ \A s \in Suffixes : \A u : s # <<>> /\ InList(u, s) => u = Head(s) \/ InList(u, Tail(s))
<1>1. \A u \in Users : InList(u, UserList)
  BY DEF Users, InList
<1>2. \A u : ~InList(u, <<>>)
  BY DEF InList
<1>3. ASSUME NEW s \in Suffixes, NEW u, s # <<>>, InList(u, s)
      PROVE  u = Head(s) \/ InList(u, Tail(s))
  <2>1. s \in Seq(Users)
    <3>1. PICK i \in 1..Len(UserList)+1 : s = SubSeq(UserList, i, Len(UserList))
      BY DEF Suffixes
    <3>2. /\ UserList \in Seq(Users) /\ i \in 1..Len(UserList)+1
          /\ Len(UserList) \in i-1..Len(UserList)
      <4>1. Len(UserList) \in Nat /\ Len(UserList) \in i-1..Len(UserList)
        BY <3>1, ListOfUsers
      <4>2. UserList \in Seq(Users)
        BY ListOfUsers, <4>1 DEF Users
      <4> QED
        BY <3>1, <4>1, <4>2
    <3> QED
      BY <3>1, <3>2, SubSeqProperties
  <2>2. /\ Len(s) \in Nat /\ Len(Tail(s)) = Len(s) - 1 /\ Head(s) = s[1]
        /\ \A i \in 1..Len(Tail(s)) : Tail(s)[i] = s[i + 1]
    BY <1>3, <2>1, HeadTailProperties
  <2>3. PICK i \in 1..Len(s) : s[i] = u
    BY <1>3 DEF InList
  <2>4. CASE i = 1
    BY <2>2, <2>3, <2>4
  <2>5. CASE i # 1
    <3>1. i - 1 \in 1..Len(Tail(s)) /\ Tail(s)[i - 1] = u
      BY <2>2, <2>3, <2>5
    <3> QED
      BY <3>1 DEF InList
  <2> QED
    BY <2>4, <2>5
<1> QED
  BY <1>1, <1>2, <1>3

\* Three steps concern the directories of users; the others touch none, bring no
\* copy to the point of making one, and take no user from a deletion.
LEMMA NoUserDirectory ==
  ASSUME TypeInv, NEW e \in Executors, OperationStep(e),
         ~CopyCheck(e), ~CopyMake(e), ~DeleteUser(e)
  PROVE  /\ fs'.skel = fs.skel /\ fs'.dir = fs.dir
         /\ job[e].op = "CopyUserDirs" => MidCopy(e) \/ job'[e].pc = "true"
         /\ job[e].op = "DeleteUserDirs" => job[e].todo = <<>>
<1>1. fs \in DiskType /\ job \in [Executors -> JobTypes] /\ JobShape(job[e])
  BY DEF TypeInv, DiskOK, JobsOK
<1>2. \A d : Disk(d) => fs' = d
  BY DEF Disk
<1>3. CASE AllUsersDone(e)
  <2>1. job'[e].pc = "true"
    BY <1>1, <1>3 DEF AllUsersDone, Return, JobTypes
  <2> QED
    BY <1>2, <1>3, <2>1 DEF AllUsersDone, HasUser
<1>4. CASE CopyOwn(e)
  <2>1. MidCopy(e) /\ job[e].op = "CopyUserDirs"
    BY <1>4 DEF CopyOwn, At, MidCopy
  <2>2. fs'.skel = fs.skel /\ fs'.dir = fs.dir
    BY <1>1, <1>2, <1>4 DEF CopyOwn, DiskType
  <2> QED
    BY <2>1, <2>2
<1>5. CASE CopyLabel(e)
  <2>1. MidCopy(e) /\ job[e].op = "CopyUserDirs"
    BY <1>5 DEF CopyLabel, At, MidCopy
  <2>2. fs'.skel = fs.skel /\ fs'.dir = fs.dir
    BY <1>1, <1>2, <1>5 DEF CopyLabel, DiskType
  <2> QED
    BY <2>1, <2>2
<1>6. CASE CreateExternal(e) \/ DeleteExternal(e)
  <2>1. job[e].op \notin {"CopyUserDirs", "DeleteUserDirs"}
    BY <1>6 DEF CreateExternal, DeleteExternal, At
  <2>2. \A u, n : Create(u, n).skel = fs.skel /\ Create(u, n).dir = fs.dir
    BY <1>1 DEF Create, DiskType
  <2> DEFINE Kept(dirs) == [fs EXCEPT !.ext[User(e)] = dirs]
  <2>3. \A dirs : Kept(dirs).skel = fs.skel /\ Kept(dirs).dir = fs.dir
    BY <1>1 DEF DiskType
  <2> HIDE DEF Kept
  <2>4. CreateExternal(e) => fs'.skel = fs.skel /\ fs'.dir = fs.dir
    BY <1>2, <2>2 DEF CreateExternal
  <2>5. DeleteExternal(e) =>
          \/ Disk(fs) \/ Disk(Kept({}))
          \/ \E kept \in Remains(fs.ext[User(e)]) : Disk(Kept(kept))
    BY DEF DeleteExternal, Kept
  <2> QED
    BY <1>2, <1>6, <2>1, <2>3, <2>4, <2>5
<1>7. CASE \/ CreateLegacyMake(e) \/ CreateLegacyLabel(e)
           \/ DeleteLegacyCheck(e) \/ DeleteLegacyRemove(e)
  <2>1. job[e].op \notin {"CopyUserDirs", "DeleteUserDirs"}
    BY <1>7 DEF CreateLegacyMake, CreateLegacyLabel, DeleteLegacyCheck, DeleteLegacyRemove, At
  <2>2. fs'.skel = fs.skel /\ fs'.dir = fs.dir
    BY <1>1, <1>2, <1>7
    DEF CreateLegacyMake, CreateLegacyLabel, DeleteLegacyCheck, DeleteLegacyRemove, DiskType
  <2> QED
    BY <2>1, <2>2
<1> QED
  BY <1>3, <1>4, <1>5, <1>6, <1>7 DEF OperationStep

\* Without failures a user who does not have the package is left without directories.
LEMMA DeleteStep ==
  ASSUME TypeInv, NEW e \in Executors, DeleteUser(e), ~Fault("delete")
  PROVE  LET u == User(e)
         IN /\ job[e].op = "DeleteUserDirs" /\ HasUser(e) /\ job[e].todo \in Suffixes
            /\ u = Head(job[e].todo) /\ u \in Users /\ fs'.skel = fs.skel
            /\ \A v \in Users \ {u} : fs'.dir[v] = fs.dir[v]
            /\ fs'.dir[u] = IF u \in installed THEN fs.dir[u] ELSE {}
            /\ job'[e].todo = Tail(job[e].todo)
<1> DEFINE u == User(e)
           Left(dirs) == [fs EXCEPT !.dir[u] = dirs, !.own[u] = @ \cap dirs, !.label[u] = @ \cap dirs]
<1>t. fs \in DiskType /\ job \in [Executors -> JobTypes]
  BY DEF TypeInv, DiskOK, JobsOK
<1>1. /\ job[e].op = "DeleteUserDirs" /\ HasUser(e) /\ job[e].todo \in Suffixes
      /\ u = Head(job[e].todo) /\ u \in Users
  BY <1>t, SuffixMoves DEF DeleteUser, At, HasUser, User, JobTypes
<1>2. /\ Left({}).skel = fs.skel /\ Left({}).dir[u] = {}
      /\ \A v \in Users \ {u} : Left({}).dir[v] = fs.dir[v]
  BY <1>t, <1>1 DEF DiskType
<1> HIDE DEF Left
<1>3. /\ NextUser(e, "user")
      /\ \/ u \in installed /\ fs' = fs
         \/ u \notin installed /\ fs' = Left({})
  <2>1. \/ Has(u) /\ Disk(fs) /\ NextUser(e, "user")
        \/ ~Has(u) /\ Disk(Left({})) /\ NextUser(e, "user")
        \/ Fault("delete")
    BY DEF DeleteUser, Left
  <2> QED
    BY <2>1 DEF Disk, Has
<1>4. job'[e].todo = Tail(job[e].todo)
  BY <1>t, <1>3 DEF NextUser, JobTypes
<1> HIDE DEF u
<1>5. /\ fs'.skel = fs.skel /\ \A v \in Users \ {u} : fs'.dir[v] = fs.dir[v]
      /\ fs'.dir[u] = IF u \in installed THEN fs.dir[u] ELSE {}
  BY <1>2, <1>3
<1> QED
  BY <1>1, <1>4, <1>5 DEF u

\* The operations go on.
LEMMA RemovedOperation ==
  ASSUME TypeInv, ListInv, RemovedState, Global \notin installed, NEW e \in Executors, Operation(e),
         \A kind : Fault(kind) => kind \in {"lostCall", "external"}
  PROVE  RemovedState'
<1>t. /\ JobsOK /\ ClientOK /\ InstallerOK /\ DiskOK /\ BudgetOK /\ fs \in DiskType
      /\ job \in [Executors -> JobTypes]
  BY DEF TypeInv, DiskOK, JobsOK
<1>e. "installer" \in Executors /\ "service" \in Executors /\ "installer" # "service"
  BY DEF Executors
<1>0. OperationStep(e) /\ UNCHANGED <<queue, client, service>>
  BY DEF Operation
<1>1. PICK k : Becomes(e, k)
  BY <1>t, <1>0, OperationTyped
<1>2. /\ job[e].op # "none" /\ installed' = installed /\ job'[e].op = job[e].op
      /\ \A g \in Executors \ {e} : job'[g] = job[g]
  BY <1>t, <1>0, <1>1, OperationTyped, BecomesKeeps DEF Becomes
<1>3. /\ Doing("unskel")' <=> Doing("unskel")
      /\ DeletionDue' <=> DeletionDue
      /\ DeletionAwaited' <=> DeletionAwaited
      /\ DeletionQueued' <=> DeletionQueued
      /\ \A u : Clears(u)' <=> Clears(u)
  BY <1>0 DEF Doing, DeletionDue, DeletionAwaited, DeletionQueued, Clears
<1>4. ServiceMayQuit' => ServiceMayQuit
  <2>1. ServiceBusy => ServiceBusy'
    <3>1. CASE e = "service"
      BY <1>2, <3>1 DEF ServiceBusy, NoJob
    <3>2. CASE e # "service"
      BY <1>e, <1>2, <3>2 DEF ServiceBusy
    <3> QED
      BY <3>1, <3>2
  <2> QED
    BY <1>0, <2>1 DEF ServiceMayQuit
\* The installer copies only for a package that is there.
<1>5. job[e].op = "CopyUserDirs" => e = "service"
  <2> SUFFICES ASSUME job["installer"].op = "CopyUserDirs"
               PROVE  FALSE
    BY DEF Executors
  <2>1. client.state = "direct" /\ client.todo # <<>> /\ Head(client.todo) = "CopyUserDirs"
    BY <1>t DEF InstallerOK, ClientOK, ListInv, DirectFits, NoJob
  <2>2. client.kind # "Install"
    BY <2>1 DEF ListInv, ListFits
  <2> QED
    BY <2>1, <2>2 DEF ListInv, ListFits
\* The service copies: it deletes for nobody.
<1>6. job["service"].op = "CopyUserDirs" => \A u : ~Deletes("service", u) /\ ~Deletes("service", u)'
  BY <1>e, <1>2 DEF Deletes
<1>7. e = "service" => \A u : Deletes("installer", u)' <=> Deletes("installer", u)
  BY <1>e, <1>2 DEF Deletes
<1>8. e = "service" => ServiceBusy'
  BY <1>2 DEF ServiceBusy, NoJob
<1>9. CASE DeleteUser(e)
  <2> DEFINE u == User(e)
  <2>1. /\ job[e].op = "DeleteUserDirs" /\ HasUser(e) /\ job[e].todo \in Suffixes
        /\ u = Head(job[e].todo) /\ u \in Users /\ fs'.skel = fs.skel
        /\ \A v \in Users \ {u} : fs'.dir[v] = fs.dir[v]
        /\ fs'.dir[u] = IF u \in installed THEN fs.dir[u] ELSE {}
        /\ job'[e].todo = Tail(job[e].todo)
    BY <1>9, DeleteStep
  <2> HIDE DEF u
  <2>2. \A v \in Users : Stays(v)' => Stays(v) /\ v # u
    BY <1>2, <2>1 DEF Stays
  <2>3. \A v \in Users \ {u} : Deletes(e, v) => Deletes(e, v)'
    BY <1>2, <2>1, ListMembers DEF Deletes, HasUser
  <2>4. \A v \in Users \ {u}, g \in Executors : Deletes(g, v) => Deletes(g, v)'
    BY <1>2, <2>3 DEF Deletes
  <2>5. MidCopy("service")' => MidCopy("service")
    BY <1>e, <1>2, <2>1 DEF MidCopy
  <2>6. \A v \in Users : Stays(v)' =>
           /\ Stays(v)
           /\ Deletes("installer", v) => Deletes("installer", v)'
           /\ Deletes("service", v) => Deletes("service", v)'
    BY <1>e, <2>2, <2>4
  <2> QED
    BY <1>2, <1>3, <1>4, <2>1, <2>5, <2>6, RemovedFrame
<1>10. CASE CopyMake(e)
  <2> DEFINE u == User(e)
  <2>1. /\ e = "service" /\ job[e].op = "CopyUserDirs" /\ job[e].pc = "make" /\ MidCopy("service")
        /\ u \in Users /\ job[e].at \in Paths
    BY <1>t, <1>5, <1>10, SuffixMoves DEF CopyMake, At, MidCopy, JobShape, JobTypes, JobsOK, User
  <2>2. fs' = [fs EXCEPT !.dir[u] = @ \cup {1, job[e].at}] /\ NextPath(e)
    BY <1>10 DEF CopyMake, Disk
  <2>3. fs'.skel = fs.skel /\ \A v \in Users : v # u => fs'.dir[v] = fs.dir[v]
    BY <1>t, <2>1, <2>2 DEF DiskType
  <2>6. \A v \in Users : Stays(v)' => Stays(v) \/ v = u
    BY <1>2, <2>3 DEF Stays
  <2>7. DeletionDue \/ DeletionQueued \/ \A v \in Users : v = u => ~Stays(v)'
    BY <2>1 DEF RemovedState
  <2>8. \A v \in Users : Stays(v)' => ByInstaller(v)' \/ DeletionQueued' \/ Deletes("service", v)'
    BY <1>3, <1>6, <1>7, <2>1, <2>6, <2>7 DEF RemovedState, ByInstaller
  <2>9. fs.skel = {} \/ Doing("unskel")
    BY DEF RemovedState
  <2>10. MidCopy("service")' => DeletionDue' \/ DeletionQueued'
    BY <1>3, <2>1 DEF RemovedState
  <2>11. fs'.skel = {} \/ (fs'.skel = fs.skel /\ Doing("unskel")')
    BY <1>3, <2>3, <2>9
  <2> QED
    BY <1>2, <1>8, <2>1, <2>8, <2>10, <2>11, RemovedBusy
<1>11. CASE CopyCheck(e)
  <2>1. e = "service" /\ job[e].op = "CopyUserDirs" /\ fs' = fs
    BY <1>5, <1>11 DEF CopyCheck, At, Disk
  <2>2. fs.skel = {} /\ ~MidCopy(e) => ~MidCopy(e)'
    <3> SUFFICES ASSUME fs.skel = {}, ~MidCopy(e)
                 PROVE  ~MidCopy(e)'
      OBVIOUS
    <3>1. job[e].at \in Nat /\ job[e].at = 1
      BY <1>t, <1>11, PathsExist DEF CopyCheck, At, MidCopy, JobTypes, Paths
    <3>2. NextUser(e, "check")
      BY <1>11, <3>1 DEF CopyCheck, CopyGone
    <3>3. job'[e].pc = "check" /\ job'[e].at = 1
      BY <1>t, <3>2 DEF NextUser, JobTypes
    <3> QED
      BY <3>3 DEF MidCopy
  <2>3. fs.skel = {} \/ Doing("unskel")
    BY DEF RemovedState
  <2>4. MidCopy("service")' => DeletionDue' \/ DeletionQueued'
    BY <1>3, <2>1, <2>2, <2>3 DEF RemovedState, DeletionDue
  <2>5. \A u \in Users : Stays(u)' => ByInstaller(u)' \/ DeletionQueued' \/ Deletes("service", u)'
    BY <1>2, <1>3, <1>6, <1>7, <2>1 DEF RemovedState, Stays, ByInstaller
  <2>6. fs'.skel = {} \/ (fs'.skel = fs.skel /\ Doing("unskel")')
    BY <1>3, <2>1, <2>3
  <2> QED
    BY <1>2, <1>8, <2>1, <2>4, <2>5, <2>6, RemovedBusy
<1>12. CASE ~CopyCheck(e) /\ ~CopyMake(e) /\ ~DeleteUser(e)
  <2>1. /\ fs'.skel = fs.skel /\ fs'.dir = fs.dir
        /\ job[e].op = "CopyUserDirs" => MidCopy(e) \/ job'[e].pc = "true"
        /\ job[e].op = "DeleteUserDirs" => job[e].todo = <<>>
    BY <1>0, <1>12, NoUserDirectory
  <2>2. \A u \in Users : Stays(u)' => Stays(u)
    BY <1>2, <2>1 DEF Stays
  <2>3. MidCopy("service")' => MidCopy("service")
    BY <1>e, <1>2, <2>1 DEF MidCopy
  <2>4. \A u \in Users, g \in Executors : Deletes(g, u) => Deletes(g, u)'
    BY <1>2, <2>1, ListMembers DEF Deletes
  <2>5. \A u \in Users : Stays(u)' =>
           /\ Stays(u)
           /\ Deletes("installer", u) => Deletes("installer", u)'
           /\ Deletes("service", u) => Deletes("service", u)'
    BY <1>e, <2>2, <2>4
  <2> QED
    BY <1>2, <1>3, <1>4, <2>1, <2>3, <2>5, RemovedFrame
<1> QED
  BY <1>9, <1>10, <1>11, <1>12

\* A request changes who has the package, and the list of the installer.
LEMMA RemovedRequest ==
  ASSUME TypeInv, RemovedInv, Gentle, RequestStep, Global \notin installed'
  PROVE  RemovedState'
<1>1. PICK kind \in {"Install", "Uninstall", "CreateExternal", "DeleteExternal"},
           uid \in Users \cup {Global} : Request(kind, uid)
  BY DEF RequestStep
<1>2. /\ client' = [state |-> "next", todo |-> Parts(kind, uid), kind |-> kind, uid |-> uid]
      /\ client.state = "idle" /\ UNCHANGED <<fs, job, queue, service>>
  BY <1>1 DEF Request
<1>3. /\ kind # "Install"
      /\ kind = "Uninstall" => installed' = installed \ {uid}
      /\ kind # "Uninstall" => installed' = installed
  BY <1>1 DEF Request
<1>4. CASE kind = "Uninstall" /\ uid = Global
  <2>1. client'.state = "next" /\ client'.todo = <<"unskel", "DeleteUserDirs", "DeleteLegacyDirs">>
    BY <1>2, <1>4 DEF Parts
  <2>2. Doing("unskel")' /\ DeletionDue'
    BY <2>1 DEF Doing, DeletionDue
  <2> QED
    BY <2>2 DEF RemovedState, ByInstaller
<1>5. CASE ~(kind = "Uninstall" /\ uid = Global)
  <2>1. RemovedState
    BY <1>3, <1>5 DEF RemovedInv
  <2>2. ~Doing("unskel") /\ ~DeletionDue /\ ~DeletionAwaited /\ \A u : ~Clears(u)
    BY <1>2 DEF Doing, DeletionDue, DeletionAwaited, Clears
  <2>3. fs'.skel = {}
    BY <1>2, <2>1, <2>2 DEF RemovedState
  <2>4. /\ DeletionQueued' <=> DeletionQueued
        /\ ServiceMayQuit' <=> ServiceMayQuit
        /\ MidCopy("service")' <=> MidCopy("service")
        /\ \A e, u : Deletes(e, u)' <=> Deletes(e, u)
    BY <1>2 DEF DeletionQueued, ServiceMayQuit, ServiceBusy, MidCopy, Deletes
  <2>5. \A u \in Users : Stays(u)' => Stays(u) \/ Clears(u)'
    <3>1. CASE kind = "Uninstall"
      <4>1. client'.state = "next" /\ client'.todo = <<"files", "DeleteLegacyDirs">> /\ client'.uid = uid
        BY <1>2, <1>5, <3>1 DEF Parts
      <4>2. Clears(uid)'
        BY <4>1 DEF Clears, Doing
      <4> QED
        BY <1>2, <1>3, <3>1, <4>2 DEF Stays
    <3>2. CASE kind # "Uninstall"
      BY <1>2, <1>3, <3>2 DEF Stays
    <3> QED
      BY <3>1, <3>2
  <2>6. MidCopy("service")' => DeletionQueued'
    BY <2>1, <2>2, <2>4 DEF RemovedState
  <2>7. \A u \in Users : Stays(u)' => ByInstaller(u)' \/ DeletionQueued' \/ Deletes("service", u)'
    BY <2>1, <2>2, <2>4, <2>5 DEF RemovedState, ByInstaller
  <2>8. \A u \in Users : Stays(u)' /\ ServiceMayQuit' => ByInstaller(u)'
    BY <2>1, <2>2, <2>4, <2>5 DEF RemovedState, ByInstaller
  <2> QED
    BY <2>3, <2>6, <2>7, <2>8 DEF RemovedState
<1> QED
  BY <1>4, <1>5

\* The installer makes a call; the one for the deletion comes into the queue.
LEMMA RemovedSend ==
  ASSUME TypeInv, RemovedState, Send
  PROVE  RemovedState'
<1>t. ClientOK /\ QueueOK
  BY DEF TypeInv
<1>1. PICK op \in Ops : Doing(op) /\ queue' = Append(queue, [op |-> op, uid |-> client.uid])
  BY DEF Send
<1>2. client.state = "next" /\ client.todo # <<>> /\ Head(client.todo) = op
  BY <1>1 DEF Doing
<1>3. client' = [client EXCEPT !.state = "waiting"] /\ UNCHANGED <<fs, installed, job, service>>
  BY DEF Send
<1>4. client'.state = "waiting" /\ client'.todo = client.todo
  BY <1>t, <1>3 DEF ClientOK
<1>5. [op |-> op, uid |-> client.uid] \in [op : Ops, uid : Everybody]
  BY <1>t DEF ClientOK
<1>6. /\ Len(queue') = Len(queue) + 1 /\ Len(queue) \in Nat
      /\ \A i \in 1..Len(queue) : queue'[i] = queue[i]
      /\ queue'[Len(queue) + 1] = [op |-> op, uid |-> client.uid]
  BY <1>t, <1>1, <1>5, QueueMoves
<1>7. DeletionQueued => DeletionQueued'
  BY <1>6 DEF DeletionQueued
<1>8. op = "DeleteUserDirs" => DeletionQueued' /\ DeletionAwaited'
  <2>1. Len(queue) + 1 \in 1..Len(queue') /\ queue'[Len(queue) + 1].op = op
    BY <1>6
  <2> QED
    BY <1>2, <1>4, <2>1 DEF DeletionQueued, DeletionAwaited
<1>9. /\ ~Doing("unskel") /\ (\A u : ~Clears(u)) /\ ~DeletionAwaited
      /\ DeletionDue => op = "DeleteUserDirs"
  BY <1>2 DEF Doing, Clears, DeletionAwaited, DeletionDue, Ops
<1>10. /\ ServiceMayQuit' <=> ServiceMayQuit
       /\ MidCopy("service")' <=> MidCopy("service")
       /\ \A u : Stays(u)' <=> Stays(u)
       /\ \A e, u : Deletes(e, u)' <=> Deletes(e, u)
  BY <1>3 DEF ServiceMayQuit, ServiceBusy, MidCopy, Stays, Deletes
<1>11. fs'.skel = {}
  BY <1>3, <1>9 DEF RemovedState
<1>12. MidCopy("service")' => DeletionQueued'
  BY <1>7, <1>8, <1>9, <1>10 DEF RemovedState
<1>13. \A u \in Users : Stays(u)' => ByInstaller(u)' \/ DeletionQueued' \/ Deletes("service", u)'
  BY <1>7, <1>8, <1>9, <1>10 DEF RemovedState, ByInstaller
<1>14. \A u \in Users : Stays(u)' /\ ServiceMayQuit' => ByInstaller(u)' \/ DeletionAwaited'
  BY <1>8, <1>9, <1>10 DEF RemovedState, ByInstaller
<1> QED
  BY <1>11, <1>12, <1>13, <1>14 DEF RemovedState

\* The service takes a call.
LEMMA RemovedTake ==
  ASSUME TypeInv, RemovedState, TakeCall, ~Fault("sender")
  PROVE  RemovedState'
<1> DEFINE c == Head(queue)
<1>t. QueueOK /\ job \in [Executors -> JobTypes]
  BY DEF TypeInv, JobsOK
<1>e. "installer" \in Executors /\ "service" \in Executors /\ "installer" # "service"
  BY DEF Executors
<1>1. /\ queue # <<>> /\ queue' = Tail(queue) /\ job["service"] = NoJob
      /\ job' = [job EXCEPT !["service"] = NewJob(c.op, c.uid)]
      /\ UNCHANGED <<fs, installed, client>>
  BY DEF TakeCall, ServiceBusy
<1>2. /\ Len(queue') = Len(queue) - 1 /\ Len(queue) \in Nat /\ Len(queue) >= 1
      /\ \A i \in 1..Len(queue') : queue'[i] = queue[i + 1]
      /\ c = queue[1]
  BY <1>t, <1>1, QueueMoves
<1>c. c \in [op : Ops, uid : Everybody]
  <2>1. queue[1] \in [op : Ops, uid : Everybody]
    BY <1>t, <1>2, QueueMoves
  <2> QED
    BY <1>2, <2>1
<1>3. /\ job'["service"] = NewJob(c.op, c.uid) /\ job'["service"].op = c.op
      /\ job'["installer"] = job["installer"] /\ c.op \in Ops
  BY <1>t, <1>e, <1>1, <1>c DEF NewJob
<1>4. ServiceBusy'
  BY <1>3 DEF ServiceBusy, NoJob, Ops
<1>5. DeletionQueued => DeletionQueued' \/ c.op = "DeleteUserDirs"
  <2>1. ASSUME NEW i \in 1..Len(queue), queue[i].op = "DeleteUserDirs", i # 1
        PROVE  DeletionQueued'
    <3>1. i - 1 \in 1..Len(queue') /\ queue'[i - 1] = queue[i]
      BY <1>2, <2>1
    <3> QED
      BY <2>1, <3>1 DEF DeletionQueued
  <2> QED
    BY <1>2, <2>1 DEF DeletionQueued
<1>6. c.op = "DeleteUserDirs" => \A u \in Users : Deletes("service", u)'
  <2>1. c.op = "DeleteUserDirs" => job'["service"].todo = UserList
    BY <1>3 DEF NewJob
  <2> QED
    BY <1>3, <2>1, ListMembers DEF Deletes
<1>7. ~MidCopy("service")' /\ \A u : ~Deletes("service", u)
  BY <1>1, <1>3 DEF MidCopy, NewJob, Deletes, NoJob
<1> HIDE DEF c
<1>8. /\ Doing("unskel")' <=> Doing("unskel")
      /\ \A u : (Stays(u)' <=> Stays(u)) /\ (ByInstaller(u)' <=> ByInstaller(u))
  BY <1>1, <1>3 DEF Doing, Stays, ByInstaller, DeletionDue, Clears, Deletes
<1>9. \A u \in Users : Stays(u)' => ByInstaller(u)' \/ DeletionQueued' \/ Deletes("service", u)'
  BY <1>5, <1>6, <1>7, <1>8 DEF RemovedState
<1>10. fs'.skel = {} \/ (fs'.skel = fs.skel /\ Doing("unskel")')
  BY <1>1, <1>8 DEF RemovedState
<1>11. MidCopy("service")' => DeletionDue' \/ DeletionQueued'
  BY <1>7
<1> QED
  BY <1>1, <1>4, <1>9, <1>10, <1>11, RemovedBusy

\* While the installer waits it has nothing to do itself; without the answer "true"
\* it deletes for everybody itself.
LEMMA WaitingEnds ==
  ASSUME TypeInv, client.state = "waiting"
  PROVE  /\ ~Doing("unskel") /\ ~DeletionDue /\ \A u : ~Clears(u) /\ ~Deletes("installer", u)
         /\ \A jobs : /\ NoTrue(jobs) /\ jobs \in [Executors -> JobTypes]
                      => /\ job'["service"] = jobs["service"]
                         /\ DeletionAwaited => \A u \in Users : Deletes("installer", u)'
<1>1. job["installer"] = NoJob
  BY DEF TypeInv, InstallerOK
<1>2. ~Doing("unskel") /\ ~DeletionDue /\ \A u : ~Clears(u) /\ ~Deletes("installer", u)
  BY <1>1 DEF Doing, DeletionDue, Clears, Deletes, NoJob
<1>3. ASSUME NEW jobs, NoTrue(jobs), jobs \in [Executors -> JobTypes]
      PROVE  /\ job'["service"] = jobs["service"]
             /\ DeletionAwaited => \A u \in Users : Deletes("installer", u)'
  <2>1. job'["service"] = jobs["service"]
    BY <1>3 DEF NoTrue, Executors
  <2>2. ASSUME DeletionAwaited
        PROVE  \A u \in Users : Deletes("installer", u)'
    <3>1. job' = [jobs EXCEPT !["installer"] = NewJob("DeleteUserDirs", client.uid)]
      BY <1>3, <2>2 DEF NoTrue, DeletionAwaited, IgnoresAnswer
    <3>2. job'["installer"].op = "DeleteUserDirs" /\ job'["installer"].todo = UserList
      BY <1>3, <3>1 DEF NewJob, Executors
    <3> QED
      BY <3>2, ListMembers DEF Deletes
  <2> QED
    BY <2>1, <2>2
<1> QED
  BY <1>2, <1>3

\* Only a request changes who has the package.
LEMMA DatabaseStays ==
  ASSUME TypeInv, Next, ~RequestStep, ~RequestFails,
         \A kind : Fault(kind) => kind \in {"lostCall", "external"}
  PROVE  installed' = installed
<1>1. \A e \in Executors : Operation(e) => installed' = installed
  BY OperationTyped DEF Operation, TypeInv
<1> QED
  BY <1>1
  DEF Next, InstallerStep, ServiceStep, SkelMake, SkelLabel, SkelDelete, RemoveFiles, Send,
      DirectReturns, RequestEnds, ServiceStarts, TakeCall, Reply, SendFails, TimesOut,
      InstallerDies, TimerElapses, ServiceQuits, ServiceDies, Stops, Executors

LEMMA RemovedInvStep == TypeInv /\ ListInv /\ RemovedInv /\ [Next]_vars => RemovedInv'
<1> SUFFICES ASSUME TypeInv, ListInv, RemovedInv, [Next]_vars, Gentle', Global \notin installed'
             PROVE  RemovedState'
  BY DEF RemovedInv
<1>t. /\ JobsOK /\ ClientOK /\ InstallerOK /\ QueueOK /\ HistoryOK /\ fs \in DiskType
      /\ job \in [Executors -> JobTypes]
  BY DEF TypeInv, DiskOK, JobsOK
<1>e. "installer" \in Executors /\ "service" \in Executors /\ "installer" # "service"
  BY DEF Executors
<1>1. CASE UNCHANGED vars
  <2>1. Gentle /\ RemovedState
    BY <1>1 DEF vars, Gentle, RemovedInv
  <2> QED
    BY <1>1, <2>1
    DEF vars, RemovedState, Doing, DeletionDue, DeletionAwaited, Clears, DeletionQueued, Deletes,
        MidCopy, Stays, ByInstaller, ServiceMayQuit, ServiceBusy
<1>2. ASSUME Next
      PROVE  RemovedState'
  <2>f. Gentle /\ \A kind : Fault(kind) => kind \in {"lostCall", "external"}
    BY <1>2, GentleBefore
  <2>r. ~RequestFails
    BY <1>t DEF RequestFails, HistoryOK, Gentle
  <2>1. CASE RequestStep
    BY <2>1, <2>f, RemovedRequest
  <2>2. ASSUME Global \notin installed, RemovedState
        PROVE  RemovedState'
    <3>1. CASE SkelMake \/ SkelLabel
      <4>1. client.state = "next" /\ client.todo # <<>> /\ Head(client.todo) \in {"skel", "skelLabel"}
        BY <3>1 DEF SkelMake, SkelLabel, Doing
      <4>2. client.kind # "Install"
        BY <2>2, <4>1 DEF ListInv, ListFits
      <4> QED
        BY <4>1, <4>2 DEF ListInv, ListFits
    <3>2. CASE SkelDelete
      <4>1. client.state = "next" /\ client.todo # <<>> /\ Head(client.todo) = "unskel"
        BY <3>2 DEF SkelDelete, Doing
      <4>2. client.todo = <<"unskel", "DeleteUserDirs", "DeleteLegacyDirs">>
        BY <4>1 DEF ListInv, ListFits
      <4>3. /\ NextPart /\ fs' = [fs EXCEPT !.skel = {}, !.skelLabel = FALSE]
            /\ UNCHANGED <<job, installed, queue, service>>
        BY <2>r, <3>2 DEF SkelDelete, Local
      <4>4. client'.state = "next" /\ client'.todo = Tail(client.todo)
        BY <1>t, <4>1, <4>3, NextPartTyped
      <4>5. client'.todo = <<"DeleteUserDirs", "DeleteLegacyDirs">>
        BY <4>2, <4>4
      <4>6. DeletionDue'
        <5>1. client'.todo # <<>> /\ Head(client'.todo) = "DeleteUserDirs"
          BY <4>5
        <5> QED
          BY <4>4, <5>1 DEF DeletionDue, Doing
      <4>7. fs'.skel = {}
        BY <1>t, <4>3 DEF DiskType
      <4> QED
        BY <4>6, <4>7 DEF RemovedState, ByInstaller
    <3>3. CASE RemoveFiles
      <4> DEFINE u == client.uid
      <4>1. /\ client.state = "next" /\ client.todo # <<>> /\ Head(client.todo) = "files"
            /\ NextPart /\ UNCHANGED <<job, installed, queue, service>>
        BY <3>3 DEF RemoveFiles, Doing, Local
      <4>2. u \in Users
        BY <4>1 DEF ListInv, ListFits
      <4>3. fs' = [fs EXCEPT !.dir[u] = {}, !.own[u] = {}, !.label[u] = {}]
        BY <2>2, <3>3 DEF RemoveFiles, Has
      <4>4. fs'.skel = fs.skel /\ fs'.dir = [fs.dir EXCEPT ![u] = {}] /\ fs.dir \in [Users -> SUBSET Paths]
        BY <1>t, <4>2, <4>3 DEF DiskType
      <4>5. ~Doing("unskel") /\ ~DeletionDue /\ \A v : Clears(v) => v = u
        BY <4>1 DEF Doing, DeletionDue, Clears
      <4>6. \A v \in Users : Stays(v)' => Stays(v) /\ ~Clears(v)
        BY <4>1, <4>4, <4>5 DEF Stays
      <4>7. /\ DeletionQueued' <=> DeletionQueued
            /\ ServiceMayQuit' <=> ServiceMayQuit
            /\ MidCopy("service")' <=> MidCopy("service")
            /\ \A e, v : Deletes(e, v)' <=> Deletes(e, v)
        BY <4>1 DEF DeletionQueued, ServiceMayQuit, ServiceBusy, MidCopy, Deletes
      <4>8. ~DeletionAwaited
        BY <4>1 DEF DeletionAwaited
      <4>9. \A v \in Users : Stays(v)' =>
              /\ Stays(v) /\ ~Clears(v)
              /\ Deletes("installer", v) => Deletes("installer", v)'
              /\ Deletes("service", v) => Deletes("service", v)'
              /\ ServiceMayQuit' => ServiceMayQuit
        BY <4>6, <4>7
      <4>10. fs'.skel = fs.skel
        BY <4>4
      <4> HIDE DEF u
      <4> QED
        BY <2>2, <4>1, <4>5, <4>7, <4>8, <4>9, <4>10, RemovedFrame
    <3>4. CASE Send
      BY <2>2, <3>4, RemovedSend
    <3>5. CASE DirectReturns
      <4>1. /\ client.state = "direct" /\ Returned("installer") /\ NextPart
            /\ job' = [job EXCEPT !["installer"] = NoJob] /\ UNCHANGED <<fs, installed, queue, service>>
        BY <2>r, <3>5 DEF DirectReturns, Local
      <4>2. ~Doing("unskel") /\ ~DeletionDue /\ ~DeletionAwaited /\ \A u : ~Clears(u)
        BY <4>1 DEF Doing, DeletionDue, DeletionAwaited, Clears
      <4>3. \A u : ~Deletes("installer", u)
        BY <1>e, <4>1, ListMembers DEF Deletes, ListInv, JobsEnd
      <4>4. job'["service"] = job["service"]
        BY <1>t, <1>e, <4>1
      <4>5. /\ DeletionQueued' <=> DeletionQueued
            /\ ServiceMayQuit' <=> ServiceMayQuit
            /\ MidCopy("service")' <=> MidCopy("service")
            /\ \A u : Stays(u)' <=> Stays(u)
            /\ \A u : Deletes("service", u)' <=> Deletes("service", u)
        BY <4>1, <4>4 DEF DeletionQueued, ServiceMayQuit, ServiceBusy, MidCopy, Deletes, Stays
      <4> QED
        BY <2>2, <4>1, <4>2, <4>3, <4>5, RemovedFrame
    <3>6. CASE RequestEnds
      <4>1. client.state = "next" /\ client.todo = <<>> /\ UNCHANGED <<fs, installed, job, queue, service>>
        BY <3>6 DEF RequestEnds
      <4>2. ~Doing("unskel") /\ ~DeletionDue /\ ~DeletionAwaited /\ \A u : ~Clears(u)
        BY <4>1 DEF Doing, DeletionDue, DeletionAwaited, Clears
      <4>3. /\ DeletionQueued' <=> DeletionQueued
            /\ ServiceMayQuit' <=> ServiceMayQuit
            /\ MidCopy("service")' <=> MidCopy("service")
            /\ \A u : Stays(u)' <=> Stays(u)
            /\ \A e, u : Deletes(e, u)' <=> Deletes(e, u)
        BY <4>1 DEF DeletionQueued, ServiceMayQuit, ServiceBusy, MidCopy, Deletes, Stays
      <4> QED
        BY <2>2, <4>1, <4>2, <4>3, RemovedFrame
    <3>7. ASSUME NEW e \in Executors, Operation(e)
          PROVE  RemovedState'
      BY <2>2, <2>f, <3>7, RemovedOperation
    <3>8. CASE ServiceStarts \/ TimerElapses
      <4>1. UNCHANGED <<fs, installed, job, queue, client>>
        BY <3>8 DEF ServiceStarts, TimerElapses
      <4>2. /\ Doing("unskel")' <=> Doing("unskel")
            /\ DeletionDue' <=> DeletionDue
            /\ DeletionQueued' <=> DeletionQueued
            /\ MidCopy("service")' <=> MidCopy("service")
            /\ \A u : (Stays(u)' <=> Stays(u)) /\ (Clears(u)' <=> Clears(u))
            /\ \A e, u : Deletes(e, u)' <=> Deletes(e, u)
        BY <4>1 DEF Doing, DeletionDue, DeletionQueued, MidCopy, Stays, Clears, Deletes
      <4>3. ServiceMayQuit' => ~DeletionQueued /\ \A u : ~Deletes("service", u)
        <5>1. ServiceStarts => ~ServiceMayQuit'
          BY DEF ServiceStarts, ServiceMayQuit
        <5>2. TimerElapses /\ ServiceMayQuit' => queue = <<>> /\ job["service"] = NoJob
          BY DEF TimerElapses, ServiceMayQuit, ServiceBusy
        <5>3. queue = <<>> => ~DeletionQueued
          BY DEF DeletionQueued
        <5>4. job["service"] = NoJob => \A u : ~Deletes("service", u)
          BY DEF Deletes, NoJob
        <5> QED
          BY <3>8, <5>1, <5>2, <5>3, <5>4
      <4> QED
        BY <2>2, <4>1, <4>2, <4>3, RemovedFrame
    <3>9. CASE TakeCall
      BY <2>2, <2>f, <3>9, RemovedTake
    <3>10. CASE Reply
      <4>1. /\ UNCHANGED <<fs, installed, queue>> /\ Returned("service") /\ Answer
            /\ service'.timer = "armed"
        BY <3>10 DEF Reply, TypeInv, ServiceOK
      <4>2. job'["service"] = NoJob
        BY <1>t, <4>1, AnswerTyped
      <4>3. ~ServiceMayQuit' /\ ~MidCopy("service")'
        BY <4>1, <4>2 DEF ServiceMayQuit, MidCopy, NoJob
      <4>4. \A u : ~Deletes("service", u)
        BY <1>e, <4>1, ListMembers DEF Deletes, ListInv, JobsEnd
      <4>5. (DeletionQueued' <=> DeletionQueued) /\ \A u : Stays(u)' <=> Stays(u)
        BY <4>1 DEF DeletionQueued, Stays
      <4>6. CASE client' = client
        <5>1. job'["installer"] = job["installer"] \/ client.state = "waiting"
          BY <1>t, <1>e, <4>1 DEF Answer, HandledJobs, Awaited
        <5>2. client.state = "waiting" => \A u : ~Deletes("installer", u)
          BY WaitingEnds
        <5>3. \A u : Deletes("installer", u) => Deletes("installer", u)'
          BY <5>1, <5>2 DEF Deletes
        <5>4. /\ Doing("unskel")' <=> Doing("unskel")
              /\ DeletionDue' <=> DeletionDue
              /\ \A u : Clears(u)' <=> Clears(u)
          BY <4>6 DEF Doing, DeletionDue, Clears
        <5> QED
          BY <2>2, <4>1, <4>3, <4>4, <4>5, <5>3, <5>4, RemovedFrame
      <4>7. CASE client.state = "waiting"
        BY <2>2, <4>1, <4>3, <4>4, <4>5, <4>7, WaitingEnds, RemovedFrame
      <4> QED
        BY <4>1, <4>6, <4>7 DEF Answer, Awaited
    <3>11. CASE TimesOut
      <4>1. client.state = "waiting" /\ NoTrue(job) /\ UNCHANGED <<fs, installed, queue, service>>
        BY <3>11 DEF TimesOut
      <4>2. /\ job'["service"] = job["service"]
            /\ DeletionAwaited => \A u \in Users : Deletes("installer", u)'
        BY <1>t, <4>1, WaitingEnds
      <4>3. /\ DeletionQueued' <=> DeletionQueued
            /\ ServiceMayQuit' <=> ServiceMayQuit
            /\ MidCopy("service")' <=> MidCopy("service")
            /\ \A u : Stays(u)' <=> Stays(u)
            /\ \A u : Deletes("service", u)' <=> Deletes("service", u)
        BY <4>1, <4>2 DEF DeletionQueued, ServiceMayQuit, ServiceBusy, MidCopy, Deletes, Stays
      <4>4. /\ ~Doing("unskel") /\ ~DeletionDue
            /\ \A u : ~Clears(u) /\ ~Deletes("installer", u)
        BY <4>1, WaitingEnds
      <4>5. DeletionAwaited => \A u \in Users : ByInstaller(u)'
        BY <4>2 DEF ByInstaller
      <4> QED
        BY <2>2, <4>1, <4>3, <4>4, <4>5, RemovedFrame
    <3>12. CASE ServiceQuits
      <4>1. ServiceMayQuit /\ Stops(job)
        BY <3>12 DEF ServiceQuits, ServiceMayQuit
      <4>2. UNCHANGED <<fs, installed>> /\ service' = Down
        BY <4>1 DEF Stops
      <4>3. job'["service"] = NoJob
        BY <1>t, <4>1, WaitingEnds DEF Stops, ServiceMayQuit, ServiceBusy
      <4>4. ~ServiceMayQuit' /\ ~MidCopy("service")'
        BY <4>2, <4>3 DEF ServiceMayQuit, Down, MidCopy, NoJob
      <4>5. \A u : Stays(u)' <=> Stays(u)
        BY <4>2 DEF Stays
      <4>6. CASE client.state = "waiting"
        <5>1. NoTrue(job)
          BY <4>1, <4>6 DEF Stops
        <5>2. \A u \in Users : Stays(u) => Deletes("installer", u)'
          BY <1>t, <2>2, <4>1, <4>6, <5>1, WaitingEnds DEF RemovedState, ByInstaller
        <5>3. fs'.skel = {}
          BY <2>2, <4>2, <4>6, WaitingEnds DEF RemovedState
        <5> QED
          BY <4>4, <4>5, <5>2, <5>3 DEF RemovedState, ByInstaller
      <4>7. CASE client.state # "waiting"
        <5>1. job' = job /\ client' = client
          BY <4>1, <4>7 DEF Stops
        <5>2. (Doing("unskel")' <=> Doing("unskel")) /\ \A u : ByInstaller(u)' <=> ByInstaller(u)
          BY <5>1 DEF ByInstaller, DeletionDue, Clears, Doing, Deletes
        <5>3. \A u \in Users : Stays(u) => ByInstaller(u)
          BY <2>2, <4>1, <4>7 DEF RemovedState, DeletionAwaited
        <5>4. fs'.skel = {} \/ Doing("unskel")'
          BY <2>2, <4>2, <5>2 DEF RemovedState
        <5> QED
          BY <4>4, <4>5, <5>2, <5>3, <5>4 DEF RemovedState
      <4> QED
        BY <4>6, <4>7
    <3>13. ~SendFails /\ ~InstallerDies /\ ~ServiceDies
      BY <2>f DEF SendFails, InstallerDies, ServiceDies
    <3> QED
      BY <1>2, <1>e, <2>1, <3>1, <3>2, <3>3, <3>4, <3>5, <3>6, <3>7, <3>8, <3>9, <3>10, <3>11, <3>12, <3>13
      DEF Next, InstallerStep, ServiceStep
  <2>3. ~RequestStep => installed' = installed
    BY <1>2, <2>f, <2>r, DatabaseStays
  <2> QED
    BY <2>1, <2>2, <2>3, <2>f DEF RemovedInv
<1> QED
  BY <1>1, <1>2

\* No user keeps a directory of a package that is removed for everybody, although a
\* copy that had timed out may have been creating them meanwhile, and calls may get
\* lost when the service quits: CopyUserDirectories() finds nothing to copy after
\* DeleteSkelDirectories(), and a deletion comes behind what it still makes.
THEOREM NoUserKeepsDirectoriesHolds == Spec => []NoUserKeepsDirectories
<1>1. TypeInv /\ ListInv /\ [Next]_vars => ListInv'
  BY ListInvStep
<1>2. TypeInv /\ ListInv /\ RemovedInv /\ [Next]_vars => RemovedInv'
  BY RemovedInvStep
<1>3. TypeInv /\ RemovedInv => NoUserKeepsDirectories
  <2> SUFFICES ASSUME TypeInv, RemovedInv, Quiet, Gentle, Global \notin installed
               PROVE  fs.skel = {} /\ \A u \in Users \ installed : fs.dir[u] = {}
    BY DEF NoUserKeepsDirectories, Gentle
  <2>1. RemovedState
    BY DEF RemovedInv
  <2>2. client.state = "idle" /\ queue = <<>> /\ job["service"] = NoJob /\ job["installer"] = NoJob
    BY DEF Quiet, ServiceBusy, TypeInv, InstallerOK
  <2>3. ~Doing("unskel") /\ ~DeletionQueued /\ \A u : ~ByInstaller(u) /\ ~Deletes("service", u)
    BY <2>2 DEF Doing, DeletionDue, DeletionQueued, Clears, ByInstaller, Deletes, NoJob
  <2>4. fs.skel = {} /\ \A u \in Users : ~Stays(u)
    BY <2>1, <2>3 DEF RemovedState
  <2> QED
    BY <2>4 DEF Stays
<1> QED
  BY <1>1, <1>2, <1>3, ListInvInit, RemovedInvInit, PkgdirTypeInvariant, PTL DEF Spec

-------------------------------------------------------------------------------
(* The directories of the users of a global package *)

\* Users who have the package only as long as everybody has it.
Plain == Users \ past.private

\* A copy that the installer still has to ask for, waits for, or that is queued;
\* after all deletions, if there are any.
CopyDue == Doing("skel") \/ Doing("skelLabel") \/ Doing("CopyUserDirs")
CopyAwaited == client.state = "waiting" /\ Head(client.todo) = "CopyUserDirs"
CopyQueued == \E i \in 1..Len(queue) : queue[i].op = "CopyUserDirs"
LastCopyQueued ==
  \E i \in 1..Len(queue) :
    queue[i].op = "CopyUserDirs" /\ \A k \in 1..Len(queue) : k > i => queue[k].op # "DeleteUserDirs"
CopyComes == CopyDue \/ (CopyQueued /\ (ServiceMayQuit => CopyAwaited))

\* Some deletion from before the installation is still to be served, and will be.
Unsettled == DeletionQueued \/ job["service"].op = "DeleteUserDirs"
Settled == ~Unsettled \/ ServiceMayQuit

\* Where a copy is: at u, at the start of its list, or before it comes to u.
Copying(e) == job[e].op = "CopyUserDirs" /\ job[e].todo # <<>>
Copies(e, u) == Copying(e) /\ User(e) = u
AtStart(e) == job[e].pc = "check" /\ job[e].at = 1
Started(e) == job[e].op = "CopyUserDirs" /\ job[e].todo = UserList /\ AtStart(e)
Coming(e, u) == Copying(e) /\ InList(u, Tail(job[e].todo))

\* The copy that is ahead of all others at u: nobody else has made the directory it
\* is about to make, or it has them all and sees to their owner and label.
Ahead(e, u) ==
  /\ Copies(e, u)
  /\ \/ job[e].pc \in {"check", "make"} /\ fs.dir[u] = 1..(job[e].at - 1)
     \/ job[e].pc = "make" /\ fs.dir[u] = 1..job[e].at
     \/ job[e].pc = "own" /\ fs.dir[u] = Paths
     \/ job[e].pc = "label" /\ fs.dir[u] = Paths /\ fs.own[u] = Paths

\* The directories of u are made in order, and no copy skips one.
Made(u, k) ==
  /\ fs.dir[u] = 1..k
  /\ \A e \in Executors : Copies(e, u) =>
       /\ job[e].pc \in {"check", "make"} => job[e].at \in 1..k+1
       /\ job[e].pc \in {"own", "label"} => k = Depth
InOrder(u) == \E k \in 0..Depth : Made(u, k)

Served(u) ==
  \/ Ready(u)
  \/ \E e \in Executors : Ahead(e, u)
  \/ fs.dir[u] = {} /\ (CopyComes \/ \E e \in Executors : Coming(e, u))

\* While a deletion from before is to be served a copy comes after it.  From then
\* on the directories are made in order: the user has them, or the copy that is
\* ahead will have made them, or one will find nothing in its way.
ServedState ==
  /\ fs.skel = IF Doing("skel") THEN {} ELSE Paths
  /\ Unsettled => CopyDue \/ LastCopyQueued
  /\ Settled => /\ Doing("skel") => ~MidCopy("service")
                /\ \A e \in Executors : Copying(e) /\ job[e].pc = "own" => fs.dir[User(e)] # {}
                /\ \A u \in Plain : InOrder(u) /\ Served(u)

\* A deletion in the service leaves nothing behind that the package does not have,
\* and no copy of the installer gets in its way.
DeletionState ==
  /\ installed \cap Users \subseteq past.private
  /\ job["service"].op = "DeleteUserDirs" =>
       /\ \A u \in Plain : fs.dir[u] = {} \/ Deletes("service", u)
       /\ job["installer"].op = "CopyUserDirs" => job["service"].pc = "user" \/ AtStart("installer")

ServedInv ==
  Gentle /\ ~past.overlap => DeletionState /\ (Global \in installed => ServedState)

LEMMA ServedInvInit == Init => ServedInv
<1> SUFFICES ASSUME Init
             PROVE  DeletionState /\ (Global \in installed => ServedState)
  BY DEF ServedInv
<1>1. PICK global \in BOOLEAN, card \in BOOLEAN :
        /\ installed = past.private \cup (IF global THEN {Global} ELSE {})
        /\ fs = InitialDisk(past.private, global, card)
  BY DEF Init
<1>2. /\ job["service"] = NoJob /\ job["installer"] = NoJob /\ queue = <<>> /\ client.state = "idle"
      /\ past.private \in SUBSET Users
  BY DEF Init, Executors, IdleClient
<1>3. job["service"].op = "none" /\ \A e \in Executors : job[e].op = "none"
  BY <1>2 DEF Executors, NoJob
<1>4. DeletionState
  BY <1>1, <1>3, SharedDirsAssumption DEF DeletionState
<1>5. ASSUME Global \in installed
      PROVE  ServedState
  <2>1. global
    BY <1>1, <1>2, <1>5, SharedDirsAssumption
  <2>2. ~Doing("skel") /\ ~Unsettled /\ ~MidCopy("service")
    BY <1>2, <1>3 DEF Doing, Unsettled, DeletionQueued, MidCopy
  <2>3. fs.skel = Paths /\ \A u \in Plain : Ready(u)
    BY <1>1, <2>1 DEF InitialDisk, Ready, Plain
  <2>4. \A u \in Plain : Made(u, Depth)
    BY <1>3, <2>3 DEF Made, Copies, Copying, Ready, Paths
  <2>5. Depth \in 0..Depth
    BY PathsExist
  <2>6. \A e \in Executors : ~Copying(e)
    BY <1>3 DEF Copying
  <2> QED
    BY <2>2, <2>3, <2>4, <2>5, <2>6 DEF ServedState, InOrder, Served
<1> QED
  BY <1>4, <1>5

\* A step that moves no copy and leaves the directories: it may start a copy, and
\* change what is still to come.
LEMMA ServedFrame ==
  ASSUME ServedState, Plain' \subseteq Plain,
         fs'.dir = fs.dir, fs'.own = fs.own, fs'.label = fs.label,
         fs'.skel = IF Doing("skel")' THEN {} ELSE Paths,
         Doing("skel")' => Doing("skel"),
         \A e \in Executors : job'[e] = job[e] \/ (~Copying(e) /\ (~Copying(e)' \/ Started(e)')),
         MidCopy("service")' => MidCopy("service"),
         Unsettled' => CopyDue' \/ LastCopyQueued',
         Settled' => Settled /\ (CopyComes => CopyComes' \/ \E e \in Executors : Started(e)')
  PROVE  ServedState'
<1>0. Settled' => \A e \in Executors : Copying(e)' /\ job'[e].pc = "own" => fs'.dir[User(e)'] # {}
  BY DEF ServedState, Copying, User, Started, AtStart
<1> SUFFICES ASSUME Settled', NEW u \in Plain'
             PROVE  InOrder(u)' /\ Served(u)'
  BY <1>0 DEF ServedState, User
<1>1. u \in Users /\ u \in Plain /\ InOrder(u) /\ Served(u)
  BY DEF ServedState, Plain
<1>2. /\ fs'.dir[u] = fs.dir[u]
      /\ Ready(u)' <=> Ready(u)
  BY DEF Ready
<1>3. \A e \in Executors : job'[e] = job[e] =>
        /\ Copies(e, u)' <=> Copies(e, u)
        /\ Ahead(e, u)' <=> Ahead(e, u)
        /\ Coming(e, u)' <=> Coming(e, u)
  BY DEF Copies, Copying, Ahead, Coming, User
<1>4. \A e \in Executors : Ahead(e, u) => Ahead(e, u)'
  BY <1>3 DEF Ahead, Copies
<1>5. \A e \in Executors : Coming(e, u) => Coming(e, u)'
  BY <1>3 DEF Coming
<1>6. InOrder(u)'
  <2>1. PICK k \in 0..Depth : Made(u, k)
    BY <1>1 DEF InOrder
  <2>2. 1 \in 1..k+1
    BY <2>1
  <2>3. \A e \in Executors : Copies(e, u)' =>
          \/ Copies(e, u) /\ job'[e] = job[e]
          \/ job'[e].pc = "check" /\ job'[e].at = 1
    BY <1>3 DEF Copies, Started, AtStart
  <2>4. Made(u, k)'
    BY <1>2, <2>1, <2>2, <2>3 DEF Made
  <2> QED
    BY <2>4 DEF InOrder
<1>7. Served(u)'
  <2>1. CASE Ready(u)
    BY <1>2, <2>1 DEF Served
  <2>2. CASE \E e \in Executors : Ahead(e, u)
    BY <1>4, <2>2 DEF Served
  <2>3. CASE fs.dir[u] = {} /\ CopyComes
    <3>1. CASE CopyComes'
      BY <1>2, <2>3, <3>1 DEF Served
    <3>2. ASSUME NEW e \in Executors, Started(e)'
          PROVE  Served(u)'
      \* A copy that starts finds each user before it.
      <4>1. Ahead(e, u)' \/ Coming(e, u)'
        <5>1. fs'.dir[u] = {}
          BY <1>2, <2>3
        <5>2. UserList \in Suffixes /\ UserList # <<>> /\ InList(u, UserList)
          BY <1>1, ListMembers, SuffixMoves
        <5>3. u = Head(UserList) \/ InList(u, Tail(UserList))
          BY <5>2, ListMembers
        <5>4. 1..(1 - 1) = {}
          OBVIOUS
        <5> QED
          BY <3>2, <5>1, <5>2, <5>3, <5>4 DEF Started, AtStart, Ahead, Copies, Copying, Coming, User
      <4> QED
        BY <1>2, <2>3, <4>1 DEF Served
    <3> QED
      BY <2>3, <3>1, <3>2
  <2>4. CASE fs.dir[u] = {} /\ \E e \in Executors : Coming(e, u)
    BY <1>2, <1>5, <2>4 DEF Served
  <2> QED
    BY <1>1, <2>1, <2>2, <2>3, <2>4 DEF Served
<1> QED
  BY <1>6, <1>7

\* A copy goes on with its user, or comes to the next one.
GoesOn(e, p, at) ==
  /\ job'[e].op = "CopyUserDirs" /\ job'[e].todo = job[e].todo
  /\ job'[e].pc = p /\ job'[e].at = at
LeavesUser(e) ==
  /\ job'[e].op = "CopyUserDirs" /\ job'[e].todo = Tail(job[e].todo)
  /\ job'[e].pc = "check" /\ job'[e].at = 1

\* Without failures a copy passes over a user for what is in its way only, or makes
\* a directory, or sees to the owner or the label of those that are there.
CopyMoves(e) ==
  LET u == User(e)
      at == job[e].at
  IN \/ /\ job[e].pc = "check" /\ LeavesUser(e) /\ fs' = fs
        /\ (fs.skel = {} /\ at = 1) \/ at \in fs.dir[u]
     \/ job[e].pc = "check" /\ GoesOn(e, "make", at) /\ fs' = fs
     \/ /\ job[e].pc = "make" /\ fs'.own[u] = fs.own[u] /\ fs'.label[u] = fs.label[u]
        /\ fs'.dir[u] = fs.dir[u] \cup {1, at}
        /\ IF at < Depth THEN GoesOn(e, "check", at + 1) ELSE GoesOn(e, "own", at)
     \/ /\ job[e].pc = "own" /\ GoesOn(e, "label", at)
        /\ fs'.dir[u] = fs.dir[u] /\ fs'.label[u] = fs.label[u] /\ fs'.own[u] = fs.dir[u]
     \/ /\ job[e].pc = "label" /\ LeavesUser(e)
        /\ fs'.dir[u] = fs.dir[u] /\ fs'.own[u] = fs.own[u] /\ fs'.label[u] = fs.dir[u]

LEMMA CopyStep ==
  ASSUME TypeInv, NEW e \in Executors, OperationStep(e), Copying(e),
         ~Fault("copy"), ~Fault("own"), ~Fault("label"),
         fs.skel = Paths \/ (fs.skel = {} /\ ~MidCopy(e)),
         job[e].pc = "own" => fs.dir[User(e)] # {}
  PROVE  /\ CopyMoves(e) /\ fs'.skel = fs.skel
         /\ \A v \in Users \ {User(e)} :
              fs'.dir[v] = fs.dir[v] /\ fs'.own[v] = fs.own[v] /\ fs'.label[v] = fs.label[v]
<1> DEFINE u == User(e)
           at == job[e].at
<1>1. /\ fs \in DiskType /\ job \in [Executors -> JobTypes] /\ JobShape(job[e])
      /\ job[e].op = "CopyUserDirs" /\ job[e].todo # <<>> /\ at \in Paths /\ at \in Nat
  BY PathsExist DEF TypeInv, DiskOK, JobsOK, JobTypes, Copying, Paths
<1>2. u \in Users
  BY <1>1, SuffixMoves DEF User, JobTypes
<1>3. \A p : Goto(e, p) => GoesOn(e, p, at)
  BY <1>1 DEF Goto, GoesOn, JobTypes
<1>4. NextUser(e, "check") => LeavesUser(e)
  BY <1>1 DEF NextUser, LeavesUser, JobTypes
<1>5. NextPath(e) => IF at < Depth THEN GoesOn(e, "check", at + 1) ELSE GoesOn(e, "own", at)
  <2>1. NextPath(e) /\ at < Depth => GoesOn(e, "check", at + 1)
    BY <1>1 DEF NextPath, GoesOn, JobTypes
  <2> QED
    BY <1>3, <2>1 DEF NextPath
<1>6. \A d : Disk(d) => fs' = d
  BY DEF Disk
<1>7. CASE CopyCheck(e)
  <2>1. fs' = fs /\ job[e].pc = "check"
    BY <1>6, <1>7 DEF CopyCheck, At
  <2>2. ~(at \notin fs.skel /\ ~CopyGone(e))
    BY <1>1, <2>1, PathsExist DEF CopyGone, MidCopy, Paths
  <2>3. \/ CopyGone(e) /\ LeavesUser(e)
        \/ CopyTaken(e) /\ LeavesUser(e)
        \/ GoesOn(e, "make", at)
    BY <1>3, <1>4, <1>7, <2>2 DEF CopyCheck
  <2> QED
    BY <2>1, <2>3 DEF CopyMoves, CopyGone, CopyTaken
<1>8. CASE CopyMake(e)
  <2>1. job[e].pc = "make" /\ NextPath(e) /\ fs' = [fs EXCEPT !.dir[u] = @ \cup {1, at}]
    BY <1>6, <1>8 DEF CopyMake, At
  <2>2. /\ fs'.skel = fs.skel /\ fs'.own = fs.own /\ fs'.label = fs.label
        /\ fs'.dir[u] = fs.dir[u] \cup {1, at}
        /\ \A v \in Users \ {u} : fs'.dir[v] = fs.dir[v]
    BY <1>1, <1>2, <2>1 DEF DiskType
  <2> QED
    BY <1>5, <2>1, <2>2 DEF CopyMoves
<1>9. CASE CopyOwn(e)
  <2>1. job[e].pc = "own" /\ Goto(e, "label") /\ fs' = [fs EXCEPT !.own[u] = fs.dir[u]]
    BY <1>6, <1>9 DEF CopyOwn, At
  <2>2. /\ fs'.skel = fs.skel /\ fs'.dir = fs.dir /\ fs'.label = fs.label
        /\ fs'.own[u] = fs.dir[u]
        /\ \A v \in Users \ {u} : fs'.own[v] = fs.own[v]
    BY <1>1, <1>2, <2>1 DEF DiskType
  <2> QED
    BY <1>3, <2>1, <2>2 DEF CopyMoves
<1>10. CASE CopyLabel(e)
  <2>1. job[e].pc = "label" /\ NextUser(e, "check") /\ fs' = [fs EXCEPT !.label[u] = fs.dir[u]]
    BY <1>6, <1>10 DEF CopyLabel, At, Labelled
  <2>2. /\ fs'.skel = fs.skel /\ fs'.dir = fs.dir /\ fs'.own = fs.own
        /\ fs'.label[u] = fs.dir[u]
        /\ \A v \in Users \ {u} : fs'.label[v] = fs.label[v]
    BY <1>1, <1>2, <2>1 DEF DiskType
  <2> QED
    BY <1>4, <2>1, <2>2 DEF CopyMoves
<1> QED
  BY <1>1, <1>7, <1>8, <1>9, <1>10
  DEF OperationStep, AllUsersDone, HasUser, DeleteUser, CreateExternal, DeleteExternal,
      CreateLegacyMake, CreateLegacyLabel, DeleteLegacyCheck, DeleteLegacyRemove, At

\* The operations other than copies and deletions do not come near these directories.
LEMMA NoUserFiles ==
  ASSUME TypeInv, NEW e \in Executors, OperationStep(e),
         ~Copying(e), job[e].op = "DeleteUserDirs" => ~HasUser(e)
  PROVE  /\ fs'.skel = fs.skel /\ fs'.dir = fs.dir /\ fs'.own = fs.own /\ fs'.label = fs.label
         /\ job'[e].op = job[e].op /\ ~Copying(e)' /\ ~MidCopy(e)'
<1>1. fs \in DiskType /\ job \in [Executors -> JobTypes] /\ JobsOK /\ DiskOK /\ BudgetOK
  BY DEF TypeInv, DiskOK, JobsOK
<1>2. job'[e].op = job[e].op
  <2>1. \E k : Becomes(e, k)
    BY <1>1, OperationTyped
  <2> QED
    BY <1>1, <2>1, BecomesKeeps DEF Becomes
<1>3. \A d : Disk(d) => fs' = d
  BY DEF Disk
<1>4. ~(\/ CopyCheck(e) \/ CopyMake(e) \/ CopyOwn(e) \/ CopyLabel(e) \/ DeleteUser(e))
  BY <1>1 DEF CopyCheck, CopyMake, CopyOwn, CopyLabel, DeleteUser, At, HasUser, Copying, JobsOK, JobShape
<1>5. CASE AllUsersDone(e)
  <2>1. job'[e].todo = <<>> /\ job'[e].pc = "true"
    BY <1>1, <1>5 DEF AllUsersDone, Return, JobTypes
  <2> QED
    BY <1>2, <1>3, <1>5, <2>1 DEF AllUsersDone, Copying, MidCopy
<1>6. CASE CreateExternal(e) \/ DeleteExternal(e)
  <2>1. \A u, n : /\ Create(u, n).skel = fs.skel /\ Create(u, n).dir = fs.dir
                  /\ Create(u, n).own = fs.own /\ Create(u, n).label = fs.label
    BY <1>1 DEF Create, DiskType
  <2> DEFINE Kept(dirs) == [fs EXCEPT !.ext[User(e)] = dirs]
  <2>2. \A dirs : /\ Kept(dirs).skel = fs.skel /\ Kept(dirs).dir = fs.dir
                  /\ Kept(dirs).own = fs.own /\ Kept(dirs).label = fs.label
    BY <1>1 DEF DiskType
  <2> HIDE DEF Kept
  <2>3. \/ \E u, n : Disk(Create(u, n))
        \/ Disk(fs) \/ \E dirs : Disk(Kept(dirs))
    <3>1. CreateExternal(e) => Disk(fs) \/ \E u, n : Disk(Create(u, n))
      BY DEF CreateExternal
    <3>2. DeleteExternal(e) => Disk(fs) \/ \E dirs : Disk(Kept(dirs))
      BY DEF DeleteExternal, Kept
    <3> QED
      BY <1>6, <3>1, <3>2
  <2>4. job[e].op # "CopyUserDirs"
    BY <1>6 DEF CreateExternal, DeleteExternal, At
  <2> QED
    BY <1>2, <1>3, <2>1, <2>2, <2>3, <2>4 DEF Copying, MidCopy
<1>7. CASE \/ CreateLegacyMake(e) \/ CreateLegacyLabel(e)
           \/ DeleteLegacyCheck(e) \/ DeleteLegacyRemove(e)
  <2>1. job[e].op # "CopyUserDirs"
    BY <1>7 DEF CreateLegacyMake, CreateLegacyLabel, DeleteLegacyCheck, DeleteLegacyRemove, At
  <2>2. fs'.skel = fs.skel /\ fs'.dir = fs.dir /\ fs'.own = fs.own /\ fs'.label = fs.label
    BY <1>1, <1>3, <1>7
    DEF CreateLegacyMake, CreateLegacyLabel, DeleteLegacyCheck, DeleteLegacyRemove, DiskType
  <2> QED
    BY <1>2, <2>1, <2>2 DEF Copying, MidCopy
<1> QED
  BY <1>4, <1>5, <1>6, <1>7 DEF OperationStep

LEMMA Segments ==
  /\ \A a, b \in Nat : 1..a = 1..b => a = b
  /\ \A k \in Nat : (1..k) \cup {1, k + 1} = 1..(k + 1)
  /\ \A k \in Nat : \A a \in 1..k : (1..k) \cup {1, a} = 1..k
<1>1. ASSUME NEW a \in Nat, NEW b \in Nat, 1..a = 1..b
      PROVE  a = b
  <2>1. a > 0 => a \in 1..b
    BY <1>1
  <2>2. b > 0 => b \in 1..a
    BY <1>1
  <2> QED
    BY <2>1, <2>2
<1> QED
  BY <1>1

\* A copy makes the next directory of u, and is ahead there; else it makes none.
LEMMA CopyMakes ==
  ASSUME TypeInv, NEW e \in Executors, Copying(e), CopyMoves(e),
         \A v \in Users \ {User(e)} : fs'.dir[v] = fs.dir[v],
         NEW u \in Users, NEW k \in 0..Depth, Made(u, k)
  PROVE  \/ /\ Copies(e, u) /\ job[e].pc = "make" /\ job[e].at = k + 1
            /\ k + 1 \in 0..Depth /\ fs'.dir[u] = 1..(k + 1) /\ Ahead(e, u)'
         \/ fs'.dir[u] = fs.dir[u] /\ ~(Copies(e, u) /\ job[e].pc = "make" /\ job[e].at = k + 1)
<1> DEFINE at == job[e].at
<1>1. at \in Nat /\ 1 <= at /\ at <= Depth /\ Depth \in Nat /\ k \in Nat
  BY PathsExist DEF TypeInv, JobsOK, JobTypes, Paths
<1>2. CASE Copies(e, u) /\ job[e].pc = "make"
  <2>1. User(e) = u /\ fs.dir[u] = 1..k /\ at \in 1..k+1
    BY <1>2 DEF Copies, Made
  <2>2. fs'.dir[u] = (1..k) \cup {1, at}
    BY <1>2, <2>1 DEF CopyMoves
  <2>3. CASE at = k + 1
    <3>1. fs'.dir[u] = 1..(k + 1) /\ k + 1 \in 0..Depth
      BY <1>1, <2>2, <2>3, Segments
    <3>2. IF at < Depth THEN GoesOn(e, "check", at + 1) ELSE GoesOn(e, "own", at)
      BY <1>2 DEF CopyMoves
    <3>3. job'[e].op = "CopyUserDirs" /\ job'[e].todo = job[e].todo
      BY <3>2 DEF GoesOn
    <3>4. Copies(e, u)'
      BY <1>2, <3>3 DEF Copies, Copying, User
    <3>5. CASE at < Depth
      <4>1. job'[e].pc = "check" /\ job'[e].at = at + 1 /\ job'[e].at - 1 = k + 1
        BY <1>1, <2>3, <3>2, <3>5 DEF GoesOn
      <4> QED
        BY <1>2, <2>3, <3>1, <3>4, <4>1 DEF Ahead
    <3>6. CASE ~(at < Depth)
      <4>1. job'[e].pc = "own" /\ k + 1 = Depth
        BY <1>1, <2>3, <3>2, <3>6 DEF GoesOn
      <4> QED
        BY <1>2, <2>3, <3>1, <3>4, <4>1 DEF Ahead, Paths
    <3> QED
      BY <3>5, <3>6
  <2>4. CASE at # k + 1
    <3>1. at \in 1..k
      BY <1>1, <2>1, <2>4
    <3> QED
      BY <1>1, <2>1, <2>2, <2>4, <3>1, Segments
  <2> QED
    BY <2>3, <2>4
<1>3. CASE ~(Copies(e, u) /\ job[e].pc = "make")
  <2>1. CASE User(e) = u
    BY <1>3, <2>1 DEF CopyMoves, Copies
  <2>2. CASE User(e) # u
    BY <1>3, <2>2
  <2> QED
    BY <1>3, <2>1, <2>2
<1> QED
  BY <1>2, <1>3

LEMMA CopyInOrder ==
  ASSUME TypeInv, NEW e \in Executors, Copying(e), CopyMoves(e),
         \A v \in Users \ {User(e)} : fs'.dir[v] = fs.dir[v],
         \A g \in Executors \ {e} : job'[g] = job[g],
         NEW u \in Users, InOrder(u)
  PROVE  InOrder(u)'
<1> DEFINE at == job[e].at
<1>1. PICK k \in 0..Depth : Made(u, k)
  BY DEF InOrder
<1>2. at \in Nat /\ 1 <= at /\ at <= Depth /\ Depth \in Nat /\ k \in Nat /\ k <= Depth
  BY PathsExist DEF TypeInv, JobsOK, JobTypes, Paths
<1>3. PICK n \in 0..Depth : /\ n = k \/ n = k + 1
                            /\ fs'.dir[u] = 1..n
                            /\ Copies(e, u) /\ job[e].pc = "make" => at <= n
  <2>1. Copies(e, u) /\ job[e].pc = "make" => at \in 1..k+1
    BY <1>1 DEF Made
  <2>2. fs.dir[u] = 1..k
    BY <1>1 DEF Made
  <2>3. CASE at = k + 1 /\ fs'.dir[u] = 1..(k + 1) /\ k + 1 \in 0..Depth
    BY <1>2, <2>3
  <2>4. CASE fs'.dir[u] = fs.dir[u] /\ ~(Copies(e, u) /\ job[e].pc = "make" /\ at = k + 1)
    BY <1>2, <2>1, <2>2, <2>4
  <2> QED
    BY <1>1, <2>3, <2>4, CopyMakes
<1>4. ASSUME NEW g \in Executors, Copies(g, u)'
      PROVE  /\ job'[g].pc \in {"check", "make"} => job'[g].at \in 1..n+1
             /\ job'[g].pc \in {"own", "label"} => n = Depth
  <2>1. CASE g # e
    <3>1. job'[g] = job[g]
      BY <2>1
    <3>2. Copies(g, u)
      BY <1>4, <3>1 DEF Copies, Copying, User
    <3>3. job[g].at \in Nat
      BY PathsExist DEF TypeInv, JobsOK, JobTypes, Paths
    <3>4. /\ job[g].pc \in {"check", "make"} => job[g].at \in 1..k+1
          /\ job[g].pc \in {"own", "label"} => k = Depth
      BY <1>1, <3>2 DEF Made
    <3> QED
      BY <1>2, <1>3, <3>1, <3>3, <3>4
  <2>2. CASE g = e
    <3>1. CASE LeavesUser(e)
      <4>1. job'[g].pc = "check" /\ job'[g].at = 1
        BY <2>2, <3>1 DEF LeavesUser
      <4> QED
        BY <1>3, <4>1
    <3>2. CASE \E p, a : GoesOn(e, p, a)
      <4>1. job'[e].todo = job[e].todo
        BY <3>2 DEF GoesOn
      <4>2. Copies(e, u)
        BY <1>4, <2>2, <4>1 DEF Copies, User
      <4>3. /\ job[e].pc \in {"check", "make"} => at \in 1..k+1
            /\ job[e].pc \in {"own", "label"} => k = Depth
        BY <1>1, <4>2 DEF Made
      <4>4. CASE job[e].pc = "check" /\ GoesOn(e, "make", at)
        BY <1>2, <1>3, <2>2, <4>3, <4>4 DEF GoesOn
      <4>5. CASE job[e].pc = "make" /\ at < Depth /\ GoesOn(e, "check", at + 1)
        BY <1>2, <1>3, <2>2, <4>2, <4>5 DEF GoesOn
      <4>6. CASE job[e].pc = "make" /\ ~(at < Depth) /\ GoesOn(e, "own", at)
        BY <1>2, <1>3, <2>2, <4>2, <4>6 DEF GoesOn
      <4>7. CASE job[e].pc = "own" /\ GoesOn(e, "label", at)
        BY <1>2, <1>3, <2>2, <4>3, <4>7 DEF GoesOn
      <4>8. CASE job[e].pc = "label" \/ (job[e].pc = "check" /\ LeavesUser(e))
        <5>1. LeavesUser(e)
          BY <4>8 DEF CopyMoves
        <5> QED
          BY <1>3, <2>2, <5>1 DEF LeavesUser
      <4> QED
        BY <4>4, <4>5, <4>6, <4>7, <4>8 DEF CopyMoves
    <3> QED
      BY <3>1, <3>2 DEF CopyMoves
  <2> QED
    BY <2>1, <2>2
<1>5. Made(u, n)'
  BY <1>3, <1>4 DEF Made
<1> QED
  BY <1>5 DEF InOrder

\* Whoever is ahead stays ahead, or the copy does that overtakes it; the one that is
\* done leaves the user served.
LEMMA CopyServes ==
  ASSUME TypeInv, NEW e \in Executors, Copying(e), CopyMoves(e),
         \A v \in Users \ {User(e)} :
           fs'.dir[v] = fs.dir[v] /\ fs'.own[v] = fs.own[v] /\ fs'.label[v] = fs.label[v],
         \A g \in Executors \ {e} : job'[g] = job[g],
         fs.skel = {} => CopyComes, CopyComes => CopyComes',
         NEW u \in Users, InOrder(u), Served(u)
  PROVE  Served(u)'
<1> DEFINE at == job[e].at
<1>1. PICK k \in 0..Depth : Made(u, k)
  BY DEF InOrder
<1>2. /\ at \in Nat /\ 1 <= at /\ at <= Depth /\ Depth \in Nat /\ k \in Nat /\ k <= Depth
      /\ fs.dir[u] = 1..k /\ fs.dir[u] \subseteq Paths /\ Depth >= 1 /\ Paths = 1..Depth
      /\ job[e].todo \in Suffixes /\ fs \in DiskType
  BY <1>1, PathsExist DEF TypeInv, JobsOK, JobTypes, DiskOK, Paths, Made
<1>3. CASE /\ Copies(e, u) /\ job[e].pc = "make" /\ at = k + 1
           /\ k + 1 \in 0..Depth /\ fs'.dir[u] = 1..(k + 1) /\ Ahead(e, u)'
  BY <1>3 DEF Served
<1>4. CASE fs'.dir[u] = fs.dir[u] /\ ~(Copies(e, u) /\ job[e].pc = "make" /\ at = k + 1)
  <2>1. \A g \in Executors \ {e} :
          /\ Copies(g, u)' <=> Copies(g, u)
          /\ Coming(g, u)' <=> Coming(g, u)
    BY DEF Copies, Copying, Coming, User
  <2>2. fs'.own[u] = fs.own[u] \/ fs'.own[u] = fs.dir[u]
    BY DEF CopyMoves
  <2>3. fs'.label[u] = fs.label[u] \/ fs'.label[u] = fs.dir[u]
    BY DEF CopyMoves
  <2>4. CASE Ready(u)
    BY <1>4, <2>2, <2>3, <2>4 DEF Ready, Served
  <2>5. ASSUME NEW g \in Executors \ {e}, Ahead(g, u)
        PROVE  Served(u)'
    <3>1. Ahead(g, u)'
      BY <1>4, <2>1, <2>2, <2>5 DEF Ahead
    <3> QED
      BY <3>1 DEF Served
  <2>6. CASE Ahead(e, u)
    <3>1. Copies(e, u) /\ User(e) = u /\ job[e].todo # <<>>
      BY <2>6 DEF Ahead, Copies, Copying
    <3>2. CASE job[e].pc = "check" /\ LeavesUser(e)
      <4>1. fs.dir[u] = 1..(at - 1)
        BY <2>6, <3>2 DEF Ahead
      <4>2. fs.skel = {} /\ at = 1
        BY <1>2, <3>1, <3>2, <4>1 DEF CopyMoves, GoesOn, LeavesUser
      <4>3. fs'.dir[u] = {} /\ CopyComes'
        <5>1. 1..(1 - 1) = {}
          OBVIOUS
        <5>2. fs'.dir[u] = {}
          BY <1>4, <4>1, <4>2, <5>1
        <5> QED
          BY <4>2, <5>2
      <4> QED
        BY <4>3 DEF Served
    <3>3. ASSUME NEW p, NEW a, GoesOn(e, p, a)
          PROVE  Copies(e, u)' /\ job'[e].pc = p /\ job'[e].at = a
      BY <3>1, <3>3 DEF GoesOn, Copies, Copying, User
    <3>4. CASE job[e].pc = "check" /\ GoesOn(e, "make", at)
      <4>1. Ahead(e, u)'
        BY <1>4, <2>6, <3>3, <3>4 DEF Ahead
      <4> QED
        BY <4>1 DEF Served
    <3>5. CASE job[e].pc = "make"
      <4>1. fs.dir[u] = 1..(at - 1) \/ fs.dir[u] = 1..at
        BY <2>6, <3>5 DEF Ahead
      <4>2. k = at - 1 \/ k = at
        <5>1. at - 1 \in Nat /\ at \in Nat /\ k \in Nat /\ fs.dir[u] = 1..k
          BY <1>2
        <5>2. 1..k = 1..(at - 1) => k = at - 1
          BY <5>1, Segments
        <5>3. 1..k = 1..at => k = at
          BY <5>1, Segments
        <5> QED
          BY <4>1, <5>1, <5>2, <5>3
      <4>3. k = at
        BY <1>2, <1>4, <3>1, <3>5, <4>2
      <4>4. IF at < Depth THEN GoesOn(e, "check", at + 1) ELSE GoesOn(e, "own", at)
        BY <3>5 DEF CopyMoves
      <4>5. CASE at < Depth
        <5>1. Copies(e, u)' /\ job'[e].pc = "check" /\ job'[e].at = at + 1 /\ job'[e].at - 1 = k
          BY <1>2, <3>3, <4>3, <4>4, <4>5
        <5>2. Ahead(e, u)'
          BY <1>2, <1>4, <5>1 DEF Ahead
        <5> QED
          BY <5>2 DEF Served
      <4>6. CASE ~(at < Depth)
        <5>1. Copies(e, u)' /\ job'[e].pc = "own" /\ k = Depth
          BY <1>2, <3>3, <4>3, <4>4, <4>6
        <5>2. Ahead(e, u)'
          BY <1>2, <1>4, <5>1 DEF Ahead
        <5> QED
          BY <5>2 DEF Served
      <4> QED
        BY <4>5, <4>6
    <3>6. CASE job[e].pc = "own"
      <4>1. fs.dir[u] = Paths
        BY <2>6, <3>6 DEF Ahead
      <4>2. GoesOn(e, "label", at) /\ fs'.own[u] = Paths
        BY <3>1, <3>6, <4>1 DEF CopyMoves
      <4>3. Ahead(e, u)'
        BY <1>4, <3>3, <4>1, <4>2 DEF Ahead
      <4> QED
        BY <4>3 DEF Served
    <3>7. CASE job[e].pc = "label"
      <4>1. fs.dir[u] = Paths /\ fs.own[u] = Paths
        BY <2>6, <3>7 DEF Ahead
      <4>2. fs'.label[u] = Paths /\ fs'.own[u] = Paths
        BY <3>1, <3>7, <4>1 DEF CopyMoves
      <4>3. Ready(u)'
        BY <1>4, <4>1, <4>2 DEF Ready
      <4> QED
        BY <4>3 DEF Served
    <3> QED
      BY <2>6, <3>2, <3>4, <3>5, <3>6, <3>7 DEF Ahead, CopyMoves
  <2>7. CASE fs.dir[u] = {} /\ CopyComes
    BY <1>4, <2>7 DEF Served
  <2>8. ASSUME fs.dir[u] = {}, NEW g \in Executors, Coming(g, u)
        PROVE  Served(u)'
    <3>1. CASE g # e
      BY <1>4, <2>1, <2>8, <3>1 DEF Served
    <3>2. CASE g = e /\ \E p, a : GoesOn(e, p, a)
      <4>1. Coming(e, u)'
        BY <2>8, <3>2 DEF GoesOn, Coming, Copying
      <4> QED
        BY <1>4, <2>8, <4>1 DEF Served
    <3>3. CASE g = e /\ LeavesUser(e)
      <4> DEFINE rest == Tail(job[e].todo)
      <4>1. /\ job'[e].todo = rest /\ job'[e].op = "CopyUserDirs"
            /\ job'[e].pc = "check" /\ job'[e].at = 1
        BY <3>3 DEF LeavesUser
      <4>2. rest \in Suffixes /\ InList(u, rest)
        BY <1>2, <2>8, <3>3, SuffixMoves DEF Coming, Copying
      <4>3. rest # <<>> /\ (u = Head(rest) \/ InList(u, Tail(rest)))
        BY <4>2, ListMembers
      <4>4. fs'.dir[u] = 1..(job'[e].at - 1)
        BY <1>4, <2>8, <4>1
      <4>5. Ahead(e, u)' \/ Coming(e, u)'
        BY <4>1, <4>3, <4>4 DEF Ahead, Copies, Copying, Coming, User
      <4> QED
        BY <1>4, <2>8, <4>5 DEF Served
    <3> QED
      BY <3>1, <3>2, <3>3 DEF CopyMoves
  <2> QED
    BY <2>4, <2>5, <2>6, <2>7, <2>8 DEF Served
<1> QED
  BY <1>1, <1>3, <1>4, CopyMakes

\* What a step of an operation leaves: the calls, the list of the installer, and
\* with them what is still to come.
LEMMA OperationKeeps ==
  ASSUME TypeInv, NEW e \in Executors, Operation(e)
  PROVE  /\ job[e].op # "none" /\ installed' = installed /\ job'[e].op = job[e].op
         /\ \A g \in Executors \ {e} : job'[g] = job[g]
         /\ Plain' = Plain /\ JobsOK'
         /\ CopyComes' <=> CopyComes
         /\ CopyDue' <=> CopyDue
         /\ LastCopyQueued' <=> LastCopyQueued
         /\ Doing("skel")' <=> Doing("skel")
         /\ Unsettled' <=> Unsettled
         /\ Settled' <=> Settled
<1>0. /\ OperationStep(e) /\ UNCHANGED <<queue, service, client, made>>
      /\ past' = [past EXCEPT !.overlap = @ \/ Overlap]
  BY DEF Operation
<1>t. JobsOK /\ DiskOK /\ BudgetOK /\ HistoryOK
  BY DEF TypeInv
<1>1. PICK j : Becomes(e, j)
  BY <1>t, <1>0, OperationTyped
<1>2. /\ job[e].op # "none" /\ installed' = installed /\ job'[e].op = job[e].op
      /\ JobsOK' /\ \A g \in Executors \ {e} : job'[g] = job[g]
  BY <1>t, <1>0, <1>1, OperationTyped, BecomesKeeps DEF Becomes
<1>3. Plain' = Plain
  BY <1>t, <1>0 DEF Plain, HistoryOK
<1>4. /\ CopyDue' <=> CopyDue
      /\ CopyAwaited' <=> CopyAwaited
      /\ CopyQueued' <=> CopyQueued
      /\ LastCopyQueued' <=> LastCopyQueued
      /\ DeletionQueued' <=> DeletionQueued
      /\ Doing("skel")' <=> Doing("skel")
  BY <1>0 DEF CopyDue, CopyAwaited, CopyQueued, LastCopyQueued, DeletionQueued, Doing
<1>5. job'["service"].op = job["service"].op
  BY <1>2 DEF Executors
<1>6. ServiceBusy' <=> ServiceBusy
  <2>1. CASE e = "service"
    BY <1>2, <2>1 DEF ServiceBusy, NoJob
  <2>2. CASE e # "service"
    BY <1>2, <2>2 DEF ServiceBusy, Executors
  <2> QED
    BY <2>1, <2>2
<1>7. ServiceMayQuit' <=> ServiceMayQuit
  BY <1>0, <1>6 DEF ServiceMayQuit
<1> QED
  BY <1>2, <1>3, <1>4, <1>5, <1>7 DEF CopyComes, Unsettled, Settled

LEMMA SkelStays ==
  ASSUME TypeInv, NEW e \in Executors, OperationStep(e)
  PROVE  fs'.skel = fs.skel
<1>1. fs \in DiskType
  BY DEF TypeInv, DiskOK
<1>2. \A d : Disk(d) => fs' = d
  BY DEF Disk
<1>3. CASE CopyCheck(e) \/ CopyMake(e)
  BY <1>1, <1>2, <1>3 DEF CopyCheck, CopyMake, DiskType
<1>4. CASE DeleteUser(e)
  <2> DEFINE u == User(e)
             Left(dirs) == [fs EXCEPT !.dir[u] = dirs, !.own[u] = @ \cap dirs, !.label[u] = @ \cap dirs]
  <2>1. \A dirs : Left(dirs).skel = fs.skel
    BY <1>1 DEF DiskType
  <2> HIDE DEF Left
  <2>2. Disk(fs) \/ \E dirs : Disk(Left(dirs))
    BY <1>4 DEF DeleteUser, Left
  <2> QED
    BY <1>2, <2>1, <2>2
<1> QED
  BY <1>3, <1>4, NoUserDirectory

\* The operations go on.
LEMMA ServedOperation ==
  ASSUME TypeInv, ListInv, ServedState, DeletionState, Global \in installed,
         NEW e \in Executors, Operation(e), ~Overlap,
         \A kind : Fault(kind) => kind \in {"lostCall", "external"}
  PROVE  ServedState'
<1>t. /\ InstallerOK /\ ClientOK /\ JobsOK /\ DiskOK /\ fs \in DiskType
      /\ job \in [Executors -> JobTypes]
  BY DEF TypeInv, DiskOK, JobsOK
<1>e. "installer" \in Executors /\ "service" \in Executors /\ "installer" # "service"
  BY DEF Executors
<1>0. OperationStep(e)
  BY DEF Operation
<1>1. /\ job[e].op # "none" /\ installed' = installed /\ job'[e].op = job[e].op
      /\ \A g \in Executors \ {e} : job'[g] = job[g]
      /\ Plain' = Plain /\ JobsOK'
      /\ CopyComes' <=> CopyComes
      /\ CopyDue' <=> CopyDue
      /\ LastCopyQueued' <=> LastCopyQueued
      /\ Doing("skel")' <=> Doing("skel")
      /\ Unsettled' <=> Unsettled
      /\ Settled' <=> Settled
  BY OperationKeeps
\* A deletion is one from before the installation.
<1>2. job[e].op = "DeleteUserDirs" => e = "service" /\ ~Settled
  <2>1. job["installer"].op # "DeleteUserDirs"
    <3> SUFFICES ASSUME job["installer"].op = "DeleteUserDirs"
                 PROVE  FALSE
      OBVIOUS
    <3>1. client.state = "direct" /\ client.todo # <<>> /\ Head(client.todo) = "DeleteUserDirs"
      BY <1>t DEF InstallerOK, ClientOK, ListInv, DirectFits, NoJob
    <3> QED
      BY <3>1 DEF ListInv, ListFits
  <2>2. job["service"].op = "DeleteUserDirs" => ~Settled
    BY DEF Settled, Unsettled, ServiceMayQuit, ServiceBusy, NoJob
  <2> QED
    BY <2>1, <2>2 DEF Executors
<1>3. Doing("skel") => e = "service"
  BY <1>1 DEF Doing, TypeInv, InstallerOK, NoJob, Executors
<1>s. fs'.skel = fs.skel
  BY <1>0, SkelStays
<1>4. ASSUME fs'.skel = fs.skel, ~Settled
      PROVE  ServedState'
  BY <1>1, <1>4 DEF ServedState
<1>5. CASE ~Copying(e) /\ (job[e].op = "DeleteUserDirs" => ~HasUser(e))
  <2>1. /\ fs'.skel = fs.skel /\ fs'.dir = fs.dir /\ fs'.own = fs.own /\ fs'.label = fs.label
        /\ ~Copying(e)' /\ ~MidCopy(e)'
    BY <1>0, <1>5, NoUserFiles
  <2>2. MidCopy("service")' => MidCopy("service")
    BY <1>e, <1>1, <2>1 DEF MidCopy
  <2> QED
    BY <1>1, <1>5, <2>1, <2>2, ServedFrame DEF ServedState
<1>6. CASE DeleteUser(e)
  <2>1. job[e].op = "DeleteUserDirs"
    BY <1>6 DEF DeleteUser, At
  <2> QED
    BY <1>2, <1>4, <1>s, <2>1
<1>7. CASE Copying(e)
  <2>1. CASE Settled
    <3>1. /\ fs.skel = Paths \/ fs.skel = {}
          /\ fs.skel = {} => Doing("skel") /\ ~MidCopy(e)
          /\ job[e].pc = "own" => fs.dir[User(e)] # {}
      BY <1>3, <1>7, <2>1, PathsExist DEF ServedState
    <3>2. /\ CopyMoves(e)
          /\ \A v \in Users \ {User(e)} :
               fs'.dir[v] = fs.dir[v] /\ fs'.own[v] = fs.own[v] /\ fs'.label[v] = fs.label[v]
      BY <1>0, <1>7, <3>1, CopyStep
    <3>3. fs.skel = {} => CopyComes
      BY <3>1 DEF CopyComes, CopyDue
    <3>4. ASSUME NEW u \in Plain
          PROVE  InOrder(u)' /\ Served(u)'
      <4>1. u \in Users /\ InOrder(u) /\ Served(u)
        BY <2>1 DEF Plain, ServedState
      <4>2. InOrder(u)'
        BY <1>1, <1>7, <3>2, <4>1, CopyInOrder
      <4>3. Served(u)'
        BY <1>1, <1>7, <3>2, <3>3, <4>1, CopyServes
      <4> QED
        BY <4>2, <4>3
    <3>5. Doing("skel") => ~MidCopy("service")'
      <4> SUFFICES ASSUME Doing("skel")
                   PROVE  ~MidCopy("service")'
        OBVIOUS
      <4>1. e = "service" /\ fs.skel = {} /\ ~MidCopy(e)
        BY <1>3, <2>1 DEF ServedState
      <4>2. /\ job[e].at \in Nat /\ job[e].op = "CopyUserDirs" /\ HasUser(e)
            /\ job[e].pc = "check" /\ job[e].at = 1
        BY <1>t, <1>7, <3>2, <4>1, PathsExist DEF MidCopy, Copying, CopyMoves, JobTypes, Paths, HasUser
      <4>3. CopyCheck(e)
        BY <1>0, <4>2
        DEF OperationStep, AllUsersDone, CopyMake, CopyOwn, CopyLabel, DeleteUser, CreateExternal,
            DeleteExternal, CreateLegacyMake, CreateLegacyLabel, DeleteLegacyCheck,
            DeleteLegacyRemove, At
      <4>4. NextUser(e, "check")
        BY <4>1, <4>2, <4>3, PathsExist DEF CopyCheck, CopyGone
      <4>5. job'[e].pc = "check" /\ job'[e].at = 1
        BY <1>t, <4>4 DEF NextUser, JobTypes
      <4> QED
        BY <4>1, <4>5 DEF MidCopy
    <3>6. ASSUME NEW g \in Executors, Copying(g)', job'[g].pc = "own"
          PROVE  fs'.dir[User(g)'] # {}
      <4>1. CASE g = e
        <5>1. job[e].pc = "make" /\ GoesOn(e, "own", job[e].at)
          BY <3>2, <3>6, <4>1 DEF CopyMoves, GoesOn, LeavesUser
        <5>2. 1 \in fs'.dir[User(e)] /\ User(e)' = User(e)
          BY <3>2, <5>1 DEF CopyMoves, GoesOn, User
        <5> QED
          BY <4>1, <5>2
      <4>2. CASE g # e
        <5>1. User(g)' = User(g) /\ fs.dir[User(g)] # {} /\ User(g) \in Users
          <6>1. job'[g] = job[g] /\ Copying(g) /\ job[g].pc = "own"
            BY <1>1, <3>6, <4>2 DEF Copying
          <6>2. job[g].todo \in Suffixes /\ job[g].todo # <<>>
            BY <1>t, <6>1 DEF JobTypes, Copying
          <6>3. User(g) \in Users
            BY <6>2, SuffixMoves DEF User
          <6> QED
            BY <2>1, <6>1, <6>3 DEF User, ServedState
        <5>2. fs.dir[User(g)] \subseteq fs'.dir[User(g)]
          <6>1. CASE User(g) = User(e)
            <7>1. fs.dir[User(e)] \subseteq fs'.dir[User(e)]
              BY <3>2 DEF CopyMoves
            <7> QED
              BY <6>1, <7>1
          <6>2. CASE User(g) # User(e)
            BY <3>2, <5>1, <6>2
          <6> QED
            BY <6>1, <6>2
        <5> QED
          BY <5>1, <5>2
      <4> QED
        BY <4>1, <4>2
    <3>7. \A g \in Executors : Copying(g)' /\ job'[g].pc = "own" => fs'.dir[User(g)'] # {}
      BY <3>6
    <3> QED
      BY <1>1, <1>s, <3>4, <3>5, <3>7 DEF ServedState
  <2>2. CASE ~Settled
    BY <1>4, <1>s, <2>2
  <2> QED
    BY <2>1, <2>2
<1> QED
  <2>1. job[e].op = "DeleteUserDirs" /\ HasUser(e) => DeleteUser(e)
    BY <1>0
    DEF OperationStep, AllUsersDone, CopyCheck, CopyMake, CopyOwn, CopyLabel, CreateExternal,
        DeleteExternal, CreateLegacyMake, CreateLegacyLabel, DeleteLegacyCheck,
        DeleteLegacyRemove, At
  <2> QED
    BY <1>5, <1>6, <1>7, <2>1

\* The installer gives up waiting: it starts with the first user itself.
LEMMA WaitingCopies ==
  ASSUME TypeInv, client.state = "waiting",
         NEW jobs \in [Executors -> JobTypes], jobs["installer"] = job["installer"], NoTrue(jobs)
  PROVE  /\ job'["service"] = jobs["service"]
         /\ ~Copying("installer")
         /\ job'["installer"].op # "CopyUserDirs" \/ Started("installer")'
         /\ CopyAwaited => Started("installer")'
         /\ ~Doing("skel")' \/ NextPart
<1>e. "installer" \in Executors /\ "service" \in Executors /\ "installer" # "service"
  BY DEF Executors
<1>1. job["installer"] = NoJob /\ NoJob.op = "none"
  BY DEF TypeInv, InstallerOK, NoJob
<1>2. CASE IgnoresAnswer(Head(client.todo)) /\ NextPart /\ job' = jobs
  BY <1>1, <1>2 DEF IgnoresAnswer, CopyAwaited, Copying
<1>3. CASE /\ client' = [client EXCEPT !.state = "direct"]
           /\ job' = [jobs EXCEPT !["installer"] = NewJob(Head(client.todo), client.uid)]
  <2>1. job'["installer"] = NewJob(Head(client.todo), client.uid) /\ job'["service"] = jobs["service"]
    BY <1>e, <1>3
  <2>2. job'["installer"].op = Head(client.todo)
    BY <2>1 DEF NewJob
  <2>3. Head(client.todo) = "CopyUserDirs" => Started("installer")'
    BY <2>1 DEF NewJob, Started, AtStart
  <2>4. ~Doing("skel")'
    BY <1>3 DEF Doing, TypeInv, ClientOK
  <2> QED
    BY <1>1, <2>1, <2>2, <2>3, <2>4 DEF CopyAwaited, Copying
<1> QED
  BY <1>2, <1>3 DEF NoTrue

\* Whatever else happens while the service deletes, the directories do not grow, and
\* a copy in the installer does not begin.
LEMMA DeletionFrame ==
  ASSUME DeletionState, past'.private = past.private, installed' \cap Users \subseteq installed,
         \A u \in Users : fs'.dir[u] = fs.dir[u] \/ fs'.dir[u] = {},
         job'["service"] = job["service"] \/ job'["service"].op # "DeleteUserDirs",
         \/ job'["installer"] = job["installer"]
         \/ job'["installer"].op # "CopyUserDirs" \/ Started("installer")'
  PROVE  DeletionState'
<1>1. Plain' = Plain /\ Plain \subseteq Users
  BY DEF Plain
<1>2. installed' \cap Users \subseteq past'.private
  BY DEF DeletionState
<1>3. ASSUME job'["service"] = job["service"], job["service"].op = "DeleteUserDirs"
      PROVE  /\ \A u \in Plain : fs'.dir[u] = {} \/ Deletes("service", u)'
             /\ job'["installer"].op = "CopyUserDirs" => job'["service"].pc = "user" \/ AtStart("installer")'
  BY <1>1, <1>3 DEF DeletionState, Deletes, Started, AtStart
<1> QED
  BY <1>1, <1>2, <1>3 DEF DeletionState

LEMMA DeletionOperation ==
  ASSUME TypeInv, DeletionState, NEW e \in Executors, Operation(e), ~Overlap,
         \A kind : Fault(kind) => kind \in {"lostCall", "external"}
  PROVE  DeletionState'
<1>t. fs \in DiskType /\ job \in [Executors -> JobTypes] /\ HistoryOK
  BY DEF TypeInv, DiskOK, JobsOK
<1>e. "installer" \in Executors /\ "service" \in Executors /\ "installer" # "service"
  BY DEF Executors
<1>0. OperationStep(e)
  BY DEF Operation
<1>1. /\ job[e].op # "none" /\ installed' = installed /\ job'[e].op = job[e].op
      /\ \A g \in Executors \ {e} : job'[g] = job[g]
      /\ Plain' = Plain /\ past'.private = past.private /\ Plain \subseteq Users
  BY <1>t, OperationKeeps DEF Operation, HistoryOK, Plain
<1> SUFFICES ASSUME job["service"].op = "DeleteUserDirs"
             PROVE  /\ \A u \in Plain : fs'.dir[u] = {} \/ Deletes("service", u)'
                    /\ job'["installer"].op # "CopyUserDirs"
  BY <1>e, <1>1 DEF DeletionState
<1>2. job["installer"].op # "CopyUserDirs" /\ job'["installer"].op # "CopyUserDirs"
  <2>1. job["installer"].op = "CopyUserDirs" => Overlap
    BY DEF Overlap, Executors
  <2> QED
    BY <1>e, <1>1, <2>1
<1>3. ~CopyCheck(e) /\ ~CopyMake(e)
  BY <1>2 DEF CopyCheck, CopyMake, At, Executors
<1>4. CASE DeleteUser(e)
  <2> DEFINE v == User(e)
  <2>1. /\ v \in Users /\ fs'.skel = fs.skel /\ HasUser(e) /\ v = Head(job[e].todo)
        /\ \A u \in Users \ {v} : fs'.dir[u] = fs.dir[u]
        /\ fs'.dir[v] = IF v \in installed THEN fs.dir[v] ELSE {}
        /\ job'[e].todo = Tail(job[e].todo) /\ job[e].todo \in Suffixes
    BY <1>4, DeleteStep
  <2> HIDE DEF v
  <2>2. ASSUME NEW u \in Plain, fs'.dir[u] # {}
        PROVE  Deletes("service", u)'
    <3>1. u \notin installed /\ u \in Users
      BY <1>1 DEF DeletionState, Plain
    <3>2. u # v /\ fs.dir[u] # {}
      BY <2>1, <2>2, <3>1
    <3>3. Deletes("service", u)
      BY <3>2 DEF DeletionState
    <3>4. CASE e = "service"
      BY <1>1, <2>1, <3>2, <3>3, <3>4, ListMembers DEF Deletes, HasUser
    <3>5. CASE e # "service"
      BY <1>e, <1>1, <3>3, <3>5 DEF Deletes
    <3> QED
      BY <3>4, <3>5
  <2> QED
    BY <1>2, <2>2
<1>5. CASE ~DeleteUser(e)
  <2>1. fs'.dir = fs.dir /\ (job[e].op = "DeleteUserDirs" => job[e].todo = <<>>)
    BY <1>0, <1>3, <1>5, NoUserDirectory
  <2>2. \A u : Deletes("service", u) => Deletes("service", u)'
    <3>1. CASE e = "service"
      BY <2>1, <3>1, ListMembers DEF Deletes
    <3>2. CASE e # "service"
      BY <1>e, <1>1, <3>2 DEF Deletes
    <3> QED
      BY <3>1, <3>2
  <2> QED
    BY <1>2, <2>1, <2>2 DEF DeletionState
<1> QED
  BY <1>4, <1>5

LEMMA DeletionStateStep ==
  ASSUME TypeInv, DeletionState, Next, ~past'.overlap, ~RequestFails,
         \A kind : Fault(kind) => kind \in {"lostCall", "external"}
  PROVE  DeletionState'
<1>t. /\ JobsOK /\ ClientOK /\ InstallerOK /\ QueueOK /\ HistoryOK /\ fs \in DiskType
      /\ job \in [Executors -> JobTypes]
  BY DEF TypeInv, DiskOK, JobsOK
<1>e. "installer" \in Executors /\ "service" \in Executors /\ "installer" # "service"
  BY DEF Executors
<1>n. NoJob.op = "none"
  BY DEF NoJob
<1>1. CASE RequestStep
  <2>1. /\ UNCHANGED <<fs, job, past>>
        /\ \E uid : installed' \in {installed, installed \cup {Global}, installed \ {uid}}
    BY <1>1 DEF RequestStep, Request
  <2> QED
    BY <2>1, SharedDirsAssumption, DeletionFrame
<1>2. CASE SkelMake \/ SkelLabel \/ SkelDelete
  <2>1. UNCHANGED <<job, installed, past>> /\ fs'.dir = fs.dir
    BY <1>2, <1>t DEF SkelMake, SkelLabel, SkelDelete, DiskType
  <2> QED
    BY <2>1, DeletionFrame
<1>3. CASE RemoveFiles
  <2>1. UNCHANGED <<job, installed, past>>
    BY <1>3 DEF RemoveFiles
  <2>2. \A u \in Users : fs'.dir[u] = fs.dir[u] \/ fs'.dir[u] = {}
    BY <1>3, <1>t DEF RemoveFiles, DiskType
  <2> QED
    BY <2>1, <2>2, DeletionFrame
<1>4. CASE Send \/ RequestEnds \/ ServiceStarts \/ TimerElapses
  <2>1. UNCHANGED <<fs, job, installed, past>>
    BY <1>4 DEF Send, RequestEnds, ServiceStarts, TimerElapses
  <2> QED
    BY <2>1, DeletionFrame
<1>5. CASE DirectReturns
  <2>1. UNCHANGED <<fs, installed, past>> /\ job'["installer"] = NoJob /\ job'["service"] = job["service"]
    BY <1>5, <1>t, <1>e DEF DirectReturns
  <2> QED
    BY <1>n, <2>1, DeletionFrame
<1>6. CASE TakeCall
  <2> DEFINE c == Head(queue)
  <2>1. job' = [job EXCEPT !["service"] = NewJob(c.op, c.uid)] /\ UNCHANGED <<fs, installed, past>>
    BY <1>6 DEF TakeCall
  <2>2. job'["service"] = NewJob(c.op, c.uid) /\ job'["installer"] = job["installer"]
    BY <1>t, <1>e, <2>1
  <2>3. CASE c.op # "DeleteUserDirs"
    <3>1. job'["service"].op # "DeleteUserDirs"
      BY <2>2, <2>3 DEF NewJob
    <3> QED
      BY <2>1, <2>2, <3>1, DeletionFrame
  <2>4. CASE c.op = "DeleteUserDirs"
    <3>1. /\ job'["service"].op = "DeleteUserDirs" /\ job'["service"].pc = "user"
          /\ job'["service"].todo = UserList
      BY <2>2, <2>4 DEF NewJob
    <3>2. \A u \in Users : Deletes("service", u)'
      BY <3>1, ListMembers DEF Deletes
    <3> QED
      BY <2>1, <3>1, <3>2 DEF DeletionState, Plain
  <2> QED
    BY <2>3, <2>4
<1>7. CASE Reply
  <2>1. Answer /\ UNCHANGED <<fs, installed, past>>
    BY <1>7 DEF Reply
  <2>2. job'["service"] = NoJob
    BY <1>t, <2>1, AnswerTyped
  <2> QED
    BY <1>n, <2>1, <2>2 DEF DeletionState
<1>8. CASE TimesOut
  <2>1. client.state = "waiting" /\ NoTrue(job) /\ UNCHANGED <<fs, installed, past>>
    BY <1>8 DEF TimesOut
  <2> QED
    BY <1>t, <2>1, WaitingCopies, DeletionFrame
<1>9. CASE ServiceQuits
  <2>1. job["service"] = NoJob /\ Stops(job) /\ UNCHANGED <<fs, installed, past>>
    BY <1>9 DEF ServiceQuits, ServiceBusy, Stops
  <2>2. job'["service"] = NoJob
    BY <1>t, <2>1, WaitingCopies DEF Stops
  <2> QED
    BY <1>n, <2>1, <2>2 DEF DeletionState
<1>10. ASSUME NEW e \in Executors, Operation(e)
       PROVE  DeletionState'
  <2>1. ~Overlap
    BY <1>t, <1>10 DEF Operation, HistoryOK
  <2> QED
    BY <1>10, <2>1, DeletionOperation
<1>11. ~SendFails /\ ~InstallerDies /\ ~ServiceDies
  BY DEF SendFails, InstallerDies, ServiceDies
<1> QED
  BY <1>e, <1>1, <1>2, <1>3, <1>4, <1>5, <1>6, <1>7, <1>8, <1>9, <1>10, <1>11
  DEF Next, InstallerStep, ServiceStep

\* The installer goes on in its list.
LEMMA SkelFirst ==
  ASSUME ClientOK, ListFits, client.state # "idle", client.todo # <<>>, NextPart
  PROVE  /\ ~Doing("skel")'
         /\ Head(client.todo) = "skel" => Doing("skelLabel")'
         /\ Head(client.todo) = "skelLabel" => Doing("CopyUserDirs")'
<1>1. client'.state = "next" /\ client'.todo = Tail(client.todo)
  BY NextPartTyped
<1>2. CASE client.todo = <<"skel", "skelLabel", "CopyUserDirs", "CreateLegacyDirs">>
  <2>1. client'.todo = <<"skelLabel", "CopyUserDirs", "CreateLegacyDirs">> /\ Head(client.todo) = "skel"
    BY <1>1, <1>2
  <2>2. client'.todo # <<>> /\ Head(client'.todo) = "skelLabel"
    BY <2>1
  <2> QED
    BY <1>1, <2>1, <2>2 DEF Doing
<1>3. CASE client.todo = <<"skelLabel", "CopyUserDirs", "CreateLegacyDirs">>
  <2>1. client'.todo = <<"CopyUserDirs", "CreateLegacyDirs">> /\ Head(client.todo) = "skelLabel"
    BY <1>1, <1>3
  <2>2. client'.todo # <<>> /\ Head(client'.todo) = "CopyUserDirs"
    BY <2>1
  <2> QED
    BY <1>1, <2>1, <2>2 DEF Doing
<1>4. CASE client.todo \in {<<"CopyUserDirs", "CreateLegacyDirs">>, <<"CreateLegacyDirs">>,
                           <<"unskel", "DeleteUserDirs", "DeleteLegacyDirs">>,
                           <<"DeleteUserDirs", "DeleteLegacyDirs">>, <<"DeleteLegacyDirs">>,
                           <<"files", "DeleteLegacyDirs">>,
                           <<"CreateExternalDirs">>, <<"DeleteExternalDirs">>}
  <2>1. Head(client.todo) \notin {"skel", "skelLabel"}
    BY <1>4
  <2>2. client'.todo # <<>> => Head(client'.todo) # "skel"
    BY <1>1, <1>4
  <2> QED
    BY <2>1, <2>2 DEF Doing
<1> QED
  BY <1>2, <1>3, <1>4 DEF ListFits

\* A step of the installer that concerns neither the calls nor the directories.
LEMMA ServedElsewhere ==
  ASSUME ServedState, UNCHANGED <<job, queue, service>>, past'.private = past.private,
         fs'.dir = fs.dir, fs'.own = fs.own, fs'.label = fs.label,
         fs'.skel = IF Doing("skel")' THEN {} ELSE Paths,
         Doing("skel")' => Doing("skel"),
         CopyDue => CopyDue', ~CopyAwaited
  PROVE  ServedState'
<1>1. /\ Unsettled' <=> Unsettled
      /\ Settled' <=> Settled
      /\ LastCopyQueued' <=> LastCopyQueued
      /\ CopyQueued' <=> CopyQueued
      /\ ServiceMayQuit' <=> ServiceMayQuit
      /\ MidCopy("service")' <=> MidCopy("service")
  BY DEF Unsettled, Settled, DeletionQueued, LastCopyQueued, CopyQueued, ServiceMayQuit,
         ServiceBusy, MidCopy
<1>2. CopyComes => CopyComes'
  BY <1>1 DEF CopyComes
<1>3. Plain' = Plain
  BY DEF Plain
<1>4. Unsettled' => CopyDue' \/ LastCopyQueued'
  BY <1>1 DEF ServedState
<1> QED
  BY <1>1, <1>2, <1>3, <1>4, ServedFrame

\* Nobody has a directory, no copy is beyond its start, and one is to come.
LEMMA ServedFresh ==
  ASSUME CopyComes', \A u \in Plain' : fs'.dir[u] = {},
         \A e \in Executors : Copying(e)' => AtStart(e)'
  PROVE  /\ \A e \in Executors : Copying(e)' /\ job'[e].pc = "own" => fs'.dir[User(e)'] # {}
         /\ \A u \in Plain' : InOrder(u)' /\ Served(u)'
<1>1. ASSUME NEW u \in Plain'
      PROVE  InOrder(u)' /\ Served(u)'
  <2>1. fs'.dir[u] = 1..0 /\ 1 \in 1..(0 + 1)
    BY <1>1
  <2>2. Made(u, 0)'
    BY <2>1 DEF Made, Copies, AtStart
  <2>3. 0 \in 0..Depth
    BY PathsExist
  <2> QED
    BY <1>1, <2>2, <2>3 DEF InOrder, Served
<1> QED
  BY <1>1 DEF AtStart

\* A request: an installation for everybody finds the directories as the removal
\* before it has left them.
LEMMA ServedRequest ==
  ASSUME TypeInv, RemovedInv, Gentle, DeletionState, Global \in installed => ServedState,
         ListInv, RequestStep, Global \in installed'
  PROVE  ServedState'
<1>1. PICK kind \in {"Install", "Uninstall", "CreateExternal", "DeleteExternal"},
           uid \in Users \cup {Global} : Request(kind, uid)
  BY DEF RequestStep
<1>2. /\ client' = [state |-> "next", todo |-> Parts(kind, uid), kind |-> kind, uid |-> uid]
      /\ client.state = "idle" /\ UNCHANGED <<fs, job, queue, service, past>>
  BY <1>1 DEF Request
<1>3. ~Doing("skel") /\ ~CopyDue /\ ~CopyAwaited /\ job["installer"] = NoJob
  BY <1>2 DEF Doing, CopyDue, CopyAwaited, TypeInv, InstallerOK
<1>4. CASE kind = "Install"
  <2>1. Global \notin installed
    BY <1>1, <1>4 DEF Request
  <2>2. RemovedState
    BY <2>1 DEF RemovedInv
  <2>3. client'.todo = <<"skel", "skelLabel", "CopyUserDirs", "CreateLegacyDirs">> /\ client'.state = "next"
    BY <1>2, <1>4 DEF Parts
  <2>4. Doing("skel")' /\ CopyDue' /\ CopyComes'
    <3>1. client'.todo # <<>> /\ Head(client'.todo) = "skel"
      BY <2>3
    <3> QED
      BY <2>3, <3>1 DEF Doing, CopyDue, CopyComes
  <2>5. ~DeletionDue /\ ~DeletionAwaited /\ ~Doing("unskel") /\ \A u : ~ByInstaller(u)
    BY <1>2, <1>3 DEF DeletionDue, DeletionAwaited, Doing, ByInstaller, Clears, Deletes, NoJob
  <2>6. fs'.skel = {}
    BY <1>2, <2>2, <2>5 DEF RemovedState
  <2>7. ASSUME Settled'
        PROVE  /\ ~MidCopy("service")'
               /\ \A u \in Plain : fs.dir[u] = {}
    <3>1. Settled
      BY <1>2, <2>7 DEF Settled, Unsettled, DeletionQueued, ServiceMayQuit, ServiceBusy
    <3>2. CASE ServiceMayQuit
      <4>1. job["service"] = NoJob
        BY <3>2 DEF ServiceMayQuit, ServiceBusy
      <4>2. ~MidCopy("service")'
        BY <1>2, <4>1 DEF MidCopy, NoJob
      <4>3. \A u \in Users : ~Stays(u)
        BY <2>2, <2>5, <3>2 DEF RemovedState
      <4> QED
        BY <4>2, <4>3 DEF Stays, Plain, DeletionState
    <3>3. CASE ~Unsettled
      <4>1. ~DeletionQueued /\ \A u : ~Deletes("service", u)
        BY <3>3 DEF Unsettled, Deletes
      <4>2. ~MidCopy("service")'
        BY <1>2, <2>2, <2>5, <4>1 DEF RemovedState, MidCopy
      <4>3. \A u \in Users : ~Stays(u)
        BY <2>2, <2>5, <4>1 DEF RemovedState
      <4> QED
        BY <4>2, <4>3 DEF Stays, Plain, DeletionState
    <3> QED
      BY <3>1, <3>2, <3>3 DEF Settled
  <2>8. ASSUME Settled', NEW e \in Executors, Copying(e)'
        PROVE  job'[e].pc = "check" /\ job'[e].at = 1
    <3>1. e = "service" /\ job'[e] = job[e] /\ Copying(e)
      BY <1>2, <1>3, <2>8 DEF Executors, Copying, NoJob
    <3>2. job[e].pc = "check" /\ job[e].at \in Nat /\ job[e].at >= 1
      <4>1. job[e].pc \notin {"make", "own", "label"}
        BY <2>7, <2>8, <3>1 DEF MidCopy, Copying
      <4>2. JobShape(job[e]) /\ job[e].at \in Paths
        BY <3>1 DEF TypeInv, JobsOK, JobTypes
      <4>3. job[e].pc \in {"check", "true", "false"}
        BY <3>1, <4>1, <4>2 DEF JobShape, Copying
      <4> QED
        BY <3>1, <4>2, <4>3, PathsExist DEF ListInv, JobsEnd, Returned, Copying, Paths
    <3> QED
      BY <2>7, <2>8, <3>1, <3>2 DEF MidCopy, Copying
  <2>9. Settled' =>
          /\ \A e \in Executors : Copying(e)' /\ job'[e].pc = "own" => fs'.dir[User(e)'] # {}
          /\ \A u \in Plain' : InOrder(u)' /\ Served(u)'
    BY <1>2, <2>4, <2>7, <2>8, ServedFresh DEF AtStart, Plain
  <2>10. Settled' => ~MidCopy("service")'
    BY <2>7
  <2> QED
    BY <2>4, <2>6, <2>9, <2>10 DEF ServedState
<1>5. CASE kind # "Install"
  <2>1. ServedState
    BY <1>1, <1>5 DEF Request
  <2>2. ~Doing("skel")'
    <3>1. client'.todo = Parts(kind, uid) /\ (client'.todo # <<>> => Head(client'.todo) # "skel")
      BY <1>2, <1>5 DEF Parts
    <3> QED
      BY <3>1 DEF Doing
  <2>3. fs'.skel = Paths
    BY <1>2, <1>3, <2>1 DEF ServedState
  <2> QED
    BY <1>2, <1>3, <2>1, <2>2, <2>3, ServedElsewhere
<1> QED
  BY <1>4, <1>5

\* The installer makes a call; the one for a copy comes to the end of the queue.
LEMMA ServedSend ==
  ASSUME TypeInv, ListInv, ServedState, Global \in installed, Send
  PROVE  ServedState'
<1>t. ClientOK /\ QueueOK
  BY DEF TypeInv
<1>1. PICK op \in Ops : Doing(op) /\ queue' = Append(queue, [op |-> op, uid |-> client.uid])
  BY DEF Send
<1>2. client.state = "next" /\ client.todo # <<>> /\ Head(client.todo) = op
  BY <1>1 DEF Doing
<1>3. client' = [client EXCEPT !.state = "waiting"] /\ UNCHANGED <<fs, installed, job, service, past>>
  BY DEF Send
<1>4. client'.state = "waiting" /\ client'.todo = client.todo
  BY <1>t, <1>3 DEF ClientOK
<1>5. op # "DeleteUserDirs"
  BY <1>2 DEF ListInv, ListFits
<1>6. /\ Len(queue') = Len(queue) + 1 /\ Len(queue) \in Nat
      /\ \A i \in 1..Len(queue) : queue'[i] = queue[i]
      /\ queue'[Len(queue) + 1].op = op
  <2>1. [op |-> op, uid |-> client.uid] \in [op : Ops, uid : Everybody]
    BY <1>t DEF ClientOK
  <2> QED
    BY <1>t, <1>1, <2>1, QueueMoves
<1>7. /\ ServiceMayQuit' <=> ServiceMayQuit
      /\ MidCopy("service")' <=> MidCopy("service")
      /\ Plain' = Plain
  BY <1>3 DEF ServiceMayQuit, ServiceBusy, MidCopy, Plain
<1>8. /\ DeletionQueued' => DeletionQueued
      /\ CopyQueued => CopyQueued'
      /\ LastCopyQueued => LastCopyQueued'
  BY <1>5, <1>6 DEF DeletionQueued, CopyQueued, LastCopyQueued
<1>9. Unsettled' => Unsettled
  BY <1>3, <1>8 DEF Unsettled
<1>10. DeletionQueued => DeletionQueued'
  BY <1>6 DEF DeletionQueued
<1>11. Settled' => Settled
  BY <1>3, <1>7, <1>10 DEF Settled, Unsettled
<1>12. op = "CopyUserDirs" => CopyQueued' /\ LastCopyQueued' /\ CopyAwaited'
  <2>1. Len(queue) + 1 \in 1..Len(queue') /\ \A k \in 1..Len(queue') : ~(k > Len(queue) + 1)
    BY <1>6
  <2> QED
    BY <1>2, <1>4, <1>6, <2>1 DEF CopyQueued, LastCopyQueued, CopyAwaited
<1>13. /\ ~Doing("skel") /\ ~Doing("skel")' /\ ~CopyAwaited
       /\ CopyDue => op = "CopyUserDirs"
  BY <1>2, <1>4 DEF Doing, CopyAwaited, CopyDue, Ops
<1>14. CopyComes => CopyComes'
  BY <1>7, <1>8, <1>12, <1>13 DEF CopyComes
<1>15. Unsettled' => LastCopyQueued'
  BY <1>8, <1>9, <1>12, <1>13 DEF ServedState
<1>16. fs'.skel = Paths
  BY <1>3, <1>13 DEF ServedState
<1> QED
  BY <1>3, <1>7, <1>11, <1>13, <1>14, <1>15, <1>16, ServedFrame

\* The service takes a call: a copy starts, or a deletion for which a copy is due.
LEMMA ServedTake ==
  ASSUME TypeInv, ServedState, TakeCall, ~Fault("sender")
  PROVE  ServedState'
<1> DEFINE c == Head(queue)
<1>t. QueueOK /\ job \in [Executors -> JobTypes]
  BY DEF TypeInv, JobsOK
<1>e. "installer" \in Executors /\ "service" \in Executors /\ "installer" # "service"
  BY DEF Executors
<1>1. /\ queue # <<>> /\ queue' = Tail(queue) /\ job["service"] = NoJob
      /\ job' = [job EXCEPT !["service"] = NewJob(c.op, c.uid)]
      /\ UNCHANGED <<fs, installed, client, service, past>>
  BY DEF TakeCall, ServiceBusy
<1>2. /\ Len(queue') = Len(queue) - 1 /\ Len(queue) \in Nat /\ Len(queue) >= 1
      /\ \A i \in 1..Len(queue') : queue'[i] = queue[i + 1]
      /\ c = queue[1]
  BY <1>t, <1>1, QueueMoves
<1>c. c.op \in Ops
  <2>1. queue[1] \in [op : Ops, uid : Everybody]
    BY <1>t, <1>2, QueueMoves
  <2> QED
    BY <1>2, <2>1
<1>3. /\ job'["service"] = NewJob(c.op, c.uid) /\ job'["service"].op = c.op
      /\ job'["installer"] = job["installer"]
  BY <1>t, <1>e, <1>1 DEF NewJob
<1>4. ServiceBusy' /\ ~ServiceMayQuit'
  BY <1>c, <1>3 DEF ServiceBusy, ServiceMayQuit, NoJob, Ops
<1>5. c.op = "CopyUserDirs" => Started("service")'
  BY <1>3 DEF NewJob, Started, AtStart
<1>6. ~Copying("service") /\ (~Copying("service")' \/ Started("service")')
  BY <1>1, <1>3, <1>5 DEF Copying, NoJob
<1>7. ~MidCopy("service")'
  BY <1>3 DEF MidCopy, NewJob
<1> HIDE DEF c
<1>8. /\ CopyDue' <=> CopyDue
      /\ Doing("skel")' <=> Doing("skel")
      /\ Plain' = Plain
  BY <1>1 DEF CopyDue, Doing, Plain
<1>m. \A i \in 1..Len(queue) : i # 1 => i - 1 \in 1..Len(queue') /\ queue'[i - 1] = queue[i]
  BY <1>2
<1>9. CopyQueued => CopyQueued' \/ c.op = "CopyUserDirs"
  BY <1>2, <1>m DEF CopyQueued
<1>10. CopyComes => CopyComes' \/ \E e \in Executors : Started(e)'
  BY <1>e, <1>4, <1>5, <1>8, <1>9 DEF CopyComes
<1>11. DeletionQueued' => DeletionQueued
  <2>1. \A i \in 1..Len(queue') : i + 1 \in 1..Len(queue) /\ queue'[i] = queue[i + 1]
    BY <1>2
  <2> QED
    BY <2>1 DEF DeletionQueued
<1>12. c.op = "DeleteUserDirs" => DeletionQueued
  <2>1. 1 \in 1..Len(queue)
    BY <1>2
  <2> QED
    BY <1>2, <2>1 DEF DeletionQueued
<1>13. Unsettled' => DeletionQueued
  BY <1>3, <1>11, <1>12 DEF Unsettled
\* The last copy that is queued comes after all deletions: it is not what is taken.
<1>14. LastCopyQueued /\ Unsettled' => LastCopyQueued'
  <2> SUFFICES ASSUME LastCopyQueued, Unsettled'
               PROVE  LastCopyQueued'
    OBVIOUS
  <2>1. PICK i \in 1..Len(queue) :
          /\ queue[i].op = "CopyUserDirs"
          /\ \A k \in 1..Len(queue) : k > i => queue[k].op # "DeleteUserDirs"
    BY DEF LastCopyQueued
  <2>2. i # 1
    <3> SUFFICES ASSUME i = 1
                 PROVE  FALSE
      OBVIOUS
    <3>1. \A k \in 1..Len(queue') : queue'[k].op # "DeleteUserDirs"
      BY <1>2, <2>1
    <3>2. c.op = "CopyUserDirs"
      BY <1>2, <2>1
    <3> QED
      BY <1>3, <3>1, <3>2 DEF Unsettled, DeletionQueued
  <2>3. i - 1 \in 1..Len(queue') /\ queue'[i - 1].op = "CopyUserDirs"
    BY <1>m, <2>1, <2>2
  <2>4. \A k \in 1..Len(queue') : k > i - 1 => queue'[k].op # "DeleteUserDirs"
    BY <1>2, <2>1
  <2> QED
    BY <2>3, <2>4 DEF LastCopyQueued
<1>15. Unsettled' => CopyDue' \/ LastCopyQueued'
  BY <1>8, <1>13, <1>14 DEF ServedState, Unsettled
<1>16. Settled' => Settled
  <2>1. DeletionQueued => DeletionQueued' \/ c.op = "DeleteUserDirs"
    BY <1>2, <1>m DEF DeletionQueued
  <2> QED
    BY <1>1, <1>3, <1>4, <2>1 DEF Settled, Unsettled, NoJob
<1> QED
  BY <1>1, <1>3, <1>6, <1>7, <1>8, <1>10, <1>15, <1>16, ServedFrame DEF Executors, ServedState

\* The service answers a call, and perhaps the installer goes on or runs the
\* operation itself.  After a deletion nobody has a directory, and a copy comes.
LEMMA ServedReply ==
  ASSUME TypeInv, ListInv, ServedState, DeletionState, Reply
  PROVE  ServedState'
<1>t. /\ JobsOK /\ ClientOK /\ InstallerOK /\ job \in [Executors -> JobTypes]
      /\ JobShape(job["installer"]) /\ JobShape(job["service"])
  BY DEF TypeInv, JobsOK, Executors
<1>e. "installer" \in Executors /\ "service" \in Executors /\ "installer" # "service"
  BY DEF Executors
<1>1. /\ UNCHANGED <<fs, installed, queue, past>> /\ Returned("service") /\ Answer
      /\ service'.timer = "armed" /\ ServiceBusy
  BY DEF Reply, TypeInv, ServiceOK
<1>2. job'["service"] = NoJob
  BY <1>t, <1>1, AnswerTyped
<1>3. ~ServiceMayQuit' /\ ~MidCopy("service")' /\ ~Copying("service")'
  BY <1>1, <1>2 DEF ServiceMayQuit, MidCopy, Copying, NoJob
<1>4. job["service"].todo = <<>> /\ ~Copying("service") /\ \A u : ~Deletes("service", u)
  BY <1>e, <1>1, ListMembers DEF Deletes, ListInv, JobsEnd, Copying
<1>5. /\ Plain' = Plain
      /\ DeletionQueued' <=> DeletionQueued
      /\ CopyQueued' <=> CopyQueued
      /\ LastCopyQueued' <=> LastCopyQueued
  BY <1>1 DEF Plain, DeletionQueued, CopyQueued, LastCopyQueued
<1>6. Unsettled' <=> DeletionQueued
  BY <1>2, <1>5 DEF Unsettled, NoJob
<1>7. /\ Doing("skel")' <=> Doing("skel")
      /\ CopyDue => CopyDue'
      /\ \/ job'["installer"] = job["installer"]
         \/ ~Copying("installer") /\ (~Copying("installer")' \/ Started("installer")')
  <2>1. CASE job' = HandledJobs /\ UNCHANGED client
    <3>1. job'["installer"] = job["installer"]
      BY <1>t, <1>e, <2>1 DEF HandledJobs
    <3> QED
      BY <2>1, <3>1 DEF Doing, CopyDue
  <2>2. CASE Awaited /\ (NoTrue(HandledJobs) \/ (job' = HandledJobs /\ NextPart))
    <3>1. /\ client.state = "waiting" /\ client.todo # <<>> /\ client.state # "idle"
          /\ ~Doing("skel") /\ ~CopyDue
      BY <1>t, <2>2 DEF Awaited, ClientOK, Doing, CopyDue
    <3>2. NextPart => ~Doing("skel")'
      BY <1>t, <3>1, SkelFirst DEF ListInv
    <3>3. HandledJobs \in [Executors -> JobTypes] /\ HandledJobs["installer"] = job["installer"]
      BY <1>t, <1>e, NewJobTyped DEF HandledJobs
    <3>4. NoTrue(HandledJobs) =>
            /\ ~Doing("skel")' \/ NextPart
            /\ ~Copying("installer") /\ (~Copying("installer")' \/ Started("installer")')
      BY <3>1, <3>3, WaitingCopies DEF Copying
    <3> QED
      BY <2>2, <3>1, <3>2, <3>3, <3>4
  <2> QED
    BY <1>1, <2>1, <2>2 DEF Answer
<1>8. CopyComes => CopyComes'
  BY <1>3, <1>5, <1>7 DEF CopyComes
<1>9. Unsettled => CopyDue' \/ LastCopyQueued'
  BY <1>5, <1>7 DEF ServedState
<1>10. fs'.skel = IF Doing("skel")' THEN {} ELSE Paths
  BY <1>1, <1>7 DEF ServedState
<1>11. CASE job["service"].op # "DeleteUserDirs"
  <2>1. (Unsettled' => Unsettled) /\ (Settled' => Settled)
    BY <1>3, <1>6, <1>11 DEF Unsettled, Settled
  <2>2. \A e \in Executors : job'[e] = job[e] \/ (~Copying(e) /\ (~Copying(e)' \/ Started(e)'))
    BY <1>3, <1>4, <1>7 DEF Executors
  <2> QED
    BY <1>1, <1>3, <1>5, <1>7, <1>8, <1>9, <1>10, <2>1, <2>2, ServedFrame
<1>12. CASE job["service"].op = "DeleteUserDirs"
  <2>1. Unsettled
    BY <1>12 DEF Unsettled
  <2>2. \A u \in Plain' : fs'.dir[u] = {}
    BY <1>1, <1>4, <1>5, <1>12 DEF DeletionState
  <2>3. CopyComes'
    BY <1>3, <1>9, <2>1 DEF CopyComes, LastCopyQueued, CopyQueued
  <2>4. \A e \in Executors : Copying(e)' => AtStart(e)'
    <3>1. Copying("installer")' => AtStart("installer")'
      <4>1. Copying("installer") => AtStart("installer")
        BY <1>1, <1>12 DEF DeletionState, Copying, Returned
      <4> QED
        BY <1>7, <4>1 DEF Copying, Started, AtStart
    <3> QED
      BY <1>3, <3>1 DEF Executors
  <2>5. /\ \A e \in Executors : Copying(e)' /\ job'[e].pc = "own" => fs'.dir[User(e)'] # {}
        /\ \A u \in Plain' : InOrder(u)' /\ Served(u)'
    BY <2>2, <2>3, <2>4, ServedFresh
  <2> QED
    BY <1>3, <1>9, <1>10, <2>1, <2>5 DEF ServedState
<1> QED
  BY <1>11, <1>12

LEMMA ServedStateStep ==
  ASSUME TypeInv, ListInv, ServedState, DeletionState, Global \in installed,
         Next, ~RequestStep, ~past'.overlap, ~RequestFails,
         \A kind : Fault(kind) => kind \in {"lostCall", "external"}
  PROVE  ServedState'
<1>t. /\ JobsOK /\ ClientOK /\ InstallerOK /\ QueueOK /\ HistoryOK /\ fs \in DiskType
      /\ job \in [Executors -> JobTypes]
  BY DEF TypeInv, DiskOK, JobsOK
<1>e. "installer" \in Executors /\ "service" \in Executors /\ "installer" # "service"
  BY DEF Executors
<1>l. ListFits /\ DirectFits /\ JobsEnd
  BY DEF ListInv
<1>1. CASE SkelMake \/ SkelLabel \/ RemoveFiles
  <2>1. /\ client.state = "next" /\ client.todo # <<>> /\ Head(client.todo) \in {"skel", "skelLabel", "files"}
        /\ NextPart /\ UNCHANGED <<job, queue, service, past>>
    BY <1>1 DEF SkelMake, SkelLabel, RemoveFiles, Doing, Local
  <2>2. /\ ~Doing("skel")'
        /\ Head(client.todo) = "skel" => Doing("skelLabel")'
        /\ Head(client.todo) = "skelLabel" => Doing("CopyUserDirs")'
    BY <1>t, <1>l, <2>1, SkelFirst
  <2>3. fs'.dir = fs.dir /\ fs'.own = fs.own /\ fs'.label = fs.label /\ fs'.skel = Paths
    <3>1. CASE SkelMake
      <4>1. fs' = [fs EXCEPT !.skel = Paths]
        BY <3>1 DEF SkelMake
      <4> QED
        BY <1>t, <4>1 DEF DiskType
    <3>2. CASE SkelLabel
      <4>1. fs' = [fs EXCEPT !.skelLabel = TRUE] /\ ~Doing("skel")
        BY <3>2 DEF SkelLabel, Doing
      <4> QED
        BY <1>t, <4>1 DEF DiskType, ServedState
    <3>3. CASE RemoveFiles
      BY <3>3 DEF RemoveFiles, Has, Doing, ServedState
    <3> QED
      BY <1>1, <3>1, <3>2, <3>3
  <2>4. (CopyDue => CopyDue') /\ ~CopyAwaited
    BY <2>1, <2>2 DEF CopyDue, CopyAwaited, Doing
  <2> QED
    BY <2>1, <2>2, <2>3, <2>4, ServedElsewhere
<1>2. ~SkelDelete
  BY <1>l DEF SkelDelete, Doing, ListFits
<1>3. CASE Send
  BY <1>3, ServedSend
<1>4. CASE DirectReturns
  <2>1. /\ client.state = "direct" /\ Returned("installer") /\ NextPart /\ client.todo # <<>>
        /\ job' = [job EXCEPT !["installer"] = NoJob] /\ UNCHANGED <<fs, installed, queue, service, past>>
    BY <1>4, <1>t DEF DirectReturns, Local, ClientOK
  <2>2. job'["installer"] = NoJob /\ job'["service"] = job["service"]
    BY <1>t, <1>e, <2>1
  <2>3. ~Copying("installer") /\ ~Copying("installer")'
    BY <1>l, <1>e, <2>1, <2>2 DEF JobsEnd, Copying, NoJob
  <2>4. ~Doing("skel")'
    BY <1>t, <1>l, <2>1, SkelFirst
  <2>5. ~CopyDue /\ ~CopyAwaited /\ ~Doing("skel")
    BY <2>1 DEF CopyDue, CopyAwaited, Doing
  <2>6. /\ Unsettled' <=> Unsettled
        /\ Settled' <=> Settled
        /\ LastCopyQueued' <=> LastCopyQueued
        /\ CopyQueued' <=> CopyQueued
        /\ ServiceMayQuit' <=> ServiceMayQuit
        /\ MidCopy("service")' <=> MidCopy("service")
        /\ Plain' = Plain
    BY <2>1, <2>2
    DEF Unsettled, Settled, DeletionQueued, LastCopyQueued, CopyQueued, ServiceMayQuit,
        ServiceBusy, MidCopy, Plain
  <2>7. CopyComes => CopyComes'
    BY <2>5, <2>6 DEF CopyComes
  <2>8. fs'.skel = Paths
    BY <2>1, <2>5 DEF ServedState
  <2>9. Unsettled' => LastCopyQueued'
    BY <2>5, <2>6 DEF ServedState
  <2>10. \A e \in Executors : job'[e] = job[e] \/ (~Copying(e) /\ ~Copying(e)')
    BY <2>2, <2>3 DEF Executors
  <2> QED
    BY <2>1, <2>4, <2>6, <2>7, <2>8, <2>9, <2>10, ServedFrame
<1>5. CASE RequestEnds
  <2>1. /\ client.state = "next" /\ client.todo = <<>> /\ UNCHANGED <<fs, installed, job, queue, service, past>>
        /\ client'.state = "idle"
    BY <1>5 DEF RequestEnds, IdleClient
  <2>2. ~Doing("skel") /\ ~Doing("skel")' /\ ~CopyDue /\ ~CopyAwaited
    BY <2>1 DEF Doing, CopyDue, CopyAwaited
  <2>3. fs'.skel = Paths
    BY <2>1, <2>2 DEF ServedState
  <2> QED
    BY <2>1, <2>2, <2>3, ServedElsewhere
<1>6. ASSUME NEW e \in Executors, Operation(e)
      PROVE  ServedState'
  <2>1. ~Overlap
    BY <1>t, <1>6 DEF Operation, HistoryOK
  <2> QED
    BY <1>6, <2>1, ServedOperation
<1>7. CASE ServiceStarts \/ TimerElapses
  <2>1. UNCHANGED <<fs, installed, job, queue, client, past>>
    BY <1>7 DEF ServiceStarts, TimerElapses
  <2>2. /\ Unsettled' <=> Unsettled
        /\ LastCopyQueued' <=> LastCopyQueued
        /\ CopyQueued' <=> CopyQueued
        /\ CopyDue' <=> CopyDue
        /\ CopyAwaited' <=> CopyAwaited
        /\ Doing("skel")' <=> Doing("skel")
        /\ MidCopy("service")' <=> MidCopy("service")
        /\ Plain' = Plain
    BY <2>1
    DEF Unsettled, DeletionQueued, LastCopyQueued, CopyQueued, CopyDue, CopyAwaited, Doing, MidCopy, Plain
  <2>3. ServiceMayQuit' => ~CopyQueued /\ ~Unsettled
    <3>1. ServiceStarts => ~ServiceMayQuit'
      BY DEF ServiceStarts, ServiceMayQuit
    <3>2. TimerElapses /\ ServiceMayQuit' => queue = <<>> /\ job["service"] = NoJob
      BY DEF TimerElapses, ServiceMayQuit, ServiceBusy
    <3>3. queue = <<>> => ~DeletionQueued /\ ~CopyQueued
      BY DEF DeletionQueued, CopyQueued
    <3>4. NoJob.op = "none"
      BY DEF NoJob
    <3> QED
      BY <1>7, <3>1, <3>2, <3>3, <3>4 DEF Unsettled
  <2>4. CopyComes => CopyComes'
    BY <2>2, <2>3 DEF CopyComes
  <2>5. Settled' => Settled
    BY <2>2, <2>3 DEF Settled
  <2>6. fs'.skel = IF Doing("skel")' THEN {} ELSE Paths
    BY <2>1, <2>2 DEF ServedState
  <2>7. Unsettled' => CopyDue' \/ LastCopyQueued'
    BY <2>2 DEF ServedState
  <2> QED
    BY <2>1, <2>2, <2>4, <2>5, <2>6, <2>7, ServedFrame
<1>8. CASE TakeCall
  <2>1. ~Fault("sender")
    OBVIOUS
  <2> QED
    BY <1>8, <2>1, ServedTake
<1>9. CASE Reply
  BY <1>9, ServedReply
<1>10. CASE TimesOut
  <2>1. client.state = "waiting" /\ NoTrue(job) /\ UNCHANGED <<fs, installed, queue, service, past>>
    BY <1>10 DEF TimesOut
  <2>2. /\ job'["service"] = job["service"]
        /\ ~Copying("installer") /\ (~Copying("installer")' \/ Started("installer")')
        /\ CopyAwaited => Started("installer")'
        /\ ~Doing("skel")' \/ NextPart
    BY <1>t, <2>1, WaitingCopies DEF Copying
  <2>3. ~Doing("skel") /\ ~CopyDue /\ ~Doing("skel")'
    <3>1. client.todo # <<>>
      BY <1>t, <2>1 DEF ClientOK
    <3>2. NextPart => ~Doing("skel")'
      BY <1>t, <1>l, <2>1, <3>1, SkelFirst
    <3> QED
      BY <2>1, <2>2, <3>2 DEF Doing, CopyDue
  <2>4. /\ Unsettled' <=> Unsettled
        /\ Settled' <=> Settled
        /\ LastCopyQueued' <=> LastCopyQueued
        /\ CopyQueued' <=> CopyQueued
        /\ ServiceMayQuit' <=> ServiceMayQuit
        /\ MidCopy("service")' <=> MidCopy("service")
        /\ Plain' = Plain
    BY <2>1, <2>2
    DEF Unsettled, Settled, DeletionQueued, LastCopyQueued, CopyQueued, ServiceMayQuit,
        ServiceBusy, MidCopy, Plain
  <2>5. CopyComes => CopyComes' \/ \E e \in Executors : Started(e)'
    BY <1>e, <2>2, <2>3, <2>4 DEF CopyComes
  <2>6. fs'.skel = Paths
    BY <2>1, <2>3 DEF ServedState
  <2>7. Unsettled' => LastCopyQueued'
    BY <2>3, <2>4 DEF ServedState
  <2>8. \A e \in Executors : job'[e] = job[e] \/ (~Copying(e) /\ (~Copying(e)' \/ Started(e)'))
    BY <2>2 DEF Executors
  <2> QED
    BY <2>1, <2>3, <2>4, <2>5, <2>6, <2>7, <2>8, ServedFrame
<1>11. CASE ServiceQuits
  <2>1. ServiceMayQuit /\ Stops(job) /\ job["service"] = NoJob
    BY <1>11 DEF ServiceQuits, ServiceMayQuit, ServiceBusy
  <2>2. UNCHANGED <<fs, installed, past>> /\ service' = Down /\ queue' = <<>>
    BY <2>1 DEF Stops
  <2>3. /\ job'["service"] = NoJob
        /\ \/ client' = client /\ job' = job /\ client.state # "waiting"
           \/ /\ client.state = "waiting" /\ NoTrue(job)
              /\ ~Copying("installer") /\ (~Copying("installer")' \/ Started("installer")')
              /\ CopyAwaited => Started("installer")'
              /\ ~Doing("skel")' \/ NextPart
    <3>1. CASE client.state = "waiting"
      <4>1. NoTrue(job)
        BY <2>1, <3>1 DEF Stops
      <4> QED
        BY <1>t, <2>1, <3>1, <4>1, WaitingCopies DEF Copying
    <3>2. CASE client.state # "waiting"
      BY <2>1, <3>2 DEF Stops
    <3> QED
      BY <3>1, <3>2
  <2>4. (Doing("skel")' <=> Doing("skel")) /\ (CopyDue => CopyDue')
    <3>1. CASE client' = client
      BY <3>1 DEF Doing, CopyDue
    <3>2. CASE client.state = "waiting" /\ (~Doing("skel")' \/ NextPart)
      <4>1. client.todo # <<>>
        BY <1>t, <3>2 DEF ClientOK
      <4>2. NextPart => ~Doing("skel")'
        BY <1>t, <1>l, <3>2, <4>1, SkelFirst
      <4> QED
        BY <3>2, <4>2 DEF Doing, CopyDue
    <3> QED
      BY <2>3, <3>1, <3>2
  <2>5. ~MidCopy("service")' /\ ~Unsettled' /\ Settled
    BY <2>1, <2>2, <2>3 DEF MidCopy, Unsettled, DeletionQueued, Settled, NoJob
  <2>6. CopyComes => CopyComes' \/ \E e \in Executors : Started(e)'
    <3>1. CopyComes => CopyDue \/ CopyAwaited
      BY <2>1 DEF CopyComes
    <3>2. CopyAwaited => Started("installer")'
      BY <2>3 DEF CopyAwaited
    <3> QED
      BY <1>e, <2>4, <3>1, <3>2 DEF CopyComes
  <2>7. fs'.skel = IF Doing("skel")' THEN {} ELSE Paths
    BY <2>2, <2>4 DEF ServedState
  <2>8. \A e \in Executors : job'[e] = job[e] \/ (~Copying(e) /\ (~Copying(e)' \/ Started(e)'))
    BY <2>1, <2>3 DEF Executors
  <2>9. Plain' = Plain
    BY <2>2 DEF Plain
  <2> QED
    BY <2>2, <2>4, <2>5, <2>6, <2>7, <2>8, <2>9, ServedFrame
<1>12. ~SendFails /\ ~InstallerDies /\ ~ServiceDies
  BY DEF SendFails, InstallerDies, ServiceDies
<1> QED
  BY <1>e, <1>1, <1>2, <1>3, <1>4, <1>5, <1>6, <1>7, <1>8, <1>9, <1>10, <1>11, <1>12
  DEF Next, InstallerStep, ServiceStep

LEMMA ServedInvStep == TypeInv /\ ListInv /\ RemovedInv /\ ServedInv /\ [Next]_vars => ServedInv'
<1> SUFFICES ASSUME TypeInv, ListInv, RemovedInv, ServedInv, [Next]_vars, Gentle', ~past'.overlap
             PROVE  (DeletionState /\ (Global \in installed => ServedState))'
  BY DEF ServedInv
<1>t. /\ HistoryOK /\ JobsOK /\ DiskOK /\ BudgetOK
  BY DEF TypeInv
<1>e. "installer" \in Executors /\ "service" \in Executors
  BY DEF Executors
<1>1. CASE UNCHANGED vars
  <2>1. DeletionState /\ (Global \in installed => ServedState)
    BY <1>1 DEF vars, Gentle, ServedInv
  <2>2. DeletionState'
    BY <1>1, <2>1, DeletionFrame DEF vars
  <2>3. ServedState => ServedState'
    <3>1. /\ Doing("skel")' <=> Doing("skel")
          /\ CopyDue' <=> CopyDue
          /\ CopyAwaited' <=> CopyAwaited
          /\ CopyQueued' <=> CopyQueued
          /\ LastCopyQueued' <=> LastCopyQueued
          /\ Unsettled' <=> Unsettled
          /\ ServiceMayQuit' <=> ServiceMayQuit
          /\ MidCopy("service")' <=> MidCopy("service")
          /\ Plain' = Plain
      BY <1>1
      DEF vars, Doing, CopyDue, CopyAwaited, CopyQueued, LastCopyQueued, Unsettled, DeletionQueued,
          ServiceMayQuit, ServiceBusy, MidCopy, Plain
    <3>2. (CopyComes => CopyComes') /\ (Settled' => Settled)
      BY <3>1 DEF CopyComes, Settled
    <3>3. ServedState => (Unsettled' => CopyDue' \/ LastCopyQueued') /\ fs'.skel = IF Doing("skel")' THEN {} ELSE Paths
      BY <1>1, <3>1 DEF ServedState, vars
    <3> QED
      BY <1>1, <3>1, <3>2, <3>3, ServedFrame DEF vars
  <2> QED
    BY <1>1, <2>1, <2>2, <2>3 DEF vars
<1>2. ASSUME Next
      PROVE  (DeletionState /\ (Global \in installed => ServedState))'
  <2>f. Gentle /\ \A kind : Fault(kind) => kind \in {"lostCall", "external"}
    BY <1>2, GentleBefore
  <2>r. ~RequestFails
    BY <1>t DEF RequestFails, HistoryOK, Gentle
  <2>o. ~past.overlap
    <3>1. \A e \in Executors : Operation(e) => (past.overlap => past'.overlap)
      BY <1>t DEF Operation, HistoryOK
    <3>2. past' = past \/ \E e \in Executors : Operation(e)
      BY <1>2, <1>e, <2>r, <2>f
      DEF Next, RequestStep, Request, InstallerStep, ServiceStep, SkelMake, SkelLabel, SkelDelete,
          RemoveFiles, Send, DirectReturns, RequestEnds, ServiceStarts, TakeCall, Reply, SendFails,
          TimesOut, InstallerDies, TimerElapses, ServiceQuits, ServiceDies, Stops
    <3> QED
      BY <3>1, <3>2
  <2>s. DeletionState /\ (Global \in installed => ServedState)
    BY <2>f, <2>o DEF ServedInv
  <2>1. DeletionState'
    BY <1>2, <2>f, <2>r, <2>s, DeletionStateStep
  <2>2. ASSUME Global \in installed'
        PROVE  ServedState'
    <3>1. CASE RequestStep
      BY <2>f, <2>s, <2>2, <3>1, ServedRequest
    <3>2. CASE ~RequestStep
      <4>1. installed' = installed
        BY <1>2, <2>f, <2>r, <3>2, DatabaseStays
      <4> QED
        BY <1>2, <2>f, <2>r, <2>s, <2>2, <3>2, <4>1, ServedStateStep
    <3> QED
      BY <3>1, <3>2
  <2> QED
    BY <2>1, <2>2
<1> QED
  BY <1>1, <1>2

\* In the end every user has the directories of a package that is installed for
\* everybody, owned and labelled, although two copies may have made them at the same
\* time and calls may have got lost when the service quit: CopyDir() passes over a
\* user only when a directory is there that it has not made, and whoever makes a
\* directory first goes on to the next; a call that timed out is made up for by the
\* installer.  Only a deletion that overlaps with the copy may undo it.
THEOREM EveryUserIsServedHolds == Spec => []EveryUserIsServed
<1>1. TypeInv /\ ListInv /\ [Next]_vars => ListInv'
  BY ListInvStep
<1>2. TypeInv /\ ListInv /\ RemovedInv /\ [Next]_vars => RemovedInv'
  BY RemovedInvStep
<1>3. TypeInv /\ ListInv /\ RemovedInv /\ ServedInv /\ [Next]_vars => ServedInv'
  BY ServedInvStep
<1>4. TypeInv /\ ServedInv => EveryUserIsServed
  <2> SUFFICES ASSUME TypeInv, ServedInv, Quiet, Gentle, ~past.overlap, Global \in installed,
                      NEW u \in Plain
               PROVE  Ready(u)
    BY DEF EveryUserIsServed, Gentle, Plain
  <2>1. client.state = "idle" /\ queue = <<>> /\ \A e \in Executors : job[e] = NoJob
    BY DEF Quiet, ServiceBusy, TypeInv, InstallerOK, Executors
  <2>2. ~CopyComes /\ ~Unsettled
    BY <2>1 DEF CopyComes, CopyDue, Doing, CopyQueued, Unsettled, DeletionQueued, NoJob, Executors
  <2>3. \A e \in Executors : ~Ahead(e, u) /\ ~Coming(e, u)
    BY <2>1 DEF Ahead, Coming, Copies, Copying, NoJob
  <2>4. Served(u)
    BY <2>2 DEF ServedInv, ServedState, Settled
  <2> QED
    BY <2>2, <2>3, <2>4 DEF Served
<1> QED
  BY <1>1, <1>2, <1>3, <1>4, ListInvInit, RemovedInvInit, ServedInvInit, PkgdirTypeInvariant, PTL DEF Spec
===============================================================================
