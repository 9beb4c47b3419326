------------------------------ MODULE PkgdirTool ------------------------------
(***************************************************************************)
(* The user directory service (pkgdir_tool.cc), its client in the          *)
(* installer (pkgdir_tool_request.cc), and the steps that call it.  D-Bus  *)
(* starts the service for a call and queues the calls; the service handles *)
(* them one by one and quits five seconds after the last one.  The client  *)
(* waits for an answer for a limited time; without the answer "true" it    *)
(* runs the operation itself, whatever has become of its call.             *)
(***************************************************************************)
EXTENDS SharedDirs

CONSTANT MaxRequests   \* how many requests of the package manager are handled

VARIABLES
  queue,     \* calls that the service has not taken yet
  service,   \* is it up, and its timer
  client,    \* the installer: state, what it still has to do, request and uid
  made,      \* requests made so far
  past       \* history: what the properties make exceptions for

vars == <<fs, installed, job, faults, budget, queue, service, client, made, past>>

ASSUME PkgdirToolAssumption == MaxRequests \in Nat

IdleClient == [state |-> "idle", todo |-> <<>>, kind |-> "none", uid |-> Global]
ServiceBusy == job["service"] # NoJob

Init ==
  /\ past \in [private : SUBSET Users, failed : {FALSE}, overlap : {FALSE}]
  /\ \E global, card \in BOOLEAN :
       /\ installed = past.private \cup (IF global THEN {Global} ELSE {})
       /\ fs = InitialDisk(past.private, global, card)
  /\ job = [e \in Executors |-> NoJob]
  /\ faults = {} /\ budget = FaultBudget
  /\ queue = <<>>
  /\ service = [up |-> FALSE, timer |-> "armed"]
  /\ client = IdleClient
  /\ made = 0

-------------------------------------------------------------------------------
(* The installer *)

\* The steps that touch the directories of users, in the order of the pipelines.
Parts(kind, uid) ==
  CASE kind = "Install"        -> <<"skel", "skelLabel", "CopyUserDirs", "CreateLegacyDirs">>
    [] kind = "Uninstall"      -> IF uid = Global
                                    THEN <<"unskel", "DeleteUserDirs", "DeleteLegacyDirs">>
                                    ELSE <<"files", "DeleteLegacyDirs">>
    [] kind = "CreateExternal" -> <<"CreateExternalDirs">>
    [] kind = "DeleteExternal" -> <<"DeleteExternalDirs">>

\* The row of the package is written before its directories, and removed before.
Request(kind, uid) ==
  /\ client.state = "idle" /\ made < MaxRequests
  /\ client' = [state |-> "next", todo |-> Parts(kind, uid), kind |-> kind, uid |-> uid]
  /\ made' = made + 1
  /\ \/ kind = "Install" /\ uid = Global /\ uid \notin installed /\ installed' = installed \cup {uid}
     \/ kind = "Uninstall" /\ uid \in installed /\ installed' = installed \ {uid}
     \/ kind = "CreateExternal" /\ uid = Global /\ uid \in installed /\ UNCHANGED installed
     \/ kind = "DeleteExternal" /\ uid = Global /\ uid \notin installed /\ UNCHANGED installed
  /\ NoFault /\ UNCHANGED <<fs, job, queue, service, past>>

Doing(p) == client.state = "next" /\ client.todo # <<>> /\ Head(client.todo) = p
NextPart == client' = [client EXCEPT !.state = "next", !.todo = Tail(@)]
Local == UNCHANGED <<queue, service, made>>

\* A step returns an error: the database is rolled back, the directories are not.
RequestFails ==
  /\ client' = IdleClient
  /\ past' = [past EXCEPT !.failed = TRUE]
  /\ installed' = CASE client.kind = "Install"   -> installed \ {Global}
                    [] client.kind = "Uninstall" -> installed \cup {client.uid}
                    [] OTHER                     -> installed

\* CreateSkelDirectories()
SkelMake ==
  /\ Doing("skel") /\ Local /\ UNCHANGED job
  /\ \/ fs' = [fs EXCEPT !.skel = Paths] /\ NextPart /\ NoFault /\ UNCHANGED <<installed, past>>
     \/ /\ Fault("skel") /\ RequestFails
        /\ \E n \in 0..Depth-1 : fs' = [fs EXCEPT !.skel = @ \cup 1..n]

SkelLabel ==
  /\ Doing("skelLabel") /\ Local /\ UNCHANGED job
  /\ \/ fs' = [fs EXCEPT !.skelLabel = TRUE] /\ NextPart /\ NoFault /\ UNCHANGED <<installed, past>>
     \/ Fault("skel") /\ RequestFails /\ UNCHANGED fs

\* DeleteSkelDirectories()
SkelDelete ==
  /\ Doing("unskel") /\ Local /\ UNCHANGED job
  /\ \/ /\ fs' = [fs EXCEPT !.skel = {}, !.skelLabel = FALSE]
        /\ NextPart /\ NoFault /\ UNCHANGED <<installed, past>>
     \/ /\ Fault("skel") /\ RequestFails
        /\ \E kept \in Remains(fs.skel) : fs' = [fs EXCEPT !.skel = kept]

\* StepRemoveFiles of a private package takes the directory of its user along,
\* unless everybody else has the package too.
RemoveFiles ==
  /\ Doing("files") /\ Local /\ NextPart /\ NoFault /\ UNCHANGED <<job, installed, past>>
  /\ LET u == client.uid
     IN fs' = IF Has(Global) THEN fs
              ELSE [fs EXCEPT !.dir[u] = {}, !.own[u] = {}, !.label[u] = {}]

\* The requests for legacy directories do not look at the answer.
IgnoresAnswer(op) == op \in {"CreateLegacyDirs", "DeleteLegacyDirs"}

\* The call brought no "true": the client runs the operation itself.
NoTrue(jobs) ==
  LET op == Head(client.todo)
  IN \/ IgnoresAnswer(op) /\ NextPart /\ job' = jobs
     \/ /\ ~IgnoresAnswer(op)
        /\ client' = [client EXCEPT !.state = "direct"]
        /\ job' = [jobs EXCEPT !["installer"] = NewJob(op, client.uid)]

\* RequestUserDirectoryOperation()
Send ==
  /\ \E op \in Ops :
       Doing(op) /\ queue' = Append(queue, [op |-> op, uid |-> client.uid])
  /\ client' = [client EXCEPT !.state = "waiting"]
  /\ NoFault /\ UNCHANGED <<fs, installed, job, service, made, past>>

SendFails ==
  /\ \E op \in Ops : Doing(op)
  /\ Fault("send") /\ NoTrue(job)
  /\ UNCHANGED <<fs, installed, queue, service, made, past>>

\* g_dbus_proxy_call_sync() waits 25 seconds; the call itself stays where it is.
TimesOut ==
  /\ client.state = "waiting"
  /\ NoTrue(job) /\ NoFault
  /\ UNCHANGED <<fs, installed, queue, service, made, past>>

DirectReturns ==
  /\ client.state = "direct" /\ Returned("installer")
  /\ job' = [job EXCEPT !["installer"] = NoJob]
  /\ IF job["installer"].pc = "true" THEN NextPart /\ UNCHANGED <<installed, past>> ELSE RequestFails
  /\ NoFault /\ Local /\ UNCHANGED fs

RequestEnds ==
  /\ client.state = "next" /\ client.todo = <<>>
  /\ client' = IdleClient
  /\ NoFault /\ UNCHANGED <<fs, installed, job, queue, service, made, past>>

InstallerDies ==
  /\ client.state # "idle"
  /\ Fault("installerDies") /\ RequestFails
  /\ job' = [job EXCEPT !["installer"] = NoJob]
  /\ Local /\ UNCHANGED fs

-------------------------------------------------------------------------------
(* The service *)

Down == [up |-> FALSE, timer |-> "armed"]

\* D-Bus starts the service for the first call; Init() arms the timer.
ServiceStarts ==
  /\ ~service.up /\ queue # <<>>
  /\ service' = [up |-> TRUE, timer |-> "armed"]
  /\ NoFault /\ UNCHANGED <<fs, installed, job, queue, client, made, past>>

TakeCall ==
  /\ service.up /\ ~ServiceBusy /\ queue # <<>>
  /\ queue' = Tail(queue)
  /\ LET c == Head(queue)
     IN \/ job' = [job EXCEPT !["service"] = NewJob(c.op, c.uid)] /\ NoFault
        \/ /\ c.op = "DeleteLegacyDirs" /\ Fault("sender")      \* GetSenderUnixId()
           /\ job' = [job EXCEPT !["service"] = [NewJob(c.op, c.uid) EXCEPT !.pc = "false"]]
  /\ UNCHANGED <<fs, installed, service, client, made, past>>

\* The answer reaches the client if it still waits for this call, the last it made.
Awaited == client.state = "waiting" /\ queue = <<>>

HandledJobs == [job EXCEPT !["service"] = NoJob]
Answer ==
  \/ ~Awaited /\ job' = HandledJobs /\ UNCHANGED client
  \/ Awaited /\ job["service"].pc = "true" /\ job' = HandledJobs /\ NextPart
  \/ Awaited /\ job["service"].pc = "false" /\ NoTrue(HandledJobs)

\* Mutant: the timer is not renewed after a call.
ReplyKeepsTimer ==
  /\ ServiceBusy /\ Returned("service")
  /\ Answer
  /\ NoFault /\ UNCHANGED <<fs, installed, queue, service, made, past>>

\* Mutant: the old timer is removed and no new one added.
ReplyDropsTimer ==
  /\ ServiceBusy /\ Returned("service")
  /\ Answer
  /\ service' = [service EXCEPT !.timer = "none"]
  /\ NoFault /\ UNCHANGED <<fs, installed, queue, made, past>>

\* HandleMethodCall() answers, then renews the timer.
Reply ==
  /\ ServiceBusy /\ Returned("service")
  /\ Answer
  /\ service' = [service EXCEPT !.timer = "armed"]
  /\ NoFault /\ UNCHANGED <<fs, installed, queue, made, past>>

\* Five seconds go by while there is no call, or while one is being handled.
TimerElapses ==
  /\ service.up /\ service.timer = "armed"
  /\ queue = <<>> \/ ServiceBusy
  /\ service' = [service EXCEPT !.timer = "due"]
  /\ NoFault /\ UNCHANGED <<fs, installed, job, queue, client, made, past>>

\* The calls that have arrived meanwhile are lost with the process.
Stops(jobs) ==
  /\ service' = Down /\ queue' = <<>>
  /\ IF client.state = "waiting" THEN NoTrue(jobs) ELSE job' = jobs /\ UNCHANGED client
  /\ UNCHANGED <<fs, installed, made, past>>

\* Mutant: the service quits in the middle of a call.
ServiceQuitsAnyTime ==
  /\ service.up /\ service.timer = "due"
  /\ Stops(job)
  /\ faults' = faults \cup (IF queue = <<>> THEN {} ELSE {"lostCall"})
  /\ UNCHANGED budget

\* g_main_loop_quit() takes effect between two calls.
ServiceQuits ==
  /\ service.up /\ service.timer = "due" /\ ~ServiceBusy
  /\ Stops(job)
  /\ faults' = faults \cup (IF queue = <<>> THEN {} ELSE {"lostCall"})
  /\ UNCHANGED budget

\* The activation fails, or the process is killed.
ServiceDies ==
  /\ service.up \/ queue # <<>>
  /\ Stops(HandledJobs) /\ Fault("serviceDies")

-------------------------------------------------------------------------------
(* The whole system *)

\* A copy and a deletion of the same directories are under way.
Overlap == {job[e].op : e \in Executors} = {"CopyUserDirs", "DeleteUserDirs"}

Operation(e) ==
  /\ OperationStep(e)
  /\ past' = [past EXCEPT !.overlap = @ \/ Overlap]
  /\ UNCHANGED <<queue, service, client, made>>

InstallerStep ==
  \/ SkelMake \/ SkelLabel \/ SkelDelete \/ RemoveFiles
  \/ Send \/ DirectReturns \/ RequestEnds
  \/ Operation("installer")

ServiceStep ==
  \/ ServiceStarts \/ TakeCall \/ Reply
  \/ Operation("service")

RequestStep ==
  \E kind \in {"Install", "Uninstall", "CreateExternal", "DeleteExternal"},
     uid \in Users \cup {Global} : Request(kind, uid)

Next ==
  \/ RequestStep \/ InstallerStep \/ ServiceStep
  \/ SendFails \/ TimesOut \/ InstallerDies
  \/ TimerElapses \/ ServiceQuits \/ ServiceDies

Spec == Init /\ [][Next]_vars

\* The two processes run, the main loop of the service fires its timer.  No
\* request has to come, and no call has to time out.
FairSpec ==
  /\ Spec
  /\ WF_vars(InstallerStep)
  /\ WF_vars(ServiceStep)
  /\ WF_vars(TimerElapses)
  /\ WF_vars(ServiceQuits)

-------------------------------------------------------------------------------
(* Properties *)

TypeOK ==
  /\ fs \in [skel : SUBSET Paths, skelLabel : BOOLEAN,
             dir : [Users -> SUBSET Paths], own : [Users -> SUBSET Paths],
             label : [Users -> SUBSET Paths],
             legacy : SUBSET Paths, legacyLabel : BOOLEAN,
             card : BOOLEAN, ext : [Users -> SUBSET Paths]]
  /\ installed \subseteq Users \cup {Global}
  /\ \A e \in Executors :
       /\ job[e].op \in Ops \cup {"none"} /\ job[e].at \in Paths
       /\ \E i \in 1..Len(UserList)+1 : job[e].todo = SubSeq(UserList, i, Len(UserList))
       /\ job[e].pc \in {"idle", "check", "make", "own", "label", "user", "remove", "true", "false"}
  /\ client.state \in {"idle", "next", "waiting", "direct"}
  /\ client.state = "direct" <=> job["installer"] # NoJob
  /\ \A i \in 1..Len(queue) : queue[i].op \in Ops /\ queue[i].uid \in Users \cup {Global}
  /\ service.up \in BOOLEAN /\ service.timer \in {"armed", "due"}
  /\ ServiceBusy => service.up
  /\ made \in 0..MaxRequests /\ budget \in 0..FaultBudget /\ past.failed \in BOOLEAN /\ past.overlap \in BOOLEAN

\* Nothing is going on, in the installer, in the service or between them.
Quiet == client.state = "idle" /\ queue = <<>> /\ ~ServiceBusy
\* Failures after which the operations still keep their promises.
Harmless == {"lostCall", "external"}
Ready(u) == fs.dir[u] = Paths /\ fs.own[u] = Paths /\ fs.label[u] = Paths

\* Two executors that copy the directories at the same time get in each other's
\* way, and a timed-out call may run after its client has gone on; but in the end
\* every user has all directories of a global package, owned and labelled.  Only
\* a deletion that is still running in the service, long after its caller has
\* given it up, may take away what the next installation copies.
EveryUserIsServed ==
  Quiet /\ faults \subseteq Harmless /\ ~past.failed /\ ~past.overlap /\ Global \in installed =>
    \A u \in Users \ past.private : Ready(u)

\* A copy that fails costs one user the directories and nobody else: the loop goes
\* on, in the service as in the installer that repeats a call it has given up.
OthersAreServed ==
  /\ Quiet /\ faults \subseteq Harmless \cup {"copy"}
  /\ ~past.failed /\ ~past.overlap /\ Global \in installed
  => Cardinality({u \in Users \ past.private : ~Ready(u)}) <= FaultBudget - budget

\* After the removal no user keeps a directory, although a copy that had timed
\* out may still have been creating them while they were deleted: the call for
\* the deletion waits behind it, also when its client has given it up.  A call
\* that was never sent does not.
NoUserKeepsDirectories ==
  Quiet /\ faults \subseteq Harmless /\ ~past.failed /\ Global \notin installed =>
    fs.skel = {} /\ \A u \in Users \ installed : fs.dir[u] = {}

\* The legacy directories are there exactly while somebody has the package,
\* although nobody looks at the answers of these calls; only a call that got
\* lost with the process of the service can leave them behind, or missing.
LegacyFollowsPackage ==
  Quiet /\ faults \subseteq {"external"} /\ ~past.failed =>
    (fs.legacy # {} <=> installed # {})

\* Every request ends, whether its calls are answered, time out or get lost.
RequestsEnd == client.state # "idle" ~> client.state = "idle"

\* Once nobody calls it any more the service quits, with no call left.
ServiceGoesAway ==
  made = MaxRequests /\ client.state = "idle" ~> ~service.up /\ queue = <<>>
===============================================================================
