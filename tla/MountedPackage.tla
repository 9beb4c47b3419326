---------------------------- MODULE MountedPackage ----------------------------
(***************************************************************************)
(* Packages that are not unpacked but mounted: StepMountUnpacked,          *)
(* StepMountInstall, StepMountUpdate and StepRemoveZipImage on the step    *)
(* loop, for requests that come one after the other.  The process of a     *)
(* request may die; there is no recovery for requests of this kind.        *)
(***************************************************************************)
EXTENDS Tzip, StepRunner

CONSTANT MaxRequests   \* how many requests are made; each has a new version

ASSUME RequestAssumption == MaxRequests \in Nat

Tmp(n) == <<"tmp", n>>    \* the temporary directory of the n-th request
Final == <<"final", 0>>   \* GetMountLocation()

ASSUME PointsAssumption == {Final} \cup {Tmp(n) : n \in 1..MaxRequests} \subseteq Points

VARIABLES
  disk,    \* zip: version of the package file (0 none, Torn), bck: its backup,
           \* dir: the package directory exists, db: version in the database
  req,     \* kind of the request being handled
  made,    \* number of requests so far, and version of the current one
  ctx,     \* part: next part of the handler, polls: answers without success,
           \* old: the version before, asked: a mount at Final was asked for
  stable,  \* history: the version last committed
  stuck,   \* history: an update that had asked for its mount was rolled back
  orphan   \* history: a request found a backup of another version than the committed one

vars == <<tzipVars, runnerVars, disk, req, made, ctx, stable, stuck, orphan>>

Torn == -1
Fresh == [part |-> "start", polls |-> 0, old |-> 0, asked |-> FALSE]

Pipeline ==
  [MountInstall |-> <<"MountUnpacked", "MountInstall", "Register">>,
   MountUpdate  |-> <<"MountUnpacked", "MountUpdate", "Register">>,
   Uninstall    |-> <<"Unregister", "RemoveZipImage">>]
NumSteps == Len(Pipeline[req])
Step == Pipeline[req][it]

Init ==
  /\ RunnerInit
  /\ queue = <<>> /\ mounts = [p \in Points |-> 0] /\ dirs = {}
  /\ faults = {} /\ budget = FaultBudget
  /\ disk = [zip |-> 0, bck |-> 0, dir |-> FALSE, db |-> 0]
  /\ req = "MountInstall" /\ made = 0 /\ ctx = Fresh
  /\ stable = 0 /\ stuck = FALSE /\ orphan = FALSE

-------------------------------------------------------------------------------
(* Guards and outcomes of the parts of a handler *)

Process(step, p) == phase = "process" /\ Step = step /\ ctx.part = p
Undo(step) == phase = "undo" /\ Step = step
Clean(step) == phase = "clean" /\ Step = step

Quietly == UNCHANGED <<queue, mounts, dirs>>
Keep == UNCHANGED <<req, made, stuck, orphan, stable>>
Disk(d) == disk' = d /\ Keep

GoOn(p) == ctx' = [ctx EXCEPT !.part = p, !.polls = 0] /\ UNCHANGED runnerVars
Ok == ctx' = [ctx EXCEPT !.part = "start", !.polls = 0] /\ StepOk(NumSteps)
Fails == ctx' = [ctx EXCEPT !.part = "start", !.polls = 0] /\ StepFails
Undone(ok) == UNCHANGED ctx /\ StepUndone(ok)
Cleaned == UNCHANGED ctx /\ StepCleaned(NumSteps)
NotCleaned == UNCHANGED ctx /\ StepCleanFails

\* Mutant: nobody looks whether something is mounted at the mount point.
AskOverMount(step, p, file) ==
  /\ Process(step, "mount") /\ Disk(disk)
  /\ MountZip(p, file) /\ NoFault
  /\ ctx' = [ctx EXCEPT !.part = "poll", !.asked = @ \/ p = Final] /\ UNCHANGED runnerVars

\* MountZip(): the message.
Ask(step, p, file) ==
  /\ Process(step, "mount") /\ Disk(disk)
  /\ \/ /\ CanMountZip(p) /\ MountZip(p, file) /\ NoFault
        /\ ctx' = [ctx EXCEPT !.part = "poll", !.asked = @ \/ p = Final] /\ UNCHANGED runnerVars
     \/ ~CanMountZip(p) /\ Quietly /\ NoFault /\ Fails
     \/ CanMountZip(p) /\ Fault("send") /\ dirs' = dirs \ {p} /\ UNCHANGED <<queue, mounts>> /\ Fails

\* Mutant: one question more than the limit.
PollOnceMore(step, p) ==
  /\ Process(step, "poll") /\ Disk(disk) /\ Quietly /\ NoFault
  /\ \/ AnswersYes(p) /\ Ok
     \/ ctx.polls < MaxPolls /\ ctx' = [ctx EXCEPT !.polls = @ + 1] /\ UNCHANGED runnerVars
     \/ ctx.polls = MaxPolls /\ Fails

\* WaitForMounted()
Poll(step, p) ==
  /\ Process(step, "poll") /\ Disk(disk) /\ Quietly /\ NoFault
  /\ \/ AnswersYes(p) /\ Ok
     \/ ctx.polls + 1 < MaxPolls /\ ctx' = [ctx EXCEPT !.polls = @ + 1] /\ UNCHANGED runnerVars
     \/ ctx.polls + 1 = MaxPolls /\ Fails

\* The temporary mount is given up before the final one is made.
UnmountTmp(step, next) ==
  /\ Process(step, "start") /\ Disk(disk)
  /\ \/ UnmountZip(Tmp(made)) /\ NoFault /\ GoOn(next)
     \/ Fault("send") /\ Quietly /\ Fails

-------------------------------------------------------------------------------
(* StepMountUnpacked *)

MountUnpacked ==
  /\ Process("MountUnpacked", "start") /\ Disk(disk) /\ UNCHANGED <<queue, mounts>>
  /\ \/ dirs' = dirs \cup {Tmp(made)} /\ NoFault /\ GoOn("mount")
     \/ Fault("dir") /\ UNCHANGED dirs /\ Fails

MountUnpackedZip ==
  \/ Ask("MountUnpacked", Tmp(made), <<"package", made>>)
  \/ Poll("MountUnpacked", Tmp(made))

\* What is mounted cannot be removed: the unmount is only a message.
MountUnpackedUndo ==
  /\ Undo("MountUnpacked") /\ Disk(disk)
  /\ \/ /\ SendMessage([op |-> "Unmount", at |-> Tmp(made), file |-> <<"none", 0>>])
        /\ dirs' = (IF Mounted(Tmp(made)) THEN dirs ELSE dirs \ {Tmp(made)})
        /\ UNCHANGED mounts /\ NoFault /\ Undone(TRUE)
     \/ Fault("send") /\ Quietly /\ Undone(FALSE)

-------------------------------------------------------------------------------
(* StepMountInstall *)

MountInstallUnmount == UnmountTmp("MountInstall", "copy")

MountInstallCopy ==
  /\ Process("MountInstall", "copy") /\ Quietly
  /\ \/ Disk([disk EXCEPT !.dir = TRUE, !.zip = made]) /\ NoFault /\ GoOn("mount")
     \/ Fault("copy") /\ Disk([disk EXCEPT !.dir = TRUE, !.zip = Torn]) /\ Fails
     \/ Fault("dir") /\ Disk(disk) /\ Fails

MountInstallZip ==
  \/ Ask("MountInstall", Final, <<"zip", 0>>)
  \/ Poll("MountInstall", Final)

\* remove() of a package directory that is there fails: .image is still in it.  Of a
\* package file that is not removed, and of an unmount not sent, nothing is said.
MountInstallUndo ==
  /\ Undo("MountInstall") /\ Undone(~disk.dir)
  /\ \/ Disk([disk EXCEPT !.zip = 0]) /\ UnmountZip(Final) /\ NoFault
     \/ Disk([disk EXCEPT !.zip = 0]) /\ Quietly /\ Fault("send")
     \/ disk.zip # 0 /\ Disk(disk) /\ UnmountZip(Final) /\ Fault("removeZip")

UnmountFinal ==
  \/ UnmountZip(Final) /\ NoFault /\ Cleaned
  \/ Fault("send") /\ Quietly /\ NotCleaned

MountInstallClean == Clean("MountInstall") /\ Disk(disk) /\ UnmountFinal

-------------------------------------------------------------------------------
(* StepMountUpdate *)

MountUpdateUnmount == UnmountTmp("MountUpdate", "backup")

\* Mutant: a backup that is there is replaced.
MountUpdateBackupReplaces ==
  /\ Process("MountUpdate", "backup") /\ Quietly
  /\ \/ /\ disk.zip # 0 /\ NoFault
        /\ Disk([disk EXCEPT !.bck = disk.zip, !.zip = 0]) /\ GoOn("copy")
     \/ disk.zip = 0 /\ NoFault /\ Disk(disk) /\ Fails
     \/ Fault("move") /\ Disk(disk) /\ Fails

\* MoveFile() replaces nothing; rename() in one directory leaves no half.
MountUpdateBackup ==
  /\ Process("MountUpdate", "backup") /\ Quietly
  /\ \/ /\ disk.bck = 0 /\ disk.zip # 0 /\ NoFault
        /\ Disk([disk EXCEPT !.bck = disk.zip, !.zip = 0]) /\ GoOn("copy")
     \/ (disk.bck # 0 \/ disk.zip = 0) /\ NoFault /\ Disk(disk) /\ Fails
     \/ Fault("move") /\ Disk(disk) /\ Fails

MountUpdateCopy ==
  /\ Process("MountUpdate", "copy") /\ Quietly
  /\ \/ Disk([disk EXCEPT !.zip = made]) /\ NoFault /\ GoOn("mount")
     \/ Fault("copy") /\ Disk([disk EXCEPT !.zip = Torn]) /\ Fails

MountUpdateZip ==
  \/ Ask("MountUpdate", Final, <<"zip", 0>>)
  \/ Poll("MountUpdate", Final)

\* Mutant: the package file is removed whether there is a backup or not.
MountUpdateUndoAlways ==
  /\ Undo("MountUpdate") /\ Quietly
  /\ stuck' = (stuck \/ ctx.asked) /\ UNCHANGED <<req, made, orphan, stable>>
  /\ disk' = [disk EXCEPT !.zip = disk.bck, !.bck = 0] /\ NoFault
  /\ Undone(FALSE)

\* Nothing is unmounted, and remove() of the package directory fails always.
MountUpdateUndo ==
  /\ Undo("MountUpdate") /\ Quietly
  /\ stuck' = (stuck \/ ctx.asked) /\ UNCHANGED <<req, made, orphan, stable>>
  /\ \/ disk.bck # 0 /\ disk' = [disk EXCEPT !.zip = disk.bck, !.bck = 0] /\ NoFault
     \/ disk.bck = 0 /\ UNCHANGED disk /\ NoFault
     \/ disk.bck # 0 /\ Fault("restore") /\ disk' \in {disk, [disk EXCEPT !.zip = 0]}
  /\ Undone(FALSE)

\* Mutant: the mount stays.
MountUpdateCleanKeepsMount ==
  /\ Clean("MountUpdate") /\ Quietly /\ NoFault
  /\ Disk([disk EXCEPT !.bck = 0]) /\ Cleaned

MountUpdateClean ==
  /\ Clean("MountUpdate")
  /\ \/ Disk([disk EXCEPT !.bck = 0]) /\ UnmountFinal
     \/ Disk(disk) /\ Fault("removeBackup") /\ UnmountZip(Final) /\ Cleaned

-------------------------------------------------------------------------------
(* The database, the removal and the requests *)

Register ==
  /\ Process("Register", "start") /\ Quietly
  /\ \/ Disk([disk EXCEPT !.db = made]) /\ NoFault /\ Ok
     \/ Fault("register") /\ Disk(disk) /\ Fails
RegisterUndo ==
  /\ Undo("Register") /\ Quietly /\ NoFault
  /\ Disk([disk EXCEPT !.db = ctx.old]) /\ Undone(TRUE)

\* A row that cannot be removed is only logged.
Unregister ==
  /\ Process("Unregister", "start") /\ Quietly
  /\ \/ /\ stable' = 0 /\ Ok /\ UNCHANGED <<req, made, stuck, orphan>>
        /\ \/ disk' = [disk EXCEPT !.db = 0] /\ NoFault
           \/ UNCHANGED disk /\ Fault("unregister")
     \/ Fault("precheck") /\ Disk(disk) /\ Fails
UnregisterUndo ==
  /\ Undo("Unregister") /\ Quietly /\ NoFault
  /\ Disk([disk EXCEPT !.db = ctx.old]) /\ Undone(TRUE)

\* A failure is not noticed.
RemoveZipImage ==
  /\ Process("RemoveZipImage", "start") /\ Quietly /\ Ok
  /\ \/ Disk([disk EXCEPT !.zip = 0]) /\ NoFault
     \/ Disk(disk) /\ Fault("removeZip")

\* The first step is the first to be cleaned: from here on the new version stays.
CleanNothing ==
  /\ Clean("MountUnpacked") \/ Clean("Register") \/ Clean("Unregister") \/ Clean("RemoveZipImage")
  /\ Quietly /\ NoFault /\ Cleaned
  /\ stable' = (IF req = "Uninstall" THEN 0 ELSE disk.db) /\ UNCHANGED <<disk, req, made, stuck, orphan>>

\* GetRequestType(): an update if the package is in the database.
Begin ==
  /\ made < MaxRequests /\ BeginRun /\ Quietly /\ NoFault
  /\ made' = made + 1
  /\ ctx' = [Fresh EXCEPT !.old = disk.db]
  /\ \/ req' = (IF disk.db = 0 THEN "MountInstall" ELSE "MountUpdate")
     \/ disk.db # 0 /\ req' = "Uninstall"
  /\ orphan' = (orphan \/ disk.bck \notin {0, stable})
  /\ UNCHANGED <<disk, stable, stuck>>

ProcessGone ==
  /\ phase' = "idle" /\ it' = 1 /\ UNCHANGED ret
  /\ ctx' = Fresh /\ Quietly /\ Disk(disk)
Exit == phase = "end" /\ ProcessGone /\ NoFault
Crash ==
  /\ phase \in {"process", "undo", "clean"} /\ ProcessGone
  /\ Fault(IF phase = "clean" THEN "crashInClean" ELSE "crash")

Content(file) == IF file[1] = "package" THEN file[2] ELSE disk.zip
DevicedStep ==
  /\ queue # <<>>
  /\ Deviced(Content(Head(queue).file))
  /\ UNCHANGED <<runnerVars, disk, req, made, ctx, stable, stuck, orphan>>

Next ==
  \/ Begin \/ Exit \/ Crash \/ DevicedStep
  \/ MountUnpacked \/ MountUnpackedZip \/ MountUnpackedUndo
  \/ MountInstallUnmount \/ MountInstallCopy \/ MountInstallZip \/ MountInstallUndo \/ MountInstallClean
  \/ MountUpdateUnmount \/ MountUpdateBackup \/ MountUpdateCopy \/ MountUpdateZip
  \/ MountUpdateUndo \/ MountUpdateClean
  \/ Register \/ RegisterUndo \/ Unregister \/ UnregisterUndo \/ RemoveZipImage \/ CleanNothing

Spec == Init /\ [][Next]_vars

-------------------------------------------------------------------------------
(* Properties *)

Versions == 0..MaxRequests
TypeOK ==
  /\ phase \in Phases /\ ret \in Results /\ it \in 1..NumSteps
  /\ disk.zip \in Versions \cup {Torn} /\ disk.bck \in Versions /\ disk.db \in Versions
  /\ disk.zip # 0 => disk.dir
  /\ mounts \in [Points -> Versions] /\ dirs \subseteq Points
  /\ \A p \in Points : Mounted(p) => p \in dirs
  /\ \A i \in 1..Len(queue) : queue[i].at \in Points
  /\ ctx.polls \in 0..MaxPolls-1 /\ budget \in 0..FaultBudget /\ stable \in Versions

\* Between two requests the package file is the one of the version in the
\* database, with no backup beside it, whatever has failed in the requests; only
\* a request that dies, or files that cannot be moved or removed, leave more.
ZipMatchesRegistry ==
  phase = "idle" /\ faults \subseteq {"send", "lost", "dir", "copy", "move", "register", "precheck"} =>
    disk.zip = disk.db /\ disk.bck = 0

\* The file of the committed version is in place or in the backup, always, also
\* when the process dies half way and the next update fails.  The exception is a
\* backup that has outlived its update or its package: the next update cannot make
\* its own and fails, and its undo() puts that one over the committed version's file.
ZipNeverLost ==
  stable # 0 /\ ~orphan => stable \in {disk.zip, disk.bck}

\* When deviced has handled all messages nothing is mounted between two requests,
\* also when it was so late that the request had given up.  The rollback of an
\* update does not unmount; a message that is not sent, or lost, does nothing.
NothingStaysMounted ==
  /\ phase = "idle" /\ queue = <<>> /\ ~stuck
  /\ faults \cap {"send", "lost", "crash", "crashInClean"} = {}
  => \A p \in Points : ~Mounted(p)

\* A request that goes on after its mount sees the new version at the mount point,
\* not what an earlier request has left there.
MountShowsPackage ==
  phase = "process" /\ Step = "Register" => mounts[Final] = made
===============================================================================
