--------------------------- MODULE InstalledPackage ---------------------------
(***************************************************************************)
(* What happens to a package of one user after its archive was unpacked:   *)
(* it is installed, updated, moved to the memory card and back, cleared    *)
(* and uninstalled, with its temporary extension package (TEP) and with    *)
(* its applications, which the user may start at any time.                 *)
(*                                                                         *)
(* Every step of a request is one action: the steps of PackageTransaction  *)
(* (manifest, files, storage directories) are modelled there in detail.    *)
(***************************************************************************)
EXTENDS Integers, ExternalStorage, SecurityContexts, StepRunner

CONSTANT MaxRequests   \* how many requests are made; each has a new version

ASSUME RequestAssumption == MaxRequests \in Nat

VARIABLES
  dev,    \* row: the package in the database, files and bck: version of the package
          \* directory and of its backup (0 none), xml, xmlBck, icons, data: whether
          \* they exist, teps: the TEP files, torn: those of the card that are not
          \* whole, sec: the security contexts, running: the running applications
  req,    \* kind of the request
  made,   \* number of requests, and version of the current one
  ctx,    \* the fields of InstallerContext
  past    \* history: what makes an exception in a property

vars == <<storageVars, runnerVars, dev, req, made, ctx, past>>

Torn == -1
TepNames == {"t1", "t2"}
Tep(at, name) == [at |-> at, name |-> name]
None == Tep("none", "none")
TepFiles == {Tep(at, name) : at \in {"store", "phone", "bck", "card"}, name \in TepNames}
NoRow == [v |-> 0, tep |-> None, enabled |-> FALSE]

\* ext: external_storage is set, mount: external_mount is set, tep: tep_path,
\* move: is_tep_move, new: tep_name of the manifest, old: the old manifest, or the
\* one of the package that is moved or uninstalled, toCard: the default storage,
\* or where to move, auto: the manifest allows the card, author: author_id is set.
Fresh == [ext |-> FALSE, mount |-> FALSE, tep |-> None, move |-> FALSE, new |-> None,
          old |-> NoRow, toCard |-> FALSE, auto |-> FALSE, author |-> FALSE]

Pipeline ==
  [Install |-> <<"CheckRestriction", "RollbackInstallationSecurity", "AcquireExternalStorage",
                 "Copy", "CopyTep", "CreateManifest", "Register", "RegisterSecurity">>,
   Update |-> <<"Disable", "KillApps", "AcquireExternalStorage", "CopyBackup", "UpdateTep",
                "UpdateApp", "UpdateSecurity", "Enable">>,
   Move |-> <<"CheckRestriction", "Disable", "KillApps", "MoveInstalledStorage", "Enable">>,
   Clear |-> <<"EnableMount", "ClearData", "DisableMount">>,
   Uninstall |-> <<"CheckRemovable", "CheckRestriction", "EnableMount", "DisableMount",
                   "Disable", "KillApps", "BackupManifest", "AcquireExternalStorage",
                   "Unregister", "RollbackDeinstallationSecurity", "RemoveFiles", "RemoveTep",
                   "RemoveIcons", "RevokeSecurity">>]
NumSteps == Len(Pipeline[req])
Step == Pipeline[req][it]

Init ==
  /\ RunnerInit
  /\ card = NoCard /\ faults = {} /\ budget = FaultBudget
  /\ dev = [row |-> NoRow, files |-> 0, bck |-> 0, xml |-> FALSE, xmlBck |-> FALSE,
            icons |-> FALSE, data |-> FALSE, teps |-> {}, torn |-> {},
            sec |-> [a \in AllApps |-> "none"], running |-> {}]
  /\ req = "Install" /\ made = 0 /\ ctx = Fresh /\ past = {}

-------------------------------------------------------------------------------
(* Guards and outcomes of the steps *)

Process(step) == phase = "process" /\ Step = step
Undo(step) == phase = "undo" /\ Step = step
Clean(step) == phase = "clean" /\ Step = step

Same == UNCHANGED <<req, made, past>>
Ok == StepOk(NumSteps) /\ Same
Fails == StepFails /\ Same
Undone(ok) == StepUndone(ok) /\ UNCHANGED <<req, made>>
Cleaned == StepCleaned(NumSteps) /\ Same
NotCleaned == StepCleanFails /\ Same

KeepDev == UNCHANGED dev
KeepCtx == UNCHANGED ctx
KeepCard == UNCHANGED card
KeepPast == UNCHANGED past

\* The files of the package directory as a whole.
OnPhone(teps) == {f \in teps : f.at = "phone"}
Renamed(teps, at) == {Tep(at, f.name) : f \in teps}
RowWith(v, tep, enabled) == [v |-> v, tep |-> tep, enabled |-> enabled]

-------------------------------------------------------------------------------
(* Checks, the applications and their security contexts *)

\* Neither of the two changes anything; an update is never restricted.
CheckRemovable ==
  /\ Process("CheckRemovable") /\ KeepDev /\ KeepCtx /\ KeepCard /\ NoFault
  /\ Ok \/ Fails
CheckRestriction ==
  /\ Process("CheckRestriction") /\ KeepDev /\ KeepCtx /\ KeepCard /\ NoFault
  /\ Ok \/ Fails

\* Without a row there is nothing to update.
SetEnabled(value) == dev' = [dev EXCEPT !.row.enabled = value /\ dev.row # NoRow]
UpdatePkgDisableInfo(step, value) ==
  \/ /\ Process(step) /\ KeepCtx /\ KeepCard
     /\ \/ SetEnabled(value) /\ NoFault /\ Ok
        \/ KeepDev /\ Fault("enable") /\ Fails
  \/ /\ Undo(step) /\ KeepCtx /\ KeepCard /\ KeepPast
     /\ \/ SetEnabled(~value) /\ NoFault /\ Undone(TRUE)
        \/ KeepDev /\ Fault("enable") /\ Undone(FALSE)

Disable == UpdatePkgDisableInfo("Disable", FALSE)
Enable == UpdatePkgDisableInfo("Enable", TRUE)

\* Mutant: a failure to kill one application ends the loop unnoticed.
KillAppsFirstOnly ==
  /\ Process("KillApps") /\ KeepCtx /\ KeepCard /\ Ok
  /\ dev' = [dev EXCEPT !.running = @ \ {Head(Apps(ctx.old.v))}] /\ NoFault

\* An application that cannot be killed is left running.
KillApps ==
  /\ Process("KillApps") /\ KeepCtx /\ KeepCard /\ Ok
  /\ \/ dev' = [dev EXCEPT !.running = @ \ Members(Apps(ctx.old.v))] /\ NoFault
     \/ Fault("kill") /\ \E a \in dev.running : dev' = [dev EXCEPT !.running = {a}]

\* Registers the manifest of version v; k applications are done.
Registered(v, k) ==
  dev' = [dev EXCEPT !.sec = RegisterForManifest(@, Apps(v), ctx.author, k)]
Revoked(v, k) == dev' = [dev EXCEPT !.sec = UnregisterForManifest(@, Apps(v), k)]
Some(v) == 0..Len(Apps(v))-1

RegisterSecurity ==
  /\ Process("RegisterSecurity") \/ Process("UpdateSecurity")
  /\ KeepCtx /\ KeepCard
  /\ \/ Registered(made, Len(Apps(made))) /\ NoFault /\ Ok
     \/ Fault("security") /\ (\E k \in Some(made) : Registered(made, k)) /\ Fails

RollbackInstallationSecurityUndo ==
  /\ Undo("RollbackInstallationSecurity") /\ KeepCtx /\ KeepCard /\ KeepPast
  /\ \/ Revoked(made, Len(Apps(made))) /\ NoFault /\ Undone(TRUE)
     \/ Fault("security") /\ (\E k \in Some(made) : Revoked(made, k)) /\ Undone(FALSE)

\* The manifest that is registered again is the new one.
UpdateSecurityUndo ==
  /\ Undo("UpdateSecurity") /\ KeepCtx /\ KeepCard /\ KeepPast
  /\ \/ Registered(made, Len(Apps(made))) /\ NoFault /\ Undone(TRUE)
     \/ Fault("security") /\ (\E k \in Some(made) : Registered(made, k)) /\ Undone(FALSE)

\* Runs also when nothing was revoked; certificate_info has no author_id then.
RollbackDeinstallationSecurityUndo ==
  LET v == ctx.old.v IN
  /\ Undo("RollbackDeinstallationSecurity") /\ KeepCtx /\ KeepCard /\ KeepPast
  /\ \/ Registered(v, Len(Apps(v))) /\ NoFault /\ Undone(TRUE)
     \/ Fault("security") /\ (\E k \in Some(v) : Registered(v, k)) /\ Undone(FALSE)

\* Mutant: only the first application of the manifest is unregistered.
RevokeSecurityFirst ==
  /\ Clean("RevokeSecurity") /\ KeepCtx /\ KeepCard
  /\ Revoked(ctx.old.v, 1) /\ NoFault /\ Cleaned

RevokeSecurityClean ==
  LET v == ctx.old.v IN
  /\ Clean("RevokeSecurity") /\ KeepCtx /\ KeepCard
  /\ \/ Revoked(v, Len(Apps(v))) /\ NoFault /\ Cleaned
     \/ Fault("security") /\ (\E k \in Some(v) : Revoked(v, k)) /\ NotCleaned

-------------------------------------------------------------------------------
(* The card *)

\* The storage of the old manifest decides for an update, the default one for an
\* installation, and also for an uninstallation, which has no old manifest.
WantsCard == IF req = "Update" THEN card.at = "card" ELSE ctx.auto /\ ctx.toCard

AcquireExternalStorage ==
  /\ Process("AcquireExternalStorage") /\ KeepDev
  /\ \/ ~WantsCard /\ KeepCard /\ KeepCtx /\ NoFault /\ Ok
     \/ /\ WantsCard /\ Initialize(req, "card") /\ NoFault
        /\ ctx' = [ctx EXCEPT !.ext = TRUE] /\ Ok
     \/ WantsCard /\ NotInitialized(req, "card") /\ KeepCtx /\ Fails

EnableExternalMount ==
  /\ Process("EnableMount") /\ KeepDev
  /\ \/ ~IsAvailable /\ KeepCard /\ KeepCtx /\ NoFault /\ Ok
     \/ IsAvailable /\ Mount /\ ctx' = [ctx EXCEPT !.mount = TRUE] /\ NoFault /\ Ok
     \/ IsAvailable /\ Fault("mount") /\ KeepCard /\ KeepCtx /\ Fails

EnableExternalMountUndo ==
  /\ Undo("EnableMount") /\ KeepDev /\ KeepPast
  /\ \/ ~ctx.mount /\ KeepCard /\ KeepCtx /\ NoFault /\ Undone(TRUE)
     \/ ctx.mount /\ Umount /\ ctx' = [ctx EXCEPT !.mount = FALSE] /\ NoFault /\ Undone(TRUE)
     \/ ctx.mount /\ Fault("umount") /\ KeepCard /\ KeepCtx /\ Undone(FALSE)

DisableExternalMount ==
  /\ Process("DisableMount") /\ KeepDev
  /\ \/ ~ctx.mount /\ KeepCard /\ KeepCtx /\ NoFault /\ Ok
     \/ ctx.mount /\ Umount /\ ctx' = [ctx EXCEPT !.mount = FALSE] /\ NoFault /\ Ok
     \/ ctx.mount /\ Fault("umount") /\ KeepCard /\ KeepCtx /\ Fails

CommitCard == card' = IF ctx.ext THEN Commit ELSE card
AbortCard == card' = IF ctx.ext THEN Abort ELSE card

-------------------------------------------------------------------------------
(* The files *)

\* remove_all() on the package directory.
RemovedDir(d) == [d EXCEPT !.files = 0, !.teps = @ \ OnPhone(@), !.data = FALSE]

Copy ==
  /\ Process("Copy") /\ KeepCtx /\ KeepCard
  /\ \/ dev' = [dev EXCEPT !.files = made] /\ NoFault /\ Ok
     \/ Fault("copy") /\ dev' \in {dev, [dev EXCEPT !.files = Torn]} /\ Fails

\* remove_all() throws when it fails.
CopyUndo ==
  /\ Undo("Copy") /\ KeepCtx /\ AbortCard /\ KeepPast
  /\ \/ dev' = RemovedDir(dev) /\ NoFault /\ Undone(TRUE)
     \/ Fault("remove") /\ KeepDev /\ Undone(FALSE)

CopyClean == Clean("Copy") /\ KeepCtx /\ CommitCard /\ KeepDev /\ NoFault /\ Cleaned

\* The package directory becomes the backup, the TEP file in it with it.
BackedUp(d, files) ==
  [d EXCEPT !.bck = d.files, !.files = files,
            !.teps = (@ \ OnPhone(@)) \cup Renamed(OnPhone(@), "bck")]

CopyBackup ==
  /\ Process("CopyBackup") /\ KeepCtx /\ KeepCard
  /\ \/ dev.bck = 0 /\ dev' = BackedUp(dev, made) /\ NoFault /\ Ok
     \/ dev.bck # 0 /\ KeepDev /\ NoFault /\ Fails
     \/ Fault("copy") /\ dev' \in {dev, BackedUp(dev, Torn)} /\ Fails

InBackup(teps) == {f \in teps : f.at = "bck"}

CopyBackupUndo ==
  /\ Undo("CopyBackup") /\ KeepCtx /\ AbortCard /\ KeepPast
  /\ \/ dev.bck = 0 /\ KeepDev /\ NoFault /\ Undone(TRUE)
     \/ /\ dev.bck # 0 /\ NoFault /\ Undone(TRUE)
        /\ dev' = [dev EXCEPT !.files = dev.bck, !.bck = 0,
                     !.teps = (@ \ (OnPhone(@) \cup InBackup(@)))
                                \cup Renamed(InBackup(@), "phone")]
     \/ dev.bck # 0 /\ Fault("remove") /\ KeepDev /\ Undone(FALSE)

\* A backup that cannot be removed leaves the session open.
CopyBackupClean ==
  /\ Clean("CopyBackup") /\ KeepCtx
  /\ \/ /\ CommitCard /\ NoFault /\ Cleaned
        /\ dev' = [dev EXCEPT !.bck = 0, !.teps = @ \ InBackup(@)]
     \/ Fault("clean") /\ KeepCard /\ KeepDev /\ NotCleaned

RemoveFiles ==
  /\ Process("RemoveFiles") /\ KeepCtx /\ CommitCard
  /\ StepOk(NumSteps) /\ UNCHANGED <<req, made>>
  /\ past' = (IF card.at = "card" /\ ~ctx.ext THEN past \cup {"cardForgotten"} ELSE past)
  /\ \/ dev' = RemovedDir(dev) /\ NoFault
     \/ Fault("remove") /\ KeepDev

\* The icon directory that cannot be read is an exception, and fails the step.
RemoveIcons ==
  /\ Process("RemoveIcons") /\ KeepCtx /\ KeepCard
  /\ \/ dev' = [dev EXCEPT !.icons = FALSE] /\ NoFault /\ Ok
     \/ Fault("remove") /\ KeepDev /\ Ok
     \/ Fault("iconDir") /\ KeepDev /\ Fails

ClearData ==
  /\ Process("ClearData") /\ KeepCtx /\ KeepCard
  /\ \/ dev' = [dev EXCEPT !.data = FALSE] /\ NoFault /\ Ok
     \/ Fault("remove") /\ KeepDev /\ Fails

\* The manifest file and the icons: for an installation a matter of the backend.
CreateManifest ==
  /\ Process("CreateManifest") /\ KeepCtx /\ KeepCard
  /\ \/ dev' = [dev EXCEPT !.xml = TRUE, !.icons = TRUE] /\ NoFault /\ Ok
     \/ Fault("create") /\ KeepDev /\ Fails
CreateManifestUndo ==
  /\ Undo("CreateManifest") /\ KeepCtx /\ KeepCard /\ KeepPast /\ NoFault /\ Undone(TRUE)
  /\ dev' = [dev EXCEPT !.xml = FALSE, !.icons = FALSE]

\* copy() does not overwrite.
BackupManifest ==
  /\ Process("BackupManifest") /\ KeepCtx /\ KeepCard
  /\ \/ ~dev.xmlBck /\ dev' = [dev EXCEPT !.xmlBck = TRUE] /\ NoFault /\ Ok
     \/ dev.xmlBck /\ KeepDev /\ NoFault /\ Fails
     \/ Fault("backup") /\ KeepDev /\ Fails
BackupManifestUndo ==
  /\ Undo("BackupManifest") /\ KeepCtx /\ KeepCard /\ KeepPast
  /\ dev' = [dev EXCEPT !.xml = @ \/ dev.xmlBck, !.xmlBck = FALSE]
  /\ NoFault /\ Undone(TRUE)
BackupManifestClean ==
  /\ Clean("BackupManifest") /\ KeepCtx /\ KeepCard
  /\ \/ dev' = [dev EXCEPT !.xmlBck = FALSE] /\ NoFault /\ Cleaned
     \/ Fault("clean") /\ KeepDev /\ NotCleaned

-------------------------------------------------------------------------------
(* The temporary extension package *)

Placed(d, f) == [d EXCEPT !.teps = @ \cup {f},
                          !.torn = IF f.at = "card" THEN @ \ {f.name} ELSE @]
Moved(d, from, to) == [Placed(d, to) EXCEPT !.teps = @ \ {from}]

\* A copy that breaks off; in the package directory it goes with the directory.
TornAt(d, f) == [d EXCEPT !.teps = @ \cup {f},
                          !.torn = IF f.at = "card" THEN @ \cup {f.name} ELSE @]

TepTarget == Tep(IF ctx.ext THEN "card" ELSE "phone", ctx.tep.name)

\* Mutant: tep_path still names the file of the store.
CopyTepFileForgets ==
  /\ ctx.tep # None
  /\ \/ /\ ~ctx.move /\ dev' = Placed(dev, TepTarget) /\ NoFault /\ Ok
        /\ ctx' = [ctx EXCEPT !.new = TepTarget]
     \/ /\ ctx.move /\ TepTarget \notin dev.teps
        /\ dev' = Moved(dev, ctx.tep, TepTarget) /\ NoFault /\ Ok
        /\ ctx' = [ctx EXCEPT !.new = TepTarget]
     \/ ctx.move /\ TepTarget \in dev.teps /\ KeepDev /\ KeepCtx /\ NoFault /\ Fails
     \/ Fault("tep") /\ dev' \in {dev, TornAt(dev, TepTarget)} /\ KeepCtx /\ Fails

\* StepCopyTep::process() with a file: a copy overwrites, a move does not.
CopyTepFile ==
  /\ ctx.tep # None
  /\ \/ /\ ~ctx.move /\ dev' = Placed(dev, TepTarget) /\ NoFault /\ Ok
        /\ ctx' = [ctx EXCEPT !.tep = TepTarget, !.new = TepTarget]
     \/ /\ ctx.move /\ TepTarget \notin dev.teps
        /\ dev' = Moved(dev, ctx.tep, TepTarget) /\ NoFault /\ Ok
        /\ ctx' = [ctx EXCEPT !.tep = TepTarget, !.new = TepTarget]
     \/ ctx.move /\ TepTarget \in dev.teps /\ KeepDev /\ KeepCtx /\ NoFault /\ Fails
     \/ Fault("tep") /\ dev' \in {dev, TornAt(dev, TepTarget)} /\ KeepCtx /\ Fails

CopyTep ==
  /\ Process("CopyTep") /\ KeepCard
  /\ \/ ctx.tep = None /\ KeepDev /\ KeepCtx /\ NoFault /\ Ok
     \/ CopyTepFile

\* tep_path is the file of the store when the step itself has failed.
CopyTepUndo ==
  /\ Undo("CopyTep") /\ KeepCtx /\ KeepCard /\ KeepPast /\ NoFault /\ Undone(TRUE)
  /\ dev' = [dev EXCEPT !.teps = (@ \ {ctx.tep})
                                   \ (IF ctx.ext THEN {Tep("card", ctx.tep.name)} ELSE {})]

\* No new TEP file: the old one stays on the card, or is copied from the backup.
PreserveTep ==
  LET kept == ctx.old.tep
      saved == Tep("bck", kept.name)
  IN
  /\ ctx.tep = None
  /\ \/ /\ kept = None \/ ctx.ext
        /\ KeepDev /\ NoFault /\ Ok /\ ctx' = [ctx EXCEPT !.new = kept]
     \/ /\ kept # None /\ ~ctx.ext /\ saved \in dev.teps
        /\ dev' = Placed(dev, kept) /\ NoFault /\ Ok /\ ctx' = [ctx EXCEPT !.new = kept]
     \/ /\ kept # None /\ ~ctx.ext /\ ctx' = [ctx EXCEPT !.new = kept] /\ KeepDev /\ Fails
        /\ \/ saved \notin dev.teps /\ NoFault
           \/ saved \in dev.teps /\ Fault("tep")

UpdateTep == Process("UpdateTep") /\ KeepCard /\ (CopyTepFile \/ PreserveTep)

\* With the same file name as before, and on the card, this is the old file.
UpdateTepUndo ==
  /\ Undo("UpdateTep") /\ KeepCtx /\ KeepCard /\ NoFault /\ Undone(TRUE)
  /\ past' = (IF ctx.tep # None /\ ctx.tep = ctx.old.tep THEN past \cup {"oldTepRemoved"} ELSE past)
  /\ dev' = [dev EXCEPT !.teps = @ \ {ctx.tep}]

UpdateTepClean ==
  /\ Clean("UpdateTep") /\ KeepCtx /\ KeepCard /\ Cleaned
  /\ \/ /\ NoFault
        /\ dev' = (IF ctx.ext /\ ctx.old.tep # ctx.new
                   THEN [dev EXCEPT !.teps = @ \ {ctx.old.tep}] ELSE dev)
     \/ ctx.ext /\ ctx.old.tep \notin {ctx.new, None} /\ Fault("remove") /\ KeepDev

RemoveTep ==
  /\ Process("RemoveTep") /\ KeepCtx /\ KeepCard /\ Ok
  /\ \/ dev' = [dev EXCEPT !.teps = @ \ {ctx.old.tep}] /\ NoFault
     \/ ctx.old.tep \in dev.teps /\ Fault("remove") /\ KeepDev

-------------------------------------------------------------------------------
(* StepMoveInstalledStorage *)

Target == IF ctx.toCard THEN "card" ELSE "phone"
OldLocation == ctx.old.tep
NewLocation == IF OldLocation = None THEN None ELSE Tep(Target, OldLocation.name)

\* MoveFile(): what is moved is there, and nothing is where it goes.
CanMove(from, to) == from \in dev.teps /\ to \notin dev.teps

MoveInstalledStorage ==
  /\ Process("MoveInstalledStorage") /\ ctx.auto /\ Initialize("Move", Target) /\ NoFault
  /\ OldLocation = NewLocation
  /\ KeepDev /\ ctx' = [ctx EXCEPT !.ext = TRUE, !.new = NewLocation] /\ Ok

\* The manifest says internal-only, or app2ext refuses.
MoveInstalledStorageRefused ==
  /\ Process("MoveInstalledStorage") /\ KeepDev /\ KeepCtx /\ Fails
  /\ \/ ~ctx.auto /\ KeepCard /\ NoFault
     \/ ctx.auto /\ NotInitialized("Move", Target)

\* MoveTep(): the file first, then the database.
MoveTep ==
  /\ Process("MoveInstalledStorage") /\ ctx.auto /\ Initialize("Move", Target)
  /\ OldLocation # NewLocation /\ ctx' = [ctx EXCEPT !.ext = TRUE, !.new = NewLocation]
  /\ \/ /\ CanMove(OldLocation, NewLocation) /\ NoFault /\ Ok
        /\ dev' = [Moved(dev, OldLocation, NewLocation) EXCEPT !.row.tep = NewLocation]
     \/ ~CanMove(OldLocation, NewLocation) /\ KeepDev /\ NoFault /\ Fails
     \/ Fault("tep") /\ KeepDev /\ Fails
     \/ /\ CanMove(OldLocation, NewLocation) /\ Fault("register")
        /\ dev' = Moved(dev, OldLocation, NewLocation) /\ Fails

MoveBackTep == [Moved(dev, NewLocation, OldLocation) EXCEPT !.row.tep = OldLocation]

\* What was in the way of the move is taken for the file that was moved.
InTheWay == OldLocation # NewLocation /\ {OldLocation, NewLocation} \subseteq dev.teps

\* A TEP file that cannot be moved back leaves the session open.
MoveInstalledStorageUndo ==
  /\ Undo("MoveInstalledStorage") /\ KeepCtx
  /\ past' = past \cup {h \in {"moveUndone", "inTheWay"} :
                         ctx.ext /\ (h = "inTheWay" => InTheWay)}
  /\ \/ ~ctx.ext /\ KeepDev /\ KeepCard /\ NoFault /\ Undone(TRUE)
     \/ /\ ctx.ext /\ (OldLocation = NewLocation \/ NewLocation \notin dev.teps)
        /\ KeepDev /\ AbortCard /\ NoFault /\ Undone(TRUE)
     \/ /\ ctx.ext /\ OldLocation # NewLocation /\ CanMove(NewLocation, OldLocation)
        /\ dev' = MoveBackTep /\ AbortCard /\ NoFault /\ Undone(TRUE)
     \/ ctx.ext /\ InTheWay /\ KeepDev /\ KeepCard /\ NoFault /\ Undone(FALSE)
     \/ /\ ctx.ext /\ OldLocation # NewLocation /\ CanMove(NewLocation, OldLocation)
        /\ Fault("moveBack") /\ KeepCard /\ Undone(FALSE)
        /\ dev' \in {dev, Moved(dev, NewLocation, OldLocation)}

MoveInstalledStorageClean ==
  /\ Clean("MoveInstalledStorage") /\ KeepCtx /\ CommitCard /\ KeepDev /\ NoFault /\ Cleaned

-------------------------------------------------------------------------------
(* The database *)

Register ==
  /\ Process("Register") /\ KeepCtx /\ KeepCard
  /\ \/ dev' = [dev EXCEPT !.row = RowWith(made, ctx.tep, TRUE)] /\ NoFault /\ Ok
     \/ Fault("register") /\ KeepDev /\ Fails
RegisterUndo ==
  /\ Undo("Register") /\ KeepCtx /\ KeepCard /\ KeepPast
  /\ \/ dev' = [dev EXCEPT !.row = NoRow] /\ NoFault /\ Undone(TRUE)
     \/ Fault("unregister") /\ KeepDev /\ Undone(FALSE)

\* Whether a new row is enabled is up to the package manager.
Written(v, tep) == \E e \in BOOLEAN : dev' = [dev EXCEPT !.row = RowWith(v, tep, e)]

UpdateApp ==
  /\ Process("UpdateApp") /\ KeepCtx /\ KeepCard
  /\ \/ Written(made, ctx.new) /\ NoFault /\ Ok
     \/ Fault("register") /\ KeepDev /\ Fails
UpdateAppUndo ==
  /\ Undo("UpdateApp") /\ KeepCtx /\ KeepCard /\ KeepPast
  /\ \/ Written(ctx.old.v, ctx.old.tep) /\ NoFault /\ Undone(TRUE)
     \/ Fault("registerAgain") /\ KeepDev /\ Undone(FALSE)

\* The row may stay, the manifest file does not.
Unregister ==
  /\ Process("Unregister") /\ KeepCtx /\ KeepCard /\ Ok
  /\ \/ dev' = [dev EXCEPT !.row = NoRow, !.xml = FALSE] /\ NoFault
     \/ Fault("unregister") /\ dev' = [dev EXCEPT !.xml = FALSE]
UnregisterUndo ==
  /\ Undo("Unregister") /\ KeepCtx /\ KeepCard /\ KeepPast
  /\ \/ Written(ctx.old.v, ctx.old.tep) /\ NoFault /\ Undone(TRUE)
     \/ Fault("registerAgain") /\ KeepDev /\ Undone(FALSE)

-------------------------------------------------------------------------------
(* The requests *)

NoProcess == {"RollbackInstallationSecurity", "RollbackDeinstallationSecurity", "RevokeSecurity"}
HasUndo == {"Disable", "Enable", "RollbackInstallationSecurity", "UpdateSecurity",
            "RollbackDeinstallationSecurity", "EnableMount", "Copy", "CopyBackup", "CopyTep",
            "UpdateTep", "MoveInstalledStorage", "CreateManifest", "Register", "UpdateApp",
            "Unregister", "BackupManifest"}
HasClean == {"RevokeSecurity", "Copy", "CopyBackup", "UpdateTep", "MoveInstalledStorage",
             "BackupManifest"}

\* Steps without a process(), an undo() or a clean() of their own.
Nothing ==
  /\ KeepDev /\ KeepCtx /\ KeepCard /\ NoFault
  /\ \/ phase = "process" /\ Step \in NoProcess /\ Ok
     \/ phase = "undo" /\ Step \notin HasUndo /\ KeepPast /\ Undone(TRUE)
     \/ phase = "clean" /\ Step \notin HasClean /\ Cleaned

\* An update needs an old version, an installation that there is none.
Begin ==
  /\ made < MaxRequests /\ BeginRun /\ KeepCard /\ NoFault
  /\ made' = made + 1
  /\ \E kind \in {"Install", "Update", "Move", "Clear", "Uninstall"}, toCard, auto, move \in BOOLEAN,
        tep \in {None} \cup {Tep("store", n) : n \in TepNames} :
       /\ (kind = "Install") = (dev.row.v = 0)
       /\ kind \notin {"Install", "Update"} => tep = None
       /\ tep = None => ~move
       /\ kind \in {"Update", "Clear"} => ~toCard /\ ~auto
       /\ req' = kind
       /\ dev' = [dev EXCEPT !.teps = {f \in @ : f.at # "store"} \cup ({tep} \ {None})]
       /\ ctx' = [Fresh EXCEPT !.old = dev.row, !.toCard = toCard, !.auto = auto,
                               !.move = move, !.tep = tep,
                               !.author = kind \in {"Install", "Update"}]
       /\ past' = past \cup
            (IF kind = "Update" /\ Apps(made + 1) # Apps(dev.row.v) THEN {"appsChanged"} ELSE {})

\* The destructor of ExternalMount runs here, and may fail as the undo() before.
Exit ==
  /\ phase = "end" /\ phase' = "idle" /\ it' = 1 /\ UNCHANGED <<ret, req, made>> /\ NoFault
  /\ \/ Umount
     \/ ctx.mount /\ "umount" \in faults /\ KeepCard
  /\ ctx' = Fresh /\ KeepDev /\ KeepPast

\* The user starts an application.
Launch(a) ==
  /\ dev.row.enabled /\ a \in Members(Apps(dev.row.v)) \ dev.running
  /\ dev' = [dev EXCEPT !.running = @ \cup {a}, !.data = (dev.files # 0)]
  /\ UNCHANGED <<storageVars, runnerVars, req, made, ctx, past>>

Next ==
  \/ Begin \/ Exit \/ Nothing \/ \E a \in AllApps : Launch(a)
  \/ CheckRemovable \/ CheckRestriction \/ Disable \/ Enable \/ KillApps
  \/ RegisterSecurity \/ RollbackInstallationSecurityUndo \/ UpdateSecurityUndo
  \/ RollbackDeinstallationSecurityUndo \/ RevokeSecurityClean
  \/ AcquireExternalStorage \/ EnableExternalMount \/ EnableExternalMountUndo \/ DisableExternalMount
  \/ Copy \/ CopyUndo \/ CopyClean \/ CopyBackup \/ CopyBackupUndo \/ CopyBackupClean
  \/ RemoveFiles \/ RemoveIcons \/ ClearData \/ CreateManifest \/ CreateManifestUndo
  \/ BackupManifest \/ BackupManifestUndo \/ BackupManifestClean
  \/ CopyTep \/ CopyTepUndo \/ UpdateTep \/ UpdateTepUndo \/ UpdateTepClean \/ RemoveTep
  \/ MoveInstalledStorage \/ MoveInstalledStorageRefused \/ MoveTep
  \/ MoveInstalledStorageUndo \/ MoveInstalledStorageClean
  \/ Register \/ RegisterUndo \/ UpdateApp \/ UpdateAppUndo \/ Unregister \/ UnregisterUndo

Spec == Init /\ [][Next]_vars

-------------------------------------------------------------------------------
(* Properties *)

TypeOK ==
  /\ phase \in Phases /\ ret \in Results /\ it \in 1..NumSteps
  /\ card \in [at : Places, session : Sessions, mounted : BOOLEAN]
  /\ {dev.files, dev.bck, dev.row.v} \subseteq 0..MaxRequests \cup {Torn}
  /\ dev.teps \subseteq TepFiles /\ dev.torn \subseteq TepNames
  /\ {dev.row.tep, ctx.tep, ctx.new} \subseteq TepFiles \cup {None}
  /\ dev.sec \in [AllApps -> Contexts] /\ dev.running \subseteq AllApps
  /\ budget \in 0..FaultBudget

Resting == phase = "idle"
Installed == dev.row.v # 0

OnDevice == {f \in dev.teps : f.at # "store"}

\* When a request has ended the TEP file of the database is where the database
\* says, whole, in the storage of its package, and the only one; and the store
\* still has the file it supplied, if that was to be copied.  The exceptions: a
\* copy of a TEP file that breaks off (undo() then removes the file of the store,
\* or leaves half a file on the card), files that cannot be removed, a row that
\* cannot be, an uninstallation that fails after the files are gone; an update
\* with the same file name that is rolled back on the card (its undo() removes
\* the old file); a move that is rolled back (the TEP file goes back, the package
\* does not); and a package that was uninstalled without app2ext.
TepKept ==
  /\ phase = "end"
  /\ faults \cap {"tep", "clean", "remove", "iconDir", "unregister", "registerAgain"} = {}
  /\ past \cap {"oldTepRemoved", "moveUndone", "cardForgotten"} = {}
  => /\ OnDevice = {dev.row.tep} \ {None}
     /\ dev.row.tep # None => dev.row.tep.at = card.at
     /\ dev.row.tep.at = "card" => dev.row.tep.name \notin dev.torn
     /\ ctx.tep # None /\ ~ctx.move => Tep("store", ctx.tep.name) \in dev.teps

\* Between two requests no session with app2ext is open, nothing is mounted, and
\* nothing of a package that is gone is on the card.  The exceptions: a clean()
\* that fails before it closes the session, an unmount that fails to the last, a
\* TEP file that cannot be moved back because one of its name was left there, and
\* an uninstallation that looks at the default storage, not at the one the package
\* is in, and so does not open the session it should.
CardReleased ==
  Resting /\ faults \cap {"clean", "umount", "moveBack"} = {} /\ past \cap {"cardForgotten", "inTheWay"} = {}
  => card.session = "none" /\ ~card.mounted /\ (~Installed => card.at = "phone")

\* Between two requests, whatever has failed in them, a package is either whole
\* (files of the version in the database, manifest, a context with the author for
\* every application, enabled) or gone without a trace.  The exceptions are the
\* failures the code passes over, or meets when there is no way back; an update
\* that drops an application leaves its context for ever.
PackageWhole ==
  /\ Resting
  /\ faults \cap {"enable", "remove", "clean", "iconDir", "security", "unregister", "registerAgain"} = {}
  => /\ IF Installed
        THEN dev.files = dev.row.v /\ dev.xml /\ dev.row.enabled /\ dev.bck = 0
        ELSE dev.files = 0 /\ ~dev.xml /\ dev.bck = 0 /\ ~dev.icons /\ ~dev.data
     /\ \A a \in AllApps :
          IF Installed /\ a \in Members(Apps(dev.row.v)) THEN dev.sec[a] = "authored"
          ELSE "appsChanged" \in past \/ dev.sec[a] = "none"

\* No application of the old version runs while its files are replaced, moved or
\* removed, though the user may start one at any time: the package was disabled
\* before its applications were killed.
AppsStopped ==
  /\ phase = "process" /\ "kill" \notin faults
  /\ Step \in {"CopyBackup", "UpdateTep", "UpdateApp", "MoveInstalledStorage", "RemoveFiles"}
  => dev.running \cap Members(Apps(ctx.old.v)) = {}
===============================================================================
