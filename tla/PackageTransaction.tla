-------------------------- MODULE PackageTransaction --------------------------
(***************************************************************************)
(* Installations and updates of one package, each run by a process of its  *)
(* own that may fail at any operation and die between any two, and the     *)
(* recovery that is started for what an interrupted process left behind.   *)
(***************************************************************************)
EXTENDS InstallSteps, UpdateSteps, RecoverySteps

Idle == phase = "idle"
RecoveryWaits == device.rec.kind # "none"

Init ==
  /\ RunnerInit
  /\ device = CleanDevice
  /\ ctx = FreshContext
  /\ part = "start"
  /\ req = "Install"
  /\ global \in Modes
  /\ stable = None
  /\ written = FALSE
  /\ faults = {}
  /\ budget = FaultBudget

-------------------------------------------------------------------------------
(* The life of a process *)

\* A package that is in the database is updated, any other one is installed.
\* External: a request waits until what the last one left behind is recovered.
Begin ==
  /\ BeginRun
  /\ \/ RecoveryWaits /\ req' = "Recovery"
     \/ /\ ~RecoveryWaits /\ stable < MaxVersion
        /\ req' = IF device.db = None THEN "Install" ELSE "Update"
  /\ NoFault
  /\ UNCHANGED <<device, ctx, part, global, stable, written>>

\* The process is gone, with its memory.
Gone ==
  /\ phase' = "idle"
  /\ it' = 1
  /\ ret' = ret
  /\ ctx' = FreshContext
  /\ part' = "start"
  /\ UNCHANGED envVars

\* Run() has returned; the destructor of the recovery file deletes the file.
Exit ==
  /\ phase = "end"
  /\ Gone
  /\ device' = IF ctx.file.kind = "none" THEN device ELSE [device EXCEPT !.rec = NoRecovery]
  /\ NoFault

\* The assert of StepOpenRecoveryFile, which the release flags leave enabled.
Abort ==
  /\ Process("OpenRecoveryFile", "start")
  /\ device.rec.kind = "torn"
  /\ Gone
  /\ UNCHANGED device
  /\ NoFault

\* What dying in the middle of the operation that comes next leaves: a recovery
\* file or a copy half written, a directory half copied or half removed, some of
\* the applications registered.
WritesRecovery == Process("Unzip", "start") \/ (phase = "process" /\ part = "rec")
RemovesPackage ==
  \/ Undo("Copy", "start")
  \/ Exists(device.bck) /\ Undo("CopyBackup", "start")
  \/ Process("RecoverFiles", "start") /\ (New \/ Exists(device.bck))
RegistersRules == Step \in {"RegisterSecurity", "UpdateSecurity"} /\ phase \in {"process", "undo"}

HalfDone ==
  \/ WritesRecovery /\ device' = [device EXCEPT !.rec = TornRecovery]
  \/ /\ Process("BackupManifest", "start") /\ device.xml # None /\ device.xmlBck = None
     /\ device' = [device EXCEPT !.xmlBck = Torn]
  \/ \E key \in StorageKeys :
       \/ /\ Process("CopyStorageDirectories", key)
          /\ Has(device.bck, key) /\ ~(device.pkg[key] \subseteq {Dot})
          /\ \E files \in CopyCut(device.pkg[key], device.bck[key]) :
               device' = [device EXCEPT !.pkg = Put(@, key, files)]
       \/ /\ Process("CopyStorageDirectories", Cleanup(key))
          /\ \E left \in SUBSET (device.bck[key] \ {Dot}) :
               device' = [device EXCEPT !.bck = Put(@, key, left \cup {Dot})]
  \/ /\ RemovesPackage
     /\ \E t \in RemoveCut(device.pkg) : device' = [device EXCEPT !.pkg = t]
  \/ /\ Clean("CopyBackup")
     /\ \E t \in RemoveCut(device.bck) : device' = [device EXCEPT !.bck = t]
  \/ RegistersRules /\ device' = [device EXCEPT !.sec = Torn]

Where ==
  CASE Process("CopyBackup", "backup") -> "Backup"
    [] phase = "process" /\ Step = "CopyStorageDirectories"
                         /\ part \in {"rmdata", "rmshared"} -> "StorageRemove"
    [] OTHER -> Step
CrashKind ==
  CASE phase = "process" -> "crash"
    [] phase = "undo"    -> "crashInUndo"
    [] phase = "clean"   -> "crashInClean"
    [] OTHER             -> "crashAtEnd"

\* The device loses power, or the process is killed.
Crash ==
  /\ ~Idle
  /\ Fault(CrashKind, Where)
  /\ Gone
  /\ UNCHANGED device \/ HalfDone

\* The installed application stores a file of its user.
StoreUserFile ==
  /\ Idle /\ ~RecoveryWaits /\ ~written /\ ~global
  /\ device.db # None /\ Has(device.pkg, "data")
  /\ device' = [device EXCEPT !.pkg = Put(@, "data", @["data"] \cup {UserFile})]
  /\ written' = TRUE
  /\ NoFault
  /\ UNCHANGED <<runnerVars, ctx, part, req, global, stable>>

-------------------------------------------------------------------------------
(* The whole system *)

CommonStep ==
  \/ Configure \/ ConfigureWrite \/ ConfigureClean
  \/ Unzip \/ UnzipCreateDir \/ UnzipExtract \/ UnzipUndo
  \/ ParseManifest \/ ParseInstalled
  \/ \E d \in WriteResults([ctx.file EXCEPT !.pkgid = TRUE]) : ParseWrite(d)
  \/ CreateIcons \/ CreateIconsCopy \/ CreateIconsUndo
  \/ CreateManifest \/ CreateManifestUndo
  \/ NothingToUndo \/ NothingToClean

InstallStep ==
  \/ RollbackInstallationSecurity \/ RollbackInstallationSecurityUndo
  \/ RegisterSecurity
  \/ Copy \/ CopyUndo \/ CreateStorageDirectories
  \/ RegisterApplication \/ RegisterApplicationCerts \/ RegisterApplicationUndo

UpdateStep ==
  \/ CheckOldCertificate
  \/ BackupManifest \/ BackupManifestUndo \/ BackupManifestClean
  \/ BackupIcons \/ BackupIconsMove \/ BackupIconsUndo \/ BackupIconsClean
  \/ CopyBackup \/ CopyBackupEntry \/ CopyBackupNewContent
  \/ CopyBackupUndo \/ CopyBackupRestore \/ CopyBackupClean
  \/ CopyStorageDirectories \/ CopyStorageCache
  \/ \E key \in StorageKeys :
       CopyStorageMove(key) \/ CopyStorageRemove(key) \/ CopyStorageUndo(key)
  \/ UpdateApplication \/ UpdateApplicationCerts
  \/ UpdateApplicationUndo \/ UpdateApplicationUndoCerts
  \/ UpdateSecurity \/ UpdateSecurityUndo

RecoveryStep ==
  \/ OpenRecoveryFile \/ OpenRecoveryFileUndo
  \/ ParseRecovery
  \/ \E d \in WriteResults(ctx.file) : ParseRecoveryWrite(d)
  \/ RecoverApplication \/ RecoverApplicationRegister \/ RecoverApplicationCerts
  \/ RemoveTemporaryDirectory
  \/ RecoverIcons \/ RecoverIconsMove \/ RecoverManifest
  \/ RecoverStorageDirectories \/ RecoverStorageShared
  \/ RecoverFiles \/ RecoverFilesMove
  \/ RecoverSecurity

Next ==
  \/ Begin \/ Exit \/ Abort \/ Crash \/ StoreUserFile
  \/ CommonStep \/ InstallStep \/ UpdateStep \/ RecoveryStep

Spec == Init /\ [][Next]_vars

\* A running process goes on, and the package manager starts the recoveries.
Proceed == Begin \/ Exit \/ Abort \/ CommonStep \/ InstallStep \/ UpdateStep \/ RecoveryStep
FairSpec == Spec /\ WF_vars(Proceed)

-------------------------------------------------------------------------------
(* The shape of the state *)

Trees == [Nodes -> SUBSET ({Dot, UserFile}
                           \cup {"self", "conf", "res"} \X Versions)]
Parts == {"start", "write", "mkdir", "extract", "rec", "copy", "certs", "move", "backup",
          "content", "restore", "data", "shared", "rmdata", "rmshared", "cache", "register"}
RecoveryFiles == [kind : {"none", "torn", "Install", "Update"}, dir : BOOLEAN, pkgid : BOOLEAN]

DeviceTypeOK ==
  /\ {device.pkg, device.bck, device.tmp} \subseteq Trees
  /\ {device.xml, device.xmlBck, device.db, device.sec} \subseteq Marks
  /\ {device.icon, device.iconBck} \subseteq [Apps -> Marks]
  /\ device.cert \in BOOLEAN
  /\ device.rec \in RecoveryFiles

\* The shape of the state.
TypeOK ==
  /\ phase \in Phases /\ ret \in Results
  /\ req \in Requests /\ it \in 1..NumSteps
  /\ part \in Parts
  /\ DeviceTypeOK
  /\ ctx.man \in Marks /\ ctx.old \in Marks /\ ctx.file \in RecoveryFiles
  /\ ctx.todo \subseteq Entries \cup Apps
  /\ ctx.gathered \subseteq Apps /\ ctx.made \subseteq Apps
  /\ {global, written, ctx.pkgid, ctx.unpacked, ctx.bxml, ctx.cert, ctx.ok} \subseteq BOOLEAN
  /\ stable \in 0..MaxVersion
  /\ budget \in 0..FaultBudget

-------------------------------------------------------------------------------
(* What the properties talk about *)

\* No request is under way, or the one that is has committed and cleans up.
Settled == ~RecoveryWaits /\ phase \in {"idle", "clean"}

\* The package directory holds the files of version v, or nothing at all.
FilesAre(v) ==
  IF v = None THEN ~Exists(device.pkg)
              ELSE \A e \in CodeLike : device.pkg[e] = {<<"self", v>>}
IconsAre(v) == \A a \in Apps : device.icon[a] = v
StorageIs(v) == <<"conf", v>> \in device.pkg["data"] /\ <<"res", v>> \in device.pkg["shared"]

SetAside ==
  \/ Exists(device.bck)
  \/ device.xmlBck # None
  \/ \E a \in Apps : device.iconBck[a] # None
HalfInstalled ==
  /\ stable = None
  /\ ~FilesAre(None) \/ ~IconsAre(None) \/ device.xml # None \/ device.db # None

\* Histories a property makes an exception for.  Each is a weakness of the code
\* that the README describes; what the property says, it says of all the others.
Happened(kinds, places) == \E f \in faults : f[1] \in kinds /\ f[2] \in places
Only(kinds) == \A f \in faults : f[1] \in kinds
Died == ~Only({"fail", "undo", "clean"})

\* The clean-up was cut short, so that a backup outlives its update.
CleanCutShort == ~Only({"fail", "undo", "crash", "crashInUndo", "crashAtEnd"})
\* Backup() was cut short, so that a part of the package is all of the backup.
BackupCutShort == Happened({"fail", "crash"}, {"Backup"})
\* The manifest of an installation that was taken back stays, so that a row that
\* stayed too makes the next request an update of it.
ManifestLeft == Happened({"fail"}, {"ManifestRemoval"})
\* A rollback or a recovery failed itself; neither is tried again.
NotReverted ==
  \/ ~Only({"fail", "clean", "crash", "crashInUndo", "crashInClean", "crashAtEnd"})
  \/ Happened({"fail"}, {"RecoverFiles", "RecoverApplication", "RecoverManifest",
                         "ManifestRemoval", "RecoverIcons", "RecoverStorage"})
Excused == CleanCutShort \/ BackupCutShort \/ NotReverted
\* The only copy of the old manifest is torn.
ManifestCopyCutShort == Happened({"fail", "crash"}, {"BackupManifest"})
\* The rules of a half registered installation outlive it once its process dies.
RulesCutShort ==
  \/ Happened({"crash"}, {"RegisterSecurity"})
  \/ Happened({"fail"}, {"RegisterSecurity"}) /\ Died

-------------------------------------------------------------------------------
(* Properties *)

\* Whatever fails and wherever the process dies, once the request is rolled back
\* or recovered the package directory holds exactly the files of the version that
\* was committed last: the undo() of StepCopy and StepCopyBackup and
\* StepRecoverFiles never leave a mixture of versions.
FilesAtRest == Settled /\ ~Excused => FilesAre(stable)

\* Likewise the database and the installed manifest agree with each other and with
\* that version, although they are written by different steps and reverted by
\* different undo() and recovery steps, some of which read the one to restore the
\* other.
RegistryAtRest ==
  Settled /\ ~Excused /\ ~ManifestCopyCutShort =>
    device.db = stable /\ device.xml = stable

\* As long as no process dies, a request that fails leaves the icons of the version
\* committed last, although StepCreateIcons refuses to replace an icon and
\* StepBackupIcons::undo() to move one back over another.
IconsAtRest == Settled /\ ~Excused /\ ~Died => IconsAre(stable)

\* The security context is the one of the version committed last, unless it is
\* StepUpdateSecurity that fails or the installation dies while it registers.
SecurityAtRest ==
  Settled /\ ~Excused /\ ~Happened({"fail"}, {"UpdateSecurity"}) /\ ~RulesCutShort =>
    device.sec = stable

\* A file the user has stored survives every update, rollback and recovery, in
\* whatever order its directory moves between the package and its backup, as long
\* as the removal of the copied directory is not what is cut short.
UserDataSurvives ==
  /\ Settled /\ ~Excused /\ written
  /\ ~Happened({"fail", "crash"}, {"StorageRemove"})
  => UserFile \in device.pkg["data"]

\* When nothing is under way and nothing waits for a recovery, nothing lies
\* around: no unpacked archive, no backup of files, manifest or icons.  The next
\* update depends on it, for the steps that make backups refuse to replace one.
NothingLeftBehind ==
  Settled /\ Idle /\ ~CleanCutShort /\ ~NotReverted => device.tmp = Missing /\ ~SetAside

\* At no moment of an update, of its rollback or of its recovery, nor after one that
\* failed itself and that nobody tries again, is there an entry of the version
\* committed last that is neither in the package directory nor in the backup: the
\* device may lose power, or undo() and the recovery fail to move the backup back,
\* at any point and that version can still be put back.
OldVersionNeverLost ==
  stable # None /\ ~CleanCutShort /\ ~BackupCutShort /\ ~ManifestLeft =>
    \A e \in CodeLike : <<"self", stable>> \in device.pkg[e] \cup device.bck[e]

\* Before the first thing is set aside or installed there is a recovery file that
\* says so and names the package, and it stays until everything is back in place,
\* unless writing that file is what fails or is interrupted.
RecoveryArmed ==
  /\ ~Settled /\ (SetAside \/ HalfInstalled)
  /\ ~CleanCutShort /\ ~NotReverted
  /\ ~Happened({"fail"}, {"RecoveryFile"}) /\ ~Happened({"crash"}, {"ParseRecovery"})
  => device.rec.kind \in {"Install", "Update"} /\ device.rec.pkgid

\* A request that was not committed leaves nothing of its version in the package, the
\* manifest, the icons or the database.  Unlike the properties above, this is also
\* about histories in which a recovery finds an icon without a backup, a torn copy
\* of the manifest, or a backup that has outlived its update: they lose something,
\* but do not mix versions.  Only half a package that is taken for a whole one does.
NothingNewerStays ==
  /\ Settled /\ ~NotReverted /\ ~BackupCutShort
  /\ ~Happened({"clean", "crashInClean"}, {"CopyBackup"})
  => /\ \A e \in CodeLike : \A f \in device.pkg[e] : f[2] <= stable
     /\ \A v \in {device.db, device.xml} \cup {device.icon[a] : a \in Apps} : v <= stable

-------------------------------------------------------------------------------
(* What the documentation promises and the code does not keep *)

\* step.h: undo() undoes the step's work after failure.  So when steps have only
\* failed, the security context is that of the version committed last.
SecurityReverted == Settled /\ Idle /\ Only({"fail"}) => device.sec = stable

\* step_copy_storage_directories.h: undo() restores the original content of the
\* data and shared directories, here when moving them there and back went well.
StorageReverted ==
  /\ Settled /\ Idle /\ ~global /\ stable # None
  /\ Only({"fail"}) /\ ~Happened({"fail"}, {"Backup", "CopyStorage", "StorageRemove"})
  => StorageIs(stable)

\* step_copy_backup.h: undo() restores the original package files, here after any
\* history in which no undo(), no recovery and no move into the backup fails.
FilesReverted == Settled /\ Idle /\ ~NotReverted /\ ~BackupCutShort => FilesAre(stable)

\* step_recover_files.h: the old files of an interrupted update are restored.
FilesRecovered == Settled /\ Idle /\ Only({"crash"}) => FilesAre(stable)

\* step_recovery.h: the recovery of installations and updates is supported, so
\* with no more faults to come an interrupted one is recovered at some time.
RecoveryCompletes == RecoveryWaits ~> ~RecoveryWaits
===============================================================================
