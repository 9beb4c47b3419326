------------------------------ MODULE UpdateSteps -----------------------------
(***************************************************************************)
(* The steps only an update has: what they set aside of the old version,   *)
(* what they put in its place, and how they bring the old version back.    *)
(***************************************************************************)
EXTENDS CommonSteps

\* StepCheckOldCertificate: both versions are signed by the same author, so the
\* check fails exactly when the certificate of the old one is not on record.
CheckOldCertificate ==
  /\ Process("CheckOldCertificate", "start")
  /\ \/ /\ NoFault
        /\ IF device.cert THEN Done(device, ctx) ELSE Failed(device, ctx)
     \/ FailsHere("CheckOldCertificate")

-------------------------------------------------------------------------------
(* StepBackupManifest: copies the manifest; the copy must not exist before. *)

BackupManifest ==
  /\ Process("BackupManifest", "start")
  /\ \/ device.xml = None /\ NoFault /\ Failed(device, ctx)
     \/ /\ device.xml # None
        /\ LET c == [ctx EXCEPT !.bxml = TRUE]
           IN  IF device.xmlBck # None
                 THEN NoFault /\ Failed(device, c)
                 ELSE \/ NoFault /\ Done([device EXCEPT !.xmlBck = device.xml], c)
                      \/ /\ Fault("fail", "BackupManifest")
                         /\ \E left \in {None, Torn} :
                              Failed([device EXCEPT !.xmlBck = left], c)

\* Mutant: the backup is copied back and not moved.
BackupManifestUndoCopies ==
  /\ Undo("BackupManifest", "start")
  /\ NoFault
  /\ Undone(TRUE, IF ctx.bxml /\ device.xmlBck # None
                    THEN [device EXCEPT !.xml = device.xmlBck] ELSE device)

BackupManifestUndo ==
  /\ Undo("BackupManifest", "start")
  /\ IF ~(ctx.bxml /\ device.xmlBck # None)
       THEN NoFault /\ Undone(TRUE, device)
       ELSE \/ /\ NoFault
               /\ Undone(TRUE, [device EXCEPT !.xml = device.xmlBck, !.xmlBck = None])
            \/ /\ Fault("undo", "BackupManifest")
               /\ \E left \in {device.xml, None} :
                    Undone(FALSE, [device EXCEPT !.xml = left])

BackupManifestClean ==
  /\ Clean("BackupManifest")
  /\ \/ NoFault /\ Cleaned([device EXCEPT !.xmlBck = None], ctx)
     \/ Fault("clean", "BackupManifest") /\ NotCleaned(device)

-------------------------------------------------------------------------------
(* StepBackupIcons: moves the icons of the old version aside, one by one. *)

BackupIcons ==
  /\ Process("BackupIcons", "start")
  /\ NoFault
  /\ LET found == {a \in Apps : device.icon[a] # None}
     IN  GoOn("move", device, [ctx EXCEPT !.gathered = found, !.todo = found])

BackupIconsMove ==
  /\ Process("BackupIcons", "move")
  /\ \/ /\ NoFault
        /\ ctx.todo = {}
        /\ Done(device, ctx)
     \/ \E a \in ctx.todo :
          \/ /\ NoFault
             /\ IF device.iconBck[a] = None
                  THEN GoOn("move", [device EXCEPT !.iconBck[a] = device.icon[a],
                                                   !.icon[a] = None],
                            [ctx EXCEPT !.todo = @ \ {a}])
                  ELSE Failed(device, ctx)
          \/ FailsHere("BackupIcons")

\* The icons that were moved are moved back; the first one that was not moved,
\* or cannot be moved back, ends the loop with an error.
BackupIconsUndo ==
  /\ Undo("BackupIcons", "start")
  /\ LET moved == {a \in ctx.gathered : device.iconBck[a] # None /\ device.icon[a] = None}
     IN  \E back \in SUBSET moved :
           /\ IF back = moved THEN NoFault ELSE Fault("undo", "BackupIcons")
           /\ Undone(back = ctx.gathered,
                [device EXCEPT
                   !.icon = [a \in Apps |-> IF a \in back THEN device.iconBck[a]
                                                          ELSE device.icon[a]],
                   !.iconBck = [a \in Apps |-> IF a \in back THEN None
                                                             ELSE device.iconBck[a]]])

\* An icon that cannot be removed is logged and otherwise ignored.
BackupIconsClean ==
  /\ Clean("BackupIcons")
  /\ \E left \in SUBSET ctx.gathered :
       /\ IF left = {} THEN NoFault ELSE Fault("clean", "BackupIcons")
       /\ Cleaned([device EXCEPT
            !.iconBck = [a \in Apps |-> IF a \in ctx.gathered \ left
                                          THEN None ELSE device.iconBck[a]]], ctx)

-------------------------------------------------------------------------------
(* StepCopyBackup: Backup() moves the old content aside, entry by entry in no  *)
(* particular order, and NewContent() moves the unpacked package in its place. *)

\* Without the backup directory every move out of the package directory fails.
CopyBackup ==
  /\ Process("CopyBackup", "start")
  /\ \/ /\ NoFault
        /\ LET d == [device EXCEPT !.bck = IF Exists(@) THEN @ ELSE EmptyDir]
           IN  IF Exists(device.pkg)
                 THEN GoOn("backup", d,
                           [ctx EXCEPT !.todo = {e \in Entries : Has(device.pkg, e)}])
                 ELSE Failed(d, ctx)
     \/ FailsHere("CopyBackup")

CopyBackupEntry ==
  /\ Process("CopyBackup", "backup")
  /\ \/ /\ NoFault
        /\ ctx.todo = {}
        /\ GoOn("content", device, ctx)
     \/ \E e \in ctx.todo :
          \/ /\ NoFault
             /\ IF Has(device.bck, e)
                  THEN Failed(device, ctx)
                  ELSE GoOn("backup", [device EXCEPT !.bck = Put(@, e, device.pkg[e]),
                                                     !.pkg = Drop(@, e)],
                            [ctx EXCEPT !.todo = @ \ {e}])
          \/ FailsHere("Backup")

CopyBackupNewContent ==
  /\ Process("CopyBackup", "content")
  /\ \/ /\ NoFault
        /\ Done([device EXCEPT !.pkg = MoveTree(device.tmp, device.pkg), !.tmp = Missing],
                ctx)
     \/ FailsHere("NewContent")

\* Mutant: undo() does not ask whether a backup was created.
CopyBackupUndoUnguarded ==
  /\ Undo("CopyBackup", "start")
  /\ NoFault
  /\ GoOn("restore", [device EXCEPT !.pkg = Missing, !.tmp = Missing], ctx)

CopyBackupUndo ==
  /\ Undo("CopyBackup", "start")
  /\ LET d == [device EXCEPT !.tmp = Missing]
     IN  IF ~Exists(device.bck)
           THEN NoFault /\ Undone(TRUE, d)
           ELSE \/ NoFault /\ GoOn("restore", [d EXCEPT !.pkg = Missing], ctx)
                \/ /\ Fault("undo", "CopyBackup")
                   /\ \E t \in RemoveCut(device.pkg) : Undone(FALSE, [d EXCEPT !.pkg = t])

CopyBackupRestore ==
  /\ Undo("CopyBackup", "restore")
  /\ \/ NoFault /\ Undone(TRUE, [device EXCEPT !.pkg = device.bck, !.bck = Missing])
     \/ Fault("undo", "CopyBackup") /\ Undone(FALSE, device)

CopyBackupClean ==
  /\ Clean("CopyBackup")
  /\ \/ NoFault /\ Cleaned([device EXCEPT !.bck = Missing], ctx)
     \/ /\ Fault("clean", "CopyBackup")
        /\ \E t \in RemoveCut(device.bck) : NotCleaned([device EXCEPT !.bck = t])

-------------------------------------------------------------------------------
(* StepCopyStorageDirectories: what the user has stored goes from the backup  *)
(* to the new version; a file the new version brings along takes precedence.  *)

NextKey(key) == IF key = "data" THEN "shared" ELSE "cache"
Cleanup(key) == IF key = "data" THEN "rmdata" ELSE "rmshared"

\* Without a backup directory the step fails; in GLOBAL mode it has no work.
CopyStorageDirectories ==
  /\ Process("CopyStorageDirectories", "start")
  /\ NoFault
  /\ IF ~Exists(device.bck) THEN Failed(device, ctx)
     ELSE IF global THEN Done(device, ctx)
     ELSE GoOn("data", device, ctx)

\* One directory: renamed when the new version has none or an empty one, copied
\* file by file and then removed otherwise.
CopyStorageMove(key) ==
  /\ Process("CopyStorageDirectories", key)
  /\ LET src == device.bck[key]
         dst == device.pkg[key]
     IN  IF src = {}
           THEN NoFault /\ Failed(device, ctx)
           ELSE IF dst \subseteq {Dot}
             THEN \/ NoFault /\ GoOn(NextKey(key), [device EXCEPT !.pkg = Put(@, key, src),
                                                                  !.bck = Drop(@, key)], ctx)
                  \/ FailsHere("CopyStorage")
             ELSE \/ NoFault /\ GoOn(Cleanup(key),
                                     [device EXCEPT !.pkg = Put(@, key, Merge(dst, src))],
                                     ctx)
                  \/ /\ Fault("fail", "CopyStorage")
                     /\ \E files \in CopyCut(dst, src) :
                          Failed([device EXCEPT !.pkg = Put(@, key, files)], ctx)

CopyStorageRemove(key) ==
  /\ Process("CopyStorageDirectories", Cleanup(key))
  /\ \/ NoFault /\ GoOn(NextKey(key), [device EXCEPT !.bck = Drop(@, key)], ctx)
     \/ /\ Fault("fail", "StorageRemove")
        /\ \E left \in SUBSET (device.bck[key] \ {Dot}) :
             Failed([device EXCEPT !.bck = Put(@, key, left \cup {Dot})], ctx)

CopyStorageCache ==
  /\ Process("CopyStorageDirectories", "cache")
  /\ \/ NoFault /\ Done(device, ctx)
     \/ FailsHere("CopyStorage")

\* undo() moves both directories back, whatever process() has done with them.
UndoPart(key) == IF key = "data" THEN "start" ELSE "shared"
\* Mutant: a directory is moved back over the one in the backup.
CopyStorageUndoOver(key) ==
  /\ Undo("CopyStorageDirectories", UndoPart(key))
  /\ NoFault
  /\ LET d == [device EXCEPT !.bck = Put(Put(@, ".", {Dot}), key, device.pkg[key]),
                             !.pkg = Drop(@, key)]
     IN  IF key = "data" THEN GoOn("shared", d, ctx) ELSE Undone(TRUE, d)

CopyStorageUndo(key) ==
  /\ Undo("CopyStorageDirectories", UndoPart(key))
  /\ LET moves == Has(device.pkg, key) /\ ~Has(device.bck, key)
         d == [device EXCEPT !.bck = Put(Put(@, ".", {Dot}), key, device.pkg[key]),
                             !.pkg = Drop(@, key)]
         Result(ok, e) == IF key = "data" THEN GoOn("shared", e, [ctx EXCEPT !.ok = ok])
                                          ELSE Undone(ctx.ok /\ ok, e)
     IN  IF moves
           THEN \/ NoFault /\ Result(TRUE, d)
                \/ Fault("undo", "CopyStorage") /\ Result(FALSE, device)
           ELSE NoFault /\ Result(FALSE, device)

-------------------------------------------------------------------------------
(* StepUpdateApplication: the row of the package is rewritten, then its        *)
(* certificates are deleted and registered anew; undo() does the same with     *)
(* the old manifest and the certificate that is on record when it starts.      *)

UpdateApplication ==
  /\ Process("UpdateApplication", "start")
  /\ \/ NoFault /\ GoOn("certs", [device EXCEPT !.db = ctx.man, !.cert = FALSE], ctx)
     \/ FailsHere("UpdateApplication")

UpdateApplicationCerts ==
  /\ Process("UpdateApplication", "certs")
  /\ \/ NoFault /\ Done([device EXCEPT !.cert = TRUE], ctx)
     \/ FailsHere("Certificates")

\* Mutant: undo() registers the manifest that process() has registered.
UpdateApplicationUndoNew ==
  /\ Undo("UpdateApplication", "start")
  /\ NoFault
  /\ GoOn("certs", [device EXCEPT !.db = ctx.man, !.cert = FALSE],
          [ctx EXCEPT !.cert = device.cert])

UpdateApplicationUndo ==
  /\ Undo("UpdateApplication", "start")
  /\ \/ /\ NoFault
        /\ GoOn("certs", [device EXCEPT !.db = ctx.old, !.cert = FALSE],
                [ctx EXCEPT !.cert = device.cert])
     \/ /\ Fault("undo", "UpdateApplication")
        /\ Undone(FALSE, device)

UpdateApplicationUndoCerts ==
  /\ Undo("UpdateApplication", "certs")
  /\ \/ NoFault /\ Undone(TRUE, [device EXCEPT !.cert = ctx.cert])
     \/ Fault("undo", "Certificates") /\ Undone(FALSE, device)

-------------------------------------------------------------------------------
(* StepUpdateSecurity: process() and undo() register the same manifest_data.  *)

UpdateSecurity ==
  /\ Process("UpdateSecurity", "start")
  /\ \/ NoFault /\ Done([device EXCEPT !.sec = ctx.man], ctx)
     \/ /\ Fault("fail", "UpdateSecurity")
        /\ \E s \in {device.sec, Torn} : Failed([device EXCEPT !.sec = s], ctx)

UpdateSecurityUndo ==
  /\ Undo("UpdateSecurity", "start")
  /\ \/ NoFault /\ Undone(TRUE, [device EXCEPT !.sec = ctx.man])
     \/ /\ Fault("undo", "UpdateSecurity")
        /\ \E s \in {device.sec, Torn} : Undone(FALSE, [device EXCEPT !.sec = s])
===============================================================================
