----------------------------- MODULE RecoverySteps ----------------------------
(***************************************************************************)
(* The recovery of an interrupted installation or update: the steps derived *)
(* from StepRecovery, each with a RecoveryNew() and a RecoveryUpdate().     *)
(***************************************************************************)
EXTENDS CommonSteps

New == ctx.file.kind = "Install"
Updating == ctx.file.kind = "Update"

\* StepOpenRecoveryFile.  A file of unknown type trips the assert: see Abort.
OpenRecoveryFile ==
  /\ Process("OpenRecoveryFile", "start")
  /\ \/ /\ NoFault
        /\ device.rec.kind \in {"Install", "Update"}
        /\ Done(device, [ctx EXCEPT !.file = device.rec,
                                    !.unpacked = device.rec.dir,
                                    !.pkgid = device.rec.pkgid])
     \/ FailsHere("OpenRecoveryFile")

\* undo() detaches the object, so that the file outlives the process.
OpenRecoveryFileUndo ==
  /\ Undo("OpenRecoveryFile", "start")
  /\ NoFault
  /\ part' = "start"
  /\ ctx' = [ctx EXCEPT !.file = NoRecovery]
  /\ UNCHANGED <<device, envVars>>
  /\ StepUndone(TRUE)

-------------------------------------------------------------------------------
(* StepParseManifest for a recovery: the first manifest found in the backup,   *)
(* the package and the installed manifests; finding none is not an error.      *)

ManifestFound ==
  IF Has(device.bck, "manifest") THEN VersionOf(device.bck["manifest"])
  ELSE IF Has(device.pkg, "manifest") THEN VersionOf(device.pkg["manifest"])
  ELSE device.xml

ParseRecovery ==
  /\ Process("ParseRecovery", "start")
  /\ \/ /\ NoFault
        /\ IF ~ctx.pkgid \/ ManifestFound = Torn
             THEN Failed(device, ctx)
             ELSE IF ManifestFound = None
               THEN Done(device, ctx)
               ELSE GoOn("rec", device, ctx)
     \/ FailsHere("ParseRecovery")

ParseRecoveryWrite(d) ==
  /\ Process("ParseRecovery", "rec")
  /\ WriteRecovery(ctx.file, d)
  /\ Done(d, [ctx EXCEPT !.man = ManifestFound])

-------------------------------------------------------------------------------
(* StepRecoverApplication: the outcome of the unregistration is ignored.  The  *)
(* certificate_info of a recovery is empty: no step of it reads a signature.   *)

RecoverApplication ==
  /\ Process("RecoverApplication", "start")
  /\ LET removed == [device EXCEPT !.db = None, !.cert = FALSE]
         Then(d) == IF New THEN Done(d, ctx) ELSE GoOn("register", d, ctx)
     IN  \/ NoFault /\ Then(removed)
         \/ Fault("fail", "RecoverApplication") /\ Then(device)

RecoverApplicationRegister ==
  /\ Process("RecoverApplication", "register")
  /\ \/ /\ NoFault
        /\ IF ctx.man = None THEN Failed(device, ctx)
             ELSE GoOn("certs", [device EXCEPT !.db = ctx.man], ctx)
     \/ FailsHere("RecoverApplication")

RecoverApplicationCerts ==
  /\ Process("RecoverApplication", "certs")
  /\ \/ NoFault /\ Done([device EXCEPT !.cert = FALSE], ctx)
     \/ FailsHere("RecoverApplication")

-------------------------------------------------------------------------------
(* StepRemoveTemporaryDirectory, StepRecoverIcons, StepRecoverManifest *)

RemoveTemporaryDirectory ==
  /\ Process("RemoveTemporaryDirectory", "start")
  /\ NoFault
  /\ Done(IF ctx.unpacked THEN [device EXCEPT !.tmp = Missing] ELSE device, ctx)

\* Mutant: an icon without a backup is taken for one of the old version.
RecoverIconsOfBackup ==
  /\ Process("RecoverIcons", "start")
  /\ NoFault
  /\ LET found == {a \in Apps : device.iconBck[a] # None}
     IN  IF ctx.man = None
           THEN Done(device, ctx)
           ELSE GoOn("move", device, [ctx EXCEPT !.todo = found])

\* Every icon of the package and every backup of one counts, if a manifest is known.
RecoverIcons ==
  /\ Process("RecoverIcons", "start")
  /\ NoFault
  /\ LET found == {a \in Apps : device.icon[a] # None \/ device.iconBck[a] # None}
     IN  IF ctx.man = None
           THEN Done(device, ctx)
           ELSE GoOn("move", device, [ctx EXCEPT !.todo = found])

\* The icon is removed, and replaced by its backup if there is one.  Only an icon
\* of an update that cannot be removed is an error; the other failures are ignored.
RecoverIconsMove ==
  /\ Process("RecoverIcons", "move")
  /\ \/ /\ NoFault
        /\ ctx.todo = {}
        /\ Done(device, ctx)
     \/ \E a \in ctx.todo :
          \/ /\ NoFault
             /\ GoOn("move",
                     IF New THEN [device EXCEPT !.icon[a] = None]
                            ELSE [device EXCEPT !.icon[a] = device.iconBck[a],
                                                !.iconBck[a] = None],
                     [ctx EXCEPT !.todo = @ \ {a}])
          \/ Updating /\ device.icon[a] # None /\ FailsHere("RecoverIcons")
          \/ /\ Fault("fail", "RecoverIcons")
             /\ GoOn("move", IF New THEN device ELSE [device EXCEPT !.icon[a] = None],
                     [ctx EXCEPT !.todo = @ \ {a}])

\* A manifest that cannot be removed from an installation, or moved back after an
\* update, is ignored.
RecoverManifest ==
  /\ Process("RecoverManifest", "start")
  /\ \/ /\ NoFault
        /\ Done(IF New
                  THEN [device EXCEPT !.xml = None]
                  ELSE IF device.xmlBck = None
                    THEN device
                    ELSE [device EXCEPT !.xml = device.xmlBck, !.xmlBck = None], ctx)
     \/ Updating /\ device.xml # None /\ device.xmlBck # None /\ FailsHere("RecoverManifest")
     \/ New /\ device.xml # None /\ Fault("fail", "ManifestRemoval") /\ Done(device, ctx)
     \/ /\ Updating /\ device.xmlBck # None /\ Fault("fail", "RecoverManifest")
        /\ Done([device EXCEPT !.xml = None], ctx)

-------------------------------------------------------------------------------
(* StepRecoverStorageDirectories: storage that is in the package directory and *)
(* no longer in the backup goes back to the backup; failures are ignored.      *)

StorageRecovered(d, key) ==
  IF Updating /\ Exists(d.bck) /\ Has(d.pkg, key) /\ ~Has(d.bck, key)
    THEN [d EXCEPT !.bck = Put(@, key, d.pkg[key]), !.pkg = Drop(@, key)]
    ELSE d

RecoverStorageDirectories ==
  /\ Process("RecoverStorageDirectories", "start")
  /\ \/ NoFault /\ GoOn("shared", StorageRecovered(device, "data"), ctx)
     \/ Fault("fail", "RecoverStorage") /\ GoOn("shared", device, ctx)

RecoverStorageShared ==
  /\ Process("RecoverStorageDirectories", "shared")
  /\ \/ NoFault /\ Done(StorageRecovered(device, "shared"), ctx)
     \/ Fault("fail", "RecoverStorage") /\ Done(device, ctx)

-------------------------------------------------------------------------------
(* StepRecoverFiles: removes the package directory, then moves the backup to   *)
(* its place; the result of the move is ignored.                               *)

\* Mutant: the new files are not removed, and then the move refuses to replace them.
RecoverFilesInPlace ==
  /\ Process("RecoverFiles", "start")
  /\ NoFault
  /\ Done(IF New THEN [device EXCEPT !.pkg = Missing] ELSE device, ctx)

RecoverFiles ==
  /\ Process("RecoverFiles", "start")
  /\ IF New
       THEN \/ NoFault /\ Done([device EXCEPT !.pkg = Missing], ctx)
            \/ /\ Fault("fail", "RecoverFiles")
               /\ \E t \in RemoveCut(device.pkg) : Done([device EXCEPT !.pkg = t], ctx)
       ELSE IF ~Exists(device.bck)
         THEN NoFault /\ Done(device, ctx)
         ELSE \/ NoFault /\ GoOn("move", [device EXCEPT !.pkg = Missing], ctx)
              \/ /\ Fault("fail", "RecoverFiles")
                 /\ \E t \in RemoveCut(device.pkg) : Failed([device EXCEPT !.pkg = t], ctx)

RecoverFilesMove ==
  /\ Process("RecoverFiles", "move")
  /\ \/ NoFault /\ Done([device EXCEPT !.pkg = device.bck, !.bck = Missing], ctx)
     \/ Fault("fail", "RecoverFiles") /\ Done(device, ctx)

\* StepRecoverSecurity: a package whose directory is gone keeps its rules.
RecoverSecurity ==
  /\ Process("RecoverSecurity", "start")
  /\ LET known == Exists(device.pkg) /\ ctx.man # None
     IN  \/ /\ NoFault
            /\ IF known
                 THEN Done([device EXCEPT !.sec = IF New THEN None ELSE ctx.man], ctx)
                 ELSE IF New THEN Done(device, ctx) ELSE Failed(device, ctx)
         \/ known /\ FailsHere("RecoverSecurity")
===============================================================================
