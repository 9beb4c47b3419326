----------------------------- MODULE CommonSteps ------------------------------
(***************************************************************************)
(* The steps an installation and an update have in common, and what the    *)
(* steps without an undo() or a clean() of their own do.                   *)
(***************************************************************************)
EXTENDS PackageState

-------------------------------------------------------------------------------
(* StepConfigure: the recovery file exists, empty, before it has a content. *)

Configure ==
  /\ Process("Configure", "start")
  /\ \/ /\ NoFault
        /\ IF req = "Recovery"
             THEN Done(device, ctx)
             ELSE GoOn("write", [device EXCEPT !.rec = TornRecovery], ctx)
     \/ FailsHere("Configure")

ConfigureWrite ==
  /\ Process("Configure", "write")
  /\ LET file == [NoRecovery EXCEPT !.kind = req]
     IN  \/ /\ NoFault
            /\ Done([device EXCEPT !.rec = file], [ctx EXCEPT !.file = file])
         \/ /\ Fault("fail", "Configure")
            /\ Failed([device EXCEPT !.rec = NoRecovery], ctx)

\* clean() deletes the recovery file: from here on the new version stays.
ConfigureClean ==
  /\ Clean("Configure")
  /\ NoFault
  /\ part' = "start"
  /\ device' = [device EXCEPT !.rec = NoRecovery]
  /\ ctx' = [ctx EXCEPT !.file = NoRecovery]
  /\ stable' = IF req = "Recovery" THEN stable ELSE NewVersion
  /\ UNCHANGED <<req, global, written>>
  /\ StepCleaned(NumSteps)

-------------------------------------------------------------------------------
(* StepUnzip *)

Unzip ==
  /\ Process("Unzip", "start")
  /\ LET file == [ctx.file EXCEPT !.dir = TRUE]
     IN  \E d \in WriteResults(file) :
            WriteRecovery(file, d) /\ GoOn("mkdir", d, [ctx EXCEPT !.file = file])

UnzipCreateDir ==
  /\ Process("Unzip", "mkdir")
  /\ \/ NoFault /\ GoOn("extract", [device EXCEPT !.tmp = EmptyDir], ctx)
     \/ FailsHere("Unzip")

\* The size checks are failures of this part: it removes the directory again.
UnzipExtract ==
  /\ Process("Unzip", "extract")
  /\ \/ /\ NoFault
        /\ Done([device EXCEPT !.tmp = Shipped(NewVersion)], [ctx EXCEPT !.unpacked = TRUE])
     \/ /\ Fault("fail", "Unzip")
        /\ Failed([device EXCEPT !.tmp = Missing], ctx)

UnzipUndo ==
  /\ Undo("Unzip", "start")
  /\ NoFault
  /\ Undone(TRUE, IF ctx.unpacked THEN [device EXCEPT !.tmp = Missing] ELSE device)

-------------------------------------------------------------------------------
(* StepParseManifest, for the manifest of the package and for the installed one. *)

ParseManifest ==
  /\ Process("ParseManifest", "start")
  /\ \/ /\ NoFault
        /\ ctx.unpacked /\ Has(device.tmp, "manifest")
        /\ GoOn("rec", device, [ctx EXCEPT !.pkgid = TRUE])
     \/ FailsHere("ParseManifest")

ParseInstalled ==
  /\ Process("ParseInstalled", "start")
  /\ \/ /\ NoFault
        /\ IF device.xml \in Versions THEN GoOn("rec", device, ctx)
                                      ELSE Failed(device, ctx)
     \/ FailsHere("ParseInstalled")

\* Mutant: the package id is not written to the recovery file.
ParseWriteForgets(d) ==
  /\ NoFault
  /\ d = device
  /\ \/ /\ Process("ParseManifest", "rec")
        /\ Done(d, [ctx EXCEPT !.man = VersionOf(device.tmp["manifest"])])
     \/ Process("ParseInstalled", "rec") /\ Done(d, [ctx EXCEPT !.old = device.xml])

\* Both write the package id to the recovery file before they publish the
\* manifest they have read.
ParseWrite(d) ==
  LET file == [ctx.file EXCEPT !.pkgid = TRUE]
  IN  \/ /\ Process("ParseManifest", "rec")
         /\ WriteRecovery(file, d)
         /\ Done(d, [ctx EXCEPT !.file = file, !.man = VersionOf(device.tmp["manifest"])])
      \/ /\ Process("ParseInstalled", "rec")
         /\ WriteRecovery(file, d)
         /\ Done(d, [ctx EXCEPT !.file = file, !.old = device.xml])

-------------------------------------------------------------------------------
(* StepCreateIcons and the step of the backend that installs the manifest. *)

CreateIcons ==
  /\ Process("CreateIcons", "start")
  /\ NoFault
  /\ GoOn("copy", device, [ctx EXCEPT !.todo = Apps])

CreateIconsCopy ==
  /\ Process("CreateIcons", "copy")
  /\ \/ /\ NoFault
        /\ ctx.todo = {}
        /\ Done(device, ctx)
     \/ \E a \in ctx.todo :
          \/ /\ NoFault
             /\ IF device.icon[a] = None
                  THEN GoOn("copy", [device EXCEPT !.icon[a] = ctx.man],
                            [ctx EXCEPT !.todo = @ \ {a}, !.made = @ \cup {a}])
                  ELSE Failed(device, ctx)
          \/ FailsHere("CreateIcons")

\* Mutant: the new icons stay, in the way of the old ones.
CreateIconsUndoNothing ==
  /\ Undo("CreateIcons", "start")
  /\ NoFault
  /\ Undone(TRUE, device)

CreateIconsUndo ==
  /\ Undo("CreateIcons", "start")
  /\ NoFault
  /\ Undone(TRUE, [device EXCEPT
       !.icon = [a \in Apps |-> IF a \in ctx.made THEN None ELSE device.icon[a]]])

\* External: the backend writes the manifest to xml_path and removes it in undo().
CreateManifest ==
  /\ Process("CreateManifest", "start")
  /\ \/ NoFault /\ Done([device EXCEPT !.xml = ctx.man], ctx)
     \/ FailsHere("CreateManifest")

CreateManifestUndo ==
  /\ Undo("CreateManifest", "start")
  /\ NoFault
  /\ Undone(TRUE, [device EXCEPT !.xml = None])

-------------------------------------------------------------------------------
(* The steps whose undo() or clean() only returns OK. *)

HasUndo ==
  {"Unzip", "RollbackInstallationSecurity", "Copy", "CreateIcons", "CreateManifest",
   "RegisterApplication", "BackupManifest", "BackupIcons", "CopyBackup",
   "CopyStorageDirectories", "UpdateApplication", "UpdateSecurity", "OpenRecoveryFile"}
HasClean == {"Configure", "BackupManifest", "BackupIcons", "CopyBackup"}

NothingToUndo ==
  /\ phase = "undo"
  /\ Step \notin HasUndo
  /\ NoFault
  /\ Undone(TRUE, device)

NothingToClean ==
  /\ phase = "clean"
  /\ Step \notin HasClean
  /\ NoFault
  /\ Cleaned(device, ctx)
===============================================================================
