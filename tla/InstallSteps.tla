----------------------------- MODULE InstallSteps -----------------------------
(***************************************************************************)
(* The steps only an installation has.                                     *)
(***************************************************************************)
EXTENDS CommonSteps

(* StepRollbackInstallationSecurity and StepRegisterSecurity: the second one   *)
(* registers, the first one unregisters when the installation is undone.       *)

RollbackInstallationSecurity ==
  /\ Process("RollbackInstallationSecurity", "start")
  /\ NoFault
  /\ Done(device, ctx)

\* Mutant: the rules stay.
RollbackInstallationSecurityUndoNothing ==
  /\ Undo("RollbackInstallationSecurity", "start")
  /\ NoFault
  /\ Undone(TRUE, device)

RollbackInstallationSecurityUndo ==
  /\ Undo("RollbackInstallationSecurity", "start")
  /\ \/ NoFault /\ Undone(TRUE, [device EXCEPT !.sec = None])
     \/ /\ Fault("undo", "RollbackInstallationSecurity")
        /\ Undone(FALSE, device)

\* The rules are registered application by application.
RegisterSecurity ==
  /\ Process("RegisterSecurity", "start")
  /\ \/ NoFault /\ Done([device EXCEPT !.sec = ctx.man], ctx)
     \/ /\ Fault("fail", "RegisterSecurity")
        /\ \E s \in {device.sec, Torn} : Failed([device EXCEPT !.sec = s], ctx)

-------------------------------------------------------------------------------
(* StepCopy and StepCreateStorageDirectories *)

Copy ==
  /\ Process("Copy", "start")
  /\ \/ /\ NoFault
        /\ Done([device EXCEPT !.pkg = MoveTree(device.tmp, device.pkg), !.tmp = Missing],
                ctx)
     \/ FailsHere("Copy")

CopyUndo ==
  /\ Undo("Copy", "start")
  /\ \/ NoFault /\ Undone(TRUE, [device EXCEPT !.pkg = Missing])
     \/ /\ Fault("undo", "Copy")
        /\ \E t \in RemoveCut(device.pkg) : Undone(FALSE, [device EXCEPT !.pkg = t])

\* GLOBAL mode removes the writable directories the package has brought along.
CreateStorageDirectories ==
  /\ Process("CreateStorageDirectories", "start")
  /\ \/ /\ NoFault
        /\ LET made == [k \in StorageKeys |-> device.pkg[k] \cup {Dot}]
           IN  Done([device EXCEPT
                 !.pkg = IF global THEN Drop(@, "data")
                                   ELSE Put(Put(@, "data", made["data"]),
                                            "shared", made["shared"])], ctx)
     \/ ~global /\ FailsHere("CreateStorageDirectories")

-------------------------------------------------------------------------------
(* StepRegisterApplication: the row of the package, then its certificates. *)

RegisterApplication ==
  /\ Process("RegisterApplication", "start")
  /\ \/ /\ NoFault
        /\ IF device.xml = None THEN Failed(device, ctx)
             ELSE GoOn("certs", [device EXCEPT !.db = ctx.man], ctx)
     \/ FailsHere("RegisterApplication")

RegisterApplicationCerts ==
  /\ Process("RegisterApplication", "certs")
  /\ \/ NoFault /\ Done([device EXCEPT !.cert = TRUE], ctx)
     \/ FailsHere("RegisterApplication")

\* Without a row to delete, the answer of the database is not known.
RegisterApplicationUndo ==
  /\ Undo("RegisterApplication", "start")
  /\ \/ /\ NoFault
        /\ \/ Undone(TRUE, [device EXCEPT !.db = None, !.cert = FALSE])
           \/ device.db = None /\ Undone(FALSE, device)
     \/ /\ Fault("undo", "RegisterApplication")
        /\ Undone(FALSE, device)
===============================================================================
