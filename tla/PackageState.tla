----------------------------- MODULE PackageState -----------------------------
(***************************************************************************)
(* The state the steps of a request work on: what is on the device, what   *)
(* the process of the request holds in memory (InstallerContext and the    *)
(* members of its steps), and the step loop that drives it.  A handler of  *)
(* a step that calls several operations is cut into parts, so that the     *)
(* process can die between any two of them.                                *)
(***************************************************************************)
EXTENDS Integers, Sequences, StepRunner, FileTree

CONSTANTS
  Apps,         \* applications of the package; each has an icon
  MaxVersion,   \* versions 1..MaxVersion of the package are requested in order
  FaultBudget,  \* how many failures and crashes the environment may cause
  Modes         \* the request modes considered: TRUE stands for GLOBAL

ASSUME StateAssumption ==
  /\ MaxVersion \in Nat
  /\ FaultBudget \in Nat
  /\ Modes \subseteq BOOLEAN
  /\ CodeEntries \cap ({"."} \cup {"manifest", "data", "shared"}) = {}

VARIABLES
  device,   \* everything that survives the process
  ctx,      \* memory of the process that handles the request
  req,      \* the request being handled
  part,     \* which part of the current handler comes next; "start" is the first
  global,   \* the request mode of this device's requests
  stable,   \* history: the version last committed, 0 if none
  written,  \* history: the user has a file of their own in the data directory
  faults,   \* history: <<kind, where>> of every failure and crash so far
  budget    \* failures and crashes that may still happen

envVars == <<req, global, stable, written>>
vars == <<runnerVars, device, ctx, part, envVars, faults, budget>>

None == 0     \* version of a file, row or rule that does not exist
Torn == -1    \* of one that was only half written
Versions == 1..MaxVersion
Marks == Versions \cup {None, Torn}

\* The package of version v as it comes out of its archive: every version ships
\* a file in shared/, and a configuration file in data/.
Shipped(v) ==
  [n \in Nodes |->
     CASE n = "."      -> {Dot}
       [] n = "data"   -> {Dot, <<"conf", v>>}
       [] n = "shared" -> {Dot, <<"res", v>>}
       [] OTHER        -> {<<"self", v>>}]
UserFile == <<"user", 0>>
VersionOf(files) == IF files = {} THEN None ELSE (CHOOSE f \in files : TRUE)[2]

\* A recovery file; kind is "none" when there is none and "torn" when its first
\* line is not there, so that its type reads as RequestType::Unknown.
NoRecovery == [kind |-> "none", dir |-> FALSE, pkgid |-> FALSE]
TornRecovery == [NoRecovery EXCEPT !.kind = "torn"]

CleanDevice ==
  [pkg    |-> Missing,                 \* <root>/<pkgid>
   bck    |-> Missing,                 \* <root>/<pkgid>.bck
   tmp    |-> Missing,                 \* <root>/unpack-XXXXXX
   xml    |-> None,                    \* the installed manifest
   xmlBck |-> None,                    \* ... .xml.bck
   icon   |-> [a \in Apps |-> None],   \* installed icons
   iconBck |-> [a \in Apps |-> None],  \* ... .bck
   db     |-> None,                    \* version in the package database
   cert   |-> FALSE,                   \* author certificate in the database
   sec    |-> None,                    \* version the security context is for
   rec    |-> NoRecovery]              \* <root>/recovery-XXXXXX

FreshContext ==
  [pkgid    |-> FALSE,        \* pkgid is set
   unpacked |-> FALSE,        \* unpacked_dir_path is set
   man      |-> None,         \* version of manifest_data
   old      |-> None,         \* version of old_manifest_data
   bxml     |-> FALSE,        \* backup_xml_path is set
   gathered |-> {},           \* icons_ of BackupIcons, RecoverIcons
   made     |-> {},           \* icons_ of CreateIcons
   todo     |-> {},           \* what a loop of a handler has left to do
   cert     |-> FALSE,        \* certificate kept by UpdateApplication::undo()
   ok       |-> TRUE,         \* the status a handler is going to return
   file     |-> NoRecovery]   \* recovery_info.recovery_file; "none" if null

\* The step lists of the backends: the order in which they add the steps.
Pipeline ==
  [Install |->
     <<"Configure", "Unzip", "ParseManifest", "RollbackInstallationSecurity", "Copy",
       "CreateStorageDirectories", "CreateIcons", "CreateManifest",
       "RegisterApplication", "RegisterSecurity">>,
   Update |->
     <<"Configure", "Unzip", "ParseManifest", "CheckOldCertificate", "ParseInstalled",
       "BackupManifest", "BackupIcons", "CopyBackup", "CopyStorageDirectories",
       "CreateIcons", "CreateManifest", "UpdateApplication", "UpdateSecurity">>,
   Recovery |->
     <<"Configure", "OpenRecoveryFile", "ParseRecovery", "RecoverApplication",
       "RemoveTemporaryDirectory", "RecoverIcons", "RecoverManifest",
       "RecoverStorageDirectories", "RecoverFiles", "RecoverSecurity">>]

Requests == {"Install", "Update", "Recovery"}
NumSteps == Len(Pipeline[req])
Step == Pipeline[req][it]
NewVersion == stable + 1

-------------------------------------------------------------------------------
(* Guards and outcomes of the parts of a handler. *)

Process(step, p) == phase = "process" /\ Step = step /\ part = p
Undo(step, p) == phase = "undo" /\ Step = step /\ part = p
Clean(step) == phase = "clean" /\ Step = step

NoFault == UNCHANGED <<faults, budget>>
Fault(kind, where) ==
  /\ budget > 0
  /\ budget' = budget - 1
  /\ faults' = faults \cup {<<kind, where>>}

Leave(d, c) == device' = d /\ ctx' = c /\ UNCHANGED envVars

\* The handler goes on with another part, returns OK, or returns an error.
GoOn(p, d, c) == part' = p /\ Leave(d, c) /\ UNCHANGED runnerVars
Done(d, c) == part' = "start" /\ Leave(d, c) /\ StepOk(NumSteps)
Failed(d, c) == part' = "start" /\ Leave(d, c) /\ StepFails
Undone(ok, d) == part' = "start" /\ Leave(d, [ctx EXCEPT !.ok = TRUE]) /\ StepUndone(ok)
Cleaned(d, c) == part' = "start" /\ Leave(d, c) /\ StepCleaned(NumSteps)
NotCleaned(d) == part' = "start" /\ Leave(d, ctx) /\ StepCleanFails

\* A step that fails without having changed anything.
FailsHere(step) == Fault("fail", step) /\ Failed(device, ctx)

\* RecoveryFile::WriteAndCommitFileContent(): the new content replaces the old
\* one.  When the write fails the old content or an empty file is left, which no
\* caller but StepConfigure looks at.
WriteResults(file) == {[device EXCEPT !.rec = r] : r \in {file, TornRecovery, device.rec}}
WriteRecovery(file, d) ==
  \/ NoFault /\ d = [device EXCEPT !.rec = file]
  \/ Fault("fail", "RecoveryFile") /\ d \in WriteResults(file)
===============================================================================
