------------------------ MODULE PackageTransactionProofs ------------------------
(***************************************************************************)
(* What a package goes through in installations, updates and recoveries,   *)
(* for any applications and entries, any number of versions and any number *)
(* of failures and crashes.                                                *)
(***************************************************************************)
EXTENDS PackageTransaction, TLAPS

Files == {Dot, UserFile} \cup {"self", "conf", "res"} \X Versions
CodeFiles == {"self"} \X Versions
Last == IF req = "Update" THEN 13 ELSE 10

-------------------------------------------------------------------------------
(* The types *)

\* Code is not mixed with storage.
TreeOK(t) ==
  /\ t \in Trees
  /\ \A e \in CodeLike : t[e] \subseteq CodeFiles

Devices ==
  [pkg : Trees, bck : Trees, tmp : Trees, xml : Marks, xmlBck : Marks,
   icon : [Apps -> Marks], iconBck : [Apps -> Marks],
   db : Marks, cert : BOOLEAN, sec : Marks, rec : RecoveryFiles]
Contexts ==
  [pkgid : BOOLEAN, unpacked : BOOLEAN, man : Marks, old : Marks, bxml : BOOLEAN,
   gathered : SUBSET Apps, made : SUBSET Apps, todo : SUBSET (Entries \cup Apps),
   cert : BOOLEAN, ok : BOOLEAN, file : RecoveryFiles]

RunnerOK ==
  /\ phase \in Phases /\ ret \in Results
  /\ req \in Requests /\ it \in 1..Last
  /\ part \in Parts
  /\ phase = "idle" => part = "start"
StateOK == device \in Devices /\ ctx \in Contexts
TreesOK == TreeOK(device.pkg) /\ TreeOK(device.bck) /\ TreeOK(device.tmp)
HistoryOK ==
  /\ global \in BOOLEAN /\ written \in BOOLEAN
  /\ stable \in 0..MaxVersion /\ budget \in 0..FaultBudget

\* The loops over the icons have applications left to do, the one over the
\* package has entries; a recovery does not create a recovery file, and only the
\* steps that parse a manifest write the package id into it.
Loops == {"copy", "move", "backup", "write"}
Parsers == {"ParseManifest", "ParseInstalled", "ParseRecovery"}
LoopsOK ==
  phase = "process" =>
    /\ part \in Loops =>
         \/ /\ Step \in {"CreateIcons", "BackupIcons", "RecoverIcons"}
            /\ ctx.todo \subseteq Apps
         \/ Step = "RecoverFiles"
         \/ Step = "CopyBackup" /\ ctx.todo \subseteq Entries
         \/ Step = "Configure" /\ req # "Recovery"
    /\ part = "rec" => Step \in Parsers

\* There is a version to install until it is committed.
RoomOK ==
  req # "Recovery" /\ (phase \in {"process", "undo"} \/ (phase = "clean" /\ it = 1))
    => stable < MaxVersion

TypeInv == RunnerOK /\ StateOK /\ TreesOK /\ HistoryOK /\ LoopsOK /\ RoomOK

-------------------------------------------------------------------------------
(* Where the steps are *)

LEMMA Positions ==
  ASSUME req \in Requests, it \in 1..Last
  PROVE  /\ NumSteps = Last
         /\ Step = "Configure" <=> (it = 1)
         /\ Step = "Unzip" <=> (req # "Recovery" /\ it = 2)
         /\ Step = "ParseManifest" <=> (req # "Recovery" /\ it = 3)
         /\ Step = "RollbackInstallationSecurity" <=> (req = "Install" /\ it = 4)
         /\ Step = "Copy" <=> (req = "Install" /\ it = 5)
         /\ Step = "CreateStorageDirectories" <=> (req = "Install" /\ it = 6)
         /\ Step = "CreateIcons" <=> ((req = "Install" /\ it = 7) \/ (req = "Update" /\ it = 10))
         /\ Step = "CreateManifest" <=> ((req = "Install" /\ it = 8) \/ (req = "Update" /\ it = 11))
         /\ Step = "RegisterApplication" <=> (req = "Install" /\ it = 9)
         /\ Step = "RegisterSecurity" <=> (req = "Install" /\ it = 10)
         /\ Step = "CheckOldCertificate" <=> (req = "Update" /\ it = 4)
         /\ Step = "ParseInstalled" <=> (req = "Update" /\ it = 5)
         /\ Step = "BackupManifest" <=> (req = "Update" /\ it = 6)
         /\ Step = "BackupIcons" <=> (req = "Update" /\ it = 7)
         /\ Step = "CopyBackup" <=> (req = "Update" /\ it = 8)
         /\ Step = "CopyStorageDirectories" <=> (req = "Update" /\ it = 9)
         /\ Step = "UpdateApplication" <=> (req = "Update" /\ it = 12)
         /\ Step = "UpdateSecurity" <=> (req = "Update" /\ it = 13)
         /\ Step = "OpenRecoveryFile" <=> (req = "Recovery" /\ it = 2)
         /\ Step = "ParseRecovery" <=> (req = "Recovery" /\ it = 3)
         /\ Step = "RecoverApplication" <=> (req = "Recovery" /\ it = 4)
         /\ Step = "RemoveTemporaryDirectory" <=> (req = "Recovery" /\ it = 5)
         /\ Step = "RecoverIcons" <=> (req = "Recovery" /\ it = 6)
         /\ Step = "RecoverManifest" <=> (req = "Recovery" /\ it = 7)
         /\ Step = "RecoverStorageDirectories" <=> (req = "Recovery" /\ it = 8)
         /\ Step = "RecoverFiles" <=> (req = "Recovery" /\ it = 9)
         /\ Step = "RecoverSecurity" <=> (req = "Recovery" /\ it = 10)
<1>1. CASE req = "Install"
  <2>1. NumSteps = 10 /\ Last = 10
    BY <1>1 DEF NumSteps, Pipeline, Last
  <2>2. it \in {1, 2, 3, 4, 5, 6, 7, 8, 9, 10}
    BY <2>1
  <2>. QED  BY <1>1, <2>1, <2>2 DEF Step, Pipeline
<1>2. CASE req = "Update"
  <2>1. NumSteps = 13 /\ Last = 13
    BY <1>2 DEF NumSteps, Pipeline, Last
  <2>2. it \in {1, 2, 3, 4, 5, 6, 7, 8, 9, 10, 11, 12, 13}
    BY <2>1
  <2>. QED  BY <1>2, <2>1, <2>2 DEF Step, Pipeline
<1>3. CASE req = "Recovery"
  <2>1. NumSteps = 10 /\ Last = 10
    BY <1>3 DEF NumSteps, Pipeline, Last
  <2>2. it \in {1, 2, 3, 4, 5, 6, 7, 8, 9, 10}
    BY <2>1
  <2>. QED  BY <1>3, <2>1, <2>2 DEF Step, Pipeline
<1>. QED  BY <1>1, <1>2, <1>3 DEF Requests

-------------------------------------------------------------------------------
(* What the helpers on trees keep *)

LEMMA EmptyTrees ==
  TreeOK(Missing) /\ TreeOK(EmptyDir) /\ ~Exists(Missing) /\ Exists(EmptyDir)
BY StateAssumption DEF TreeOK, Trees, Missing, EmptyDir, Exists, Nodes, CodeLike, Entries, StorageKeys, Dot

LEMMA ShippedTree ==
  ASSUME NEW v \in Versions
  PROVE  /\ TreeOK(Shipped(v)) /\ Exists(Shipped(v))
         /\ \A e \in CodeLike : Shipped(v)[e] = {<<"self", v>>}
<1>1. Shipped(v) \in Trees
  BY DEF Trees, Shipped, Dot
<1>2. \A e \in CodeLike : Shipped(v)[e] = {<<"self", v>>}
  BY StateAssumption DEF Shipped, CodeLike, Nodes, Entries
<1>3. Exists(Shipped(v))
  BY DEF Shipped, Exists, Nodes
<1>. QED  BY <1>1, <1>2, <1>3 DEF TreeOK, CodeFiles

LEMMA PutStorage ==
  ASSUME NEW t, TreeOK(t), NEW e \in StorageKeys, NEW files \in SUBSET Files
  PROVE  TreeOK(Put(t, e, files)) /\ (Exists(Put(t, e, files)) <=> Exists(t))
<1>1. e \in Nodes /\ e # "." /\ e \notin CodeLike
  BY StateAssumption DEF Nodes, Entries, StorageKeys, CodeLike
<1>2. Put(t, e, files) \in Trees
  BY <1>1 DEF TreeOK, Trees, Put, Files
<1>3. \A n \in Nodes \ {e} : Put(t, e, files)[n] = t[n]
  BY <1>1 DEF TreeOK, Trees, Put
<1>4. Exists(Put(t, e, files)) <=> Exists(t)
  BY <1>1, <1>3 DEF Exists, Nodes
<1>. QED  BY <1>1, <1>2, <1>3, <1>4 DEF TreeOK, Nodes, Entries

LEMMA PutEntry ==
  ASSUME NEW t, TreeOK(t), NEW s, TreeOK(s), NEW e \in Entries
  PROVE  TreeOK(Put(t, e, s[e])) /\ (Exists(Put(t, e, s[e])) <=> Exists(t))
<1>1. e \in Nodes /\ e # "."
  BY StateAssumption DEF Nodes, Entries, StorageKeys, CodeLike
<1>2. Put(t, e, s[e]) \in Trees
  BY <1>1 DEF TreeOK, Trees, Put
<1>3. \A n \in Nodes \ {e} : Put(t, e, s[e])[n] = t[n]
  BY <1>1 DEF TreeOK, Trees, Put
<1>4. Put(t, e, s[e])[e] = s[e]
  BY <1>1 DEF TreeOK, Trees, Put
<1>5. Exists(Put(t, e, s[e])) <=> Exists(t)
  BY <1>1, <1>3 DEF Exists, Nodes
<1>. QED  BY <1>1, <1>2, <1>3, <1>4, <1>5 DEF TreeOK, Nodes, Entries

LEMMA DropEntry ==
  ASSUME NEW t, TreeOK(t), NEW e \in Entries
  PROVE  TreeOK(Drop(t, e)) /\ (Exists(Drop(t, e)) <=> Exists(t))
<1>1. e \in Nodes /\ e # "."
  BY StateAssumption DEF Nodes, Entries, StorageKeys, CodeLike
<1>2. Drop(t, e) \in Trees
  BY <1>1 DEF TreeOK, Trees, Put, Drop
<1>3. \A n \in Nodes \ {e} : Drop(t, e)[n] = t[n]
  BY <1>1 DEF TreeOK, Trees, Put, Drop
<1>4. Drop(t, e)[e] = {}
  BY <1>1 DEF TreeOK, Trees, Put, Drop
<1>5. Exists(Drop(t, e)) <=> Exists(t)
  BY <1>1, <1>3 DEF Exists, Nodes
<1>. QED  BY <1>1, <1>2, <1>3, <1>4, <1>5 DEF TreeOK, Nodes, Entries

LEMMA MovedTree ==
  ASSUME NEW src, TreeOK(src), NEW dst, TreeOK(dst)
  PROVE  TreeOK(MoveTree(src, dst))
<1>1. CASE IsEmpty(dst)
  BY <1>1 DEF MoveTree
<1>2. CASE ~IsEmpty(dst)
  <2>. DEFINE t == [n \in Nodes |-> Merge(dst[n], src[n])]
  <2>1. MoveTree(src, dst) = t
    BY <1>2 DEF MoveTree
  <2>2. \A n \in Nodes : dst[n] \subseteq t[n] /\ t[n] \subseteq dst[n] \cup src[n]
    BY DEF Merge
  <2>3. t \in Trees
    BY <2>2 DEF TreeOK, Trees
  <2>4. \A e \in CodeLike : e \in Nodes
    BY DEF Nodes, Entries
  <2>. QED  BY <2>1, <2>2, <2>3, <2>4 DEF TreeOK
<1>. QED  BY <1>1, <1>2

LEMMA CutTree ==
  ASSUME NEW t, TreeOK(t), NEW u \in RemoveCut(t)
  PROVE  TreeOK(u) /\ (Exists(u) <=> Exists(t))
<1>1. PICK kept \in SUBSET Entries :
        u = [n \in Nodes |-> IF n \in kept \cup {"."} THEN t[n] ELSE {}]
  BY DEF RemoveCut
<1>2. u \in Trees /\ u["."] = t["."]
  BY <1>1 DEF TreeOK, Trees, Nodes
<1>3. \A e \in CodeLike : u[e] \subseteq t[e]
  BY <1>1 DEF Nodes, Entries
<1>. QED  BY <1>2, <1>3 DEF TreeOK, Exists

LEMMA VersionOfFiles ==
  ASSUME NEW files \in SUBSET CodeFiles
  PROVE  /\ VersionOf(files) \in Marks
         /\ files # {} => VersionOf(files) \in Versions /\ VersionOf(files) # None
<1>1. CASE files = {}
  BY <1>1 DEF VersionOf, Marks
<1>2. CASE files # {}
  <2>. DEFINE f == CHOOSE g \in files : TRUE
  <2>1. f \in files
    BY <1>2
  <2>2. f[2] \in Versions
    BY <2>1 DEF CodeFiles
  <2>3. VersionOf(files) = f[2]
    BY <1>2 DEF VersionOf
  <2>. QED  BY <2>2, <2>3, StateAssumption DEF Marks, Versions, None
<1>. QED  BY <1>1, <1>2

-------------------------------------------------------------------------------
(* The type invariant *)

DeviceOK(d) == d \in Devices /\ TreeOK(d.pkg) /\ TreeOK(d.bck) /\ TreeOK(d.tmp)

LEMMA SameDevice == TypeInv => DeviceOK(device) /\ ctx \in Contexts
BY DEF TypeInv, StateOK, TreesOK, DeviceOK

\* A fault uses up some of the budget.
LEMMA FaultsAreFew ==
  ASSUME TypeInv, NoFault \/ (\E k, w : Fault(k, w))
  PROVE  budget' \in 0..FaultBudget
BY StateAssumption DEF TypeInv, HistoryOK, NoFault, Fault

\* However a handler comes to its end, and whenever it goes on with a part that
\* is no loop, what it leaves has its type if the device and the memory have.
LEMMA Outcomes ==
  ASSUME TypeInv, NoFault \/ (\E k, w : Fault(k, w)), NEW d, DeviceOK(d), NEW c \in Contexts
  PROVE  /\ \A p \in Parts \ Loops :
               GoOn(p, d, c) /\ phase # "idle" /\ (p = "rec" => Step \in Parsers) => TypeInv'
         /\ Done(d, c) => TypeInv'
         /\ Failed(d, c) => TypeInv'
         /\ \A ok : Undone(ok, d) => TypeInv'
         /\ Cleaned(d, c) => TypeInv'
         /\ NotCleaned(d) => TypeInv'
<1>1. budget' \in 0..FaultBudget
  BY FaultsAreFew
<1>2. NumSteps = Last /\ it \in Nat /\ Last \in Nat
  BY Positions DEF TypeInv, RunnerOK, Last
<1>3. ASSUME Leave(d, c)
      PROVE  StateOK' /\ TreesOK' /\ HistoryOK'
  BY <1>1, <1>3 DEF TypeInv, Leave, envVars, StateOK, TreesOK, DeviceOK, HistoryOK
<1>4. ASSUME NEW p \in Parts \ Loops, GoOn(p, d, c), phase # "idle",
             p = "rec" => Step \in Parsers
      PROVE  TypeInv'
  <2>1. Leave(d, c)
    BY <1>4 DEF GoOn
  <2>2. Step' = Step
    BY <1>4, <2>1 DEF GoOn, Leave, envVars, runnerVars, Step, Pipeline
  <2>. QED  BY <1>3, <1>4, <2>1, <2>2 DEF GoOn, Leave, envVars, runnerVars, TypeInv, RunnerOK, Last, LoopsOK, Loops, Parsers, RoomOK
<1>5. ASSUME Done(d, c)
      PROVE  TypeInv'
  <2>1. Leave(d, c) /\ part' = "start" /\ part' \in Parts
    BY <1>5 DEF Done, Parts
  <2>4. RunnerOK'
    BY <1>2, <1>5, <2>1 DEF Done, Leave, envVars, StepOk, TypeInv, RunnerOK, Last, Phases, Results
  <2>5. RoomOK'
    BY <1>2, <1>5, <2>1 DEF Done, Leave, envVars, StepOk, TypeInv, RunnerOK, RoomOK
  <2>. QED  BY <1>3, <2>1, <2>4, <2>5 DEF TypeInv, LoopsOK, Loops, Parsers
<1>6. ASSUME Failed(d, c)
      PROVE  TypeInv'
  <2>1. Leave(d, c) /\ part' = "start" /\ part' \in Parts
    BY <1>6 DEF Failed, Parts
  <2>. QED  BY <1>2, <1>3, <1>6, <2>1 DEF Failed, Leave, envVars, StepFails, TypeInv, RunnerOK, Last, Phases, Results, LoopsOK, Loops, Parsers, RoomOK
<1>7. ASSUME NEW ok, Undone(ok, d)
      PROVE  TypeInv'
  <2>1. Leave(d, [ctx EXCEPT !.ok = TRUE]) /\ part' = "start" /\ part' \in Parts
    BY <1>7 DEF Undone, Parts
  <2>2. [ctx EXCEPT !.ok = TRUE] \in Contexts
    BY DEF TypeInv, StateOK, Contexts
  <2>3. StateOK' /\ TreesOK' /\ HistoryOK'
    BY <1>1, <2>1, <2>2 DEF TypeInv, Leave, envVars, StateOK, TreesOK, DeviceOK, HistoryOK
  <2>4. RunnerOK'
    BY <1>2, <1>7, <2>1 DEF Undone, Leave, envVars, StepUndone, TypeInv, RunnerOK, Last, Phases, Results
  <2>5. RoomOK'
    BY <1>2, <1>7, <2>1 DEF Undone, Leave, envVars, StepUndone, TypeInv, RunnerOK, RoomOK
  <2>. QED  BY <2>3, <2>1, <2>4, <2>5 DEF TypeInv, LoopsOK, Loops, Parsers
<1>8. ASSUME Cleaned(d, c)
      PROVE  TypeInv'
  <2>1. Leave(d, c) /\ part' = "start" /\ part' \in Parts
    BY <1>8 DEF Cleaned, Parts
  <2>. QED  BY <1>2, <1>3, <1>8, <2>1 DEF Cleaned, Leave, envVars, StepCleaned, TypeInv, RunnerOK, Last, Phases, Results, LoopsOK, Loops, Parsers, RoomOK
<1>9. ASSUME NotCleaned(d)
      PROVE  TypeInv'
  <2>1. Leave(d, ctx) /\ part' = "start" /\ part' \in Parts
    BY <1>9 DEF NotCleaned, Parts
  <2>2. ctx \in Contexts
    BY DEF TypeInv, StateOK
  <2>3. StateOK' /\ TreesOK' /\ HistoryOK'
    BY <1>1, <2>1, <2>2 DEF TypeInv, Leave, envVars, StateOK, TreesOK, DeviceOK, HistoryOK
  <2>. QED  BY <1>2, <1>9, <2>1, <2>3 DEF NotCleaned, Leave, envVars, StepCleanFails, TypeInv, RunnerOK, Last, Phases, Results, LoopsOK, Loops, Parsers, RoomOK
<1>. QED  BY <1>4, <1>5, <1>6, <1>7, <1>8, <1>9

\* A loop goes on with applications, or entries, left to do.
LEMMA LoopGoesOn ==
  ASSUME TypeInv, NoFault \/ (\E k, w : Fault(k, w)), NEW d, DeviceOK(d), NEW c \in Contexts,
         NEW p \in Loops, GoOn(p, d, c), phase # "idle",
         \/ Step \in {"CreateIcons", "BackupIcons", "RecoverIcons"} /\ c.todo \subseteq Apps
         \/ Step = "RecoverFiles"
         \/ Step = "CopyBackup" /\ c.todo \subseteq Entries
         \/ Step = "Configure" /\ req # "Recovery"
  PROVE  TypeInv'
<1>1. budget' \in 0..FaultBudget
  BY FaultsAreFew
<1>2. p \in Parts /\ Leave(d, c)
  BY DEF Parts, Loops, GoOn
<1>3. StateOK' /\ TreesOK' /\ HistoryOK'
  BY <1>1, <1>2 DEF TypeInv, Leave, envVars, StateOK, TreesOK, DeviceOK, HistoryOK
<1>4. Step' = Step /\ ctx' = c
  BY <1>2 DEF GoOn, Leave, envVars, runnerVars, Step, Pipeline
<1>. QED  BY <1>2, <1>3, <1>4 DEF GoOn, Leave, envVars, runnerVars, TypeInv, RunnerOK, Last, LoopsOK, Loops, Parsers, RoomOK

\* A recovery file of the memory, or what is left of it.
LEMMA RecoveryFileTypes ==
  ASSUME TypeInv, NEW file \in RecoveryFiles
  PROVE  /\ NoRecovery \in RecoveryFiles /\ TornRecovery \in RecoveryFiles
         /\ [file EXCEPT !.pkgid = TRUE] \in RecoveryFiles
         /\ [file EXCEPT !.dir = TRUE] \in RecoveryFiles
         /\ [NoRecovery EXCEPT !.kind = "Install"] \in RecoveryFiles
         /\ [NoRecovery EXCEPT !.kind = "Update"] \in RecoveryFiles
         /\ \A d \in WriteResults(file) : DeviceOK(d)
         /\ DeviceOK([device EXCEPT !.rec = file])
         /\ [ctx EXCEPT !.file = file] \in Contexts
<1>1. NoRecovery \in RecoveryFiles /\ TornRecovery \in RecoveryFiles
  BY DEF RecoveryFiles, NoRecovery, TornRecovery
<1>2. \A r \in RecoveryFiles : DeviceOK([device EXCEPT !.rec = r])
  BY SameDevice DEF DeviceOK, Devices
<1>3. device.rec \in RecoveryFiles
  BY SameDevice DEF DeviceOK, Devices
<1>4. \A d \in WriteResults(file) : DeviceOK(d)
  BY <1>1, <1>2, <1>3 DEF WriteResults
<1>5. [ctx EXCEPT !.file = file] \in Contexts
  BY SameDevice DEF Contexts
<1>6. /\ [file EXCEPT !.pkgid = TRUE] \in RecoveryFiles
      /\ [file EXCEPT !.dir = TRUE] \in RecoveryFiles
  BY DEF RecoveryFiles
<1>7. /\ [NoRecovery EXCEPT !.kind = "Install"] \in RecoveryFiles
      /\ [NoRecovery EXCEPT !.kind = "Update"] \in RecoveryFiles
  BY DEF RecoveryFiles, NoRecovery
<1>. QED  BY <1>1, <1>2, <1>4, <1>5, <1>6, <1>7

LEMMA WriteIsNoFaultOrFault ==
  ASSUME NEW file, NEW d, WriteRecovery(file, d)
  PROVE  (NoFault \/ (\E k, w : Fault(k, w))) /\ d \in WriteResults(file)
BY DEF WriteRecovery, WriteResults

LEMMA TypeConfigure ==
  ASSUME TypeInv, Configure \/ ConfigureWrite \/ ConfigureClean
  PROVE  TypeInv'
<1>1. /\ DeviceOK(device) /\ ctx \in Contexts
      /\ \A r \in RecoveryFiles : DeviceOK([device EXCEPT !.rec = r])
      /\ NoRecovery \in RecoveryFiles /\ TornRecovery \in RecoveryFiles
  <2>1. NoRecovery \in RecoveryFiles /\ TornRecovery \in RecoveryFiles
    BY DEF NoRecovery, TornRecovery, RecoveryFiles
  <2>. QED  BY <2>1, SameDevice, RecoveryFileTypes
<1>2. CASE Configure
  <2>1. CASE NoFault /\ Done(device, ctx)
    BY <1>1, <2>1, Outcomes
  <2>2. CASE NoFault /\ req # "Recovery" /\ GoOn("write", [device EXCEPT !.rec = TornRecovery], ctx)
    BY <1>1, <1>2, <2>2, LoopGoesOn DEF Configure, Process, Loops
  <2>3. CASE FailsHere("Configure")
    BY <1>1, <2>3, Outcomes DEF FailsHere
  <2>. QED  BY <1>2, <2>1, <2>2, <2>3 DEF Configure
<1>3. CASE ConfigureWrite
  <2>. DEFINE file == [NoRecovery EXCEPT !.kind = req]
  <2>1. req # "Recovery"
    BY <1>3, Positions DEF ConfigureWrite, Process, TypeInv, RunnerOK, LoopsOK, Loops, Parsers
  <2>2. file \in RecoveryFiles
    BY <2>1 DEF TypeInv, RunnerOK, Requests, RecoveryFiles, NoRecovery
  <2>3. [ctx EXCEPT !.file = file] \in Contexts
    BY <2>2, RecoveryFileTypes
  <2>. QED  BY <1>1, <1>3, <2>2, <2>3, Outcomes DEF ConfigureWrite
<1>4. CASE ConfigureClean
  <2>1. NoFault /\ [ctx EXCEPT !.file = NoRecovery] \in Contexts
    BY <1>1, <1>4, RecoveryFileTypes DEF ConfigureClean
  <2>2. StateOK' /\ TreesOK' /\ part' \in Parts /\ part' = "start"
    BY <1>1, <1>4, <2>1 DEF ConfigureClean, StateOK, TreesOK, DeviceOK, Parts
  <2>3. it = 1 /\ phase = "clean" /\ NumSteps = Last /\ Last > 1 /\ Last \in Nat
    BY <1>4, Positions DEF ConfigureClean, Clean, TypeInv, RunnerOK, Last
  <2>4. HistoryOK'
    BY <1>4, <2>1, <2>3, StateAssumption, FaultsAreFew DEF ConfigureClean, NewVersion, TypeInv, RunnerOK, Requests, HistoryOK, RoomOK
  <2>5. RunnerOK'
    BY <1>4, <2>2, <2>3 DEF ConfigureClean, StepCleaned, TypeInv, RunnerOK, Last
  <2>6. RoomOK' /\ LoopsOK'
    BY <1>4, <2>2, <2>3 DEF ConfigureClean, StepCleaned, RoomOK, LoopsOK, Loops, Parsers
  <2>. QED  BY <2>2, <2>4, <2>5, <2>6 DEF TypeInv
<1>. QED  BY <1>2, <1>3, <1>4

\* A step of the recovery file: a reading process always goes on.
LEMMA TypeUnzip ==
  ASSUME TypeInv, Unzip \/ UnzipCreateDir \/ UnzipExtract \/ UnzipUndo
  PROVE  TypeInv'
<1>1. DeviceOK(device) /\ ctx \in Contexts
  BY SameDevice
<1>2. \A t : TreeOK(t) => DeviceOK([device EXCEPT !.tmp = t])
  BY <1>1 DEF DeviceOK, Devices, TreeOK
<1>3. CASE Unzip
  <2>. DEFINE file == [ctx.file EXCEPT !.dir = TRUE]
  <2>1. PICK d \in WriteResults(file) :
          WriteRecovery(file, d) /\ GoOn("mkdir", d, [ctx EXCEPT !.file = file])
    BY <1>3 DEF Unzip
  <2>2. file \in RecoveryFiles
    BY <1>1, RecoveryFileTypes DEF Contexts
  <2>3. DeviceOK(d) /\ [ctx EXCEPT !.file = file] \in Contexts
    BY <2>2, RecoveryFileTypes
  <2>4. phase # "idle"
    BY <1>3 DEF Unzip, Process
  <2>. QED  BY <2>1, <2>3, <2>4, WriteIsNoFaultOrFault, Outcomes DEF Loops, Parsers, Parts
<1>4. CASE UnzipCreateDir
  BY <1>1, <1>2, <1>4, EmptyTrees, Outcomes DEF Loops, Parsers, UnzipCreateDir, FailsHere, Parts, Process, Undo
<1>5. CASE UnzipExtract
  <2>1. NewVersion \in Versions
    BY <1>5, Positions, StateAssumption DEF UnzipExtract, Process, TypeInv, RunnerOK, HistoryOK, RoomOK, NewVersion, Versions
  <2>2. [ctx EXCEPT !.unpacked = TRUE] \in Contexts
    BY <1>1 DEF Contexts
  <2>. QED  BY <1>1, <1>2, <1>5, <2>1, <2>2, ShippedTree, EmptyTrees, Outcomes DEF UnzipExtract
<1>6. CASE UnzipUndo
  <2>. DEFINE d == IF ctx.unpacked THEN [device EXCEPT !.tmp = Missing] ELSE device
  <2>1. DeviceOK(d)
    BY <1>1, <1>2, EmptyTrees
  <2>. QED  BY <1>1, <1>6, <2>1, Outcomes DEF UnzipUndo
<1>. QED  BY <1>3, <1>4, <1>5, <1>6

LEMMA TypeParse ==
  ASSUME TypeInv,
         ParseManifest \/ ParseInstalled
         \/ \E d \in WriteResults([ctx.file EXCEPT !.pkgid = TRUE]) : ParseWrite(d)
  PROVE  TypeInv'
<1>1. DeviceOK(device) /\ ctx \in Contexts
  BY SameDevice
<1>2. CASE ParseManifest
  <2>1. [ctx EXCEPT !.pkgid = TRUE] \in Contexts
    BY <1>1 DEF Contexts
  <2>. QED  BY <1>1, <1>2, <2>1, Outcomes DEF Loops, Parsers, ParseManifest, FailsHere, Parts, Process, Undo
<1>3. CASE ParseInstalled
  BY <1>1, <1>3, Outcomes DEF Loops, Parsers, ParseInstalled, FailsHere, Parts, Process, Undo
<1>4. ASSUME NEW d, ParseWrite(d)
      PROVE  TypeInv'
  <2>. DEFINE file == [ctx.file EXCEPT !.pkgid = TRUE]
  <2>1. WriteRecovery(file, d)
    BY <1>4 DEF ParseWrite
  <2>2. file \in RecoveryFiles
    BY <1>1, RecoveryFileTypes DEF Contexts
  <2>3. DeviceOK(d)
    BY <2>1, <2>2, RecoveryFileTypes, WriteIsNoFaultOrFault
  <2>4. VersionOf(device.tmp["manifest"]) \in Marks /\ device.xml \in Marks
    BY <1>1, VersionOfFiles DEF DeviceOK, Devices, TreeOK, CodeLike
  <2>5. /\ [ctx EXCEPT !.file = file, !.man = VersionOf(device.tmp["manifest"])] \in Contexts
        /\ [ctx EXCEPT !.file = file, !.old = device.xml] \in Contexts
    BY <1>1, <2>2, <2>4 DEF Contexts
  <2>. HIDE DEF file
  <2>6. NoFault \/ (\E k, w : Fault(k, w))
    BY <2>1, WriteIsNoFaultOrFault
  <2>7. \/ Done(d, [ctx EXCEPT !.file = file, !.man = VersionOf(device.tmp["manifest"])])
        \/ Done(d, [ctx EXCEPT !.file = file, !.old = device.xml])
    BY <1>4 DEF ParseWrite, file
  <2>. QED  BY <2>3, <2>5, <2>6, <2>7, Outcomes
<1>. QED  BY <1>2, <1>3, <1>4

LEMMA TypeIcons ==
  ASSUME TypeInv, CreateIcons \/ CreateIconsCopy \/ CreateIconsUndo
  PROVE  TypeInv'
<1>1. DeviceOK(device) /\ ctx \in Contexts
  BY SameDevice
<1>2. \A t \in [Apps -> Marks] : DeviceOK([device EXCEPT !.icon = t])
  BY <1>1 DEF DeviceOK, Devices
<1>3. CASE CreateIcons
  <2>1. [ctx EXCEPT !.todo = Apps] \in Contexts /\ [ctx EXCEPT !.todo = Apps].todo = Apps
    BY <1>1 DEF Contexts
  <2>. QED  BY <1>1, <1>3, <2>1, LoopGoesOn DEF CreateIcons, Process, Loops
<1>4. CASE CreateIconsCopy
  <2>1. Step = "CreateIcons" /\ ctx.todo \subseteq Apps /\ phase # "idle"
    BY <1>4 DEF CreateIconsCopy, Process, TypeInv, LoopsOK, Loops, Parsers
  <2>2. CASE NoFault /\ Done(device, ctx)
    BY <1>1, <2>2, Outcomes
  <2>3. CASE NoFault /\ Failed(device, ctx)
    BY <1>1, <2>3, Outcomes
  <2>4. CASE FailsHere("CreateIcons")
    BY <1>1, <2>4, Outcomes DEF FailsHere
  <2>5. ASSUME NEW a \in ctx.todo, NoFault,
               GoOn("copy", [device EXCEPT !.icon[a] = ctx.man],
                    [ctx EXCEPT !.todo = @ \ {a}, !.made = @ \cup {a}])
        PROVE  TypeInv'
    <3>. DEFINE d == [device EXCEPT !.icon[a] = ctx.man]
                c == [ctx EXCEPT !.todo = @ \ {a}, !.made = @ \cup {a}]
    <3>1. DeviceOK(d)
      BY <1>1 DEF DeviceOK, Devices, Contexts
    <3>2. c \in Contexts /\ c.todo \subseteq Apps
      BY <1>1, <2>1 DEF Contexts
    <3>. QED  BY <2>1, <2>5, <3>1, <3>2, LoopGoesOn DEF Loops
  <2>. QED  BY <1>4, <2>2, <2>3, <2>4, <2>5 DEF CreateIconsCopy
<1>5. CASE CreateIconsUndo
  <2>. DEFINE t == [a \in Apps |-> IF a \in ctx.made THEN None ELSE device.icon[a]]
  <2>1. t \in [Apps -> Marks]
    BY <1>1 DEF DeviceOK, Devices, Marks
  <2>. QED  BY <1>1, <1>2, <1>5, <2>1, Outcomes DEF CreateIconsUndo
<1>. QED  BY <1>3, <1>4, <1>5

LEMMA TypeCommon ==
  ASSUME TypeInv, CommonStep
  PROVE  TypeInv'
<1>1. DeviceOK(device) /\ ctx \in Contexts
  BY SameDevice
<1>2. \A v \in Marks : DeviceOK([device EXCEPT !.xml = v])
  BY <1>1 DEF DeviceOK, Devices
<1>3. ctx.man \in Marks /\ None \in Marks
  BY <1>1 DEF Contexts, Marks
<1>4. CASE CreateManifest
  BY <1>1, <1>2, <1>3, <1>4, Outcomes DEF CreateManifest, FailsHere
<1>5. CASE CreateManifestUndo
  BY <1>1, <1>2, <1>3, <1>5, Outcomes DEF CreateManifestUndo
<1>6. CASE NothingToUndo
  BY <1>1, <1>6, Outcomes DEF NothingToUndo
<1>7. CASE NothingToClean
  BY <1>1, <1>7, Outcomes DEF NothingToClean
<1>. QED  BY <1>4, <1>5, <1>6, <1>7, TypeConfigure, TypeUnzip, TypeParse, TypeIcons DEF CommonStep

LEMMA TypeInstall ==
  ASSUME TypeInv, InstallStep
  PROVE  TypeInv'
<1>1. DeviceOK(device) /\ ctx \in Contexts
  BY SameDevice
<1>2. \A v \in Marks : DeviceOK([device EXCEPT !.sec = v])
  BY <1>1 DEF DeviceOK, Devices
<1>3. ctx.man \in Marks /\ None \in Marks /\ Torn \in Marks /\ device.sec \in Marks
  BY <1>1 DEF Contexts, Marks, DeviceOK, Devices
<1>4. \A t : TreeOK(t) => DeviceOK([device EXCEPT !.pkg = t])
  BY <1>1 DEF DeviceOK, Devices, TreeOK
<1>5. CASE RollbackInstallationSecurity
  BY <1>1, <1>5, Outcomes DEF RollbackInstallationSecurity
<1>6. CASE RollbackInstallationSecurityUndo
  BY <1>1, <1>2, <1>3, <1>6, Outcomes DEF RollbackInstallationSecurityUndo
<1>7. CASE RegisterSecurity
  BY <1>1, <1>2, <1>3, <1>7, Outcomes DEF RegisterSecurity
<1>8. CASE Copy
  <2>. DEFINE d == [device EXCEPT !.pkg = MoveTree(device.tmp, device.pkg), !.tmp = Missing]
  <2>1. TreeOK(MoveTree(device.tmp, device.pkg)) /\ TreeOK(Missing)
    BY <1>1, MovedTree, EmptyTrees DEF DeviceOK
  <2>2. DeviceOK(d)
    BY <1>1, <2>1 DEF DeviceOK, Devices, TreeOK
  <2>. QED  BY <1>1, <1>8, <2>2, Outcomes DEF Copy, FailsHere
<1>9. CASE CopyUndo
  <2>1. \A t \in RemoveCut(device.pkg) : TreeOK(t)
    BY <1>1, CutTree DEF DeviceOK
  <2>. QED  BY <1>1, <1>4, <1>9, <2>1, EmptyTrees, Outcomes DEF CopyUndo
<1>10. CASE CreateStorageDirectories
  <2>. DEFINE made == [k \in StorageKeys |-> device.pkg[k] \cup {Dot}]
              t == IF global THEN Drop(device.pkg, "data")
                             ELSE Put(Put(device.pkg, "data", made["data"]),
                                      "shared", made["shared"])
  <2>1. CASE NoFault /\ Done([device EXCEPT !.pkg = t], ctx)
    <3>. DEFINE u == Put(device.pkg, "data", made["data"])
    <3>0. TreeOK(device.pkg) /\ {"data", "shared"} \subseteq StorageKeys
      BY <1>1 DEF DeviceOK, StorageKeys
    <3>1. made["data"] \in SUBSET Files /\ made["shared"] \in SUBSET Files
      BY <3>0 DEF TreeOK, Trees, Files, StorageKeys, Nodes, Entries
    <3>2. TreeOK(u)
      BY <3>0, <3>1, PutStorage
    <3>3. TreeOK(Put(u, "shared", made["shared"]))
      BY <3>0, <3>1, <3>2, PutStorage
    <3>4. TreeOK(Drop(device.pkg, "data"))
      BY <3>0, DropEntry DEF Entries
    <3>5. TreeOK(t)
      BY <3>3, <3>4
    <3>. QED  BY <1>1, <1>4, <2>1, <3>5, Outcomes
  <2>2. CASE FailsHere("CreateStorageDirectories")
    BY <1>1, <2>2, Outcomes DEF FailsHere
  <2>. QED  BY <1>10, <2>1, <2>2 DEF CreateStorageDirectories
<1>11. CASE RegisterApplication
  <2>1. DeviceOK([device EXCEPT !.db = ctx.man])
    BY <1>1, <1>3 DEF DeviceOK, Devices
  <2>. QED  BY <1>1, <1>11, <2>1, Outcomes DEF Loops, Parsers, RegisterApplication, FailsHere, Parts, Process, Undo
<1>12. CASE RegisterApplicationCerts
  <2>1. DeviceOK([device EXCEPT !.cert = TRUE])
    BY <1>1 DEF DeviceOK, Devices
  <2>. QED  BY <1>1, <1>12, <2>1, Outcomes DEF RegisterApplicationCerts, FailsHere
<1>13. CASE RegisterApplicationUndo
  <2>1. DeviceOK([device EXCEPT !.db = None, !.cert = FALSE])
    BY <1>1, <1>3 DEF DeviceOK, Devices
  <2>. QED  BY <1>1, <1>13, <2>1, Outcomes DEF RegisterApplicationUndo
<1>. QED  BY <1>5, <1>6, <1>7, <1>8, <1>9, <1>10, <1>11, <1>12, <1>13 DEF InstallStep

LEMMA TypeBackupManifest ==
  ASSUME TypeInv, BackupManifest \/ BackupManifestUndo \/ BackupManifestClean
  PROVE  TypeInv'
<1>1. DeviceOK(device) /\ ctx \in Contexts
  BY SameDevice
<1>2. /\ \A v \in Marks : DeviceOK([device EXCEPT !.xmlBck = v])
      /\ \A v \in Marks : DeviceOK([device EXCEPT !.xml = v])
      /\ DeviceOK([device EXCEPT !.xml = device.xmlBck, !.xmlBck = None])
      /\ [ctx EXCEPT !.bxml = TRUE] \in Contexts
  BY <1>1 DEF DeviceOK, Devices, Contexts, Marks
<1>3. device.xml \in Marks /\ None \in Marks /\ Torn \in Marks
  BY <1>1 DEF Marks, DeviceOK, Devices
<1>4. CASE BackupManifest
  BY <1>1, <1>2, <1>3, <1>4, Outcomes DEF BackupManifest
<1>5. CASE BackupManifestUndo
  BY <1>1, <1>2, <1>3, <1>5, Outcomes DEF BackupManifestUndo
<1>6. CASE BackupManifestClean
  BY <1>1, <1>2, <1>3, <1>6, Outcomes DEF BackupManifestClean
<1>. QED  BY <1>4, <1>5, <1>6

LEMMA TypeBackupIcons ==
  ASSUME TypeInv, BackupIcons \/ BackupIconsMove \/ BackupIconsUndo \/ BackupIconsClean
  PROVE  TypeInv'
<1>1. DeviceOK(device) /\ ctx \in Contexts /\ None \in Marks
  BY SameDevice DEF Marks
<1>2. /\ \A t \in [Apps -> Marks] : DeviceOK([device EXCEPT !.iconBck = t])
      /\ \A t, u \in [Apps -> Marks] : DeviceOK([device EXCEPT !.icon = t, !.iconBck = u])
  BY <1>1 DEF DeviceOK, Devices
<1>3. CASE BackupIcons
  <2>. DEFINE found == {a \in Apps : device.icon[a] # None}
              c == [ctx EXCEPT !.gathered = found, !.todo = found]
  <2>1. c \in Contexts /\ c.todo \subseteq Apps
    BY <1>1 DEF Contexts
  <2>. QED  BY <1>1, <1>3, <2>1, LoopGoesOn DEF BackupIcons, Process, Loops
<1>4. CASE BackupIconsMove
  <2>1. Step = "BackupIcons" /\ ctx.todo \subseteq Apps /\ phase # "idle"
    BY <1>4 DEF BackupIconsMove, Process, TypeInv, LoopsOK, Loops, Parsers
  <2>2. CASE NoFault /\ Done(device, ctx)
    BY <1>1, <2>2, Outcomes
  <2>3. CASE NoFault /\ Failed(device, ctx)
    BY <1>1, <2>3, Outcomes
  <2>4. CASE FailsHere("BackupIcons")
    BY <1>1, <2>4, Outcomes DEF FailsHere
  <2>5. ASSUME NEW a \in ctx.todo, NoFault,
               GoOn("move", [device EXCEPT !.iconBck[a] = device.icon[a], !.icon[a] = None],
                    [ctx EXCEPT !.todo = @ \ {a}])
        PROVE  TypeInv'
    <3>. DEFINE d == [device EXCEPT !.iconBck[a] = device.icon[a], !.icon[a] = None]
                c == [ctx EXCEPT !.todo = @ \ {a}]
    <3>1. DeviceOK(d)
      BY <1>1, <2>1 DEF DeviceOK, Devices
    <3>2. c \in Contexts /\ c.todo \subseteq Apps
      BY <1>1, <2>1 DEF Contexts
    <3>. QED  BY <2>1, <2>5, <3>1, <3>2, LoopGoesOn DEF Loops
  <2>. QED  BY <1>4, <2>2, <2>3, <2>4, <2>5 DEF BackupIconsMove
<1>5. CASE BackupIconsUndo
  <2>. DEFINE moved == {a \in ctx.gathered : device.iconBck[a] # None /\ device.icon[a] = None}
              t(back) == [a \in Apps |-> IF a \in back THEN device.iconBck[a] ELSE device.icon[a]]
              u(back) == [a \in Apps |-> IF a \in back THEN None ELSE device.iconBck[a]]
  <2>1. \A back : t(back) \in [Apps -> Marks] /\ u(back) \in [Apps -> Marks]
    BY <1>1 DEF DeviceOK, Devices
  <2>2. PICK back \in SUBSET moved :
          /\ IF back = moved THEN NoFault ELSE Fault("undo", "BackupIcons")
          /\ Undone(back = ctx.gathered, [device EXCEPT !.icon = t(back), !.iconBck = u(back)])
    BY <1>5 DEF BackupIconsUndo
  <2>3. NoFault \/ (\E k, w : Fault(k, w))
    BY <2>2
  <2>4. DeviceOK([device EXCEPT !.icon = t(back), !.iconBck = u(back)])
    BY <1>2, <2>1
  <2>. HIDE DEF t, u, moved
  <2>. QED  BY <1>1, <2>2, <2>3, <2>4, Outcomes
<1>6. CASE BackupIconsClean
  <2>1. PICK left \in SUBSET ctx.gathered :
          /\ IF left = {} THEN NoFault ELSE Fault("clean", "BackupIcons")
          /\ Cleaned([device EXCEPT
               !.iconBck = [a \in Apps |-> IF a \in ctx.gathered \ left
                                             THEN None ELSE device.iconBck[a]]], ctx)
    BY <1>6 DEF BackupIconsClean
  <2>2. [a \in Apps |-> IF a \in ctx.gathered \ left THEN None ELSE device.iconBck[a]]
          \in [Apps -> Marks]
    BY <1>1 DEF DeviceOK, Devices
  <2>3. NoFault \/ (\E k, w : Fault(k, w))
    BY <2>1
  <2>. QED  BY <1>1, <1>2, <2>1, <2>2, <2>3, Outcomes
<1>. QED  BY <1>3, <1>4, <1>5, <1>6

LEMMA DeviceTrees ==
  ASSUME TypeInv, NEW t, TreeOK(t), NEW u, TreeOK(u)
  PROVE  /\ DeviceOK([device EXCEPT !.pkg = t])
         /\ DeviceOK([device EXCEPT !.bck = t])
         /\ DeviceOK([device EXCEPT !.tmp = t])
         /\ DeviceOK([device EXCEPT !.pkg = t, !.tmp = u])
         /\ DeviceOK([device EXCEPT !.tmp = u, !.pkg = t])
         /\ DeviceOK([device EXCEPT !.pkg = t, !.bck = u])
         /\ DeviceOK([device EXCEPT !.bck = t, !.pkg = u])
BY SameDevice DEF DeviceOK, Devices, TreeOK

LEMMA TypeCopyBackup ==
  ASSUME TypeInv,
         CopyBackup \/ CopyBackupEntry \/ CopyBackupNewContent
         \/ CopyBackupUndo \/ CopyBackupRestore \/ CopyBackupClean
  PROVE  TypeInv'
<1>1. DeviceOK(device) /\ ctx \in Contexts
  BY SameDevice
<1>2. TreeOK(device.pkg) /\ TreeOK(device.bck) /\ TreeOK(device.tmp)
  BY <1>1 DEF DeviceOK
<1>3. CASE CopyBackup
  <2>. DEFINE d == [device EXCEPT !.bck = IF Exists(@) THEN @ ELSE EmptyDir]
              c == [ctx EXCEPT !.todo = {e \in Entries : Has(device.pkg, e)}]
  <2>1. DeviceOK(d)
    <3>1. TreeOK(IF Exists(device.bck) THEN device.bck ELSE EmptyDir)
      BY <1>2, EmptyTrees
    <3>. QED  BY <3>1, <1>2, DeviceTrees
  <2>2. c \in Contexts /\ c.todo \subseteq Entries
    BY <1>1 DEF Contexts
  <2>. HIDE DEF d, c
  <2>3. CASE NoFault /\ GoOn("backup", d, c)
    BY <1>3, <2>1, <2>2, <2>3, LoopGoesOn DEF CopyBackup, Process, Loops
  <2>4. CASE NoFault /\ Failed(d, ctx)
    BY <1>1, <2>1, <2>4, Outcomes
  <2>5. CASE FailsHere("CopyBackup")
    BY <1>1, <2>5, Outcomes DEF FailsHere
  <2>. QED  BY <1>3, <2>3, <2>4, <2>5 DEF CopyBackup, d, c
<1>4. CASE CopyBackupEntry
  <2>1. Step = "CopyBackup" /\ ctx.todo \subseteq Entries /\ phase # "idle"
    BY <1>4 DEF CopyBackupEntry, Process, TypeInv, LoopsOK, Loops, Parsers
  <2>2. CASE NoFault /\ GoOn("content", device, ctx)
    BY <1>1, <2>1, <2>2, Outcomes DEF Loops, Parsers, Parts
  <2>3. CASE NoFault /\ Failed(device, ctx)
    BY <1>1, <2>3, Outcomes
  <2>4. CASE FailsHere("Backup")
    BY <1>1, <2>4, Outcomes DEF FailsHere
  <2>5. ASSUME NEW e \in ctx.todo, NoFault,
               GoOn("backup", [device EXCEPT !.bck = Put(@, e, device.pkg[e]), !.pkg = Drop(@, e)],
                    [ctx EXCEPT !.todo = @ \ {e}])
        PROVE  TypeInv'
    <3>. DEFINE c == [ctx EXCEPT !.todo = @ \ {e}]
    <3>1. TreeOK(Put(device.bck, e, device.pkg[e])) /\ TreeOK(Drop(device.pkg, e))
      BY <1>2, <2>1, PutEntry, DropEntry
    <3>2. DeviceOK([device EXCEPT !.bck = Put(@, e, device.pkg[e]), !.pkg = Drop(@, e)])
      BY <3>1, DeviceTrees
    <3>3. c \in Contexts /\ c.todo \subseteq Entries
      BY <1>1, <2>1 DEF Contexts
    <3>. QED  BY <2>1, <2>5, <3>2, <3>3, LoopGoesOn DEF Loops
  <2>. QED  BY <1>4, <2>2, <2>3, <2>4, <2>5 DEF CopyBackupEntry
<1>5. CASE CopyBackupNewContent
  <2>1. DeviceOK([device EXCEPT !.pkg = MoveTree(device.tmp, device.pkg), !.tmp = Missing])
    BY <1>2, MovedTree, EmptyTrees, DeviceTrees
  <2>. QED  BY <1>1, <1>5, <2>1, Outcomes DEF CopyBackupNewContent, FailsHere
<1>6. CASE CopyBackupUndo
  <2>. DEFINE d == [device EXCEPT !.tmp = Missing]
  <2>1. DeviceOK(d) /\ DeviceOK([d EXCEPT !.pkg = Missing])
        /\ \A t \in RemoveCut(device.pkg) : DeviceOK([d EXCEPT !.pkg = t])
    <3>1. \A t : TreeOK(t) => DeviceOK([d EXCEPT !.pkg = t])
      BY <1>1, EmptyTrees DEF DeviceOK, Devices, TreeOK
    <3>. QED  BY <1>2, <3>1, EmptyTrees, CutTree, DeviceTrees
  <2>. HIDE DEF d
  <2>. QED  BY <1>1, <1>6, <2>1, Outcomes DEF Loops, Parsers, CopyBackupUndo, d, Parts, Process, Undo
<1>7. CASE CopyBackupRestore
  <2>1. DeviceOK([device EXCEPT !.pkg = device.bck, !.bck = Missing])
    BY <1>2, EmptyTrees, DeviceTrees
  <2>. QED  BY <1>1, <1>7, <2>1, Outcomes DEF CopyBackupRestore
<1>8. CASE CopyBackupClean
  <2>1. DeviceOK([device EXCEPT !.bck = Missing])
        /\ \A t \in RemoveCut(device.bck) : DeviceOK([device EXCEPT !.bck = t])
    BY <1>2, EmptyTrees, CutTree, DeviceTrees
  <2>. QED  BY <1>1, <1>8, <2>1, Outcomes DEF CopyBackupClean
<1>. QED  BY <1>3, <1>4, <1>5, <1>6, <1>7, <1>8

\* What a copy of the storage that stops half way leaves.
LEMMA StorageFiles ==
  ASSUME NEW t, TreeOK(t), NEW u, TreeOK(u), NEW key \in StorageKeys
  PROVE  /\ t[key] \in SUBSET Files
         /\ Merge(t[key], u[key]) \in SUBSET Files
         /\ \A files \in CopyCut(t[key], u[key]) : files \in SUBSET Files
         /\ \A left \in SUBSET (t[key] \ {Dot}) : left \cup {Dot} \in SUBSET Files
<1>1. t[key] \in SUBSET Files /\ u[key] \in SUBSET Files
  BY DEF TreeOK, Trees, Files, Nodes, Entries
<1>2. Merge(t[key], u[key]) \in SUBSET Files
  BY <1>1 DEF Merge
<1>3. \A files \in CopyCut(t[key], u[key]) : files \in SUBSET Files
  BY <1>1, <1>2 DEF CopyCut
<1>4. Dot \in Files
  BY DEF Files
<1>. QED  BY <1>1, <1>2, <1>3, <1>4

LEMMA TypeCopyStorage ==
  ASSUME TypeInv,
         \/ CopyStorageDirectories \/ CopyStorageCache
         \/ \E key \in StorageKeys :
              CopyStorageMove(key) \/ CopyStorageRemove(key) \/ CopyStorageUndo(key)
  PROVE  TypeInv'
<1>1. DeviceOK(device) /\ ctx \in Contexts
  BY SameDevice
<1>2. TreeOK(device.pkg) /\ TreeOK(device.bck)
  BY <1>1 DEF DeviceOK
<1>3. CASE CopyStorageDirectories
  BY <1>1, <1>3, Outcomes DEF Loops, Parsers, CopyStorageDirectories, Parts, Process, Undo
<1>4. CASE CopyStorageCache
  BY <1>1, <1>4, Outcomes DEF CopyStorageCache, FailsHere
<1>5. ASSUME NEW key \in StorageKeys, CopyStorageMove(key)
      PROVE  TypeInv'
  <2>. DEFINE src == device.bck[key]
              dst == device.pkg[key]
              moved == [device EXCEPT !.pkg = Put(@, key, src), !.bck = Drop(@, key)]
              copied == [device EXCEPT !.pkg = Put(@, key, Merge(dst, src))]
              Half(files) == [device EXCEPT !.pkg = Put(@, key, files)]
  <2>1. \A files \in SUBSET Files : TreeOK(Put(device.pkg, key, files))
    BY <1>2, PutStorage
  <2>2. TreeOK(Drop(device.bck, key))
    BY <1>2, DropEntry DEF Entries
  <2>3. DeviceOK(moved) /\ DeviceOK(copied) /\ \A files \in CopyCut(dst, src) : DeviceOK(Half(files))
    <3>1. src \in SUBSET Files /\ Merge(dst, src) \in SUBSET Files
          /\ \A files \in CopyCut(dst, src) : files \in SUBSET Files
      BY <1>2, StorageFiles
    <3>2. DeviceOK(moved)
      BY <2>1, <2>2, <3>1, DeviceTrees
    <3>3. \A files \in SUBSET Files : DeviceOK(Half(files))
      BY <1>2, <2>1, DeviceTrees
    <3>. QED  BY <3>1, <3>2, <3>3
  <2>4. /\ NextKey(key) \in Parts \ Loops /\ NextKey(key) # "rec"
        /\ Cleanup(key) \in Parts \ Loops /\ Cleanup(key) # "rec"
    BY DEF NextKey, Cleanup, Parts, Loops
  <2>5. \/ NoFault /\ Failed(device, ctx)
        \/ NoFault /\ GoOn(NextKey(key), moved, ctx)
        \/ FailsHere("CopyStorage")
        \/ NoFault /\ GoOn(Cleanup(key), copied, ctx)
        \/ Fault("fail", "CopyStorage") /\ \E files \in CopyCut(dst, src) : Failed(Half(files), ctx)
    BY <1>5 DEF CopyStorageMove
  <2>6. phase # "idle"
    BY <1>5 DEF CopyStorageMove, Process
  <2>. HIDE DEF moved, copied, Half, src, dst
  <2>. QED  BY <1>1, <2>3, <2>4, <2>5, <2>6, Outcomes DEF FailsHere
<1>6. ASSUME NEW key \in StorageKeys, CopyStorageRemove(key)
      PROVE  TypeInv'
  <2>. DEFINE Half(left) == [device EXCEPT !.bck = Put(@, key, left \cup {Dot})]
              removed == [device EXCEPT !.bck = Drop(@, key)]
  <2>1. DeviceOK(removed) /\ \A left \in SUBSET (device.bck[key] \ {Dot}) : DeviceOK(Half(left))
    <3>1. \A left \in SUBSET (device.bck[key] \ {Dot}) : TreeOK(Put(device.bck, key, left \cup {Dot}))
      BY <1>2, StorageFiles, PutStorage
    <3>2. TreeOK(Drop(device.bck, key))
      BY <1>2, DropEntry DEF Entries
    <3>. QED  BY <1>2, <3>1, <3>2, DeviceTrees
  <2>2. NextKey(key) \in Parts \ Loops /\ NextKey(key) # "rec"
    BY DEF NextKey, Parts, Loops
  <2>3. \/ NoFault /\ GoOn(NextKey(key), removed, ctx)
        \/ /\ Fault("fail", "StorageRemove")
           /\ \E left \in SUBSET (device.bck[key] \ {Dot}) : Failed(Half(left), ctx)
    BY <1>6 DEF CopyStorageRemove
  <2>4. phase # "idle"
    BY <1>6 DEF CopyStorageRemove, Process
  <2>. HIDE DEF removed, Half
  <2>. QED  BY <1>1, <2>1, <2>2, <2>3, <2>4, Outcomes
<1>7. ASSUME NEW key \in StorageKeys, CopyStorageUndo(key)
      PROVE  TypeInv'
  <2>. DEFINE d == [device EXCEPT !.bck = Put(Put(@, ".", {Dot}), key, device.pkg[key]),
                                  !.pkg = Drop(@, key)]
  <2>1. DeviceOK(d)
    <3>1. TreeOK(Put(device.bck, ".", {Dot}))
      <4>1. \A e \in CodeLike : e # "." /\ e \in Nodes
        BY StateAssumption DEF Nodes, Entries, CodeLike
      <4>2. Put(device.bck, ".", {Dot}) \in Trees
        BY <1>2 DEF TreeOK, Trees, Put
      <4>3. \A e \in CodeLike : Put(device.bck, ".", {Dot})[e] = device.bck[e]
        BY <1>2, <4>1 DEF TreeOK, Trees, Put
      <4>. QED  BY <1>2, <4>2, <4>3 DEF TreeOK
    <3>2. TreeOK(Put(Put(device.bck, ".", {Dot}), key, device.pkg[key]))
      BY <1>2, <3>1, StorageFiles, PutStorage
    <3>3. TreeOK(Drop(device.pkg, key))
      BY <1>2, DropEntry DEF Entries
    <3>. QED  BY <3>2, <3>3, DeviceTrees
  <2>2. \A ok \in BOOLEAN : [ctx EXCEPT !.ok = ok] \in Contexts
    BY <1>1 DEF Contexts
  <2>3. \/ NoFault /\ GoOn("shared", d, [ctx EXCEPT !.ok = TRUE])
        \/ NoFault /\ Undone(ctx.ok /\ TRUE, d)
        \/ Fault("undo", "CopyStorage") /\ GoOn("shared", device, [ctx EXCEPT !.ok = FALSE])
        \/ Fault("undo", "CopyStorage") /\ Undone(ctx.ok /\ FALSE, device)
        \/ NoFault /\ GoOn("shared", device, [ctx EXCEPT !.ok = FALSE])
        \/ NoFault /\ Undone(ctx.ok /\ FALSE, device)
    BY <1>7 DEF CopyStorageUndo
  <2>4. phase # "idle"
    BY <1>7 DEF CopyStorageUndo, Undo
  <2>. HIDE DEF d
  <2>. QED  BY <1>1, <2>1, <2>2, <2>3, <2>4, Outcomes DEF Loops, Parsers, Parts
<1>. QED  BY <1>3, <1>4, <1>5, <1>6, <1>7

LEMMA TypeUpdate ==
  ASSUME TypeInv, UpdateStep
  PROVE  TypeInv'
<1>1. DeviceOK(device) /\ ctx \in Contexts
  BY SameDevice
<1>2. \A v \in Marks : /\ DeviceOK([device EXCEPT !.sec = v])
                       /\ DeviceOK([device EXCEPT !.db = v, !.cert = FALSE])
  BY <1>1 DEF DeviceOK, Devices
<1>3. /\ ctx.man \in Marks /\ ctx.old \in Marks /\ Torn \in Marks /\ device.sec \in Marks
      /\ device.cert \in BOOLEAN /\ ctx.cert \in BOOLEAN
  BY <1>1 DEF Contexts, Marks, DeviceOK, Devices
<1>4. \A b \in BOOLEAN : DeviceOK([device EXCEPT !.cert = b]) /\ [ctx EXCEPT !.cert = b] \in Contexts
  BY <1>1 DEF DeviceOK, Devices, Contexts
<1>. DEFINE certs == "certs"
<1>0. certs \in Parts \ Loops /\ certs # "rec"
  BY DEF Parts, Loops
<1>5. CASE CheckOldCertificate
  BY <1>1, <1>5, Outcomes DEF CheckOldCertificate, FailsHere
<1>6. CASE UpdateApplication
  <2>. DEFINE d == [device EXCEPT !.db = ctx.man, !.cert = FALSE]
  <2>1. phase # "idle" /\ ((NoFault /\ GoOn(certs, d, ctx)) \/ FailsHere("UpdateApplication"))
    BY <1>6 DEF UpdateApplication, Process
  <2>2. DeviceOK(d)
    BY <1>2, <1>3
  <2>. HIDE DEF d, certs
  <2>. QED  BY <1>1, <1>0, <2>1, <2>2, Outcomes DEF FailsHere
<1>7. CASE UpdateApplicationCerts
  BY <1>1, <1>4, <1>7, Outcomes DEF UpdateApplicationCerts, FailsHere
<1>8. CASE UpdateApplicationUndo
  <2>. DEFINE d == [device EXCEPT !.db = ctx.old, !.cert = FALSE]
              c == [ctx EXCEPT !.cert = device.cert]
  <2>1. /\ phase # "idle"
        /\ \/ NoFault /\ GoOn(certs, d, c)
           \/ Fault("undo", "UpdateApplication") /\ Undone(FALSE, device)
    BY <1>8 DEF UpdateApplicationUndo, Undo
  <2>2. DeviceOK(d) /\ c \in Contexts
    BY <1>2, <1>3, <1>4
  <2>. HIDE DEF d, c, certs
  <2>. QED  BY <1>1, <1>0, <2>1, <2>2, Outcomes
<1>9. CASE UpdateApplicationUndoCerts
  BY <1>1, <1>3, <1>4, <1>9, Outcomes DEF UpdateApplicationUndoCerts
<1>10. CASE UpdateSecurity
  BY <1>1, <1>2, <1>3, <1>10, Outcomes DEF UpdateSecurity
<1>11. CASE UpdateSecurityUndo
  BY <1>1, <1>2, <1>3, <1>11, Outcomes DEF UpdateSecurityUndo
<1>. QED  BY <1>5, <1>6, <1>7, <1>8, <1>9, <1>10, <1>11, TypeBackupManifest,
             TypeBackupIcons, TypeCopyBackup, TypeCopyStorage DEF UpdateStep

LEMMA TypeRecovery ==
  ASSUME TypeInv, RecoveryStep
  PROVE  TypeInv'
<1>1. DeviceOK(device) /\ ctx \in Contexts /\ None \in Marks
  BY SameDevice DEF Marks
<1>2. TreeOK(device.pkg) /\ TreeOK(device.bck) /\ TreeOK(device.tmp)
  BY <1>1 DEF DeviceOK
<1>3. device.xml \in Marks /\ device.xmlBck \in Marks /\ ctx.man \in Marks /\ device.rec \in RecoveryFiles
  BY <1>1 DEF Contexts, DeviceOK, Devices
<1>4. ManifestFound \in Marks
  BY <1>2, <1>3, VersionOfFiles DEF ManifestFound, TreeOK, CodeLike
<1>5. CASE OpenRecoveryFile
  <2>1. [ctx EXCEPT !.file = device.rec, !.unpacked = device.rec.dir, !.pkgid = device.rec.pkgid]
          \in Contexts
    BY <1>1, <1>3 DEF Contexts, RecoveryFiles
  <2>. QED  BY <1>1, <1>5, <2>1, Outcomes DEF OpenRecoveryFile, FailsHere
<1>6. CASE OpenRecoveryFileUndo
  <2>1. NoFault /\ [ctx EXCEPT !.file = NoRecovery] \in Contexts
    BY <1>1, <1>3, <1>6, RecoveryFileTypes DEF OpenRecoveryFileUndo
  <2>2. StateOK' /\ TreesOK' /\ part' \in Parts /\ part' = "start" /\ HistoryOK'
    BY <1>1, <1>6, <2>1, FaultsAreFew DEF OpenRecoveryFileUndo, envVars, StateOK, TreesOK, DeviceOK, Parts, TypeInv, HistoryOK
  <2>3. RunnerOK' /\ RoomOK' /\ LoopsOK'
    BY <1>6, <2>2 DEF OpenRecoveryFileUndo, envVars, StepUndone, TypeInv, RunnerOK, RoomOK, LoopsOK, Loops, Parsers, Last, Phases, Results
  <2>. QED  BY <2>2, <2>3 DEF TypeInv
<1>7. CASE ParseRecovery
  BY <1>1, <1>7, Outcomes DEF Loops, Parsers, ParseRecovery, FailsHere, Parts, Process, Undo
<1>8. ASSUME NEW d, ParseRecoveryWrite(d)
      PROVE  TypeInv'
  <2>1. [ctx EXCEPT !.man = ManifestFound] \in Contexts /\ ctx.file \in RecoveryFiles
    BY <1>1, <1>4 DEF Contexts
  <2>2. DeviceOK(d) /\ (NoFault \/ (\E k, w : Fault(k, w)))
    BY <1>8, <2>1, RecoveryFileTypes, WriteIsNoFaultOrFault DEF ParseRecoveryWrite
  <2>. QED  BY <1>8, <2>1, <2>2, Outcomes DEF ParseRecoveryWrite
<1>9. CASE RecoverApplication
  <2>1. DeviceOK([device EXCEPT !.db = None, !.cert = FALSE])
    BY <1>1 DEF DeviceOK, Devices
  <2>. QED  BY <1>1, <1>9, <2>1, Outcomes DEF Loops, Parsers, RecoverApplication, Parts, Process, Undo
<1>10. CASE RecoverApplicationRegister
  <2>1. DeviceOK([device EXCEPT !.db = ctx.man])
    BY <1>1, <1>3 DEF DeviceOK, Devices
  <2>. QED  BY <1>1, <1>10, <2>1, Outcomes DEF Loops, Parsers, RecoverApplicationRegister, FailsHere, Parts, Process, Undo
<1>11. CASE RecoverApplicationCerts
  <2>1. DeviceOK([device EXCEPT !.cert = FALSE])
    BY <1>1 DEF DeviceOK, Devices
  <2>. QED  BY <1>1, <1>11, <2>1, Outcomes DEF RecoverApplicationCerts, FailsHere
<1>12. CASE RemoveTemporaryDirectory
  <2>1. DeviceOK(IF ctx.unpacked THEN [device EXCEPT !.tmp = Missing] ELSE device)
    BY <1>1, EmptyTrees, DeviceTrees
  <2>. QED  BY <1>1, <1>12, <2>1, Outcomes DEF RemoveTemporaryDirectory
<1>13. CASE RecoverIcons
  <2>. DEFINE found == {a \in Apps : device.icon[a] # None \/ device.iconBck[a] # None}
              c == [ctx EXCEPT !.todo = found]
  <2>1. c \in Contexts /\ c.todo \subseteq Apps
    BY <1>1 DEF Contexts
  <2>2. NoFault /\ (Done(device, ctx) \/ GoOn("move", device, c)) /\ Step = "RecoverIcons" /\ phase # "idle"
    BY <1>13 DEF RecoverIcons, Process
  <2>. QED  BY <1>1, <2>1, <2>2, LoopGoesOn, Outcomes DEF Loops
<1>14. CASE RecoverIconsMove
  <2>1. Step = "RecoverIcons" /\ ctx.todo \subseteq Apps /\ phase # "idle"
    BY <1>14 DEF RecoverIconsMove, Process, TypeInv, LoopsOK, Loops, Parsers
  <2>2. CASE NoFault /\ Done(device, ctx)
    BY <1>1, <2>2, Outcomes
  <2>3. CASE FailsHere("RecoverIcons")
    BY <1>1, <2>3, Outcomes DEF FailsHere
  <2>4. ASSUME NEW a \in ctx.todo, NoFault,
               GoOn("move",
                    IF New THEN [device EXCEPT !.icon[a] = None]
                           ELSE [device EXCEPT !.icon[a] = device.iconBck[a], !.iconBck[a] = None],
                    [ctx EXCEPT !.todo = @ \ {a}])
        PROVE  TypeInv'
    <3>. DEFINE d == IF New THEN [device EXCEPT !.icon[a] = None]
                     ELSE [device EXCEPT !.icon[a] = device.iconBck[a], !.iconBck[a] = None]
                c == [ctx EXCEPT !.todo = @ \ {a}]
    <3>1. DeviceOK(d)
      BY <1>1, <2>1 DEF DeviceOK, Devices
    <3>2. c \in Contexts /\ c.todo \subseteq Apps
      BY <1>1, <2>1 DEF Contexts
    <3>. QED  BY <2>1, <2>4, <3>1, <3>2, LoopGoesOn DEF Loops
  <2>5. ASSUME NEW a \in ctx.todo, Fault("fail", "RecoverIcons"),
               GoOn("move", IF New THEN device ELSE [device EXCEPT !.icon[a] = None],
                    [ctx EXCEPT !.todo = @ \ {a}])
        PROVE  TypeInv'
    <3>. DEFINE d == IF New THEN device ELSE [device EXCEPT !.icon[a] = None]
                c == [ctx EXCEPT !.todo = @ \ {a}]
    <3>1. DeviceOK(d)
      BY <1>1, <2>1 DEF DeviceOK, Devices
    <3>2. c \in Contexts /\ c.todo \subseteq Apps
      BY <1>1, <2>1 DEF Contexts
    <3>. QED  BY <2>1, <2>5, <3>1, <3>2, LoopGoesOn DEF Loops
  <2>. QED  BY <1>14, <2>2, <2>3, <2>4, <2>5 DEF RecoverIconsMove
<1>15. CASE RecoverManifest
  <2>. DEFINE d == IF New THEN [device EXCEPT !.xml = None]
                   ELSE IF device.xmlBck = None THEN device
                   ELSE [device EXCEPT !.xml = device.xmlBck, !.xmlBck = None]
              m == [device EXCEPT !.xml = None]
  <2>1. DeviceOK(d) /\ DeviceOK(m)
    BY <1>1, <1>3 DEF DeviceOK, Devices
  <2>2. \/ NoFault /\ Done(d, ctx)
        \/ FailsHere("RecoverManifest")
        \/ Fault("fail", "ManifestRemoval") /\ Done(device, ctx)
        \/ Fault("fail", "RecoverManifest") /\ Done(m, ctx)
    BY <1>15 DEF RecoverManifest
  <2>. HIDE DEF d, m
  <2>. QED  BY <1>1, <2>1, <2>2, Outcomes DEF FailsHere
<1>16. CASE RecoverStorageDirectories \/ RecoverStorageShared
  <2>1. ASSUME NEW key \in StorageKeys
        PROVE  DeviceOK(StorageRecovered(device, key))
    <3>1. TreeOK(Put(device.bck, key, device.pkg[key])) /\ TreeOK(Drop(device.pkg, key))
      BY <1>2, StorageFiles, PutStorage, DropEntry DEF Entries
    <3>. QED  BY <1>1, <3>1, DeviceTrees DEF StorageRecovered
  <2>2. DeviceOK(StorageRecovered(device, "data")) /\ DeviceOK(StorageRecovered(device, "shared"))
    BY <2>1 DEF StorageKeys
  <2>. QED  BY <1>1, <1>16, <2>2, Outcomes DEF Loops, Parsers, RecoverStorageDirectories, RecoverStorageShared, Parts, Process, Undo
<1>17. CASE RecoverFiles
  <2>1. DeviceOK([device EXCEPT !.pkg = Missing])
        /\ \A t \in RemoveCut(device.pkg) : DeviceOK([device EXCEPT !.pkg = t])
    BY <1>2, EmptyTrees, CutTree, DeviceTrees
  <2>2. CASE NoFault /\ GoOn("move", [device EXCEPT !.pkg = Missing], ctx)
    BY <1>1, <1>17, <2>1, <2>2, LoopGoesOn DEF RecoverFiles, Process, Loops
  <2>3. \/ NoFault /\ GoOn("move", [device EXCEPT !.pkg = Missing], ctx)
        \/ NoFault /\ Done([device EXCEPT !.pkg = Missing], ctx)
        \/ NoFault /\ Done(device, ctx)
        \/ /\ Fault("fail", "RecoverFiles")
           /\ \E t \in RemoveCut(device.pkg) :
                Done([device EXCEPT !.pkg = t], ctx) \/ Failed([device EXCEPT !.pkg = t], ctx)
    BY <1>17 DEF RecoverFiles
  <2>. QED  BY <1>1, <2>1, <2>2, <2>3, Outcomes
<1>18. CASE RecoverFilesMove
  <2>1. DeviceOK([device EXCEPT !.pkg = device.bck, !.bck = Missing])
    BY <1>2, EmptyTrees, DeviceTrees
  <2>. QED  BY <1>1, <1>18, <2>1, Outcomes DEF RecoverFilesMove
<1>19. CASE RecoverSecurity
  <2>1. \A v \in Marks : DeviceOK([device EXCEPT !.sec = v])
    BY <1>1 DEF DeviceOK, Devices
  <2>. QED  BY <1>1, <1>3, <1>19, <2>1, Outcomes DEF RecoverSecurity, FailsHere
<1>. QED  BY <1>5, <1>6, <1>7, <1>8, <1>9, <1>10, <1>11, <1>12, <1>13, <1>14, <1>15, <1>16,
             <1>17, <1>18, <1>19 DEF RecoveryStep

\* What dying in the middle of an operation leaves is still a device.
LEMMA TypeHalfDone ==
  ASSUME TypeInv, HalfDone
  PROVE  DeviceOK(device')
<1>1. DeviceOK(device)
  BY SameDevice
<1>2. TreeOK(device.pkg) /\ TreeOK(device.bck) /\ TreeOK(device.tmp)
  BY <1>1 DEF DeviceOK
<1>3. /\ DeviceOK([device EXCEPT !.xmlBck = Torn])
      /\ DeviceOK([device EXCEPT !.sec = Torn])
  BY <1>1 DEF DeviceOK, Devices, Marks
<1>4. DeviceOK([device EXCEPT !.rec = TornRecovery])
  <2>1. TornRecovery \in RecoveryFiles
    BY DEF TornRecovery, NoRecovery, RecoveryFiles
  <2>. QED  BY <1>1, <2>1 DEF DeviceOK, Devices
<1>5. ASSUME NEW key \in StorageKeys, NEW files \in CopyCut(device.pkg[key], device.bck[key])
      PROVE  DeviceOK([device EXCEPT !.pkg = Put(@, key, files)])
  <2>1. files \in SUBSET Files
    BY <1>2, <1>5, StorageFiles
  <2>2. TreeOK(Put(device.pkg, key, files))
    BY <1>2, <2>1, PutStorage
  <2>. QED  BY <1>2, <2>2, DeviceTrees
<1>6. ASSUME NEW key \in StorageKeys, NEW left \in SUBSET (device.bck[key] \ {Dot})
      PROVE  DeviceOK([device EXCEPT !.bck = Put(@, key, left \cup {Dot})])
  <2>1. left \cup {Dot} \in SUBSET Files
    BY <1>2, <1>6, StorageFiles
  <2>2. TreeOK(Put(device.bck, key, left \cup {Dot}))
    BY <1>2, <2>1, PutStorage
  <2>. QED  BY <1>2, <2>2, DeviceTrees
<1>7. /\ \A t \in RemoveCut(device.pkg) : DeviceOK([device EXCEPT !.pkg = t])
      /\ \A t \in RemoveCut(device.bck) : DeviceOK([device EXCEPT !.bck = t])
  BY <1>2, CutTree, DeviceTrees
<1>. QED  BY <1>3, <1>4, <1>5, <1>6, <1>7 DEF HalfDone

\* A process that is gone leaves no memory, and nothing to type but the device.
LEMMA TypeGone ==
  ASSUME TypeInv, Gone, DeviceOK(device'), NoFault \/ (\E k, w : Fault(k, w))
  PROVE  TypeInv'
<1>1. FreshContext \in Contexts
  BY DEF FreshContext, Contexts, Marks, RecoveryFiles, NoRecovery
<1>2. StateOK' /\ TreesOK'
  BY <1>1 DEF Gone, StateOK, TreesOK, DeviceOK
<1>3. HistoryOK'
  BY FaultsAreFew DEF Gone, envVars, TypeInv, HistoryOK
<1>4. RunnerOK' /\ LoopsOK' /\ RoomOK'
  BY DEF Gone, envVars, TypeInv, RunnerOK, LoopsOK, Loops, Parsers, RoomOK, Last, Phases, Parts
<1>. QED  BY <1>2, <1>3, <1>4 DEF TypeInv

LEMMA TypeWorld ==
  ASSUME TypeInv, Begin \/ Exit \/ Abort \/ Crash \/ StoreUserFile
  PROVE  TypeInv'
<1>1. DeviceOK(device) /\ ctx \in Contexts
  BY SameDevice
<1>2. CASE Begin
  <2>1. StateOK' /\ TreesOK' /\ HistoryOK'
    BY <1>2, FaultsAreFew DEF Begin, TypeInv, StateOK, TreesOK, HistoryOK
  <2>2. RunnerOK'
    BY <1>2 DEF Begin, BeginRun, TypeInv, RunnerOK, Last, Phases, Results, Requests
  <2>3. RoomOK' /\ LoopsOK'
    BY <1>2 DEF Begin, BeginRun, RoomOK, LoopsOK, Loops, Parsers, TypeInv, RunnerOK
  <2>. QED  BY <2>1, <2>2, <2>3 DEF TypeInv
<1>3. CASE Exit
  <2>1. DeviceOK([device EXCEPT !.rec = NoRecovery])
    BY <1>1 DEF DeviceOK, Devices, NoRecovery, RecoveryFiles
  <2>. QED  BY <1>1, <1>3, <2>1, TypeGone DEF Exit
<1>4. CASE Abort
  BY <1>1, <1>4, TypeGone DEF Abort
<1>5. CASE Crash
  <2>1. DeviceOK(device')
    BY <1>1, <1>5, TypeHalfDone DEF Crash
  <2>. QED  BY <1>5, <2>1, TypeGone DEF Crash
<1>6. CASE StoreUserFile
  <2>. DEFINE d == [device EXCEPT !.pkg = Put(@, "data", @["data"] \cup {UserFile})]
  <2>1. TreeOK(device.pkg) /\ "data" \in StorageKeys
    BY <1>1 DEF DeviceOK, StorageKeys
  <2>2. device.pkg["data"] \cup {UserFile} \in SUBSET Files
    BY <2>1, StorageFiles DEF Files
  <2>3. TreeOK(Put(device.pkg, "data", device.pkg["data"] \cup {UserFile}))
    BY <2>1, <2>2, PutStorage
  <2>4. DeviceOK(d)
    BY <2>1, <2>3, DeviceTrees
  <2>5. StateOK' /\ TreesOK' /\ HistoryOK'
    BY <1>1, <1>6, <2>4, FaultsAreFew DEF StoreUserFile, TypeInv, StateOK, TreesOK, DeviceOK, HistoryOK
  <2>6. RunnerOK' /\ RoomOK' /\ LoopsOK'
    BY <1>6 DEF StoreUserFile, runnerVars, TypeInv, RunnerOK, RoomOK, LoopsOK, Loops, Parsers, Last, Idle
  <2>. QED  BY <2>5, <2>6 DEF TypeInv
<1>. QED  BY <1>2, <1>3, <1>4, <1>5, <1>6

\* Whatever happens to whatever package, the state keeps its shape, the loops of
\* the steps have applications or entries left to do, and there is a version to
\* install until StepConfigure::clean() commits it.
THEOREM TransactionTypeInvariant == Spec => []TypeInv
<1>1. ASSUME Init
      PROVE  TypeInv
  <2>1. CleanDevice \in Devices
    BY EmptyTrees DEF CleanDevice, Devices, TreeOK, Marks, NoRecovery, RecoveryFiles
  <2>2. FreshContext \in Contexts
    BY DEF FreshContext, Contexts, Marks, RecoveryFiles, NoRecovery
  <2>3. StateOK /\ TreesOK
    BY <1>1, <2>1, <2>2, EmptyTrees DEF Init, StateOK, TreesOK, CleanDevice
  <2>4. HistoryOK
    <3>1. stable \in 0..MaxVersion /\ budget \in 0..FaultBudget
      BY <1>1, StateAssumption DEF Init, None
    <3>2. global \in BOOLEAN /\ written \in BOOLEAN
      BY <1>1, StateAssumption, Zenon DEF Init
    <3>. QED  BY <3>1, <3>2 DEF HistoryOK
  <2>5. RunnerOK /\ LoopsOK /\ RoomOK
    BY <1>1 DEF Init, RunnerInit, RunnerOK, LoopsOK, Loops, Parsers, RoomOK, Last, Phases, Results, Requests, Parts
  <2>. QED  BY <2>3, <2>4, <2>5 DEF TypeInv
<1>2. ASSUME TypeInv, [Next]_vars
      PROVE  TypeInv'
  <2>1. CASE Next
    BY <2>1, <1>2, TypeWorld, TypeCommon, TypeInstall, TypeUpdate, TypeRecovery DEF Next
  <2>2. CASE UNCHANGED vars
    BY <1>2, <2>2 DEF vars, runnerVars, envVars, TypeInv, RunnerOK, StateOK, TreesOK, HistoryOK, LoopsOK, Loops, Parsers, RoomOK, Last, Step, Pipeline
  <2>. QED  BY <1>2, <2>1, <2>2
<1>. QED  BY <1>1, <1>2, PTL DEF Spec

LEMMA TypeOKFollows == TypeInv => TypeOK
<1>. SUFFICES ASSUME TypeInv PROVE TypeOK
  OBVIOUS
<1>1. it \in 1..NumSteps
  BY Positions DEF TypeInv, RunnerOK
<1>2. DeviceTypeOK
  BY DEF TypeInv, StateOK, TreesOK, TreeOK, Devices, DeviceTypeOK
<1>. QED  BY <1>1, <1>2 DEF TypeOK, TypeInv, RunnerOK, StateOK, HistoryOK, Contexts

\* The type invariant the run checks.
THEOREM TransactionTypeOKHolds == Spec => []TypeOK
BY TransactionTypeInvariant, TypeOKFollows, PTL

-------------------------------------------------------------------------------
(* The recovery file is there when it is needed *)

\* The histories RecoveryArmed speaks of.
Unbroken ==
  /\ ~CleanCutShort /\ ~NotReverted
  /\ ~Happened({"fail"}, {"RecoveryFile"}) /\ ~Happened({"crash"}, {"ParseRecovery"})

Clear == ~SetAside /\ ~HalfInstalled
Armed == device.rec.kind \in {"Install", "Update"} /\ device.rec.pkgid

\* What a recovery can rely on: what its kind says has been done, and that icons
\* which must go are those of a manifest that can be found.
RecordOK ==
  /\ phase # "clean" /\ ~Clear => Armed
  /\ device.rec.kind = "Install" => ~SetAside
  /\ device.rec.kind = "Update" => stable # None
  /\ device.rec.kind = "Install" /\ stable = None /\ ~IconsAre(None) =>
       Has(device.pkg, "manifest") \/ device.xml # None

\* What the memory of the process knows of the recovery file.
MemoryOK ==
  /\ req # "Recovery" /\ phase \in {"process", "undo"} =>
       /\ it >= 2 => ctx.file = device.rec /\ device.rec.kind = req
       /\ it >= 4 => device.rec.pkgid
  /\ req = "Recovery" /\ phase = "process" =>
       /\ it <= 2 => ctx.file = NoRecovery
       /\ it >= 3 => ctx.file = device.rec /\ device.rec.kind \in {"Install", "Update"}
  /\ req = "Recovery" /\ phase = "undo" /\ it = 1 => ctx.file = NoRecovery
  /\ req = "Recovery" /\ phase = "clean" /\ it > 1 => ctx.file = NoRecovery
  /\ phase = "end" => IF req = "Recovery" THEN ctx.file = NoRecovery ELSE Clear
  /\ phase = "idle" => ctx.file = NoRecovery

\* How far an installation has come with a package there was no version of.
InstallOK ==
  req = "Install" /\ phase \in {"process", "undo"} =>
    /\ ~SetAside
    /\ stable = None =>
         /\ Exists(device.pkg) => it >= 5
         /\ \A a \in Apps : device.icon[a] # None => it >= 7 /\ a \in ctx.made
         /\ device.xml # None => it >= 8
         /\ device.db # None => it >= 9
         /\ phase = "process" /\ it \in 3..5 => Has(device.tmp, "manifest")
         /\ it >= 6 => Has(device.pkg, "manifest")

\* How far an update has come with setting the old version aside.
UpdateOK ==
  req = "Update" /\ phase \in {"process", "undo"} =>
    /\ stable # None
    /\ device.xmlBck # None => it >= 6 /\ ctx.bxml
    /\ Exists(device.bck) => it >= 8
    /\ \A a \in Apps :
         /\ device.iconBck[a] # None =>
              a \in ctx.gathered /\ (it > 7 \/ (it = 7 /\ (phase = "undo" \/ part = "move")))
         /\ device.iconBck[a] # None /\ device.icon[a] # None => it >= 10 /\ a \in ctx.made
    /\ phase = "process" /\ it = 7 /\ part = "move" => ctx.todo \subseteq ctx.gathered

\* What a committed request has left to clean up.
CleanOK ==
  phase = "clean" =>
    /\ it = 1 => Clear \/ Armed
    /\ it > 1 => device.rec.kind = "none"
    /\ req = "Recovery" => Clear
    /\ req # "Recovery" /\ it > 1 => stable # None
    /\ device.xmlBck # None => req = "Update" /\ it <= 6
    /\ \A a \in Apps : device.iconBck[a] # None => req = "Update" /\ it <= 7 /\ a \in ctx.gathered
    /\ Exists(device.bck) => req = "Update" /\ it <= 8

\* How far the recovery of an installation has come, and that of an update.
RecoveryOK ==
  req = "Recovery" /\ phase = "process" /\ it >= 3 =>
    /\ it = 3 /\ part = "rec" => ManifestFound # None
    /\ it = 4 /\ part \in {"register", "certs"} => Updating
    /\ New /\ stable = None =>
         /\ it >= 5 => device.db = None
         /\ it >= 4 => (ctx.man # None \/ IconsAre(None))
         /\ it = 6 /\ part = "move" =>
              \A a \in Apps : device.icon[a] # None => a \in ctx.todo
         /\ it >= 7 => IconsAre(None)
         /\ it >= 8 => device.xml = None
         /\ it >= 10 => ~Exists(device.pkg)
    /\ Updating =>
         /\ it >= 5 => ctx.man # None
         /\ it = 4 /\ part = "certs" => ctx.man # None
         /\ it = 6 /\ part = "move" =>
              \A a \in Apps : device.iconBck[a] # None => a \in ctx.todo
         /\ it >= 7 => \A a \in Apps : device.iconBck[a] = None
         /\ it >= 8 => device.xmlBck = None
         /\ it >= 10 => ~Exists(device.bck)

ArmedInv ==
  Unbroken => RecordOK /\ MemoryOK /\ InstallOK /\ UpdateOK /\ CleanOK /\ RecoveryOK

ArmedBody == RecordOK /\ MemoryOK /\ InstallOK /\ UpdateOK /\ CleanOK /\ RecoveryOK

\* A history that is unbroken was so before, and its last fault is none of those
\* RecoveryArmed makes an exception for.
Bearable(kind, where) ==
  /\ kind \in {"fail", "crash", "crashInUndo", "crashAtEnd"}
  /\ kind = "fail" => where \notin {"RecoverFiles", "RecoverApplication", "RecoverManifest",
                                    "ManifestRemoval", "RecoverIcons", "RecoverStorage",
                                    "RecoveryFile"}
  /\ kind = "crash" => where # "ParseRecovery"

LEMMA UnbrokenBefore ==
  ASSUME Unbroken'
  PROVE  /\ NoFault => Unbroken
         /\ \A kind, where : Fault(kind, where) => Unbroken /\ Bearable(kind, where)
<1>1. ASSUME NoFault
      PROVE  Unbroken
  BY <1>1 DEF NoFault, Unbroken, CleanCutShort, NotReverted, Only, Happened
<1>2. ASSUME NEW kind, NEW where, Fault(kind, where)
      PROVE  Unbroken /\ Bearable(kind, where)
  <2>. DEFINE f == <<kind, where>>
  <2>1. faults \subseteq faults' /\ f \in faults' /\ f[1] = kind /\ f[2] = where
    BY <1>2 DEF Fault
  <2>2. Unbroken
    BY <2>1 DEF Unbroken, CleanCutShort, NotReverted, Only, Happened
  <2>3. f[1] \in {"fail", "undo", "crash", "crashInUndo", "crashAtEnd"}
    BY <2>1 DEF Unbroken, CleanCutShort, Only
  <2>4. f[1] \in {"fail", "clean", "crash", "crashInUndo", "crashInClean", "crashAtEnd"}
    BY <2>1 DEF Unbroken, NotReverted, Only
  <2>5. f[1] = "fail" => f[2] \notin {"RecoverFiles", "RecoverApplication", "RecoverManifest",
                                      "ManifestRemoval", "RecoverIcons", "RecoverStorage",
                                      "RecoveryFile"}
    BY <2>1 DEF Unbroken, NotReverted, Happened
  <2>6. f[1] = "crash" => f[2] # "ParseRecovery"
    BY <2>1 DEF Unbroken, Happened
  <2>. QED  BY <2>1, <2>2, <2>3, <2>4, <2>5, <2>6 DEF Bearable
<1>. QED  BY <1>1, <1>2

\* A handler that fails without having changed anything leaves it to the undo().
LEMMA FailingHere ==
  ASSUME TypeInv, ArmedBody, phase = "process", Failed(device, ctx)
  PROVE  ArmedBody'
<1>1. RecordOK'
  BY DEF Failed, Leave, StepFails, envVars, ArmedBody, RecordOK, Clear, SetAside, HalfInstalled, FilesAre, IconsAre, Armed
<1>2. MemoryOK'
  BY DEF Failed, Leave, StepFails, envVars, ArmedBody, MemoryOK
<1>3. InstallOK' /\ UpdateOK'
  BY DEF Failed, Leave, StepFails, envVars, ArmedBody, InstallOK, UpdateOK, SetAside
<1>4. CleanOK' /\ RecoveryOK'
  BY DEF Failed, Leave, StepFails, CleanOK, RecoveryOK
<1>. QED  BY <1>1, <1>2, <1>3, <1>4 DEF ArmedBody

\* Nothing is set aside or installed before the package id is on record.
LEMMA EarlyClear ==
  ASSUME TypeInv, ArmedBody, phase \in {"process", "undo"},
         (req = "Install" /\ it <= 4) \/ (req = "Update" /\ it <= 5)
  PROVE  Clear
<1>1. it \in Nat
  BY DEF TypeInv, RunnerOK
<1>2. CASE req = "Install"
  BY <1>1, <1>2 DEF ArmedBody, InstallOK, Clear, HalfInstalled, FilesAre, IconsAre
<1>3. CASE req = "Update"
  BY <1>1, <1>3 DEF ArmedBody, UpdateOK, Clear, SetAside, HalfInstalled
<1>. QED  BY <1>2, <1>3

LEMMA ArmedConfigure ==
  ASSUME TypeInv, ArmedBody, Unbroken', Configure \/ ConfigureWrite
  PROVE  ArmedBody'
<1>1. /\ device \in Devices /\ ctx \in Contexts
      /\ it = 1 /\ phase = "process" /\ 1 < NumSteps
  BY Positions DEF Configure, ConfigureWrite, Process, TypeInv, StateOK, RunnerOK, Last
<1>2. req # "Recovery" => Clear
  BY <1>1, EarlyClear DEF TypeInv, RunnerOK, Requests
<1>3. CASE Configure
  <2>1. CASE FailsHere("Configure")
    BY <1>1, <2>1, FailingHere DEF FailsHere
  <2>2. CASE NoFault /\ Done(device, ctx) /\ req = "Recovery"
    BY <1>1, <2>2 DEF Done, Leave, StepOk, envVars, ArmedBody, RecordOK, MemoryOK, InstallOK, UpdateOK, CleanOK, RecoveryOK, Clear, SetAside, HalfInstalled, FilesAre, IconsAre, Armed
  <2>3. CASE NoFault /\ GoOn("write", [device EXCEPT !.rec = TornRecovery], ctx) /\ req # "Recovery"
    <3>1. RecordOK'
      BY <1>1, <1>2, <2>3 DEF Devices, TornRecovery, NoRecovery, GoOn, Leave, runnerVars, envVars, ArmedBody, RecordOK, Clear, SetAside, HalfInstalled, FilesAre, IconsAre
    <3>2. MemoryOK' /\ InstallOK' /\ UpdateOK' /\ CleanOK' /\ RecoveryOK'
      BY <1>1, <2>3 DEF Devices, GoOn, Leave, runnerVars, envVars, ArmedBody, MemoryOK, InstallOK, UpdateOK, CleanOK, RecoveryOK, SetAside
    <3>. QED  BY <3>1, <3>2 DEF ArmedBody
  <2>. QED  BY <1>3, <2>1, <2>2, <2>3 DEF Configure
<1>4. CASE ConfigureWrite
  <2>. DEFINE file == [NoRecovery EXCEPT !.kind = req]
              d == [device EXCEPT !.rec = file]
              c == [ctx EXCEPT !.file = file]
  <2>1. req # "Recovery"
    BY <1>1, <1>4, Positions DEF ConfigureWrite, Process, TypeInv, RunnerOK, LoopsOK, Loops, Parsers
  <2>2. CASE NoFault /\ Done(d, c)
    <3>1. /\ \A f \in {"pkg", "bck", "tmp", "xml", "xmlBck", "icon", "iconBck", "db"} : device'[f] = device[f]
          /\ device'.rec = file /\ ctx'.file = file /\ file.kind = req
          /\ ctx'.made = ctx.made /\ ctx'.bxml = ctx.bxml /\ ctx'.gathered = ctx.gathered
          /\ phase' = "process" /\ it' = 2 /\ part' = "start" /\ req' = req /\ stable' = stable
      BY <1>1, <2>2 DEF Devices, Contexts, NoRecovery, Done, Leave, StepOk, envVars
    <3>2. RecordOK'
      BY <1>1, <1>2, <2>1, <3>1 DEF TypeInv, RunnerOK, Requests, ArmedBody, RecordOK, InstallOK, UpdateOK, Clear, SetAside, HalfInstalled, FilesAre, IconsAre
    <3>3. MemoryOK' /\ InstallOK' /\ UpdateOK' /\ CleanOK' /\ RecoveryOK'
      BY <1>1, <2>1, <3>1 DEF ArmedBody, MemoryOK, InstallOK, UpdateOK, CleanOK, RecoveryOK, SetAside
    <3>. QED  BY <3>2, <3>3 DEF ArmedBody
  <2>3. CASE Fault("fail", "Configure") /\ Failed([device EXCEPT !.rec = NoRecovery], ctx)
    <3>1. RecordOK'
      BY <1>1, <1>2, <2>1, <2>3 DEF Devices, NoRecovery, Failed, Leave, StepFails, envVars, ArmedBody, RecordOK, Clear, SetAside, HalfInstalled, FilesAre, IconsAre
    <3>2. MemoryOK' /\ InstallOK' /\ UpdateOK' /\ CleanOK' /\ RecoveryOK'
      BY <1>1, <2>1, <2>3 DEF Devices, Failed, Leave, StepFails, envVars, ArmedBody, MemoryOK, InstallOK, UpdateOK, CleanOK, RecoveryOK, SetAside
    <3>. QED  BY <3>1, <3>2 DEF ArmedBody
  <2>. QED  BY <1>4, <2>2, <2>3 DEF ConfigureWrite
<1>. QED  BY <1>3, <1>4

\* clean() of StepConfigure commits.
LEMMA ArmedCommit ==
  ASSUME TypeInv, ArmedBody, Unbroken', ConfigureClean
  PROVE  ArmedBody'
<1>1. /\ device \in Devices /\ ctx \in Contexts /\ stable \in Nat
      /\ it = 1 /\ phase = "clean" /\ 1 < NumSteps
  BY Positions DEF ConfigureClean, Clean, TypeInv, StateOK, RunnerOK, HistoryOK, Last
<1>2. /\ device' = [device EXCEPT !.rec = NoRecovery] /\ ctx' = [ctx EXCEPT !.file = NoRecovery]
      /\ phase' = "clean" /\ it' = 2 /\ req' = req
      /\ stable' = IF req = "Recovery" THEN stable ELSE stable + 1
  BY <1>1 DEF ConfigureClean, StepCleaned, NewVersion
<1>3. /\ \A f \in {"pkg", "bck", "xml", "xmlBck", "icon", "iconBck", "db"} : device'[f] = device[f]
      /\ device'.rec = NoRecovery /\ ctx'.file = NoRecovery /\ ctx'.gathered = ctx.gathered
  BY <1>1, <1>2 DEF Devices, Contexts
<1>. USE DEF ArmedBody, Clear, SetAside, HalfInstalled, FilesAre, IconsAre
<1>4. RecordOK'
  BY <1>2, <1>3 DEF RecordOK, NoRecovery
<1>5. MemoryOK' /\ InstallOK' /\ UpdateOK' /\ RecoveryOK'
  BY <1>2, <1>3 DEF MemoryOK, InstallOK, UpdateOK, RecoveryOK
<1>6. CleanOK'
  BY <1>1, <1>2, <1>3 DEF CleanOK, None, NoRecovery
<1>. QED  BY <1>4, <1>5, <1>6

LEMMA ArmedUnzip ==
  ASSUME TypeInv, ArmedBody, Unbroken', Unzip \/ UnzipCreateDir \/ UnzipExtract \/ UnzipUndo
  PROVE  ArmedBody'
<1>1. /\ device \in Devices /\ ctx \in Contexts /\ req \in {"Install", "Update"}
      /\ it = 2 /\ phase \in {"process", "undo"} /\ 2 < NumSteps
  <2>1. Step = "Unzip" /\ phase \in {"process", "undo"}
    BY DEF Unzip, UnzipCreateDir, UnzipExtract, UnzipUndo, Process, Undo
  <2>. QED  BY <2>1, Positions DEF TypeInv, StateOK, RunnerOK, Requests, Last
<1>2. Clear
  BY <1>1, EarlyClear
<1>. USE DEF ArmedBody, Clear, SetAside, HalfInstalled, FilesAre, IconsAre
<1>3. CASE Unzip
  <2>. DEFINE file == [ctx.file EXCEPT !.dir = TRUE]
  <2>1. PICK d : WriteRecovery(file, d) /\ GoOn("mkdir", d, [ctx EXCEPT !.file = file])
    BY <1>3 DEF Unzip
  <2>2. d = [device EXCEPT !.rec = file]
    BY <2>1, UnbrokenBefore DEF WriteRecovery, Bearable
  <2>3. /\ \A f \in {"pkg", "bck", "tmp", "xml", "xmlBck", "icon", "iconBck", "db"} : device'[f] = device[f]
        /\ device'.rec = ctx'.file /\ device'.rec.kind = req
        /\ ctx'.made = ctx.made /\ ctx'.bxml = ctx.bxml /\ ctx'.gathered = ctx.gathered
        /\ phase' = "process" /\ it' = it /\ req' = req /\ stable' = stable
    BY <1>1, <1>3, <2>1, <2>2 DEF Unzip, Process, Devices, Contexts, RecoveryFiles, GoOn, Leave, runnerVars, envVars, MemoryOK
  <2>4. RecordOK'
    BY <1>1, <1>2, <2>3 DEF RecordOK, InstallOK, UpdateOK
  <2>5. MemoryOK' /\ InstallOK' /\ UpdateOK' /\ CleanOK' /\ RecoveryOK'
    BY <1>1, <1>3, <2>3 DEF Unzip, Process, MemoryOK, InstallOK, UpdateOK, CleanOK, RecoveryOK
  <2>. QED  BY <2>4, <2>5
<1>4. CASE UnzipCreateDir
  <2>1. CASE FailsHere("Unzip")
    BY <1>4, <2>1, FailingHere DEF UnzipCreateDir, Process, FailsHere
  <2>2. CASE GoOn("extract", [device EXCEPT !.tmp = EmptyDir], ctx)
    <3>1. /\ \A f \in {"pkg", "bck", "rec", "xml", "xmlBck", "icon", "iconBck", "db"} : device'[f] = device[f]
          /\ ctx' = ctx /\ phase' = phase /\ it' = it /\ req' = req /\ stable' = stable
      BY <1>1, <2>2 DEF Devices, GoOn, Leave, runnerVars, envVars
    <3>. QED  BY <1>1, <1>4, <3>1 DEF UnzipCreateDir, Process, RecordOK, MemoryOK, InstallOK, UpdateOK, CleanOK, RecoveryOK, Armed
  <2>. QED  BY <1>4, <2>1, <2>2 DEF UnzipCreateDir
<1>5. CASE UnzipExtract
  <2>1. CASE Done([device EXCEPT !.tmp = Shipped(NewVersion)], [ctx EXCEPT !.unpacked = TRUE])
    <3>1. /\ \A f \in {"pkg", "bck", "rec", "xml", "xmlBck", "icon", "iconBck", "db"} : device'[f] = device[f]
          /\ device'.tmp = Shipped(NewVersion)
          /\ \A f \in {"file", "made", "bxml", "gathered"} : ctx'[f] = ctx[f]
          /\ phase' = "process" /\ it' = 3 /\ req' = req /\ stable' = stable
      BY <1>1, <1>5, <2>1 DEF UnzipExtract, Devices, Contexts, Done, Leave, StepOk, envVars
    <3>2. Has(device'.tmp, "manifest")
      <4>1. NewVersion \in Versions
        BY <1>1, <1>5, StateAssumption DEF UnzipExtract, Process, TypeInv, HistoryOK, RoomOK, NewVersion, Versions
      <4>. QED  BY <3>1, <4>1, ShippedTree DEF Has, CodeLike
    <3>. QED  BY <1>1, <1>2, <3>1, <3>2 DEF RecordOK, MemoryOK, InstallOK, UpdateOK, CleanOK, RecoveryOK, Armed
  <2>2. CASE Failed([device EXCEPT !.tmp = Missing], ctx)
    <3>1. /\ \A f \in {"pkg", "bck", "rec", "xml", "xmlBck", "icon", "iconBck", "db"} : device'[f] = device[f]
          /\ ctx' = ctx /\ phase' = "undo" /\ it' = it /\ req' = req /\ stable' = stable
      BY <1>1, <2>2 DEF Devices, Failed, Leave, StepFails, envVars
    <3>. QED  BY <1>1, <1>5, <3>1 DEF UnzipExtract, Process, RecordOK, MemoryOK, InstallOK, UpdateOK, CleanOK, RecoveryOK, Armed
  <2>. QED  BY <1>5, <2>1, <2>2 DEF UnzipExtract
<1>6. CASE UnzipUndo
  <2>1. /\ \A f \in {"pkg", "bck", "rec", "xml", "xmlBck", "icon", "iconBck", "db"} : device'[f] = device[f]
        /\ \A f \in {"file", "made", "bxml", "gathered"} : ctx'[f] = ctx[f]
        /\ phase' = "undo" /\ it' = 1 /\ req' = req /\ stable' = stable
    BY <1>1, <1>6 DEF UnzipUndo, Undo, Devices, Contexts, Undone, Leave, StepUndone, envVars
  <2>. QED  BY <1>1, <1>2, <2>1 DEF RecordOK, MemoryOK, InstallOK, UpdateOK, CleanOK, RecoveryOK, Armed
<1>. QED  BY <1>3, <1>4, <1>5, <1>6

LEMMA ArmedParse ==
  ASSUME TypeInv, ArmedBody, Unbroken',
         ParseManifest \/ ParseInstalled
         \/ \E d \in WriteResults([ctx.file EXCEPT !.pkgid = TRUE]) : ParseWrite(d)
  PROVE  ArmedBody'
<1>1. /\ device \in Devices /\ ctx \in Contexts /\ phase = "process"
      /\ (it = 3 /\ req \in {"Install", "Update"}) \/ (it = 5 /\ req = "Update")
      /\ it < NumSteps
  <2>1. Step \in {"ParseManifest", "ParseInstalled"} /\ phase = "process"
    BY DEF ParseManifest, ParseInstalled, ParseWrite, Process
  <2>. QED  BY <2>1, Positions DEF TypeInv, StateOK, RunnerOK, Requests, Last
<1>2. Clear
  BY <1>1, EarlyClear
<1>. USE DEF ArmedBody, RecordOK, MemoryOK, InstallOK, UpdateOK, CleanOK, RecoveryOK,
             Clear, SetAside, HalfInstalled, FilesAre, IconsAre, Armed
<1>3. CASE ParseManifest
  <2>1. CASE FailsHere("ParseManifest")
    BY <1>1, <2>1, FailingHere DEF FailsHere
  <2>2. CASE GoOn("rec", device, [ctx EXCEPT !.pkgid = TRUE])
    <3>1. /\ device' = device /\ \A f \in {"file", "made", "bxml", "gathered"} : ctx'[f] = ctx[f]
          /\ phase' = phase /\ it' = it /\ req' = req /\ stable' = stable
      BY <1>1, <2>2 DEF Contexts, GoOn, Leave, runnerVars, envVars
    <3>2. it = 3
      BY <1>3, Positions DEF ParseManifest, Process, TypeInv, RunnerOK
    <3>. QED  BY <1>1, <1>2, <3>1, <3>2
  <2>. QED  BY <1>3, <2>1, <2>2 DEF ParseManifest
<1>4. CASE ParseInstalled
  <2>1. CASE Failed(device, ctx)
    BY <1>1, <2>1, FailingHere
  <2>2. CASE GoOn("rec", device, ctx)
    BY <1>1, <1>2, <2>2 DEF GoOn, Leave, runnerVars, envVars
  <2>. QED  BY <1>4, <2>1, <2>2 DEF ParseInstalled, FailsHere
<1>5. ASSUME NEW d, ParseWrite(d)
      PROVE  ArmedBody'
  <2>. DEFINE file == [ctx.file EXCEPT !.pkgid = TRUE]
  <2>1. WriteRecovery(file, d)
    BY <1>5 DEF ParseWrite
  <2>2. d = [device EXCEPT !.rec = file]
    BY <2>1, UnbrokenBefore DEF WriteRecovery, Bearable
  <2>3. PICK c : /\ Done(d, c)
                 /\ \/ c = [ctx EXCEPT !.file = file, !.man = VersionOf(device.tmp["manifest"])]
                    \/ c = [ctx EXCEPT !.file = file, !.old = device.xml]
    BY <1>5 DEF ParseWrite
  <2>4. /\ \A f \in {"pkg", "bck", "tmp", "xml", "xmlBck", "icon", "iconBck", "db"} : device'[f] = device[f]
        /\ device'.rec = ctx'.file /\ device'.rec.kind = req /\ device'.rec.pkgid
        /\ ctx'.made = ctx.made /\ ctx'.bxml = ctx.bxml /\ ctx'.gathered = ctx.gathered
        /\ phase' = "process" /\ it' = it + 1 /\ req' = req /\ stable' = stable
    <3>1. file \in RecoveryFiles /\ file.kind = ctx.file.kind /\ file.pkgid
      BY <1>1 DEF Contexts, RecoveryFiles
    <3>2. ctx.file.kind = req
      BY <1>1
    <3>3. c.file = file /\ \A f \in {"made", "bxml", "gathered"} : c[f] = ctx[f]
      <4>. HIDE DEF file
      <4>. QED  BY <1>1, <2>3 DEF Contexts
    <3>4. d.rec = file /\ \A f \in {"pkg", "bck", "tmp", "xml", "xmlBck", "icon", "iconBck", "db"} : d[f] = device[f]
      <4>. HIDE DEF file
      <4>. QED  BY <1>1, <2>2 DEF Devices
    <3>. HIDE DEF file
    <3>. QED  BY <1>1, <2>3, <3>1, <3>2, <3>3, <3>4 DEF Done, Leave, StepOk, envVars
  <2>5. RecordOK'
    BY <1>1, <1>2, <2>4
  <2>6. MemoryOK' /\ InstallOK' /\ UpdateOK' /\ CleanOK' /\ RecoveryOK'
    BY <1>1, <2>4
  <2>. QED  BY <2>5, <2>6
<1>. QED  BY <1>3, <1>4, <1>5

LEMMA ArmedIcons ==
  ASSUME TypeInv, ArmedBody, Unbroken',
         CreateIcons \/ CreateIconsCopy \/ CreateIconsUndo
  PROVE  ArmedBody'
<1>1. /\ device \in Devices /\ ctx \in Contexts /\ phase \in {"process", "undo"}
      /\ (it = 7 /\ req = "Install") \/ (it = 10 /\ req = "Update")
      /\ it < NumSteps
  <2>1. Step = "CreateIcons" /\ phase \in {"process", "undo"}
    BY DEF CreateIcons, CreateIconsCopy, CreateIconsUndo, Process, Undo
  <2>. QED  BY <2>1, Positions DEF TypeInv, StateOK, RunnerOK, Requests, Last
<1>2. Armed
  BY <1>1 DEF ArmedBody, MemoryOK, Armed
<1>. USE DEF ArmedBody, RecordOK, MemoryOK, InstallOK, UpdateOK, CleanOK, RecoveryOK,
             Clear, SetAside, HalfInstalled, FilesAre, IconsAre, Armed
<1>3. CASE CreateIcons
  <2>1. /\ device' = device /\ \A f \in {"file", "made", "bxml", "gathered"} : ctx'[f] = ctx[f]
        /\ phase' = phase /\ it' = it /\ req' = req /\ stable' = stable
    BY <1>1, <1>3 DEF CreateIcons, Contexts, GoOn, Leave, runnerVars, envVars
  <2>. QED  BY <1>1, <1>2, <2>1
<1>4. CASE CreateIconsCopy
  <2>0. phase = "process" /\ ctx.todo \subseteq Apps
    BY <1>1, <1>4, Positions DEF CreateIconsCopy, Process, TypeInv, RunnerOK, LoopsOK, Loops, Parsers
  <2>1. CASE Failed(device, ctx)
    BY <1>1, <2>0, <2>1, FailingHere
  <2>2. CASE Done(device, ctx)
    <3>1. /\ device' = device /\ ctx' = ctx
          /\ phase' = "process" /\ it' = it + 1 /\ req' = req /\ stable' = stable
      BY <1>1, <2>0, <2>2 DEF Done, Leave, StepOk, envVars
    <3>. QED  BY <1>1, <1>2, <3>1
  <2>3. ASSUME NEW a \in ctx.todo, device.icon[a] = None,
               GoOn("copy", [device EXCEPT !.icon[a] = ctx.man],
                    [ctx EXCEPT !.todo = @ \ {a}, !.made = @ \cup {a}])
        PROVE  ArmedBody'
    <3>1. /\ \A f \in {"pkg", "bck", "tmp", "xml", "xmlBck", "iconBck", "db", "rec"} : device'[f] = device[f]
          /\ \A b \in Apps \ {a} : device'.icon[b] = device.icon[b]
          /\ ctx'.made = ctx.made \cup {a} /\ ctx'.file = ctx.file
          /\ ctx'.bxml = ctx.bxml /\ ctx'.gathered = ctx.gathered
          /\ phase' = phase /\ it' = it /\ req' = req /\ stable' = stable
      BY <1>1, <2>0, <2>3 DEF Devices, Contexts, GoOn, Leave, runnerVars, envVars
    <3>2. RecordOK'
      BY <1>1, <1>2, <3>1
    <3>3. MemoryOK' /\ InstallOK' /\ CleanOK' /\ RecoveryOK'
      BY <1>1, <2>0, <3>1
    <3>4. UpdateOK'
      BY <1>1, <2>0, <3>1
    <3>. QED  BY <3>2, <3>3, <3>4
  <2>. QED  BY <1>4, <2>1, <2>2, <2>3 DEF CreateIconsCopy, FailsHere
<1>5. CASE CreateIconsUndo
  <2>1. /\ \A f \in {"pkg", "bck", "tmp", "xml", "xmlBck", "iconBck", "db", "rec"} : device'[f] = device[f]
        /\ \A a \in Apps : device'.icon[a] = IF a \in ctx.made THEN None ELSE device.icon[a]
        /\ \A f \in {"file", "made", "bxml", "gathered"} : ctx'[f] = ctx[f]
        /\ phase = "undo" /\ phase' = "undo" /\ it' = it - 1 /\ req' = req /\ stable' = stable
    BY <1>1, <1>5 DEF CreateIconsUndo, Undo, Devices, Contexts, Undone, Leave, StepUndone, envVars
  <2>2. RecordOK'
    BY <1>1, <1>2, <2>1
  <2>3. MemoryOK' /\ InstallOK' /\ CleanOK' /\ RecoveryOK'
    BY <1>1, <2>1
  <2>4. UpdateOK'
    BY <1>1, <2>1
  <2>. QED  BY <2>2, <2>3, <2>4
<1>. QED  BY <1>3, <1>4, <1>5

LEMMA ArmedManifest ==
  ASSUME TypeInv, ArmedBody, Unbroken', CreateManifest \/ CreateManifestUndo
  PROVE  ArmedBody'
<1>1. /\ device \in Devices /\ ctx \in Contexts /\ phase \in {"process", "undo"}
      /\ (it = 8 /\ req = "Install") \/ (it = 11 /\ req = "Update")
      /\ it < NumSteps
  <2>1. Step = "CreateManifest" /\ phase \in {"process", "undo"}
    BY DEF CreateManifest, CreateManifestUndo, Process, Undo
  <2>. QED  BY <2>1, Positions DEF TypeInv, StateOK, RunnerOK, Requests, Last
<1>2. Armed
  BY <1>1 DEF ArmedBody, MemoryOK, Armed
<1>. USE DEF ArmedBody, RecordOK, MemoryOK, InstallOK, UpdateOK, CleanOK, RecoveryOK,
             Clear, SetAside, HalfInstalled, FilesAre, IconsAre, Armed
<1>3. CASE CreateManifest
  <2>1. CASE FailsHere("CreateManifest")
    BY <1>3, <2>1, FailingHere DEF CreateManifest, Process, FailsHere
  <2>2. CASE Done([device EXCEPT !.xml = ctx.man], ctx)
    <3>1. /\ \A f \in {"pkg", "bck", "tmp", "xmlBck", "icon", "iconBck", "db", "rec"} : device'[f] = device[f]
          /\ ctx' = ctx
          /\ phase = "process" /\ phase' = "process" /\ it' = it + 1 /\ req' = req /\ stable' = stable
      BY <1>1, <1>3, <2>2 DEF CreateManifest, Process, Devices, Done, Leave, StepOk, envVars
    <3>. QED  BY <1>1, <1>2, <3>1
  <2>. QED  BY <1>3, <2>1, <2>2 DEF CreateManifest
<1>4. CASE CreateManifestUndo
  <2>1. /\ \A f \in {"pkg", "bck", "tmp", "xmlBck", "icon", "iconBck", "db", "rec"} : device'[f] = device[f]
        /\ device'.xml = None
        /\ \A f \in {"file", "made", "bxml", "gathered"} : ctx'[f] = ctx[f]
        /\ phase = "undo" /\ phase' = "undo" /\ it' = it - 1 /\ req' = req /\ stable' = stable
    BY <1>1, <1>4 DEF CreateManifestUndo, Undo, Devices, Contexts, Undone, Leave, StepUndone, envVars
  <2>. QED  BY <1>1, <1>2, <2>1
<1>. QED  BY <1>3, <1>4

LEMMA ArmedNothing ==
  ASSUME TypeInv, ArmedBody, Unbroken', NothingToUndo \/ NothingToClean
  PROVE  ArmedBody'
<1>. USE DEF ArmedBody, RecordOK, MemoryOK, InstallOK, UpdateOK, CleanOK, RecoveryOK,
             Clear, SetAside, HalfInstalled, FilesAre, IconsAre, Armed
<1>1. /\ device \in Devices /\ ctx \in Contexts /\ req \in Requests /\ it \in Nat
      /\ it >= 1 /\ NumSteps = Last
  BY Positions DEF TypeInv, StateOK, RunnerOK
<1>2. CASE NothingToUndo
  <2>1. /\ phase = "undo" /\ phase' = (IF it > 1 THEN "undo" ELSE "end")
        /\ it' = (IF it > 1 THEN it - 1 ELSE it)
        /\ device' = device /\ req' = req /\ stable' = stable
        /\ \A f \in {"file", "made", "bxml", "gathered"} : ctx'[f] = ctx[f]
    BY <1>1, <1>2 DEF NothingToUndo, Contexts, Undone, Leave, StepUndone, envVars
  <2>2. CASE req = "Recovery"
    <3>1. it # 2
      BY <1>2, <2>2, Positions DEF NothingToUndo, HasUndo, TypeInv, RunnerOK
    <3>. QED  BY <1>1, <2>1, <2>2, <3>1
  <2>3. CASE req = "Install"
    <3>1. it \notin {5, 7, 8, 9}
      BY <1>2, <2>3, Positions DEF NothingToUndo, HasUndo, TypeInv, RunnerOK
    <3>2. it <= 4 => Clear
      BY <2>1, <2>3, EarlyClear
    <3>. QED  BY <1>1, <2>1, <2>3, <3>1, <3>2
  <2>4. CASE req = "Update"
    <3>1. it \notin {6, 7, 8, 10}
      BY <1>2, <2>4, Positions DEF NothingToUndo, HasUndo, TypeInv, RunnerOK
    <3>2. it <= 5 => Clear
      BY <2>1, <2>4, EarlyClear
    <3>3. RecordOK' /\ MemoryOK'
      BY <1>1, <2>1, <2>4, <3>2
    <3>4. UpdateOK'
      BY <1>1, <2>1, <2>4, <3>1
    <3>. QED  BY <2>1, <2>4, <3>3, <3>4
  <2>. QED  BY <1>1, <2>2, <2>3, <2>4 DEF Requests
<1>3. CASE NothingToClean
  <2>1. /\ phase = "clean" /\ phase' = (IF it < Last THEN "clean" ELSE "end")
        /\ it' = (IF it < Last THEN it + 1 ELSE it)
        /\ device' = device /\ req' = req /\ stable' = stable /\ ctx' = ctx
    BY <1>1, <1>3 DEF NothingToClean, Cleaned, Leave, StepCleaned, envVars
  <2>2. it > 1 /\ (req = "Update" => it \notin {6, 7, 8})
    BY <1>1, <1>3, Positions DEF NothingToClean, HasClean, TypeInv, RunnerOK
  <2>3. CleanOK'
    BY <1>1, <2>1, <2>2
  <2>4. RecordOK' /\ MemoryOK'
    BY <1>1, <2>1, <2>2 DEF Last
  <2>. QED  BY <2>1, <2>3, <2>4
<1>. QED  BY <1>2, <1>3

LEMMA ArmedCommon ==
  ASSUME TypeInv, ArmedBody, Unbroken', CommonStep
  PROVE  ArmedBody'
BY ArmedConfigure, ArmedCommit, ArmedUnzip, ArmedParse, ArmedIcons, ArmedManifest, ArmedNothing
   DEF CommonStep

-------------------------------------------------------------------------------
(* ... through the steps of an installation *)

LEMMA ArmedInstall ==
  ASSUME TypeInv, ArmedBody, Unbroken', InstallStep
  PROVE  ArmedBody'
<1>1. /\ device \in Devices /\ ctx \in Contexts /\ phase \in {"process", "undo"}
      /\ req = "Install" /\ it \in {4, 5, 6, 9, 10} /\ NumSteps = 10
  <2>1. /\ Step \in {"RollbackInstallationSecurity", "Copy", "CreateStorageDirectories",
                     "RegisterApplication", "RegisterSecurity"}
        /\ phase \in {"process", "undo"}
    BY DEF InstallStep, RollbackInstallationSecurity, RollbackInstallationSecurityUndo,
           RegisterSecurity, Copy, CopyUndo, CreateStorageDirectories, RegisterApplication,
           RegisterApplicationCerts, RegisterApplicationUndo, Process, Undo
  <2>. QED  BY <2>1, Positions DEF TypeInv, StateOK, RunnerOK, Last
<1>2. Armed
  BY <1>1 DEF ArmedBody, MemoryOK, Armed
<1>3. it <= 4 => Clear
  BY <1>1, EarlyClear
<1>4. TreeOK(device.pkg) /\ TreeOK(device.tmp)
  BY DEF TypeInv, TreesOK
<1>. USE DEF ArmedBody, RecordOK, MemoryOK, InstallOK, UpdateOK, CleanOK, RecoveryOK,
             Clear, SetAside, HalfInstalled, FilesAre, IconsAre, Armed
<1>5. CASE RollbackInstallationSecurity
  <2>1. /\ device' = device /\ ctx' = ctx /\ it = 4
        /\ phase = "process" /\ phase' = "process" /\ it' = 5 /\ req' = req /\ stable' = stable
    BY <1>1, <1>5, Positions DEF RollbackInstallationSecurity, Process, Done, Leave, StepOk, envVars, TypeInv, RunnerOK
  <2>. QED  BY <1>1, <1>2, <1>3, <2>1
<1>6. CASE RollbackInstallationSecurityUndo
  <2>1. /\ \A f \in {"pkg", "bck", "tmp", "xml", "xmlBck", "icon", "iconBck", "db", "rec"} : device'[f] = device[f]
        /\ \A f \in {"file", "made", "bxml", "gathered"} : ctx'[f] = ctx[f]
        /\ phase = "undo" /\ phase' = "undo" /\ it' = it - 1 /\ it = 4 /\ req' = req /\ stable' = stable
    BY <1>1, <1>6, Positions DEF RollbackInstallationSecurityUndo, Undo, Devices, Contexts, Undone, Leave, StepUndone, envVars, TypeInv, RunnerOK
  <2>. QED  BY <1>1, <1>2, <1>3, <2>1
<1>7. CASE RegisterSecurity
  <2>0. phase = "process" /\ it = 10
    BY <1>7, Positions DEF RegisterSecurity, Process, TypeInv, RunnerOK
  <2>1. CASE Done([device EXCEPT !.sec = ctx.man], ctx)
    <3>1. /\ \A f \in {"pkg", "bck", "tmp", "xml", "xmlBck", "icon", "iconBck", "db", "rec"} : device'[f] = device[f]
          /\ ctx' = ctx /\ phase' = "clean" /\ it' = 1 /\ req' = req /\ stable' = stable
      BY <1>1, <2>0, <2>1 DEF Devices, Done, Leave, StepOk, envVars
    <3>. QED  BY <1>1, <1>2, <2>0, <3>1
  <2>2. ASSUME NEW s, Failed([device EXCEPT !.sec = s], ctx)
        PROVE  ArmedBody'
    <3>1. /\ \A f \in {"pkg", "bck", "tmp", "xml", "xmlBck", "icon", "iconBck", "db", "rec"} : device'[f] = device[f]
          /\ ctx' = ctx /\ phase' = "undo" /\ it' = it /\ req' = req /\ stable' = stable
      BY <1>1, <2>0, <2>2 DEF Devices, Failed, Leave, StepFails, envVars
    <3>. QED  BY <1>1, <1>2, <2>0, <3>1
  <2>. QED  BY <1>7, <2>1, <2>2 DEF RegisterSecurity
<1>8. CASE Copy
  <2>0. phase = "process" /\ it = 5
    BY <1>8, Positions DEF Copy, Process, TypeInv, RunnerOK
  <2>1. CASE FailsHere("Copy")
    BY <2>0, <2>1, FailingHere DEF FailsHere
  <2>2. CASE Done([device EXCEPT !.pkg = MoveTree(device.tmp, device.pkg), !.tmp = Missing], ctx)
    <3>1. /\ \A f \in {"bck", "xml", "xmlBck", "icon", "iconBck", "db", "rec"} : device'[f] = device[f]
          /\ device'.pkg = MoveTree(device.tmp, device.pkg)
          /\ ctx' = ctx /\ phase' = "process" /\ it' = 6 /\ req' = req /\ stable' = stable
      BY <1>1, <2>0, <2>2 DEF Devices, Done, Leave, StepOk, envVars
    <3>2. Has(device.tmp, "manifest") => Has(device'.pkg, "manifest")
      BY <1>4, <3>1 DEF MoveTree, Merge, Names, Has, IsEmpty, TreeOK, Trees, Nodes, Entries, CodeLike
    <3>. QED  BY <1>1, <1>2, <2>0, <3>1, <3>2
  <2>. QED  BY <1>8, <2>1, <2>2 DEF Copy
<1>9. CASE CopyUndo
  <2>1. Undone(TRUE, [device EXCEPT !.pkg = Missing])
    <3>1. ~Fault("undo", "Copy")
      BY UnbrokenBefore DEF Bearable
    <3>. QED  BY <1>9, <3>1 DEF CopyUndo
  <2>2. /\ \A f \in {"bck", "tmp", "xml", "xmlBck", "icon", "iconBck", "db", "rec"} : device'[f] = device[f]
        /\ device'.pkg = Missing
        /\ \A f \in {"file", "made", "bxml", "gathered"} : ctx'[f] = ctx[f]
        /\ phase = "undo" /\ phase' = "undo" /\ it = 5 /\ it' = 4 /\ req' = req /\ stable' = stable
    BY <1>1, <1>9, <2>1, Positions DEF CopyUndo, Undo, Devices, Contexts, Undone, Leave, StepUndone, envVars, TypeInv, RunnerOK
  <2>. QED  BY <1>1, <1>2, <2>2, EmptyTrees
<1>10. CASE CreateStorageDirectories
  <2>0. phase = "process" /\ it = 6
    BY <1>10, Positions DEF CreateStorageDirectories, Process, TypeInv, RunnerOK
  <2>1. CASE FailsHere("CreateStorageDirectories")
    BY <2>0, <2>1, FailingHere DEF FailsHere
  <2>2. ASSUME NEW t, Done([device EXCEPT !.pkg = t], ctx), t["manifest"] = device.pkg["manifest"]
        PROVE  ArmedBody'
    <3>1. /\ \A f \in {"bck", "xml", "xmlBck", "icon", "iconBck", "db", "rec"} : device'[f] = device[f]
          /\ device'.pkg["manifest"] = device.pkg["manifest"]
          /\ ctx' = ctx /\ phase' = "process" /\ it' = 7 /\ req' = req /\ stable' = stable
      BY <1>1, <2>0, <2>2 DEF Devices, Done, Leave, StepOk, envVars
    <3>. QED  BY <1>1, <1>2, <2>0, <3>1 DEF Has
  <2>. DEFINE made == [k \in StorageKeys |-> device.pkg[k] \cup {Dot}]
              t == IF global THEN Drop(device.pkg, "data")
                             ELSE Put(Put(device.pkg, "data", made["data"]),
                                      "shared", made["shared"])
  <2>3. t["manifest"] = device.pkg["manifest"]
    BY <1>4 DEF Put, Drop, TreeOK, Trees, Nodes, Entries, CodeLike
  <2>4. FailsHere("CreateStorageDirectories") \/ Done([device EXCEPT !.pkg = t], ctx)
    BY <1>10 DEF CreateStorageDirectories
  <2>. HIDE DEF t
  <2>. QED  BY <2>1, <2>2, <2>3, <2>4
<1>11. CASE RegisterApplication \/ RegisterApplicationCerts
  <2>0. phase = "process" /\ it = 9
    BY <1>11, Positions DEF RegisterApplication, RegisterApplicationCerts, Process, TypeInv, RunnerOK
  <2>1. CASE Failed(device, ctx)
    BY <2>0, <2>1, FailingHere
  <2>2. CASE GoOn("certs", [device EXCEPT !.db = ctx.man], ctx)
    <3>1. /\ \A f \in {"pkg", "bck", "tmp", "xml", "xmlBck", "icon", "iconBck", "rec"} : device'[f] = device[f]
          /\ ctx' = ctx /\ phase' = phase /\ it' = it /\ req' = req /\ stable' = stable
      BY <1>1, <2>2 DEF Devices, GoOn, Leave, runnerVars, envVars
    <3>. QED  BY <1>1, <1>2, <2>0, <3>1
  <2>3. CASE Done([device EXCEPT !.cert = TRUE], ctx)
    <3>1. /\ \A f \in {"pkg", "bck", "tmp", "xml", "xmlBck", "icon", "iconBck", "db", "rec"} : device'[f] = device[f]
          /\ ctx' = ctx /\ phase' = "process" /\ it' = 10 /\ req' = req /\ stable' = stable
      BY <1>1, <2>0, <2>3 DEF Devices, Done, Leave, StepOk, envVars
    <3>. QED  BY <1>1, <1>2, <2>0, <3>1
  <2>. QED  BY <1>11, <2>1, <2>2, <2>3 DEF RegisterApplication, RegisterApplicationCerts, FailsHere
<1>12. CASE RegisterApplicationUndo
  <2>1. PICK ok \in BOOLEAN :
          \/ Undone(ok, [device EXCEPT !.db = None, !.cert = FALSE])
          \/ device.db = None /\ Undone(ok, device)
    <3>1. ~Fault("undo", "RegisterApplication")
      BY UnbrokenBefore DEF Bearable
    <3>. QED  BY <1>12, <3>1 DEF RegisterApplicationUndo
  <2>2. /\ \A f \in {"pkg", "bck", "tmp", "xml", "xmlBck", "icon", "iconBck", "rec"} : device'[f] = device[f]
        /\ device'.db = None
        /\ \A f \in {"file", "made", "bxml", "gathered"} : ctx'[f] = ctx[f]
        /\ phase = "undo" /\ phase' = "undo" /\ it = 9 /\ it' = 8 /\ req' = req /\ stable' = stable
    <3>1. phase = "undo" /\ it = 9
      BY <1>12, Positions DEF RegisterApplicationUndo, Undo, TypeInv, RunnerOK
    <3>2. CASE Undone(ok, [device EXCEPT !.db = None, !.cert = FALSE])
      BY <1>1, <3>1, <3>2 DEF Devices, Contexts, Undone, Leave, StepUndone, envVars
    <3>3. CASE device.db = None /\ Undone(ok, device)
      BY <1>1, <3>1, <3>3 DEF Devices, Contexts, Undone, Leave, StepUndone, envVars
    <3>. QED  BY <2>1, <3>2, <3>3
  <2>. QED  BY <1>1, <1>2, <2>2
<1>. QED  BY <1>5, <1>6, <1>7, <1>8, <1>9, <1>10, <1>11, <1>12 DEF InstallStep

-------------------------------------------------------------------------------
(* ... of an update *)

LEMMA ArmedBackupManifest ==
  ASSUME TypeInv, ArmedBody, Unbroken',
         BackupManifest \/ BackupManifestUndo \/ BackupManifestClean
  PROVE  ArmedBody'
<1>1. /\ device \in Devices /\ ctx \in Contexts /\ phase \in {"process", "undo", "clean"}
      /\ req = "Update" /\ it = 6 /\ NumSteps = 13
  <2>1. Step = "BackupManifest" /\ phase \in {"process", "undo", "clean"}
    BY DEF BackupManifest, BackupManifestUndo, BackupManifestClean, Process, Undo, Clean
  <2>. QED  BY <2>1, Positions DEF TypeInv, StateOK, RunnerOK, Last
<1>2. phase # "clean" => Armed
  BY <1>1 DEF ArmedBody, MemoryOK, Armed
<1>. USE DEF ArmedBody, RecordOK, MemoryOK, InstallOK, UpdateOK, CleanOK, RecoveryOK,
             Clear, SetAside, HalfInstalled, FilesAre, IconsAre, Armed
<1>3. CASE BackupManifest
  <2>0. phase = "process"
    BY <1>3 DEF BackupManifest, Process
  <2>1. CASE Failed(device, ctx)
    BY <2>0, <2>1, FailingHere
  <2>2. ASSUME NEW v, Failed([device EXCEPT !.xmlBck = v], [ctx EXCEPT !.bxml = TRUE])
               \/ Done([device EXCEPT !.xmlBck = v], [ctx EXCEPT !.bxml = TRUE])
        PROVE  ArmedBody'
    <3>1. /\ \A f \in {"pkg", "bck", "tmp", "xml", "icon", "iconBck", "db", "rec"} : device'[f] = device[f]
          /\ \A f \in {"file", "made", "gathered", "man", "todo"} : ctx'[f] = ctx[f]
          /\ ctx'.bxml = TRUE /\ req' = req /\ stable' = stable
          /\ (phase' = "undo" /\ it' = 6) \/ (phase' = "process" /\ it' = 7 /\ part' = "start")
      BY <1>1, <2>0, <2>2 DEF Devices, Contexts, Done, Failed, Leave, StepOk, StepFails, envVars
    <3>2. RecordOK'
      BY <1>1, <1>2, <2>0, <3>1
    <3>3. MemoryOK' /\ InstallOK' /\ CleanOK' /\ RecoveryOK'
      BY <1>1, <2>0, <3>1
    <3>4. UpdateOK'
      BY <1>1, <2>0, <3>1
    <3>. QED  BY <3>2, <3>3, <3>4
  <2>3. ASSUME Failed(device, [ctx EXCEPT !.bxml = TRUE])
        PROVE  ArmedBody'
    <3>1. /\ device' = device
          /\ \A f \in {"file", "made", "gathered", "man", "todo"} : ctx'[f] = ctx[f]
          /\ ctx'.bxml = TRUE /\ req' = req /\ stable' = stable
          /\ phase' = "undo" /\ it' = 6
      BY <1>1, <2>0, <2>3 DEF Contexts, Failed, Leave, StepFails, envVars
    <3>2. RecordOK'
      BY <1>1, <1>2, <2>0, <3>1
    <3>3. MemoryOK' /\ InstallOK' /\ CleanOK' /\ RecoveryOK' /\ UpdateOK'
      BY <1>1, <2>0, <3>1
    <3>. QED  BY <3>2, <3>3
  <2>. QED  BY <1>3, <2>1, <2>2, <2>3 DEF BackupManifest
<1>4. CASE BackupManifestUndo
  <2>0. phase = "undo"
    BY <1>4 DEF BackupManifestUndo, Undo
  <2>1. \/ ~(ctx.bxml /\ device.xmlBck # None) /\ Undone(TRUE, device)
        \/ Undone(TRUE, [device EXCEPT !.xml = device.xmlBck, !.xmlBck = None])
    <3>1. ~Fault("undo", "BackupManifest")
      BY UnbrokenBefore DEF Bearable
    <3>. QED  BY <1>4, <3>1 DEF BackupManifestUndo
  <2>2. /\ \A f \in {"pkg", "bck", "tmp", "icon", "iconBck", "db", "rec"} : device'[f] = device[f]
        /\ device'.xmlBck = None
        /\ \A f \in {"file", "made", "gathered", "bxml"} : ctx'[f] = ctx[f]
        /\ req' = req /\ stable' = stable /\ phase' = "undo" /\ it' = 5
    <3>1. CASE ~(ctx.bxml /\ device.xmlBck # None) /\ Undone(TRUE, device)
      BY <1>1, <2>0, <3>1 DEF Contexts, Undone, Leave, StepUndone, envVars
    <3>2. CASE Undone(TRUE, [device EXCEPT !.xml = device.xmlBck, !.xmlBck = None])
      BY <1>1, <2>0, <3>2 DEF Devices, Contexts, Undone, Leave, StepUndone, envVars
    <3>. QED  BY <2>1, <3>1, <3>2
  <2>3. RecordOK'
    BY <1>1, <1>2, <2>0, <2>2
  <2>4. MemoryOK' /\ InstallOK' /\ CleanOK' /\ RecoveryOK' /\ UpdateOK'
    BY <1>1, <2>0, <2>2
  <2>. QED  BY <2>3, <2>4
<1>5. CASE BackupManifestClean
  <2>0. phase = "clean"
    BY <1>5 DEF BackupManifestClean, Clean
  <2>1. Cleaned([device EXCEPT !.xmlBck = None], ctx)
    <3>1. ~Fault("clean", "BackupManifest")
      BY UnbrokenBefore DEF Bearable
    <3>. QED  BY <1>5, <3>1 DEF BackupManifestClean
  <2>2. /\ \A f \in {"pkg", "bck", "tmp", "xml", "icon", "iconBck", "db", "rec"} : device'[f] = device[f]
        /\ device'.xmlBck = None
        /\ ctx' = ctx /\ req' = req /\ stable' = stable /\ phase' = "clean" /\ it' = 7
    BY <1>1, <2>0, <2>1 DEF Devices, Cleaned, Leave, StepCleaned, envVars
  <2>. QED  BY <1>1, <2>0, <2>2
<1>. QED  BY <1>3, <1>4, <1>5

LEMMA ArmedBackupIcons ==
  ASSUME TypeInv, ArmedBody, Unbroken',
         BackupIcons \/ BackupIconsMove \/ BackupIconsUndo \/ BackupIconsClean
  PROVE  ArmedBody'
<1>1. /\ device \in Devices /\ ctx \in Contexts /\ phase \in {"process", "undo", "clean"}
      /\ req = "Update" /\ it = 7 /\ NumSteps = 13
  <2>1. Step = "BackupIcons" /\ phase \in {"process", "undo", "clean"}
    BY DEF BackupIcons, BackupIconsMove, BackupIconsUndo, BackupIconsClean, Process, Undo, Clean
  <2>. QED  BY <2>1, Positions DEF TypeInv, StateOK, RunnerOK, Last
<1>2. phase # "clean" => Armed
  BY <1>1 DEF ArmedBody, MemoryOK, Armed
<1>. USE DEF ArmedBody, RecordOK, MemoryOK, InstallOK, UpdateOK, CleanOK, RecoveryOK,
             Clear, SetAside, HalfInstalled, FilesAre, IconsAre, Armed
<1>3. CASE BackupIcons
  <2>1. /\ device' = device
        /\ \A f \in {"file", "made", "bxml"} : ctx'[f] = ctx[f]
        /\ ctx'.todo = ctx'.gathered
        /\ phase = "process" /\ part = "start" /\ req' = req /\ stable' = stable
        /\ phase' = "process" /\ it' = 7 /\ part' = "move"
    BY <1>1, <1>3 DEF BackupIcons, Process, Contexts, GoOn, Leave, runnerVars, envVars
  <2>2. RecordOK'
    BY <1>1, <1>2, <2>1
  <2>3. MemoryOK' /\ InstallOK' /\ CleanOK' /\ RecoveryOK' /\ UpdateOK'
    BY <1>1, <2>1
  <2>. QED  BY <2>2, <2>3
<1>4. CASE BackupIconsMove
  <2>0. phase = "process" /\ part = "move" /\ ctx.todo \subseteq Apps /\ ctx.todo \subseteq ctx.gathered
    <3>1. phase = "process" /\ part = "move" /\ Step = "BackupIcons"
      BY <1>4 DEF BackupIconsMove, Process
    <3>2. ctx.todo \subseteq Apps
      BY <3>1 DEF TypeInv, LoopsOK, Loops, Parsers
    <3>. QED  BY <1>1, <3>1, <3>2
  <2>1. CASE Failed(device, ctx)
    BY <2>0, <2>1, FailingHere
  <2>2. CASE Done(device, ctx)
    <3>1. /\ device' = device /\ ctx' = ctx
          /\ phase' = "process" /\ it' = 8 /\ part' = "start" /\ req' = req /\ stable' = stable
      BY <1>1, <2>0, <2>2 DEF Done, Leave, StepOk, envVars
    <3>. QED  BY <1>1, <1>2, <2>0, <3>1
  <2>3. ASSUME NEW a \in ctx.todo, device.iconBck[a] = None,
               GoOn("move", [device EXCEPT !.iconBck[a] = device.icon[a], !.icon[a] = None],
                    [ctx EXCEPT !.todo = @ \ {a}])
        PROVE  ArmedBody'
    <3>1. /\ \A f \in {"pkg", "bck", "tmp", "xml", "xmlBck", "db", "rec"} : device'[f] = device[f]
          /\ \A b \in Apps \ {a} : device'.icon[b] = device.icon[b] /\ device'.iconBck[b] = device.iconBck[b]
          /\ device'.icon[a] = None
          /\ ctx'.todo \subseteq ctx.todo
          /\ \A f \in {"file", "made", "bxml", "gathered"} : ctx'[f] = ctx[f]
          /\ phase' = phase /\ it' = it /\ part' = part /\ req' = req /\ stable' = stable
      BY <1>1, <2>0, <2>3 DEF Devices, Contexts, GoOn, Leave, runnerVars, envVars
    <3>2. RecordOK'
      BY <1>1, <1>2, <2>0, <3>1
    <3>3. MemoryOK' /\ InstallOK' /\ CleanOK' /\ RecoveryOK'
      BY <1>1, <2>0, <3>1
    <3>4. UpdateOK'
      BY <1>1, <2>0, <3>1
    <3>. QED  BY <3>2, <3>3, <3>4
  <2>. QED  BY <1>4, <2>1, <2>2, <2>3 DEF BackupIconsMove, FailsHere
<1>5. CASE BackupIconsUndo
  <2>. DEFINE moved == {a \in ctx.gathered : device.iconBck[a] # None /\ device.icon[a] = None}
              t == [a \in Apps |-> IF a \in moved THEN device.iconBck[a] ELSE device.icon[a]]
              u == [a \in Apps |-> IF a \in moved THEN None ELSE device.iconBck[a]]
  <2>1. phase = "undo" /\ Undone(moved = ctx.gathered, [device EXCEPT !.icon = t, !.iconBck = u])
    <3>1. ~Fault("undo", "BackupIcons")
      BY UnbrokenBefore DEF Bearable
    <3>. QED  BY <1>5, <3>1 DEF BackupIconsUndo, Undo
  <2>2. \A a \in Apps : device.iconBck[a] # None => a \in moved
    BY <1>1, <2>1
  <2>3. \A a \in Apps : u[a] = None
    BY <2>2
  <2>. HIDE DEF t, u, moved
  <2>4. /\ \A f \in {"pkg", "bck", "tmp", "xml", "xmlBck", "db", "rec"} : device'[f] = device[f]
        /\ device'.iconBck = u
        /\ \A f \in {"file", "made", "gathered", "bxml"} : ctx'[f] = ctx[f]
        /\ req' = req /\ stable' = stable /\ phase' = "undo" /\ it' = 6
    BY <1>1, <2>1 DEF Devices, Contexts, Undone, Leave, StepUndone, envVars
  <2>5. RecordOK'
    BY <1>1, <1>2, <2>1, <2>4
  <2>6. MemoryOK' /\ InstallOK' /\ CleanOK' /\ RecoveryOK' /\ UpdateOK'
    BY <1>1, <2>1, <2>3, <2>4
  <2>. QED  BY <2>5, <2>6
<1>6. CASE BackupIconsClean
  <2>1. phase = "clean"
        /\ Cleaned([device EXCEPT
             !.iconBck = [a \in Apps |-> IF a \in ctx.gathered \ {} THEN None ELSE device.iconBck[a]]], ctx)
    <3>1. ~Fault("clean", "BackupIcons")
      BY UnbrokenBefore DEF Bearable
    <3>. QED  BY <1>6, <3>1 DEF BackupIconsClean, Clean
  <2>2. \A a \in Apps : device.iconBck[a] # None => a \in ctx.gathered
    BY <1>1, <2>1
  <2>3. /\ \A f \in {"pkg", "bck", "tmp", "xml", "xmlBck", "icon", "db", "rec"} : device'[f] = device[f]
        /\ \A a \in Apps : device'.iconBck[a] = None
        /\ ctx' = ctx /\ req' = req /\ stable' = stable /\ phase' = "clean" /\ it' = 8
    BY <1>1, <2>1, <2>2 DEF Devices, Cleaned, Leave, StepCleaned, envVars
  <2>. QED  BY <1>1, <2>1, <2>3
<1>. QED  BY <1>3, <1>4, <1>5, <1>6

\* What neither the files nor the registration of a package have to do with.
SameMarks(d) == \A f \in {"rec", "xmlBck", "icon", "iconBck"} : d[f] = device[f]
SameMemory(c) == \A f \in {"file", "made", "bxml", "gathered"} : c[f] = ctx[f]

LEMMA SameHere == SameMarks(device) /\ SameMemory(ctx)
BY DEF SameMarks, SameMemory

\* Once the backup of the files has begun, only CreateIcons changes what is set
\* aside otherwise, and the undo() of StepCopyBackup puts the files back.
LEMMA LateUpdate ==
  ASSUME TypeInv, ArmedBody, req = "Update", phase \in {"process", "undo"}, it \in 8..13,
         NEW d, SameMarks(d), NEW c, SameMemory(c), NEW p, NEW ok,
         \/ GoOn(p, d, c)
         \/ Done(d, c)
         \/ Failed(d, c)
         \/ it \notin {8, 10} /\ Undone(ok, d)
         \/ it = 8 /\ ~Exists(d.bck) /\ Undone(ok, d)
  PROVE  ArmedBody'
<1>. DEFINE Same == /\ device' = d /\ req' = req /\ stable' = stable
                    /\ SameMemory(ctx')
<1>1. /\ NumSteps = 13 /\ it \in Nat /\ ctx \in Contexts
  BY Positions DEF TypeInv, RunnerOK, StateOK, Last
<1>2. \/ Same /\ phase' = phase /\ it' = it
      \/ Same /\ phase' = "process" /\ phase = "process" /\ it' = it + 1 /\ it < 13
      \/ Same /\ phase' = "undo" /\ it' = it
      \/ Same /\ phase' = "undo" /\ it' = it - 1 /\ it \notin {8, 10}
      \/ Same /\ phase' = "undo" /\ it' = 7 /\ it = 8 /\ ~Exists(device'.bck)
      \/ Same /\ phase' = "clean" /\ it' = 1
  <2>1. CASE GoOn(p, d, c)
    BY <2>1 DEF GoOn, Leave, runnerVars, envVars
  <2>2. CASE Done(d, c)
    BY <1>1, <2>2 DEF Done, Leave, StepOk, envVars
  <2>3. CASE Failed(d, c)
    BY <2>3 DEF Failed, Leave, StepFails, envVars
  <2>4. CASE it \notin {8, 10} /\ Undone(ok, d)
    BY <1>1, <2>4 DEF SameMemory, Contexts, Undone, Leave, StepUndone, envVars
  <2>5. CASE it = 8 /\ ~Exists(d.bck) /\ Undone(ok, d)
    BY <1>1, <2>5 DEF SameMemory, Contexts, Undone, Leave, StepUndone, envVars
  <2>. QED  BY <2>1, <2>2, <2>3, <2>4, <2>5
<1>. HIDE DEF Same
<1>3. Same
  BY <1>2
<1>. USE DEF ArmedBody, Clear, SetAside, HalfInstalled, FilesAre, IconsAre, Armed, Same, SameMarks, SameMemory
<1>4. Armed
  BY <1>1 DEF MemoryOK
<1>5. /\ stable # None /\ device.xmlBck # None => ctx.bxml
      /\ \A a \in Apps : device.iconBck[a] # None => a \in ctx.gathered
      /\ \A a \in Apps : device.iconBck[a] # None /\ device.icon[a] # None => it >= 10 /\ a \in ctx.made
  BY DEF UpdateOK
<1>6. RecordOK'
  BY <1>3, <1>4, <1>5, <1>1 DEF RecordOK, MemoryOK
<1>7. InstallOK' /\ RecoveryOK'
  BY <1>3 DEF InstallOK, RecoveryOK
<1>8. CASE phase' = "clean"
  <2>1. it' = 1
    BY <1>2, <1>8, <1>1
  <2>. QED  BY <1>3, <1>5, <1>6, <1>7, <1>8, <2>1 DEF MemoryOK, UpdateOK, CleanOK
<1>9. CASE phase' # "clean"
  <2>1. /\ phase' \in {"process", "undo"} /\ it' \in Nat /\ it' >= 7
        /\ it' = 7 => phase' = "undo" /\ ~Exists(device'.bck)
        /\ it >= 10 => it' >= 10
    BY <1>1, <1>2, <1>9
  <2>2. MemoryOK' /\ CleanOK'
    BY <1>1, <1>3, <2>1 DEF MemoryOK, CleanOK
  <2>3. Exists(device'.bck) => it' >= 8
    BY <2>1
  <2>4. UpdateOK'
    BY <1>1, <1>3, <1>5, <2>1, <2>3 DEF UpdateOK
  <2>. QED  BY <1>6, <1>7, <2>2, <2>4
<1>. QED  BY <1>8, <1>9

LEMMA ArmedCopyBackup ==
  ASSUME TypeInv, ArmedBody, Unbroken',
         CopyBackup \/ CopyBackupEntry \/ CopyBackupNewContent
         \/ CopyBackupUndo \/ CopyBackupRestore \/ CopyBackupClean
  PROVE  ArmedBody'
<1>1. /\ device \in Devices /\ ctx \in Contexts /\ phase \in {"process", "undo", "clean"}
      /\ req = "Update" /\ it = 8 /\ NumSteps = 13
  <2>1. Step = "CopyBackup" /\ phase \in {"process", "undo", "clean"}
    BY DEF CopyBackup, CopyBackupEntry, CopyBackupNewContent, CopyBackupUndo,
           CopyBackupRestore, CopyBackupClean, Process, Undo, Clean
  <2>. QED  BY <2>1, Positions DEF TypeInv, StateOK, RunnerOK, Last
<1>2. /\ \A u : SameMarks([device EXCEPT !.bck = u])
      /\ \A v : SameMarks([device EXCEPT !.tmp = v])
      /\ \A t, u : SameMarks([device EXCEPT !.bck = u, !.pkg = t])
      /\ \A t, v : SameMarks([device EXCEPT !.pkg = t, !.tmp = v])
      /\ \A t, v : SameMarks([[device EXCEPT !.tmp = v] EXCEPT !.pkg = t])
      /\ \A t, u : SameMarks([device EXCEPT !.pkg = t, !.bck = u])
      /\ \A t : SameMemory([ctx EXCEPT !.todo = t])
  BY <1>1 DEF Devices, Contexts, SameMarks, SameMemory
<1>3. /\ \A v : [device EXCEPT !.tmp = v].bck = device.bck
      /\ \A t, u : [device EXCEPT !.pkg = t, !.bck = u].bck = u
  BY <1>1 DEF Devices
<1>5. CASE CopyBackup \/ CopyBackupEntry \/ CopyBackupNewContent
  <2>0. phase = "process"
    BY <1>5 DEF CopyBackup, CopyBackupEntry, CopyBackupNewContent, Process
  <2>1. ASSUME NEW p, NEW d, SameMarks(d), NEW c, SameMemory(c),
               GoOn(p, d, c) \/ Done(d, c) \/ Failed(d, c)
        PROVE  ArmedBody'
    BY <1>1, <2>0, <2>1, LateUpdate
  <2>2. CASE CopyBackup
    <3>. DEFINE u == IF Exists(device.bck) THEN device.bck ELSE EmptyDir
                d == [device EXCEPT !.bck = u]
                c == [ctx EXCEPT !.todo = {e \in Entries : Has(device.pkg, e)}]
    <3>1. d = [device EXCEPT !.bck = IF Exists(@) THEN @ ELSE EmptyDir]
      BY <1>1 DEF Devices
    <3>2. GoOn("backup", d, c) \/ Failed(d, ctx) \/ Failed(device, ctx)
      BY <2>2, <3>1 DEF CopyBackup, FailsHere
    <3>3. SameMarks(d) /\ SameMemory(c)
      BY <1>2
    <3>. HIDE DEF d, c
    <3>. QED  BY <2>1, <3>2, <3>3, SameHere
  <2>3. CASE CopyBackupEntry
    <3>1. ASSUME NEW e \in ctx.todo,
                 GoOn("backup", [device EXCEPT !.bck = Put(@, e, device.pkg[e]), !.pkg = Drop(@, e)],
                      [ctx EXCEPT !.todo = @ \ {e}])
          PROVE  ArmedBody'
      <4>. DEFINE t == Drop(device.pkg, e)
                  u == Put(device.bck, e, device.pkg[e])
                  d == [device EXCEPT !.bck = u, !.pkg = t]
                  c == [ctx EXCEPT !.todo = ctx.todo \ {e}]
      <4>1. /\ d = [device EXCEPT !.bck = Put(@, e, device.pkg[e]), !.pkg = Drop(@, e)]
            /\ c = [ctx EXCEPT !.todo = @ \ {e}]
        BY <1>1 DEF Devices, Contexts
      <4>2. GoOn("backup", d, c)
        BY <3>1, <4>1
      <4>3. SameMarks(d) /\ SameMemory(c)
        BY <1>2
      <4>. HIDE DEF d, c
      <4>. QED  BY <2>1, <4>2, <4>3
    <3>2. GoOn("content", device, ctx) \/ Failed(device, ctx)
          \/ \E e \in ctx.todo :
               GoOn("backup", [device EXCEPT !.bck = Put(@, e, device.pkg[e]), !.pkg = Drop(@, e)],
                    [ctx EXCEPT !.todo = @ \ {e}])
      BY <2>3 DEF CopyBackupEntry, FailsHere
    <3>. QED  BY <2>1, <3>1, <3>2, SameHere
  <2>4. CASE CopyBackupNewContent
    <3>. DEFINE d == [device EXCEPT !.pkg = MoveTree(device.tmp, device.pkg), !.tmp = Missing]
    <3>1. Done(d, ctx) \/ Failed(device, ctx)
      BY <2>4 DEF CopyBackupNewContent, FailsHere
    <3>2. SameMarks(d)
      BY <1>2
    <3>. HIDE DEF d
    <3>. QED  BY <2>1, <3>1, <3>2, SameHere
  <2>. QED  BY <1>5, <2>2, <2>3, <2>4
<1>6. CASE CopyBackupUndo \/ CopyBackupRestore
  <2>0. phase = "undo"
    BY <1>6 DEF CopyBackupUndo, CopyBackupRestore, Undo
  <2>1. ~Fault("undo", "CopyBackup")
    BY UnbrokenBefore DEF Bearable
  <2>2. ASSUME NEW d, SameMarks(d), GoOn("restore", d, ctx) \/ (~Exists(d.bck) /\ Undone(TRUE, d))
        PROVE  ArmedBody'
    <3>1. it \in 8..13 /\ phase \in {"process", "undo"}
      BY <1>1, <2>0
    <3>2. CASE GoOn("restore", d, ctx)
      BY <1>1, <2>2, <3>1, <3>2, SameHere, LateUpdate
    <3>3. CASE ~Exists(d.bck) /\ Undone(TRUE, d)
      BY <1>1, <2>2, <3>1, <3>3, SameHere, LateUpdate
    <3>. QED  BY <2>2, <3>2, <3>3
  <2>3. CASE CopyBackupUndo
    <3>. DEFINE d == [device EXCEPT !.tmp = Missing]
                e == [d EXCEPT !.pkg = Missing]
    <3>1. (~Exists(device.bck) /\ Undone(TRUE, d)) \/ GoOn("restore", e, ctx)
      BY <2>1, <2>3, Zenon DEF CopyBackupUndo
    <3>2. SameMarks(d) /\ SameMarks(e) /\ d.bck = device.bck
      BY <1>2, <1>3
    <3>. HIDE DEF d, e
    <3>. QED  BY <2>2, <3>1, <3>2
  <2>4. CASE CopyBackupRestore
    <3>. DEFINE d == [device EXCEPT !.pkg = device.bck, !.bck = Missing]
    <3>1. Undone(TRUE, d)
      BY <2>1, <2>4 DEF CopyBackupRestore
    <3>2. SameMarks(d) /\ d.bck = Missing
      BY <1>2, <1>3
    <3>. HIDE DEF d
    <3>. QED  BY <2>2, <3>1, <3>2, EmptyTrees
  <2>. QED  BY <1>6, <2>3, <2>4
<1>7. CASE CopyBackupClean
  <2>0. phase = "clean"
    BY <1>7 DEF CopyBackupClean, Clean
  <2>1. ~Fault("clean", "CopyBackup")
    BY UnbrokenBefore DEF Bearable
  <2>2. /\ \A f \in {"pkg", "xml", "icon", "db", "rec", "xmlBck", "iconBck"} : device'[f] = device[f]
        /\ device'.bck = Missing
        /\ ctx' = ctx /\ req' = req /\ stable' = stable /\ phase' = "clean" /\ it' = 9
    BY <1>1, <1>7, <2>0, <2>1 DEF CopyBackupClean, Devices, Cleaned, Leave, StepCleaned, envVars
  <2>. QED  BY <1>1, <2>0, <2>2, EmptyTrees
            DEF ArmedBody, RecordOK, MemoryOK, InstallOK, UpdateOK, CleanOK, RecoveryOK,
                Clear, SetAside, HalfInstalled, FilesAre, IconsAre, Armed
<1>. QED  BY <1>5, <1>6, <1>7

LEMMA ArmedCopyStorage ==
  ASSUME TypeInv, ArmedBody, Unbroken',
         \/ CopyStorageDirectories \/ CopyStorageCache
         \/ \E key \in StorageKeys :
              CopyStorageMove(key) \/ CopyStorageRemove(key) \/ CopyStorageUndo(key)
  PROVE  ArmedBody'
<1>1. /\ device \in Devices /\ ctx \in Contexts /\ phase \in {"process", "undo"}
      /\ req = "Update" /\ it = 9 /\ NumSteps = 13
  <2>1. Step = "CopyStorageDirectories" /\ phase \in {"process", "undo"}
    BY DEF CopyStorageDirectories, CopyStorageCache, CopyStorageMove, CopyStorageRemove,
           CopyStorageUndo, Process, Undo
  <2>. QED  BY <2>1, Positions DEF TypeInv, StateOK, RunnerOK, Last
<1>2. /\ \A t, u : SameMarks([device EXCEPT !.pkg = t, !.bck = u])
      /\ \A t, u : SameMarks([device EXCEPT !.bck = u, !.pkg = t])
      /\ \A t : SameMarks([device EXCEPT !.pkg = t])
      /\ \A u : SameMarks([device EXCEPT !.bck = u])
      /\ \A ok : SameMemory([ctx EXCEPT !.ok = ok])
  BY <1>1 DEF Devices, Contexts, SameMarks, SameMemory
<1>4. ASSUME NEW p, NEW d, SameMarks(d), NEW c, SameMemory(c), NEW ok,
             GoOn(p, d, c) \/ Done(d, c) \/ Failed(d, c) \/ Undone(ok, d)
      PROVE  ArmedBody'
  BY <1>1, <1>4, LateUpdate
<1>5. CASE CopyStorageDirectories \/ CopyStorageCache
  <2>1. (\E p : GoOn(p, device, ctx)) \/ Done(device, ctx) \/ Failed(device, ctx)
    BY <1>5 DEF CopyStorageDirectories, CopyStorageCache, FailsHere
  <2>. QED  BY <1>4, <2>1, SameHere
<1>6. ASSUME NEW key \in StorageKeys, CopyStorageMove(key)
      PROVE  ArmedBody'
  <2>. DEFINE src == device.bck[key]
              dst == device.pkg[key]
              moved == [device EXCEPT !.pkg = Put(device.pkg, key, src), !.bck = Drop(device.bck, key)]
              Copied(t) == [device EXCEPT !.pkg = Put(device.pkg, key, t)]
  <2>1. /\ moved = [device EXCEPT !.pkg = Put(@, key, src), !.bck = Drop(@, key)]
        /\ \A t : Copied(t) = [device EXCEPT !.pkg = Put(@, key, t)]
    BY <1>1 DEF Devices
  <2>2. \/ Failed(device, ctx)
        \/ GoOn(NextKey(key), moved, ctx)
        \/ GoOn(Cleanup(key), Copied(Merge(dst, src)), ctx)
        \/ \E t : Failed(Copied(t), ctx)
    BY <1>6, <2>1 DEF CopyStorageMove, FailsHere
  <2>3. SameMarks(moved) /\ \A t : SameMarks(Copied(t))
    BY <1>2
  <2>. HIDE DEF moved, Copied
  <2>. QED  BY <1>4, <2>2, <2>3, SameHere
<1>7. ASSUME NEW key \in StorageKeys, CopyStorageRemove(key)
      PROVE  ArmedBody'
  <2>. DEFINE gone == [device EXCEPT !.bck = Drop(device.bck, key)]
              Left(t) == [device EXCEPT !.bck = Put(device.bck, key, t)]
  <2>1. /\ gone = [device EXCEPT !.bck = Drop(@, key)]
        /\ \A t : Left(t) = [device EXCEPT !.bck = Put(@, key, t)]
    BY <1>1 DEF Devices
  <2>2. GoOn(NextKey(key), gone, ctx) \/ \E t : Failed(Left(t), ctx)
    BY <1>7, <2>1 DEF CopyStorageRemove
  <2>3. SameMarks(gone) /\ \A t : SameMarks(Left(t))
    BY <1>2
  <2>. HIDE DEF gone, Left
  <2>. QED  BY <1>4, <2>2, <2>3, SameHere
<1>8. ASSUME NEW key \in StorageKeys, CopyStorageUndo(key)
      PROVE  ArmedBody'
  <2>. DEFINE d == [device EXCEPT !.bck = Put(Put(device.bck, ".", {Dot}), key, device.pkg[key]),
                                  !.pkg = Drop(device.pkg, key)]
              Status(ok) == [ctx EXCEPT !.ok = ok]
  <2>1. d = [device EXCEPT !.bck = Put(Put(@, ".", {Dot}), key, device.pkg[key]), !.pkg = Drop(@, key)]
    BY <1>1 DEF Devices
  <2>2. \/ \E ok : GoOn("shared", d, Status(ok)) \/ Undone(ok, d)
        \/ \E ok : GoOn("shared", device, Status(ok)) \/ Undone(ok, device)
    BY <1>8, <2>1 DEF CopyStorageUndo
  <2>3. SameMarks(d) /\ \A ok : SameMemory(Status(ok))
    BY <1>2
  <2>. HIDE DEF d, Status
  <2>. QED  BY <1>4, <2>2, <2>3, SameHere
<1>. QED  BY <1>5, <1>6, <1>7, <1>8

LEMMA ArmedUpdate ==
  ASSUME TypeInv, ArmedBody, Unbroken', UpdateStep
  PROVE  ArmedBody'
<1>1. device \in Devices /\ ctx \in Contexts
  BY DEF TypeInv, StateOK
<1>2. CASE CheckOldCertificate
  <2>1. phase = "process" /\ req = "Update" /\ it = 4 /\ NumSteps = 13
    BY <1>2, Positions DEF CheckOldCertificate, Process, TypeInv, RunnerOK, Last
  <2>2. CASE Failed(device, ctx)
    BY <2>1, <2>2, FailingHere
  <2>3. CASE Done(device, ctx)
    <3>1. /\ device' = device /\ ctx' = ctx
          /\ phase' = "process" /\ it' = 5 /\ part' = "start" /\ req' = req /\ stable' = stable
      BY <2>1, <2>3 DEF Done, Leave, StepOk, envVars
    <3>2. Clear
      BY <2>1, EarlyClear
    <3>. QED  BY <2>1, <3>1, <3>2
              DEF ArmedBody, RecordOK, MemoryOK, InstallOK, UpdateOK, CleanOK, RecoveryOK,
                  Clear, SetAside, HalfInstalled, FilesAre, IconsAre, Armed
  <2>. QED  BY <1>2, <2>2, <2>3 DEF CheckOldCertificate, FailsHere
<1>3. CASE UpdateApplication \/ UpdateApplicationCerts \/ UpdateSecurity
           \/ UpdateApplicationUndo \/ UpdateApplicationUndoCerts \/ UpdateSecurityUndo
  <2>1. phase \in {"process", "undo"} /\ req = "Update" /\ it \in {12, 13} /\ NumSteps = 13
    <3>1. phase \in {"process", "undo"} /\ Step \in {"UpdateApplication", "UpdateSecurity"}
      BY <1>3 DEF UpdateApplication, UpdateApplicationCerts, UpdateSecurity, Process,
                  UpdateApplicationUndo, UpdateApplicationUndoCerts, UpdateSecurityUndo, Undo
    <3>. QED  BY <3>1, Positions DEF TypeInv, RunnerOK, Last
  <2>2. ASSUME NEW p, NEW d, SameMarks(d), NEW c, SameMemory(c), NEW ok,
               GoOn(p, d, c) \/ Done(d, c) \/ Failed(d, c) \/ Undone(ok, d)
        PROVE  ArmedBody'
    BY <2>1, <2>2, LateUpdate
  <2>. DEFINE Row(m) == [device EXCEPT !.db = m, !.cert = FALSE]
              Cert(r) == [device EXCEPT !.cert = r]
              Rules(s) == [device EXCEPT !.sec = s]
              Kept == [ctx EXCEPT !.cert = device.cert]
  <2>3. /\ \A m : SameMarks(Row(m)) /\ SameMarks(Cert(m)) /\ SameMarks(Rules(m))
        /\ SameMemory(Kept)
    BY <1>1 DEF Devices, Contexts, SameMarks, SameMemory
  <2>4. \/ \E m : GoOn("certs", Row(m), Kept) \/ GoOn("certs", Row(m), ctx)
        \/ \E r : Done(Cert(r), ctx) \/ Undone(TRUE, Cert(r))
        \/ \E s : Done(Rules(s), ctx) \/ Failed(Rules(s), ctx) \/ \E ok : Undone(ok, Rules(s))
        \/ Failed(device, ctx) \/ Undone(FALSE, device)
    BY <1>3 DEF UpdateApplication, UpdateApplicationCerts, UpdateSecurity, FailsHere,
                UpdateApplicationUndo, UpdateApplicationUndoCerts, UpdateSecurityUndo
  <2>. HIDE DEF Row, Cert, Rules, Kept
  <2>. QED  BY <2>2, <2>3, <2>4, SameHere
<1>. QED  BY <1>2, <1>3, ArmedBackupManifest, ArmedBackupIcons, ArmedCopyBackup,
             ArmedCopyStorage DEF UpdateStep


-------------------------------------------------------------------------------
(* ... of a recovery *)

\* A step of a recovery that leaves the recovery file alone only has to keep what
\* the recovery is about.
LEMMA RecoveryGoesOn ==
  ASSUME TypeInv, ArmedBody, req = "Recovery", phase = "process", it \in 3..10,
         NEW d, d.rec = device.rec, NEW c, c.file = ctx.file, NEW p,
         GoOn(p, d, c) \/ (it < 10 /\ Done(d, c)),
         RecordOK', RecoveryOK'
  PROVE  ArmedBody'
<1>1. /\ req' = "Recovery" /\ phase' = "process" /\ it' \in 3..10
      /\ device' = d /\ ctx' = c
  <2>1. NumSteps = 10
    BY Positions DEF TypeInv, RunnerOK, Last
  <2>. QED  BY <2>1 DEF GoOn, Done, Leave, StepOk, runnerVars, envVars
<1>2. MemoryOK'
  BY <1>1 DEF ArmedBody, MemoryOK
<1>3. InstallOK' /\ UpdateOK' /\ CleanOK'
  BY <1>1 DEF InstallOK, UpdateOK, CleanOK
<1>. QED  BY <1>2, <1>3 DEF ArmedBody

LEMMA ArmedOpenRecoveryFile ==
  ASSUME TypeInv, ArmedBody, Unbroken', OpenRecoveryFile \/ OpenRecoveryFileUndo
  PROVE  ArmedBody'
<1>1. /\ device \in Devices /\ ctx \in Contexts /\ phase \in {"process", "undo"}
      /\ req = "Recovery" /\ it = 2 /\ NumSteps = 10
  <2>1. Step = "OpenRecoveryFile" /\ phase \in {"process", "undo"}
    BY DEF OpenRecoveryFile, OpenRecoveryFileUndo, Process, Undo
  <2>. QED  BY <2>1, Positions DEF TypeInv, StateOK, RunnerOK, Last
<1>. USE DEF ArmedBody, RecordOK, MemoryOK, InstallOK, UpdateOK, CleanOK, RecoveryOK,
             Clear, SetAside, HalfInstalled, FilesAre, IconsAre, Armed
<1>2. CASE OpenRecoveryFile
  <2>0. phase = "process"
    BY <1>2 DEF OpenRecoveryFile, Process
  <2>1. CASE FailsHere("OpenRecoveryFile")
    BY <2>0, <2>1, FailingHere DEF FailsHere
  <2>2. CASE /\ device.rec.kind \in {"Install", "Update"}
             /\ Done(device, [ctx EXCEPT !.file = device.rec, !.unpacked = device.rec.dir,
                                         !.pkgid = device.rec.pkgid])
    <3>1. /\ device' = device /\ ctx'.file = device.rec
          /\ phase' = "process" /\ it' = 3 /\ part' = "start" /\ req' = req /\ stable' = stable
      BY <1>1, <2>0, <2>2 DEF Contexts, Done, Leave, StepOk, envVars
    <3>. QED  BY <1>1, <2>0, <2>2, <3>1
  <2>. QED  BY <1>2, <2>1, <2>2 DEF OpenRecoveryFile
<1>3. CASE OpenRecoveryFileUndo
  <2>1. /\ device' = device /\ ctx'.file = NoRecovery /\ phase = "undo"
        /\ phase' = "undo" /\ it' = 1 /\ part' = "start" /\ req' = req /\ stable' = stable
    BY <1>1, <1>3 DEF Contexts, OpenRecoveryFileUndo, Undo, StepUndone, envVars
  <2>. QED  BY <1>1, <2>1
<1>. QED  BY <1>2, <1>3

LEMMA ArmedParseRecovery ==
  ASSUME TypeInv, ArmedBody, Unbroken',
         ParseRecovery \/ \E d \in WriteResults(ctx.file) : ParseRecoveryWrite(d)
  PROVE  ArmedBody'
<1>1. /\ device \in Devices /\ ctx \in Contexts /\ phase = "process"
      /\ req = "Recovery" /\ it = 3 /\ NumSteps = 10
  <2>1. Step = "ParseRecovery" /\ phase = "process"
    BY DEF ParseRecovery, ParseRecoveryWrite, Process
  <2>. QED  BY <2>1, Positions DEF TypeInv, StateOK, RunnerOK, Last
<1>2. ctx.file = device.rec /\ device.rec.kind \in {"Install", "Update"}
  BY <1>1 DEF ArmedBody, MemoryOK
<1>3. CASE ParseRecovery
  <2>1. CASE Failed(device, ctx)
    BY <1>1, <2>1, FailingHere
  <2>2. CASE ManifestFound = None /\ Done(device, ctx)
    <3>1. /\ device' = device /\ ctx' = ctx
          /\ phase' = "process" /\ it' = 4 /\ part' = "start" /\ req' = req /\ stable' = stable
      BY <1>1, <2>2 DEF Done, Leave, StepOk, envVars
    <3>2. RecordOK'
      BY <1>1, <3>1 DEF ArmedBody, RecordOK, Clear, SetAside, HalfInstalled, FilesAre, IconsAre, Armed
    <3>3. ~Has(device.pkg, "manifest") /\ device.xml = None
      <4>1. "manifest" \in CodeLike /\ TreeOK(device.pkg) /\ TreeOK(device.bck)
        BY DEF CodeLike, TypeInv, TreesOK
      <4>2. device.bck["manifest"] \in SUBSET CodeFiles /\ device.pkg["manifest"] \in SUBSET CodeFiles
        BY <4>1 DEF TreeOK
      <4>. QED  BY <2>2, <4>2, VersionOfFiles DEF ManifestFound, Has
    <3>4. New /\ stable = None => IconsAre(None)
      BY <1>2, <3>3 DEF ArmedBody, RecordOK, New
    <3>5. RecoveryOK'
      BY <1>1, <3>1, <3>4 DEF RecoveryOK, New, Updating, IconsAre
    <3>. QED  BY <1>1, <2>2, <3>2, <3>5, RecoveryGoesOn
  <2>3. CASE ManifestFound # None /\ GoOn("rec", device, ctx)
    <3>1. /\ device' = device /\ ctx' = ctx
          /\ phase' = "process" /\ it' = 3 /\ part' = "rec" /\ req' = req /\ stable' = stable
      BY <1>1, <2>3 DEF GoOn, Leave, runnerVars, envVars
    <3>2. RecordOK'
      BY <1>1, <3>1 DEF ArmedBody, RecordOK, Clear, SetAside, HalfInstalled, FilesAre, IconsAre, Armed
    <3>3. RecoveryOK'
      BY <1>1, <2>3, <3>1 DEF RecoveryOK, ManifestFound
    <3>. QED  BY <1>1, <2>3, <3>2, <3>3, RecoveryGoesOn
  <2>. QED  BY <1>3, <2>1, <2>2, <2>3 DEF ParseRecovery, FailsHere
<1>4. ASSUME NEW d, ParseRecoveryWrite(d)
      PROVE  ArmedBody'
  <2>. DEFINE c == [ctx EXCEPT !.man = ManifestFound]
  <2>1. d = device
    <3>1. ~Fault("fail", "RecoveryFile")
      BY UnbrokenBefore DEF Bearable
    <3>2. d = [device EXCEPT !.rec = ctx.file]
      BY <1>4, <3>1 DEF ParseRecoveryWrite, WriteRecovery
    <3>. QED  BY <1>1, <1>2, <3>2 DEF Devices
  <2>2. part = "rec" /\ Done(device, c)
    BY <1>4, <2>1 DEF ParseRecoveryWrite, Process
  <2>3. ManifestFound # None
    BY <1>1, <2>2 DEF ArmedBody, RecoveryOK
  <2>4. c.file = ctx.file /\ c.man # None
    BY <1>1, <2>3 DEF Contexts
  <2>. HIDE DEF c
  <2>5. /\ device' = device /\ ctx' = c
        /\ phase' = "process" /\ it' = 4 /\ part' = "start" /\ req' = req /\ stable' = stable
    BY <1>1, <2>2 DEF Done, Leave, StepOk, envVars
  <2>6. RecordOK'
    BY <1>1, <2>5 DEF ArmedBody, RecordOK, Clear, SetAside, HalfInstalled, FilesAre, IconsAre, Armed
  <2>7. RecoveryOK'
    BY <1>1, <2>4, <2>5 DEF RecoveryOK
  <2>. QED  BY <1>1, <2>2, <2>4, <2>6, <2>7, RecoveryGoesOn
<1>. QED  BY <1>3, <1>4

LEMMA ArmedRecoverApplication ==
  ASSUME TypeInv, ArmedBody, Unbroken',
         RecoverApplication \/ RecoverApplicationRegister \/ RecoverApplicationCerts
         \/ RemoveTemporaryDirectory
  PROVE  ArmedBody'
<1>1. /\ device \in Devices /\ ctx \in Contexts /\ phase = "process"
      /\ req = "Recovery" /\ it \in {4, 5} /\ NumSteps = 10
  <2>1. Step \in {"RecoverApplication", "RemoveTemporaryDirectory"} /\ phase = "process"
    BY DEF RecoverApplication, RecoverApplicationRegister, RecoverApplicationCerts,
           RemoveTemporaryDirectory, Process
  <2>. QED  BY <2>1, Positions DEF TypeInv, StateOK, RunnerOK, Last
<1>2. ctx.file = device.rec /\ device.rec.kind \in {"Install", "Update"}
  BY <1>1 DEF ArmedBody, MemoryOK
<1>3. ASSUME NEW d, \A f \in {"pkg", "bck", "xml", "xmlBck", "icon", "iconBck", "rec"} : d[f] = device[f],
             NEW p, (GoOn(p, d, ctx) /\ it = 4) \/ Done(d, ctx),
             \/ d.db = None
             \/ Updating
             \/ it = 5 /\ d.db = device.db,
             GoOn(p, d, ctx) => Updating /\ p \in {"register", "certs"},
             GoOn(p, d, ctx) /\ p = "certs" => ctx.man # None,
             it = 4 /\ Updating /\ Done(d, ctx) => ctx.man # None
      PROVE  ArmedBody'
  <2>1. /\ device' = d /\ ctx' = ctx /\ req' = req /\ stable' = stable /\ phase' = "process"
        /\ \/ it' = it /\ it = 4 /\ part' = p /\ GoOn(p, d, ctx)
           \/ it' = it + 1 /\ part' = "start" /\ Done(d, ctx)
    BY <1>1, <1>3 DEF GoOn, Done, Leave, StepOk, runnerVars, envVars
  <2>. USE DEF ArmedBody, RecordOK, RecoveryOK, Clear, SetAside, HalfInstalled, FilesAre,
               IconsAre, Armed, New, Updating
  <2>2. RecordOK'
    BY <1>1, <1>2, <1>3, <2>1
  <2>3. RecoveryOK'
    BY <1>1, <1>2, <1>3, <2>1
  <2>. QED  BY <1>1, <1>3, <2>2, <2>3, RecoveryGoesOn
<1>. DEFINE Row(m) == [device EXCEPT !.db = m]
            removed == [device EXCEPT !.db = None, !.cert = FALSE]
            plain == [device EXCEPT !.cert = FALSE]
            tidy == IF ctx.unpacked THEN [device EXCEPT !.tmp = Missing] ELSE device
            Rest(d) == \A f \in {"pkg", "bck", "xml", "xmlBck", "icon", "iconBck", "rec"} : d[f] = device[f]
<1>4. /\ \A m : Rest(Row(m))
      /\ Rest(removed) /\ removed.db = None
      /\ Rest(plain) /\ plain.db = device.db
      /\ Rest(tidy) /\ tidy.db = device.db
  BY <1>1 DEF Devices
<1>5. CASE RecoverApplication
  <2>0. it = 4
    BY <1>1, <1>5, Positions DEF RecoverApplication, Process, TypeInv, RunnerOK
  <2>1. ~Fault("fail", "RecoverApplication")
    BY UnbrokenBefore DEF Bearable
  <2>2. IF New THEN Done(removed, ctx) ELSE GoOn("register", removed, ctx)
    BY <1>5, <2>1 DEF RecoverApplication
  <2>3. New => ~Updating
    BY DEF New, Updating
  <2>4. ~New => Updating
    BY <1>2 DEF New, Updating
  <2>. HIDE DEF removed
  <2>5. CASE New
    <3>1. ~GoOn("register", removed, ctx)
      BY <1>1, <2>0, <2>2, <2>5 DEF GoOn, Done, StepOk, runnerVars
    <3>. QED  BY <1>3, <1>4, <2>2, <2>3, <2>5, <3>1
  <2>6. CASE ~New
    <3>1. ~Done(removed, ctx)
      BY <1>1, <2>0, <2>2, <2>6 DEF GoOn, Done, StepOk, runnerVars
    <3>. QED  BY <1>3, <1>4, <2>0, <2>2, <2>4, <2>6, <3>1
  <2>. QED  BY <2>5, <2>6
<1>6. CASE RecoverApplicationRegister \/ RecoverApplicationCerts
  <2>0. it = 4 /\ part \in {"register", "certs"} /\ Updating
    <3>1. it = 4 /\ part \in {"register", "certs"}
      BY <1>1, <1>6, Positions DEF RecoverApplicationRegister, RecoverApplicationCerts, Process, TypeInv, RunnerOK
    <3>. QED  BY <1>1, <3>1 DEF ArmedBody, RecoveryOK
  <2>1. CASE Failed(device, ctx)
    BY <1>1, <2>1, FailingHere
  <2>2. CASE ctx.man # None /\ GoOn("certs", Row(ctx.man), ctx)
    <3>. HIDE DEF Row
    <3>1. ~Done(Row(ctx.man), ctx)
      BY <1>1, <2>0, <2>2 DEF GoOn, Done, StepOk, runnerVars
    <3>. QED  BY <1>3, <1>4, <2>0, <2>2, <3>1
  <2>3. CASE part = "certs" /\ Done(plain, ctx)
    <3>1. ctx.man # None
      BY <1>1, <2>0, <2>3 DEF ArmedBody, RecoveryOK
    <3>. HIDE DEF plain
    <3>2. \A p : ~GoOn(p, plain, ctx)
      BY <1>1, <2>0, <2>3 DEF GoOn, Done, StepOk, runnerVars
    <3>. QED  BY <1>3, <1>4, <2>0, <2>3, <3>1, <3>2
  <2>. QED  BY <1>6, <2>1, <2>2, <2>3 DEF RecoverApplicationRegister, RecoverApplicationCerts, FailsHere, Process
<1>7. CASE RemoveTemporaryDirectory
  <2>0. it = 5 /\ Done(tidy, ctx)
    BY <1>1, <1>7, Positions DEF RemoveTemporaryDirectory, Process, TypeInv, RunnerOK
  <2>. HIDE DEF tidy
  <2>1. \A p : ~GoOn(p, tidy, ctx)
    BY <1>1, <2>0 DEF GoOn, Done, StepOk, runnerVars
  <2>. QED  BY <1>3, <1>4, <2>0, <2>1
<1>. QED  BY <1>5, <1>6, <1>7

LEMMA ArmedRecoverIcons ==
  ASSUME TypeInv, ArmedBody, Unbroken', RecoverIcons \/ RecoverIconsMove \/ RecoverManifest
  PROVE  ArmedBody'
<1>1. /\ device \in Devices /\ ctx \in Contexts /\ phase = "process"
      /\ req = "Recovery" /\ it \in {6, 7} /\ NumSteps = 10
  <2>1. Step \in {"RecoverIcons", "RecoverManifest"} /\ phase = "process"
    BY DEF RecoverIcons, RecoverIconsMove, RecoverManifest, Process
  <2>. QED  BY <2>1, Positions DEF TypeInv, StateOK, RunnerOK, Last
<1>2. ctx.file = device.rec /\ device.rec.kind \in {"Install", "Update"}
  BY <1>1 DEF ArmedBody, MemoryOK
<1>. USE DEF ArmedBody, RecordOK, RecoveryOK, Clear, SetAside, HalfInstalled, FilesAre,
             IconsAre, Armed, New, Updating
<1>3. CASE RecoverIcons
  <2>. DEFINE found == {a \in Apps : device.icon[a] # None \/ device.iconBck[a] # None}
              c == [ctx EXCEPT !.todo = found]
  <2>0. it = 6
    BY <1>1, <1>3, Positions DEF RecoverIcons, Process, TypeInv, RunnerOK
  <2>1. c.file = ctx.file /\ c.man = ctx.man /\ c.todo = found
    BY <1>1 DEF Contexts
  <2>2. (ctx.man = None /\ Done(device, ctx)) \/ (ctx.man # None /\ GoOn("move", device, c))
    BY <1>3 DEF RecoverIcons
  <2>. HIDE DEF c
  <2>3. CASE ctx.man = None /\ Done(device, ctx)
    <3>1. /\ device' = device /\ ctx' = ctx
          /\ phase' = "process" /\ it' = 7 /\ part' = "start" /\ req' = req /\ stable' = stable
      BY <1>1, <2>0, <2>3 DEF Done, Leave, StepOk, envVars
    <3>2. RecordOK' /\ RecoveryOK'
      BY <1>1, <1>2, <2>0, <2>3, <3>1
    <3>. QED  BY <1>1, <2>0, <2>3, <3>2, RecoveryGoesOn
  <2>4. CASE ctx.man # None /\ GoOn("move", device, c)
    <3>1. /\ device' = device /\ ctx' = c
          /\ phase' = "process" /\ it' = 6 /\ part' = "move" /\ req' = req /\ stable' = stable
      BY <1>1, <2>0, <2>4 DEF GoOn, Leave, runnerVars, envVars
    <3>2. RecordOK' /\ RecoveryOK'
      BY <1>1, <1>2, <2>0, <2>1, <2>4, <3>1
    <3>. QED  BY <1>1, <2>1, <2>0, <2>4, <3>2, RecoveryGoesOn
  <2>. QED  BY <2>2, <2>3, <2>4
<1>4. CASE RecoverIconsMove
  <2>0. it = 6 /\ part = "move" /\ ctx.todo \subseteq Apps
    BY <1>1, <1>4, Positions DEF RecoverIconsMove, Process, TypeInv, RunnerOK, LoopsOK, Loops, Parsers
  <2>1. CASE FailsHere("RecoverIcons")
    BY <1>1, <2>1, FailingHere DEF FailsHere
  <2>2. CASE ctx.todo = {} /\ Done(device, ctx)
    <3>1. /\ device' = device /\ ctx' = ctx
          /\ phase' = "process" /\ it' = 7 /\ part' = "start" /\ req' = req /\ stable' = stable
      BY <1>1, <2>0, <2>2 DEF Done, Leave, StepOk, envVars
    <3>2. RecordOK' /\ RecoveryOK'
      BY <1>1, <1>2, <2>0, <2>2, <3>1
    <3>. QED  BY <1>1, <2>0, <2>2, <3>2, RecoveryGoesOn
  <2>3. ASSUME NEW a \in ctx.todo,
               GoOn("move",
                    IF New THEN [device EXCEPT !.icon[a] = None]
                           ELSE [device EXCEPT !.icon[a] = device.iconBck[a], !.iconBck[a] = None],
                    [ctx EXCEPT !.todo = @ \ {a}])
        PROVE  ArmedBody'
    <3>. DEFINE d == IF New THEN [device EXCEPT !.icon[a] = None]
                     ELSE [device EXCEPT !.icon[a] = device.iconBck[a], !.iconBck[a] = None]
                c == [ctx EXCEPT !.todo = ctx.todo \ {a}]
    <3>1. /\ \A f \in {"pkg", "bck", "xml", "xmlBck", "rec", "db"} : d[f] = device[f]
          /\ \A b \in Apps \ {a} : d.icon[b] = device.icon[b] /\ d.iconBck[b] = device.iconBck[b]
          /\ New => d.icon[a] = None /\ d.iconBck = device.iconBck
          /\ ~New => d.iconBck[a] = None
      BY <1>1, <2>0 DEF Devices
    <3>2. c.file = ctx.file /\ c.man = ctx.man /\ c.todo = ctx.todo \ {a}
      BY <1>1 DEF Contexts
    <3>3. GoOn("move", d, c)
      BY <1>1, <2>3 DEF Contexts
    <3>. HIDE DEF d, c
    <3>4. /\ device' = d /\ ctx' = c
          /\ phase' = "process" /\ it' = 6 /\ part' = "move" /\ req' = req /\ stable' = stable
      BY <1>1, <2>0, <3>3 DEF GoOn, Leave, runnerVars, envVars
    <3>5. RecordOK'
      BY <1>1, <1>2, <2>0, <3>1, <3>4
    <3>6. RecoveryOK'
      BY <1>1, <1>2, <2>0, <3>1, <3>2, <3>4
    <3>. QED  BY <1>1, <2>0, <3>1, <3>2, <3>3, <3>5, <3>6, RecoveryGoesOn
  <2>4. ~Fault("fail", "RecoverIcons")
    BY UnbrokenBefore DEF Bearable
  <2>. QED  BY <1>4, <2>1, <2>2, <2>3, <2>4 DEF RecoverIconsMove
<1>5. CASE RecoverManifest
  <2>. DEFINE d == IF New THEN [device EXCEPT !.xml = None]
                   ELSE IF device.xmlBck = None THEN device
                   ELSE [device EXCEPT !.xml = device.xmlBck, !.xmlBck = None]
  <2>0. it = 7
    BY <1>1, <1>5, Positions DEF RecoverManifest, Process, TypeInv, RunnerOK
  <2>1. /\ \A f \in {"pkg", "bck", "icon", "iconBck", "rec", "db"} : d[f] = device[f]
        /\ New => d.xml = None /\ d.xmlBck = device.xmlBck
        /\ ~New => d.xmlBck = None
    BY <1>1 DEF Devices
  <2>2. Done(d, ctx) \/ FailsHere("RecoverManifest")
    <3>1. ~Fault("fail", "RecoverManifest") /\ ~Fault("fail", "ManifestRemoval")
      BY UnbrokenBefore DEF Bearable
    <3>. QED  BY <1>5, <3>1 DEF RecoverManifest
  <2>. HIDE DEF d
  <2>3. CASE FailsHere("RecoverManifest")
    BY <1>1, <2>3, FailingHere DEF FailsHere
  <2>4. CASE Done(d, ctx)
    <3>1. /\ device' = d /\ ctx' = ctx
          /\ phase' = "process" /\ it' = 8 /\ part' = "start" /\ req' = req /\ stable' = stable
      BY <1>1, <2>0, <2>4 DEF Done, Leave, StepOk, envVars
    <3>2. RecordOK'
      BY <1>1, <1>2, <2>0, <2>1, <3>1
    <3>3. RecoveryOK'
      BY <1>1, <1>2, <2>0, <2>1, <3>1
    <3>. QED  BY <1>1, <2>0, <2>1, <2>4, <3>2, <3>3, RecoveryGoesOn
  <2>. QED  BY <2>2, <2>3, <2>4
<1>. QED  BY <1>3, <1>4, <1>5

LEMMA ArmedRecoverFiles ==
  ASSUME TypeInv, ArmedBody, Unbroken',
         \/ RecoverStorageDirectories \/ RecoverStorageShared
         \/ RecoverFiles \/ RecoverFilesMove
  PROVE  ArmedBody'
<1>1. /\ device \in Devices /\ ctx \in Contexts /\ phase = "process"
      /\ req = "Recovery" /\ it \in {8, 9} /\ NumSteps = 10
  <2>1. Step \in {"RecoverStorageDirectories", "RecoverFiles"} /\ phase = "process"
    BY DEF RecoverStorageDirectories, RecoverStorageShared, RecoverFiles, RecoverFilesMove, Process
  <2>. QED  BY <2>1, Positions DEF TypeInv, StateOK, RunnerOK, Last
<1>2. ctx.file = device.rec /\ device.rec.kind \in {"Install", "Update"}
  BY <1>1 DEF ArmedBody, MemoryOK
<1>3. TreeOK(device.pkg) /\ TreeOK(device.bck)
  BY DEF TypeInv, TreesOK
<1>4. New => ~Exists(device.bck)
  BY <1>2 DEF ArmedBody, RecordOK, SetAside, New
<1>5. ASSUME NEW d, \A f \in {"xml", "xmlBck", "icon", "iconBck", "rec", "db"} : d[f] = device[f],
             NEW p, p # "rec", GoOn(p, d, ctx) \/ Done(d, ctx),
             Exists(d.bck) => Exists(device.bck),
             New => (Exists(d.pkg) => Exists(device.pkg)),
             it = 9 /\ Done(d, ctx) => ~Exists(d.bck) /\ (New => ~Exists(d.pkg))
      PROVE  ArmedBody'
  <2>1. /\ device' = d /\ ctx' = ctx /\ req' = req /\ stable' = stable /\ phase' = "process"
        /\ \/ it' = it /\ part' = p /\ GoOn(p, d, ctx)
           \/ it' = it + 1 /\ part' = "start" /\ Done(d, ctx)
    BY <1>1, <1>5 DEF GoOn, Done, Leave, StepOk, runnerVars, envVars
  <2>. USE DEF ArmedBody, RecordOK, RecoveryOK, Clear, SetAside, HalfInstalled, FilesAre,
               IconsAre, Armed, New, Updating
  <2>2. RecordOK'
    BY <1>1, <1>2, <1>5, <2>1
  <2>3. RecoveryOK'
    BY <1>1, <1>2, <1>5, <2>1
  <2>. QED  BY <1>1, <1>5, <2>2, <2>3, RecoveryGoesOn
<1>6. CASE RecoverStorageDirectories \/ RecoverStorageShared
  <2>0. it = 8
    BY <1>1, <1>6, Positions DEF RecoverStorageDirectories, RecoverStorageShared, Process, TypeInv, RunnerOK
  <2>1. ~Fault("fail", "RecoverStorage")
    BY UnbrokenBefore DEF Bearable
  <2>2. PICK key \in StorageKeys : GoOn("shared", StorageRecovered(device, key), ctx)
                                   \/ Done(StorageRecovered(device, key), ctx)
    BY <1>6, <2>1 DEF RecoverStorageDirectories, RecoverStorageShared, StorageKeys
  <2>. DEFINE d == StorageRecovered(device, key)
              moved == [device EXCEPT !.bck = Put(device.bck, key, device.pkg[key]),
                                      !.pkg = Drop(device.pkg, key)]
  <2>3. d = device \/ (d = moved /\ Updating /\ Exists(device.bck))
    BY <1>1 DEF StorageRecovered, Devices
  <2>4. /\ \A f \in {"xml", "xmlBck", "icon", "iconBck", "rec", "db"} : moved[f] = device[f]
    BY <1>1 DEF Devices
  <2>5. ~New \/ ~Updating
    BY DEF New, Updating
  <2>. HIDE DEF d, moved
  <2>6. GoOn("shared", d, ctx) \/ Done(d, ctx)
    BY <2>2 DEF d
  <2>. QED  BY <1>5, <2>0, <2>3, <2>4, <2>5, <2>6
<1>7. CASE RecoverFiles
  <2>. DEFINE d == [device EXCEPT !.pkg = Missing]
  <2>0. it = 9
    BY <1>1, <1>7, Positions DEF RecoverFiles, Process, TypeInv, RunnerOK
  <2>1. ~Fault("fail", "RecoverFiles")
    BY UnbrokenBefore DEF Bearable
  <2>2. \/ New /\ Done(d, ctx)
        \/ ~New /\ ~Exists(device.bck) /\ Done(device, ctx)
        \/ ~New /\ GoOn("move", d, ctx)
    BY <1>7, <2>1 DEF RecoverFiles
  <2>3. /\ \A f \in {"xml", "xmlBck", "icon", "iconBck", "rec", "db", "bck"} : d[f] = device[f]
        /\ ~Exists(d.pkg)
    BY <1>1, EmptyTrees DEF Devices
  <2>. HIDE DEF d
  <2>4. CASE New /\ Done(d, ctx)
    BY <1>4, <1>5, <2>3, <2>4
  <2>5. CASE ~New /\ ~Exists(device.bck) /\ Done(device, ctx)
    BY <1>5, <2>5
  <2>6. CASE ~New /\ GoOn("move", d, ctx)
    <3>1. ~Done(d, ctx)
      BY <1>1, <2>0, <2>6 DEF GoOn, Done, StepOk, runnerVars
    <3>. QED  BY <1>5, <2>3, <2>6, <3>1
  <2>. QED  BY <2>2, <2>4, <2>5, <2>6
<1>8. CASE RecoverFilesMove
  <2>. DEFINE d == [device EXCEPT !.pkg = device.bck, !.bck = Missing]
  <2>1. ~Fault("fail", "RecoverFiles")
    BY UnbrokenBefore DEF Bearable
  <2>2. Done(d, ctx)
    BY <1>8, <2>1 DEF RecoverFilesMove
  <2>3. /\ \A f \in {"xml", "xmlBck", "icon", "iconBck", "rec", "db"} : d[f] = device[f]
        /\ ~Exists(d.bck) /\ d.pkg = device.bck
    BY <1>1, EmptyTrees DEF Devices
  <2>. HIDE DEF d
  <2>. QED  BY <1>4, <1>5, <2>2, <2>3
<1>. QED  BY <1>6, <1>7, <1>8

LEMMA ArmedRecoverSecurity ==
  ASSUME TypeInv, ArmedBody, Unbroken', RecoverSecurity
  PROVE  ArmedBody'
<1>1. /\ device \in Devices /\ ctx \in Contexts /\ phase = "process"
      /\ req = "Recovery" /\ it = 10 /\ NumSteps = 10
  <2>1. Step = "RecoverSecurity" /\ phase = "process"
    BY DEF RecoverSecurity, Process
  <2>. QED  BY <2>1, Positions DEF TypeInv, StateOK, RunnerOK, Last
<1>2. ctx.file = device.rec /\ device.rec.kind \in {"Install", "Update"}
  BY <1>1 DEF ArmedBody, MemoryOK
<1>3. Clear
  <2>1. CASE New
    BY <1>1, <1>2, <2>1 DEF ArmedBody, RecordOK, RecoveryOK, Clear, HalfInstalled, FilesAre, New
  <2>2. CASE Updating
    BY <1>1, <1>2, <2>2 DEF ArmedBody, RecordOK, RecoveryOK, Clear, SetAside, HalfInstalled, Updating
  <2>. QED  BY <1>2, <2>1, <2>2 DEF New, Updating
<1>4. CASE Failed(device, ctx)
  BY <1>1, <1>4, FailingHere
<1>5. ASSUME NEW d, \A f \in {"pkg", "bck", "xml", "xmlBck", "icon", "iconBck", "rec", "db"} : d[f] = device[f],
             Done(d, ctx)
      PROVE  ArmedBody'
  <2>1. /\ device' = d /\ ctx' = ctx /\ req' = req /\ stable' = stable
        /\ phase' = "clean" /\ it' = 1 /\ part' = "start"
    BY <1>1, <1>5 DEF Done, Leave, StepOk, envVars
  <2>2. Clear'
    BY <1>3, <1>5, <2>1 DEF Clear, SetAside, HalfInstalled, FilesAre, IconsAre
  <2>3. RecordOK' /\ CleanOK'
    BY <1>1, <1>5, <2>1, <2>2 DEF ArmedBody, RecordOK, CleanOK, IconsAre, Clear, SetAside
  <2>4. MemoryOK' /\ InstallOK' /\ UpdateOK' /\ RecoveryOK'
    BY <1>1, <2>1 DEF MemoryOK, InstallOK, UpdateOK, RecoveryOK
  <2>. QED  BY <2>3, <2>4 DEF ArmedBody
<1>. DEFINE Rules(v) == [device EXCEPT !.sec = v]
<1>6. \A v : \A f \in {"pkg", "bck", "xml", "xmlBck", "icon", "iconBck", "rec", "db"} : Rules(v)[f] = device[f]
  BY <1>1 DEF Devices
<1>7. Failed(device, ctx) \/ Done(device, ctx) \/ \E v : Done(Rules(v), ctx)
  BY DEF RecoverSecurity, FailsHere
<1>. HIDE DEF Rules
<1>. QED  BY <1>4, <1>5, <1>6, <1>7

-------------------------------------------------------------------------------
(* ... and from one process to the next *)

\* Nothing is waiting for a recovery, so nothing is set aside or half installed.
LEMMA ArmedBegin ==
  ASSUME TypeInv, ArmedBody, Begin
  PROVE  ArmedBody'
<1>1. /\ phase = "idle" /\ phase' = "process" /\ it' = 1 /\ device' = device /\ ctx' = ctx
      /\ part = "start" /\ part' = part /\ stable' = stable
      /\ \/ req' = "Recovery" /\ RecoveryWaits
         \/ ~RecoveryWaits /\ req' = IF device.db = None THEN "Install" ELSE "Update"
  BY DEF Begin, BeginRun, TypeInv, RunnerOK
<1>2. ctx.file = NoRecovery
  BY <1>1 DEF ArmedBody, MemoryOK
<1>3. ~RecoveryWaits => Clear
  BY <1>1 DEF ArmedBody, RecordOK, Armed, RecoveryWaits
<1>. USE DEF Clear, SetAside, HalfInstalled, FilesAre, IconsAre, Armed
<1>4. RecordOK'
  BY <1>1 DEF ArmedBody, RecordOK
<1>5. MemoryOK' /\ CleanOK' /\ RecoveryOK'
  BY <1>1, <1>2 DEF MemoryOK, CleanOK, RecoveryOK
<1>6. InstallOK' /\ UpdateOK'
  BY <1>1, <1>3 DEF InstallOK, UpdateOK
<1>. QED  BY <1>4, <1>5, <1>6 DEF ArmedBody

\* Once the process is gone, only what the recovery file says still counts.
LEMMA ArmedGone ==
  ASSUME Gone, RecordOK'
  PROVE  ArmedBody'
<1>1. phase' = "idle" /\ ctx'.file = NoRecovery
  BY DEF Gone, FreshContext
<1>. QED  BY <1>1 DEF ArmedBody, MemoryOK, InstallOK, UpdateOK, CleanOK, RecoveryOK

LEMMA ArmedExit ==
  ASSUME TypeInv, ArmedBody, Exit \/ Abort
  PROVE  ArmedBody'
<1>1. device \in Devices /\ Gone /\ phase' = "idle" /\ stable' = stable /\ phase # "clean"
  BY DEF TypeInv, StateOK, Exit, Abort, Gone, envVars, Process
<1>. USE DEF Clear, SetAside, HalfInstalled, FilesAre, IconsAre, Armed
<1>2. CASE device' = device
  <2>1. RecordOK'
    BY <1>1, <1>2 DEF ArmedBody, RecordOK
  <2>. QED  BY <1>1, <2>1, ArmedGone
<1>3. CASE device' = [device EXCEPT !.rec = NoRecovery] /\ Exit /\ ctx.file.kind # "none"
  <2>1. Clear
    BY <1>3 DEF Exit, ArmedBody, MemoryOK, NoRecovery
  <2>2. /\ \A f \in {"pkg", "bck", "xml", "xmlBck", "icon", "iconBck", "db"} : device'[f] = device[f]
        /\ device'.rec = NoRecovery
    BY <1>1, <1>3 DEF Devices
  <2>3. RecordOK'
    BY <1>1, <2>1, <2>2 DEF RecordOK, NoRecovery
  <2>. QED  BY <1>1, <2>3, ArmedGone
<1>. QED  BY <1>2, <1>3 DEF Exit, Abort

LEMMA ArmedStoreUserFile ==
  ASSUME TypeInv, ArmedBody, StoreUserFile
  PROVE  ArmedBody'
<1>. DEFINE t == Put(device.pkg, "data", device.pkg["data"] \cup {UserFile})
<1>1. /\ device' = [device EXCEPT !.pkg = t] /\ device \in Devices
      /\ phase' = "idle" /\ phase = "idle" /\ ctx' = ctx /\ stable' = stable
      /\ device.rec.kind = "none"
  BY DEF StoreUserFile, TypeInv, StateOK, Devices, Idle, RecoveryWaits, runnerVars
<1>2. Exists(t) <=> Exists(device.pkg)
  <2>1. TreeOK(device.pkg) /\ "data" \in StorageKeys
    BY DEF TypeInv, TreesOK, StorageKeys
  <2>2. device.pkg["data"] \cup {UserFile} \in SUBSET Files
    BY <2>1, StorageFiles DEF Files
  <2>. QED  BY <2>1, <2>2, PutStorage
<1>. HIDE DEF t
<1>3. /\ \A f \in {"bck", "xml", "xmlBck", "icon", "iconBck", "db", "rec"} : device'[f] = device[f]
      /\ device'.pkg = t
  BY <1>1 DEF Devices
<1>4. RecordOK'
  BY <1>1, <1>2, <1>3 DEF ArmedBody, RecordOK, Clear, SetAside, HalfInstalled, FilesAre, IconsAre, Armed
<1>5. MemoryOK'
  BY <1>1 DEF ArmedBody, MemoryOK
<1>. QED  BY <1>1, <1>4, <1>5 DEF ArmedBody, InstallOK, UpdateOK, CleanOK, RecoveryOK

LEMMA ArmedCrash ==
  ASSUME TypeInv, ArmedBody, Unbroken', Crash
  PROVE  ArmedBody'
<1>1. /\ device \in Devices /\ phase \in {"process", "undo", "end"}
      /\ phase = "process" => Step # "ParseRecovery"
  <2>1. Bearable(CrashKind, Where) /\ phase # "idle"
    BY UnbrokenBefore DEF Crash, Idle
  <2>2. phase # "clean"
    BY <2>1 DEF Bearable, CrashKind
  <2>3. phase = "process" => Where # "ParseRecovery"
    BY <2>1 DEF Bearable, CrashKind
  <2>. QED  BY <2>1, <2>2, <2>3 DEF Where, Process, TypeInv, StateOK, RunnerOK, Phases
<1>2. Gone /\ stable' = stable
  BY DEF Crash, Gone, envVars
<1>3. ~Clear => Armed
  BY <1>1 DEF ArmedBody, RecordOK
<1>4. req # "Recovery" /\ phase \in {"process", "undo"} /\ it >= 4 => Armed /\ device.rec.kind = req
  BY <1>1 DEF ArmedBody, MemoryOK, Armed, TypeInv, RunnerOK, Requests
<1>5. it \in 1..Last /\ req \in Requests
  BY DEF TypeInv, RunnerOK
<1>. USE DEF RecordOK, Clear, SetAside, HalfInstalled, FilesAre, IconsAre, Armed
<1>6. CASE UNCHANGED device
  <2>1. RecordOK'
    BY <1>2, <1>3, <1>6 DEF ArmedBody
  <2>. QED  BY <1>2, <2>1, ArmedGone
<1>7. CASE WritesRecovery /\ device' = [device EXCEPT !.rec = TornRecovery]
  <2>1. phase = "process" /\ Step \in {"Unzip", "ParseManifest", "ParseInstalled"}
    BY <1>1, <1>7 DEF WritesRecovery, Process, TypeInv, LoopsOK, Parsers
  <2>2. (req = "Install" /\ it <= 4) \/ (req = "Update" /\ it <= 5)
    BY <1>5, <2>1, Positions DEF Requests
  <2>3. Clear
    BY <2>1, <2>2, EarlyClear
  <2>4. /\ \A f \in {"pkg", "bck", "xml", "xmlBck", "icon", "iconBck", "db"} : device'[f] = device[f]
        /\ device'.rec.kind = "torn"
    BY <1>1, <1>7 DEF Devices, TornRecovery, NoRecovery
  <2>5. RecordOK'
    BY <1>2, <2>3, <2>4
  <2>. QED  BY <1>2, <2>5, ArmedGone
\* Whatever is half done later, the recovery file is there.
<1>8. ASSUME NEW d, device' = d, d.rec = device.rec, Armed, d.icon = device.icon, d.xml = device.xml,
             device.rec.kind = "Install" =>
               d.bck = device.bck /\ d.xmlBck = device.xmlBck /\ d.iconBck = device.iconBck,
             device.rec.kind = "Install" /\ stable = None => IconsAre(None) \/ d.pkg = device.pkg
      PROVE  ArmedBody'
  <2>1. RecordOK'
    BY <1>1, <1>2, <1>8 DEF ArmedBody
  <2>. QED  BY <1>2, <2>1, ArmedGone
<1>. DEFINE Pkg(t) == [device EXCEPT !.pkg = t]
            Bck(t) == [device EXCEPT !.bck = t]
            Xml == [device EXCEPT !.xmlBck = Torn]
            Sec == [device EXCEPT !.sec = Torn]
<1>9. /\ \A t : \A f \in {"bck", "xml", "xmlBck", "icon", "iconBck", "db", "rec"} : Pkg(t)[f] = device[f]
      /\ \A t : \A f \in {"pkg", "xml", "xmlBck", "icon", "iconBck", "db", "rec"} : Bck(t)[f] = device[f]
      /\ \A f \in {"pkg", "bck", "xml", "icon", "iconBck", "db", "rec"} : Xml[f] = device[f]
      /\ \A f \in {"pkg", "bck", "xml", "xmlBck", "icon", "iconBck", "db", "rec"} : Sec[f] = device[f]
      /\ \A t : Pkg(t).pkg = t
  BY <1>1 DEF Devices
<1>10. CASE Process("BackupManifest", "start") /\ device' = Xml
  <2>1. req = "Update" /\ it = 6 /\ phase = "process"
    BY <1>5, <1>10, Positions DEF Process
  <2>. HIDE DEF Xml
  <2>. QED  BY <1>4, <1>8, <1>9, <1>10, <2>1
<1>11. ASSUME NEW t, NEW key, device' = Pkg(t) \/ device' = Bck(t),
              Process("CopyStorageDirectories", key)
       PROVE  ArmedBody'
  <2>1. req = "Update" /\ it = 9 /\ phase = "process"
    BY <1>5, <1>11, Positions DEF Process
  <2>. HIDE DEF Pkg, Bck
  <2>. QED  BY <1>4, <1>8, <1>9, <1>11, <2>1
<1>12. ASSUME RemovesPackage, NEW t \in RemoveCut(device.pkg), device' = Pkg(t)
       PROVE  ArmedBody'
  <2>. HIDE DEF Pkg
  <2>1. CASE Undo("Copy", "start")
    <3>1. req = "Install" /\ it = 5 /\ phase = "undo"
      BY <1>5, <2>1, Positions DEF Undo
    <3>2. stable = None => IconsAre(None)
      BY <3>1 DEF ArmedBody, InstallOK
    <3>. QED  BY <1>4, <1>8, <1>9, <1>12, <3>1, <3>2
  <2>2. CASE Undo("CopyBackup", "start")
    <3>1. req = "Update" /\ it = 8 /\ phase = "undo"
      BY <1>5, <2>2, Positions DEF Undo
    <3>. QED  BY <1>4, <1>8, <1>9, <1>12, <3>1
  <2>3. CASE Process("RecoverFiles", "start")
    <3>1. req = "Recovery" /\ it = 9 /\ phase = "process"
      BY <1>5, <2>3, Positions DEF Process
    <3>2. ctx.file = device.rec
      BY <3>1 DEF ArmedBody, MemoryOK
    <3>3. device.rec.kind = "Install" /\ stable = None => IconsAre(None)
      BY <3>1, <3>2 DEF ArmedBody, RecoveryOK, New
    <3>4. Exists(t) <=> Exists(device.pkg)
      BY CutTree DEF TypeInv, TreesOK
    <3>5. RecordOK'
      BY <1>2, <1>3, <1>9, <1>12, <3>3, <3>4 DEF ArmedBody
    <3>. QED  BY <1>2, <3>5, ArmedGone
  <2>. QED  BY <1>12, <2>1, <2>2, <2>3 DEF RemovesPackage
<1>13. CASE RegistersRules /\ device' = Sec
  <2>. HIDE DEF Sec
  <2>1. RecordOK'
    BY <1>2, <1>3, <1>9, <1>13 DEF ArmedBody
  <2>. QED  BY <1>2, <2>1, ArmedGone
<1>14. CASE HalfDone
  <2>1. \/ WritesRecovery /\ device' = [device EXCEPT !.rec = TornRecovery]
        \/ Process("BackupManifest", "start") /\ device' = Xml
        \/ \E key, t : Process("CopyStorageDirectories", key) /\ (device' = Pkg(t) \/ device' = Bck(t))
        \/ RemovesPackage /\ \E t \in RemoveCut(device.pkg) : device' = Pkg(t)
        \/ RegistersRules /\ device' = Sec
    <3>1. ~Clean("CopyBackup")
      BY <1>1 DEF Clean
    <3>2. \A key, files : /\ [device EXCEPT !.pkg = Put(@, key, files)] = Pkg(Put(device.pkg, key, files))
                          /\ [device EXCEPT !.bck = Put(@, key, files)] = Bck(Put(device.bck, key, files))
      BY <1>1 DEF Devices
    <3>3. ASSUME NEW key \in StorageKeys,
                 \/ /\ Process("CopyStorageDirectories", key)
                    /\ \E files : device' = [device EXCEPT !.pkg = Put(@, key, files)]
                 \/ /\ Process("CopyStorageDirectories", Cleanup(key))
                    /\ \E files : device' = [device EXCEPT !.bck = Put(@, key, files)]
          PROVE  \E k, t : Process("CopyStorageDirectories", k) /\ (device' = Pkg(t) \/ device' = Bck(t))
      <4>1. ASSUME NEW k, NEW files, device' = [device EXCEPT !.pkg = Put(@, k, files)]
            PROVE  \E t : device' = Pkg(t)
        BY <3>2, <4>1
      <4>2. ASSUME NEW k, NEW files, device' = [device EXCEPT !.bck = Put(@, k, files)]
            PROVE  \E t : device' = Bck(t)
        BY <3>2, <4>2
      <4>. HIDE DEF Pkg, Bck
      <4>. QED  BY <3>3, <4>1, <4>2, Zenon
    <3>4. \/ WritesRecovery /\ device' = [device EXCEPT !.rec = TornRecovery]
          \/ Process("BackupManifest", "start") /\ device' = Xml
          \/ \E key \in StorageKeys :
               \/ /\ Process("CopyStorageDirectories", key)
                  /\ \E files : device' = [device EXCEPT !.pkg = Put(@, key, files)]
               \/ /\ Process("CopyStorageDirectories", Cleanup(key))
                  /\ \E files : device' = [device EXCEPT !.bck = Put(@, key, files)]
          \/ RemovesPackage /\ \E t \in RemoveCut(device.pkg) : device' = Pkg(t)
          \/ RegistersRules /\ device' = Sec
      BY <1>14, <3>1, Zenon DEF HalfDone
    <3>. HIDE DEF Pkg, Bck, Xml, Sec
    <3>. QED  BY <3>3, <3>4, Zenon
  <2>. HIDE DEF Pkg, Bck, Xml, Sec
  <2>. QED  BY <1>7, <1>10, <1>11, <1>12, <1>13, <2>1
<1>. QED  BY <1>6, <1>14 DEF Crash

-------------------------------------------------------------------------------
(* The invariant, and what it is for *)

\* A step meets a fault of the environment or none.
LEMMA StepsAndFaults == Next => NoFault \/ (\E k, w : Fault(k, w))
<1>. DEFINE Budgeted == NoFault \/ (\E k, w : Fault(k, w))
<1>1. Begin \/ Exit \/ Abort \/ Crash \/ StoreUserFile => Budgeted
  BY DEF Begin, Exit, Abort, Crash, StoreUserFile
<1>2. CommonStep => Budgeted
  BY DEF CommonStep, Configure, ConfigureWrite, ConfigureClean, Unzip, UnzipCreateDir,
         UnzipExtract, UnzipUndo, ParseManifest, ParseInstalled, ParseWrite, WriteRecovery,
         CreateIcons, CreateIconsCopy, CreateIconsUndo, CreateManifest, CreateManifestUndo,
         NothingToUndo, NothingToClean, FailsHere
<1>3. InstallStep => Budgeted
  BY DEF InstallStep, RollbackInstallationSecurity, RollbackInstallationSecurityUndo,
         RegisterSecurity, Copy, CopyUndo, CreateStorageDirectories, RegisterApplication,
         RegisterApplicationCerts, RegisterApplicationUndo, FailsHere
<1>4. UpdateStep => Budgeted
  BY DEF UpdateStep, CheckOldCertificate, BackupManifest, BackupManifestUndo,
         BackupManifestClean, BackupIcons, BackupIconsMove, BackupIconsUndo, BackupIconsClean,
         CopyBackup, CopyBackupEntry, CopyBackupNewContent, CopyBackupUndo, CopyBackupRestore,
         CopyBackupClean, CopyStorageDirectories, CopyStorageCache, CopyStorageMove,
         CopyStorageRemove, CopyStorageUndo, UpdateApplication, UpdateApplicationCerts,
         UpdateApplicationUndo, UpdateApplicationUndoCerts, UpdateSecurity,
         UpdateSecurityUndo, FailsHere
<1>5. RecoveryStep => Budgeted
  BY DEF RecoveryStep, OpenRecoveryFile, OpenRecoveryFileUndo, ParseRecovery,
         ParseRecoveryWrite, WriteRecovery, RecoverApplication, RecoverApplicationRegister,
         RecoverApplicationCerts, RemoveTemporaryDirectory, RecoverIcons, RecoverIconsMove,
         RecoverManifest, RecoverStorageDirectories, RecoverStorageShared, RecoverFiles,
         RecoverFilesMove, RecoverSecurity, FailsHere
<1>. QED  BY <1>1, <1>2, <1>3, <1>4, <1>5 DEF Next

LEMMA ArmedStep ==
  ASSUME TypeInv, ArmedBody, Unbroken', Next
  PROVE  ArmedBody'
<1>1. CASE CommonStep
  BY <1>1, ArmedCommon
<1>2. CASE InstallStep
  BY <1>2, ArmedInstall
<1>3. CASE UpdateStep
  BY <1>3, ArmedUpdate
<1>4. CASE RecoveryStep
  BY <1>4, ArmedOpenRecoveryFile, ArmedParseRecovery, ArmedRecoverApplication,
     ArmedRecoverIcons, ArmedRecoverFiles, ArmedRecoverSecurity DEF RecoveryStep
<1>5. CASE Begin \/ Exit \/ Abort \/ Crash \/ StoreUserFile
  BY <1>5, ArmedBegin, ArmedExit, ArmedCrash, ArmedStoreUserFile
<1>. QED  BY <1>1, <1>2, <1>3, <1>4, <1>5 DEF Next

\* In every history RecoveryArmed speaks of, the recovery file, the memory of the
\* process and the position of the step loop agree on how far the installation,
\* the update, its rollback, its clean-up or its recovery has come.
THEOREM ArmedInvariant == Spec => []ArmedInv
<1>1. Init => ArmedInv
  <2>1. ASSUME Init
        PROVE  ArmedBody
    BY <2>1, EmptyTrees
       DEF Init, RunnerInit, CleanDevice, FreshContext, NoRecovery, ArmedBody, RecordOK,
           MemoryOK, InstallOK, UpdateOK, CleanOK, RecoveryOK, Clear, SetAside,
           HalfInstalled, FilesAre, IconsAre, Armed
  <2>. QED  BY <2>1 DEF ArmedInv, ArmedBody
<1>2. TypeInv /\ ArmedInv /\ [Next]_vars => ArmedInv'
  <2>. SUFFICES ASSUME TypeInv, ArmedInv, [Next]_vars, Unbroken'
                PROVE  ArmedBody'
    BY DEF ArmedInv, ArmedBody
  <2>1. CASE Next
    <3>1. Unbroken
      BY <2>1, StepsAndFaults, UnbrokenBefore
    <3>2. ArmedBody
      BY <3>1 DEF ArmedInv, ArmedBody
    <3>. QED  BY <2>1, <3>2, ArmedStep
  <2>2. CASE UNCHANGED vars
    <3>1. Unbroken
      BY <2>2 DEF vars, Unbroken, CleanCutShort, NotReverted, Only, Happened
    <3>2. ArmedBody
      BY <3>1 DEF ArmedInv, ArmedBody
    <3>. QED  BY <2>2, <3>2
              DEF vars, runnerVars, envVars, ArmedBody, RecordOK, MemoryOK, InstallOK, UpdateOK,
                  CleanOK, RecoveryOK, Clear, SetAside, HalfInstalled, FilesAre, IconsAre,
                  Armed, New, Updating, ManifestFound
  <2>. QED  BY <2>1, <2>2
<1>. QED  BY <1>1, <1>2, TransactionTypeInvariant, PTL DEF Spec

\* Before the first thing is set aside or installed there is a recovery file that
\* says so and names the package, and it stays until everything is back in place.
THEOREM RecoveryArmedHolds == Spec => []RecoveryArmed
<1>1. TypeInv /\ ArmedInv => RecoveryArmed
  <2>. SUFFICES ASSUME TypeInv, ArmedInv, Unbroken, ~Settled, ~Clear
                PROVE  Armed
    BY DEF RecoveryArmed, Unbroken, Clear, Armed
  <2>1. ArmedBody
    BY DEF ArmedInv, ArmedBody
  <2>2. CASE phase = "clean"
    <3>1. device.rec.kind # "none" /\ it \in Nat /\ it >= 1
      BY <2>2 DEF Settled, RecoveryWaits, TypeInv, RunnerOK
    <3>. QED  BY <2>1, <2>2, <3>1 DEF ArmedBody, CleanOK
  <2>3. CASE phase # "clean"
    BY <2>1, <2>3 DEF ArmedBody, RecordOK
  <2>. QED  BY <2>2, <2>3
<1>. QED  BY <1>1, ArmedInvariant, TransactionTypeInvariant, PTL

===============================================================================
