------------------------- MODULE MountedPackageProofs -------------------------
(***************************************************************************)
(* What holds of mounted packages for any number of requests, failures,    *)
(* lost messages and crashes: the package file belongs to the version in   *)
(* the database, the file of the committed version survives, a request     *)
(* that goes on after its mount sees its own version, and nothing stays    *)
(* mounted behind it.                                                      *)
(*                                                                         *)
(* The invariants say, for each place a request can be at, which version   *)
(* is in the package file, in the backup, in the database and at the mount *)
(* point, and which messages deviced has still to handle.                  *)
(***************************************************************************)
EXTENDS MountedPackage, TLAPS

Kinds == {"MountInstall", "MountUpdate", "Uninstall"}
Parts == {"start", "copy", "backup", "mount", "poll"}
Files == {"none", "zip", "package"} \X Versions
Message == [op : {"Mount", "Unmount"}, at : Points, file : Files]

-------------------------------------------------------------------------------
(* The places of a request. *)

\* The step of the mount has put the new package file in place.
Copied ==
  /\ phase = "process" /\ req # "Uninstall"
  /\ it = 3 \/ (it = 2 /\ ctx.part \in {"mount", "poll"})

\* The update has moved the old package file to the backup.
BackedUp ==
  /\ phase = "process" /\ req = "MountUpdate"
  /\ it = 3 \/ (it = 2 /\ ctx.part \in {"copy", "mount", "poll"})

-------------------------------------------------------------------------------
(* The invariants. *)

LoopType ==
  /\ phase \in Phases /\ ret \in Results /\ req \in Kinds /\ it \in 1..NumSteps
  /\ made \in Versions /\ (phase # "idle" => made > 0)
  /\ budget \in 0..FaultBudget /\ stable \in Versions /\ stuck \in BOOLEAN

CtxType == ctx \in [part : Parts, polls : 0..MaxPolls-1, old : Versions, asked : BOOLEAN]

DiskType ==
  /\ disk \in [zip : Versions \cup {Torn}, bck : Versions \cup {Torn}, dir : BOOLEAN, db : Versions]
  /\ disk.zip # 0 \/ disk.bck # 0 => disk.dir
  /\ BackedUp => disk.bck # 0

MountType ==
  /\ mounts \in [Points -> Versions] /\ dirs \subseteq Points
  /\ \A p \in Points : Mounted(p) => p \in dirs
  /\ queue \in Seq(Message)

TypeInv == LoopType /\ CtxType /\ DiskType /\ MountType

\* What deviced mounts at the mount point is the package file, and that is the
\* one of the request from its copy on.
ZipMessage(m) == m.op = "Mount" /\ m.at = Final => m.file = <<"zip", 0>>
MountInv ==
  /\ \A i \in 1..Len(queue) : ZipMessage(queue[i])
  /\ Copied => disk.zip = made
  /\ Copied /\ it = 2 /\ ctx.part = "poll" => mounts[Final] \in {0, made}
  /\ Copied /\ it = 3 => queue = <<>> /\ mounts[Final] = made

\* Where the versions are while a request is handled in which nothing but the
\* harmless has failed: "old" is the version at its beginning, 0 for none.
Harmless == faults \subseteq {"send", "lost", "dir", "copy", "move", "register", "precheck"}

InstallFiles ==
  /\ ctx.old = 0 /\ disk.bck = 0
  /\ phase \in {"process", "undo"} => disk.db = 0
  /\ phase = "process" => disk.zip = IF Copied THEN made ELSE 0
  /\ phase = "undo" /\ it = 1 => disk.zip = 0
  /\ phase \in {"clean", "end"} => disk.zip = disk.db

UpdateFiles ==
  /\ ctx.old # 0
  /\ phase \in {"process", "undo"} => disk.db = ctx.old
  /\ phase = "process" =>
       IF BackedUp THEN disk.bck = ctx.old /\ (Copied => disk.zip = made)
                   ELSE disk.bck = 0 /\ disk.zip = ctx.old
  /\ phase = "undo" =>
       \/ disk.bck = 0 /\ disk.zip = ctx.old
       \/ it > 1 /\ disk.bck = ctx.old
  /\ phase \in {"clean", "end"} => disk.zip = disk.db
  /\ (phase = "clean" /\ it = 3) \/ phase = "end" => disk.bck = 0

RemovalFiles ==
  /\ ctx.old # 0 /\ disk.bck = 0
  /\ phase = "undo" => it = 1 /\ disk.zip = ctx.old
  /\ phase = "process" => disk.zip = ctx.old /\ disk.db = IF it = 1 THEN ctx.old ELSE 0
  /\ phase \in {"clean", "end"} => disk.zip = disk.db

FilesInv ==
  Harmless =>
    /\ phase = "idle" => disk.zip = disk.db /\ disk.bck = 0
    /\ phase # "idle" /\ req = "MountInstall" => InstallFiles
    /\ phase # "idle" /\ req = "MountUpdate" => UpdateFiles
    /\ phase # "idle" /\ req = "Uninstall" => RemovalFiles

\* Where the committed version is, whatever fails: in the backup from the moment
\* there is one until the request commits, and in place from then on.
KeptInv ==
  /\ phase # "idle" => (req = "MountInstall" <=> ctx.old = 0)
  /\ phase \in {"process", "undo"} /\ (req = "Uninstall" => it = 1) => disk.db = ctx.old
  /\ disk.bck # Torn /\ (disk.zip = Torn => disk.bck # 0 \/ disk.db = 0)
  /\ phase = "undo" /\ req = "Uninstall" => it = 1
  /\ stable # 0 => disk.db # 0
  /\ stable # 0 /\ ~orphan =>
       /\ stable \in {disk.zip, disk.bck}
       /\ phase \in {"process", "undo"} =>
            IF disk.bck # 0 THEN disk.bck = stable ELSE disk.zip = stable
  /\ phase = "clean" /\ req # "Uninstall" =>
       disk.zip = disk.db /\ disk.db # 0 /\ (it > 1 => stable = disk.db)
  /\ req = "Uninstall" /\ (phase = "clean" \/ (phase = "process" /\ it = 2)) => stable = 0

\* A mount point is clear when nothing is or will be mounted there once deviced
\* has handled its messages.
IsFor(m, op, p) == m.op = op /\ m.at = p

Clear(p) ==
  \/ /\ ~Mounted(p)
     /\ \A i \in 1..Len(queue) : ~IsFor(queue[i], "Mount", p)
  \/ \E i \in 1..Len(queue) :
       /\ IsFor(queue[i], "Unmount", p)
       /\ \A j \in (i + 1)..Len(queue) : ~IsFor(queue[j], "Mount", p)

TmpInUse ==
  /\ req # "Uninstall"
  /\ \/ phase = "process" /\ (it = 1 \/ (it = 2 /\ ctx.part = "start"))
     \/ phase = "undo"

FinalInUse ==
  /\ ctx.asked
  /\ \/ phase = "process"
     \/ phase = "undo" /\ it > 1
     \/ phase = "clean" /\ it < 3

Quiet == faults \cap {"send", "lost", "crash", "crashInClean"} = {}

ClearInv ==
  /\ ctx.asked => req # "Uninstall" /\ (phase = "process" => it > 1)
  /\ Quiet =>
       \A p \in Points :
         \/ Clear(p)
         \/ p = Tmp(made) /\ TmpInUse
         \/ p = Final /\ (stuck \/ FinalInUse)

-------------------------------------------------------------------------------
(* The step lists. *)

LEMMA ListLengths == \A r \in Kinds : Len(Pipeline[r]) = IF r = "Uninstall" THEN 2 ELSE 3
<1>1. /\ Len(Pipeline["MountInstall"]) = 3
      /\ Len(Pipeline["MountUpdate"]) = 3
      /\ Len(Pipeline["Uninstall"]) = 2
  BY DEF Pipeline
<1> QED
  BY <1>1 DEF Kinds

LEMMA StepLists ==
  ASSUME req \in Kinds
  PROVE  /\ NumSteps = IF req = "Uninstall" THEN 2 ELSE 3
         /\ it = 1 => Step = IF req = "Uninstall" THEN "Unregister" ELSE "MountUnpacked"
         /\ it = 2 => Step = IF req = "Uninstall" THEN "RemoveZipImage" ELSE req
         /\ it = 3 /\ req # "Uninstall" => Step = "Register"
<1>1. /\ Pipeline["MountInstall"] = <<"MountUnpacked", "MountInstall", "Register">>
      /\ Pipeline["MountUpdate"] = <<"MountUnpacked", "MountUpdate", "Register">>
      /\ Pipeline["Uninstall"] = <<"Unregister", "RemoveZipImage">>
  BY DEF Pipeline
<1>2. CASE req = "MountInstall"
  BY <1>1, <1>2 DEF NumSteps, Step
<1>3. CASE req = "MountUpdate"
  BY <1>1, <1>3 DEF NumSteps, Step
<1>4. CASE req = "Uninstall"
  BY <1>1, <1>4 DEF NumSteps, Step
<1> QED
  BY <1>2, <1>3, <1>4 DEF Kinds

\* The place of a step in its list.
LEMMA Places ==
  ASSUME req \in Kinds, it \in 1..NumSteps
  PROVE  /\ it \in 1..3 /\ (req = "Uninstall" => it \in 1..2)
         /\ Step = "MountUnpacked" => req # "Uninstall" /\ it = 1
         /\ Step = "MountInstall" => req = "MountInstall" /\ it = 2
         /\ Step = "MountUpdate" => req = "MountUpdate" /\ it = 2
         /\ Step = "Register" => req # "Uninstall" /\ it = 3
         /\ Step = "Unregister" => req = "Uninstall" /\ it = 1
         /\ Step = "RemoveZipImage" => req = "Uninstall" /\ it = 2
  BY StepLists DEF Kinds

\* What the loop does with the outcome of a handler.
LEMMA Moves ==
  ASSUME TypeInv, req' = req
  PROVE  /\ StepOk(NumSteps) =>
              \/ phase' = "process" /\ it' = it + 1 /\ it < NumSteps
              \/ phase' = "clean" /\ it' = 1 /\ it = NumSteps
         /\ StepCleaned(NumSteps) =>
              \/ phase' = "clean" /\ it' = it + 1 /\ it < NumSteps
              \/ phase' = "end" /\ it' = it /\ it = NumSteps
         /\ StepFails => phase' = "undo" /\ it' = it
         /\ StepCleanFails => phase' = "end" /\ it' = it
         /\ \A ok \in BOOLEAN : StepUndone(ok) =>
              \/ phase' = "undo" /\ it' = it - 1 /\ it > 1
              \/ phase' = "end" /\ it' = it /\ it = 1
         /\ \/ StepOk(NumSteps) \/ StepFails \/ StepCleaned(NumSteps) \/ StepCleanFails
            \/ \E ok \in BOOLEAN : StepUndone(ok)
            => phase' \in Phases /\ ret' \in Results /\ it' \in 1..NumSteps' /\ phase' # "idle"
<1>1. req \in Kinds /\ it \in 1..NumSteps /\ NumSteps' = NumSteps
      /\ NumSteps = IF req = "Uninstall" THEN 2 ELSE 3
  BY StepLists DEF TypeInv, LoopType, NumSteps
<1> QED
  BY <1>1
  DEF TypeInv, LoopType, Phases, Results, StepOk, StepFails, StepCleaned, StepCleanFails, StepUndone

-------------------------------------------------------------------------------
(* The messages to deviced. *)

LEMMA OneMoreMessage ==
  ASSUME queue \in Seq(Message), NEW m \in Message, SendMessage(m)
  PROVE  /\ queue' \in Seq(Message) /\ Len(queue) \in Nat /\ Len(queue') = Len(queue) + 1
         /\ queue'[Len(queue')] = m
         /\ \A i \in 1..Len(queue) : queue'[i] = queue[i]
  BY DEF SendMessage

LEMMA OneMessageLess ==
  ASSUME queue \in Seq(Message), queue # << >>, queue' = Tail(queue)
  PROVE  /\ queue' \in Seq(Message) /\ Len(queue') \in Nat /\ Len(queue) = Len(queue') + 1
         /\ Head(queue) = queue[1] /\ Head(queue) \in Message
         /\ \A i \in 1..Len(queue') : queue'[i] = queue[i + 1]
  OBVIOUS

LEMMA ThePoints ==
  /\ Final \in Points
  /\ \A n \in Versions : n > 0 => Tmp(n) \in Points /\ Tmp(n) # Final
<1>1. Final \in Points
  BY PointsAssumption
<1>2. ASSUME NEW n \in Versions, n > 0
      PROVE  Tmp(n) \in Points /\ Tmp(n) # Final
  <2>1. n \in 1..MaxRequests
    BY <1>2, RequestAssumption DEF Versions
  <2>2. Tmp(n) \in Points
    BY <2>1, PointsAssumption
  <2>3. Tmp(n) # Final
    BY DEF Tmp, Final
  <2> QED
    BY <2>2, <2>3
<1> QED
  BY <1>1, <1>2

LEMMA MountMessage ==
  ASSUME NEW p \in Points, NEW file \in Files, MountZip(p, file), queue \in Seq(Message)
  PROVE  /\ queue' \in Seq(Message) /\ Len(queue) \in Nat /\ Len(queue') = Len(queue) + 1
         /\ queue'[Len(queue')] = [op |-> "Mount", at |-> p, file |-> file]
         /\ \A i \in 1..Len(queue) : queue'[i] = queue[i]
         /\ dirs' = dirs \ {p} /\ mounts' = mounts
<1> DEFINE m == [op |-> "Mount", at |-> p, file |-> file]
<1>1. m \in Message /\ SendMessage(m)
  BY DEF Message, MountZip
<1> HIDE DEF m
<1>2. dirs' = dirs \ {p} /\ mounts' = mounts
  BY DEF MountZip
<1> QED
  BY <1>1, <1>2, OneMoreMessage DEF m

LEMMA UnmountMessage ==
  ASSUME NEW p \in Points, queue \in Seq(Message),
         SendMessage([op |-> "Unmount", at |-> p, file |-> <<"none", 0>>])
  PROVE  /\ queue' \in Seq(Message) /\ Len(queue) \in Nat /\ Len(queue') = Len(queue) + 1
         /\ queue'[Len(queue')].op = "Unmount" /\ queue'[Len(queue')].at = p
         /\ \A i \in 1..Len(queue) : queue'[i] = queue[i]
<1> DEFINE m == [op |-> "Unmount", at |-> p, file |-> <<"none", 0>>]
<1>1. m \in Message /\ SendMessage(m) /\ m.op = "Unmount" /\ m.at = p
  BY RequestAssumption DEF Message, Files, Versions
<1> HIDE DEF m
<1> QED
  BY <1>1, OneMoreMessage

-------------------------------------------------------------------------------
(* The shape of the state. *)

LEMMA VersionsOf == Versions \subseteq Nat /\ 0 \in Versions
  BY RequestAssumption DEF Versions

\* The kinds of steps, told by what they do to the loop.
LEMMA LoopMoves ==
  ASSUME Next
  PROVE  \/ Begin \/ Exit \/ Crash
         \/ /\ req' = req /\ made' = made
            /\ \/ StepOk(NumSteps) \/ StepFails \/ StepCleaned(NumSteps) \/ StepCleanFails
               \/ \E ok \in BOOLEAN : StepUndone(ok)
               \/ UNCHANGED runnerVars
  BY DEF Next, DevicedStep, MountUnpacked, MountUnpackedZip, MountUnpackedUndo,
     MountInstallUnmount, MountInstallCopy, MountInstallZip, MountInstallUndo,
     MountInstallClean, MountUpdateUnmount, MountUpdateBackup, MountUpdateCopy,
     MountUpdateZip, MountUpdateUndo, MountUpdateClean, Register, RegisterUndo,
     Unregister, UnregisterUndo, RemoveZipImage, CleanNothing, Ask, Poll, UnmountTmp,
     UnmountFinal, GoOn, Ok, Fails, Undone, Cleaned, NotCleaned, Disk, Keep

\* Failures are remembered and paid for.
FaultsGrow ==
  /\ faults \subseteq faults'
  /\ budget' = budget \/ (budget > 0 /\ budget' = budget - 1)

LEMMA FaultMoves ==
  /\ NoFault => FaultsGrow
  /\ \A kind : Fault(kind) => FaultsGrow
  BY DEF NoFault, Fault, FaultsGrow

LEMMA BudgetMoves == Next => FaultsGrow
<1> SUFFICES ASSUME Next
             PROVE  FaultsGrow
  OBVIOUS
<1>1. CASE Begin \/ Exit \/ Crash \/ DevicedStep
  BY <1>1, FaultMoves DEF Begin, Exit, Crash, DevicedStep, Deviced
<1>2. CASE MountUnpacked \/ MountUnpackedZip \/ MountUnpackedUndo
  BY <1>2, FaultMoves DEF MountUnpacked, MountUnpackedZip, MountUnpackedUndo, Ask, Poll
<1>3. CASE \/ MountInstallUnmount \/ MountInstallCopy \/ MountInstallZip
           \/ MountInstallUndo \/ MountInstallClean
  BY <1>3, FaultMoves
  DEF MountInstallUnmount, MountInstallCopy, MountInstallZip, MountInstallUndo,
      MountInstallClean, UnmountTmp, Ask, Poll, UnmountFinal
<1>4. CASE \/ MountUpdateUnmount \/ MountUpdateBackup \/ MountUpdateCopy
           \/ MountUpdateZip \/ MountUpdateUndo \/ MountUpdateClean
  BY <1>4, FaultMoves
  DEF MountUpdateUnmount, MountUpdateBackup, MountUpdateCopy, MountUpdateZip,
      MountUpdateUndo, MountUpdateClean, UnmountTmp, Ask, Poll, UnmountFinal
<1>5. CASE Register \/ RegisterUndo \/ Unregister \/ UnregisterUndo \/ RemoveZipImage \/ CleanNothing
  BY <1>5, FaultMoves
  DEF Register, RegisterUndo, Unregister, UnregisterUndo, RemoveZipImage, CleanNothing
<1> QED
  BY <1>1, <1>2, <1>3, <1>4, <1>5 DEF Next

LEMMA LoopTypeStep ==
  ASSUME TypeInv, Next
  PROVE  LoopType'
<1> USE DEF LoopType
<1>1. budget' \in 0..FaultBudget
  BY BudgetMoves, TzipAssumption DEF TypeInv, FaultsGrow
<1>2. stable' \in Versions /\ stuck' \in BOOLEAN
  <2>1. \/ stable' = stable \/ stable' = 0 \/ stable' = disk.db
    BY DEF Next, Begin, Exit, Crash, DevicedStep, MountUnpacked, MountUnpackedZip,
       MountUnpackedUndo, MountInstallUnmount, MountInstallCopy, MountInstallZip,
       MountInstallUndo, MountInstallClean, MountUpdateUnmount, MountUpdateBackup,
       MountUpdateCopy, MountUpdateZip, MountUpdateUndo, MountUpdateClean, Register,
       RegisterUndo, Unregister, UnregisterUndo, RemoveZipImage, CleanNothing, Ask, Poll,
       UnmountTmp, ProcessGone, Disk, Keep
  <2>2. \/ stuck' = stuck \/ stuck' = (stuck \/ ctx.asked)
    BY DEF Next, Begin, Exit, Crash, DevicedStep, MountUnpacked, MountUnpackedZip,
       MountUnpackedUndo, MountInstallUnmount, MountInstallCopy, MountInstallZip,
       MountInstallUndo, MountInstallClean, MountUpdateUnmount, MountUpdateBackup,
       MountUpdateCopy, MountUpdateZip, MountUpdateUndo, MountUpdateClean, Register,
       RegisterUndo, Unregister, UnregisterUndo, RemoveZipImage, CleanNothing, Ask, Poll,
       UnmountTmp, ProcessGone, Disk, Keep
  <2> QED
    BY <2>1, <2>2, VersionsOf DEF TypeInv, CtxType, DiskType
<1>3. CASE Begin
  <2>1. /\ phase' = "process" /\ it' = 1 /\ ret' = "OK" /\ req' \in Kinds
        /\ made < MaxRequests /\ made' = made + 1
    BY <1>3 DEF Begin, BeginRun, Kinds
  <2>2. NumSteps' = IF req' = "Uninstall" THEN 2 ELSE 3
    BY <2>1, ListLengths DEF NumSteps
  <2> QED
    BY <1>1, <1>2, <2>1, <2>2, RequestAssumption DEF TypeInv, Versions, Phases, Results
<1>4. CASE Exit \/ Crash
  <2>1. phase' = "idle" /\ it' = 1 /\ UNCHANGED <<ret, req, made>>
    BY <1>4 DEF Exit, Crash, ProcessGone, Disk, Keep
  <2> QED
    BY <1>1, <1>2, <2>1, StepLists DEF TypeInv, NumSteps, Phases
<1>5. CASE ~Begin /\ ~Exit /\ ~Crash
  <2>1. /\ req' = req /\ made' = made
        /\ \/ StepOk(NumSteps) \/ StepFails \/ StepCleaned(NumSteps) \/ StepCleanFails
           \/ \E ok \in BOOLEAN : StepUndone(ok)
           \/ UNCHANGED runnerVars
    BY <1>5, LoopMoves
  <2>2. phase # "idle" \/ UNCHANGED runnerVars
    BY <2>1 DEF StepOk, StepFails, StepCleaned, StepCleanFails, StepUndone
  <2>3. phase' \in Phases /\ ret' \in Results /\ it' \in 1..NumSteps'
    <3>1. CASE UNCHANGED runnerVars
      BY <2>1, <3>1 DEF TypeInv, runnerVars, NumSteps
    <3> QED
      BY <2>1, <3>1, Moves
  <2>4. phase' # "idle" => made' > 0
    BY <2>1, <2>2 DEF TypeInv, runnerVars
  <2> QED
    BY <1>1, <1>2, <2>1, <2>3, <2>4 DEF TypeInv
<1> QED
  BY <1>3, <1>4, <1>5

LEMMA CtxTypeStep ==
  ASSUME TypeInv, Next
  PROVE  CtxType'
<1> USE DEF CtxType, Parts
<1>1. 0 \in 0..MaxPolls-1
  BY TzipAssumption
<1>2. \A p \in Parts : GoOn(p) => CtxType'
  BY <1>1 DEF GoOn, TypeInv
<1>3. Ok \/ Fails => CtxType'
  BY <1>1 DEF Ok, Fails, TypeInv
<1>4. \A step, p, file : Ask(step, p, file) => CtxType'
  BY <1>3 DEF Ask, TypeInv
<1>5. \A step, p : Poll(step, p) => CtxType'
  <2>1. ctx.polls \in 0..MaxPolls-1
    BY DEF TypeInv
  <2>2. ctx.polls + 1 < MaxPolls => ctx.polls + 1 \in 0..MaxPolls-1
    BY <2>1, TzipAssumption
  <2> QED
    BY <1>3, <2>2 DEF Poll, TypeInv
<1>6. \A step : \A p \in Parts : UnmountTmp(step, p) => CtxType'
  BY <1>2, <1>3 DEF UnmountTmp
<1>7. CASE Begin \/ Exit \/ Crash
  <2>1. ctx' = Fresh \/ ctx' = [Fresh EXCEPT !.old = disk.db]
    BY <1>7 DEF Begin, Exit, Crash, ProcessGone
  <2>2. disk.db \in Versions
    BY DEF TypeInv, DiskType
  <2> QED
    <3>1. Fresh \in [part : Parts, polls : 0..MaxPolls-1, old : Versions, asked : BOOLEAN]
      BY <1>1, VersionsOf DEF Fresh
    <3>2. [Fresh EXCEPT !.old = disk.db] \in
             [part : Parts, polls : 0..MaxPolls-1, old : Versions, asked : BOOLEAN]
      BY <2>2, <3>1
    <3> QED
      BY <2>1, <3>1, <3>2
<1>8. CASE \/ DevicedStep \/ MountUnpackedUndo \/ MountInstallUndo \/ MountInstallClean
           \/ MountUpdateUndo \/ MountUpdateClean \/ RegisterUndo \/ UnregisterUndo
           \/ CleanNothing
  <2>1. ctx' = ctx
    BY <1>8
    DEF DevicedStep, MountUnpackedUndo, MountInstallUndo, MountInstallClean,
        MountUpdateUndo, MountUpdateClean, RegisterUndo, UnregisterUndo, CleanNothing,
        UnmountFinal, Undone, Cleaned, NotCleaned
  <2> QED
    BY <2>1 DEF TypeInv
<1>9. CASE MountUnpacked \/ MountInstallCopy \/ MountUpdateBackup \/ MountUpdateCopy
  BY <1>2, <1>3, <1>9
  DEF MountUnpacked, MountInstallCopy, MountUpdateBackup, MountUpdateCopy
<1>10. CASE Register \/ Unregister \/ RemoveZipImage
  BY <1>3, <1>10 DEF Register, Unregister, RemoveZipImage
<1>11. CASE MountUnpackedZip \/ MountInstallZip \/ MountUpdateZip
  BY <1>4, <1>5, <1>11 DEF MountUnpackedZip, MountInstallZip, MountUpdateZip
<1>12. CASE MountInstallUnmount \/ MountUpdateUnmount
  BY <1>6, <1>12 DEF MountInstallUnmount, MountUpdateUnmount
<1> QED
  BY <1>7, <1>8, <1>9, <1>10, <1>11, <1>12 DEF Next

\* Moves and Places as facts about a step in progress.
LEMMA Located ==
  ASSUME TypeInv
  PROVE  /\ req \in Kinds /\ it \in 1..3 /\ (req = "Uninstall" => it \in 1..2)
         /\ NumSteps = IF req = "Uninstall" THEN 2 ELSE 3
         /\ \A step, part :
              Process(step, part) =>
                /\ phase = "process" /\ ctx.part = part
                /\ step = "MountUnpacked" => req # "Uninstall" /\ it = 1
                /\ step = "MountInstall" => req = "MountInstall" /\ it = 2
                /\ step = "MountUpdate" => req = "MountUpdate" /\ it = 2
                /\ step = "Register" => req # "Uninstall" /\ it = 3
                /\ step = "Unregister" => req = "Uninstall" /\ it = 1
                /\ step = "RemoveZipImage" => req = "Uninstall" /\ it = 2
         /\ \A step :
              Undo(step) \/ Clean(step) =>
                /\ phase = IF Undo(step) THEN "undo" ELSE "clean"
                /\ step = "MountUnpacked" => req # "Uninstall" /\ it = 1
                /\ step = "MountInstall" => req = "MountInstall" /\ it = 2
                /\ step = "MountUpdate" => req = "MountUpdate" /\ it = 2
                /\ step = "Register" => req # "Uninstall" /\ it = 3
                /\ step = "Unregister" => req = "Uninstall" /\ it = 1
                /\ step = "RemoveZipImage" => req = "Uninstall" /\ it = 2
<1>1. req \in Kinds /\ it \in 1..NumSteps
  BY DEF TypeInv, LoopType
<1> QED
  BY <1>1, StepLists, Places DEF Process, Undo, Clean

\* What the outcomes do to the place of a request.
LEMMA Outcomes ==
  ASSUME TypeInv, req' = req
  PROVE  /\ Ok => /\ ctx' = [ctx EXCEPT !.part = "start", !.polls = 0]
                  /\ \/ phase' = "process" /\ it' = it + 1 /\ it < NumSteps
                     \/ phase' = "clean" /\ it' = 1 /\ it = NumSteps
         /\ Fails => /\ ctx' = [ctx EXCEPT !.part = "start", !.polls = 0]
                     /\ phase' = "undo" /\ it' = it
         /\ \A p : GoOn(p) => /\ ctx' = [ctx EXCEPT !.part = p, !.polls = 0]
                              /\ phase' = phase /\ it' = it
         /\ \A ok \in BOOLEAN : Undone(ok) =>
              /\ ctx' = ctx
              /\ \/ phase' = "undo" /\ it' = it - 1 /\ it > 1
                 \/ phase' = "end" /\ it' = it /\ it = 1
         /\ Cleaned => /\ ctx' = ctx
                       /\ \/ phase' = "clean" /\ it' = it + 1 /\ it < NumSteps
                          \/ phase' = "end" /\ it' = it /\ it = NumSteps
         /\ NotCleaned => ctx' = ctx /\ phase' = "end" /\ it' = it
  BY Moves DEF Ok, Fails, GoOn, Undone, Cleaned, NotCleaned, runnerVars

LEMMA NextPlace ==
  ASSUME TypeInv, Next
  PROVE  it \in 1..3 /\ it' \in 1..3
<1>1. ASSUME NEW r \in Kinds
      PROVE  1..Len(Pipeline[r]) \subseteq 1..3
  BY ListLengths
<1>2. LoopType /\ LoopType'
  BY LoopTypeStep DEF TypeInv
<1> QED
  BY <1>1, <1>2 DEF LoopType, NumSteps

LEMMA DiskTypeStep ==
  ASSUME TypeInv, Next
  PROVE  DiskType'
<1>t. /\ disk \in [zip : Versions \cup {Torn}, bck : Versions \cup {Torn}, dir : BOOLEAN, db : Versions]
      /\ disk.zip # 0 \/ disk.bck # 0 => disk.dir
      /\ BackedUp => disk.bck # 0
      /\ made \in Versions /\ ctx \in [part : Parts, polls : 0..MaxPolls-1, old : Versions, asked : BOOLEAN]
  BY DEF TypeInv, DiskType, LoopType, CtxType
<1>1. CASE MountInstallCopy
  BY <1>1, <1>t, Located, Outcomes, VersionsOf DEF MountInstallCopy, Disk, Keep, DiskType, BackedUp
<1>2. CASE MountInstallUndo
  BY <1>2, <1>t, Located, Outcomes, VersionsOf DEF MountInstallUndo, Disk, Keep, DiskType, BackedUp
<1>3. CASE MountUpdateBackup
  <2>1. \/ disk' = [disk EXCEPT !.bck = disk.zip, !.zip = 0] /\ disk.zip # 0 /\ GoOn("copy")
        \/ disk' = disk /\ Fails
    BY <1>3 DEF MountUpdateBackup, Disk
  <2>2. req' = req
    BY <1>3 DEF MountUpdateBackup, Disk, Keep
  <2> QED
    BY <1>t, <2>1, <2>2, Outcomes, VersionsOf DEF DiskType, BackedUp, GoOn, Fails, StepFails
<1>4. CASE MountUpdateCopy
  BY <1>4, <1>t, Located, Outcomes, VersionsOf DEF MountUpdateCopy, Disk, Keep, DiskType, BackedUp
<1>5. CASE MountUpdateUndo
  <2>1. phase' # "process"
    BY <1>5, Outcomes DEF MountUpdateUndo
  <2>2. \/ disk' = [disk EXCEPT !.zip = disk.bck, !.bck = 0] /\ disk.bck # 0
        \/ disk' = disk
        \/ disk' = [disk EXCEPT !.zip = 0]
    BY <1>5 DEF MountUpdateUndo
  <2> QED
    BY <1>t, <2>1, <2>2, VersionsOf DEF DiskType, BackedUp
<1>6. CASE MountUpdateClean
  BY <1>6, <1>t, Located, Outcomes, VersionsOf DEF MountUpdateClean, UnmountFinal, Disk, Keep, DiskType, BackedUp
<1>7. CASE Register
  BY <1>7, <1>t, Located, Outcomes, VersionsOf DEF Register, Disk, Keep, DiskType, BackedUp
<1>8. CASE RegisterUndo \/ UnregisterUndo
  BY <1>8, <1>t, Located, Outcomes, VersionsOf DEF RegisterUndo, UnregisterUndo, Disk, Keep, DiskType, BackedUp
<1>9. CASE Unregister
  BY <1>9, <1>t, Located, Outcomes, VersionsOf DEF Unregister, Disk, Keep, DiskType, BackedUp
<1>10. CASE RemoveZipImage
  BY <1>10, <1>t, Located, Outcomes, VersionsOf DEF RemoveZipImage, Disk, Keep, DiskType, BackedUp
<1>11. CASE Begin \/ Exit \/ Crash
  <2>1. disk' = disk /\ phase' \in {"process", "idle"} /\ it' = 1
    BY <1>11 DEF Begin, BeginRun, Exit, Crash, ProcessGone, Disk, Keep
  <2> QED
    BY <1>t, <2>1 DEF DiskType, BackedUp
<1>12. CASE \/ DevicedStep \/ MountUnpacked \/ MountUnpackedZip \/ MountUnpackedUndo
            \/ MountInstallUnmount \/ MountInstallZip \/ MountInstallClean
            \/ MountUpdateUnmount \/ MountUpdateZip \/ CleanNothing
  <2>1. disk' = disk /\ req' = req
    BY <1>12
    DEF DevicedStep, MountUnpacked, MountUnpackedZip, MountUnpackedUndo,
        MountInstallUnmount, MountInstallZip, MountInstallClean, MountUpdateUnmount,
        MountUpdateZip, CleanNothing, Ask, Poll, UnmountTmp, Disk, Keep
  <2>2. BackedUp' => BackedUp
    <3>1. CASE DevicedStep
      BY <3>1 DEF DevicedStep, runnerVars, BackedUp
    <3>2. CASE MountUnpacked \/ MountUnpackedZip
      <4>1. it = 1
        BY <3>2, Located DEF MountUnpacked, MountUnpackedZip, Ask, Poll
      <4>2. GoOn("mount") \/ Ok \/ Fails \/ (UNCHANGED runnerVars)
        BY <3>2 DEF MountUnpacked, MountUnpackedZip, Ask, Poll
      <4>3. phase' # "process" \/ it' = 1 \/ (it' = 2 /\ ctx'.part = "start")
        <5>1. CASE GoOn("mount") \/ UNCHANGED runnerVars
          BY <4>1, <5>1 DEF GoOn, runnerVars
        <5>2. CASE Ok
          <6>1. it' = it + 1 \/ phase' = "clean"
            BY <5>2 DEF Ok, StepOk
          <6>2. ctx'.part = "start"
            BY <1>t, <5>2 DEF Ok
          <6> QED
            BY <4>1, <6>1, <6>2
        <5>3. CASE Fails
          BY <5>3 DEF Fails, StepFails
        <5> QED
          BY <4>2, <5>1, <5>2, <5>3
      <4> QED
        BY <4>3, NextPlace DEF BackedUp
    <3>3. CASE MountUpdateUnmount
      <4>1. it = 2 /\ (GoOn("backup") \/ Fails)
        BY <3>3, Located DEF MountUpdateUnmount, UnmountTmp
      <4>2. phase' = "undo" \/ (it' = 2 /\ ctx'.part = "backup")
        BY <1>t, <2>1, <4>1 DEF GoOn, Fails, StepFails, runnerVars
      <4> QED
        BY <4>2, NextPlace DEF BackedUp
    <3>4. CASE MountUpdateZip
      BY <3>4, Located DEF MountUpdateZip, Ask, Poll, BackedUp
    <3>5. CASE MountInstallUnmount \/ MountInstallZip
      BY <1>t, <2>1, <3>5, Located, Outcomes DEF MountInstallUnmount, MountInstallZip, Ask, Poll, UnmountTmp, BackedUp
    <3>6. CASE MountUnpackedUndo \/ MountInstallClean \/ CleanNothing
      BY <2>1, <3>6, Outcomes DEF MountUnpackedUndo, MountInstallClean, UnmountFinal, CleanNothing, BackedUp
    <3> QED
      BY <1>12, <3>1, <3>2, <3>3, <3>4, <3>5, <3>6
  <2> QED
    BY <1>t, <2>1, <2>2 DEF DiskType
<1> QED
  BY <1>1, <1>2, <1>3, <1>4, <1>5, <1>6, <1>7, <1>8, <1>9, <1>10, <1>11, <1>12 DEF Next

-------------------------------------------------------------------------------
(* What a step does to deviced's messages and to the mount points. *)

DirsKept == dirs' \subseteq Points /\ \A p \in Points : Mounted(p) /\ p \in dirs => p \in dirs'

Silent == queue' = queue /\ mounts' = mounts /\ DirsKept
AsksMount(p, file) == MountZip(p, file) /\ ~Mounted(p)
AsksUnmount(p) ==
  /\ SendMessage([op |-> "Unmount", at |-> p, file |-> <<"none", 0>>])
  /\ mounts' = mounts /\ DirsKept

LEMMA MessageMoves ==
  ASSUME TypeInv, Next
  PROVE  \/ DevicedStep \/ Silent
         \/ AsksUnmount(Final)
         \/ phase # "idle" /\ AsksUnmount(Tmp(made))
         \/ MountUnpackedZip /\ AsksMount(Tmp(made), <<"package", made>>)
         \/ (MountInstallZip \/ MountUpdateZip) /\ AsksMount(Final, <<"zip", 0>>)
<1>t. dirs \subseteq Points /\ (phase # "idle" => Tmp(made) \in Points)
  BY ThePoints DEF TypeInv, MountType, LoopType
<1>1. Quietly => Silent
  BY <1>t DEF Quietly, Silent, DirsKept
<1>2. \A p : UnmountZip(p) => AsksUnmount(p)
  BY <1>t DEF UnmountZip, AsksUnmount, DirsKept
<1>3. \A step, next : UnmountTmp(step, next) =>
         Silent \/ (phase # "idle" /\ AsksUnmount(Tmp(made)))
  BY <1>1, <1>2 DEF UnmountTmp, Process
<1>4. \A step, p, file : Ask(step, p, file) => Silent \/ AsksMount(p, file)
  BY <1>1, <1>t DEF Ask, CanMountZip, AsksMount, Silent, DirsKept
<1>5. \A step, p : Poll(step, p) => Silent
  BY <1>1 DEF Poll
<1>6. UnmountFinal => Silent \/ AsksUnmount(Final)
  BY <1>1, <1>2 DEF UnmountFinal
<1>7. CASE MountUnpacked
  BY <1>t, <1>7 DEF MountUnpacked, Process, Silent, DirsKept
<1>8. CASE MountUnpackedUndo
  <2>1. CASE Quietly
    BY <1>1, <2>1
  <2>2. CASE ~Quietly
    BY <1>t, <1>8, <2>2 DEF MountUnpackedUndo, Undo, AsksUnmount, DirsKept
  <2> QED
    BY <2>1, <2>2
<1>9. CASE MountUnpackedZip
  BY <1>4, <1>5, <1>9 DEF MountUnpackedZip
<1>10. CASE MountInstallZip \/ MountUpdateZip
  BY <1>4, <1>5, <1>10 DEF MountInstallZip, MountUpdateZip
<1>11. CASE MountInstallUnmount \/ MountUpdateUnmount
  BY <1>3, <1>11 DEF MountInstallUnmount, MountUpdateUnmount
<1>12. CASE MountInstallClean \/ MountUpdateClean
  BY <1>2, <1>6, <1>12 DEF MountInstallClean, MountUpdateClean
<1>13. CASE MountInstallUndo
  BY <1>1, <1>2, <1>13 DEF MountInstallUndo
<1>14. CASE \/ Begin \/ Exit \/ Crash \/ MountInstallCopy \/ MountUpdateBackup
            \/ MountUpdateCopy \/ MountUpdateUndo \/ Register \/ RegisterUndo
            \/ Unregister \/ UnregisterUndo \/ RemoveZipImage \/ CleanNothing
  BY <1>1, <1>14
  DEF Begin, Exit, Crash, ProcessGone, MountInstallCopy, MountUpdateBackup,
      MountUpdateCopy, MountUpdateUndo, Register, RegisterUndo, Unregister,
      UnregisterUndo, RemoveZipImage, CleanNothing
<1> QED
  BY <1>7, <1>8, <1>9, <1>10, <1>11, <1>12, <1>13, <1>14 DEF Next

\* What deviced does with the first message.
LEMMA DevicedMoves ==
  ASSUME TypeInv, DevicedStep
  PROVE  /\ queue # << >> /\ queue' = Tail(queue) /\ Head(queue) \in Message
         /\ \/ /\ Head(queue).op = "Mount" /\ ~Mounted(Head(queue).at)
               /\ Content(Head(queue).file) \in Versions
               /\ mounts' = [mounts EXCEPT ![Head(queue).at] = Content(Head(queue).file)]
               /\ dirs' = dirs \cup {Head(queue).at}
            \/ Head(queue).op = "Mount" /\ UNCHANGED <<mounts, dirs>>
            \/ /\ Head(queue).op = "Unmount"
               /\ mounts' = [mounts EXCEPT ![Head(queue).at] = 0] /\ dirs' = dirs
            \/ faults' = faults \cup {"lost"} /\ UNCHANGED <<mounts, dirs>>
<1> DEFINE m == Head(queue)
<1>1. queue # << >> /\ queue' = Tail(queue) /\ Deviced(Content(m.file))
  BY DEF DevicedStep, Deviced
<1>2. m \in Message
  BY <1>1, OneMessageLess DEF TypeInv, MountType
<1>3. Content(m.file) > 0 => Content(m.file) \in Versions
  <2>1. m.file \in Files
    BY <1>2 DEF Message
  <2>2. m.file[2] \in Versions
    BY <2>1 DEF Files
  <2>3. disk.zip \in Versions \cup {Torn}
    BY DEF TypeInv, DiskType
  <2> QED
    BY <2>2, <2>3, VersionsOf DEF Content, Torn
<1> HIDE DEF m
<1>4. \/ /\ m.op = "Mount" /\ ~Mounted(m.at) /\ Content(m.file) > 0
         /\ mounts' = [mounts EXCEPT ![m.at] = Content(m.file)]
         /\ dirs' = dirs \cup {m.at}
      \/ m.op = "Mount" /\ UNCHANGED <<mounts, dirs>>
      \/ m.op = "Unmount" /\ mounts' = [mounts EXCEPT ![m.at] = 0] /\ dirs' = dirs
      \/ faults' = faults \cup {"lost"} /\ UNCHANGED <<mounts, dirs>>
  BY <1>1 DEF Deviced, Fault, m
<1> QED
  BY <1>1, <1>2, <1>3, <1>4 DEF m

LEMMA MountTypeStep ==
  ASSUME TypeInv, Next
  PROVE  MountType'
<1>t. /\ mounts \in [Points -> Versions] /\ dirs \subseteq Points
      /\ \A p \in Points : Mounted(p) => p \in dirs
      /\ queue \in Seq(Message) /\ made \in Versions /\ (phase # "idle" => made > 0)
  BY DEF TypeInv, MountType, LoopType
<1>1. CASE DevicedStep
  <2> DEFINE m == Head(queue)
  <2>1. queue' \in Seq(Message)
    BY <1>1, <1>t, OneMessageLess, DevicedMoves
  <2>2. m.at \in Points /\ 0 \in Versions
    BY <1>1, DevicedMoves, VersionsOf DEF Message
  <2> HIDE DEF m
  <2>3. \/ \E v \in Versions : mounts' = [mounts EXCEPT ![m.at] = v] /\ dirs' = dirs \cup {m.at}
        \/ mounts' = [mounts EXCEPT ![m.at] = 0] /\ dirs' = dirs
        \/ mounts' = mounts /\ dirs' = dirs
    BY <1>1, DevicedMoves DEF m
  <2>4. mounts' \in [Points -> Versions] /\ dirs' \subseteq Points
    BY <1>t, <2>2, <2>3
  <2>5. \A p \in Points : (mounts[p] # 0 => p \in dirs)
    BY <1>t DEF Mounted
  <2>6. ASSUME NEW p \in Points, mounts'[p] # 0
        PROVE  p \in dirs'
    BY <1>t, <2>2, <2>3, <2>5, <2>6
  <2> QED
    BY <2>1, <2>4, <2>6 DEF MountType, Mounted
<1>2. CASE Silent
  BY <1>2, <1>t DEF Silent, DirsKept, MountType, Mounted
<1>3. ASSUME NEW p \in Points, AsksUnmount(p)
      PROVE  MountType'
  BY <1>3, <1>t, UnmountMessage DEF AsksUnmount, DirsKept, MountType, Mounted
<1>4. ASSUME NEW p \in Points, NEW file \in Files, AsksMount(p, file)
      PROVE  MountType'
  BY <1>4, <1>t, MountMessage DEF AsksMount, MountType, Mounted
<1>5. Final \in Points /\ (phase # "idle" => Tmp(made) \in Points)
  BY <1>t, ThePoints
<1>6. <<"package", made>> \in Files /\ <<"zip", 0>> \in Files
  BY <1>t, VersionsOf DEF Files
<1>7. MountUnpackedZip => phase # "idle"
  BY DEF MountUnpackedZip, Ask, Poll, Process
<1> QED
  BY <1>1, <1>2, <1>3, <1>4, <1>5, <1>6, <1>7, MessageMoves

LEMMA TypeInvInit == Init => TypeInv
<1> SUFFICES ASSUME Init
             PROVE  TypeInv
  OBVIOUS
<1>1. LoopType
  <2>1. req \in Kinds /\ NumSteps = 3
    BY ListLengths DEF Init, NumSteps, Kinds
  <2>2. phase \in Phases /\ ret \in Results /\ it \in 1..NumSteps
    BY <2>1 DEF Init, RunnerInit, Phases, Results
  <2>3. made \in Versions /\ stable \in Versions /\ budget \in 0..FaultBudget
    BY VersionsOf, TzipAssumption DEF Init
  <2> QED
    BY <2>1, <2>2, <2>3 DEF Init, RunnerInit, LoopType
<1>2. CtxType
  BY TzipAssumption, VersionsOf DEF Init, CtxType, Fresh, Parts
<1>3. DiskType
  BY VersionsOf DEF Init, RunnerInit, DiskType, BackedUp
<1>4. MountType
  BY VersionsOf DEF Init, MountType, Mounted
<1> QED
  BY <1>1, <1>2, <1>3, <1>4 DEF TypeInv

LEMMA TypeInvStep == TypeInv /\ [Next]_vars => TypeInv'
<1> SUFFICES ASSUME TypeInv, [Next]_vars
             PROVE  TypeInv'
  OBVIOUS
<1>1. CASE Next
  BY <1>1, LoopTypeStep, CtxTypeStep, DiskTypeStep, MountTypeStep DEF TypeInv
<1>2. CASE UNCHANGED vars
  BY <1>2 DEF TypeInv, LoopType, CtxType, DiskType, MountType, BackedUp, NumSteps,
     Mounted, vars, tzipVars, runnerVars
<1> QED
  BY <1>1, <1>2

\* The state of mounted packages keeps its shape, whatever fails and crashes.
THEOREM MountTypeInvariant == Spec => []TypeInv
  BY TypeInvInit, TypeInvStep, PTL DEF Spec

-------------------------------------------------------------------------------
(* The mount point shows the package of the request. *)

\* How a request comes to have its package file in place, and goes on with it.
LEMMA CopiedMoves ==
  ASSUME TypeInv, Next, Copied'
  PROVE  /\ req' = req /\ made' = made
         /\ \/ it' = 2 /\ ctx'.part = "mount" /\ disk'.zip = made
            \/ /\ Copied /\ disk' = disk
               /\ \/ DevicedStep /\ it' = it /\ ctx' = ctx
                  \/ it' = 2 /\ AsksMount(Final, <<"zip", 0>>)
                  \/ it' = 2 /\ it = 2 /\ ctx.part = "poll" /\ Quietly
                  \/ it' = 3 /\ it = 2 /\ ctx.part = "poll" /\ AnswersYes(Final) /\ Quietly
<1>t. ctx \in [part : Parts, polls : 0..MaxPolls-1, old : Versions, asked : BOOLEAN]
  BY DEF TypeInv, CtxType
<1>d. disk \in [zip : Versions \cup {Torn}, bck : Versions \cup {Torn}, dir : BOOLEAN, db : Versions]
  BY DEF TypeInv, DiskType
<1>n. it \in 1..3 /\ it' \in 1..3
  BY NextPlace
<1>p. phase' = "process"
  BY DEF Copied
<1>1. CASE DevicedStep
  BY <1>1 DEF DevicedStep, Copied, runnerVars
<1>2. CASE MountInstallCopy \/ MountUpdateCopy
  <2>1. /\ req' = req /\ made' = made /\ it = 2
        /\ \/ disk'.zip = made /\ GoOn("mount")
           \/ Fails
    BY <1>d, <1>2, Located DEF MountInstallCopy, MountUpdateCopy, Disk, Keep
  <2>2. GoOn("mount")
    BY <1>p, <2>1 DEF Fails, StepFails
  <2> QED
    BY <1>t, <2>1, <2>2 DEF GoOn, Fails, StepFails, runnerVars
<1>3. CASE MountInstallZip \/ MountUpdateZip
  <2>0. PICK step \in {"MountInstall", "MountUpdate"} :
          Ask(step, Final, <<"zip", 0>>) \/ Poll(step, Final)
    BY <1>3 DEF MountInstallZip, MountUpdateZip
  <2>1. CASE Ask(step, Final, <<"zip", 0>>)
    <3>1. /\ Process(step, "mount") /\ disk' = disk /\ req' = req /\ made' = made
          /\ ~Fails
      BY <1>p, <2>1 DEF Ask, Disk, Keep, Fails, StepFails
    <3>2. it = 2 /\ phase = "process" /\ ctx.part = "mount" /\ req # "Uninstall"
      BY <3>1, Located
    <3>3. AsksMount(Final, <<"zip", 0>>) /\ UNCHANGED runnerVars
      BY <2>1, <3>1 DEF Ask, AsksMount, CanMountZip
    <3> QED
      BY <3>1, <3>2, <3>3 DEF Copied, runnerVars
  <2>2. CASE Poll(step, Final)
    <3>1. /\ Process(step, "poll") /\ disk' = disk /\ req' = req /\ made' = made
          /\ Quietly /\ ~Fails
      BY <1>p, <2>2 DEF Poll, Disk, Keep, Fails, StepFails
    <3>2. it = 2 /\ phase = "process" /\ ctx.part = "poll" /\ req # "Uninstall"
      BY <3>1, Located
    <3>3. \/ AnswersYes(Final) /\ Ok
          \/ UNCHANGED runnerVars
      BY <2>2, <3>1 DEF Poll
    <3>4. Ok => it' = it + 1
      BY <1>p DEF Ok, StepOk
    <3> QED
      BY <1>n, <3>1, <3>2, <3>3, <3>4 DEF Copied, runnerVars
  <2> QED
    BY <2>0, <2>1, <2>2
<1>4. CASE MountUnpacked \/ MountUnpackedZip
  <2>1. it = 1 /\ (GoOn("mount") \/ Ok \/ Fails \/ UNCHANGED runnerVars)
    BY <1>4, Located DEF MountUnpacked, MountUnpackedZip, Ask, Poll
  <2>2. it' = 1 \/ (it' = 2 /\ ctx'.part = "start")
    <3>1. CASE GoOn("mount") \/ UNCHANGED runnerVars
      BY <2>1, <3>1 DEF GoOn, runnerVars
    <3>2. CASE Ok
      <4>1. it' = it + 1 /\ ctx'.part = "start"
        BY <1>t, <1>p, <3>2 DEF Ok, StepOk
      <4> QED
        BY <2>1, <4>1
    <3>3. CASE Fails
      BY <1>p, <3>3 DEF Fails, StepFails
    <3> QED
      BY <2>1, <3>1, <3>2, <3>3
  <2> QED
    BY <1>n, <2>2 DEF Copied
<1>5. CASE MountInstallUnmount \/ MountUpdateUnmount \/ MountUpdateBackup
  <2>1. it = 2 /\ (GoOn("copy") \/ GoOn("backup") \/ Fails)
    BY <1>5, Located DEF MountInstallUnmount, MountUpdateUnmount, UnmountTmp, MountUpdateBackup
  <2>2. it' = 2 /\ ctx'.part \in {"copy", "backup"}
    BY <1>t, <1>p, <2>1 DEF GoOn, Fails, StepFails, runnerVars
  <2> QED
    BY <1>n, <2>2 DEF Copied
<1>6. CASE Register
  <2>1. it = 3 /\ NumSteps = 3 /\ (Ok \/ Fails)
    BY <1>6, Located DEF Register
  <2> QED
    BY <1>p, <2>1 DEF Ok, Fails, StepOk, StepFails
<1>7. CASE Unregister \/ RemoveZipImage \/ Begin
  <2>1. req' = "Uninstall" \/ it' = 1
    BY <1>7, Located DEF Unregister, RemoveZipImage, Process, Disk, Keep, Begin, BeginRun
  <2> QED
    BY <1>n, <2>1 DEF Copied
<1>8. CASE \/ Exit \/ Crash \/ MountUnpackedUndo \/ MountInstallUndo \/ MountInstallClean
           \/ MountUpdateUndo \/ MountUpdateClean \/ RegisterUndo \/ UnregisterUndo \/ CleanNothing
  <2>1. phase' # "process"
    BY <1>8
    DEF Exit, Crash, ProcessGone, MountUnpackedUndo, MountInstallUndo, MountInstallClean,
        MountUpdateUndo, MountUpdateClean, RegisterUndo, UnregisterUndo, CleanNothing,
        UnmountFinal, Undone, Cleaned, NotCleaned, StepUndone, StepCleaned, StepCleanFails
  <2> QED
    BY <1>p, <2>1
<1> QED
  BY <1>1, <1>2, <1>3, <1>4, <1>5, <1>6, <1>7, <1>8 DEF Next

LEMMA MountInvStep == TypeInv /\ MountInv /\ [Next]_vars => MountInv'
<1> SUFFICES ASSUME TypeInv, MountInv, [Next]_vars
             PROVE  MountInv'
  OBVIOUS
<1>u. CASE UNCHANGED vars
  BY <1>u DEF MountInv, Copied, vars, tzipVars, runnerVars
<1>n. CASE Next
  <2>t. /\ queue \in Seq(Message) /\ mounts \in [Points -> Versions]
        /\ made \in Versions /\ Final \in Points /\ Len(queue) \in Nat
    BY ThePoints DEF TypeInv, LoopType, MountType
  <2>q. \A i \in 1..Len(queue) : ZipMessage(queue[i])
    BY DEF MountInv
  <2>z. Copied => disk.zip = made
    BY DEF MountInv
  <2>m. Copied /\ it = 2 /\ ctx.part = "poll" => mounts[Final] \in {0, made}
    BY DEF MountInv
  <2>r. Copied /\ it = 3 => queue = << >> /\ mounts[Final] = made
    BY DEF MountInv
  <2>i. it \in 1..3 /\ it' \in 1..3
    BY <1>n, NextPlace
  <2>1. \A i \in 1..Len(queue') : ZipMessage(queue'[i])
    <3>0. ASSUME Len(queue') = Len(queue) + 1, ZipMessage(queue'[Len(queue')]),
                 \A i \in 1..Len(queue) : queue'[i] = queue[i]
          PROVE  \A i \in 1..Len(queue') : ZipMessage(queue'[i])
      <4> SUFFICES ASSUME NEW i \in 1..Len(queue')
                   PROVE  ZipMessage(queue'[i])
        OBVIOUS
      <4>1. i \in 1..Len(queue) \/ i = Len(queue')
        BY <2>t, <3>0
      <4> QED
        BY <2>q, <3>0, <4>1
    <3>1. CASE DevicedStep
      <4>1. queue # << >> /\ queue' = Tail(queue)
        BY <3>1, DevicedMoves
      <4>2. Len(queue') \in Nat /\ Len(queue) = Len(queue') + 1
        BY <2>t, <4>1, OneMessageLess
      <4>3. \A i \in 1..Len(queue') : queue'[i] = queue[i + 1] /\ i + 1 \in 1..Len(queue)
        BY <2>t, <4>1, <4>2, OneMessageLess
      <4> QED
        BY <2>q, <4>3
    <3>2. CASE Silent
      BY <2>q, <3>2 DEF Silent
    <3>3. ASSUME NEW p \in Points, AsksUnmount(p)
          PROVE  \A i \in 1..Len(queue') : ZipMessage(queue'[i])
      <4>1. /\ Len(queue') = Len(queue) + 1 /\ queue'[Len(queue')].op = "Unmount"
            /\ \A i \in 1..Len(queue) : queue'[i] = queue[i]
        BY <2>t, <3>3, UnmountMessage DEF AsksUnmount
      <4>2. ZipMessage(queue'[Len(queue')])
        BY <4>1 DEF ZipMessage
      <4> QED
        BY <3>0, <4>1, <4>2
    <3>4. CASE phase # "idle" /\ AsksMount(Tmp(made), <<"package", made>>)
      <4>1. Tmp(made) \in Points /\ Tmp(made) # Final /\ <<"package", made>> \in Files
        BY <2>t, <3>4, ThePoints DEF TypeInv, LoopType, Files
      <4>2. /\ Len(queue') = Len(queue) + 1
            /\ queue'[Len(queue')] = [op |-> "Mount", at |-> Tmp(made), file |-> <<"package", made>>]
            /\ \A i \in 1..Len(queue) : queue'[i] = queue[i]
        BY <2>t, <3>4, <4>1, MountMessage DEF AsksMount
      <4>3. ZipMessage(queue'[Len(queue')])
        BY <4>1, <4>2 DEF ZipMessage
      <4> QED
        BY <3>0, <4>2, <4>3
    <3>5. CASE AsksMount(Final, <<"zip", 0>>)
      <4>1. <<"zip", 0>> \in Files
        BY VersionsOf DEF Files
      <4>2. /\ Len(queue') = Len(queue) + 1
            /\ queue'[Len(queue')] = [op |-> "Mount", at |-> Final, file |-> <<"zip", 0>>]
            /\ \A i \in 1..Len(queue) : queue'[i] = queue[i]
        BY <2>t, <3>5, <4>1, MountMessage DEF AsksMount
      <4>3. ZipMessage(queue'[Len(queue')])
        BY <4>1, <4>2 DEF ZipMessage
      <4> QED
        BY <3>0, <4>2, <4>3
    <3>6. MountUnpackedZip => phase # "idle"
      BY DEF MountUnpackedZip, Ask, Poll, Process
    <3>7. phase # "idle" => Tmp(made) \in Points
      BY <2>t, ThePoints DEF TypeInv, LoopType
    <3> QED
      BY <1>n, <2>t, <3>1, <3>2, <3>3, <3>4, <3>5, <3>6, <3>7, MessageMoves
  <2>2. Copied' => disk'.zip = made'
    BY <1>n, <2>z, CopiedMoves
  <2>3. ASSUME Copied', it' = 2, ctx'.part = "poll"
        PROVE  mounts'[Final] \in {0, made'}
    <3>1. CASE DevicedStep /\ it' = it /\ ctx' = ctx /\ Copied /\ made' = made
      <4> DEFINE m == Head(queue)
      <4>1. m.op = "Mount" /\ m.at = Final => Content(m.file) = made
        <5>1. queue # << >> /\ m = queue[1]
          BY <2>t, <3>1, DevicedMoves, OneMessageLess
        <5>2. 1 \in 1..Len(queue)
          BY <2>t, <5>1
        <5>3. m.op = "Mount" /\ m.at = Final => m.file = <<"zip", 0>>
          BY <2>q, <5>1, <5>2 DEF ZipMessage
        <5> QED
          BY <2>z, <3>1, <5>3 DEF Content
      <4>2. m.at \in Points
        BY <3>1, DevicedMoves DEF Message
      <4> HIDE DEF m
      <4>3. \/ m.op = "Mount" /\ mounts' = [mounts EXCEPT ![m.at] = Content(m.file)]
            \/ mounts' = [mounts EXCEPT ![m.at] = 0]
            \/ mounts' = mounts
        BY <3>1, DevicedMoves DEF m
      <4>4. mounts[Final] \in {0, made}
        BY <2>m, <2>3, <3>1
      <4> QED
        BY <2>t, <3>1, <4>1, <4>2, <4>3, <4>4
    <3>2. CASE AsksMount(Final, <<"zip", 0>>)
      BY <3>2 DEF AsksMount, MountZip, Mounted
    <3>3. CASE it = 2 /\ ctx.part = "poll" /\ Quietly /\ Copied /\ made' = made
      BY <2>m, <3>3 DEF Quietly
    <3> QED
      BY <1>n, <2>3, <3>1, <3>2, <3>3, CopiedMoves
  <2>4. ASSUME Copied', it' = 3
        PROVE  queue' = << >> /\ mounts'[Final] = made'
    <3>1. made' = made /\ \/ Copied /\ DevicedStep /\ it = 3
                          \/ Copied /\ it = 2 /\ ctx.part = "poll" /\ AnswersYes(Final) /\ Quietly
      BY <1>n, <2>4, <2>i, CopiedMoves
    <3>2. ~(Copied /\ DevicedStep /\ it = 3)
      BY <2>r, DevicedMoves
    <3> QED
      BY <2>m, <3>1, <3>2 DEF AnswersYes, Mounted, Quietly
  <2> QED
    BY <2>1, <2>2, <2>3, <2>4 DEF MountInv
<1> QED
  BY <1>u, <1>n

\* A request that goes on after its mount sees the new version at the mount point.
THEOREM MountShowsPackageHolds == Spec => []MountShowsPackage
<1>1. Init => MountInv
  BY DEF Init, RunnerInit, MountInv, Copied
<1>2. TypeInv /\ MountInv => MountShowsPackage
  BY Places DEF TypeInv, LoopType, MountInv, Copied, MountShowsPackage
<1> QED
  BY <1>1, <1>2, TypeInvInit, TypeInvStep, MountInvStep, PTL DEF Spec

-------------------------------------------------------------------------------
(* Where the versions are. *)

\* What a step of a request leaves alone.
Within == req' = req /\ made' = made /\ orphan' = orphan /\ ctx'.old = ctx.old

\* The types of the files, with what a leaf needs of the numbers.
LEMMA DiskShape ==
  ASSUME TypeInv
  PROVE  /\ disk \in [zip : Versions \cup {Torn}, bck : Versions \cup {Torn}, dir : BOOLEAN, db : Versions]
         /\ ctx \in [part : Parts, polls : 0..MaxPolls-1, old : Versions, asked : BOOLEAN]
         /\ stable \in Versions /\ made \in Versions /\ Torn \notin Versions /\ Torn # 0
         /\ req \in Kinds /\ it \in 1..3 /\ (phase # "idle" => made # 0)
  BY Located, VersionsOf DEF TypeInv, DiskType, CtxType, LoopType, Torn

LEMMA KeptInvStep == TypeInv /\ MountInv /\ KeptInv /\ [Next]_vars => KeptInv'
<1> SUFFICES ASSUME TypeInv, MountInv, KeptInv, [Next]_vars
             PROVE  KeptInv'
  OBVIOUS
<1>t. /\ disk \in [zip : Versions \cup {Torn}, bck : Versions \cup {Torn}, dir : BOOLEAN, db : Versions]
      /\ ctx \in [part : Parts, polls : 0..MaxPolls-1, old : Versions, asked : BOOLEAN]
      /\ stable \in Versions /\ made \in Versions /\ Torn \notin Versions /\ Torn # 0
      /\ req \in Kinds /\ it \in 1..3 /\ (phase # "idle" => made # 0)
  BY DiskShape
<1>u. CASE UNCHANGED vars \/ DevicedStep
  BY <1>u DEF DevicedStep, KeptInv, vars, runnerVars
<1>b. CASE Begin
  <2>1. /\ phase' = "process" /\ it' = 1 /\ disk' = disk /\ stable' = stable /\ ctx'.old = disk.db
        /\ req' = "MountInstall" <=> disk.db = 0
        /\ ~orphan' => ~orphan /\ disk.bck \in {0, stable}
    BY <1>b DEF Begin, BeginRun, Fresh
  <2> QED
    BY <1>t, <2>1 DEF KeptInv
<1>x. CASE Exit \/ Crash
  <2>1. phase' = "idle" /\ disk' = disk /\ stable' = stable /\ orphan' = orphan
    BY <1>x DEF Exit, Crash, ProcessGone, Disk, Keep
  <2> QED
    BY <2>1 DEF KeptInv
\* The handlers that leave the files alone.
<1>1. CASE MountUnpacked \/ MountUnpackedZip \/ MountInstallUnmount \/ MountUpdateUnmount
           \/ MountInstallZip \/ MountUpdateZip
  <2>1. /\ Within /\ disk' = disk /\ stable' = stable
        /\ phase = "process" /\ req # "Uninstall" /\ phase' \in {"process", "undo", "clean"}
    BY <1>1, <1>t, Located
    DEF MountUnpacked, MountUnpackedZip, MountInstallUnmount, MountUpdateUnmount,
        MountInstallZip, MountUpdateZip, UnmountTmp, Ask, Poll, GoOn, Ok, Fails, Disk, Keep,
        StepOk, StepFails, runnerVars, Within
  <2>2. phase' # "clean"
    <3>1. it < 3 /\ NumSteps = 3
      BY <1>1, Located
      DEF MountUnpacked, MountUnpackedZip, MountInstallUnmount, MountUpdateUnmount,
          MountInstallZip, MountUpdateZip, UnmountTmp, Ask, Poll
    <3>2. Ok => phase' = "process"
      BY <1>t, <3>1 DEF Ok, StepOk
    <3> QED
      BY <1>1, <2>1, <3>2
      DEF MountUnpacked, MountUnpackedZip, MountInstallUnmount, MountUpdateUnmount,
          MountInstallZip, MountUpdateZip, UnmountTmp, Ask, Poll, GoOn, Fails,
          StepFails, runnerVars
  <2> QED
    BY <1>t, <2>1, <2>2 DEF KeptInv, Within
<1>2. CASE MountUnpackedUndo
  <2>1. /\ Within /\ disk' = disk /\ stable' = stable /\ phase = "undo" /\ it = 1
        /\ \E ok \in BOOLEAN : Undone(ok)
    BY <1>2, Located DEF MountUnpackedUndo, Undone, Disk, Keep, Within
  <2>2. phase' = "end"
    BY <2>1 DEF Undone, StepUndone
  <2> QED
    BY <2>1, <2>2 DEF KeptInv, Within
<1>3. CASE MountInstallClean
  <2>1. /\ Within /\ disk' = disk /\ stable' = stable /\ phase = "clean" /\ req = "MountInstall"
        /\ it = 2 /\ (Cleaned \/ NotCleaned)
    <3>1. Cleaned \/ NotCleaned => ctx' = ctx
      BY DEF Cleaned, NotCleaned
    <3> QED
      BY <1>3, <3>1, Located DEF MountInstallClean, Clean, UnmountFinal, Disk, Keep, Within
  <2>2. phase' \in {"clean", "end"}
    BY <2>1 DEF Cleaned, NotCleaned, StepCleaned, StepCleanFails
  <2> QED
    BY <2>1, <2>2 DEF KeptInv, Within
\* The handlers that write them.
<1>4. CASE MountInstallCopy \/ MountUpdateCopy
  <2>1. /\ Within /\ stable' = stable /\ phase = "process" /\ req # "Uninstall"
        /\ phase' \in {"process", "undo"}
        /\ disk'.zip \in {disk.zip, made, Torn} /\ disk'.bck = disk.bck /\ disk'.db = disk.db
        /\ req = "MountUpdate" => disk.bck # 0
    BY <1>4, <1>t, Located
    DEF MountInstallCopy, MountUpdateCopy, GoOn, Fails, Disk, Keep, StepFails, runnerVars,
        Within, TypeInv, DiskType, BackedUp
  <2> QED
    BY <1>t, <2>1 DEF KeptInv, Within, Kinds
<1>5. CASE MountUpdateBackup
  <2>1. /\ Within /\ stable' = stable /\ phase = "process" /\ req = "MountUpdate"
        /\ phase' \in {"process", "undo"} /\ disk'.db = disk.db
        /\ \/ disk.bck = 0 /\ disk.zip # 0 /\ disk'.bck = disk.zip /\ disk'.zip = 0
           \/ disk' = disk
    BY <1>5, <1>t, Located
    DEF MountUpdateBackup, GoOn, Fails, Disk, Keep, StepFails, runnerVars, Within
  <2> QED
    BY <1>t, <2>1 DEF KeptInv, Within
<1>6. CASE Register
  <2>1. /\ Within /\ stable' = stable /\ phase = "process" /\ req # "Uninstall" /\ it = 3
        /\ \/ disk' = [disk EXCEPT !.db = made] /\ Ok
           \/ disk' = disk /\ Fails
    BY <1>6, <1>t, Located DEF Register, Ok, Fails, Disk, Keep, Within
  <2>2. disk.zip = made
    BY <2>1 DEF MountInv, Copied
  <2>3. CASE Ok
    <3>1. phase' = "clean" /\ it' = 1
      BY <2>1, <2>3, Located DEF Ok, StepOk
    <3>2. disk' = [disk EXCEPT !.db = made]
      BY <2>1, <3>1 DEF Fails, StepFails
    <3> QED
      BY <1>t, <2>1, <2>2, <3>1, <3>2 DEF KeptInv, Within
  <2>4. CASE disk' = disk /\ Fails
    BY <1>t, <2>1, <2>4 DEF KeptInv, Within, Fails, StepFails
  <2> QED
    BY <2>1, <2>3, <2>4
<1>7. CASE MountInstallUndo \/ RegisterUndo \/ UnregisterUndo
  <2>1. /\ Within /\ stable' = stable /\ phase = "undo"
        /\ \E ok \in BOOLEAN : Undone(ok)
        /\ \/ req = "MountInstall" /\ disk' \in {disk, [disk EXCEPT !.zip = 0]}
           \/ disk' = [disk EXCEPT !.db = ctx.old]
    BY <1>7, Located DEF MountInstallUndo, RegisterUndo, UnregisterUndo, Undone, Disk, Keep, Within
  <2>2. \/ phase' = "undo" /\ it > 1
        \/ phase' = "end"
    BY <2>1 DEF Undone, StepUndone
  <2> QED
    BY <1>t, <2>1, <2>2 DEF KeptInv, Within
<1>8. CASE MountUpdateUndo
  <2>1. /\ Within /\ stable' = stable /\ phase = "undo" /\ req = "MountUpdate"
        /\ \/ disk.bck # 0 /\ disk' = [disk EXCEPT !.zip = disk.bck, !.bck = 0]
           \/ disk' = disk
           \/ disk.bck # 0 /\ disk' = [disk EXCEPT !.zip = 0]
    BY <1>8, Located DEF MountUpdateUndo, Undone, Within
  <2>2. phase' \in {"undo", "end"}
    BY <1>8 DEF MountUpdateUndo, Undone, StepUndone
  <2> QED
    BY <1>t, <2>1, <2>2 DEF KeptInv, Within
<1>9. CASE MountUpdateClean
  <2>1. /\ Within /\ stable' = stable /\ phase = "clean" /\ req = "MountUpdate" /\ it = 2
        /\ disk'.zip = disk.zip /\ disk'.db = disk.db /\ disk'.bck \in {0, disk.bck}
        /\ Cleaned \/ NotCleaned
    <3>1. Cleaned \/ NotCleaned => ctx' = ctx
      BY DEF Cleaned, NotCleaned
    <3>2. disk' \in {disk, [disk EXCEPT !.bck = 0]} /\ Keep /\ (Cleaned \/ NotCleaned)
      BY <1>9 DEF MountUpdateClean, UnmountFinal, Disk
    <3> QED
      BY <1>9, <1>t, <3>1, <3>2, Located DEF MountUpdateClean, Clean, Keep, Within
  <2>2. phase' \in {"clean", "end"}
    BY <2>1 DEF Cleaned, NotCleaned, StepCleaned, StepCleanFails
  <2> QED
    BY <1>t, <2>1, <2>2 DEF KeptInv, Within
<1>10. CASE Unregister
  <2>1. /\ Within /\ phase = "process" /\ req = "Uninstall" /\ it = 1
        /\ disk'.zip = disk.zip /\ disk'.bck = disk.bck
        /\ \/ stable' = 0 /\ Ok /\ disk'.db \in {0, disk.db}
           \/ stable' = stable /\ Fails /\ disk' = disk
    BY <1>10, <1>t, Located DEF Unregister, Ok, Fails, Disk, Keep, Within
  <2>2. CASE stable' = 0 /\ Ok /\ disk'.db \in {0, disk.db}
    <3>1. phase' = "process" /\ it' = 2
      BY <2>1, <2>2, Located DEF Ok, StepOk
    <3> QED
      BY <1>t, <2>1, <2>2, <3>1 DEF KeptInv, Within
  <2>3. CASE stable' = stable /\ Fails /\ disk' = disk
    BY <1>t, <2>1, <2>3 DEF KeptInv, Within, Fails, StepFails
  <2> QED
    BY <2>1, <2>2, <2>3
<1>11. CASE RemoveZipImage
  <2>1. /\ Within /\ stable' = stable /\ phase = "process" /\ req = "Uninstall" /\ it = 2 /\ Ok
        /\ disk'.zip \in {0, disk.zip} /\ disk'.bck = disk.bck /\ disk'.db = disk.db
    BY <1>11, <1>t, Located DEF RemoveZipImage, Ok, Disk, Keep, Within
  <2>2. phase' = "clean" /\ it' = 1
    BY <2>1, Located DEF Ok, StepOk
  <2> QED
    BY <1>t, <2>1, <2>2 DEF KeptInv, Within
<1>12. CASE CleanNothing
  <2>1. /\ Within /\ disk' = disk /\ phase = "clean" /\ phase' \in {"clean", "end"}
        /\ stable' = (IF req = "Uninstall" THEN 0 ELSE disk.db)
    BY <1>12 DEF CleanNothing, Clean, Cleaned, StepCleaned, Within
  <2> QED
    BY <1>t, <2>1 DEF KeptInv, Within
<1> QED
  BY <1>u, <1>b, <1>x, <1>1, <1>2, <1>3, <1>4, <1>5, <1>6, <1>7, <1>8, <1>9, <1>10, <1>11, <1>12
  DEF Next

LEMMA KeptInvInit == Init => KeptInv
  BY VersionsOf DEF Init, RunnerInit, KeptInv, Torn

\* The file of the committed version is in place or in the backup, whatever fails
\* and wherever a request dies, unless a backup has outlived its update.
THEOREM ZipNeverLostHolds == Spec => []ZipNeverLost
<1>1. Init => MountInv
  BY DEF Init, RunnerInit, MountInv, Copied
<1>2. KeptInv => ZipNeverLost
  BY DEF KeptInv, ZipNeverLost
<1> QED
  BY <1>1, <1>2, TypeInvInit, TypeInvStep, MountInvStep, KeptInvInit, KeptInvStep, PTL DEF Spec

LEMMA HarmlessBefore == Next /\ Harmless' => Harmless
  BY BudgetMoves DEF FaultsGrow, Harmless

LEMMA HarmfulAfter ==
  \A kind \in {"crash", "crashInClean", "restore", "removeBackup", "unregister", "removeZip"} :
     Fault(kind) => ~Harmless'
  BY DEF Fault, Harmless

LEMMA FilesInvStep == TypeInv /\ MountInv /\ KeptInv /\ FilesInv /\ [Next]_vars => FilesInv'
<1> SUFFICES ASSUME TypeInv, MountInv, KeptInv, FilesInv, [Next]_vars
             PROVE  FilesInv'
  OBVIOUS
<1>t. /\ disk \in [zip : Versions \cup {Torn}, bck : Versions \cup {Torn}, dir : BOOLEAN, db : Versions]
      /\ ctx \in [part : Parts, polls : 0..MaxPolls-1, old : Versions, asked : BOOLEAN]
      /\ stable \in Versions /\ made \in Versions /\ Torn \notin Versions /\ Torn # 0
      /\ req \in Kinds /\ it \in 1..3 /\ (phase # "idle" => made # 0)
  BY DiskShape
<1>u. CASE UNCHANGED vars
  BY <1>u DEF FilesInv, Harmless, InstallFiles, UpdateFiles, RemovalFiles, Copied, BackedUp,
     vars, tzipVars, runnerVars
<1> SUFFICES ASSUME Next, Harmless, Harmless'
             PROVE  FilesInv'
  BY <1>u, HarmlessBefore DEF FilesInv
<1>i. it' \in 1..3
  BY NextPlace
<1>k. /\ phase # "idle" => (req = "MountInstall" <=> ctx.old = 0)
      /\ phase \in {"process", "undo"} /\ (req = "Uninstall" => it = 1) => disk.db = ctx.old
      /\ phase = "undo" /\ req = "Uninstall" => it = 1
  BY DEF KeptInv
<1>f. /\ phase = "idle" => disk.zip = disk.db /\ disk.bck = 0
      /\ phase # "idle" /\ req = "MountInstall" => InstallFiles
      /\ phase # "idle" /\ req = "MountUpdate" => UpdateFiles
      /\ phase # "idle" /\ req = "Uninstall" => RemovalFiles
  BY DEF FilesInv
<1> USE DEF InstallFiles, UpdateFiles, RemovalFiles, Copied, BackedUp
<1>d. CASE DevicedStep
  BY <1>f, <1>d DEF DevicedStep, FilesInv, runnerVars
<1>b. CASE Begin
  <2>1. /\ phase = "idle" /\ phase' = "process" /\ it' = 1 /\ disk' = disk /\ ctx'.old = disk.db
        /\ IF disk.db = 0 THEN req' = "MountInstall" ELSE req' \in {"MountUpdate", "Uninstall"}
    BY <1>b DEF Begin, BeginRun, Fresh
  <2> QED
    BY <1>t, <1>i, <1>f, <2>1 DEF FilesInv
<1>x. CASE Exit \/ Crash
  <2>1. ~Crash
    BY HarmfulAfter DEF Crash
  <2>2. phase = "end" /\ phase' = "idle" /\ disk' = disk
    BY <1>x, <2>1 DEF Exit, ProcessGone, Disk
  <2> QED
    BY <1>t, <1>f, <2>2 DEF FilesInv, Kinds
\* The handlers that leave the files alone.
<1>1. CASE MountUnpacked \/ MountUnpackedZip \/ MountInstallUnmount \/ MountUpdateUnmount
  <2>1. /\ Within /\ disk' = disk /\ phase = "process" /\ req # "Uninstall"
        /\ it = 1 \/ (it = 2 /\ ctx.part = "start")
        /\ NumSteps = 3
        /\ \/ (GoOn("mount") \/ UNCHANGED runnerVars \/ Ok) /\ it = 1
           \/ GoOn("copy") /\ req = "MountInstall"
           \/ GoOn("backup")
           \/ Fails
    BY <1>1, <1>t, Located
    DEF MountUnpacked, MountUnpackedZip, MountInstallUnmount, MountUpdateUnmount,
        UnmountTmp, Ask, Poll, GoOn, Ok, Fails, Disk, Keep, Within
  <2>2. CASE (GoOn("mount") \/ UNCHANGED runnerVars) /\ it = 1
    <3>1. phase' = "process" /\ it' = 1
      BY <2>1, <2>2 DEF GoOn, runnerVars
    <3> QED
      BY <1>t, <1>f, <2>1, <3>1 DEF FilesInv, Within, Kinds
  <2>3. CASE Ok /\ it = 1
    <3>1. phase' = "process" /\ it' = 2 /\ ctx'.part = "start"
      BY <1>t, <2>1, <2>3 DEF Ok, StepOk
    <3> QED
      BY <1>t, <1>f, <2>1, <2>3, <3>1 DEF FilesInv, Within, Kinds
  <2>4. CASE (GoOn("copy") /\ req = "MountInstall") \/ GoOn("backup")
    <3>1. phase' = "process" /\ it' = it /\ ctx'.part \in {"copy", "backup"}
          /\ (ctx'.part = "copy" => req = "MountInstall")
      BY <1>t, <2>1, <2>4 DEF GoOn, runnerVars
    <3> QED
      BY <1>t, <1>f, <1>i, <2>1, <3>1 DEF FilesInv, Within, Kinds
  <2>5. CASE Fails
    <3>1. phase' = "undo" /\ it' = it
      BY <2>5 DEF Fails, StepFails
    <3> QED
      BY <1>t, <1>f, <2>1, <3>1 DEF FilesInv, Within, Kinds
  <2> QED
    BY <2>1, <2>2, <2>3, <2>4, <2>5
<1>2. CASE MountInstallZip \/ MountUpdateZip
  <2>1. /\ Within /\ disk' = disk /\ phase = "process" /\ req # "Uninstall" /\ it = 2
        /\ ctx.part \in {"mount", "poll"} /\ NumSteps = 3
        /\ \/ UNCHANGED runnerVars /\ ctx'.part = "poll"
           \/ Ok \/ Fails
    BY <1>2, <1>t, Located
    DEF MountInstallZip, MountUpdateZip, Ask, Poll, Process, Ok, Fails, Disk, Keep, Within
  <2>2. CASE UNCHANGED runnerVars /\ ctx'.part = "poll"
    BY <1>t, <1>f, <2>1, <2>2 DEF FilesInv, Within, Kinds, runnerVars
  <2>3. CASE Ok
    <3>1. phase' = "process" /\ it' = 3
      BY <2>1, <2>3 DEF Ok, StepOk
    <3> QED
      BY <1>t, <1>f, <2>1, <3>1 DEF FilesInv, Within, Kinds
  <2>4. CASE Fails
    <3>1. phase' = "undo" /\ it' = 2
      BY <2>1, <2>4 DEF Fails, StepFails
    <3> QED
      BY <1>t, <1>f, <2>1, <3>1 DEF FilesInv, Within, Kinds
  <2> QED
    BY <2>1, <2>2, <2>3, <2>4
<1>3. CASE MountUnpackedUndo \/ UnregisterUndo
  <2>1. /\ Within /\ phase = "undo" /\ it = 1
        /\ disk' = disk \/ disk' = [disk EXCEPT !.db = ctx.old]
        /\ \E ok \in BOOLEAN : Undone(ok)
    BY <1>3, Located DEF MountUnpackedUndo, UnregisterUndo, Undone, Disk, Keep, Within
  <2>2. phase' = "end"
    BY <2>1 DEF Undone, StepUndone
  <2> QED
    BY <1>t, <1>k, <1>f, <2>1, <2>2 DEF FilesInv, Within, Kinds
<1>4. CASE CleanNothing \/ MountInstallClean
  <2>1. /\ Within /\ disk' = disk /\ phase = "clean" /\ phase' \in {"clean", "end"}
        /\ req = "MountUpdate" => it # 2
        /\ Cleaned \/ (NotCleaned /\ req = "MountInstall")
    <3>1. Cleaned \/ NotCleaned => ctx' = ctx
      BY DEF Cleaned, NotCleaned
    <3>2. Cleaned \/ NotCleaned => phase' \in {"clean", "end"}
      BY DEF Cleaned, NotCleaned, StepCleaned, StepCleanFails
    <3> QED
      BY <1>4, <3>1, <3>2, Located
      DEF CleanNothing, MountInstallClean, Clean, UnmountFinal, Disk, Keep, Within
  <2>2. CASE req # "MountUpdate"
    BY <1>t, <1>f, <2>1, <2>2 DEF FilesInv, Within, Kinds
  <2>3. CASE req = "MountUpdate"
    <3>1. (it = 1 /\ phase' = "clean" /\ it' = 2) \/ it = 3
      BY <1>t, <2>1, <2>3, Located DEF Cleaned, StepCleaned
    <3> QED
      BY <1>t, <1>f, <2>1, <2>3, <3>1 DEF FilesInv, Within
  <2> QED
    BY <2>2, <2>3
\* The handlers that write them.
<1>5. CASE MountInstallCopy \/ MountUpdateCopy
  <2>1. /\ Within /\ phase = "process" /\ req # "Uninstall" /\ it = 2 /\ ctx.part = "copy"
        /\ disk'.bck = disk.bck /\ disk'.db = disk.db
        /\ \/ disk'.zip = made /\ GoOn("mount")
           \/ Fails
    BY <1>5, <1>t, Located
    DEF MountInstallCopy, MountUpdateCopy, GoOn, Fails, Disk, Keep, Within
  <2>2. CASE disk'.zip = made /\ GoOn("mount")
    <3>1. phase' = "process" /\ it' = 2 /\ ctx'.part = "mount"
      BY <1>t, <2>1, <2>2 DEF GoOn, runnerVars
    <3> QED
      BY <1>t, <1>f, <2>1, <2>2, <3>1 DEF FilesInv, Within, Kinds
  <2>3. CASE Fails
    <3>1. phase' = "undo" /\ it' = 2
      BY <2>1, <2>3 DEF Fails, StepFails
    <3> QED
      BY <1>t, <1>f, <2>1, <3>1 DEF FilesInv, Within, Kinds
  <2> QED
    BY <2>1, <2>2, <2>3
<1>6. CASE MountUpdateBackup
  <2>1. /\ Within /\ phase = "process" /\ req = "MountUpdate" /\ it = 2 /\ ctx.part = "backup"
        /\ disk'.db = disk.db
        /\ \/ disk'.bck = disk.zip /\ GoOn("copy")
           \/ disk' = disk /\ Fails
    BY <1>6, <1>t, Located DEF MountUpdateBackup, GoOn, Fails, Disk, Keep, Within
  <2>2. CASE disk'.bck = disk.zip /\ GoOn("copy")
    <3>1. phase' = "process" /\ it' = 2 /\ ctx'.part = "copy"
      BY <1>t, <2>1, <2>2 DEF GoOn, runnerVars
    <3> QED
      BY <1>t, <1>f, <2>1, <2>2, <3>1 DEF FilesInv, Within
  <2>3. CASE disk' = disk /\ Fails
    <3>1. phase' = "undo" /\ it' = 2
      BY <2>1, <2>3 DEF Fails, StepFails
    <3> QED
      BY <1>t, <1>f, <2>1, <2>3, <3>1 DEF FilesInv, Within
  <2> QED
    BY <2>1, <2>2, <2>3
<1>7. CASE Register
  <2>1. /\ Within /\ phase = "process" /\ req # "Uninstall" /\ it = 3 /\ NumSteps = 3
        /\ \/ disk' = [disk EXCEPT !.db = made] /\ Ok
           \/ disk' = disk /\ Fails
    BY <1>7, <1>t, Located DEF Register, Ok, Fails, Disk, Keep, Within
  <2>2. disk.zip = made
    BY <2>1 DEF MountInv
  <2>3. CASE disk' = [disk EXCEPT !.db = made] /\ Ok
    <3>1. phase' = "clean" /\ it' = 1
      BY <2>1, <2>3 DEF Ok, StepOk
    <3> QED
      BY <1>t, <1>f, <2>1, <2>2, <2>3, <3>1 DEF FilesInv, Within, Kinds
  <2>4. CASE disk' = disk /\ Fails
    <3>1. phase' = "undo" /\ it' = 3
      BY <2>1, <2>4 DEF Fails, StepFails
    <3> QED
      BY <1>t, <1>f, <2>1, <2>4, <3>1 DEF FilesInv, Within, Kinds
  <2> QED
    BY <2>1, <2>3, <2>4
<1>8. CASE MountInstallUndo
  <2>1. /\ Within /\ phase = "undo" /\ req = "MountInstall" /\ it = 2
        /\ disk' = [disk EXCEPT !.zip = 0] /\ \E ok \in BOOLEAN : Undone(ok)
    BY <1>8, Located, HarmfulAfter DEF MountInstallUndo, Undone, Disk, Keep, Within
  <2>2. phase' = "undo" /\ it' = 1
    BY <2>1 DEF Undone, StepUndone
  <2> QED
    BY <1>t, <1>f, <1>k, <2>1, <2>2 DEF FilesInv, Within
<1>9. CASE RegisterUndo
  <2>1. /\ Within /\ phase = "undo" /\ req # "Uninstall" /\ it = 3
        /\ disk' = [disk EXCEPT !.db = ctx.old] /\ \E ok \in BOOLEAN : Undone(ok)
    BY <1>9, Located DEF RegisterUndo, Undone, Disk, Keep, Within
  <2>2. phase' = "undo" /\ it' = 2
    BY <2>1 DEF Undone, StepUndone
  <2> QED
    BY <1>t, <1>f, <1>k, <2>1, <2>2 DEF FilesInv, Within, Kinds
<1>10. CASE MountUpdateUndo
  <2>1. /\ Within /\ phase = "undo" /\ req = "MountUpdate" /\ it = 2 /\ Undone(FALSE)
        /\ \/ disk.bck # 0 /\ disk' = [disk EXCEPT !.zip = disk.bck, !.bck = 0]
           \/ disk.bck = 0 /\ disk' = disk
    BY <1>10, HarmfulAfter, Located DEF MountUpdateUndo, Undone, Within
  <2>2. phase' = "undo" /\ it' = 1
    BY <2>1 DEF Undone, StepUndone
  <2> QED
    BY <1>t, <1>f, <2>1, <2>2 DEF FilesInv, Within
<1>11. CASE MountUpdateClean
  <2>1. /\ Within /\ phase = "clean" /\ req = "MountUpdate" /\ it = 2
        /\ disk' = [disk EXCEPT !.bck = 0] /\ phase' \in {"clean", "end"}
    <3>1. Cleaned \/ NotCleaned => ctx' = ctx
      BY DEF Cleaned, NotCleaned
    <3>2. Cleaned \/ NotCleaned => phase' \in {"clean", "end"}
      BY DEF Cleaned, NotCleaned, StepCleaned, StepCleanFails
    <3>3. disk' = [disk EXCEPT !.bck = 0] /\ Keep /\ (Cleaned \/ NotCleaned)
      BY <1>11, HarmfulAfter DEF MountUpdateClean, UnmountFinal, Disk
    <3> QED
      BY <1>11, <3>1, <3>2, <3>3, Located DEF MountUpdateClean, Clean, Keep, Within
  <2> QED
    BY <1>t, <1>f, <2>1 DEF FilesInv, Within
<1>12. CASE Unregister
  <2>1. /\ Within /\ phase = "process" /\ req = "Uninstall" /\ it = 1 /\ NumSteps = 2
        /\ \/ disk' = [disk EXCEPT !.db = 0] /\ Ok
           \/ disk' = disk /\ Fails
    BY <1>12, <1>t, HarmfulAfter, Located DEF Unregister, Ok, Fails, Disk, Keep, Within
  <2>2. CASE disk' = [disk EXCEPT !.db = 0] /\ Ok
    <3>1. phase' = "process" /\ it' = 2
      BY <2>1, <2>2 DEF Ok, StepOk
    <3> QED
      BY <1>t, <1>f, <2>1, <2>2, <3>1 DEF FilesInv, Within
  <2>3. CASE disk' = disk /\ Fails
    <3>1. phase' = "undo" /\ it' = 1
      BY <2>1, <2>3 DEF Fails, StepFails
    <3> QED
      BY <1>t, <1>f, <2>1, <2>3, <3>1 DEF FilesInv, Within
  <2> QED
    BY <2>1, <2>2, <2>3
<1>13. CASE RemoveZipImage
  <2>1. /\ Within /\ phase = "process" /\ req = "Uninstall" /\ it = 2 /\ NumSteps = 2 /\ Ok
        /\ disk' = [disk EXCEPT !.zip = 0]
    BY <1>13, <1>t, HarmfulAfter, Located DEF RemoveZipImage, Ok, Disk, Keep, Within
  <2>2. phase' = "clean" /\ it' = 1
    BY <2>1 DEF Ok, StepOk
  <2> QED
    BY <1>t, <1>f, <2>1, <2>2 DEF FilesInv, Within
<1> QED
  BY <1>d, <1>b, <1>x, <1>1, <1>2, <1>3, <1>4, <1>5, <1>6, <1>7, <1>8, <1>9, <1>10, <1>11,
     <1>12, <1>13
  DEF Next

\* Between two requests the package file is the one of the version in the database
\* and there is no backup, whatever has failed in the requests, as long as none died
\* and files could be moved and removed.
THEOREM ZipMatchesRegistryHolds == Spec => []ZipMatchesRegistry
<1>1. Init => MountInv
  BY DEF Init, RunnerInit, MountInv, Copied
<1>2. Init => FilesInv
  BY DEF Init, RunnerInit, FilesInv
<1>3. FilesInv => ZipMatchesRegistry
  BY DEF FilesInv, Harmless, ZipMatchesRegistry
<1> QED
  BY <1>1, <1>2, <1>3, TypeInvInit, TypeInvStep, MountInvStep, KeptInvInit, KeptInvStep,
     FilesInvStep, PTL DEF Spec

-------------------------------------------------------------------------------
(* The shape of the state, as the runs check it. *)

\* TypeOK: a backup is never half written, since it is a file that was renamed.
THEOREM MountTypeOKHolds == Spec => []TypeOK
<1>1. Init => MountInv
  BY DEF Init, RunnerInit, MountInv, Copied
<1>2. TypeInv /\ KeptInv => TypeOK
  <2> SUFFICES ASSUME TypeInv, KeptInv
               PROVE  TypeOK
    OBVIOUS
  <2>1. \A i \in 1..Len(queue) : queue[i].at \in Points
    <3>1. queue \in Seq(Message)
      BY DEF TypeInv, MountType
    <3>2. \A i \in 1..Len(queue) : queue[i] \in Message
      BY <3>1
    <3> QED
      BY <3>2 DEF Message
  <2>2. ctx.polls \in 0..MaxPolls-1 /\ disk.bck \in Versions
    BY DEF TypeInv, CtxType, DiskType, KeptInv
  <2> QED
    BY <2>1, <2>2 DEF TypeInv, LoopType, DiskType, MountType, TypeOK
<1> QED
  BY <1>1, <1>2, TypeInvInit, TypeInvStep, MountInvStep, KeptInvInit, KeptInvStep, PTL DEF Spec

-------------------------------------------------------------------------------
(* Nothing stays mounted. *)

\* After a message to unmount it a mount point is clear.
LEMMA ClearAfterUnmount ==
  ASSUME TypeInv, NEW p \in Points, AsksUnmount(p)
  PROVE  Clear(p)'
<1>1. /\ Len(queue) \in Nat /\ Len(queue') = Len(queue) + 1
      /\ queue'[Len(queue')].op = "Unmount" /\ queue'[Len(queue')].at = p
  BY UnmountMessage DEF TypeInv, MountType, AsksUnmount
<1>2. Len(queue') \in 1..Len(queue') /\ (Len(queue') + 1)..Len(queue') = {}
  BY <1>1
<1> QED
  BY <1>1, <1>2 DEF Clear, IsFor

\* A message that does not mount there leaves it clear.
LEMMA ClearAppended ==
  ASSUME NEW p, Clear(p), mounts' = mounts, Len(queue) \in Nat, Len(queue') = Len(queue) + 1,
         \A i \in 1..Len(queue) : queue'[i] = queue[i],
         ~IsFor(queue'[Len(queue')], "Mount", p)
  PROVE  Clear(p)'
<1>1. \A i \in 1..Len(queue') : i \in 1..Len(queue) \/ i = Len(queue')
  OBVIOUS
<1>2. CASE ~Mounted(p) /\ \A i \in 1..Len(queue) : ~IsFor(queue[i], "Mount", p)
  BY <1>1, <1>2 DEF Clear, Mounted
<1>3. ASSUME NEW i \in 1..Len(queue), IsFor(queue[i], "Unmount", p),
             \A j \in (i + 1)..Len(queue) : ~IsFor(queue[j], "Mount", p)
      PROVE  Clear(p)'
  <2>1. i \in 1..Len(queue') /\ IsFor(queue'[i], "Unmount", p)
    BY <1>3
  <2>2. \A j \in (i + 1)..Len(queue') : j \in (i + 1)..Len(queue) \/ j = Len(queue')
    OBVIOUS
  <2>3. \A j \in (i + 1)..Len(queue') : ~IsFor(queue'[j], "Mount", p)
    BY <1>3, <2>2
  <2> QED
    BY <2>1, <2>3 DEF Clear
<1> QED
  BY <1>2, <1>3 DEF Clear

\* deviced, when no message is lost, leaves it clear.
LEMMA ClearDeviced ==
  ASSUME TypeInv, NEW p \in Points, Clear(p), DevicedStep, Quiet'
  PROVE  Clear(p)'
<1> DEFINE m == Head(queue)
<1>t. queue \in Seq(Message) /\ mounts \in [Points -> Versions]
  BY DEF TypeInv, MountType
<1>1. /\ queue # << >> /\ Len(queue') \in Nat /\ Len(queue) = Len(queue') + 1
      /\ m = queue[1] /\ m \in Message
      /\ \A i \in 1..Len(queue') : queue'[i] = queue[i + 1]
  BY <1>t, DevicedMoves, OneMessageLess
<1>2. m.at \in Points
  BY <1>1 DEF Message
<1>3. \/ m.op = "Mount" /\ \E v : mounts' = [mounts EXCEPT ![m.at] = v]
      \/ m.op = "Mount" /\ mounts' = mounts
      \/ m.op = "Unmount" /\ mounts' = [mounts EXCEPT ![m.at] = 0]
  BY DevicedMoves DEF Quiet
<1> HIDE DEF m
<1>4. CASE ~Mounted(p) /\ \A i \in 1..Len(queue) : ~IsFor(queue[i], "Mount", p)
  <2>1. 1 \in 1..Len(queue) /\ \A i \in 1..Len(queue') : i + 1 \in 1..Len(queue)
    BY <1>1
  <2>2. ~IsFor(m, "Mount", p) /\ \A i \in 1..Len(queue') : ~IsFor(queue'[i], "Mount", p)
    BY <1>1, <1>4, <2>1
  <2>3. ~Mounted(p)'
    BY <1>t, <1>2, <1>3, <1>4, <2>2 DEF IsFor, Mounted
  <2> QED
    BY <2>2, <2>3 DEF Clear
<1>5. ASSUME NEW i \in 1..Len(queue), IsFor(queue[i], "Unmount", p),
             \A j \in (i + 1)..Len(queue) : ~IsFor(queue[j], "Mount", p)
      PROVE  Clear(p)'
  <2>1. CASE i = 1
    <3>1. m.op = "Unmount" /\ m.at = p
      BY <1>1, <1>5, <2>1 DEF IsFor
    <3>2. ~Mounted(p)'
      BY <1>t, <1>3, <3>1 DEF Mounted
    <3>3. \A j \in 1..Len(queue') : j + 1 \in (i + 1)..Len(queue)
      BY <1>1, <2>1
    <3>4. \A j \in 1..Len(queue') : ~IsFor(queue'[j], "Mount", p)
      BY <1>1, <1>5, <3>3
    <3> QED
      BY <3>2, <3>4 DEF Clear
  <2>2. CASE i # 1
    <3>1. i - 1 \in 1..Len(queue') /\ (i - 1) + 1 = i
      BY <1>1, <2>2
    <3>2. IsFor(queue'[i - 1], "Unmount", p)
      BY <1>1, <1>5, <3>1
    <3>3. \A j \in ((i - 1) + 1)..Len(queue') :
             j \in 1..Len(queue') /\ j + 1 \in (i + 1)..Len(queue)
      BY <1>1, <2>2
    <3>4. \A j \in ((i - 1) + 1)..Len(queue') : ~IsFor(queue'[j], "Mount", p)
      BY <1>1, <1>5, <3>3
    <3> QED
      BY <3>1, <3>2, <3>4 DEF Clear
  <2> QED
    BY <2>1, <2>2
<1> QED
  BY <1>4, <1>5 DEF Clear

\* Only a request that asks for a mount makes a mount point that was clear another.
LEMMA ClearKept ==
  ASSUME TypeInv, Next, Quiet', NEW p \in Points, Clear(p),
         MountUnpackedZip => p # Tmp(made) \/ queue' = queue,
         MountInstallZip \/ MountUpdateZip => p # Final \/ queue' = queue
  PROVE  Clear(p)'
<1>t. queue \in Seq(Message) /\ Len(queue) \in Nat /\ made \in Versions
  BY DEF TypeInv, MountType, LoopType
<1>1. CASE DevicedStep
  BY <1>1, ClearDeviced
<1>2. CASE Silent
  BY <1>2 DEF Silent, Clear, Mounted
<1>3. ASSUME NEW q \in Points, AsksUnmount(q)
      PROVE  Clear(p)'
  <2>1. /\ Len(queue') = Len(queue) + 1 /\ queue'[Len(queue')].op = "Unmount"
        /\ \A i \in 1..Len(queue) : queue'[i] = queue[i]
    BY <1>t, <1>3, UnmountMessage DEF AsksUnmount
  <2>2. ~IsFor(queue'[Len(queue')], "Mount", p) /\ mounts' = mounts
    BY <1>3, <2>1 DEF IsFor, AsksUnmount
  <2> QED
    BY <1>t, <2>1, <2>2, ClearAppended
<1>4. ASSUME NEW q \in Points, NEW file \in Files, AsksMount(q, file), p # q \/ queue' = queue
      PROVE  Clear(p)'
  <2>1. /\ Len(queue') = Len(queue) + 1 /\ mounts' = mounts
        /\ queue'[Len(queue')] = [op |-> "Mount", at |-> q, file |-> file]
        /\ \A i \in 1..Len(queue) : queue'[i] = queue[i]
    BY <1>t, <1>4, MountMessage DEF AsksMount
  <2>2. p # q
    BY <1>t, <1>4, <2>1
  <2>3. ~IsFor(queue'[Len(queue')], "Mount", p)
    BY <2>1, <2>2 DEF IsFor
  <2> QED
    BY <1>t, <2>1, <2>3, ClearAppended
<1>5. MountUnpackedZip => phase # "idle"
  BY DEF MountUnpackedZip, Ask, Poll, Process
<1>6. Final \in Points /\ (phase # "idle" => Tmp(made) \in Points)
  BY <1>t, ThePoints DEF TypeInv, LoopType
<1>7. <<"package", made>> \in Files /\ <<"zip", 0>> \in Files
  BY <1>t, VersionsOf DEF Files
<1> QED
  BY <1>1, <1>2, <1>3, <1>4, <1>5, <1>6, <1>7, MessageMoves

LEMMA QuietBefore == Next /\ Quiet' => Quiet
  BY BudgetMoves DEF FaultsGrow, Quiet

LEMMA NoisyAfter ==
  \A kind \in {"send", "lost", "crash", "crashInClean"} : Fault(kind) => ~Quiet'
  BY DEF Fault, Quiet

\* A mount at the mount point is asked for by the step for it only, and then it is
\* not forgotten as long as the request is handled.
LEMMA AskedMoves ==
  ASSUME TypeInv, Next
  PROVE  /\ ctx'.asked => \/ ctx.asked /\ ~Begin /\ ~Exit /\ ~Crash
                          \/ MountInstallZip \/ MountUpdateZip
         /\ ctx.asked => ctx'.asked \/ Begin \/ Exit \/ Crash
<1>t. ctx \in [part : Parts, polls : 0..MaxPolls-1, old : Versions, asked : BOOLEAN]
  BY DEF TypeInv, CtxType
<1>0. Begin \/ Exit \/ Crash => ~ctx'.asked
  <2>1. Begin \/ Exit \/ Crash => ctx' = Fresh \/ ctx' = [Fresh EXCEPT !.old = disk.db]
    BY DEF Begin, Exit, Crash, ProcessGone
  <2>2. ~Fresh.asked /\ ~[Fresh EXCEPT !.old = disk.db].asked
    BY DEF Fresh
  <2> QED
    BY <2>1, <2>2
<1>1. CASE Begin \/ Exit \/ Crash
  BY <1>0, <1>1
<1>2. CASE MountUnpackedZip
  <2>1. Ok \/ Fails => ctx'.asked = ctx.asked
    BY <1>t DEF Ok, Fails
  <2>2. CASE Poll("MountUnpacked", Tmp(made))
    <3>1. ctx' = [ctx EXCEPT !.polls = @ + 1] => ctx'.asked = ctx.asked
      BY <1>t
    <3> QED
      BY <1>0, <2>1, <2>2, <3>1 DEF Poll
  <2>3. CASE Ask("MountUnpacked", Tmp(made), <<"package", made>>)
    <3>1. Tmp(made) # Final
      BY <2>3, ThePoints DEF TypeInv, LoopType, Ask, Process
    <3>2. ctx' = [ctx EXCEPT !.part = "poll", !.asked = @ \/ Tmp(made) = Final]
          => ctx'.asked = (ctx.asked \/ Tmp(made) = Final)
      BY <1>t
    <3> QED
      BY <1>0, <2>1, <2>3, <3>1, <3>2 DEF Ask
  <2> QED
    BY <1>2, <2>2, <2>3 DEF MountUnpackedZip
<1>3. CASE MountInstallZip \/ MountUpdateZip
  BY <1>3, <1>t DEF MountInstallZip, MountUpdateZip, Ask, Poll, Ok, Fails
<1>4. CASE ~Begin /\ ~Exit /\ ~Crash /\ ~MountUnpackedZip /\ ~MountInstallZip /\ ~MountUpdateZip
  <2>1. ctx'.asked <=> ctx.asked
    BY <1>4, <1>t
    DEF Next, DevicedStep, MountUnpacked, MountUnpackedUndo, MountInstallUnmount,
        MountInstallCopy, MountInstallUndo, MountInstallClean, MountUpdateUnmount,
        MountUpdateBackup, MountUpdateCopy, MountUpdateUndo, MountUpdateClean, Register,
        RegisterUndo, Unregister, UnregisterUndo, RemoveZipImage, CleanNothing, UnmountTmp,
        UnmountFinal, GoOn, Ok, Fails, Undone, Cleaned, NotCleaned
  <2> QED
    BY <1>4, <2>1
<1> QED
  BY <1>1, <1>2, <1>3, <1>4

\* A request keeps the mount point of its temporary directory in use until it has
\* sent the message that clears it.
LEMMA TmpGivenUp ==
  ASSUME TypeInv, Next, Quiet'
  PROVE  /\ TmpInUse => TmpInUse' \/ \A p \in Points : p = Tmp(made) => Clear(p)'
         /\ MountUnpackedZip => TmpInUse' \/ queue' = queue
<1>t. /\ ctx \in [part : Parts, polls : 0..MaxPolls-1, old : Versions, asked : BOOLEAN]
      /\ (phase # "idle" => Tmp(made) \in Points) /\ it \in 1..3 /\ it' \in 1..3
  BY ThePoints, NextPlace DEF TypeInv, CtxType, LoopType
<1>1. CASE MountUnpackedZip
  <2>1. /\ phase = "process" /\ req # "Uninstall" /\ req' = req /\ it = 1 /\ NumSteps = 3
        /\ Fails \/ Ok \/ UNCHANGED runnerVars
    BY <1>1, Located DEF MountUnpackedZip, Ask, Poll, Disk, Keep
  <2>2. CASE Ok
    <3>1. phase' = "process" /\ it' = 2 /\ ctx'.part = "start"
      BY <1>t, <2>1, <2>2 DEF Ok, StepOk
    <3> QED
      BY <2>1, <3>1 DEF TmpInUse
  <2>3. CASE Fails
    BY <2>1, <2>3 DEF Fails, StepFails, TmpInUse
  <2>4. CASE UNCHANGED runnerVars
    BY <2>1, <2>4 DEF runnerVars, TmpInUse
  <2> QED
    BY <2>1, <2>2, <2>3, <2>4
<1>2. CASE (MountInstallUnmount \/ MountUpdateUnmount) /\ ~MountUnpackedZip
  <2>1. UnmountZip(Tmp(made)) /\ phase = "process"
    BY <1>2, NoisyAfter DEF MountInstallUnmount, MountUpdateUnmount, UnmountTmp, Process
  <2>2. AsksUnmount(Tmp(made))
    BY <2>1 DEF UnmountZip, AsksUnmount, DirsKept, TypeInv, MountType
  <2> QED
    BY <1>2, <2>2, ClearAfterUnmount
<1>3. CASE MountUnpackedUndo /\ ~MountUnpackedZip
  <2>1. /\ phase = "undo"
        /\ SendMessage([op |-> "Unmount", at |-> Tmp(made), file |-> <<"none", 0>>])
        /\ mounts' = mounts
        /\ dirs' = (IF Mounted(Tmp(made)) THEN dirs ELSE dirs \ {Tmp(made)})
    BY <1>3, NoisyAfter DEF MountUnpackedUndo, Undo
  <2>2. AsksUnmount(Tmp(made))
    BY <2>1 DEF AsksUnmount, DirsKept, TypeInv, MountType
  <2> QED
    BY <1>3, <2>2, ClearAfterUnmount
<1>4. CASE Exit \/ Crash \/ Begin
  <2>1. ~TmpInUse
    BY <1>4, NoisyAfter DEF Exit, Crash, Begin, BeginRun, TmpInUse
  <2>2. ~MountUnpackedZip
    BY <1>4, NoisyAfter DEF Exit, Crash, Begin, BeginRun, MountUnpackedZip, Ask, Poll, Process
  <2> QED
    BY <2>1, <2>2
<1>5. CASE DevicedStep /\ ~MountUnpackedZip
  BY <1>5 DEF DevicedStep, runnerVars, TmpInUse
<1>6. CASE MountUnpacked /\ ~MountUnpackedZip
  <2>1. /\ phase = "process" /\ req # "Uninstall" /\ req' = req /\ it = 1
        /\ Fails \/ GoOn("mount")
    BY <1>6, Located DEF MountUnpacked, Disk, Keep
  <2>2. phase' = "undo" \/ (phase' = "process" /\ it' = 1)
    BY <2>1 DEF Fails, StepFails, GoOn, runnerVars
  <2> QED
    BY <1>6, <2>1, <2>2 DEF TmpInUse, MountUnpacked
<1>7. CASE MountInstallUndo \/ MountUpdateUndo \/ RegisterUndo
  <2>1. /\ phase = "undo" /\ req # "Uninstall" /\ req' = req /\ it > 1
        /\ \E ok \in BOOLEAN : Undone(ok)
    <3>1. Undo("MountInstall") \/ Undo("MountUpdate") \/ Undo("Register")
      BY <1>7 DEF MountInstallUndo, MountUpdateUndo, RegisterUndo
    <3>2. \E ok \in BOOLEAN : Undone(ok)
      BY <1>7 DEF MountInstallUndo, MountUpdateUndo, RegisterUndo, Undone
    <3>3. req' = req
      BY <1>7 DEF MountInstallUndo, MountUpdateUndo, RegisterUndo, Disk, Keep
    <3> QED
      BY <3>1, <3>2, <3>3, Located DEF Undo
  <2>2. phase' = "undo"
    BY <2>1 DEF Undone, StepUndone
  <2> QED
    BY <2>1, <2>2 DEF TmpInUse, MountUnpackedZip, Ask, Poll, Process
<1>8. CASE \/ MountInstallCopy \/ MountUpdateBackup \/ MountUpdateCopy \/ MountInstallZip
           \/ MountUpdateZip \/ Register
  <2>1. /\ phase = "process" /\ req' = req /\ req # "Uninstall"
        /\ it = 3 \/ (it = 2 /\ ctx.part # "start")
    BY <1>8, Located
    DEF MountInstallCopy, MountUpdateBackup, MountUpdateCopy, MountInstallZip, MountUpdateZip,
        Register, Ask, Poll, Process, Disk, Keep
  <2>2. ~MountUnpackedZip
    BY <2>1, Located DEF MountUnpackedZip, Ask, Poll
  <2> QED
    BY <2>1, <2>2 DEF TmpInUse
<1>9. CASE \/ MountInstallClean \/ MountUpdateClean \/ CleanNothing \/ Unregister
           \/ UnregisterUndo \/ RemoveZipImage
  <2>1. req = "Uninstall" \/ phase = "clean"
    BY <1>9, Located
    DEF MountInstallClean, MountUpdateClean, CleanNothing, Unregister, UnregisterUndo,
        RemoveZipImage, Clean
  <2> QED
    BY <2>1, Located DEF TmpInUse, MountUnpackedZip, Ask, Poll
<1> QED
  BY <1>1, <1>2, <1>3, <1>4, <1>5, <1>6, <1>7, <1>8, <1>9 DEF Next

\* And the mount point of the package until the mount step has undone or cleaned it;
\* the undo() of an update does not, and is remembered.
LEMMA FinalGivenUp ==
  ASSUME TypeInv, ClearInv, Next, Quiet'
  PROVE  /\ FinalInUse => FinalInUse' \/ stuck' \/ Clear(Final)'
         /\ MountInstallZip \/ MountUpdateZip => FinalInUse' \/ queue' = queue
         /\ stuck => stuck'
<1>t. /\ ctx \in [part : Parts, polls : 0..MaxPolls-1, old : Versions, asked : BOOLEAN]
      /\ Final \in Points /\ it \in 1..3 /\ it' \in 1..3 /\ stuck \in BOOLEAN
  BY ThePoints, NextPlace DEF TypeInv, CtxType, LoopType
<1>a. /\ ctx.asked => req # "Uninstall" /\ (phase = "process" => it > 1)
      /\ ctx.asked => ctx'.asked \/ Begin \/ Exit \/ Crash
  BY AskedMoves DEF ClearInv
<1>n. req # "Uninstall" => NumSteps = 3
  BY Located
<1>m. UnmountZip(Final) => Clear(Final)'
  BY <1>t, ClearAfterUnmount DEF UnmountZip, AsksUnmount, DirsKept, TypeInv, MountType
<1>s. stuck => stuck'
  BY DEF Next, Begin, Exit, Crash, DevicedStep, MountUnpacked, MountUnpackedZip,
     MountUnpackedUndo, MountInstallUnmount, MountInstallCopy, MountInstallZip,
     MountInstallUndo, MountInstallClean, MountUpdateUnmount, MountUpdateBackup,
     MountUpdateCopy, MountUpdateZip, MountUpdateUndo, MountUpdateClean, Register,
     RegisterUndo, Unregister, UnregisterUndo, RemoveZipImage, CleanNothing, Ask, Poll,
     UnmountTmp, ProcessGone, Disk, Keep
<1>z. MountInstallZip \/ MountUpdateZip => phase = "process" /\ it = 2 /\ req # "Uninstall"
  BY Located DEF MountInstallZip, MountUpdateZip, Ask, Poll
<1>1. CASE MountInstallZip \/ MountUpdateZip
  <2>1. queue' = queue \/ (ctx'.asked /\ UNCHANGED runnerVars)
    BY <1>t, <1>1, NoisyAfter
    DEF MountInstallZip, MountUpdateZip, Ask, Poll, Quietly
  <2>2. Ok \/ Fails \/ UNCHANGED runnerVars
    BY <1>1 DEF MountInstallZip, MountUpdateZip, Ask, Poll
  <2>3. phase' = "process" \/ (phase' = "undo" /\ it' = it)
    BY <1>n, <1>z, <1>1, <2>2 DEF Ok, Fails, StepOk, StepFails, runnerVars
  <2>4. phase = "process" /\ it = 2 /\ ~Begin /\ ~Exit /\ ~Crash
    BY <1>1, <1>z, NoisyAfter DEF Begin, BeginRun, Exit, Crash
  <2> QED
    BY <1>a, <1>s, <2>1, <2>3, <2>4 DEF FinalInUse, runnerVars
<1>2. CASE MountInstallUndo
  BY <1>2, <1>m, <1>s, <1>z, NoisyAfter DEF MountInstallUndo, Undo
<1>3. CASE MountUpdateUndo
  <2>1. phase = "undo" /\ (stuck' <=> stuck \/ ctx.asked)
    BY <1>3 DEF MountUpdateUndo, Undo
  <2> QED
    BY <1>s, <1>z, <2>1 DEF FinalInUse
<1>4. CASE MountInstallClean \/ MountUpdateClean
  <2>1. phase = "clean" /\ UnmountZip(Final)
    BY <1>4, NoisyAfter DEF MountInstallClean, MountUpdateClean, Clean, UnmountFinal
  <2> QED
    BY <1>m, <1>s, <1>z, <2>1
<1>5. CASE Begin \/ Exit \/ Crash
  <2>1. phase \notin {"process", "undo", "clean"}
    BY <1>5, NoisyAfter DEF Begin, BeginRun, Exit, Crash
  <2> QED
    BY <1>s, <1>z, <2>1 DEF FinalInUse
<1>6. CASE ~MountInstallZip /\ ~MountUpdateZip /\ ~MountInstallUndo /\ ~MountUpdateUndo
           /\ ~MountInstallClean /\ ~MountUpdateClean /\ ~Begin /\ ~Exit /\ ~Crash
  <2> SUFFICES ASSUME FinalInUse
               PROVE  FinalInUse'
    BY <1>6, <1>s
  <2>1. ctx.asked /\ ctx'.asked /\ req # "Uninstall" /\ (phase = "process" => it > 1) /\ NumSteps = 3
    BY <1>6, <1>a, <1>n DEF FinalInUse
  <2>2. CASE phase = "process"
    <3>1. \/ StepOk(NumSteps) \/ StepFails \/ StepCleaned(NumSteps) \/ StepCleanFails
          \/ \E ok \in BOOLEAN : StepUndone(ok)
          \/ UNCHANGED runnerVars
      BY <1>6, LoopMoves
    <3>2. phase' = "process" \/ (phase' = "undo" /\ it' = it) \/ (phase' = "clean" /\ it' = 1)
      BY <2>2, <3>1 DEF StepOk, StepFails, StepCleaned, StepCleanFails, StepUndone, runnerVars
    <3> QED
      BY <1>t, <2>1, <2>2, <3>2 DEF FinalInUse
  <2>3. CASE phase = "undo" /\ it > 1
    <3>0. ~MountUnpackedUndo /\ ~UnregisterUndo
      <4>1. ~Undo("MountUnpacked") /\ ~Undo("Unregister")
        BY <1>t, <2>1, <2>3, Located
      <4> QED
        BY <4>1 DEF MountUnpackedUndo, UnregisterUndo
    <3>1. (RegisterUndo /\ it = 3) \/ DevicedStep
      BY <1>6, <2>1, <2>3, <3>0, Located
      DEF Next, MountUnpacked, MountUnpackedZip, MountInstallUnmount,
          MountInstallCopy, MountUpdateUnmount, MountUpdateBackup, MountUpdateCopy, Register,
          RegisterUndo, Unregister, RemoveZipImage, CleanNothing, UnmountTmp,
          Ask, Poll, Process, Clean
    <3>2. phase' = "undo" /\ it' > 1
      BY <2>3, <3>1 DEF RegisterUndo, Undone, StepUndone, DevicedStep, runnerVars
    <3> QED
      BY <2>1, <3>2 DEF FinalInUse
  <2>4. CASE phase = "clean" /\ it < 3
    <3>1. (it = 1 /\ Cleaned) \/ DevicedStep
      BY <1>6, <1>t, <2>1, <2>4, Located
      DEF Next, MountUnpacked, MountUnpackedZip, MountUnpackedUndo, MountInstallUnmount,
          MountInstallCopy, MountUpdateUnmount, MountUpdateBackup, MountUpdateCopy, Register,
          RegisterUndo, Unregister, UnregisterUndo, RemoveZipImage, CleanNothing, UnmountTmp,
          Ask, Poll, Process, Undo
    <3>2. phase' = "clean" /\ it' < 3
      BY <2>1, <2>4, <3>1 DEF Cleaned, StepCleaned, DevicedStep, runnerVars
    <3> QED
      BY <2>1, <3>2 DEF FinalInUse
  <2> QED
    BY <2>2, <2>3, <2>4 DEF FinalInUse
<1> QED
  BY <1>1, <1>2, <1>3, <1>4, <1>5, <1>6

LEMMA ClearInvStep == TypeInv /\ ClearInv /\ [Next]_vars => ClearInv'
<1> SUFFICES ASSUME TypeInv, ClearInv, [Next]_vars
             PROVE  ClearInv'
  OBVIOUS
<1>u. CASE UNCHANGED vars
  BY <1>u DEF ClearInv, Quiet, Clear, Mounted, TmpInUse, FinalInUse, vars, tzipVars, runnerVars
<1>n. CASE Next
  <2>1. ASSUME ctx'.asked
        PROVE  req' # "Uninstall" /\ (phase' = "process" => it' > 1)
    <3>i. it \in 1..3 /\ it' \in 1..3
      BY <1>n, NextPlace
    <3>1. CASE MountInstallZip \/ MountUpdateZip
      <4>1. it = 2 /\ req # "Uninstall" /\ req' = req /\ (Ok \/ Fails \/ UNCHANGED runnerVars)
        BY <3>1, Located DEF MountInstallZip, MountUpdateZip, Ask, Poll, Disk, Keep
      <4>2. phase' = "process" => it' \in {it, it + 1}
        BY <4>1 DEF Ok, Fails, StepOk, StepFails, runnerVars
      <4> QED
        BY <3>i, <4>1, <4>2
    <3>2. CASE ctx.asked /\ ~Begin /\ ~Exit /\ ~Crash
      <4>1. /\ req' = req
            /\ \/ StepOk(NumSteps) \/ StepFails \/ StepCleaned(NumSteps) \/ StepCleanFails
               \/ \E ok \in BOOLEAN : StepUndone(ok)
               \/ UNCHANGED runnerVars
        BY <1>n, <3>2, LoopMoves
      <4>2. phase' = "process" => phase = "process" /\ it' \in {it, it + 1}
        BY <4>1 DEF StepOk, StepFails, StepCleaned, StepCleanFails, StepUndone, runnerVars
      <4> QED
        BY <3>i, <3>2, <4>1, <4>2 DEF ClearInv
    <3> QED
      BY <1>n, <2>1, <3>1, <3>2, AskedMoves
  <2>2. ASSUME Quiet', NEW p \in Points
        PROVE  \/ Clear(p)'
               \/ p = Tmp(made)' /\ TmpInUse'
               \/ p = Final /\ (stuck' \/ FinalInUse')
    <3>1. \/ Clear(p)
          \/ p = Tmp(made) /\ TmpInUse
          \/ p = Final /\ (stuck \/ FinalInUse)
      BY <1>n, <2>2, QuietBefore DEF ClearInv
    <3>2. made' = made \/ ~TmpInUse
      BY <1>n DEF Next, Begin, BeginRun, Exit, Crash, DevicedStep, MountUnpacked, MountUnpackedZip,
         MountUnpackedUndo, MountInstallUnmount, MountInstallCopy, MountInstallZip,
         MountInstallUndo, MountInstallClean, MountUpdateUnmount, MountUpdateBackup,
         MountUpdateCopy, MountUpdateZip, MountUpdateUndo, MountUpdateClean, Register,
         RegisterUndo, Unregister, UnregisterUndo, RemoveZipImage, CleanNothing, Ask, Poll,
         UnmountTmp, ProcessGone, Disk, Keep, TmpInUse
    <3>3. MountUnpackedZip => made' = made
      BY DEF MountUnpackedZip, Ask, Poll, Disk, Keep
    <3>4. CASE Clear(p)
      BY <1>n, <2>2, <3>3, <3>4, ClearKept, TmpGivenUp, FinalGivenUp DEF Tmp
    <3>5. CASE p = Tmp(made) /\ TmpInUse
      BY <1>n, <2>2, <3>2, <3>5, TmpGivenUp DEF Tmp
    <3>6. CASE p = Final /\ (stuck \/ FinalInUse)
      BY <1>n, <2>2, <3>6, FinalGivenUp
    <3> QED
      BY <3>1, <3>4, <3>5, <3>6
  <2> QED
    BY <2>1, <2>2 DEF ClearInv
<1> QED
  BY <1>u, <1>n

\* When deviced has handled all messages nothing is mounted between two requests,
\* unless a message was not sent or lost, a request died, or an update that had
\* asked for its mount was rolled back.
THEOREM NothingStaysMountedHolds == Spec => []NothingStaysMounted
<1>1. Init => ClearInv
  BY DEF Init, ClearInv, Fresh, Clear, Mounted
<1>2. ClearInv => NothingStaysMounted
  <2> SUFFICES ASSUME ClearInv, phase = "idle", queue = << >>, ~stuck, Quiet, NEW p \in Points
               PROVE  ~Mounted(p)
    BY DEF NothingStaysMounted, Quiet
  <2>1. Clear(p)
    BY DEF ClearInv, TmpInUse, FinalInUse
  <2> QED
    BY <2>1 DEF Clear
<1> QED
  BY <1>1, <1>2, TypeInvInit, TypeInvStep, ClearInvStep, PTL DEF Spec

===============================================================================
