------------------------- MODULE InstalledPackageProofs -------------------------
(***************************************************************************)
(* What an installed package, its applications, its part on the memory     *)
(* card and its TEP file keep, for any number of requests and failures.    *)
(***************************************************************************)
EXTENDS InstalledPackage, TLAPS

Kinds == {"Install", "Update", "Move", "Clear", "Uninstall"}
Marks == 0..MaxRequests \cup {Torn}
TepPlaces == TepFiles \cup {None}
Rows == [v : 0..MaxRequests, tep : TepPlaces, enabled : BOOLEAN]

-------------------------------------------------------------------------------
(* The types *)

LoopType ==
  /\ phase \in Phases /\ ret \in Results
  /\ req \in Kinds /\ it \in 1..NumSteps
CardType ==
  /\ card \in [at : Places, session : Sessions, mounted : BOOLEAN]
  /\ budget \in 0..FaultBudget
DevType ==
  dev \in [row : Rows, files : Marks, bck : Marks, xml : BOOLEAN, xmlBck : BOOLEAN,
           icons : BOOLEAN, data : BOOLEAN, teps : SUBSET TepFiles, torn : SUBSET TepNames,
           sec : [AllApps -> Contexts], running : SUBSET AllApps]
CtxType ==
  /\ ctx \in [ext : BOOLEAN, mount : BOOLEAN, tep : TepPlaces, move : BOOLEAN, new : TepPlaces,
              old : Rows, toCard : BOOLEAN, auto : BOOLEAN, author : BOOLEAN]
  /\ made \in 0..MaxRequests /\ (phase # "idle" => made # 0)
TypeInv == LoopType /\ CardType /\ DevType /\ CtxType

-------------------------------------------------------------------------------
(* The invariants *)

\* A request that is under way has got to one of the steps a..b of its list.
Processes(kind, a, b) == phase = "process" /\ req = kind /\ it \in a..b
Undoes(kind, a, b) == phase = "undo" /\ req = kind /\ it \in a..b
Cleans(kind, a, b) == phase = "clean" /\ req = kind /\ it \in a..b

\* The package is disabled, and its applications are killed after that.
Off == Processes("Update", 2, 6) \/ Processes("Move", 3, 4) \/ Processes("Uninstall", 6, 11)
Stopped == Processes("Update", 3, 6) \/ Processes("Move", 4, 4) \/ Processes("Uninstall", 7, 11)

AppsInv ==
  /\ Off => ~dev.row.enabled
  /\ Stopped /\ "kill" \notin faults => dev.running \cap Members(Apps(ctx.old.v)) = {}

\* Whether the package of the request is in the database: an installation finds
\* none, every other request finds one and keeps it until it is unregistered.
Handled == phase \in {"process", "undo", "clean"}
HasRow ==
  \/ Handled /\ req \in {"Update", "Move", "Clear"}
  \/ Processes("Uninstall", 1, 9)
  \/ Processes("Install", 8, 8) \/ Cleans("Install", 1, 8)

RowInv ==
  /\ Handled => (req = "Install" <=> ctx.old.v = 0)
  /\ HasRow => dev.row.v # 0
  /\ Processes("Install", 1, 7) => dev.row.v = 0
  /\ dev.row.v = 0 => dev.row = NoRow

\* Between these steps the session with app2ext that the request opened is open.
Session ==
  \/ Processes("Install", 4, 8) \/ Undoes("Install", 4, 8) \/ Cleans("Install", 1, 4)
  \/ Processes("Update", 4, 8) \/ Undoes("Update", 4, 8) \/ Cleans("Update", 1, 4)
  \/ Processes("Move", 5, 5) \/ Undoes("Move", 4, 5) \/ Cleans("Move", 1, 4)
  \/ Processes("Uninstall", 9, 11)
NoSessionYet ==
  \/ Processes("Install", 1, 3) \/ Processes("Update", 1, 3) \/ Processes("Move", 1, 4)
  \/ Processes("Uninstall", 1, 8) \/ phase = "idle"

SessionInv ==
  /\ NoSessionYet => ~ctx.ext
  /\ Session /\ ctx.ext => card.session = req

\* A package on the card is in the database, unless it comes or goes just now.
Opened == Processes("Install", 4, 8) \/ Undoes("Install", 4, 8) \/ Processes("Update", 4, 8)

PlaceInv ==
  "cardForgotten" \notin past =>
    /\ card.at = "card" => \/ dev.row.v # 0
                           \/ Processes("Install", 4, 8) \/ Undoes("Install", 4, 8)
                           \/ Processes("Uninstall", 10, 11)
    /\ Opened => (card.at = "card" <=> ctx.ext)

CardCalm ==
  /\ faults \cap {"clean", "umount", "moveBack"} = {}
  /\ past \cap {"cardForgotten", "inTheWay"} = {}

CardInv ==
  CardCalm =>
    /\ ~(Session /\ ctx.ext) => card.session = "none"
    /\ phase = "idle" => ~card.mounted

\* The files of the package are those of its version; the backup holds those of
\* the version an update found.
FilesCalm == faults \cap {"remove", "clean", "iconDir", "unregister", "registerAgain"} = {}

Whole(v) == dev.row.v = v /\ dev.files = v /\ dev.xml /\ dev.bck = 0
Gone == dev.row.v = 0 /\ dev.files = 0 /\ ~dev.xml /\ dev.bck = 0 /\ ~dev.icons /\ ~dev.data

InstallFiles ==
  /\ dev.bck = 0
  /\ Processes("Install", 1, 7) => dev.row.v = 0 /\ ~dev.data
  /\ Processes("Install", 8, 8) => dev.row.v = made
  /\ Undoes("Install", 1, 6) => dev.row.v = 0
  /\ Processes("Install", 1, 4) => dev.files = 0
  /\ Undoes("Install", 1, 3) => dev.files = 0 /\ ~dev.data
  /\ Processes("Install", 5, 8) => dev.files = made
  /\ Processes("Install", 1, 6) \/ Undoes("Install", 1, 5) => ~dev.xml /\ ~dev.icons
  /\ Processes("Install", 7, 8) => dev.xml
UpdateFiles ==
  /\ dev.xml
  /\ Processes("Update", 1, 6) \/ Undoes("Update", 1, 5) => dev.row.v = ctx.old.v
  /\ Processes("Update", 7, 8) => dev.row.v = made
  /\ Processes("Update", 1, 4) \/ Undoes("Update", 1, 3) => dev.files = ctx.old.v /\ dev.bck = 0
  /\ Processes("Update", 5, 8) => dev.files = made /\ dev.bck = ctx.old.v
  /\ Undoes("Update", 4, 8) => IF dev.bck = 0 THEN dev.files = ctx.old.v ELSE dev.bck = ctx.old.v
UninstallFiles ==
  /\ Processes("Uninstall", 1, 9) => Whole(ctx.old.v)
  /\ phase = "undo" => it <= 8 /\ Whole(ctx.old.v)
  /\ Processes("Uninstall", 10, 14) => dev.row.v = 0 /\ ~dev.xml /\ dev.bck = 0
  /\ Processes("Uninstall", 12, 14) => dev.files = 0 /\ ~dev.data
  /\ Processes("Uninstall", 14, 14) => ~dev.icons

FilesInv ==
  FilesCalm =>
    /\ phase \in {"idle", "end"} => IF Installed THEN Whole(dev.row.v) ELSE Gone
    /\ phase \in {"process", "undo"} =>
         /\ req = "Install" => InstallFiles
         /\ req = "Update" => UpdateFiles
         /\ req \in {"Move", "Clear"} => Whole(ctx.old.v)
         /\ req = "Uninstall" => UninstallFiles
    /\ phase = "clean" =>
         /\ req = "Install" => Whole(made)
         /\ req = "Update" => dev.row.v = made /\ dev.files = made /\ dev.xml /\ (it > 4 => dev.bck = 0)
         /\ req \in {"Move", "Clear"} => Whole(ctx.old.v)
         /\ req = "Uninstall" => Gone

\* The package is enabled again when the request has ended.
EnabledCalm == FilesCalm /\ "enable" \notin faults

\* The places where the package of a request may be disabled.
Disabled ==
  \/ Processes("Update", 1, 8) \/ Undoes("Update", 1, 8)
  \/ Processes("Move", 3, 5) \/ Undoes("Move", 2, 5)
  \/ Processes("Uninstall", 6, 14) \/ Undoes("Uninstall", 5, 14)

EnabledInv == EnabledCalm => dev.row.enabled \/ dev.row.v = 0 \/ Disabled

\* Every application of the package, and no other, has its context.
SecCalm == FilesCalm /\ "security" \notin faults
SecOf(sec, marks, v) ==
  \A a \in AllApps :
    IF v # 0 /\ a \in Members(Apps(v)) THEN sec[a] = "authored"
    ELSE "appsChanged" \in marks \/ sec[a] = "none"
SecIs(v) == SecOf(dev.sec, past, v)

SecAuthor ==
  Handled =>
    /\ req \in {"Install", "Update"} => ctx.author
    /\ req = "Update" => Apps(made) = Apps(ctx.old.v) \/ "appsChanged" \in past
SecPlaces ==
  /\ phase \in {"idle", "end"} => SecIs(dev.row.v)
  /\ phase \in {"process", "undo"} => SecIs(ctx.old.v)
  /\ Processes("Update", 8, 8) => SecIs(made)
  /\ phase = "clean" /\ req \in {"Install", "Update"} => SecIs(made)
  /\ phase = "clean" /\ req \in {"Move", "Clear", "Uninstall"} => SecIs(ctx.old.v)

SecInv == SecAuthor /\ (SecCalm => SecPlaces)

\* The TEP file: where the request has put the old one and the new one.
TepCalm ==
  /\ faults \cap {"tep", "clean", "remove", "iconDir", "unregister", "registerAgain"} = {}
  /\ past \cap {"oldTepRemoved", "moveUndone", "cardForgotten"} = {}

Only(t) == {t} \ {None}
Kept(t) == OnDevice = Only(t) /\ (t # None => t.at = card.at)
Storage == IF ctx.ext THEN "card" ELSE "phone"
Stored(t) == t # None => t.at = Storage
Supplied == ctx.tep # None /\ ~ctx.move => Tep("store", ctx.tep.name) \in dev.teps

InstallTep ==
  /\ Processes("Install", 1, 5) => OnDevice = {} /\ (ctx.tep # None => ctx.tep.at = "store")
  /\ Undoes("Install", 1, 4) => OnDevice = {}
  /\ Processes("Install", 6, 8) \/ Undoes("Install", 5, 8) => OnDevice = Only(ctx.tep) /\ Stored(ctx.tep)
  /\ Processes("Install", 8, 8) => dev.row.tep = ctx.tep
  /\ phase = "clean" => Kept(dev.row.tep)

\* While an update is under way the old TEP file is on the card or in the backup.
OldTep == IF ctx.old.tep = None \/ ctx.ext THEN Only(ctx.old.tep) ELSE {Tep("bck", ctx.old.tep.name)}
NewTep == IF ctx.tep = None THEN ctx.old.tep ELSE ctx.tep

UpdateTeps ==
  /\ Processes("Update", 1, 6) \/ Undoes("Update", 1, 5) => dev.row.tep = ctx.old.tep
  /\ Processes("Update", 7, 8) => dev.row.tep = ctx.new
  /\ Processes("Update", 1, 4) \/ Undoes("Update", 1, 3) => Kept(ctx.old.tep)
  /\ Processes("Update", 1, 5) => (ctx.tep # None => ctx.tep.at = "store")
  /\ Processes("Update", 4, 8) \/ Undoes("Update", 4, 8) => Stored(ctx.old.tep) /\ card.at = Storage
  /\ Processes("Update", 5, 8) => dev.bck # 0
  /\ Processes("Update", 5, 5) => OnDevice = OldTep
  /\ Processes("Update", 6, 8) => OnDevice = OldTep \cup Only(ctx.new) /\ ctx.new = NewTep /\ Stored(ctx.new)
  /\ Undoes("Update", 5, 8) =>
       /\ dev.bck # 0
       /\ OnDevice \in {OldTep, OldTep \cup Only(NewTep)}
       /\ ctx.tep # None => ctx.tep.at = Storage \/ (ctx.tep.at = "store" /\ ctx.move /\ OnDevice = OldTep)
  /\ Undoes("Update", 4, 4) =>
       IF dev.bck = 0 \/ ctx.ext THEN OnDevice = Only(ctx.old.tep)
       ELSE OldTep \subseteq OnDevice /\ \A f \in OnDevice \ OldTep : f.at = "phone"
  /\ phase = "clean" =>
       /\ dev.row.tep = ctx.new /\ Stored(ctx.new) /\ Stored(ctx.old.tep) /\ card.at = Storage
       /\ it <= 4 => OnDevice = OldTep \cup Only(ctx.new)
       /\ it = 5 => OnDevice = (OldTep \ InBackup(OldTep)) \cup Only(ctx.new)
       /\ it > 5 => OnDevice = Only(ctx.new)

MoveTeps ==
  /\ Processes("Move", 1, 4) => dev.row.tep = ctx.old.tep /\ Kept(ctx.old.tep)
  /\ Processes("Move", 5, 5) => ctx.ext /\ Kept(dev.row.tep)
  /\ Undoes("Move", 1, 3) => dev.row.tep = ctx.old.tep /\ Kept(ctx.old.tep)
  /\ Undoes("Move", 4, 5) /\ ~ctx.ext => dev.row.tep = ctx.old.tep /\ Kept(ctx.old.tep)
  /\ phase = "clean" => Kept(dev.row.tep)

UninstallTep ==
  /\ Processes("Uninstall", 1, 9) \/ phase = "undo" => dev.row.tep = ctx.old.tep /\ Kept(ctx.old.tep)
  /\ Processes("Uninstall", 10, 12) => OnDevice \subseteq Only(ctx.old.tep)
  /\ Processes("Uninstall", 13, 14) \/ phase = "clean" => OnDevice = {}

TepAsked ==
  /\ phase = "idle" => ctx.tep = None
  /\ phase # "idle" /\ req \notin {"Install", "Update"} => ctx.tep = None
TepWhere ==
  /\ dev.torn = {} /\ Supplied
  /\ phase \in {"idle", "end"} => Kept(dev.row.tep)
  /\ Handled =>
       /\ req = "Install" => InstallTep
       /\ req = "Update" => UpdateTeps
       /\ req = "Move" => MoveTeps
       /\ req = "Clear" => Kept(dev.row.tep)
       /\ req = "Uninstall" => UninstallTep

TepInv == TepAsked /\ (TepCalm => TepWhere)

-------------------------------------------------------------------------------
(* The step lists *)

Length(kind) ==
  CASE kind = "Move" -> 5 [] kind = "Clear" -> 3 [] kind = "Uninstall" -> 14 [] OTHER -> 8

LEMMA ListLengths == \A kind \in Kinds : Len(Pipeline[kind]) = Length(kind)
<1>1. /\ Len(Pipeline["Install"]) = 8 /\ Len(Pipeline["Update"]) = 8
      /\ Len(Pipeline["Move"]) = 5 /\ Len(Pipeline["Clear"]) = 3
      /\ Len(Pipeline["Uninstall"]) = 14
  BY DEF Pipeline
<1> QED
  BY <1>1 DEF Kinds, Length

\* Which step it is at each place of each list.
LEMMA StepLists ==
  ASSUME LoopType
  PROVE  /\ NumSteps = Length(req) /\ it \in 1..Length(req)
         /\ req = "Install" =>
              /\ it = 1 => Step = "CheckRestriction"
              /\ it = 2 => Step = "RollbackInstallationSecurity"
              /\ it = 3 => Step = "AcquireExternalStorage"
              /\ it = 4 => Step = "Copy"
              /\ it = 5 => Step = "CopyTep"
              /\ it = 6 => Step = "CreateManifest"
              /\ it = 7 => Step = "Register"
              /\ it = 8 => Step = "RegisterSecurity"
         /\ req = "Update" =>
              /\ it = 1 => Step = "Disable"
              /\ it = 2 => Step = "KillApps"
              /\ it = 3 => Step = "AcquireExternalStorage"
              /\ it = 4 => Step = "CopyBackup"
              /\ it = 5 => Step = "UpdateTep"
              /\ it = 6 => Step = "UpdateApp"
              /\ it = 7 => Step = "UpdateSecurity"
              /\ it = 8 => Step = "Enable"
         /\ req = "Move" =>
              /\ it = 1 => Step = "CheckRestriction"
              /\ it = 2 => Step = "Disable"
              /\ it = 3 => Step = "KillApps"
              /\ it = 4 => Step = "MoveInstalledStorage"
              /\ it = 5 => Step = "Enable"
         /\ req = "Clear" =>
              /\ it = 1 => Step = "EnableMount"
              /\ it = 2 => Step = "ClearData"
              /\ it = 3 => Step = "DisableMount"
         /\ req = "Uninstall" =>
              /\ it = 1 => Step = "CheckRemovable"
              /\ it = 2 => Step = "CheckRestriction"
              /\ it = 3 => Step = "EnableMount"
              /\ it = 4 => Step = "DisableMount"
              /\ it = 5 => Step = "Disable"
              /\ it = 6 => Step = "KillApps"
              /\ it = 7 => Step = "BackupManifest"
              /\ it = 8 => Step = "AcquireExternalStorage"
              /\ it = 9 => Step = "Unregister"
              /\ it = 10 => Step = "RollbackDeinstallationSecurity"
              /\ it = 11 => Step = "RemoveFiles"
              /\ it = 12 => Step = "RemoveTep"
              /\ it = 13 => Step = "RemoveIcons"
              /\ it = 14 => Step = "RevokeSecurity"
<1>1. /\ NumSteps = Length(req)
      /\ it \in 1..Length(req)
  BY ListLengths DEF LoopType, NumSteps
<1>2. Pipeline["Install"] =
        <<"CheckRestriction", "RollbackInstallationSecurity", "AcquireExternalStorage", "Copy",
          "CopyTep", "CreateManifest", "Register", "RegisterSecurity">>
  BY DEF Pipeline
<1>3. Pipeline["Update"] =
        <<"Disable", "KillApps", "AcquireExternalStorage", "CopyBackup",
          "UpdateTep", "UpdateApp", "UpdateSecurity", "Enable">>
  BY DEF Pipeline
<1>4. Pipeline["Move"] =
        <<"CheckRestriction", "Disable", "KillApps", "MoveInstalledStorage",
          "Enable">>
  BY DEF Pipeline
<1>5. Pipeline["Clear"] =
        <<"EnableMount", "ClearData", "DisableMount">>
  BY DEF Pipeline
<1>6. Pipeline["Uninstall"] =
        <<"CheckRemovable", "CheckRestriction", "EnableMount", "DisableMount",
          "Disable", "KillApps", "BackupManifest", "AcquireExternalStorage",
          "Unregister", "RollbackDeinstallationSecurity", "RemoveFiles", "RemoveTep",
          "RemoveIcons", "RevokeSecurity">>
  BY DEF Pipeline
<1> QED
  BY <1>1, <1>2, <1>3, <1>4, <1>5, <1>6 DEF Step

\* The places of each step.
At(kind, n) == req = kind /\ it = n

LEMMA Located ==
  ASSUME LoopType
  PROVE  /\ req \in Kinds /\ it \in 1..Length(req)
         /\ Step = "CheckRestriction" => At("Install", 1) \/ At("Move", 1) \/ At("Uninstall", 2)
         /\ Step = "RollbackInstallationSecurity" => At("Install", 2)
         /\ Step = "AcquireExternalStorage" => At("Install", 3) \/ At("Update", 3) \/ At("Uninstall", 8)
         /\ Step = "Copy" => At("Install", 4)
         /\ Step = "CopyTep" => At("Install", 5)
         /\ Step = "CreateManifest" => At("Install", 6)
         /\ Step = "Register" => At("Install", 7)
         /\ Step = "RegisterSecurity" => At("Install", 8)
         /\ Step = "Disable" => At("Update", 1) \/ At("Move", 2) \/ At("Uninstall", 5)
         /\ Step = "KillApps" => At("Update", 2) \/ At("Move", 3) \/ At("Uninstall", 6)
         /\ Step = "CopyBackup" => At("Update", 4)
         /\ Step = "UpdateTep" => At("Update", 5)
         /\ Step = "UpdateApp" => At("Update", 6)
         /\ Step = "UpdateSecurity" => At("Update", 7)
         /\ Step = "Enable" => At("Update", 8) \/ At("Move", 5)
         /\ Step = "MoveInstalledStorage" => At("Move", 4)
         /\ Step = "EnableMount" => At("Clear", 1) \/ At("Uninstall", 3)
         /\ Step = "ClearData" => At("Clear", 2)
         /\ Step = "DisableMount" => At("Clear", 3) \/ At("Uninstall", 4)
         /\ Step = "CheckRemovable" => At("Uninstall", 1)
         /\ Step = "BackupManifest" => At("Uninstall", 7)
         /\ Step = "Unregister" => At("Uninstall", 9)
         /\ Step = "RollbackDeinstallationSecurity" => At("Uninstall", 10)
         /\ Step = "RemoveFiles" => At("Uninstall", 11)
         /\ Step = "RemoveTep" => At("Uninstall", 12)
         /\ Step = "RemoveIcons" => At("Uninstall", 13)
         /\ Step = "RevokeSecurity" => At("Uninstall", 14)
<1>1. req \in Kinds /\ it \in 1..Length(req)
  BY StepLists DEF LoopType
<1>2. CASE req = "Install"
  <2>1. it \in 1..8
    BY <1>1, <1>2 DEF Length
  <2> QED
    BY <1>2, <2>1, StepLists DEF At, Kinds
<1>3. CASE req = "Update"
  <2>1. it \in 1..8
    BY <1>1, <1>3 DEF Length
  <2> QED
    BY <1>3, <2>1, StepLists DEF At, Kinds
<1>4. CASE req = "Move"
  <2>1. it \in 1..5
    BY <1>1, <1>4 DEF Length
  <2> QED
    BY <1>4, <2>1, StepLists DEF At, Kinds
<1>5. CASE req = "Clear"
  <2>1. it \in 1..3
    BY <1>1, <1>5 DEF Length
  <2> QED
    BY <1>5, <2>1, StepLists DEF At, Kinds
<1>6. CASE req = "Uninstall"
  <2>1. it \in 1..14
    BY <1>1, <1>6 DEF Length
  <2> QED
    BY <1>6, <2>1, StepLists DEF At, Kinds
<1> QED
  BY <1>1, <1>2, <1>3, <1>4, <1>5, <1>6 DEF Kinds

\* What the outcomes of a handler do to the place of a request.
LEMMA Outcomes ==
  ASSUME LoopType, UNCHANGED <<req, made>>
  PROVE  /\ StepOk(NumSteps) =>
              /\ phase = "process"
              /\ \/ phase' = "process" /\ it' = it + 1 /\ it < Length(req)
                 \/ phase' = "clean" /\ it' = 1 /\ it = Length(req)
         /\ StepFails => phase = "process" /\ phase' = "undo" /\ it' = it
         /\ \A ok \in BOOLEAN : StepUndone(ok) =>
              /\ phase = "undo"
              /\ \/ phase' = "undo" /\ it' = it - 1 /\ it > 1
                 \/ phase' = "end" /\ it' = it /\ it = 1
         /\ StepCleaned(NumSteps) =>
              /\ phase = "clean"
              /\ \/ phase' = "clean" /\ it' = it + 1 /\ it < Length(req)
                 \/ phase' = "end" /\ it' = it /\ it = Length(req)
         /\ StepCleanFails => phase = "clean" /\ phase' = "end" /\ it' = it
         /\ \/ StepOk(NumSteps) \/ StepFails \/ StepCleaned(NumSteps) \/ StepCleanFails
            \/ \E ok \in BOOLEAN : StepUndone(ok)
            => LoopType'
<1>1. /\ NumSteps = Length(req) /\ NumSteps' = NumSteps
      /\ it \in 1..NumSteps /\ Length(req) \in {3, 5, 8, 14}
  BY StepLists DEF LoopType, NumSteps, Length
<1> HIDE DEF Length
<1> QED
  BY <1>1
  DEF LoopType, Phases, Results, StepOk, StepFails, StepCleaned, StepCleanFails, StepUndone

\* The same for the outcomes as the handlers name them.
LEMMA Handlers ==
  ASSUME LoopType
  PROVE  /\ Ok => /\ phase = "process" /\ UNCHANGED <<req, made, past>>
                  /\ \/ phase' = "process" /\ it' = it + 1 /\ it < Length(req)
                     \/ phase' = "clean" /\ it' = 1 /\ it = Length(req)
         /\ Fails => /\ phase = "process" /\ UNCHANGED <<req, made, past>>
                     /\ phase' = "undo" /\ it' = it
         /\ \A ok \in BOOLEAN : Undone(ok) =>
              /\ phase = "undo" /\ UNCHANGED <<req, made>>
              /\ \/ phase' = "undo" /\ it' = it - 1 /\ it > 1
                 \/ phase' = "end" /\ it' = it /\ it = 1
         /\ Cleaned => /\ phase = "clean" /\ UNCHANGED <<req, made, past>>
                       /\ \/ phase' = "clean" /\ it' = it + 1 /\ it < Length(req)
                          \/ phase' = "end" /\ it' = it /\ it = Length(req)
         /\ NotCleaned => /\ phase = "clean" /\ UNCHANGED <<req, made, past>>
                          /\ phase' = "end" /\ it' = it
<1>1. CASE UNCHANGED <<req, made>>
  BY <1>1, Outcomes DEF Ok, Fails, Undone, Cleaned, NotCleaned, Same
<1>2. CASE ~UNCHANGED <<req, made>>
  BY <1>2 DEF Ok, Fails, Undone, Cleaned, NotCleaned, Same
<1> QED
  BY <1>1, <1>2

Launches == \E a \in AllApps : Launch(a)

\* The kinds of steps, told by what they do to the loop.
LEMMA LoopMoves ==
  ASSUME Next
  PROVE  \/ Begin \/ Exit
         \/ Launches /\ UNCHANGED <<req, made, runnerVars>>
         \/ /\ UNCHANGED <<req, made>>
            /\ \/ StepOk(NumSteps) \/ StepFails \/ StepCleaned(NumSteps) \/ StepCleanFails
               \/ \E ok \in BOOLEAN : StepUndone(ok)
<1> USE DEF Ok, Fails, Undone, Cleaned, NotCleaned, Same
<1>1. CASE Nothing \/ \E a \in AllApps : Launch(a)
  BY <1>1 DEF Nothing, Launch, Launches
<1>2. CASE CheckRemovable \/ CheckRestriction \/ Disable \/ Enable \/ KillApps
  BY <1>2 DEF CheckRemovable, CheckRestriction, Disable, Enable, UpdatePkgDisableInfo, KillApps
<1>3. CASE \/ RegisterSecurity \/ RollbackInstallationSecurityUndo \/ UpdateSecurityUndo
           \/ RollbackDeinstallationSecurityUndo \/ RevokeSecurityClean
  BY <1>3
  DEF RegisterSecurity, RollbackInstallationSecurityUndo, UpdateSecurityUndo,
      RollbackDeinstallationSecurityUndo, RevokeSecurityClean
<1>4. CASE \/ AcquireExternalStorage \/ EnableExternalMount \/ EnableExternalMountUndo
           \/ DisableExternalMount
  BY <1>4
  DEF AcquireExternalStorage, EnableExternalMount, EnableExternalMountUndo, DisableExternalMount
<1>5. CASE \/ Copy \/ CopyUndo \/ CopyClean \/ CopyBackup \/ CopyBackupUndo \/ CopyBackupClean
           \/ RemoveFiles \/ RemoveIcons \/ ClearData \/ CreateManifest \/ CreateManifestUndo
           \/ BackupManifest \/ BackupManifestUndo \/ BackupManifestClean
  BY <1>5
  DEF Copy, CopyUndo, CopyClean, CopyBackup, CopyBackupUndo, CopyBackupClean, RemoveFiles,
      RemoveIcons, ClearData, CreateManifest, CreateManifestUndo, BackupManifest,
      BackupManifestUndo, BackupManifestClean
<1>6. CASE CopyTep \/ CopyTepUndo \/ UpdateTep \/ UpdateTepUndo \/ UpdateTepClean \/ RemoveTep
  BY <1>6
  DEF CopyTep, CopyTepFile, CopyTepUndo, UpdateTep, PreserveTep, UpdateTepUndo,
      UpdateTepClean, RemoveTep
<1>7. CASE \/ MoveInstalledStorage \/ MoveInstalledStorageRefused \/ MoveTep
           \/ MoveInstalledStorageUndo \/ MoveInstalledStorageClean
  BY <1>7
  DEF MoveInstalledStorage, MoveInstalledStorageRefused, MoveTep, MoveInstalledStorageUndo,
      MoveInstalledStorageClean
<1>8. CASE Register \/ RegisterUndo \/ UpdateApp \/ UpdateAppUndo \/ Unregister \/ UnregisterUndo
  BY <1>8 DEF Register, RegisterUndo, UpdateApp, UpdateAppUndo, Unregister, UnregisterUndo
<1>9. CASE Begin \/ Exit
  BY <1>9
<1> QED
  BY <1>1, <1>2, <1>3, <1>4, <1>5, <1>6, <1>7, <1>8, <1>9 DEF Next

\* The TEP files; the place of a file that does not exist is "none".
LEMMA TepFacts ==
  /\ \A f \in TepFiles : /\ f.at \in {"store", "phone", "bck", "card"} /\ f.name \in TepNames
                         /\ f = Tep(f.at, f.name) /\ f # None
  /\ \A at \in {"store", "phone", "bck", "card"}, name \in TepNames :
       Tep(at, name) \in TepFiles /\ Tep(at, name).at = at /\ Tep(at, name).name = name
  /\ None.at = "none" /\ None \in TepPlaces /\ TepFiles \subseteq TepPlaces
  /\ \A f \in TepPlaces : f # None => f \in TepFiles
  BY DEF TepFiles, Tep, TepNames, None, TepPlaces

\* How a request begins.
Asked(kind, toCard, auto, move, tep) ==
  /\ (kind = "Install") = (dev.row.v = 0)
  /\ kind \notin {"Install", "Update"} => tep = None
  /\ tep # None => tep.at = "store"
  /\ req' = kind
  /\ dev' = [dev EXCEPT !.teps = {f \in @ : f.at # "store"} \cup ({tep} \ {None})]
  /\ ctx' = [ext |-> FALSE, mount |-> FALSE, tep |-> tep, move |-> move, new |-> None,
             old |-> dev.row, toCard |-> toCard, auto |-> auto,
             author |-> kind \in {"Install", "Update"}]
  /\ past \subseteq past'
  /\ kind = "Update" => Apps(made') = Apps(dev.row.v) \/ "appsChanged" \in past'

LEMMA BeginsWith ==
  ASSUME Begin, made \in 0..MaxRequests
  PROVE  /\ phase = "idle" /\ phase' = "process" /\ it' = 1 /\ ret' = "OK"
         /\ made' \in 1..MaxRequests /\ UNCHANGED storageVars
         /\ \E kind \in Kinds, toCard, auto, move \in BOOLEAN, tep \in TepPlaces :
              Asked(kind, toCard, auto, move, tep)
<1>1. PICK kind \in {"Install", "Update", "Move", "Clear", "Uninstall"},
           toCard \in BOOLEAN, auto \in BOOLEAN, move \in BOOLEAN,
           tep \in {None} \cup {Tep("store", n) : n \in TepNames} :
        /\ (kind = "Install") = (dev.row.v = 0)
        /\ kind \notin {"Install", "Update"} => tep = None
        /\ tep = None => ~move
        /\ kind \in {"Update", "Clear"} => ~toCard /\ ~auto
        /\ req' = kind
        /\ dev' = [dev EXCEPT !.teps = {f \in @ : f.at # "store"} \cup ({tep} \ {None})]
        /\ ctx' = [Fresh EXCEPT !.old = dev.row, !.toCard = toCard, !.auto = auto,
                                !.move = move, !.tep = tep,
                                !.author = kind \in {"Install", "Update"}]
        /\ past' = past \cup
             (IF kind = "Update" /\ Apps(made + 1) # Apps(dev.row.v) THEN {"appsChanged"} ELSE {})
  BY Zenon DEF Begin
<1>2. tep \in TepPlaces /\ (tep # None => tep.at = "store")
  BY <1>1, TepFacts
<1>3. made' = made + 1 /\ made' \in 1..MaxRequests /\ UNCHANGED storageVars
  BY RequestAssumption DEF Begin, KeepCard, NoFault, storageVars
<1>4. ctx' = [ext |-> FALSE, mount |-> FALSE, tep |-> tep, move |-> move, new |-> None,
              old |-> dev.row, toCard |-> toCard, auto |-> auto,
              author |-> kind \in {"Install", "Update"}]
  BY <1>1 DEF Fresh
<1>5. kind = "Update" => Apps(made') = Apps(dev.row.v) \/ "appsChanged" \in past'
  BY <1>1, <1>3
<1>6. Asked(kind, toCard, auto, move, tep)
  BY <1>1, <1>2, <1>4, <1>5 DEF Asked
<1>7. kind \in Kinds
  BY <1>1 DEF Kinds
<1> QED
  BY <1>2, <1>3, <1>6, <1>7 DEF Begin, BeginRun

LEMMA ExitsWith ==
  ASSUME Exit
  PROVE  /\ phase = "end" /\ phase' = "idle" /\ it' = 1 /\ UNCHANGED <<ret, req, made, dev, past>>
         /\ UNCHANGED <<faults, budget>> /\ ctx' = Fresh
         /\ \/ card' = [card EXCEPT !.mounted = FALSE]
            \/ "umount" \in faults /\ card' = card
  BY DEF Exit, NoFault, Umount, KeepDev, KeepPast, KeepCard

LEMMA LoopTypeStep ==
  ASSUME TypeInv, Next
  PROVE  LoopType' /\ made' \in 0..MaxRequests /\ (phase' # "idle" => made' # 0)
<1> USE RequestAssumption
<1>t. /\ LoopType /\ made \in 0..MaxRequests /\ (phase # "idle" => made # 0)
  BY DEF TypeInv, CtxType
<1>1. CASE Begin
  <2>1. req' \in Kinds /\ NumSteps' = Length(req') /\ NumSteps' \in {3, 5, 8, 14}
    BY <1>1, <1>t, BeginsWith, ListLengths DEF Asked, NumSteps, Length
  <2> QED
    BY <1>1, <1>t, <2>1, BeginsWith DEF LoopType, Phases, Results
<1>2. CASE Exit
  <2>1. NumSteps' = NumSteps /\ NumSteps \in {3, 5, 8, 14}
    BY <1>2, <1>t, ExitsWith, StepLists DEF NumSteps, Length
  <2> QED
    BY <1>2, <1>t, <2>1, ExitsWith DEF LoopType, Phases
<1>3. CASE UNCHANGED <<req, made, runnerVars>>
  BY <1>3, <1>t DEF LoopType, runnerVars, NumSteps
<1>4. CASE /\ UNCHANGED <<req, made>>
           /\ \/ StepOk(NumSteps) \/ StepFails \/ StepCleaned(NumSteps) \/ StepCleanFails
              \/ \E ok \in BOOLEAN : StepUndone(ok)
  <2>1. LoopType' /\ phase # "idle"
    BY <1>4, <1>t, Outcomes DEF StepOk, StepFails, StepCleaned, StepCleanFails, StepUndone
  <2> QED
    BY <1>4, <1>t, <2>1
<1> QED
  BY <1>1, <1>2, <1>3, <1>4, LoopMoves

-------------------------------------------------------------------------------
(* The types are kept *)

LEMMA FaultMoves ==
  ASSUME Next
  PROVE  /\ faults \subseteq faults'
         /\ budget' = budget \/ (budget > 0 /\ budget' = budget - 1)
<1> USE DEF NoFault, Fault
<1>1. CASE Nothing \/ (\E a \in AllApps : Launch(a)) \/ Begin \/ Exit
  BY <1>1 DEF Nothing, Launch, Begin, Exit, storageVars
<1>2. CASE CheckRemovable \/ CheckRestriction \/ Disable \/ Enable \/ KillApps
  BY <1>2 DEF CheckRemovable, CheckRestriction, Disable, Enable, UpdatePkgDisableInfo, KillApps
<1>3. CASE \/ RegisterSecurity \/ RollbackInstallationSecurityUndo \/ UpdateSecurityUndo
           \/ RollbackDeinstallationSecurityUndo \/ RevokeSecurityClean
  BY <1>3
  DEF RegisterSecurity, RollbackInstallationSecurityUndo, UpdateSecurityUndo,
      RollbackDeinstallationSecurityUndo, RevokeSecurityClean
<1>4. CASE \/ AcquireExternalStorage \/ EnableExternalMount \/ EnableExternalMountUndo
           \/ DisableExternalMount
  BY <1>4
  DEF AcquireExternalStorage, EnableExternalMount, EnableExternalMountUndo,
      DisableExternalMount, NotInitialized
<1>5. CASE \/ Copy \/ CopyUndo \/ CopyClean \/ CopyBackup \/ CopyBackupUndo \/ CopyBackupClean
           \/ RemoveFiles \/ RemoveIcons \/ ClearData \/ CreateManifest \/ CreateManifestUndo
           \/ BackupManifest \/ BackupManifestUndo \/ BackupManifestClean
  BY <1>5
  DEF Copy, CopyUndo, CopyClean, CopyBackup, CopyBackupUndo, CopyBackupClean, RemoveFiles,
      RemoveIcons, ClearData, CreateManifest, CreateManifestUndo, BackupManifest,
      BackupManifestUndo, BackupManifestClean
<1>6. CASE CopyTep \/ CopyTepUndo \/ UpdateTep \/ UpdateTepUndo \/ UpdateTepClean \/ RemoveTep
  BY <1>6
  DEF CopyTep, CopyTepFile, CopyTepUndo, UpdateTep, PreserveTep, UpdateTepUndo,
      UpdateTepClean, RemoveTep
<1>7. CASE \/ MoveInstalledStorage \/ MoveInstalledStorageRefused \/ MoveTep
           \/ MoveInstalledStorageUndo \/ MoveInstalledStorageClean
  BY <1>7
  DEF MoveInstalledStorage, MoveInstalledStorageRefused, MoveTep, MoveInstalledStorageUndo,
      MoveInstalledStorageClean, NotInitialized
<1>8. CASE Register \/ RegisterUndo \/ UpdateApp \/ UpdateAppUndo \/ Unregister \/ UnregisterUndo
  BY <1>8 DEF Register, RegisterUndo, UpdateApp, UpdateAppUndo, Unregister, UnregisterUndo
<1> QED
  BY <1>1, <1>2, <1>3, <1>4, <1>5, <1>6, <1>7, <1>8 DEF Next

\* The actions that have to do with the card.
CardActions ==
  \/ AcquireExternalStorage \/ EnableExternalMount \/ EnableExternalMountUndo
  \/ DisableExternalMount \/ CopyUndo \/ CopyClean \/ CopyBackupUndo \/ CopyBackupClean
  \/ RemoveFiles \/ MoveInstalledStorage \/ MoveInstalledStorageRefused \/ MoveTep
  \/ MoveInstalledStorageUndo \/ MoveInstalledStorageClean

LEMMA CardFrame ==
  ASSUME Next, ~CardActions, ~Exit
  PROVE  UNCHANGED card
  BY DEF Next, CardActions, Begin, Nothing, Launch, storageVars, CheckRemovable, CheckRestriction,
     Disable, Enable, UpdatePkgDisableInfo, KillApps, RegisterSecurity,
     RollbackInstallationSecurityUndo, UpdateSecurityUndo, RollbackDeinstallationSecurityUndo,
     RevokeSecurityClean, Copy, CopyBackup, RemoveIcons, ClearData, CreateManifest,
     CreateManifestUndo, BackupManifest, BackupManifestUndo, BackupManifestClean, CopyTep,
     CopyTepUndo, UpdateTep, UpdateTepUndo, UpdateTepClean, RemoveTep, Register, RegisterUndo,
     UpdateApp, UpdateAppUndo, Unregister, UnregisterUndo, KeepCard

LEMMA CardTypeStep ==
  ASSUME TypeInv, Next
  PROVE  CardType'
<1> USE DEF CardType
<1>t. card \in [at : Places, session : Sessions, mounted : BOOLEAN] /\ LoopType
      /\ budget \in 0..FaultBudget
  BY DEF TypeInv
<1>1. budget' \in 0..FaultBudget
  BY <1>t, FaultMoves, FaultBudgetAssumption
<1>2. CASE ~CardActions
  BY <1>1, <1>2, <1>t, CardFrame, ExitsWith
<1>3. CASE AcquireExternalStorage
  <2>1. req \in Sessions
    BY <1>3, <1>t, Located DEF AcquireExternalStorage, Process, At, Sessions
  <2> QED
    BY <1>1, <1>3, <1>t, <2>1
    DEF AcquireExternalStorage, Initialize, NotInitialized, KeepCard, Places
<1>4. CASE EnableExternalMount \/ EnableExternalMountUndo \/ DisableExternalMount
  BY <1>1, <1>4, <1>t
  DEF EnableExternalMount, EnableExternalMountUndo, DisableExternalMount, Mount, Umount, KeepCard
<1>5. CASE \/ CopyUndo \/ CopyClean \/ CopyBackupUndo \/ CopyBackupClean \/ RemoveFiles
           \/ MoveInstalledStorageUndo \/ MoveInstalledStorageClean
  <2>1. CommitCard \/ AbortCard \/ KeepCard
    BY <1>5
    DEF CopyUndo, CopyClean, CopyBackupUndo, CopyBackupClean, RemoveFiles,
        MoveInstalledStorageUndo, MoveInstalledStorageClean
  <2> QED
    BY <1>1, <1>t, <2>1
    DEF CommitCard, AbortCard, KeepCard, Commit, Abort, Finalize, Places, Sessions
<1>6. CASE MoveInstalledStorage \/ MoveInstalledStorageRefused \/ MoveTep
  BY <1>1, <1>6, <1>t
  DEF MoveInstalledStorage, MoveInstalledStorageRefused, MoveTep, Initialize, NotInitialized,
      KeepCard, Target, Places, Sessions
<1> QED
  BY <1>2, <1>3, <1>4, <1>5, <1>6 DEF CardActions

LEMMA TepTargets ==
  ASSUME TypeInv
  PROVE  /\ ctx.tep # None => TepTarget \in TepFiles /\ TepTarget # None
         /\ OldLocation \in TepPlaces /\ NewLocation \in TepPlaces
         /\ OldLocation # None => OldLocation \in TepFiles /\ NewLocation \in TepFiles
         /\ OldLocation = None => NewLocation = None
<1>1. ctx.tep \in TepPlaces /\ ctx.old.tep \in TepPlaces
  BY DEF TypeInv, CtxType, Rows
<1> QED
  BY <1>1, TepFacts DEF TepTarget, OldLocation, NewLocation, Target

LEMMA CtxFrame ==
  ASSUME Next,
         ~(Begin \/ Exit \/ CopyTep \/ UpdateTep \/ MoveInstalledStorage \/ MoveTep),
         ~(\/ AcquireExternalStorage \/ EnableExternalMount \/ EnableExternalMountUndo
           \/ DisableExternalMount)
  PROVE  ctx' = ctx
  BY DEF Next, Nothing, Launch, CheckRemovable, CheckRestriction, Disable, Enable,
      UpdatePkgDisableInfo, KillApps, RegisterSecurity, RollbackInstallationSecurityUndo,
      UpdateSecurityUndo, RollbackDeinstallationSecurityUndo, RevokeSecurityClean, Copy,
      CopyUndo, CopyClean, CopyBackup, CopyBackupUndo, CopyBackupClean, RemoveFiles,
      RemoveIcons, ClearData, CreateManifest, CreateManifestUndo, BackupManifest,
      BackupManifestUndo, BackupManifestClean, CopyTepUndo, UpdateTepUndo, UpdateTepClean,
      RemoveTep, MoveInstalledStorageRefused, MoveInstalledStorageUndo,
      MoveInstalledStorageClean, Register, RegisterUndo, UpdateApp, UpdateAppUndo, Unregister,
      UnregisterUndo, KeepCtx

LEMMA CtxTypeStep ==
  ASSUME TypeInv, Next
  PROVE  CtxType'
<1> USE DEF CtxType
<1>1. made' \in 0..MaxRequests /\ (phase' # "idle" => made' # 0)
  BY LoopTypeStep
<1> DEFINE Fields == [ext : BOOLEAN, mount : BOOLEAN, tep : TepPlaces, move : BOOLEAN,
                      new : TepPlaces, old : Rows, toCard : BOOLEAN, auto : BOOLEAN,
                      author : BOOLEAN]
<1>t. ctx \in Fields /\ dev.row \in Rows
  BY DEF TypeInv, DevType
<1> SUFFICES ctx' \in Fields
  BY <1>1
<1>2. CASE Begin
  <2>1. PICK kind \in Kinds, toCard \in BOOLEAN, auto \in BOOLEAN, move \in BOOLEAN,
             tep \in TepPlaces : Asked(kind, toCard, auto, move, tep)
    BY <1>2, BeginsWith DEF TypeInv
  <2> QED
    BY <2>1, <1>t, TepFacts DEF Asked
<1>3. CASE Exit
  <2>1. NoRow \in Rows
    BY RequestAssumption, TepFacts DEF NoRow, Rows
  <2>2. None \in TepPlaces
    BY TepFacts
  <2>3. ctx' = Fresh
    BY <1>3, ExitsWith
  <2> QED
    BY <2>1, <2>2, <2>3 DEF Fresh
<1>4. CASE CopyTep \/ UpdateTep
  <2>1. \/ ctx' = ctx
        \/ ctx.tep # None /\ ctx' = [ctx EXCEPT !.tep = TepTarget, !.new = TepTarget]
        \/ ctx' = [ctx EXCEPT !.new = ctx.old.tep]
    BY <1>4 DEF CopyTep, UpdateTep, CopyTepFile, PreserveTep, KeepCtx
  <2>2. ctx.old.tep \in TepPlaces /\ (ctx.tep # None => TepTarget \in TepPlaces)
    BY <1>t, TepTargets, TepFacts DEF Rows
  <2> QED
    BY <1>t, <2>1, <2>2
<1>5. CASE MoveInstalledStorage \/ MoveTep
  <2>1. ctx' = [ctx EXCEPT !.ext = TRUE, !.new = NewLocation]
    BY <1>5 DEF MoveInstalledStorage, MoveTep
  <2> QED
    BY <1>t, <2>1, TepTargets
<1>6. CASE \/ AcquireExternalStorage \/ EnableExternalMount \/ EnableExternalMountUndo
           \/ DisableExternalMount
  BY <1>6, <1>t
  DEF AcquireExternalStorage, EnableExternalMount, EnableExternalMountUndo,
      DisableExternalMount, KeepCtx
<1> QED
  BY <1>2, <1>3, <1>4, <1>5, <1>6, <1>t, CtxFrame

LEMMA TepSets ==
  ASSUME NEW teps \in SUBSET TepFiles
  PROVE  /\ OnPhone(teps) \subseteq teps /\ InBackup(teps) \subseteq teps
         /\ Renamed(OnPhone(teps), "bck") \subseteq TepFiles
         /\ Renamed(InBackup(teps), "phone") \subseteq TepFiles
  BY TepFacts DEF OnPhone, InBackup, Renamed

LEMMA SecTypes ==
  ASSUME NEW sec \in [AllApps -> Contexts], NEW apps, NEW author, NEW k
  PROVE  /\ RegisterForManifest(sec, apps, author, k) \in [AllApps -> Contexts]
         /\ UnregisterForManifest(sec, apps, k) \in [AllApps -> Contexts]
  BY DEF RegisterForManifest, UnregisterForManifest, RegisterSecurityContext,
     UnregisterSecurityContext, PrepareRequest, Contexts

LEMMA AppsFacts ==
  ASSUME NEW v
  PROVE  Apps(v) \in {<<"service", "ui">>, <<"ui">>} /\ Members(Apps(v)) \subseteq AllApps
  BY DEF Apps, Members, AllApps

\* The actions that change no more than the loop, the card and the context.
LEMMA DevFrame ==
  ASSUME Next,
         \/ Exit \/ Nothing \/ CheckRemovable \/ CheckRestriction \/ AcquireExternalStorage
         \/ EnableExternalMount \/ EnableExternalMountUndo \/ DisableExternalMount
         \/ CopyClean \/ MoveInstalledStorage \/ MoveInstalledStorageRefused
         \/ MoveInstalledStorageClean
  PROVE  dev' = dev
  BY DEF Exit, Nothing, CheckRemovable, CheckRestriction, AcquireExternalStorage,
     EnableExternalMount, EnableExternalMountUndo, DisableExternalMount, CopyClean,
     MoveInstalledStorage, MoveInstalledStorageRefused, MoveInstalledStorageClean, KeepDev

LEMMA DevTypeStep ==
  ASSUME TypeInv, Next
  PROVE  DevType'
<1> DEFINE Fields == [row : Rows, files : Marks, bck : Marks, xml : BOOLEAN, xmlBck : BOOLEAN,
                      icons : BOOLEAN, data : BOOLEAN, teps : SUBSET TepFiles,
                      torn : SUBSET TepNames, sec : [AllApps -> Contexts],
                      running : SUBSET AllApps]
<1>t. /\ dev \in Fields
      /\ made \in Marks /\ 0 \in Marks /\ Torn \in Marks /\ made \in 0..MaxRequests
      /\ ctx.old \in Rows /\ {ctx.tep, ctx.new, ctx.old.tep} \subseteq TepPlaces /\ NoRow \in Rows
      /\ ctx.old.v \in 0..MaxRequests
  BY RequestAssumption, TepFacts DEF TypeInv, DevType, CtxType, Marks, NoRow, Rows
<1> SUFFICES dev' \in Fields
  BY DEF DevType
<1>1. CASE \/ Exit \/ Nothing \/ CheckRemovable \/ CheckRestriction \/ AcquireExternalStorage
           \/ EnableExternalMount \/ EnableExternalMountUndo \/ DisableExternalMount
           \/ CopyClean \/ MoveInstalledStorage \/ MoveInstalledStorageRefused
           \/ MoveInstalledStorageClean
  BY <1>1, <1>t, DevFrame
<1>2. CASE Begin
  <2>1. PICK tep \in TepPlaces :
          dev' = [dev EXCEPT !.teps = {f \in @ : f.at # "store"} \cup ({tep} \ {None})]
    BY <1>2, BeginsWith DEF Asked, TypeInv, CtxType
  <2> QED
    BY <1>t, <2>1, TepFacts
<1>3. CASE Disable \/ Enable
  <2>1. \A b : (b /\ dev.row # NoRow) \in BOOLEAN
    OBVIOUS
  <2>2. dev' = dev \/ \E e \in BOOLEAN : dev' = [dev EXCEPT !.row.enabled = e]
    BY <1>3, <2>1 DEF Disable, Enable, UpdatePkgDisableInfo, SetEnabled, KeepDev
  <2> QED
    BY <1>t, <2>2 DEF Rows
<1>4. CASE KillApps \/ \E a \in AllApps : Launch(a)
  <2>1. (dev.files # 0) \in BOOLEAN
    OBVIOUS
  <2>2. \E apps \in SUBSET AllApps, b \in BOOLEAN :
          \/ dev' = [dev EXCEPT !.running = apps]
          \/ dev' = [dev EXCEPT !.running = apps, !.data = b]
    <3>1. dev.running \subseteq AllApps
      BY <1>t
    <3>2. CASE KillApps
      BY <3>1, <3>2 DEF KillApps
    <3>3. CASE \E a \in AllApps : Launch(a)
      BY <3>1, <3>3, <2>1 DEF Launch
    <3> QED
      BY <1>4, <3>2, <3>3
  <2> QED
    BY <1>t, <2>2
<1>5. CASE \/ RegisterSecurity \/ RollbackInstallationSecurityUndo \/ UpdateSecurityUndo
           \/ RollbackDeinstallationSecurityUndo \/ RevokeSecurityClean
  <2>1. \E v, k : Registered(v, k) \/ Revoked(v, k)
    BY <1>5
    DEF RegisterSecurity, RollbackInstallationSecurityUndo, UpdateSecurityUndo,
        RollbackDeinstallationSecurityUndo, RevokeSecurityClean
  <2> QED
    BY <1>t, <2>1, SecTypes DEF Registered, Revoked
<1>6. CASE Copy \/ CopyUndo \/ RemoveFiles
  <2>1. dev' = dev \/ dev' = RemovedDir(dev) \/ \E m \in {made, Torn} : dev' = [dev EXCEPT !.files = m]
    BY <1>6 DEF Copy, CopyUndo, RemoveFiles, KeepDev
  <2>2. dev.teps \ OnPhone(dev.teps) \subseteq TepFiles
    BY <1>t
  <2>3. RemovedDir(dev) \in Fields
    BY <1>t, <2>2 DEF RemovedDir
  <2>4. \A m \in {made, Torn} : [dev EXCEPT !.files = m] \in Fields
    BY <1>t
  <2> QED
    BY <1>t, <2>1, <2>3, <2>4
<1>7. CASE CopyBackup \/ CopyBackupUndo \/ CopyBackupClean
  <2>1. \/ dev' = dev \/ \E files \in {made, Torn} : dev' = BackedUp(dev, files)
        \/ dev' = [dev EXCEPT !.files = dev.bck, !.bck = 0,
                     !.teps = (@ \ (OnPhone(@) \cup InBackup(@)))
                                \cup Renamed(InBackup(@), "phone")]
        \/ dev' = [dev EXCEPT !.bck = 0, !.teps = @ \ InBackup(@)]
    <3>1. CASE CopyBackup
      BY <3>1 DEF CopyBackup, KeepDev
    <3>2. CASE CopyBackupUndo
      BY <3>2 DEF CopyBackupUndo, KeepDev
    <3>3. CASE CopyBackupClean
      BY <3>3 DEF CopyBackupClean, KeepDev
    <3> QED
      BY <1>7, <3>1, <3>2, <3>3
  <2>2. dev.teps \in SUBSET TepFiles
    BY <1>t
  <2>3. /\ (dev.teps \ OnPhone(dev.teps)) \cup Renamed(OnPhone(dev.teps), "bck") \subseteq TepFiles
        /\ (dev.teps \ (OnPhone(dev.teps) \cup InBackup(dev.teps)))
             \cup Renamed(InBackup(dev.teps), "phone") \subseteq TepFiles
        /\ dev.teps \ InBackup(dev.teps) \subseteq TepFiles
    BY <2>2, TepSets
  <2>4. \A files \in {made, Torn} : BackedUp(dev, files) \in Fields
    BY <1>t, <2>3 DEF BackedUp
  <2>5. [dev EXCEPT !.files = dev.bck, !.bck = 0,
           !.teps = (@ \ (OnPhone(@) \cup InBackup(@))) \cup Renamed(InBackup(@), "phone")] \in Fields
    BY <1>t, <2>3
  <2>6. [dev EXCEPT !.bck = 0, !.teps = @ \ InBackup(@)] \in Fields
    BY <1>t, <2>3
  <2> QED
    BY <1>t, <2>1, <2>4, <2>5, <2>6
<1>8. CASE \/ RemoveIcons \/ ClearData \/ CreateManifest \/ CreateManifestUndo
           \/ BackupManifest \/ BackupManifestUndo \/ BackupManifestClean
  <2>1. CASE RemoveIcons \/ ClearData
    BY <2>1, <1>t DEF RemoveIcons, ClearData, KeepDev
  <2>2. CASE CreateManifest \/ CreateManifestUndo
    BY <2>2, <1>t DEF CreateManifest, CreateManifestUndo, KeepDev
  <2>3. CASE BackupManifest
    BY <2>3, <1>t DEF BackupManifest, KeepDev
  <2>4. CASE BackupManifestUndo
    BY <2>4, <1>t DEF BackupManifestUndo, KeepDev
  <2>5. CASE BackupManifestClean
    BY <2>5, <1>t DEF BackupManifestClean, KeepDev
  <2> QED
    BY <1>8, <2>1, <2>2, <2>3, <2>4, <2>5
<1>9. CASE CopyTep \/ UpdateTep
  <2>1. CASE dev' = dev
    BY <1>t, <2>1
  <2>2. ASSUME dev' # dev
        PROVE  \E f \in TepFiles :
                 \/ dev' = Placed(dev, f) \/ dev' = Moved(dev, ctx.tep, f) \/ dev' = TornAt(dev, f)
    BY <1>9, <1>t, <2>2, TepTargets, TepFacts
    DEF CopyTep, UpdateTep, CopyTepFile, PreserveTep, KeepDev
  <2>3. ASSUME NEW f \in TepFiles
        PROVE  Placed(dev, f) \in Fields /\ TornAt(dev, f) \in Fields /\ Moved(dev, ctx.tep, f) \in Fields
    <3>1. /\ dev.teps \cup {f} \in SUBSET TepFiles
          /\ (dev.teps \cup {f}) \ {ctx.tep} \in SUBSET TepFiles
          /\ (IF f.at = "card" THEN dev.torn \ {f.name} ELSE dev.torn) \in SUBSET TepNames
          /\ (IF f.at = "card" THEN dev.torn \cup {f.name} ELSE dev.torn) \in SUBSET TepNames
      BY <1>t, TepFacts
    <3> QED
      BY <1>t, <3>1 DEF Placed, TornAt, Moved
  <2> QED
    BY <2>1, <2>2, <2>3
<1>10. CASE CopyTepUndo \/ UpdateTepUndo \/ UpdateTepClean \/ RemoveTep
  BY <1>10, <1>t DEF CopyTepUndo, UpdateTepUndo, UpdateTepClean, RemoveTep, KeepDev
<1>11. CASE MoveTep \/ MoveInstalledStorageUndo
  <2>1. \/ dev' = dev
        \/ \E from, to \in TepPlaces :
             /\ from # None /\ to # None
             /\ \/ dev' = Moved(dev, from, to)
                \/ dev' = [Moved(dev, from, to) EXCEPT !.row.tep = to]
    <3>1. OldLocation \in TepPlaces /\ NewLocation \in TepPlaces /\ None \notin dev.teps
      BY <1>t, TepTargets, TepFacts
    <3>2. \/ dev' = dev
          \/ /\ OldLocation # NewLocation
             /\ \/ dev' = Moved(dev, OldLocation, NewLocation)
                \/ dev' = [Moved(dev, OldLocation, NewLocation) EXCEPT !.row.tep = NewLocation]
                \/ dev' = Moved(dev, NewLocation, OldLocation)
                \/ dev' = [Moved(dev, NewLocation, OldLocation) EXCEPT !.row.tep = OldLocation]
      BY <1>11 DEF MoveTep, MoveInstalledStorageUndo, MoveBackTep, KeepDev
    <3>3. OldLocation # NewLocation => OldLocation # None /\ NewLocation # None
      BY TepTargets, TepFacts
    <3> QED
      BY <3>1, <3>2, <3>3
  <2>2. ASSUME NEW from \in TepPlaces, NEW to \in TepPlaces, to # None
        PROVE  Moved(dev, from, to) \in Fields
    <3>1. /\ (dev.teps \cup {to}) \ {from} \in SUBSET TepFiles
          /\ (IF to.at = "card" THEN dev.torn \ {to.name} ELSE dev.torn) \in SUBSET TepNames
      BY <1>t, <2>2, TepFacts
    <3> QED
      BY <1>t, <3>1 DEF Moved, Placed
  <2>3. ASSUME NEW d \in Fields, NEW t \in TepPlaces
        PROVE  [d EXCEPT !.row.tep = t] \in Fields
    BY DEF Rows
  <2> HIDE DEF Fields
  <2> QED
    BY <1>t, <2>1, <2>2, <2>3
<1>12. CASE Register \/ RegisterUndo \/ UpdateApp \/ UpdateAppUndo \/ Unregister \/ UnregisterUndo
  <2>1. ASSUME NEW v \in 0..MaxRequests, NEW t \in TepPlaces, NEW e \in BOOLEAN
        PROVE  RowWith(v, t, e) \in Rows
    BY DEF RowWith, Rows
  <2>2. \/ dev' = dev \/ (\E b \in BOOLEAN : dev' = [dev EXCEPT !.xml = b])
        \/ \E row \in Rows, b \in BOOLEAN : dev' = [dev EXCEPT !.row = row, !.xml = b]
        \/ \E row \in Rows : dev' = [dev EXCEPT !.row = row]
    BY <1>12, <1>t, <2>1
    DEF Register, RegisterUndo, UpdateApp, UpdateAppUndo, Unregister, UnregisterUndo, Written,
        KeepDev
  <2> QED
    BY <1>t, <2>2
<1> QED
  BY <1>1, <1>2, <1>3, <1>4, <1>5, <1>6, <1>7, <1>8, <1>9, <1>10, <1>11, <1>12 DEF Next

LEMMA TypeInvInit == Init => TypeInv
<1> SUFFICES ASSUME Init
             PROVE  TypeInv
  OBVIOUS
<1>1. LoopType
  <2>1. "Install" \in Kinds /\ NumSteps = 8
    BY ListLengths DEF Init, Kinds, NumSteps, Length
  <2> QED
    BY <2>1 DEF Init, RunnerInit, LoopType, Phases, Results
<1>2. CardType
  BY FaultBudgetAssumption DEF Init, NoCard, CardType, Places, Sessions
<1>3. NoRow \in Rows /\ None \in TepPlaces
  BY RequestAssumption, TepFacts DEF NoRow, Rows
<1>4. DevType
  BY <1>3, RequestAssumption DEF Init, DevType, Marks, Contexts
<1>5. CtxType
  BY <1>3, RequestAssumption DEF Init, RunnerInit, CtxType, Fresh
<1> QED
  BY <1>1, <1>2, <1>4, <1>5 DEF TypeInv

LEMMA TypeInvStep == TypeInv /\ [Next]_vars => TypeInv'
<1> SUFFICES ASSUME TypeInv, [Next]_vars
             PROVE  TypeInv'
  OBVIOUS
<1>1. CASE Next
  BY <1>1, LoopTypeStep, CardTypeStep, DevTypeStep, CtxTypeStep DEF TypeInv
<1>2. CASE UNCHANGED vars
  BY <1>2
  DEF TypeInv, LoopType, CardType, DevType, CtxType, vars, storageVars, runnerVars, NumSteps
<1> QED
  BY <1>1, <1>2

\* The state of every reachable request, device and card has its type; a step is
\* only looked up in the list of the request where there is one.
THEOREM InstalledTypeInvariant == Spec => []TypeInv
<1> QED
  BY TypeInvInit, TypeInvStep, PTL DEF Spec

\* TypeOK holds for any number of requests and failures.
THEOREM InstalledTypeOKHolds == Spec => []TypeOK
<1>1. TypeInv => TypeOK
  BY DEF TypeInv, LoopType, CardType, DevType, CtxType, TypeOK, Rows, Marks, TepPlaces
<1> QED
  BY <1>1, InstalledTypeInvariant, PTL

-------------------------------------------------------------------------------
(* The package and its applications *)

\* A step of a request that is under way, and what it leaves alone.
LEMMA Proceeds ==
  ASSUME TypeInv, Next, ~Begin, ~Exit
  PROVE  /\ UNCHANGED <<req, made, ctx.old, ctx.author, ctx.toCard, ctx.auto, ctx.move>>
         /\ faults \subseteq faults' /\ past \subseteq past'
         /\ Launches => UNCHANGED <<phase, it>>
         /\ \/ Launches
            \/ /\ phase = "process" /\ phase' = "process" /\ it' = it + 1 /\ it < Length(req)
            \/ /\ phase = "process" /\ phase' = "clean" /\ it' = 1 /\ it = Length(req)
            \/ /\ phase = "process" /\ phase' = "undo" /\ it' = it
            \/ /\ phase = "undo" /\ phase' = "undo" /\ it' = it - 1 /\ it > 1
            \/ /\ phase = "undo" /\ phase' = "end" /\ it' = it /\ it = 1
            \/ /\ phase = "clean" /\ phase' = "clean" /\ it' = it + 1 /\ it < Length(req)
            \/ /\ phase = "clean" /\ phase' = "end" /\ it' = it
<1>1. UNCHANGED <<ctx.old, ctx.author, ctx.toCard, ctx.auto, ctx.move>>
  <2>1. \/ ctx' = ctx
        \/ \E t : ctx' = [ctx EXCEPT !.tep = t, !.new = t]
        \/ \E t : ctx' = [ctx EXCEPT !.new = t]
        \/ \E t : ctx' = [ctx EXCEPT !.ext = TRUE, !.new = t]
        \/ ctx' = [ctx EXCEPT !.ext = TRUE]
        \/ \E b : ctx' = [ctx EXCEPT !.mount = b]
    <3>1. CASE CopyTep \/ UpdateTep
      BY <3>1 DEF CopyTep, UpdateTep, CopyTepFile, PreserveTep, KeepCtx
    <3>2. CASE MoveInstalledStorage \/ MoveTep
      BY <3>2 DEF MoveInstalledStorage, MoveTep
    <3>3. CASE \/ AcquireExternalStorage \/ EnableExternalMount \/ EnableExternalMountUndo
               \/ DisableExternalMount
      BY <3>3
      DEF AcquireExternalStorage, EnableExternalMount, EnableExternalMountUndo,
          DisableExternalMount, KeepCtx
    <3> QED
      BY <3>1, <3>2, <3>3, CtxFrame
  <2> QED
    BY <2>1 DEF TypeInv, CtxType
<1>2. past \subseteq past'
  BY DEF Next, Launch, Nothing, CheckRemovable, CheckRestriction, Disable, Enable,
     UpdatePkgDisableInfo, KillApps, RegisterSecurity, RollbackInstallationSecurityUndo,
     UpdateSecurityUndo, RollbackDeinstallationSecurityUndo, RevokeSecurityClean,
     AcquireExternalStorage, EnableExternalMount, EnableExternalMountUndo, DisableExternalMount,
     Copy, CopyUndo, CopyClean, CopyBackup, CopyBackupUndo, CopyBackupClean, RemoveFiles,
     RemoveIcons, ClearData, CreateManifest, CreateManifestUndo, BackupManifest,
     BackupManifestUndo, BackupManifestClean, CopyTep, CopyTepFile, CopyTepUndo, UpdateTep,
     PreserveTep, UpdateTepUndo, UpdateTepClean, RemoveTep, MoveInstalledStorage,
     MoveInstalledStorageRefused, MoveTep, MoveInstalledStorageUndo, MoveInstalledStorageClean,
     Register, RegisterUndo, UpdateApp, UpdateAppUndo, Unregister, UnregisterUndo,
     Ok, Fails, Cleaned, NotCleaned, Same, KeepPast
<1>3. Launches => UNCHANGED <<phase, it>>
  BY DEF Launches, Launch, runnerVars
<1> QED
  BY <1>1, <1>2, <1>3, FaultMoves, LoopMoves, Outcomes DEF TypeInv, runnerVars

\* Which action it is that handles a step.
LEMMA Owners ==
  ASSUME Next, ~Begin, ~Exit, ~Launches
  PROVE  /\ phase = "process" =>
              /\ Step = "Disable" => Disable
              /\ Step = "Enable" => Enable
              /\ Step = "KillApps" => KillApps
              /\ Step = "RegisterSecurity" => RegisterSecurity
              /\ Step = "UpdateSecurity" => RegisterSecurity
              /\ Step = "AcquireExternalStorage" => AcquireExternalStorage
              /\ Step = "EnableMount" => EnableExternalMount
              /\ Step = "DisableMount" => DisableExternalMount
              /\ Step = "Copy" => Copy
              /\ Step = "CopyBackup" => CopyBackup
              /\ Step = "RemoveFiles" => RemoveFiles
              /\ Step = "RemoveIcons" => RemoveIcons
              /\ Step = "ClearData" => ClearData
              /\ Step = "CreateManifest" => CreateManifest
              /\ Step = "BackupManifest" => BackupManifest
              /\ Step = "CopyTep" => CopyTep
              /\ Step = "UpdateTep" => UpdateTep
              /\ Step = "RemoveTep" => RemoveTep
              /\ Step = "MoveInstalledStorage" => MoveInstalledStorage \/ MoveInstalledStorageRefused \/ MoveTep
              /\ Step = "Register" => Register
              /\ Step = "UpdateApp" => UpdateApp
              /\ Step = "Unregister" => Unregister
         /\ phase = "undo" =>
              /\ Step = "Disable" => Disable
              /\ Step = "Enable" => Enable
              /\ Step = "RollbackInstallationSecurity" => RollbackInstallationSecurityUndo
              /\ Step = "UpdateSecurity" => UpdateSecurityUndo
              /\ Step = "RollbackDeinstallationSecurity" => RollbackDeinstallationSecurityUndo
              /\ Step = "EnableMount" => EnableExternalMountUndo
              /\ Step = "Copy" => CopyUndo
              /\ Step = "CopyBackup" => CopyBackupUndo
              /\ Step = "CopyTep" => CopyTepUndo
              /\ Step = "UpdateTep" => UpdateTepUndo
              /\ Step = "MoveInstalledStorage" => MoveInstalledStorageUndo
              /\ Step = "CreateManifest" => CreateManifestUndo
              /\ Step = "Register" => RegisterUndo
              /\ Step = "UpdateApp" => UpdateAppUndo
              /\ Step = "Unregister" => UnregisterUndo
              /\ Step = "BackupManifest" => BackupManifestUndo
         /\ phase = "clean" =>
              /\ Step = "RevokeSecurity" => RevokeSecurityClean
              /\ Step = "Copy" => CopyClean
              /\ Step = "CopyBackup" => CopyBackupClean
              /\ Step = "UpdateTep" => UpdateTepClean
              /\ Step = "MoveInstalledStorage" => MoveInstalledStorageClean
              /\ Step = "BackupManifest" => BackupManifestClean
<1>1. CASE Nothing
  BY <1>1 DEF Nothing, NoProcess, HasUndo, HasClean, Ok, Undone, Cleaned, StepOk, StepUndone, StepCleaned
<1>2. CASE CheckRemovable \/ CheckRestriction \/ Disable \/ Enable \/ KillApps
  BY <1>2
  DEF CheckRemovable, CheckRestriction, Disable, Enable, UpdatePkgDisableInfo, KillApps,
      Process, Undo
<1>3. CASE \/ RegisterSecurity \/ RollbackInstallationSecurityUndo \/ UpdateSecurityUndo
           \/ RollbackDeinstallationSecurityUndo \/ RevokeSecurityClean
  BY <1>3
  DEF RegisterSecurity, RollbackInstallationSecurityUndo, UpdateSecurityUndo,
      RollbackDeinstallationSecurityUndo, RevokeSecurityClean, Process, Undo, Clean
<1>4. CASE \/ AcquireExternalStorage \/ EnableExternalMount \/ EnableExternalMountUndo
           \/ DisableExternalMount
  BY <1>4
  DEF AcquireExternalStorage, EnableExternalMount, EnableExternalMountUndo,
      DisableExternalMount, Process, Undo
<1>5. CASE \/ Copy \/ CopyUndo \/ CopyClean \/ CopyBackup \/ CopyBackupUndo \/ CopyBackupClean
           \/ RemoveFiles \/ RemoveIcons \/ ClearData \/ CreateManifest \/ CreateManifestUndo
           \/ BackupManifest \/ BackupManifestUndo \/ BackupManifestClean
  BY <1>5
  DEF Copy, CopyUndo, CopyClean, CopyBackup, CopyBackupUndo, CopyBackupClean, RemoveFiles,
      RemoveIcons, ClearData, CreateManifest, CreateManifestUndo, BackupManifest,
      BackupManifestUndo, BackupManifestClean, Process, Undo, Clean
<1>6. CASE CopyTep \/ CopyTepUndo \/ UpdateTep \/ UpdateTepUndo \/ UpdateTepClean \/ RemoveTep
  BY <1>6
  DEF CopyTep, CopyTepUndo, UpdateTep, UpdateTepUndo, UpdateTepClean, RemoveTep, Process,
      Undo, Clean
<1>7. CASE \/ MoveInstalledStorage \/ MoveInstalledStorageRefused \/ MoveTep
           \/ MoveInstalledStorageUndo \/ MoveInstalledStorageClean
  BY <1>7
  DEF MoveInstalledStorage, MoveInstalledStorageRefused, MoveTep, MoveInstalledStorageUndo,
      MoveInstalledStorageClean, Process, Undo, Clean
<1>8. CASE Register \/ RegisterUndo \/ UpdateApp \/ UpdateAppUndo \/ Unregister \/ UnregisterUndo
  BY <1>8
  DEF Register, RegisterUndo, UpdateApp, UpdateAppUndo, Unregister, UnregisterUndo, Process, Undo
<1> QED
  BY <1>1, <1>2, <1>3, <1>4, <1>5, <1>6, <1>7, <1>8 DEF Next, Launches

\* The steps that cannot fail.
LEMMA NeverFail ==
  ASSUME TypeInv, Next, ~Begin, ~Exit
  PROVE  /\ phase = "process" /\ phase' = "undo" =>
              Step \notin NoProcess \cup {"KillApps", "Unregister", "RemoveFiles", "RemoveTep"}
         /\ phase = "clean" /\ phase' = "end" =>
              it = Length(req) \/ Step \in {"RevokeSecurity", "CopyBackup", "BackupManifest"}
<1>t. LoopType
  BY DEF TypeInv
<1>o. /\ Ok => phase = "process" /\ phase' # "undo"
      /\ Cleaned => phase = "clean" /\ (phase' = "end" => it = Length(req))
  BY <1>t, Handlers
<1>1. CASE Launches
  BY <1>1 DEF Launches, Launch, runnerVars
<1>2. CASE phase = "process" /\ ~Launches
  <2>1. CASE Step \in {"KillApps", "Unregister", "RemoveFiles", "RemoveTep"}
    <3>1. KillApps \/ Unregister \/ RemoveFiles \/ RemoveTep
      BY <1>2, <2>1, Owners
    <3>2. CASE RemoveFiles
      <4>1. StepOk(NumSteps)
        BY <3>2 DEF RemoveFiles
      <4> QED
        BY <1>2, <4>1 DEF StepOk
    <3>3. CASE KillApps \/ Unregister \/ RemoveTep
      BY <1>2, <1>o, <3>3 DEF KillApps, Unregister, RemoveTep
    <3> QED
      BY <1>2, <3>1, <3>2, <3>3
  <2>2. CASE Step \in NoProcess
    <3>1. Nothing
      BY <1>2, <2>2
      DEF Next, Launches, NoProcess, CheckRemovable, CheckRestriction, Disable, Enable,
          UpdatePkgDisableInfo, KillApps, RegisterSecurity, RollbackInstallationSecurityUndo,
          UpdateSecurityUndo, RollbackDeinstallationSecurityUndo, RevokeSecurityClean,
          AcquireExternalStorage, EnableExternalMount, EnableExternalMountUndo,
          DisableExternalMount, Copy, CopyUndo, CopyClean, CopyBackup, CopyBackupUndo,
          CopyBackupClean, RemoveFiles, RemoveIcons, ClearData, CreateManifest,
          CreateManifestUndo, BackupManifest, BackupManifestUndo, BackupManifestClean,
          CopyTep, CopyTepUndo, UpdateTep, UpdateTepUndo, UpdateTepClean, RemoveTep,
          MoveInstalledStorage, MoveInstalledStorageRefused, MoveTep,
          MoveInstalledStorageUndo, MoveInstalledStorageClean, Register, RegisterUndo,
          UpdateApp, UpdateAppUndo, Unregister, UnregisterUndo, Process, Undo, Clean
    <3> QED
      BY <1>2, <1>o, <3>1 DEF Nothing
  <2> QED
    BY <1>2, <2>1, <2>2
<1>3. CASE phase = "clean" /\ ~Launches
  <2>1. \/ Nothing \/ CopyClean \/ UpdateTepClean \/ MoveInstalledStorageClean
        \/ RevokeSecurityClean \/ CopyBackupClean \/ BackupManifestClean
    BY <1>3
    DEF Next, Launches, CheckRemovable, CheckRestriction, Disable, Enable,
        UpdatePkgDisableInfo, KillApps, RegisterSecurity, RollbackInstallationSecurityUndo,
        UpdateSecurityUndo, RollbackDeinstallationSecurityUndo, AcquireExternalStorage,
        EnableExternalMount, EnableExternalMountUndo, DisableExternalMount, Copy, CopyUndo,
        CopyBackup, CopyBackupUndo, RemoveFiles, RemoveIcons, ClearData, CreateManifest,
        CreateManifestUndo, BackupManifest, BackupManifestUndo, CopyTep, CopyTepUndo,
        UpdateTep, UpdateTepUndo, RemoveTep, MoveInstalledStorage,
        MoveInstalledStorageRefused, MoveTep, MoveInstalledStorageUndo, Register,
        RegisterUndo, UpdateApp, UpdateAppUndo, Unregister, UnregisterUndo, Process, Undo
  <2>2. CASE Nothing
    <3>1. Cleaned
      BY <1>3, <2>2, <1>t, Handlers DEF Nothing
    <3> QED
      BY <1>3, <1>o, <3>1
  <2>3. CASE CopyClean \/ UpdateTepClean \/ MoveInstalledStorageClean
    BY <1>3, <1>o, <2>3 DEF CopyClean, UpdateTepClean, MoveInstalledStorageClean
  <2>4. CASE RevokeSecurityClean \/ CopyBackupClean \/ BackupManifestClean
    BY <1>3, <2>4 DEF RevokeSecurityClean, CopyBackupClean, BackupManifestClean, Clean
  <2> QED
    BY <1>3, <2>1, <2>2, <2>3, <2>4
<1> QED
  BY <1>1, <1>2, <1>3

RowActions ==
  \/ Disable \/ Enable \/ MoveTep \/ MoveInstalledStorageUndo \/ Register \/ RegisterUndo
  \/ UpdateApp \/ UpdateAppUndo \/ Unregister \/ UnregisterUndo

LEMMA RowFrame ==
  ASSUME TypeInv, Next, ~Begin, ~Exit, ~RowActions
  PROVE  dev'.row = dev.row
<1>t. dev.row = dev.row /\ DevType
  BY DEF TypeInv
<1>1. CASE dev' = dev
  BY <1>1
<1>2. CASE \/ Launches \/ KillApps \/ RegisterSecurity \/ RollbackInstallationSecurityUndo
           \/ UpdateSecurityUndo \/ RollbackDeinstallationSecurityUndo \/ RevokeSecurityClean
  BY <1>2, <1>t
  DEF DevType, Launches, Launch, KillApps, RegisterSecurity, RollbackInstallationSecurityUndo,
      UpdateSecurityUndo, RollbackDeinstallationSecurityUndo, RevokeSecurityClean, Registered,
      Revoked
<1>3. CASE \/ Copy \/ CopyUndo \/ CopyBackup \/ CopyBackupUndo \/ CopyBackupClean
           \/ RemoveFiles \/ RemoveIcons \/ ClearData \/ CreateManifest \/ CreateManifestUndo
           \/ BackupManifest \/ BackupManifestUndo \/ BackupManifestClean
  BY <1>3, <1>t
  DEF DevType, Copy, CopyUndo, CopyBackup, CopyBackupUndo, CopyBackupClean, RemoveFiles,
      RemoveIcons, ClearData, CreateManifest, CreateManifestUndo, BackupManifest,
      BackupManifestUndo, BackupManifestClean, BackedUp, RemovedDir, KeepDev
<1>4. CASE CopyTep \/ CopyTepUndo \/ UpdateTep \/ UpdateTepUndo \/ UpdateTepClean \/ RemoveTep
  BY <1>4, <1>t
  DEF DevType, CopyTep, CopyTepFile, CopyTepUndo, UpdateTep, PreserveTep, UpdateTepUndo,
      UpdateTepClean, RemoveTep, Placed, Moved, TornAt, KeepDev
<1> QED
  BY <1>1, <1>2, <1>3, <1>4, DevFrame DEF Next, RowActions, Launches

\* The version in the database, and who changes it.
LEMMA RowMoves ==
  ASSUME TypeInv, Next, ~Begin, ~Exit
  PROVE  \/ dev'.row.v = dev.row.v
         \/ Register /\ dev'.row.v = made /\ dev'.row.tep = ctx.tep /\ Ok
         \/ RegisterUndo /\ dev'.row = NoRow
         \/ UpdateApp /\ dev'.row.v = made /\ dev'.row.tep = ctx.new /\ Ok
         \/ UpdateAppUndo /\ dev'.row.v = ctx.old.v /\ dev'.row.tep = ctx.old.tep
         \/ Unregister /\ dev'.row = NoRow
         \/ UnregisterUndo /\ dev'.row.v = ctx.old.v /\ dev'.row.tep = ctx.old.tep
<1>w. \A v, t, e : RowWith(v, t, e).v = v /\ RowWith(v, t, e).tep = t
  BY DEF RowWith
<1>t. DevType
  BY DEF TypeInv
<1>1. CASE ~RowActions
  BY <1>1, RowFrame
<1>2. CASE Disable \/ Enable
  <2>1. \E e \in BOOLEAN : dev'.row = dev.row \/ dev'.row = [dev.row EXCEPT !.enabled = e]
    BY <1>2, <1>t
    DEF DevType, Disable, Enable, UpdatePkgDisableInfo, SetEnabled, KeepDev
  <2> QED
    BY <1>t, <2>1 DEF DevType, Rows
<1>3. CASE MoveTep \/ MoveInstalledStorageUndo
  <2>1. \/ dev'.row = dev.row
        \/ dev'.row = [dev.row EXCEPT !.tep = NewLocation]
        \/ dev'.row = [dev.row EXCEPT !.tep = OldLocation]
    BY <1>3, <1>t
    DEF DevType, MoveTep, MoveInstalledStorageUndo, MoveBackTep, Moved, Placed, KeepDev
  <2> QED
    BY <1>t, <2>1 DEF DevType, Rows
<1>4. CASE Register \/ RegisterUndo
  <2>1. \/ dev'.row = dev.row
        \/ Register /\ Ok /\ dev'.row = RowWith(made, ctx.tep, TRUE)
        \/ RegisterUndo /\ dev'.row = NoRow
    BY <1>4, <1>t DEF DevType, Register, RegisterUndo, KeepDev
  <2>2. RowWith(made, ctx.tep, TRUE).v = made /\ RowWith(made, ctx.tep, TRUE).tep = ctx.tep
    BY DEF RowWith
  <2> QED
    BY <2>1, <2>2
<1>5. CASE UpdateApp \/ UpdateAppUndo
  <2>1. \/ dev'.row = dev.row
        \/ UpdateApp /\ Ok /\ \E e \in BOOLEAN : dev'.row = RowWith(made, ctx.new, e)
        \/ UpdateAppUndo /\ \E e \in BOOLEAN : dev'.row = RowWith(ctx.old.v, ctx.old.tep, e)
    BY <1>5, <1>t DEF DevType, UpdateApp, UpdateAppUndo, Written, KeepDev
  <2> QED
    BY <1>w, <2>1
<1>6. CASE Unregister \/ UnregisterUndo
  <2>1. \/ dev'.row = dev.row
        \/ Unregister /\ dev'.row = NoRow
        \/ UnregisterUndo /\ \E e \in BOOLEAN : dev'.row = RowWith(ctx.old.v, ctx.old.tep, e)
    BY <1>6, <1>t DEF DevType, Unregister, UnregisterUndo, Written, KeepDev
  <2> QED
    BY <1>w, <2>1
<1> QED
  BY <1>1, <1>2, <1>3, <1>4, <1>5, <1>6 DEF RowActions

LEMMA RowPlaces ==
  ASSUME TypeInv, Next, ~Begin, ~Exit
  PROVE  /\ Handled' => Handled
         /\ HasRow' => HasRow \/ Register
         /\ Processes("Install", 1, 7)' => Processes("Install", 1, 7) /\ ~Register
<1>t. /\ LoopType /\ it \in 1..Length(req) /\ req \in Kinds
  BY StepLists DEF TypeInv, LoopType
<1>1. Handled' => Handled
  BY Proceeds DEF Handled
<1>2. phase = "process" /\ Step = "Register" => Launches \/ Register
  BY Owners
<1>3. Register => phase = "process" /\ req = "Install" /\ it = 7
  BY <1>t, Located DEF Register, Process, At
<1>4. CASE req = "Install"
  <2>1. Length(req) = 8
    BY <1>4 DEF Length
  <2>2. HasRow' => HasRow \/ Register
    BY <1>t, <1>2, <1>4, <2>1, Proceeds, StepLists DEF HasRow, Handled, Processes, Cleans
  <2>3. Processes("Install", 1, 7)' => Processes("Install", 1, 7) /\ ~Register
    <3>1. Register => phase' # "process" \/ it' = 8
      <4>1. Register => Ok \/ Fails
        BY DEF Register
      <4> QED
        BY <1>t, <1>3, <4>1, Handlers
    <3> QED
      BY <1>t, <1>3, <1>4, <2>1, <3>1, Proceeds DEF Processes
  <2> QED
    BY <1>1, <2>2, <2>3
<1>5. CASE req # "Install"
  <2>1. HasRow' => HasRow
    BY <1>t, <1>1, <1>5, Proceeds DEF HasRow, Handled, Processes, Cleans
  <2> QED
    BY <1>1, <1>5, <2>1, Proceeds DEF Processes
<1> QED
  BY <1>4, <1>5

LEMMA RowInvStep ==
  ASSUME TypeInv, RowInv, Next
  PROVE  RowInv'
<1>t. /\ dev.row \in Rows /\ ctx.old.v \in 0..MaxRequests /\ made \in Nat
      /\ phase # "idle" => made # 0
      /\ LoopType
  BY RequestAssumption DEF TypeInv, LoopType, DevType, CtxType, Rows
<1>v. NoRow.v = 0
  BY DEF NoRow
<1>w. \A v, t, e : RowWith(v, t, e).v = v
  BY DEF RowWith
<1>1. CASE Begin
  <2>1. PICK kind \in Kinds, toCard, auto, move \in BOOLEAN, tep \in TepPlaces :
          Asked(kind, toCard, auto, move, tep)
    BY <1>1, BeginsWith DEF TypeInv, CtxType
  <2>2. dev'.row = dev.row /\ ctx'.old = dev.row
    BY <2>1 DEF Asked, TypeInv, DevType
  <2> QED
    BY <1>1, <1>t, <2>1, <2>2, BeginsWith
    DEF Asked, TypeInv, CtxType, RowInv, HasRow, Handled, Processes, Cleans
<1>2. CASE Exit
  BY <1>2, ExitsWith DEF RowInv, HasRow, Handled, Processes, Cleans
<1>p. ASSUME ~Begin, ~Exit
      PROVE  /\ Handled' => Handled
             /\ HasRow' => HasRow \/ Register
             /\ Processes("Install", 1, 7)' => Processes("Install", 1, 7) /\ ~Register
             /\ req' = req /\ ctx'.old = ctx.old
             /\ Processes("Install", 1, 7) => req = "Install"
             /\ dev.row # NoRow => dev.row.v # 0
  BY <1>p, RowPlaces, Proceeds DEF RowInv, Processes
<1>3. CASE ~Begin /\ ~Exit /\ ~RowActions
  BY <1>3, <1>p, RowFrame DEF RowInv, RowActions
<1>4. CASE Disable \/ Enable
  <2>1. \E e \in BOOLEAN : /\ dev'.row = dev.row \/ dev'.row = [dev.row EXCEPT !.enabled = e]
                           /\ dev.row = NoRow => ~e
    BY <1>4 DEF Disable, Enable, UpdatePkgDisableInfo, SetEnabled, KeepDev, TypeInv, DevType
  <2>2. dev'.row.v = dev.row.v /\ (dev.row = NoRow => dev'.row = NoRow)
    BY <1>t, <2>1 DEF NoRow, Rows
  <2>3. ~Begin /\ ~Exit /\ ~Register
    BY <1>4 DEF Disable, Enable, UpdatePkgDisableInfo, Process, Undo, Begin, BeginRun, Exit, Register
  <2> QED
    BY <1>p, <2>2, <2>3 DEF RowInv
<1>5. CASE MoveTep \/ MoveInstalledStorageUndo
  <2>1. req = "Move" /\ Handled
    BY <1>5, <1>t, Located DEF MoveTep, MoveInstalledStorageUndo, Process, Undo, At, Handled
  <2>2. \/ dev'.row = dev.row
        \/ dev'.row = [dev.row EXCEPT !.tep = NewLocation]
        \/ dev'.row = [dev.row EXCEPT !.tep = OldLocation]
    BY <1>5
    DEF MoveTep, MoveInstalledStorageUndo, MoveBackTep, Moved, Placed, KeepDev, TypeInv, DevType
  <2>3. dev'.row.v = dev.row.v
    BY <1>t, <2>2 DEF Rows
  <2>4. ~Begin /\ ~Exit /\ ~Register
    BY <1>5 DEF MoveTep, MoveInstalledStorageUndo, Process, Undo, Begin, BeginRun, Exit, Register
  <2> QED
    BY <1>p, <2>1, <2>3, <2>4 DEF RowInv, HasRow
<1>6. CASE Register \/ RegisterUndo
  <2>1. req = "Install" /\ it = 7 /\ phase \in {"process", "undo"}
    BY <1>6, <1>t, Located DEF Register, RegisterUndo, Process, Undo, At
  <2>2. Register => dev'.row = RowWith(made, ctx.tep, TRUE) \/ (dev'.row = dev.row /\ phase' = "undo")
    BY Outcomes DEF Register, KeepDev, Ok, Fails, Same, TypeInv, DevType
  <2>3. RegisterUndo => dev'.row \in {dev.row, NoRow} /\ phase' \in {"undo", "end"}
    BY <1>t, Outcomes DEF RegisterUndo, KeepDev, Undone, TypeInv, DevType
  <2>4. RowWith(made, ctx.tep, TRUE).v = made
    BY DEF RowWith
  <2>5. ~Begin /\ ~Exit
    BY <1>6 DEF Register, RegisterUndo, Process, Undo, Begin, BeginRun, Exit
  <2> QED
    BY <1>6, <1>t, <1>v, <1>p, <2>1, <2>2, <2>3, <2>4, <2>5
    DEF RowInv, Handled, HasRow, Processes, Cleans
<1>7. CASE UpdateApp \/ UpdateAppUndo
  <2>1. req = "Update" /\ Handled
    BY <1>7, <1>t, Located DEF UpdateApp, UpdateAppUndo, Process, Undo, At, Handled
  <2>2. \/ dev'.row = dev.row
        \/ \E e \in BOOLEAN : dev'.row = RowWith(made, ctx.new, e)
        \/ \E e \in BOOLEAN : dev'.row = RowWith(ctx.old.v, ctx.old.tep, e)
    BY <1>7 DEF UpdateApp, UpdateAppUndo, Written, KeepDev, TypeInv, DevType
  <2>3. dev'.row = dev.row \/ dev'.row.v \in {made, ctx.old.v}
    BY <1>w, <2>2
  <2>4. ~Begin /\ ~Exit /\ ~Register
    BY <1>7 DEF UpdateApp, UpdateAppUndo, Process, Undo, Begin, BeginRun, Exit, Register
  <2>5. made # 0 /\ ctx.old.v # 0
    BY <1>t, <2>1 DEF RowInv, Handled
  <2> QED
    BY <1>p, <2>1, <2>3, <2>4, <2>5 DEF RowInv, HasRow, Processes
<1>8. CASE Unregister \/ UnregisterUndo
  <2>1. req = "Uninstall" /\ it = 9 /\ Handled
    BY <1>8, <1>t, Located DEF Unregister, UnregisterUndo, Process, Undo, At, Handled
  <2>2. \/ dev'.row \in {dev.row, NoRow}
        \/ \E e \in BOOLEAN : dev'.row = RowWith(ctx.old.v, ctx.old.tep, e)
    BY <1>8 DEF Unregister, UnregisterUndo, Written, KeepDev, TypeInv, DevType
  <2>3. dev'.row = dev.row \/ dev'.row = NoRow \/ dev'.row.v = ctx.old.v
    BY <1>w, <2>2
  <2>4. ~Begin /\ ~Exit
    BY <1>8 DEF Unregister, UnregisterUndo, Process, Undo, Begin, BeginRun, Exit
  <2>5. ctx.old.v # 0
    BY <2>1 DEF RowInv
  <2>6. ~HasRow'
    <3>1. phase' # "process" \/ it' = 10
      <4>1. Ok \/ \E ok \in BOOLEAN : Undone(ok)
        BY <1>8 DEF Unregister, UnregisterUndo
      <4> QED
        BY <1>t, <2>1, <4>1, Handlers
    <3> QED
      BY <1>p, <2>1, <2>4, <3>1 DEF HasRow, Processes, Cleans
  <2> QED
    BY <1>p, <2>1, <2>3, <2>4, <2>5, <2>6 DEF RowInv, Processes
<1> QED
  BY <1>1, <1>2, <1>3, <1>4, <1>5, <1>6, <1>7, <1>8 DEF RowActions

LEMMA RunningFrame ==
  ASSUME TypeInv, Next, ~Launches, ~KillApps
  PROVE  dev'.running = dev.running
<1>t. DevType
  BY DEF TypeInv
<1>1. CASE dev' = dev
  BY <1>1
<1>2. CASE Begin
  <2>1. \E T : dev' = [dev EXCEPT !.teps = T]
    BY <1>2, BeginsWith DEF Asked, TypeInv, CtxType
  <2> QED
    BY <1>t, <2>1 DEF DevType
<1>3. CASE \/ Disable \/ Enable \/ RegisterSecurity \/ RollbackInstallationSecurityUndo
           \/ UpdateSecurityUndo \/ RollbackDeinstallationSecurityUndo \/ RevokeSecurityClean
  BY <1>3, <1>t
  DEF DevType, Disable, Enable, UpdatePkgDisableInfo, SetEnabled, RegisterSecurity,
      RollbackInstallationSecurityUndo, UpdateSecurityUndo, RollbackDeinstallationSecurityUndo,
      RevokeSecurityClean, Registered, Revoked, KeepDev
<1>4. CASE \/ Copy \/ CopyUndo \/ CopyBackup \/ CopyBackupUndo \/ CopyBackupClean
           \/ RemoveFiles \/ RemoveIcons \/ ClearData \/ CreateManifest \/ CreateManifestUndo
           \/ BackupManifest \/ BackupManifestUndo \/ BackupManifestClean
  BY <1>4, <1>t
  DEF DevType, Copy, CopyUndo, CopyBackup, CopyBackupUndo, CopyBackupClean, RemoveFiles,
      RemoveIcons, ClearData, CreateManifest, CreateManifestUndo, BackupManifest,
      BackupManifestUndo, BackupManifestClean, BackedUp, RemovedDir, KeepDev
<1>5. CASE CopyTep \/ CopyTepUndo \/ UpdateTep \/ UpdateTepUndo \/ UpdateTepClean \/ RemoveTep
  BY <1>5, <1>t
  DEF DevType, CopyTep, CopyTepFile, CopyTepUndo, UpdateTep, PreserveTep, UpdateTepUndo,
      UpdateTepClean, RemoveTep, Placed, Moved, TornAt, KeepDev
<1>6. CASE \/ MoveTep \/ MoveInstalledStorageUndo \/ Register \/ RegisterUndo \/ UpdateApp
           \/ UpdateAppUndo \/ Unregister \/ UnregisterUndo
  BY <1>6, <1>t
  DEF DevType, MoveTep, MoveInstalledStorageUndo, MoveBackTep, Placed, Moved, Register,
      RegisterUndo, UpdateApp, UpdateAppUndo, Unregister, UnregisterUndo, Written, KeepDev
<1> QED
  BY <1>1, <1>2, <1>3, <1>4, <1>5, <1>6, DevFrame DEF Next, Launches

LEMMA AppsPlaces ==
  ASSUME TypeInv, Next
  PROVE  /\ Off' => Off \/ Disable
         /\ Stopped' => Stopped \/ KillApps
         /\ Stopped => Off
         /\ Off' => phase' = "process"
<1>t. /\ LoopType /\ it \in 1..Length(req) /\ req \in Kinds
  BY StepLists DEF TypeInv, LoopType
<1> USE DEF Off, Stopped, Processes
<1>1. CASE Begin
  BY <1>1, BeginsWith DEF TypeInv, CtxType
<1>2. CASE Exit
  BY <1>2, ExitsWith
<1>3. CASE ~Begin /\ ~Exit
  <2>1. phase = "process" /\ Step = "Disable" => Disable \/ Launches
    BY <1>3, Owners
  <2>2. phase = "process" /\ Step = "KillApps" => KillApps \/ Launches
    BY <1>3, Owners
  <2>3. Off' => Off \/ Disable
    BY <1>3, <1>t, <2>1, Proceeds, StepLists
  <2>4. Stopped' => Stopped \/ KillApps
    BY <1>3, <1>t, <2>2, Proceeds, StepLists
  <2> QED
    BY <1>t, <2>3, <2>4
<1> QED
  BY <1>1, <1>2, <1>3

LEMMA AppsInvStep ==
  ASSUME TypeInv, AppsInv, Next
  PROVE  AppsInv'
<1>t. /\ dev.row \in Rows /\ LoopType
      /\ Off' => Off \/ Disable
      /\ Stopped' => Stopped \/ KillApps
      /\ Stopped => Off
      /\ Off' => phase' = "process"
  BY AppsPlaces DEF TypeInv, DevType
<1>1. CASE Begin
  BY <1>1, BeginsWith DEF AppsInv, Off, Stopped, Processes, TypeInv, CtxType
<1>2. CASE Exit
  BY <1>2, ExitsWith DEF AppsInv, Off, Stopped, Processes
<1>p. ASSUME ~Begin, ~Exit
      PROVE  ctx'.old = ctx.old /\ req' = req /\ faults \subseteq faults'
             /\ (Launches => Off' = Off /\ Stopped' = Stopped)
  BY <1>p, Proceeds DEF Off, Stopped, Processes
<1>3. CASE Launches
  <2>1. dev.row.enabled /\ ~Begin /\ ~Exit
    BY <1>3 DEF Launches, Launch, Begin, Exit, BeginRun, runnerVars
  <2> QED
    BY <1>3, <1>p, <1>t, <2>1 DEF AppsInv, Stopped, Off, Processes
<1>4. CASE KillApps
  <2>1. ~Begin /\ ~Exit /\ ~RowActions /\ ~Disable /\ phase = "process" /\ Step = "KillApps"
    BY <1>4
    DEF KillApps, Begin, BeginRun, Exit, RowActions, Disable, Enable, UpdatePkgDisableInfo, MoveTep,
        MoveInstalledStorageUndo, Register, RegisterUndo, UpdateApp, UpdateAppUndo,
        Unregister, UnregisterUndo, Process, Undo
  <2>2. dev'.row = dev.row
    BY <2>1, RowFrame
  <2>3. \/ dev'.running = dev.running \ Members(Apps(ctx.old.v))
        \/ "kill" \in faults'
    BY <1>4 DEF KillApps, Fault, TypeInv, DevType
  <2> QED
    BY <1>p, <1>t, <2>1, <2>2, <2>3 DEF AppsInv
<1>5. CASE ~Begin /\ ~Exit /\ ~Launches /\ ~KillApps
  <2>1. dev'.running = dev.running
    BY <1>5, RunningFrame
  <2>2. CASE ~RowActions
    BY <1>5, <1>p, <1>t, <2>1, <2>2, RowFrame DEF AppsInv, RowActions
  <2>3. CASE Off' /\ RowActions
    <3>1. phase' = "process" /\ (Stopped' => Stopped)
      BY <1>5, <1>t, <2>3
    <3>2. CASE Disable
      <4>1. phase = "process" /\ Step = "Disable"
        BY <3>1, <3>2, <1>t, Handlers DEF Disable, UpdatePkgDisableInfo, Process
      <4>2. ~Off
        BY <1>t, <4>1, Located DEF Off, Processes, At
      <4>3. ~dev'.row.enabled
        <5>1. Ok \/ Fails
          BY <3>2, <4>1 DEF Disable, UpdatePkgDisableInfo, Process, Undo
        <5>2. ~Fails
          BY <1>t, <3>1, Handlers
        <5> QED
          BY <1>t, <3>2, <4>1, <5>2
          DEF Disable, UpdatePkgDisableInfo, SetEnabled, Undo, TypeInv, DevType, Rows
      <4> QED
        BY <1>t, <3>1, <4>2, <4>3 DEF AppsInv
    <3>3. CASE Enable
      <4>1. phase = "process" /\ Step = "Enable"
        BY <3>1, <3>3, <1>t, Handlers DEF Enable, UpdatePkgDisableInfo, Process
      <4> QED
        BY <1>5, <1>t, <2>3, <3>2, <4>1, Located DEF Off, Processes, At
    <3>4. CASE MoveTep
      <4>1. dev'.row = dev.row \/ dev'.row = [dev.row EXCEPT !.tep = NewLocation]
        BY <3>4 DEF MoveTep, Moved, Placed, KeepDev, TypeInv, DevType
      <4>2. dev'.row.enabled = dev.row.enabled
        BY <1>t, <4>1 DEF Rows
      <4> QED
        BY <1>5, <1>p, <1>t, <2>1, <2>3, <3>1, <3>2, <4>2 DEF AppsInv
    <3>5. CASE MoveInstalledStorageUndo \/ RegisterUndo \/ UpdateAppUndo \/ UnregisterUndo
      <4>1. phase = "undo"
        BY <3>5 DEF MoveInstalledStorageUndo, RegisterUndo, UpdateAppUndo, UnregisterUndo, Undo
      <4> QED
        BY <1>5, <3>1, <4>1, Proceeds
    <3>6. CASE Register \/ UpdateApp
      <4>1. ~Off \/ it = 6
        BY <1>t, <3>6, Located DEF Register, UpdateApp, Process, Off, Processes, At
      <4>2. Ok \/ Fails
        BY <3>6 DEF Register, UpdateApp
      <4>3. req = "Install" \/ req = "Update"
        BY <1>t, <3>6, Located DEF Register, UpdateApp, Process, At
      <4> QED
        BY <1>5, <1>p, <1>t, <2>3, <3>1, <3>2, <4>1, <4>2, <4>3, Handlers DEF Off, Processes
    <3>7. CASE Unregister
      <4>1. dev'.row = dev.row \/ dev'.row = NoRow
        BY <3>7 DEF Unregister, TypeInv, DevType
      <4> QED
        BY <1>5, <1>p, <1>t, <2>1, <2>3, <3>1, <3>2, <4>1 DEF AppsInv, NoRow
    <3> QED
      BY <2>3, <3>2, <3>3, <3>4, <3>5, <3>6, <3>7 DEF RowActions
  <2> QED
    BY <1>5, <1>p, <1>t, <2>1, <2>2, <2>3 DEF AppsInv
<1> QED
  BY <1>1, <1>2, <1>3, <1>4, <1>5

\* AppsStopped: while the files of a package are replaced, moved or removed, none
\* of its applications runs, whatever the user starts meanwhile.
THEOREM AppsStoppedHolds == Spec => []AppsStopped
<1>1. Init => AppsInv
  BY DEF Init, RunnerInit, AppsInv, Off, Stopped, Processes
<1>2. TypeInv /\ AppsInv /\ [Next]_vars => AppsInv'
  <2>1. UNCHANGED vars /\ AppsInv => AppsInv'
    BY DEF vars, storageVars, runnerVars, AppsInv, Off, Stopped, Processes
  <2> QED
    BY <2>1, AppsInvStep
<1>3. TypeInv /\ AppsInv => AppsStopped
  <2> SUFFICES ASSUME TypeInv, AppsInv, phase = "process", "kill" \notin faults,
                      Step \in {"CopyBackup", "UpdateTep", "UpdateApp",
                                "MoveInstalledStorage", "RemoveFiles"}
               PROVE  dev.running \cap Members(Apps(ctx.old.v)) = {}
    BY DEF AppsStopped
  <2>1. Stopped
    BY Located DEF TypeInv, Stopped, Processes, At
  <2> QED
    BY <2>1 DEF AppsInv
<1> QED
  BY <1>1, <1>2, <1>3, InstalledTypeInvariant, PTL DEF Spec

-------------------------------------------------------------------------------
(* The card *)

\* Where a session is opened and where it is closed.
Opens == AcquireExternalStorage \/ MoveInstalledStorage \/ MoveInstalledStorageRefused \/ MoveTep
Closes ==
  \/ CopyUndo \/ CopyClean \/ CopyBackupUndo \/ CopyBackupClean \/ RemoveFiles
  \/ MoveInstalledStorageUndo \/ MoveInstalledStorageClean

LEMMA OpensAt ==
  ASSUME LoopType, Opens
  PROVE  /\ phase = "process"
         /\ At("Install", 3) \/ At("Update", 3) \/ At("Uninstall", 8) \/ At("Move", 4)
         /\ AcquireExternalStorage <=> req # "Move"
<1>1. CASE AcquireExternalStorage
  BY <1>1, Located
  DEF AcquireExternalStorage, MoveInstalledStorage, MoveInstalledStorageRefused, MoveTep,
      Process, At
<1>2. CASE MoveInstalledStorage \/ MoveInstalledStorageRefused \/ MoveTep
  BY <1>2, Located
  DEF AcquireExternalStorage, MoveInstalledStorage, MoveInstalledStorageRefused, MoveTep,
      Process, At
<1> QED
  BY <1>1, <1>2 DEF Opens

LEMMA ClosesAt ==
  ASSUME LoopType, Closes
  PROVE  \/ phase = "undo" /\ (At("Install", 4) \/ At("Update", 4) \/ At("Move", 4))
         \/ phase = "clean" /\ (At("Install", 4) \/ At("Update", 4) \/ At("Move", 4))
         \/ phase = "process" /\ At("Uninstall", 11)
  BY Located
  DEF Closes, CopyUndo, CopyClean, CopyBackupUndo, CopyBackupClean, RemoveFiles,
      MoveInstalledStorageUndo, MoveInstalledStorageClean, Process, Undo, Clean, At

LEMMA SessionPlaces ==
  ASSUME TypeInv, Next, ~Begin, ~Exit
  PROVE  /\ NoSessionYet' => NoSessionYet
         /\ Session' => Session \/ Opens
         /\ Session /\ ~Session' => Closes
         /\ Opens => NoSessionYet /\ ~Session /\ ~NoSessionYet'
         /\ Opens /\ (phase' # "undo" \/ req = "Move") => Session'
         /\ Closes => Session /\ ~Session'
         /\ Opened' => Opened \/ AcquireExternalStorage
         /\ Session => ~NoSessionYet
<1>t. /\ LoopType /\ it \in 1..Length(req) /\ req \in Kinds
  BY StepLists DEF TypeInv, LoopType
<1>1. Opens => ~Launches /\ phase' \in {"process", "undo"} /\ (phase' = "process" => it' = it + 1)
  <2>1. Opens => Ok \/ Fails
    BY DEF Opens, AcquireExternalStorage, MoveInstalledStorage, MoveInstalledStorageRefused, MoveTep
  <2>2. Opens => it < Length(req)
    BY <1>t, OpensAt DEF At, Length
  <2> QED
    BY <1>t, <2>1, <2>2, Handlers, Proceeds
<1>2. Closes => ~Launches /\ (phase = "process" => phase' = "process" /\ it' = 12)
  <2>1. Closes => \/ Cleaned \/ NotCleaned \/ RemoveFiles \/ \E ok \in BOOLEAN : Undone(ok)
    BY DEF Closes, CopyUndo, CopyClean, CopyBackupUndo, CopyBackupClean,
       MoveInstalledStorageUndo, MoveInstalledStorageClean
  <2>2. RemoveFiles => /\ phase = "process" /\ it = 11 /\ Length(req) = 14 /\ StepOk(NumSteps)
                       /\ UNCHANGED <<req, made>>
    BY <1>t, Located DEF RemoveFiles, Process, At, Length
  <2>3. RemoveFiles => phase = "process" /\ phase' = "process" /\ it' = 12 /\ it = 11
    BY <1>t, <2>2, Outcomes
  <2> QED
    BY <1>t, <2>1, <2>3, Handlers, Proceeds
<1> USE DEF NoSessionYet, Session, Opened, Processes, Undoes, Cleans
<1>3. CASE Launches
  BY <1>1, <1>2, <1>3, Proceeds
<1>4. CASE ~Launches /\ req \in {"Install", "Update"}
  <2>1. /\ Length(req) = 8
        /\ it = 3 => Step = "AcquireExternalStorage"
        /\ it = 4 => Step \in {"Copy", "CopyBackup"}
        /\ phase = "clean" /\ it < 4 => Step \notin {"RevokeSecurity", "CopyBackup", "BackupManifest"}
    BY <1>t, <1>4, StepLists, Located DEF Length, At
  <2>2. phase = "process" /\ it = 3 => AcquireExternalStorage
    BY <1>4, <2>1, Owners
  <2>3. phase = "undo" /\ it = 4 => CopyUndo \/ CopyBackupUndo
    BY <1>4, <2>1, Owners
  <2>4. phase = "clean" /\ it = 4 => CopyClean \/ CopyBackupClean
    BY <1>4, <2>1, Owners
  <2>5. phase = "clean" /\ it < 4 => phase' = "clean" /\ it' = it + 1
    BY <1>4, <2>1, NeverFail, Proceeds
  <2>6. AcquireExternalStorage => Opens
    BY DEF Opens
  <2>7. CopyUndo \/ CopyBackupUndo \/ CopyClean \/ CopyBackupClean => Closes
    BY DEF Closes
  <2>8. Opens => phase = "process" /\ it = 3
    BY <1>t, <1>4, OpensAt DEF At
  <2>9. Closes => phase \in {"undo", "clean"} /\ it = 4
    BY <1>t, <1>4, ClosesAt DEF At
  <2> QED
    BY <1>t, <1>1, <1>2, <1>4, <2>1, <2>2, <2>3, <2>4, <2>5, <2>6, <2>7, <2>8, <2>9, Proceeds
<1>5. CASE ~Launches /\ req = "Move"
  <2>1. /\ Length(req) = 5
        /\ it = 4 => Step = "MoveInstalledStorage"
        /\ phase = "clean" => Step \notin {"RevokeSecurity", "CopyBackup", "BackupManifest"}
    BY <1>t, <1>5, StepLists, Located DEF Length, At
  <2>2. phase = "process" /\ it = 4 => Opens
    BY <1>5, <2>1, Owners DEF Opens
  <2>3. phase \in {"undo", "clean"} /\ it = 4 => Closes
    BY <1>5, <2>1, Owners DEF Closes
  <2>5. phase = "clean" /\ it < 4 => phase' = "clean" /\ it' = it + 1
    BY <1>5, <2>1, NeverFail, Proceeds
  <2>8. Opens => phase = "process" /\ it = 4
    BY <1>t, <1>5, OpensAt DEF At
  <2>9. Closes => phase \in {"undo", "clean"} /\ it = 4
    BY <1>t, <1>5, ClosesAt DEF At
  <2> QED
    BY <1>t, <1>1, <1>2, <1>5, <2>1, <2>2, <2>3, <2>5, <2>8, <2>9, Proceeds
<1>6. CASE ~Launches /\ req = "Uninstall"
  <2>1. /\ Length(req) = 14
        /\ it = 8 => Step = "AcquireExternalStorage"
        /\ it = 9 => Step = "Unregister"
        /\ it = 10 => Step \in NoProcess
        /\ it = 11 => Step = "RemoveFiles"
    BY <1>t, <1>6, StepLists DEF Length, NoProcess
  <2>2. phase = "process" /\ it = 8 => AcquireExternalStorage
    BY <1>6, <2>1, Owners
  <2>3. phase = "process" /\ it = 11 => RemoveFiles
    BY <1>6, <2>1, Owners
  <2>4. phase = "process" /\ it \in 9..11 => phase' = "process" /\ it' = it + 1
    BY <1>6, <2>1, NeverFail, Proceeds
  <2>6. (AcquireExternalStorage => Opens) /\ (RemoveFiles => Closes)
    BY DEF Opens, Closes
  <2>8. Opens => phase = "process" /\ it = 8
    BY <1>t, <1>6, OpensAt DEF At
  <2>9. Closes => phase = "process" /\ it = 11
    BY <1>t, <1>6, ClosesAt DEF At
  <2> QED
    BY <1>t, <1>1, <1>2, <1>6, <2>1, <2>2, <2>3, <2>4, <2>6, <2>8, <2>9, Proceeds
<1>7. CASE ~Launches /\ req = "Clear"
  BY <1>t, <1>7, Proceeds, OpensAt, ClosesAt DEF At
<1> QED
  BY <1>t, <1>3, <1>4, <1>5, <1>6, <1>7 DEF Kinds

\* What becomes of the part on the card, and of the session.
LEMMA CardMoves ==
  ASSUME TypeInv, Next, ~Begin, ~Exit
  PROVE  /\ ~Opens /\ ~Closes =>
              UNCHANGED <<card.at, card.session, ctx.ext>>
         /\ Opens =>
              \/ /\ ctx'.ext /\ card'.session = req
                 /\ AcquireExternalStorage => WantsCard /\ card'.at = "card" /\ phase' # "undo"
                 /\ ~AcquireExternalStorage => req = "Move"
              \/ /\ UNCHANGED <<card.session, ctx.ext>>
                 /\ card'.at = card.at \/ (req = "Install" /\ card'.at = "phone")
                 /\ phase' # "undo" => AcquireExternalStorage /\ ~WantsCard /\ card'.at = card.at
         /\ Closes =>
              /\ ctx'.ext = ctx.ext
              /\ ~ctx.ext => card' = card
              /\ ctx.ext => \/ card'.session = "none"
                            \/ /\ card' = card /\ ~CopyUndo /\ ~RemoveFiles
                               /\ \/ {"clean", "moveBack"} \cap faults' # {}
                                  \/ "inTheWay" \in past'
              /\ card'.at = "phone" \/ card'.at = card.at
              /\ ctx.ext /\ CopyUndo /\ card.session = "Install" => card'.at = "phone"
              /\ ctx.ext /\ RemoveFiles /\ card.session = "Uninstall" => card'.at = "phone"
              /\ ~ctx.ext /\ RemoveFiles /\ card.at = "card" => "cardForgotten" \in past'
<1>t. /\ card \in [at : Places, session : Sessions, mounted : BOOLEAN]
      /\ CtxType /\ LoopType
  BY DEF TypeInv, CardType
<1>1. ASSUME ~Opens, ~Closes
      PROVE  UNCHANGED <<card.at, card.session, ctx.ext>>
  <2>1. CASE EnableExternalMount \/ EnableExternalMountUndo \/ DisableExternalMount
    <3>1. /\ card' = card \/ \E b : card' = [card EXCEPT !.mounted = b]
          /\ ctx' = ctx \/ \E b : ctx' = [ctx EXCEPT !.mount = b]
      BY <2>1
      DEF EnableExternalMount, EnableExternalMountUndo, DisableExternalMount, Mount, Umount,
          KeepCard, KeepCtx
    <3> QED
      BY <1>t, <3>1 DEF CtxType
  <2>2. CASE ~(EnableExternalMount \/ EnableExternalMountUndo \/ DisableExternalMount)
    <3>1. card' = card
      BY <1>1, <2>2, CardFrame DEF CardActions, Opens, Closes
    <3>2. CASE CopyTep \/ UpdateTep
      <4>1. \/ ctx' = ctx
            \/ \E t : ctx' = [ctx EXCEPT !.tep = t, !.new = t]
            \/ \E t : ctx' = [ctx EXCEPT !.new = t]
        BY <3>2 DEF CopyTep, UpdateTep, CopyTepFile, PreserveTep, KeepCtx
      <4> QED
        BY <1>t, <3>1, <4>1 DEF CtxType
    <3>3. CASE ~CopyTep /\ ~UpdateTep
      BY <1>1, <2>2, <3>1, <3>3, CtxFrame DEF Opens
    <3> QED
      BY <3>2, <3>3
  <2> QED
    BY <2>1, <2>2
<1>2. CASE AcquireExternalStorage
  <2>1. req \in {"Install", "Update", "Uninstall"} /\ ~Closes /\ Opens
    BY <1>2, <1>t, OpensAt, ClosesAt DEF Opens, At
  <2>2. \/ ~WantsCard /\ card' = card /\ ctx' = ctx
        \/ /\ WantsCard /\ card' = [card EXCEPT !.session = req, !.at = "card"]
           /\ ctx' = [ctx EXCEPT !.ext = TRUE] /\ Ok
        \/ /\ card' = card \/ (req = "Install" /\ card' = [card EXCEPT !.at = "phone"])
           /\ ctx' = ctx /\ Fails
    BY <1>2, <2>1 DEF AcquireExternalStorage, Initialize, NotInitialized, KeepCard, KeepCtx
  <2>3. (Fails => phase' = "undo") /\ (Ok => phase' # "undo")
    BY <1>t, Handlers
  <2> QED
    BY <1>2, <1>t, <2>1, <2>2, <2>3 DEF CtxType
<1>3. CASE MoveInstalledStorage \/ MoveInstalledStorageRefused \/ MoveTep
  <2>1. req = "Move" /\ ~Closes /\ Opens /\ ~AcquireExternalStorage
    BY <1>3, <1>t, OpensAt, ClosesAt, Located
    DEF Opens, At, MoveInstalledStorage, MoveInstalledStorageRefused, MoveTep, Process
  <2>2. \/ /\ card' = [card EXCEPT !.session = "Move", !.at = Target, !.mounted = FALSE]
           /\ ctx' = [ctx EXCEPT !.ext = TRUE, !.new = NewLocation]
        \/ card' = card /\ ctx' = ctx /\ Fails
    BY <1>3
    DEF MoveInstalledStorage, MoveInstalledStorageRefused, MoveTep, Initialize,
        NotInitialized, KeepCard, KeepCtx
  <2>3. Fails => phase' = "undo"
    BY <1>t, Handlers
  <2> QED
    BY <1>t, <2>1, <2>2, <2>3 DEF CtxType
<1>4. CASE Closes
  <2>1. ~Opens /\ ctx' = ctx
    <3>1. ctx' = ctx
      BY <1>4
      DEF Closes, CopyUndo, CopyClean, CopyBackupUndo, CopyBackupClean, RemoveFiles,
          MoveInstalledStorageUndo, MoveInstalledStorageClean, KeepCtx
    <3>2. ~Opens
      BY <1>4, SessionPlaces
    <3> QED
      BY <3>1, <3>2
  <2>2. ~ctx.ext => card' = card
    BY <1>4
    DEF Closes, CopyUndo, CopyClean, CopyBackupUndo, CopyBackupClean, RemoveFiles,
        MoveInstalledStorageUndo, MoveInstalledStorageClean, CommitCard, AbortCard, KeepCard
  <2>3. ASSUME ctx.ext
        PROVE  \/ CommitCard \/ AbortCard
               \/ /\ card' = card
                  /\ \/ {"clean", "moveBack"} \cap faults' # {}
                     \/ "inTheWay" \in past'
    <3>1. CASE \/ CopyUndo \/ CopyClean \/ CopyBackupUndo \/ RemoveFiles
               \/ MoveInstalledStorageClean
      BY <3>1
      DEF CopyUndo, CopyClean, CopyBackupUndo, RemoveFiles, MoveInstalledStorageClean
    <3>2. CASE CopyBackupClean
      BY <3>2 DEF CopyBackupClean, Fault, KeepCard
    <3>3. CASE MoveInstalledStorageUndo
      BY <2>3, <3>3 DEF MoveInstalledStorageUndo, Fault, KeepCard
    <3> QED
      BY <1>4, <3>1, <3>2, <3>3 DEF Closes
  <2>4. (CopyUndo => AbortCard) /\ (RemoveFiles => CommitCard)
    BY DEF CopyUndo, RemoveFiles
  <2>5. ~ctx.ext /\ RemoveFiles /\ card.at = "card" => "cardForgotten" \in past'
    BY DEF RemoveFiles
  <2>6. ASSUME ctx.ext, CommitCard \/ AbortCard
        PROVE  /\ card'.session = "none"
               /\ card'.at = "phone" \/ card'.at = card.at
               /\ AbortCard /\ card.session = "Install" => card'.at = "phone"
               /\ CommitCard /\ card.session = "Uninstall" => card'.at = "phone"
    BY <1>t, <2>6 DEF CommitCard, AbortCard, Commit, Abort, Finalize
  <2> QED
    BY <1>4, <2>1, <2>2, <2>3, <2>4, <2>5, <2>6
<1> QED
  BY <1>1, <1>2, <1>3, <1>4 DEF Opens

LEMMA SessionInvStep ==
  ASSUME TypeInv, SessionInv, Next
  PROVE  SessionInv'
<1>1. CASE Begin
  <2>1. ~ctx'.ext
    BY <1>1, BeginsWith DEF Asked, TypeInv, CtxType
  <2> QED
    BY <2>1 DEF SessionInv
<1>2. CASE Exit
  <2>1. ~ctx'.ext
    BY <1>2, ExitsWith DEF Fresh
  <2> QED
    BY <2>1 DEF SessionInv
<1>3. CASE ~Begin /\ ~Exit
  <2>1. req' = req
    BY <1>3, Proceeds
  <2>2. CASE ~Opens /\ ~Closes
    BY <1>3, <2>1, <2>2, CardMoves, SessionPlaces DEF SessionInv
  <2>3. CASE Opens
    BY <1>3, <2>1, <2>3, CardMoves, SessionPlaces DEF SessionInv
  <2>4. CASE Closes
    BY <1>3, <2>4, CardMoves, SessionPlaces DEF SessionInv
  <2> QED
    BY <2>2, <2>3, <2>4
<1> QED
  BY <1>1, <1>2, <1>3

LEMMA CardInvStep ==
  ASSUME TypeInv, SessionInv, CardInv, Next
  PROVE  CardInv'
<1> SUFFICES ASSUME CardCalm'
             PROVE  /\ ~(Session' /\ ctx'.ext) => card'.session = "none"
                    /\ phase' = "idle" => ~card'.mounted
  BY DEF CardInv
<1>t. LoopType /\ card \in [at : Places, session : Sessions, mounted : BOOLEAN]
  BY DEF TypeInv, CardType
<1>1. CASE Begin
  <2>1. card' = card /\ CardCalm /\ phase = "idle" /\ phase' = "process"
    BY <1>1, BeginsWith DEF Asked, TypeInv, CtxType, CardCalm, storageVars
  <2>2. ~Session
    BY <2>1 DEF Session, Processes, Undoes, Cleans
  <2> QED
    BY <2>1, <2>2 DEF CardInv
<1>2. CASE Exit
  <2>1. CardCalm /\ phase = "end" /\ "umount" \notin faults
    BY <1>2, ExitsWith DEF CardCalm
  <2>2. card' = [card EXCEPT !.mounted = FALSE]
    BY <1>2, <2>1, ExitsWith
  <2>3. ~Session
    BY <2>1 DEF Session, Processes, Undoes, Cleans
  <2> QED
    BY <1>t, <2>1, <2>2, <2>3 DEF CardInv
<1>3. CASE Launches
  <2>1. UNCHANGED <<storageVars, runnerVars, req, ctx, past>>
    BY <1>3 DEF Launches, Launch
  <2> QED
    BY <2>1
    DEF CardInv, CardCalm, Session, Processes, Undoes, Cleans, storageVars, runnerVars
<1>4. CASE ~Begin /\ ~Exit /\ ~Launches
  <2>1. CardCalm /\ phase' # "idle" /\ req' = req
    BY <1>4, Proceeds DEF CardCalm
  <2>2. CASE ~Opens /\ ~Closes
    BY <1>4, <2>1, <2>2, CardMoves, SessionPlaces DEF CardInv
  <2>3. CASE Opens
    BY <1>4, <2>1, <2>3, CardMoves, SessionPlaces DEF SessionInv, CardInv
  <2>4. CASE Closes
    BY <1>4, <2>1, <2>4, CardMoves, SessionPlaces DEF CardInv, CardCalm
  <2> QED
    BY <2>2, <2>3, <2>4
<1> QED
  BY <1>1, <1>2, <1>3, <1>4

\* The package is in the database until the database forgets it.
LEMMA RowStays ==
  ASSUME TypeInv, RowInv, Next, ~Begin, ~Exit, dev.row.v # 0
  PROVE  dev'.row.v # 0 \/ RegisterUndo \/ Unregister
<1>t. LoopType /\ (phase # "idle" => made # 0)
  BY DEF TypeInv, CtxType
<1>1. CASE Register \/ UpdateApp
  <2>1. made # 0
    BY <1>1, <1>t DEF Register, UpdateApp, Process
  <2> QED
    BY <1>1, <2>1, RowMoves
    DEF Register, UpdateApp, RegisterUndo, UpdateAppUndo, Unregister, UnregisterUndo, Process, Undo
<1>2. CASE UpdateAppUndo \/ UnregisterUndo
  <2>1. ctx.old.v # 0
    BY <1>2, <1>t, Located DEF UpdateAppUndo, UnregisterUndo, Undo, At, RowInv, Handled
  <2> QED
    BY <1>2, <2>1, RowMoves
    DEF Register, UpdateApp, RegisterUndo, UpdateAppUndo, Unregister, UnregisterUndo, Process, Undo
<1> QED
  BY <1>1, <1>2, RowMoves

LEMMA PlaceInvStep ==
  ASSUME TypeInv, RowInv, SessionInv, PlaceInv, Next
  PROVE  PlaceInv'
<1> DEFINE Coming == Processes("Install", 4, 8) \/ Undoes("Install", 4, 8)
           Going == Processes("Uninstall", 10, 11)
<1> SUFFICES ASSUME "cardForgotten" \notin past'
             PROVE  /\ card'.at = "card" => dev'.row.v # 0 \/ Coming' \/ Going'
                    /\ Opened' => (card'.at = "card" <=> ctx'.ext)
  BY DEF PlaceInv
<1>t. /\ LoopType /\ it \in 1..Length(req) /\ req \in Kinds
      /\ card \in [at : Places, session : Sessions, mounted : BOOLEAN]
  BY StepLists DEF TypeInv, LoopType, CardType
<1>1. CASE Begin
  <2>1. card' = card /\ dev'.row = dev.row /\ phase = "idle" /\ phase' = "process" /\ it' = 1
        /\ past \subseteq past'
    BY <1>1, BeginsWith DEF Asked, TypeInv, DevType, CtxType, storageVars
  <2> QED
    BY <2>1 DEF PlaceInv, Opened, Processes, Undoes
<1>2. CASE Exit
  <2>1. card'.at = card.at /\ dev' = dev /\ phase = "end" /\ phase' = "idle" /\ past' = past
    BY <1>2, <1>t, ExitsWith
  <2> QED
    BY <2>1 DEF PlaceInv, Opened, Processes, Undoes
<1>3. CASE ~Begin /\ ~Exit
  <2>p. /\ req' = req
        /\ "cardForgotten" \notin past
        /\ card.at = "card" => dev.row.v # 0 \/ Coming \/ Going
        /\ Opened => (card.at = "card" <=> ctx.ext)
    BY <1>3, Proceeds DEF PlaceInv
  <2>o. /\ Opened => Session
        /\ Opened' => Session'
        /\ phase' = "undo" => phase # "process" \/ it' = it
        /\ AcquireExternalStorage => Opens /\ (req = "Install" => it = 3) /\ phase = "process"
    BY <1>3, <1>t, Proceeds, OpensAt DEF Opened, Session, Processes, Undoes, Opens, At
  <2>b. NoSessionYet /\ req = "Install" /\ phase = "process" => card.at # "card" /\ dev.row.v = 0
    BY <2>p DEF NoSessionYet, RowInv, Processes, Undoes
  <2>1. ASSUME Opened'
        PROVE  card'.at = "card" <=> ctx'.ext
    <3>1. CASE AcquireExternalStorage
      <4>1. NoSessionYet /\ ~ctx.ext /\ Opens
        BY <1>3, <2>o, <3>1, SessionPlaces DEF SessionInv
      <4>2. phase' # "undo"
        BY <1>3, <2>1, <2>o, <2>p, <3>1 DEF Opened, Processes, Undoes
      <4>3. req \in {"Install", "Update"}
        BY <2>1, <2>p DEF Opened, Processes, Undoes
      <4>4. ~WantsCard => card.at # "card"
        BY <2>b, <2>o, <3>1, <4>1, <4>3 DEF WantsCard
      <4> QED
        BY <1>3, <3>1, <4>1, <4>2, <4>4, CardMoves
    <3>2. CASE ~AcquireExternalStorage
      <4>1. Opened /\ ~Opens /\ ~Closes
        BY <1>3, <2>1, <2>o, <3>2, SessionPlaces
      <4> QED
        BY <1>3, <2>p, <4>1, CardMoves
    <3> QED
      BY <3>1, <3>2
  <2>2. ASSUME card'.at = "card"
        PROVE  dev'.row.v # 0 \/ Coming' \/ Going'
    <3>1. CASE dev.row.v # 0
      <4>1. CASE RegisterUndo
        <5>1. phase = "undo" /\ At("Install", 7)
          BY <4>1, <1>t, Located DEF RegisterUndo, Undo
        <5>2. ~Launches
          <6>1. \E ok \in BOOLEAN : Undone(ok)
            BY <4>1 DEF RegisterUndo
          <6> QED
            BY <1>3, <1>t, <5>1, <6>1, Handlers, Proceeds
        <5> QED
          BY <1>3, <2>p, <5>1, <5>2, Proceeds DEF Undoes, At
      <4>2. CASE Unregister
        <5>1. phase = "process" /\ At("Uninstall", 9) /\ Length(req) = 14
          BY <4>2, <1>t, Located DEF Unregister, Process, At, Length
        <5>2. Ok
          BY <4>2 DEF Unregister
        <5> QED
          BY <1>t, <2>p, <5>1, <5>2, Handlers DEF Processes, At
      <4> QED
        BY <1>3, <3>1, <4>1, <4>2, RowStays
    <3>2. CASE dev.row.v = 0 /\ Opens
      <4>1. /\ ~HasRow /\ phase = "process"
            /\ At("Install", 3) \/ At("Update", 3) \/ At("Uninstall", 8) \/ At("Move", 4)
        BY <1>t, <3>2, OpensAt DEF RowInv
      <4>2. At("Install", 3) /\ AcquireExternalStorage
        BY <1>t, <3>2, <4>1, OpensAt DEF HasRow, Handled, Processes, At
      <4>3. ctx'.ext /\ phase' # "undo"
        <5>1. card.at # "card"
          BY <1>3, <2>b, <3>2, <4>1, <4>2, SessionPlaces DEF At
        <5> QED
          BY <1>3, <2>2, <3>2, <4>2, <5>1, CardMoves
      <4>4. Session'
        BY <1>3, <3>2, <4>3, SessionPlaces
      <4>5. Length(req) = 8
        BY <4>2 DEF At, Length
      <4>6. phase' = "process" /\ it' \in {3, 4} /\ req' = "Install"
        BY <1>3, <2>p, <4>1, <4>2, <4>3, <4>5, Proceeds DEF At
      <4> QED
        BY <4>4, <4>6 DEF Session, Processes, Undoes, Cleans
    <3>3. CASE dev.row.v = 0 /\ ~Opens
      <4>1. card.at = "card"
        BY <1>3, <1>t, <2>2, <3>3, CardMoves
      <4>2. Coming \/ Going
        BY <2>p, <3>3, <4>1
      <4>3. CASE Closes
        <5>1. CASE Going
          <6>1. RemoveFiles /\ Session
            <7>1. phase = "process" /\ At("Uninstall", 11) /\ Session
              BY <1>3, <1>t, <4>3, <5>1, ClosesAt, SessionPlaces DEF Processes, At
            <7> QED
              BY <1>t, <4>3, <7>1, Located
              DEF At, Closes, CopyUndo, CopyClean, CopyBackupUndo, CopyBackupClean,
                  RemoveFiles, MoveInstalledStorageUndo, MoveInstalledStorageClean,
                  Process, Undo, Clean
          <6> QED
            BY <1>3, <1>t, <2>2, <4>1, <4>3, <5>1, <6>1, CardMoves DEF SessionInv, Processes
        <5>2. CASE Coming
          <6>1. CopyUndo /\ Session /\ Opened
            <7>1. phase = "undo" /\ At("Install", 4) /\ Session /\ Opened
              BY <1>3, <1>t, <4>3, <5>2, ClosesAt, SessionPlaces
              DEF Processes, Undoes, At, Opened
            <7> QED
              BY <1>t, <4>3, <7>1, Located
              DEF At, Closes, CopyUndo, CopyClean, CopyBackupUndo, CopyBackupClean,
                  RemoveFiles, MoveInstalledStorageUndo, MoveInstalledStorageClean,
                  Process, Undo, Clean
          <6>2. ctx.ext
            BY <2>p, <4>1, <6>1
          <6> QED
            BY <1>3, <1>t, <2>2, <4>3, <5>2, <6>1, <6>2, CardMoves
            DEF SessionInv, Processes, Undoes
        <5> QED
          BY <4>2, <5>1, <5>2
      <4>4. CASE ~Closes
        <5>1. Session'
          BY <1>3, <4>2, <4>4, SessionPlaces DEF Session, Processes, Undoes
        <5>2. CASE Going
          <6>1. CASE it = 10 \/ Launches
            BY <1>3, <2>p, <5>1, <5>2, <6>1, Proceeds
            DEF Session, Processes, Undoes, Cleans
          <6>2. CASE it = 11 /\ ~Launches
            BY <1>3, <1>t, <4>4, <5>2, <6>2, StepLists, Owners DEF Processes, Closes
          <6> QED
            BY <5>2, <6>1, <6>2 DEF Processes
        <5>3. CASE Coming
          <6>1. ~(phase' = "clean")
            <7>1. phase = "process" /\ it = 8 => dev.row.v # 0
              BY <5>3 DEF RowInv, HasRow, Processes, Undoes
            <7> QED
              BY <1>3, <3>3, <5>3, <7>1, Proceeds DEF Processes, Undoes, Length
          <6> QED
            BY <1>3, <2>p, <5>1, <5>3, <6>1, Proceeds
            DEF Session, Processes, Undoes, Cleans
        <5> QED
          BY <4>2, <5>2, <5>3
      <4> QED
        BY <4>3, <4>4
    <3> QED
      BY <3>1, <3>2, <3>3
  <2> QED
    BY <2>1, <2>2
<1> QED
  BY <1>1, <1>2, <1>3

\* The invariants of the card and of the database, together.
CardSafe == TypeInv /\ RowInv /\ SessionInv /\ PlaceInv /\ CardInv

LEMMA CardSafeInit == Init => CardSafe
<1> SUFFICES ASSUME Init
             PROVE  CardSafe
  OBVIOUS
<1>1. TypeInv
  BY TypeInvInit
<1>2. phase = "idle" /\ dev.row = NoRow /\ card = NoCard /\ ~ctx.ext
  BY DEF Init, RunnerInit, Fresh
<1>3. RowInv
  BY <1>2 DEF RowInv, Handled, HasRow, Processes, Cleans, NoRow
<1>4. SessionInv /\ PlaceInv /\ CardInv
  BY <1>2
  DEF SessionInv, PlaceInv, CardInv, NoCard, Session, Opened, Processes, Undoes, Cleans
<1> QED
  BY <1>1, <1>3, <1>4 DEF CardSafe

LEMMA CardSafeStep == CardSafe /\ [Next]_vars => CardSafe'
<1>1. CardSafe /\ Next => CardSafe'
  BY TypeInvStep, RowInvStep, SessionInvStep, PlaceInvStep, CardInvStep DEF CardSafe
<1>2. CardSafe /\ UNCHANGED vars => CardSafe'
  BY TypeInvStep
  DEF CardSafe, vars, storageVars, runnerVars, RowInv, SessionInv, PlaceInv, CardInv, CardCalm,
      Handled, HasRow, NoSessionYet, Session, Opened, Processes, Undoes, Cleans
<1> QED
  BY <1>1, <1>2

\* The sessions with app2ext: each is opened, used and closed by one request, and
\* the place of the package follows it.
THEOREM CardInvariant == Spec => []CardSafe
  BY CardSafeInit, CardSafeStep, PTL DEF Spec

\* CardReleased: between two requests no session with app2ext is open, nothing is
\* mounted, and nothing of a package that is gone is on the card.
THEOREM CardReleasedHolds == Spec => []CardReleased
<1>1. CardSafe => CardReleased
  <2> SUFFICES ASSUME CardSafe, phase = "idle", CardCalm
               PROVE  card.session = "none" /\ ~card.mounted /\ (dev.row.v = 0 => card.at = "phone")
    BY DEF CardReleased, CardCalm, Resting, Installed
  <2>1. ~Session
    BY DEF Session, Processes, Undoes, Cleans
  <2>2. card.at = "card" => dev.row.v # 0
    BY DEF CardSafe, PlaceInv, CardCalm, Processes, Undoes
  <2> QED
    BY <2>1, <2>2 DEF CardSafe, CardInv, TypeInv, CardType, Places
<1> QED
  BY <1>1, CardInvariant, PTL

-------------------------------------------------------------------------------
(* The files of the package *)

\* The actions that change a file of the package, its manifest, its icons or the
\* version in the database.
FilesActions ==
  \/ Copy \/ CopyUndo \/ CopyBackup \/ CopyBackupUndo \/ CopyBackupClean \/ RemoveFiles
  \/ RemoveIcons \/ ClearData \/ CreateManifest \/ CreateManifestUndo \/ BackupManifestUndo
  \/ Register \/ RegisterUndo \/ UpdateApp \/ UpdateAppUndo \/ Unregister \/ UnregisterUndo

LEMMA FilesPlaces ==
  ASSUME LoopType
  PROVE  /\ Copy => phase = "process" /\ At("Install", 4)
         /\ CopyUndo => phase = "undo" /\ At("Install", 4)
         /\ CopyBackup => phase = "process" /\ At("Update", 4)
         /\ CopyBackupUndo => phase = "undo" /\ At("Update", 4)
         /\ CopyBackupClean => phase = "clean" /\ At("Update", 4)
         /\ RemoveFiles => phase = "process" /\ At("Uninstall", 11)
         /\ RemoveIcons => phase = "process" /\ At("Uninstall", 13)
         /\ ClearData => phase = "process" /\ At("Clear", 2)
         /\ CreateManifest => phase = "process" /\ At("Install", 6)
         /\ CreateManifestUndo => phase = "undo" /\ At("Install", 6)
         /\ BackupManifestUndo => phase = "undo" /\ At("Uninstall", 7)
         /\ Register => phase = "process" /\ At("Install", 7)
         /\ RegisterUndo => phase = "undo" /\ At("Install", 7)
         /\ UpdateApp => phase = "process" /\ At("Update", 6)
         /\ UpdateAppUndo => phase = "undo" /\ At("Update", 6)
         /\ Unregister => phase = "process" /\ At("Uninstall", 9)
         /\ UnregisterUndo => phase = "undo" /\ At("Uninstall", 9)
<1>1. /\ Copy => phase = "process" /\ At("Install", 4)
      /\ CopyUndo => phase = "undo" /\ At("Install", 4)
      /\ CopyBackup => phase = "process" /\ At("Update", 4)
  BY Located DEF Copy, CopyUndo, CopyBackup, Process, Undo
<1>2. /\ CopyBackupUndo => phase = "undo" /\ At("Update", 4)
      /\ CopyBackupClean => phase = "clean" /\ At("Update", 4)
      /\ RemoveFiles => phase = "process" /\ At("Uninstall", 11)
  BY Located DEF CopyBackupUndo, CopyBackupClean, RemoveFiles, Process, Undo, Clean
<1>3. /\ RemoveIcons => phase = "process" /\ At("Uninstall", 13)
      /\ ClearData => phase = "process" /\ At("Clear", 2)
      /\ CreateManifest => phase = "process" /\ At("Install", 6)
  BY Located DEF RemoveIcons, ClearData, CreateManifest, Process
<1>4. /\ CreateManifestUndo => phase = "undo" /\ At("Install", 6)
      /\ BackupManifestUndo => phase = "undo" /\ At("Uninstall", 7)
      /\ Register => phase = "process" /\ At("Install", 7)
  BY Located DEF CreateManifestUndo, BackupManifestUndo, Register, Process, Undo
<1>5. /\ RegisterUndo => phase = "undo" /\ At("Install", 7)
      /\ UpdateApp => phase = "process" /\ At("Update", 6)
      /\ UpdateAppUndo => phase = "undo" /\ At("Update", 6)
  BY Located DEF RegisterUndo, UpdateApp, UpdateAppUndo, Process, Undo
<1>6. /\ Unregister => phase = "process" /\ At("Uninstall", 9)
      /\ UnregisterUndo => phase = "undo" /\ At("Uninstall", 9)
  BY Located DEF Unregister, UnregisterUndo, Process, Undo
<1> QED
  BY <1>1, <1>2, <1>3, <1>4, <1>5, <1>6

LEMMA FilesFrame ==
  ASSUME TypeInv, Next, ~Begin, ~Exit, ~FilesActions
  PROVE  /\ UNCHANGED <<dev.row.v, dev.files, dev.bck, dev.xml, dev.icons>>
         /\ dev'.data = dev.data \/ (Launches /\ dev.row.enabled)
<1>t. DevType
  BY DEF TypeInv
<1>1. dev'.row.v = dev.row.v
  BY RowMoves DEF FilesActions
<1>2. CASE dev' = dev
  BY <1>2
<1>3. CASE Launches
  BY <1>1, <1>3, <1>t DEF DevType, Launches, Launch
<1>4. CASE \/ KillApps \/ RegisterSecurity \/ RollbackInstallationSecurityUndo
           \/ UpdateSecurityUndo \/ RollbackDeinstallationSecurityUndo \/ RevokeSecurityClean
           \/ Disable \/ Enable
  BY <1>1, <1>4, <1>t
  DEF DevType, KillApps, RegisterSecurity, RollbackInstallationSecurityUndo,
      UpdateSecurityUndo, RollbackDeinstallationSecurityUndo, RevokeSecurityClean, Registered,
      Revoked, Disable, Enable, UpdatePkgDisableInfo, SetEnabled, KeepDev
<1>5. CASE \/ CopyTep \/ CopyTepUndo \/ UpdateTep \/ UpdateTepUndo \/ UpdateTepClean \/ RemoveTep
  BY <1>1, <1>5, <1>t
  DEF DevType, CopyTep, CopyTepFile, CopyTepUndo, UpdateTep, PreserveTep, UpdateTepUndo,
      UpdateTepClean, RemoveTep, Placed, Moved, TornAt, KeepDev
<1>6. CASE \/ MoveTep \/ MoveInstalledStorageUndo \/ BackupManifest \/ BackupManifestClean
  BY <1>1, <1>6, <1>t
  DEF DevType, MoveTep, MoveInstalledStorageUndo, MoveBackTep, Placed, Moved, BackupManifest,
      BackupManifestClean, KeepDev
<1> QED
  BY <1>2, <1>3, <1>4, <1>5, <1>6, DevFrame DEF Next, FilesActions, Launches

\* What each of them does when no failure without a way back has happened.
LEMMA FilesMoves ==
  ASSUME TypeInv, FilesCalm'
  PROVE  /\ Copy =>
              /\ UNCHANGED <<dev.row.v, dev.bck, dev.xml, dev.icons, dev.data>>
              /\ (Ok /\ dev'.files = made) \/ Fails
         /\ CopyUndo =>
              /\ UNCHANGED <<dev.row.v, dev.bck, dev.xml, dev.icons>>
              /\ dev'.files = 0 /\ ~dev'.data
         /\ CopyBackup =>
              /\ UNCHANGED <<dev.row.v, dev.xml, dev.icons>>
              /\ \/ Ok /\ dev.bck = 0 /\ dev'.files = made /\ dev'.bck = dev.files
                 \/ Fails /\ dev'.files = dev.files /\ dev'.bck = dev.bck
                 \/ Fails /\ dev'.bck = dev.files
         /\ CopyBackupUndo =>
              /\ UNCHANGED <<dev.row.v, dev.xml, dev.icons>>
              /\ dev'.bck = 0
              /\ dev'.files = IF dev.bck = 0 THEN dev.files ELSE dev.bck
         /\ CopyBackupClean =>
              /\ UNCHANGED <<dev.row.v, dev.files, dev.xml, dev.icons>>
              /\ dev'.bck = 0 /\ Cleaned
         /\ RemoveFiles =>
              /\ UNCHANGED <<dev.row.v, dev.bck, dev.xml, dev.icons>>
              /\ dev'.files = 0 /\ ~dev'.data
         /\ RemoveIcons =>
              /\ UNCHANGED <<dev.row.v, dev.files, dev.bck, dev.xml, dev.data>>
              /\ ~dev'.icons /\ Ok
         /\ ClearData => UNCHANGED <<dev.row.v, dev.files, dev.bck, dev.xml, dev.icons>>
         /\ CreateManifest =>
              /\ UNCHANGED <<dev.row.v, dev.files, dev.bck, dev.data>>
              /\ (Ok /\ dev'.xml) \/ Fails
         /\ CreateManifestUndo =>
              /\ UNCHANGED <<dev.row.v, dev.files, dev.bck, dev.data>>
              /\ ~dev'.xml /\ ~dev'.icons
         /\ BackupManifestUndo =>
              /\ UNCHANGED <<dev.row.v, dev.files, dev.bck, dev.icons, dev.data>>
              /\ dev.xml => dev'.xml
         /\ Register \/ RegisterUndo \/ UpdateApp \/ UpdateAppUndo \/ UnregisterUndo =>
              UNCHANGED <<dev.files, dev.bck, dev.xml, dev.icons, dev.data>>
         /\ Register => (Ok /\ dev'.row.v = made) \/ (Fails /\ dev'.row.v = dev.row.v)
         /\ RegisterUndo => dev'.row.v = 0
         /\ UpdateApp => (Ok /\ dev'.row.v = made) \/ (Fails /\ dev'.row.v = dev.row.v)
         /\ UpdateAppUndo \/ UnregisterUndo => dev'.row.v = ctx.old.v
         /\ Unregister =>
              /\ UNCHANGED <<dev.files, dev.bck, dev.icons, dev.data>>
              /\ dev'.row.v = 0 /\ ~dev'.xml
<1>t. DevType
  BY DEF TypeInv
<1>f. \A kind \in {"remove", "clean", "iconDir", "unregister", "registerAgain"} : ~Fault(kind)
  BY DEF FilesCalm, Fault
<1>w. /\ NoRow.v = 0
      /\ RowWith(made, ctx.tep, TRUE).v = made
      /\ \A e \in BOOLEAN : /\ RowWith(made, ctx.new, e).v = made
                            /\ RowWith(ctx.old.v, ctx.old.tep, e).v = ctx.old.v
  BY DEF NoRow, RowWith
<1>1. Copy =>
        /\ UNCHANGED <<dev.row.v, dev.bck, dev.xml, dev.icons, dev.data>>
        /\ (Ok /\ dev'.files = made) \/ Fails
  BY <1>t DEF DevType, Copy
<1>2. CopyUndo =>
        /\ UNCHANGED <<dev.row.v, dev.bck, dev.xml, dev.icons>>
        /\ dev'.files = 0 /\ ~dev'.data
  BY <1>t, <1>f DEF DevType, CopyUndo, RemovedDir
<1>3. CopyBackup =>
        /\ UNCHANGED <<dev.row.v, dev.xml, dev.icons>>
        /\ \/ Ok /\ dev.bck = 0 /\ dev'.files = made /\ dev'.bck = dev.files
           \/ Fails /\ dev'.files = dev.files /\ dev'.bck = dev.bck
           \/ Fails /\ dev'.bck = dev.files
  BY <1>t DEF DevType, CopyBackup, BackedUp, KeepDev
<1>4. CopyBackupUndo =>
        /\ UNCHANGED <<dev.row.v, dev.xml, dev.icons>>
        /\ dev'.bck = 0
        /\ dev'.files = IF dev.bck = 0 THEN dev.files ELSE dev.bck
  BY <1>t, <1>f DEF DevType, CopyBackupUndo, KeepDev
<1>5. CopyBackupClean =>
        /\ UNCHANGED <<dev.row.v, dev.files, dev.xml, dev.icons>>
        /\ dev'.bck = 0 /\ Cleaned
  BY <1>t, <1>f DEF DevType, CopyBackupClean
<1>6. RemoveFiles =>
        /\ UNCHANGED <<dev.row.v, dev.bck, dev.xml, dev.icons>>
        /\ dev'.files = 0 /\ ~dev'.data
  BY <1>t, <1>f DEF DevType, RemoveFiles, RemovedDir
<1>7. RemoveIcons =>
        /\ UNCHANGED <<dev.row.v, dev.files, dev.bck, dev.xml, dev.data>>
        /\ ~dev'.icons /\ Ok
  BY <1>t, <1>f DEF DevType, RemoveIcons
<1>8. ClearData => UNCHANGED <<dev.row.v, dev.files, dev.bck, dev.xml, dev.icons>>
  BY <1>t DEF DevType, ClearData, KeepDev
<1>9. CreateManifest =>
        /\ UNCHANGED <<dev.row.v, dev.files, dev.bck, dev.data>>
        /\ (Ok /\ dev'.xml) \/ Fails
  BY <1>t DEF DevType, CreateManifest, KeepDev
<1>10. CreateManifestUndo =>
         /\ UNCHANGED <<dev.row.v, dev.files, dev.bck, dev.data>>
         /\ ~dev'.xml /\ ~dev'.icons
  BY <1>t DEF DevType, CreateManifestUndo
<1>11. BackupManifestUndo =>
         /\ UNCHANGED <<dev.row.v, dev.files, dev.bck, dev.icons, dev.data>>
         /\ dev.xml => dev'.xml
  BY <1>t DEF DevType, BackupManifestUndo
<1>12. Register \/ RegisterUndo \/ UpdateApp \/ UpdateAppUndo \/ UnregisterUndo =>
         UNCHANGED <<dev.files, dev.bck, dev.xml, dev.icons, dev.data>>
  BY <1>t
  DEF DevType, Register, RegisterUndo, UpdateApp, UpdateAppUndo, UnregisterUndo, Written, KeepDev
<1>13. /\ Register => (Ok /\ dev'.row.v = made) \/ (Fails /\ dev'.row.v = dev.row.v)
       /\ RegisterUndo => dev'.row.v = 0
  <2>1. Register => \/ Ok /\ dev'.row = RowWith(made, ctx.tep, TRUE)
                    \/ Fails /\ dev'.row = dev.row
    BY <1>t DEF DevType, Register, KeepDev
  <2>2. RegisterUndo => dev'.row = NoRow
    BY <1>t, <1>f DEF DevType, RegisterUndo
  <2> QED
    BY <1>w, <2>1, <2>2
<1>14. UpdateApp => (Ok /\ dev'.row.v = made) \/ (Fails /\ dev'.row.v = dev.row.v)
  <2>1. UpdateApp => \/ Ok /\ \E e \in BOOLEAN : dev'.row = RowWith(made, ctx.new, e)
                     \/ Fails /\ dev'.row = dev.row
    BY <1>t DEF DevType, UpdateApp, Written, KeepDev
  <2> QED
    BY <1>w, <2>1
<1>15. UpdateAppUndo \/ UnregisterUndo => dev'.row.v = ctx.old.v
  <2>1. UpdateAppUndo \/ UnregisterUndo =>
          \E e \in BOOLEAN : dev'.row = RowWith(ctx.old.v, ctx.old.tep, e)
    BY <1>t, <1>f DEF DevType, UpdateAppUndo, UnregisterUndo, Written
  <2> QED
    BY <1>w, <2>1
<1>16. Unregister =>
         /\ UNCHANGED <<dev.files, dev.bck, dev.icons, dev.data>>
         /\ dev'.row.v = 0 /\ ~dev'.xml
  BY <1>t, <1>f, <1>w DEF DevType, Unregister
<1> QED
  BY <1>1, <1>2, <1>3, <1>4, <1>5, <1>6, <1>7, <1>8, <1>9, <1>10, <1>11, <1>12, <1>13, <1>14,
     <1>15, <1>16

\* A step that is none of them leaves the files alone, and an application that
\* starts may do so only when the package is in the database.
LEMMA FilesKept ==
  ASSUME TypeInv, RowInv, Next, ~Begin, ~Exit, ~FilesActions
  PROVE  /\ UNCHANGED <<dev.row.v, dev.files, dev.bck, dev.xml, dev.icons>>
         /\ dev.row.v = 0 => dev'.data = dev.data
<1>1. dev.row.v = 0 => ~dev.row.enabled
  BY DEF RowInv, NoRow
<1> QED
  BY <1>1, FilesFrame

LEMMA FilesCalmStep ==
  ASSUME Next, FilesCalm'
  PROVE  FilesCalm
  BY FaultMoves DEF FilesCalm

LEMMA InstallFilesStep ==
  ASSUME TypeInv, RowInv, FilesInv, Next, ~Begin, ~Exit, FilesCalm', req = "Install"
  PROVE  FilesInv'
<1>t. /\ LoopType /\ it \in 1..8 /\ Length(req) = 8
      /\ made # 0 \/ phase = "idle"
      /\ phase \in Phases
  BY StepLists DEF TypeInv, LoopType, CtxType, Length
<1>i. /\ phase \in {"idle", "end"} => IF dev.row.v # 0 THEN Whole(dev.row.v) ELSE Gone
      /\ phase \in {"process", "undo"} => InstallFiles
      /\ phase = "clean" => Whole(made)
  BY FilesCalmStep DEF FilesInv, Installed
<1>p. /\ UNCHANGED <<req, made, ctx.old>>
      /\ \/ UNCHANGED <<phase, it>> /\ Launches
         \/ /\ phase = "process" /\ phase' = "process" /\ it' = it + 1 /\ it < 8
         \/ /\ phase = "process" /\ phase' = "clean" /\ it' = 1 /\ it = 8
         \/ /\ phase = "process" /\ phase' = "undo" /\ it' = it
         \/ /\ phase = "undo" /\ phase' = "undo" /\ it' = it - 1 /\ it > 1
         \/ /\ phase = "undo" /\ phase' = "end" /\ it' = it /\ it = 1
         \/ /\ phase = "clean" /\ phase' = "clean" /\ it' = it + 1 /\ it < 8
         \/ /\ phase = "clean" /\ phase' = "end" /\ it' = it
  BY <1>t, Proceeds
<1>o. \/ Launches
      \/ /\ phase = "process" /\ it = 4 => Copy
         /\ phase = "process" /\ it = 6 => CreateManifest
         /\ phase = "process" /\ it = 7 => Register
         /\ phase = "undo" /\ it = 4 => CopyUndo
         /\ phase = "undo" /\ it = 6 => CreateManifestUndo
         /\ phase = "undo" /\ it = 7 => RegisterUndo
  BY <1>t, Owners, StepLists
<1>f. \/ ~FilesActions
      \/ phase = "process" /\ it = 4 /\ Copy
      \/ phase = "undo" /\ it = 4 /\ CopyUndo
      \/ phase = "process" /\ it = 6 /\ CreateManifest
      \/ phase = "undo" /\ it = 6 /\ CreateManifestUndo
      \/ phase = "process" /\ it = 7 /\ Register
      \/ phase = "undo" /\ it = 7 /\ RegisterUndo
  BY <1>t, FilesPlaces DEF FilesActions, At
<1>s. SUFFICES /\ phase' \in {"idle", "end"} => IF dev'.row.v # 0 THEN Whole(dev.row.v)' ELSE Gone'
               /\ phase' \in {"process", "undo"} => InstallFiles'
               /\ phase' = "clean" => Whole(made)'
  BY <1>p DEF FilesInv, Installed
<1>1. CASE ~FilesActions
  <2>1. /\ UNCHANGED <<dev.row.v, dev.files, dev.bck, dev.xml, dev.icons>>
        /\ dev.row.v = 0 => dev'.data = dev.data
    BY <1>1, FilesKept
  <2>2. CASE Launches
    <3>1. UNCHANGED <<phase, it, req, made>>
      BY <2>2, Proceeds
    <3> QED
      BY <1>i, <2>1, <3>1 DEF InstallFiles, Processes, Undoes, Whole, Gone
  <2>3. CASE ~Launches
    <3>1. ~(phase \in {"process", "undo"} /\ it \in {4, 6, 7})
      BY <1>1, <1>o, <2>3 DEF FilesActions
    <3> QED
      BY <1>i, <1>p, <1>t, <2>1, <2>3, <3>1 DEF InstallFiles, Processes, Undoes, Whole, Gone
  <2> QED
    BY <2>2, <2>3
<1>2. CASE Copy /\ phase = "process" /\ it = 4
  <2>1. /\ UNCHANGED <<dev.row.v, dev.bck, dev.xml, dev.icons, dev.data>>
        /\ \/ dev'.files = made /\ phase' = "process" /\ it' = 5
           \/ phase' = "undo" /\ it' = 4
    BY <1>2, <1>t, FilesMoves, Handlers
  <2> QED
    BY <1>2, <1>i, <1>p, <2>1 DEF InstallFiles, Processes, Undoes
<1>3. CASE CopyUndo /\ phase = "undo" /\ it = 4
  <2>1. /\ UNCHANGED <<dev.row.v, dev.bck, dev.xml, dev.icons>>
        /\ dev'.files = 0 /\ ~dev'.data
    BY <1>3, FilesMoves
  <2>2. phase' = "undo" /\ it' = 3
    <3>1. \E ok \in BOOLEAN : Undone(ok)
      BY <1>3 DEF CopyUndo
    <3> QED
      BY <1>3, <1>t, <3>1, Handlers
  <2> QED
    BY <1>3, <1>i, <1>p, <2>1, <2>2 DEF InstallFiles, Processes, Undoes
<1>4. CASE CreateManifest /\ phase = "process" /\ it = 6
  <2>1. /\ UNCHANGED <<dev.row.v, dev.files, dev.bck, dev.data>>
        /\ \/ dev'.xml /\ phase' = "process" /\ it' = 7
           \/ phase' = "undo" /\ it' = 6
    BY <1>4, <1>t, FilesMoves, Handlers
  <2> QED
    BY <1>4, <1>i, <1>p, <2>1 DEF InstallFiles, Processes, Undoes
<1>5. CASE CreateManifestUndo /\ phase = "undo" /\ it = 6
  <2>1. /\ UNCHANGED <<dev.row.v, dev.files, dev.bck, dev.data>>
        /\ ~dev'.xml /\ ~dev'.icons
    BY <1>5, FilesMoves
  <2>2. phase' = "undo" /\ it' = 5
    <3>1. \E ok \in BOOLEAN : Undone(ok)
      BY <1>5 DEF CreateManifestUndo
    <3> QED
      BY <1>5, <1>t, <3>1, Handlers
  <2> QED
    BY <1>5, <1>i, <1>p, <2>1, <2>2 DEF InstallFiles, Processes, Undoes
<1>6. CASE Register /\ phase = "process" /\ it = 7
  <2>1. /\ UNCHANGED <<dev.files, dev.bck, dev.xml, dev.icons, dev.data>>
        /\ \/ dev'.row.v = made /\ phase' = "process" /\ it' = 8
           \/ dev'.row.v = dev.row.v /\ phase' = "undo" /\ it' = 7
    BY <1>6, <1>t, FilesMoves, Handlers
  <2> QED
    BY <1>6, <1>i, <1>p, <2>1 DEF InstallFiles, Processes, Undoes
<1>7. CASE RegisterUndo /\ phase = "undo" /\ it = 7
  <2>1. /\ UNCHANGED <<dev.files, dev.bck, dev.xml, dev.icons, dev.data>>
        /\ dev'.row.v = 0
    BY <1>7, FilesMoves
  <2>2. phase' = "undo" /\ it' = 6
    <3>1. \E ok \in BOOLEAN : Undone(ok)
      BY <1>7 DEF RegisterUndo
    <3> QED
      BY <1>7, <1>t, <3>1, Handlers
  <2> QED
    BY <1>7, <1>i, <1>p, <2>1, <2>2 DEF InstallFiles, Processes, Undoes
<1> QED
  BY <1>f, <1>1, <1>2, <1>3, <1>4, <1>5, <1>6, <1>7

LEMMA UpdateFilesStep ==
  ASSUME TypeInv, RowInv, FilesInv, Next, ~Begin, ~Exit, FilesCalm', req = "Update"
  PROVE  FilesInv'
<1>t. /\ LoopType /\ it \in 1..8 /\ Length(req) = 8
      /\ phase # "idle" => made # 0
      /\ Handled => ctx.old.v # 0
      /\ phase \in Phases
  BY StepLists DEF TypeInv, LoopType, CtxType, Length, RowInv
<1>i. /\ phase \in {"idle", "end"} => IF dev.row.v # 0 THEN Whole(dev.row.v) ELSE Gone
      /\ phase \in {"process", "undo"} => UpdateFiles
      /\ phase = "clean" => /\ dev.row.v = made /\ dev.files = made /\ dev.xml
                            /\ it > 4 => dev.bck = 0
  BY FilesCalmStep DEF FilesInv, Installed
<1>p. /\ UNCHANGED <<req, made, ctx.old>>
      /\ \/ UNCHANGED <<phase, it>> /\ Launches
         \/ /\ phase = "process" /\ phase' = "process" /\ it' = it + 1 /\ it < 8
         \/ /\ phase = "process" /\ phase' = "clean" /\ it' = 1 /\ it = 8
         \/ /\ phase = "process" /\ phase' = "undo" /\ it' = it
         \/ /\ phase = "undo" /\ phase' = "undo" /\ it' = it - 1 /\ it > 1
         \/ /\ phase = "undo" /\ phase' = "end" /\ it' = it /\ it = 1
         \/ /\ phase = "clean" /\ phase' = "clean" /\ it' = it + 1 /\ it < 8
         \/ /\ phase = "clean" /\ phase' = "end" /\ it' = it
  BY <1>t, Proceeds
<1>o. \/ Launches
      \/ /\ phase = "process" /\ it = 4 => CopyBackup
         /\ phase = "process" /\ it = 6 => UpdateApp
         /\ phase = "undo" /\ it = 4 => CopyBackupUndo
         /\ phase = "undo" /\ it = 6 => UpdateAppUndo
         /\ phase = "clean" /\ it = 4 => CopyBackupClean
  BY <1>t, Owners, StepLists
<1>f. \/ ~FilesActions
      \/ phase = "process" /\ it = 4 /\ CopyBackup
      \/ phase = "undo" /\ it = 4 /\ CopyBackupUndo
      \/ phase = "clean" /\ it = 4 /\ CopyBackupClean
      \/ phase = "process" /\ it = 6 /\ UpdateApp
      \/ phase = "undo" /\ it = 6 /\ UpdateAppUndo
  BY <1>t, FilesPlaces DEF FilesActions, At
<1>e. phase = "clean" /\ phase' = "end" /\ ~Launches => it = 8 \/ it = 4
  BY <1>t, NeverFail, StepLists
<1>s. SUFFICES /\ phase' \in {"idle", "end"} => IF dev'.row.v # 0 THEN Whole(dev.row.v)' ELSE Gone'
               /\ phase' \in {"process", "undo"} => UpdateFiles'
               /\ phase' = "clean" => /\ dev'.row.v = made' /\ dev'.files = made' /\ dev'.xml
                                      /\ it' > 4 => dev'.bck = 0
  BY <1>p DEF FilesInv, Installed
<1>1. CASE ~FilesActions
  <2>1. /\ UNCHANGED <<dev.row.v, dev.files, dev.bck, dev.xml, dev.icons>>
        /\ dev.row.v = 0 => dev'.data = dev.data
    BY <1>1, FilesKept
  <2>2. CASE Launches
    <3>1. UNCHANGED <<phase, it, req, made, ctx.old>>
      BY <2>2, Proceeds
    <3> QED
      BY <1>i, <2>1, <3>1 DEF UpdateFiles, Processes, Undoes, Whole, Gone
  <2>3. CASE ~Launches
    <3>1. /\ ~(phase \in {"process", "undo"} /\ it \in {4, 6})
          /\ ~(phase = "clean" /\ it = 4)
      BY <1>1, <1>o, <2>3 DEF FilesActions
    <3> QED
      BY <1>e, <1>i, <1>p, <1>t, <2>1, <2>3, <3>1
      DEF UpdateFiles, Processes, Undoes, Whole, Gone, Handled
  <2> QED
    BY <2>2, <2>3
<1>2. CASE CopyBackup /\ phase = "process" /\ it = 4
  <2>1. /\ UNCHANGED <<dev.row.v, dev.xml, dev.icons>>
        /\ \/ /\ dev'.files = made /\ dev'.bck = dev.files
              /\ phase' = "process" /\ it' = 5
           \/ /\ dev'.files = dev.files /\ dev'.bck = dev.bck
              /\ phase' = "undo" /\ it' = 4
           \/ /\ dev'.bck = dev.files
              /\ phase' = "undo" /\ it' = 4
    BY <1>2, <1>t, FilesMoves, Handlers
  <2> QED
    BY <1>2, <1>i, <1>p, <1>t, <2>1 DEF UpdateFiles, Processes, Undoes, Handled
<1>3. CASE CopyBackupUndo /\ phase = "undo" /\ it = 4
  <2>1. /\ UNCHANGED <<dev.row.v, dev.xml, dev.icons>>
        /\ dev'.bck = 0
        /\ dev'.files = IF dev.bck = 0 THEN dev.files ELSE dev.bck
    BY <1>3, FilesMoves
  <2>2. phase' = "undo" /\ it' = 3
    <3>1. \E ok \in BOOLEAN : Undone(ok)
      BY <1>3 DEF CopyBackupUndo
    <3> QED
      BY <1>3, <1>t, <3>1, Handlers
  <2> QED
    BY <1>3, <1>i, <1>p, <2>1, <2>2 DEF UpdateFiles, Processes, Undoes
<1>4. CASE CopyBackupClean /\ phase = "clean" /\ it = 4
  <2>1. /\ UNCHANGED <<dev.row.v, dev.files, dev.xml, dev.icons>>
        /\ dev'.bck = 0 /\ phase' = "clean" /\ it' = 5
    BY <1>4, <1>t, FilesMoves, Handlers
  <2> QED
    BY <1>4, <1>i, <1>p, <2>1
<1>5. CASE UpdateApp /\ phase = "process" /\ it = 6
  <2>1. /\ UNCHANGED <<dev.files, dev.bck, dev.xml, dev.icons, dev.data>>
        /\ \/ dev'.row.v = made /\ phase' = "process" /\ it' = 7
           \/ dev'.row.v = dev.row.v /\ phase' = "undo" /\ it' = 6
    BY <1>5, <1>t, FilesMoves, Handlers
  <2> QED
    BY <1>5, <1>i, <1>p, <1>t, <2>1 DEF UpdateFiles, Processes, Undoes, Handled
<1>6. CASE UpdateAppUndo /\ phase = "undo" /\ it = 6
  <2>1. /\ UNCHANGED <<dev.files, dev.bck, dev.xml, dev.icons, dev.data>>
        /\ dev'.row.v = ctx.old.v
    BY <1>6, FilesMoves
  <2>2. phase' = "undo" /\ it' = 5
    <3>1. \E ok \in BOOLEAN : Undone(ok)
      BY <1>6 DEF UpdateAppUndo
    <3> QED
      BY <1>6, <1>t, <3>1, Handlers
  <2> QED
    BY <1>6, <1>i, <1>p, <2>1, <2>2 DEF UpdateFiles, Processes, Undoes
<1> QED
  BY <1>f, <1>1, <1>2, <1>3, <1>4, <1>5, <1>6

LEMMA MoveFilesStep ==
  ASSUME TypeInv, RowInv, FilesInv, Next, ~Begin, ~Exit, FilesCalm', req \in {"Move", "Clear"}
  PROVE  FilesInv'
<1>t. /\ LoopType
      /\ Handled => ctx.old.v # 0
      /\ phase \in Phases
  BY DEF TypeInv, LoopType, RowInv
<1>i. /\ phase \in {"idle", "end"} => IF dev.row.v # 0 THEN Whole(dev.row.v) ELSE Gone
      /\ Handled => Whole(ctx.old.v)
  BY FilesCalmStep DEF FilesInv, Installed, Handled
<1>p. /\ UNCHANGED <<req, made, ctx.old>>
      /\ \/ UNCHANGED <<phase, it>> /\ Launches
         \/ Handled /\ phase' \in {"process", "undo", "clean", "end"}
  BY Proceeds DEF Handled
<1>1. /\ UNCHANGED <<dev.row.v, dev.files, dev.bck, dev.xml, dev.icons>>
      /\ dev.row.v = 0 => dev'.data = dev.data
  <2>1. CASE FilesActions
    <3>1. ClearData /\ phase = "process"
      BY <1>t, <2>1, FilesPlaces DEF FilesActions, At
    <3> QED
      BY <1>i, <1>t, <3>1, FilesMoves DEF Handled, Whole
  <2> QED
    BY <2>1, FilesKept
<1>2. CASE UNCHANGED <<phase, it>>
  BY <1>i, <1>p, <1>t, <1>1, <1>2 DEF FilesInv, Installed, Whole, Gone, Handled
<1>3. CASE Handled /\ phase' \in {"process", "undo", "clean", "end"}
  <2>1. Whole(ctx.old.v)' /\ ctx'.old.v # 0 /\ dev'.row.v = ctx'.old.v
    BY <1>i, <1>p, <1>t, <1>1, <1>3 DEF Whole
  <2> QED
    BY <1>p, <1>3, <2>1 DEF FilesInv, Installed
<1> QED
  BY <1>p, <1>2, <1>3

LEMMA UninstallFilesStep ==
  ASSUME TypeInv, RowInv, FilesInv, Next, ~Begin, ~Exit, FilesCalm', req = "Uninstall"
  PROVE  FilesInv'
<1>t. /\ LoopType /\ it \in 1..14 /\ Length(req) = 14
      /\ Handled => ctx.old.v # 0
      /\ phase \in Phases
  BY StepLists DEF TypeInv, LoopType, Length, RowInv
<1>i. /\ phase \in {"idle", "end"} => IF dev.row.v # 0 THEN Whole(dev.row.v) ELSE Gone
      /\ phase \in {"process", "undo"} => UninstallFiles
      /\ phase = "clean" => Gone
  BY FilesCalmStep DEF FilesInv, Installed
<1>p. /\ UNCHANGED <<req, made, ctx.old>>
      /\ \/ UNCHANGED <<phase, it>> /\ Launches
         \/ /\ phase = "process" /\ phase' = "process" /\ it' = it + 1 /\ it < 14
         \/ /\ phase = "process" /\ phase' = "clean" /\ it' = 1 /\ it = 14
         \/ /\ phase = "process" /\ phase' = "undo" /\ it' = it
         \/ /\ phase = "undo" /\ phase' = "undo" /\ it' = it - 1 /\ it > 1
         \/ /\ phase = "undo" /\ phase' = "end" /\ it' = it /\ it = 1
         \/ /\ phase = "clean" /\ phase' = "clean" /\ it' = it + 1 /\ it < 14
         \/ /\ phase = "clean" /\ phase' = "end" /\ it' = it
  BY <1>t, Proceeds
<1>o. \/ Launches
      \/ /\ phase = "process" /\ it = 9 => Unregister
         /\ phase = "process" /\ it = 11 => RemoveFiles
         /\ phase = "process" /\ it = 13 => RemoveIcons
  BY <1>t, Owners, StepLists
<1>f. \/ ~FilesActions
      \/ phase = "process" /\ it = 9 /\ Unregister
      \/ phase = "process" /\ it = 11 /\ RemoveFiles
      \/ phase = "process" /\ it = 13 /\ RemoveIcons
      \/ phase = "undo" /\ it = 7 /\ BackupManifestUndo
      \/ phase = "undo" /\ it = 9
  BY <1>t, FilesPlaces DEF FilesActions, At
<1>e. phase = "process" /\ phase' = "undo" => it <= 8 \/ it = 13
  <2>1. phase = "process" /\ phase' = "undo" =>
          Step \notin {"RollbackDeinstallationSecurity", "RevokeSecurity", "Unregister",
                       "RemoveFiles", "RemoveTep"}
    BY NeverFail DEF NoProcess
  <2> QED
    BY <1>t, <2>1, StepLists
<1>s. SUFFICES /\ phase' \in {"idle", "end"} => IF dev'.row.v # 0 THEN Whole(dev.row.v)' ELSE Gone'
               /\ phase' \in {"process", "undo"} => UninstallFiles'
               /\ phase' = "clean" => Gone'
  BY <1>p DEF FilesInv, Installed
<1>1. CASE ~FilesActions
  <2>1. /\ UNCHANGED <<dev.row.v, dev.files, dev.bck, dev.xml, dev.icons>>
        /\ dev.row.v = 0 => dev'.data = dev.data
    BY <1>1, FilesKept
  <2>2. CASE Launches
    <3>1. UNCHANGED <<phase, it, req, made, ctx.old>>
      BY <2>2, Proceeds
    <3> QED
      BY <1>i, <2>1, <3>1 DEF UninstallFiles, Processes, Whole, Gone
  <2>3. CASE ~Launches
    <3>1. ~(phase = "process" /\ it \in {9, 11, 13})
      BY <1>1, <1>o, <2>3 DEF FilesActions
    <3>2. CASE phase = "process" /\ it <= 8
      <4>1. Whole(ctx.old.v)' /\ phase' \in {"process", "undo"} /\ it' <= 9
            /\ (phase' = "undo" => it' <= 8)
        BY <1>i, <1>p, <1>t, <2>1, <2>3, <3>2 DEF UninstallFiles, Processes, Whole
      <4> QED
        BY <1>p, <1>t, <4>1 DEF UninstallFiles, Processes
    <3>3. CASE phase = "undo"
      <4>1. Whole(ctx.old.v)' /\ phase' \in {"end", "undo"} /\ it' <= 8 /\ ctx.old.v # 0
        BY <1>i, <1>p, <1>t, <2>1, <2>3, <3>3 DEF UninstallFiles, Whole, Handled
      <4> QED
        BY <1>p, <4>1 DEF UninstallFiles, Processes, Whole
    <3>4. CASE phase = "process" /\ it > 8
      BY <1>e, <1>i, <1>p, <1>t, <2>1, <2>3, <3>1, <3>4
      DEF UninstallFiles, Processes, Gone
    <3>5. CASE phase \notin {"process", "undo"}
      BY <1>i, <1>p, <1>t, <2>1, <2>3, <3>5 DEF Gone
    <3> QED
      BY <1>t, <3>2, <3>3, <3>4, <3>5
  <2> QED
    BY <2>2, <2>3
<1>2. CASE Unregister /\ phase = "process" /\ it = 9
  <2>1. /\ UNCHANGED <<dev.files, dev.bck, dev.icons, dev.data>>
        /\ dev'.row.v = 0 /\ ~dev'.xml
    BY <1>2, FilesMoves
  <2>2. phase' = "process" /\ it' = 10
    <3>1. Ok
      BY <1>2 DEF Unregister
    <3> QED
      BY <1>2, <1>t, <3>1, Handlers
  <2> QED
    BY <1>2, <1>i, <1>p, <2>1, <2>2 DEF UninstallFiles, Processes, Whole
<1>3. CASE RemoveFiles /\ phase = "process" /\ it = 11
  <2>1. /\ UNCHANGED <<dev.row.v, dev.bck, dev.xml, dev.icons>>
        /\ dev'.files = 0 /\ ~dev'.data
    BY <1>3, FilesMoves
  <2>2. phase' = "process" /\ it' = 12
    <3>1. StepOk(NumSteps)
      BY <1>3 DEF RemoveFiles
    <3> QED
      BY <1>3, <1>p, <1>t, <3>1, Outcomes
  <2> QED
    BY <1>3, <1>i, <1>p, <2>1, <2>2 DEF UninstallFiles, Processes
<1>4. CASE RemoveIcons /\ phase = "process" /\ it = 13
  <2>1. /\ UNCHANGED <<dev.row.v, dev.files, dev.bck, dev.xml, dev.data>>
        /\ ~dev'.icons /\ phase' = "process" /\ it' = 14
    BY <1>4, <1>t, FilesMoves, Handlers
  <2> QED
    BY <1>4, <1>i, <1>p, <2>1 DEF UninstallFiles, Processes
<1>5. CASE BackupManifestUndo /\ phase = "undo" /\ it = 7
  <2>1. /\ UNCHANGED <<dev.row.v, dev.files, dev.bck, dev.icons, dev.data>>
        /\ dev.xml => dev'.xml
    BY <1>5, FilesMoves
  <2>2. phase' = "undo" /\ it' = 6
    <3>1. \E ok \in BOOLEAN : Undone(ok)
      BY <1>5 DEF BackupManifestUndo
    <3> QED
      BY <1>5, <1>t, <3>1, Handlers
  <2> QED
    BY <1>5, <1>i, <1>p, <2>1, <2>2 DEF UninstallFiles, Processes, Whole
<1>6. CASE phase = "undo" /\ it = 9
  BY <1>6, <1>i DEF UninstallFiles
<1> QED
  BY <1>f, <1>1, <1>2, <1>3, <1>4, <1>5, <1>6

LEMMA FilesInvStep ==
  ASSUME TypeInv, RowInv, FilesInv, Next
  PROVE  FilesInv'
<1>1. CASE Begin
  <2>1. PICK kind \in Kinds, toCard, auto, move \in BOOLEAN, tep \in TepPlaces :
          Asked(kind, toCard, auto, move, tep)
    BY <1>1, BeginsWith DEF TypeInv, CtxType
  <2>2. /\ ctx'.old = dev.row /\ phase = "idle" /\ phase' = "process" /\ it' = 1
        /\ UNCHANGED <<dev.row, dev.files, dev.bck, dev.xml, dev.icons, dev.data, faults>>
        /\ req' = "Install" <=> dev.row.v = 0
    BY <1>1, <2>1, BeginsWith DEF Asked, TypeInv, DevType, CtxType, storageVars
  <2> QED
    BY <2>2
    DEF FilesInv, FilesCalm, Installed, Whole, Gone, InstallFiles, UpdateFiles, UninstallFiles,
        Processes, Undoes
<1>2. CASE Exit
  <2>1. phase = "end" /\ phase' = "idle" /\ UNCHANGED <<dev, faults>>
    BY <1>2, ExitsWith
  <2> QED
    BY <2>1 DEF FilesInv, FilesCalm, Installed, Whole, Gone
<1>3. CASE ~Begin /\ ~Exit /\ FilesCalm'
  <2>1. req \in Kinds
    BY DEF TypeInv, LoopType
  <2> QED
    BY <1>3, <2>1, InstallFilesStep, UpdateFilesStep, MoveFilesStep, UninstallFilesStep DEF Kinds
<1>4. CASE ~FilesCalm'
  BY <1>4 DEF FilesInv
<1> QED
  BY <1>1, <1>2, <1>3, <1>4

-------------------------------------------------------------------------------
(* Whether the package is enabled *)

LEMMA EnabledPlaces ==
  ASSUME TypeInv, Next, ~Begin, ~Exit
  PROVE  /\ Disabled /\ ~Disabled' =>
              \/ Enable /\ phase = "process"
              \/ Disable /\ phase = "undo"
              \/ phase' = "clean" /\ req' = "Uninstall"
         /\ Disable /\ phase = "process" => Disabled'
         /\ Enable /\ phase = "undo" => Disabled'
         /\ UpdateApp \/ UpdateAppUndo \/ UnregisterUndo => Disabled'
<1>t. /\ LoopType /\ it \in 1..Length(req) /\ req \in Kinds
      /\ req = "Update" => Length(req) = 8
      /\ req = "Move" => Length(req) = 5
      /\ req = "Uninstall" => Length(req) = 14
  BY StepLists DEF TypeInv, LoopType, Length
<1>1. Disabled /\ ~Disabled' =>
        \/ Enable /\ phase = "process"
        \/ Disable /\ phase = "undo"
        \/ phase' = "clean" /\ req' = "Uninstall"
  <2> SUFFICES ASSUME Disabled, ~Disabled'
               PROVE  \/ Enable /\ phase = "process"
                      \/ Disable /\ phase = "undo"
                      \/ phase' = "clean" /\ req' = "Uninstall"
    OBVIOUS
  <2>1. ~Launches
    BY Proceeds DEF Disabled, Processes, Undoes
  <2>2. CASE req = "Update"
    <3>1. \/ phase = "process" /\ it = 8
          \/ phase = "undo" /\ it = 1
      BY <1>t, <2>1, <2>2, Proceeds DEF Disabled, Processes, Undoes
    <3> QED
      BY <1>t, <2>1, <2>2, <3>1, Owners, StepLists
  <2>3. CASE req = "Move"
    <3>1. \/ phase = "process" /\ it = 5
          \/ phase = "undo" /\ it = 2
      BY <1>t, <2>1, <2>3, Proceeds DEF Disabled, Processes, Undoes
    <3> QED
      BY <1>t, <2>1, <2>3, <3>1, Owners, StepLists
  <2>4. CASE req = "Uninstall"
    <3>1. \/ phase' = "clean" /\ req' = "Uninstall"
          \/ phase = "undo" /\ it = 5
      BY <1>t, <2>1, <2>4, Proceeds DEF Disabled, Processes, Undoes
    <3> QED
      BY <1>t, <2>1, <2>4, <3>1, Owners, StepLists
  <2> QED
    BY <2>2, <2>3, <2>4 DEF Disabled, Processes, Undoes
<1>2. Disable /\ phase = "process" => Disabled'
  <2> SUFFICES ASSUME Disable, phase = "process"
               PROVE  Disabled'
    OBVIOUS
  <2>1. (Ok \/ Fails) /\ (At("Update", 1) \/ At("Move", 2) \/ At("Uninstall", 5))
    BY <1>t, Located DEF Disable, UpdatePkgDisableInfo, Process, Undo
  <2> QED
    BY <1>t, <2>1, Handlers DEF At, Disabled, Processes, Undoes
<1>3. Enable /\ phase = "undo" => Disabled'
  <2> SUFFICES ASSUME Enable, phase = "undo"
               PROVE  Disabled'
    OBVIOUS
  <2>1. (\E ok \in BOOLEAN : Undone(ok)) /\ (At("Update", 8) \/ At("Move", 5))
    BY <1>t, Located DEF Enable, UpdatePkgDisableInfo, Process, Undo
  <2> QED
    BY <1>t, <2>1, Handlers DEF At, Disabled, Processes, Undoes
<1>4. UpdateApp => Disabled'
  <2>1. UpdateApp => (Ok \/ Fails) /\ At("Update", 6)
    BY <1>t, Located DEF UpdateApp, Process
  <2> QED
    BY <1>t, <2>1, Handlers DEF At, Disabled, Processes, Undoes
<1>5. UpdateAppUndo \/ UnregisterUndo => Disabled'
  <2>1. UpdateAppUndo \/ UnregisterUndo =>
          (\E ok \in BOOLEAN : Undone(ok)) /\ (At("Update", 6) \/ At("Uninstall", 9))
    BY <1>t, Located DEF UpdateAppUndo, UnregisterUndo, Undo
  <2> QED
    BY <1>t, <2>1, Handlers DEF At, Disabled, Processes, Undoes
<1> QED
  BY <1>1, <1>2, <1>3, <1>4, <1>5

LEMMA EnabledMoves ==
  ASSUME TypeInv, Next, ~Begin, ~Exit, EnabledCalm'
  PROVE  /\ (Enable /\ phase = "process") \/ (Disable /\ phase = "undo") =>
              dev'.row.enabled \/ dev'.row.v = 0
         /\ \/ dev'.row.enabled = dev.row.enabled /\ dev'.row.v = dev.row.v
            \/ Enable \/ Disable \/ UpdateApp \/ UpdateAppUndo \/ UnregisterUndo
            \/ dev'.row.enabled
            \/ dev'.row.v = 0
<1>t. DevType
  BY DEF TypeInv
<1>f. \A kind \in {"enable", "unregister"} : ~Fault(kind)
  BY DEF EnabledCalm, FilesCalm, Fault
<1>w. RowWith(made, ctx.tep, TRUE).enabled = TRUE /\ NoRow.v = 0
  BY DEF RowWith, NoRow
<1>1. (Enable /\ phase = "process") \/ (Disable /\ phase = "undo") =>
        dev'.row.enabled \/ dev'.row.v = 0
  <2>1. CASE dev.row = NoRow
    <3>1. Enable \/ Disable => dev'.row = [dev.row EXCEPT !.enabled = FALSE]
      BY <1>f, <1>t, <2>1
      DEF DevType, Enable, Disable, UpdatePkgDisableInfo, SetEnabled
    <3> QED
      BY <1>w, <2>1, <3>1 DEF NoRow
  <2>2. CASE dev.row # NoRow
    <3>1. (Enable /\ phase = "process") \/ (Disable /\ phase = "undo") =>
            dev'.row = [dev.row EXCEPT !.enabled = TRUE]
      BY <1>f, <1>t, <2>2
      DEF DevType, Enable, Disable, UpdatePkgDisableInfo, SetEnabled, Process, Undo
    <3> QED
      BY <1>t, <3>1 DEF DevType, Rows
  <2> QED
    BY <2>1, <2>2
<1>2. CASE ~RowActions
  BY <1>1, <1>2, RowFrame
<1>3. CASE MoveTep \/ MoveInstalledStorageUndo
  <2>1. \/ dev'.row = dev.row
        \/ dev'.row = [dev.row EXCEPT !.tep = NewLocation]
        \/ dev'.row = [dev.row EXCEPT !.tep = OldLocation]
    BY <1>3, <1>t
    DEF DevType, MoveTep, MoveInstalledStorageUndo, MoveBackTep, Moved, Placed, KeepDev
  <2> QED
    BY <1>1, <1>t, <2>1 DEF DevType, Rows
<1>4. CASE Register
  <2>1. dev'.row = RowWith(made, ctx.tep, TRUE) \/ dev'.row = dev.row
    BY <1>4, <1>t DEF DevType, Register, KeepDev
  <2> QED
    BY <1>1, <1>w, <2>1
<1>5. CASE RegisterUndo \/ Unregister
  <2>1. dev'.row = NoRow
    BY <1>5, <1>f, <1>t DEF DevType, RegisterUndo, Unregister
  <2> QED
    BY <1>1, <1>w, <2>1
<1> QED
  BY <1>1, <1>2, <1>3, <1>4, <1>5 DEF RowActions

LEMMA EnabledInvStep ==
  ASSUME TypeInv, FilesInv', EnabledInv, Next
  PROVE  EnabledInv'
<1>1. CASE Begin \/ Exit
  <2>1. CASE Begin
    <3>1. UNCHANGED <<dev.row, faults>> /\ phase = "idle" /\ phase' = "process" /\ it' = 1
      BY <2>1, BeginsWith DEF Asked, TypeInv, DevType, CtxType, storageVars
    <3> QED
      BY <3>1 DEF EnabledInv, EnabledCalm, FilesCalm, Disabled, Processes, Undoes
  <2>2. CASE Exit
    <3>1. UNCHANGED <<dev, faults>> /\ phase = "end"
      BY <2>2, ExitsWith
    <3> QED
      BY <3>1 DEF EnabledInv, EnabledCalm, FilesCalm, Disabled, Processes, Undoes
  <2> QED
    BY <1>1, <2>1, <2>2
<1>2. CASE ~Begin /\ ~Exit
  <2> SUFFICES ASSUME EnabledCalm', ~Disabled'
               PROVE  dev'.row.enabled \/ dev'.row.v = 0
    BY DEF EnabledInv
  <2>1. EnabledCalm
    BY FilesCalmStep, FaultMoves DEF EnabledCalm
  <2>2. CASE Disabled
    <3>1. phase' = "clean" /\ req' = "Uninstall" => dev'.row.v = 0
      BY DEF FilesInv, EnabledCalm, Gone
    <3> QED
      BY <1>2, <2>2, <3>1, EnabledPlaces, EnabledMoves
  <2>3. CASE ~Disabled
    <3>1. dev.row.enabled \/ dev.row.v = 0
      BY <2>1, <2>3 DEF EnabledInv
    <3>2. Enable \/ Disable => phase \in {"process", "undo"}
      BY DEF Enable, Disable, UpdatePkgDisableInfo, Process, Undo
    <3> QED
      BY <1>2, <3>1, <3>2, EnabledPlaces, EnabledMoves
  <2> QED
    BY <2>2, <2>3
<1> QED
  BY <1>1, <1>2

-------------------------------------------------------------------------------
(* The security contexts *)

SecActions ==
  \/ RegisterSecurity \/ RollbackInstallationSecurityUndo \/ UpdateSecurityUndo
  \/ RollbackDeinstallationSecurityUndo \/ RevokeSecurityClean

LEMMA SecFrame ==
  ASSUME TypeInv, Next, ~SecActions
  PROVE  dev'.sec = dev.sec
<1>t. DevType
  BY DEF TypeInv
<1>1. CASE dev' = dev
  BY <1>1
<1>2. CASE Begin
  <2>1. \E T : dev' = [dev EXCEPT !.teps = T]
    BY <1>2, BeginsWith DEF Asked, TypeInv, CtxType
  <2> QED
    BY <1>t, <2>1 DEF DevType
<1>3. CASE Disable \/ Enable \/ KillApps \/ Launches
  BY <1>3, <1>t
  DEF DevType, Disable, Enable, UpdatePkgDisableInfo, SetEnabled, KillApps, Launches, Launch, KeepDev
<1>4. CASE \/ Copy \/ CopyUndo \/ CopyBackup \/ CopyBackupUndo \/ CopyBackupClean
           \/ RemoveFiles \/ RemoveIcons \/ ClearData \/ CreateManifest \/ CreateManifestUndo
           \/ BackupManifest \/ BackupManifestUndo \/ BackupManifestClean
  BY <1>4, <1>t
  DEF DevType, Copy, CopyUndo, CopyBackup, CopyBackupUndo, CopyBackupClean, RemoveFiles,
      RemoveIcons, ClearData, CreateManifest, CreateManifestUndo, BackupManifest,
      BackupManifestUndo, BackupManifestClean, BackedUp, RemovedDir, KeepDev
<1>5. CASE CopyTep \/ CopyTepUndo \/ UpdateTep \/ UpdateTepUndo \/ UpdateTepClean \/ RemoveTep
  BY <1>5, <1>t
  DEF DevType, CopyTep, CopyTepFile, CopyTepUndo, UpdateTep, PreserveTep, UpdateTepUndo,
      UpdateTepClean, RemoveTep, Placed, Moved, TornAt, KeepDev
<1>6. CASE \/ MoveTep \/ MoveInstalledStorageUndo \/ Register \/ RegisterUndo \/ UpdateApp
           \/ UpdateAppUndo \/ Unregister \/ UnregisterUndo
  BY <1>6, <1>t
  DEF DevType, MoveTep, MoveInstalledStorageUndo, MoveBackTep, Placed, Moved, Register,
      RegisterUndo, UpdateApp, UpdateAppUndo, Unregister, UnregisterUndo, Written, KeepDev
<1> QED
  BY <1>1, <1>2, <1>3, <1>4, <1>5, <1>6, DevFrame DEF Next, SecActions, Launches

\* What a manifest that is registered or unregistered as a whole leaves.
LEMMA WholeManifest ==
  ASSUME NEW sec \in [AllApps -> Contexts], NEW v
  PROVE  \A a \in AllApps :
           /\ RegisterForManifest(sec, Apps(v), TRUE, Len(Apps(v)))[a] =
                IF a \in Members(Apps(v)) THEN "authored" ELSE sec[a]
           /\ UnregisterForManifest(sec, Apps(v), Len(Apps(v)))[a] =
                IF a \in Members(Apps(v)) THEN "none" ELSE sec[a]
<1>1. Done(Apps(v), Len(Apps(v))) = Members(Apps(v))
  BY DEF Done, Members
<1> HIDE DEF Apps
<1> QED
  BY <1>1
  DEF RegisterForManifest, UnregisterForManifest, RegisterSecurityContext,
      UnregisterSecurityContext, PrepareRequest

\* Where they are registered and unregistered, and what comes of it.
LEMMA SecMoves ==
  ASSUME TypeInv, Next, SecCalm', SecActions
  PROVE  \/ /\ phase = "process" /\ (At("Install", 8) \/ At("Update", 7)) /\ Ok
            /\ dev'.sec = RegisterForManifest(dev.sec, Apps(made), ctx.author, Len(Apps(made)))
         \/ /\ phase = "undo" /\ At("Update", 7) /\ (\E ok \in BOOLEAN : Undone(ok))
            /\ dev'.sec = RegisterForManifest(dev.sec, Apps(made), ctx.author, Len(Apps(made)))
         \/ /\ phase = "undo" /\ At("Install", 2) /\ (\E ok \in BOOLEAN : Undone(ok))
            /\ dev'.sec = UnregisterForManifest(dev.sec, Apps(made), Len(Apps(made)))
         \/ phase = "undo" /\ At("Uninstall", 10)
         \/ /\ phase = "clean" /\ At("Uninstall", 14) /\ Cleaned
            /\ dev'.sec = UnregisterForManifest(dev.sec, Apps(ctx.old.v), Len(Apps(ctx.old.v)))
<1>t. DevType /\ LoopType
  BY DEF TypeInv
<1>f. ~Fault("security")
  BY DEF SecCalm, Fault
<1> USE DEF At
<1>1. RegisterSecurity =>
        /\ phase = "process" /\ (At("Install", 8) \/ At("Update", 7)) /\ Ok
        /\ dev'.sec = RegisterForManifest(dev.sec, Apps(made), ctx.author, Len(Apps(made)))
  BY <1>f, <1>t, Located DEF DevType, RegisterSecurity, Process, Registered
<1>2. UpdateSecurityUndo =>
        /\ phase = "undo" /\ At("Update", 7) /\ (\E ok \in BOOLEAN : Undone(ok))
        /\ dev'.sec = RegisterForManifest(dev.sec, Apps(made), ctx.author, Len(Apps(made)))
  BY <1>f, <1>t, Located DEF DevType, UpdateSecurityUndo, Undo, Registered
<1>3. RollbackInstallationSecurityUndo =>
        /\ phase = "undo" /\ At("Install", 2) /\ (\E ok \in BOOLEAN : Undone(ok))
        /\ dev'.sec = UnregisterForManifest(dev.sec, Apps(made), Len(Apps(made)))
  BY <1>f, <1>t, Located DEF DevType, RollbackInstallationSecurityUndo, Undo, Revoked
<1>4. RollbackDeinstallationSecurityUndo => phase = "undo" /\ At("Uninstall", 10)
  BY <1>t, Located DEF RollbackDeinstallationSecurityUndo, Undo
<1>5. RevokeSecurityClean =>
        /\ phase = "clean" /\ At("Uninstall", 14) /\ Cleaned
        /\ dev'.sec = UnregisterForManifest(dev.sec, Apps(ctx.old.v), Len(Apps(ctx.old.v)))
  BY <1>f, <1>t, Located DEF DevType, RevokeSecurityClean, Clean, Revoked
<1> QED
  BY <1>1, <1>2, <1>3, <1>4, <1>5 DEF SecActions

\* The version that is in the database when a request ends.
LEMMA EndsWith ==
  ASSUME TypeInv, RowInv, FilesInv, Next, ~Begin, ~Exit, FilesCalm', phase # "end", phase' = "end"
  PROVE  /\ phase = "undo" => dev'.row.v = ctx.old.v
         /\ phase = "clean" /\ req \in {"Install", "Update"} => dev'.row.v = made
         /\ phase = "clean" /\ req \in {"Move", "Clear"} => dev'.row.v = ctx.old.v
         /\ phase = "clean" /\ req = "Uninstall" => dev'.row.v = 0
<1>t. LoopType /\ it \in 1..Length(req)
  BY StepLists DEF TypeInv
<1>1. (phase = "undo" /\ it = 1) \/ phase = "clean"
  BY Proceeds
<1>2. /\ RegisterUndo => req = "Install" /\ it = 7 /\ phase = "undo"
      /\ UpdateAppUndo => req = "Update" /\ it = 6 /\ phase = "undo"
      /\ UnregisterUndo => req = "Uninstall" /\ it = 9 /\ phase = "undo"
      /\ Register \/ UpdateApp \/ Unregister => phase = "process"
  BY <1>t, FilesPlaces DEF At
<1>3. dev'.row.v = dev.row.v
  BY <1>1, <1>2, RowMoves
<1>4. FilesCalm /\ req \in Kinds
  BY FilesCalmStep DEF TypeInv, LoopType
<1> QED
  BY <1>1, <1>3, <1>4
  DEF Kinds, RowInv, Handled, FilesInv, InstallFiles, UpdateFiles, UninstallFiles, Undoes, Processes, Whole, Gone

\* What that means for the versions of the package.
LEMMA SecOfMoves ==
  ASSUME NEW sec \in [AllApps -> Contexts], NEW p, NEW q, p \subseteq q, NEW v, NEW m,
         SecOf(sec, p, v)
  PROVE  /\ SecOf(sec, q, v)
         /\ Apps(m) = Apps(v) \/ "appsChanged" \in p \/ v = 0 =>
              LET new == RegisterForManifest(sec, Apps(m), TRUE, Len(Apps(m))) IN
              /\ m # 0 => SecOf(new, q, m)
              /\ v # 0 => SecOf(new, q, v)
         /\ m = v \/ v = 0 =>
              SecOf(UnregisterForManifest(sec, Apps(m), Len(Apps(m))), q, 0)
<1>1. SecOf(sec, q, v)
  BY DEF SecOf
<1>2. ASSUME Apps(m) = Apps(v) \/ "appsChanged" \in p \/ v = 0
      PROVE  LET new == RegisterForManifest(sec, Apps(m), TRUE, Len(Apps(m))) IN
             /\ m # 0 => SecOf(new, q, m)
             /\ v # 0 => SecOf(new, q, v)
  <2> DEFINE new == RegisterForManifest(sec, Apps(m), TRUE, Len(Apps(m)))
  <2>1. \A a \in AllApps : new[a] = IF a \in Members(Apps(m)) THEN "authored" ELSE sec[a]
    BY WholeManifest
  <2> HIDE DEF new
  <2>2. m # 0 => SecOf(new, q, m)
    BY <1>2, <2>1 DEF SecOf
  <2>3. v # 0 => SecOf(new, q, v)
    BY <1>2, <2>1 DEF SecOf
  <2> QED
    BY <2>2, <2>3 DEF new
<1>3. ASSUME m = v \/ v = 0
      PROVE  SecOf(UnregisterForManifest(sec, Apps(m), Len(Apps(m))), q, 0)
  <2> DEFINE new == UnregisterForManifest(sec, Apps(m), Len(Apps(m)))
  <2>1. \A a \in AllApps : new[a] = IF a \in Members(Apps(m)) THEN "none" ELSE sec[a]
    BY WholeManifest
  <2> HIDE DEF new
  <2>2. SecOf(new, q, 0)
    BY <1>3, <2>1 DEF SecOf
  <2> QED
    BY <2>2 DEF new
<1> QED
  BY <1>1, <1>2, <1>3

LEMMA SecCalmStep ==
  ASSUME Next, SecCalm'
  PROVE  SecCalm /\ FilesCalm /\ FilesCalm'
  BY FilesCalmStep, FaultMoves DEF SecCalm

\* A step that registers and unregisters nothing.
LEMMA SecKept ==
  ASSUME TypeInv, RowInv, FilesInv, SecInv, Next, ~Begin, ~Exit, SecCalm', ~SecActions
  PROVE  SecPlaces'
<1>t. /\ LoopType /\ it \in 1..Length(req) /\ req \in Kinds /\ phase \in Phases
      /\ req = "Install" => Length(req) = 8
      /\ req = "Update" => Length(req) = 8
      /\ req = "Uninstall" => Length(req) = 14
  BY StepLists DEF TypeInv, LoopType, Length
<1>i. SecPlaces /\ FilesCalm'
  BY SecCalmStep DEF SecInv
<1>k. \A v : SecOf(dev.sec, past, v) => SecOf(dev'.sec, past', v)
  BY SecFrame, SecOfMoves, Proceeds DEF TypeInv, DevType
<1>p. UNCHANGED <<req, made, ctx.old>>
  BY Proceeds
<1>1. CASE Launches
  <2>1. UNCHANGED <<phase, it, dev.row>>
    BY <1>1, Proceeds DEF TypeInv, DevType, Launches, Launch
  <2> QED
    BY <1>i, <1>k, <1>p, <2>1 DEF SecPlaces, SecIs, Processes
<1>2. CASE ~Launches
  <2>1. /\ ~(phase = "process" /\ At("Install", 8)) /\ ~(phase = "process" /\ At("Update", 7))
        /\ ~(phase = "clean" /\ At("Uninstall", 14))
    BY <1>2, <1>t, Owners, StepLists DEF SecActions, At
  <2>2. /\ phase' = "process" => phase = "process" /\ it' = it + 1
        /\ phase' = "undo" => phase \in {"process", "undo"}
        /\ phase' = "clean" => phase = "clean" \/ (phase = "process" /\ it = Length(req))
        /\ phase' = "end" => phase \in {"undo", "clean"}
        /\ phase' # "idle"
    BY <1>2, Proceeds
  <2>3. phase' = "process" => SecIs(ctx.old.v)' /\ ~Processes("Update", 8, 8)'
    BY <1>i, <1>k, <1>p, <1>t, <2>1, <2>2 DEF SecPlaces, SecIs, Processes, At
  <2>4. phase' = "undo" => SecIs(ctx.old.v)'
    BY <1>i, <1>k, <1>p, <2>2 DEF SecPlaces, SecIs
  <2>5. ASSUME phase' = "clean"
        PROVE  /\ req \in {"Install", "Update"} => SecIs(made)'
               /\ req \in {"Move", "Clear", "Uninstall"} => SecIs(ctx.old.v)'
    <3>1. CASE phase = "clean"
      BY <1>i, <1>k, <1>p, <3>1 DEF SecPlaces, SecIs
    <3>2. CASE phase = "process" /\ it = Length(req)
      BY <1>i, <1>k, <1>p, <1>t, <2>1, <3>2 DEF SecPlaces, SecIs, Processes, At
    <3> QED
      BY <2>2, <2>5, <3>1, <3>2
  <2>6. ASSUME phase' = "end"
        PROVE  SecIs(dev.row.v)'
    <3>1. phase \in {"undo", "clean"} /\ phase # "end"
      BY <2>2, <2>6
    <3>2. ~(phase = "clean" /\ req = "Uninstall")
      <4> SUFFICES ASSUME phase = "clean", req = "Uninstall"
                   PROVE  FALSE
        OBVIOUS
      <4>1. it = 7
        <5>1. it = 14 \/ Step \in {"RevokeSecurity", "CopyBackup", "BackupManifest"}
          BY <1>t, <2>6, NeverFail
        <5> QED
          BY <1>t, <2>1, <5>1, StepLists DEF At
      <4>2. BackupManifestClean
        BY <1>2, <1>t, <4>1, Owners, StepLists
      <4>3. Cleaned
        BY <1>i, <4>2 DEF BackupManifestClean, Fault, FilesCalm
      <4> QED
        BY <1>t, <2>6, <4>1, <4>3, Handlers
    <3> QED
      BY <1>i, <1>k, <1>t, <2>6, <3>1, <3>2, EndsWith DEF SecPlaces, SecIs, Kinds
  <2> QED
    BY <1>p, <2>2, <2>3, <2>4, <2>5, <2>6 DEF SecPlaces, Processes
<1> QED
  BY <1>1, <1>2

LEMMA SecChanges ==
  ASSUME TypeInv, RowInv, FilesInv, SecInv, Next, ~Begin, ~Exit, SecCalm', SecActions
  PROVE  SecPlaces'
<1>t. /\ LoopType /\ dev.sec \in [AllApps -> Contexts] /\ past \subseteq past'
      /\ phase # "idle" => made # 0
  BY Proceeds DEF TypeInv, DevType, CtxType
<1>i. SecPlaces /\ SecAuthor /\ FilesCalm /\ FilesCalm'
  BY SecCalmStep DEF SecInv
<1>p. UNCHANGED <<req, made, ctx.old>>
  BY Proceeds
<1>m. ASSUME NEW v, SecOf(dev.sec, past, v)
      PROVE  /\ Apps(made) = Apps(v) \/ "appsChanged" \in past \/ v = 0 =>
                  LET new == RegisterForManifest(dev.sec, Apps(made), TRUE, Len(Apps(made))) IN
                  /\ made # 0 => SecOf(new, past', made)
                  /\ v # 0 => SecOf(new, past', v)
             /\ v = 0 => SecOf(UnregisterForManifest(dev.sec, Apps(made), Len(Apps(made))), past', 0)
             /\ SecOf(UnregisterForManifest(dev.sec, Apps(v), Len(Apps(v))), past', 0)
  BY <1>t, <1>m, SecOfMoves
<1>1. CASE /\ phase = "process" /\ At("Install", 8) /\ Ok
           /\ dev'.sec = RegisterForManifest(dev.sec, Apps(made), ctx.author, Len(Apps(made)))
  <2>1. phase' = "clean" /\ it' = 1
    BY <1>1, <1>t, Handlers DEF At, Length
  <2>2. ctx.author = TRUE /\ ctx.old.v = 0 /\ SecOf(dev.sec, past, ctx.old.v) /\ made # 0
    BY <1>1, <1>i, <1>t DEF At, SecAuthor, RowInv, Handled, SecPlaces, SecIs, TypeInv, CtxType
  <2>3. SecOf(dev'.sec, past', made)
    BY <1>1, <1>m, <2>2
  <2> QED
    BY <1>1, <1>p, <2>1, <2>3 DEF At, SecPlaces, SecIs, Processes
<1>2. CASE /\ phase = "process" /\ At("Update", 7) /\ Ok
           /\ dev'.sec = RegisterForManifest(dev.sec, Apps(made), ctx.author, Len(Apps(made)))
  <2>1. phase' = "process" /\ it' = 8
    BY <1>2, <1>t, Handlers DEF At, Length
  <2>2. /\ ctx.author = TRUE /\ ctx.old.v # 0 /\ SecOf(dev.sec, past, ctx.old.v) /\ made # 0
        /\ Apps(made) = Apps(ctx.old.v) \/ "appsChanged" \in past
    BY <1>2, <1>i, <1>t DEF At, SecAuthor, RowInv, Handled, SecPlaces, SecIs, TypeInv, CtxType
  <2>3. SecOf(dev'.sec, past', made) /\ SecOf(dev'.sec, past', ctx.old.v)
    BY <1>2, <1>m, <2>2
  <2> QED
    BY <1>2, <1>p, <2>1, <2>3 DEF At, SecPlaces, SecIs, Processes
<1>3. CASE /\ phase = "undo" /\ At("Update", 7) /\ (\E ok \in BOOLEAN : Undone(ok))
           /\ dev'.sec = RegisterForManifest(dev.sec, Apps(made), ctx.author, Len(Apps(made)))
  <2>1. phase' = "undo"
    BY <1>3, <1>t, Handlers DEF At
  <2>2. /\ ctx.author = TRUE /\ ctx.old.v # 0 /\ SecOf(dev.sec, past, ctx.old.v)
        /\ Apps(made) = Apps(ctx.old.v) \/ "appsChanged" \in past
    BY <1>3, <1>i, <1>t DEF At, SecAuthor, RowInv, Handled, SecPlaces, SecIs, TypeInv, CtxType
  <2>3. SecOf(dev'.sec, past', ctx.old.v)
    BY <1>3, <1>m, <2>2
  <2> QED
    BY <1>3, <1>p, <2>1, <2>3 DEF At, SecPlaces, SecIs, Processes
<1>4. CASE /\ phase = "undo" /\ At("Install", 2) /\ (\E ok \in BOOLEAN : Undone(ok))
           /\ dev'.sec = UnregisterForManifest(dev.sec, Apps(made), Len(Apps(made)))
  <2>1. phase' = "undo"
    BY <1>4, <1>t, Handlers DEF At
  <2>2. ctx.old.v = 0 /\ SecOf(dev.sec, past, ctx.old.v)
    BY <1>4, <1>i, <1>t DEF At, RowInv, Handled, SecPlaces, SecIs
  <2>3. SecOf(dev'.sec, past', 0)
    BY <1>4, <1>m, <2>2
  <2> QED
    BY <1>4, <1>p, <2>1, <2>2, <2>3 DEF At, SecPlaces, SecIs, Processes
<1>5. CASE phase = "undo" /\ At("Uninstall", 10)
  BY <1>5, <1>i DEF At, FilesInv, UninstallFiles
<1>6. CASE /\ phase = "clean" /\ At("Uninstall", 14) /\ Cleaned
           /\ dev'.sec = UnregisterForManifest(dev.sec, Apps(ctx.old.v), Len(Apps(ctx.old.v)))
  <2>1. phase' = "end"
    BY <1>6, <1>t, Handlers DEF At, Length
  <2>2. dev'.row.v = 0 /\ SecOf(dev.sec, past, ctx.old.v)
    BY <1>6, <1>i, <2>1, EndsWith DEF At, SecPlaces, SecIs
  <2>3. SecOf(dev'.sec, past', 0)
    BY <1>6, <1>m, <2>2
  <2> QED
    BY <2>1, <2>2, <2>3 DEF SecPlaces, SecIs, Processes
<1> QED
  BY <1>1, <1>2, <1>3, <1>4, <1>5, <1>6, SecMoves

LEMMA SecInvStep ==
  ASSUME TypeInv, RowInv, FilesInv, SecInv, Next
  PROVE  SecInv'
<1>1. CASE Begin
  <2>1. PICK kind \in Kinds, toCard, auto, move \in BOOLEAN, tep \in TepPlaces :
          Asked(kind, toCard, auto, move, tep)
    BY <1>1, BeginsWith DEF TypeInv, CtxType
  <2>2. /\ ctx'.old = dev.row /\ phase = "idle" /\ phase' = "process" /\ it' = 1
        /\ UNCHANGED <<dev.row, dev.sec, faults>> /\ past \subseteq past'
        /\ req' = "Install" \/ req' = "Update" => ctx'.author
        /\ req' = "Update" => Apps(made') = Apps(dev.row.v) \/ "appsChanged" \in past'
    BY <1>1, <2>1, BeginsWith DEF Asked, TypeInv, DevType, CtxType, storageVars
  <2>3. SecCalm' => SecOf(dev'.sec, past', dev.row.v)
    <3>1. SecCalm' => SecOf(dev.sec, past, dev.row.v)
      BY <2>2 DEF SecInv, SecPlaces, SecIs, SecCalm, FilesCalm
    <3> QED
      BY <2>2, <3>1, SecOfMoves DEF TypeInv, DevType
  <2> QED
    BY <2>2, <2>3 DEF SecInv, SecAuthor, SecPlaces, SecIs, Handled, Processes
<1>2. CASE Exit
  <2>1. phase = "end" /\ phase' = "idle" /\ UNCHANGED <<dev, faults, past>>
    BY <1>2, ExitsWith
  <2> QED
    BY <2>1 DEF SecInv, SecAuthor, SecPlaces, SecIs, SecCalm, FilesCalm, Handled, Processes
<1>3. CASE ~Begin /\ ~Exit
  <2>1. SecAuthor'
    BY <1>3, Proceeds DEF SecInv, SecAuthor, Handled
  <2> QED
    BY <1>3, <2>1, SecKept, SecChanges DEF SecInv
<1> QED
  BY <1>1, <1>2, <1>3

\* The invariants of the package: its row, its files, its state and its contexts.
PackageSafe == TypeInv /\ RowInv /\ FilesInv /\ EnabledInv /\ SecInv

LEMMA PackageSafeInit == Init => PackageSafe
<1> SUFFICES ASSUME Init
             PROVE  PackageSafe
  OBVIOUS
<1>1. TypeInv /\ RowInv
  BY CardSafeInit DEF CardSafe
<1>2. /\ phase = "idle" /\ dev.row.v = 0 /\ dev.files = 0 /\ ~dev.xml /\ dev.bck = 0
      /\ ~dev.icons /\ ~dev.data /\ dev.sec = [a \in AllApps |-> "none"]
  BY DEF Init, RunnerInit, NoRow
<1>3. FilesInv /\ EnabledInv
  BY <1>2 DEF FilesInv, Installed, Gone, EnabledInv
<1>4. SecInv
  BY <1>2 DEF SecInv, SecAuthor, SecPlaces, SecIs, SecOf, Handled, Processes
<1> QED
  BY <1>1, <1>3, <1>4 DEF PackageSafe

LEMMA PackageSafeStep == PackageSafe /\ [Next]_vars => PackageSafe'
<1>1. PackageSafe /\ Next => PackageSafe'
  BY TypeInvStep, RowInvStep, FilesInvStep, EnabledInvStep, SecInvStep DEF PackageSafe
<1>2. PackageSafe /\ UNCHANGED vars => PackageSafe'
  <2> SUFFICES ASSUME PackageSafe, UNCHANGED vars
               PROVE  PackageSafe'
    OBVIOUS
  <2>1. UNCHANGED <<phase, it, ret, card, faults, budget, dev, req, made, ctx, past>>
    BY DEF vars, storageVars, runnerVars
  <2>2. TypeInv'
    BY TypeInvStep DEF PackageSafe
  <2>3. RowInv' /\ EnabledInv'
    BY <2>1
    DEF PackageSafe, RowInv, EnabledInv, EnabledCalm, FilesCalm, Disabled, Handled, HasRow,
        Processes, Undoes, Cleans
  <2>4. FilesInv'
    BY <2>1
    DEF PackageSafe, FilesInv, FilesCalm, Installed, Whole, Gone, InstallFiles, UpdateFiles,
        UninstallFiles, Processes, Undoes
  <2>5. SecInv'
    BY <2>1
    DEF PackageSafe, SecInv, SecAuthor, SecPlaces, SecIs, SecCalm, FilesCalm, Handled, Processes
  <2> QED
    BY <2>2, <2>3, <2>4, <2>5 DEF PackageSafe
<1> QED
  BY <1>1, <1>2

\* The files, the row, the disabled flag and the contexts, at every step of every
\* request and after every failure that the code can take back.
THEOREM PackageInvariant == Spec => []PackageSafe
  BY PackageSafeInit, PackageSafeStep, PTL DEF Spec

\* PackageWhole: between two requests, whatever has failed in them, a package is
\* whole (its files, manifest and contexts, enabled) or gone without a trace.
THEOREM PackageWholeHolds == Spec => []PackageWhole
<1>1. PackageSafe => PackageWhole
  <2> SUFFICES ASSUME PackageSafe, phase = "idle", SecCalm, EnabledCalm
               PROVE  /\ IF Installed
                         THEN dev.files = dev.row.v /\ dev.xml /\ dev.row.enabled /\ dev.bck = 0
                         ELSE dev.files = 0 /\ ~dev.xml /\ dev.bck = 0 /\ ~dev.icons /\ ~dev.data
                      /\ \A a \in AllApps :
                           IF Installed /\ a \in Members(Apps(dev.row.v))
                           THEN dev.sec[a] = "authored"
                           ELSE "appsChanged" \in past \/ dev.sec[a] = "none"
    BY DEF PackageWhole, Resting, SecCalm, EnabledCalm, FilesCalm
  <2>1. IF Installed THEN Whole(dev.row.v) ELSE Gone
    BY DEF PackageSafe, FilesInv, SecCalm
  <2>2. Installed => dev.row.enabled
    BY DEF PackageSafe, EnabledInv, Disabled, Processes, Undoes, Installed
  <2>3. SecIs(dev.row.v)
    BY DEF PackageSafe, SecInv, SecPlaces
  <2> QED
    BY <2>1, <2>2, <2>3 DEF Whole, Gone, SecIs, SecOf, Installed
<1> QED
  BY <1>1, PackageInvariant, PTL

-------------------------------------------------------------------------------
(* The TEP file *)

\* The actions that move, copy or remove one.
TepActions ==
  \/ CopyUndo \/ CopyBackup \/ CopyBackupUndo \/ CopyBackupClean \/ RemoveFiles \/ CopyTep
  \/ CopyTepUndo \/ UpdateTep \/ UpdateTepUndo \/ UpdateTepClean \/ RemoveTep \/ MoveTep
  \/ MoveInstalledStorageUndo

LEMMA TepFrame ==
  ASSUME TypeInv, Next, ~Begin, ~Exit, ~TepActions
  PROVE  UNCHANGED <<dev.teps, dev.torn, dev.bck>>
<1>t. DevType
  BY DEF TypeInv
<1>1. CASE dev' = dev
  BY <1>1
<1>2. CASE Disable \/ Enable \/ KillApps \/ Launches
  BY <1>2, <1>t
  DEF DevType, Disable, Enable, UpdatePkgDisableInfo, SetEnabled, KillApps, Launches, Launch, KeepDev
<1>3. CASE SecActions
  BY <1>3, <1>t
  DEF SecActions, DevType, RegisterSecurity, RollbackInstallationSecurityUndo, UpdateSecurityUndo,
      RollbackDeinstallationSecurityUndo, RevokeSecurityClean, Registered, Revoked
<1>4. CASE \/ Copy \/ RemoveIcons \/ ClearData \/ CreateManifest \/ CreateManifestUndo
           \/ BackupManifest \/ BackupManifestUndo \/ BackupManifestClean
  BY <1>4, <1>t
  DEF DevType, Copy, RemoveIcons, ClearData, CreateManifest, CreateManifestUndo,
      BackupManifest, BackupManifestUndo, BackupManifestClean, KeepDev
<1>5. CASE Register \/ RegisterUndo \/ UpdateApp \/ UpdateAppUndo \/ Unregister \/ UnregisterUndo
  BY <1>5, <1>t
  DEF DevType, Register, RegisterUndo, UpdateApp, UpdateAppUndo, Unregister, UnregisterUndo,
      Written, KeepDev
<1> QED
  BY <1>1, <1>2, <1>3, <1>4, <1>5, DevFrame DEF Next, TepActions, SecActions, Launches

LEMMA CtxTepFrame ==
  ASSUME TypeInv, Next, ~Begin, ~Exit, ~CopyTep, ~UpdateTep, ~MoveInstalledStorage, ~MoveTep
  PROVE  UNCHANGED <<ctx.tep, ctx.new>>
<1>1. \/ ctx' = ctx
      \/ ctx' = [ctx EXCEPT !.ext = TRUE]
      \/ \E b : ctx' = [ctx EXCEPT !.mount = b]
  BY CtxFrame
  DEF AcquireExternalStorage, EnableExternalMount, EnableExternalMountUndo,
      DisableExternalMount, KeepCtx
<1> QED
  BY <1>1 DEF TypeInv, CtxType

\* The TEP file of the database.
RowTepActions ==
  \/ MoveTep \/ MoveInstalledStorageUndo \/ Register \/ RegisterUndo \/ UpdateApp
  \/ UpdateAppUndo \/ Unregister \/ UnregisterUndo

LEMMA RowTepFrame ==
  ASSUME TypeInv, Next, ~Begin, ~Exit, ~RowTepActions
  PROVE  dev'.row.tep = dev.row.tep
<1>t. DevType
  BY DEF TypeInv
<1>1. CASE Disable \/ Enable
  <2>1. \E e \in BOOLEAN : dev'.row = dev.row \/ dev'.row = [dev.row EXCEPT !.enabled = e]
    BY <1>1, <1>t
    DEF DevType, Disable, Enable, UpdatePkgDisableInfo, SetEnabled, KeepDev
  <2> QED
    BY <1>t, <2>1 DEF DevType, Rows
<1> QED
  BY <1>1, RowFrame DEF RowActions, RowTepActions

\* The steps that have nothing to do with a TEP file.
Quiet == ~TepActions /\ ~RowTepActions /\ ~Opens /\ ~Closes
Untouched ==
  UNCHANGED <<dev.teps, dev.torn, dev.bck, dev.row.tep, ctx.tep, ctx.new, ctx.ext, ctx.old,
              ctx.move, card.at, req, made>>

LEMMA QuietSteps ==
  ASSUME TypeInv, Next, ~Begin, ~Exit, Quiet
  PROVE  Untouched
  BY TepFrame, CtxTepFrame, RowTepFrame, CardMoves, Proceeds
  DEF Quiet, Untouched, TepActions, Opens

LEMMA UntouchedSame ==
  ASSUME Untouched
  PROVE  /\ UNCHANGED <<OnDevice, OldTep, NewTep, Storage, dev.torn, Supplied>>
         /\ \A t : (Kept(t) => Kept(t)') /\ (Stored(t) => Stored(t)')
  BY DEF Untouched, OnDevice, OldTep, NewTep, Storage, Supplied, Kept, Stored

LEMMA TepCalmStep ==
  ASSUME TypeInv, Next, ~Begin, ~Exit, TepCalm'
  PROVE  TepCalm /\ FilesCalm'
  BY FaultMoves, Proceeds DEF TepCalm, FilesCalm

\* Where each of them is handled.
LEMMA TepLocated ==
  ASSUME LoopType
  PROVE  /\ TepActions \/ RowTepActions \/ Opens \/ Closes => Handled
         /\ req = "Install" =>
              /\ TepActions \/ RowTepActions \/ Opens \/ Closes =>
                   \/ phase = "process" /\ it = 3 /\ AcquireExternalStorage
                   \/ phase = "undo" /\ it = 4 /\ CopyUndo
                   \/ phase = "clean" /\ it = 4 /\ CopyClean
                   \/ phase = "process" /\ it = 5 /\ CopyTep
                   \/ phase = "undo" /\ it = 5 /\ CopyTepUndo
                   \/ phase = "process" /\ it = 7 /\ Register
                   \/ phase = "undo" /\ it = 7 /\ RegisterUndo
         /\ req = "Update" =>
              /\ TepActions \/ RowTepActions \/ Opens \/ Closes =>
                   \/ phase = "process" /\ it = 3 /\ AcquireExternalStorage
                   \/ phase = "process" /\ it = 4 /\ CopyBackup
                   \/ phase = "undo" /\ it = 4 /\ CopyBackupUndo
                   \/ phase = "clean" /\ it = 4 /\ CopyBackupClean
                   \/ phase = "process" /\ it = 5 /\ UpdateTep
                   \/ phase = "undo" /\ it = 5 /\ UpdateTepUndo
                   \/ phase = "clean" /\ it = 5 /\ UpdateTepClean
                   \/ phase = "process" /\ it = 6 /\ UpdateApp
                   \/ phase = "undo" /\ it = 6 /\ UpdateAppUndo
         /\ req = "Move" =>
              /\ TepActions \/ RowTepActions \/ Opens \/ Closes =>
                   \/ /\ phase = "process" /\ it = 4
                      /\ MoveInstalledStorage \/ MoveInstalledStorageRefused \/ MoveTep
                   \/ phase = "undo" /\ it = 4 /\ MoveInstalledStorageUndo
                   \/ phase = "clean" /\ it = 4 /\ MoveInstalledStorageClean
         /\ req = "Clear" => Quiet
         /\ req = "Uninstall" =>
              /\ TepActions \/ RowTepActions \/ Opens \/ Closes =>
                   \/ phase = "process" /\ it = 8 /\ AcquireExternalStorage
                   \/ phase = "process" /\ it = 9 /\ Unregister
                   \/ phase = "undo" /\ it = 9 /\ UnregisterUndo
                   \/ phase = "process" /\ it = 11 /\ RemoveFiles
                   \/ phase = "process" /\ it = 12 /\ RemoveTep
<1>1. /\ CopyTep => phase = "process" /\ At("Install", 5)
      /\ CopyTepUndo => phase = "undo" /\ At("Install", 5)
      /\ UpdateTep => phase = "process" /\ At("Update", 5)
      /\ UpdateTepUndo => phase = "undo" /\ At("Update", 5)
      /\ UpdateTepClean => phase = "clean" /\ At("Update", 5)
      /\ RemoveTep => phase = "process" /\ At("Uninstall", 12)
  BY Located
  DEF CopyTep, CopyTepUndo, UpdateTep, UpdateTepUndo, UpdateTepClean, RemoveTep, Process,
      Undo, Clean
<1>2. /\ MoveInstalledStorage => phase = "process" /\ At("Move", 4)
      /\ MoveInstalledStorageRefused => phase = "process" /\ At("Move", 4)
      /\ MoveTep => phase = "process" /\ At("Move", 4)
      /\ MoveInstalledStorageUndo => phase = "undo" /\ At("Move", 4)
      /\ MoveInstalledStorageClean => phase = "clean" /\ At("Move", 4)
      /\ CopyClean => phase = "clean" /\ At("Install", 4)
      /\ AcquireExternalStorage =>
           phase = "process" /\ (At("Install", 3) \/ At("Update", 3) \/ At("Uninstall", 8))
  BY Located
  DEF MoveInstalledStorage, MoveInstalledStorageRefused, MoveTep, MoveInstalledStorageUndo,
      MoveInstalledStorageClean, CopyClean, AcquireExternalStorage, Process, Undo, Clean
<1> QED
  BY <1>1, <1>2, FilesPlaces DEF Quiet, TepActions, RowTepActions, Opens, Closes, Handled, At

\* Copying or moving the file that the store has supplied.
LEMMA CopyTepFileMoves ==
  ASSUME TypeInv, CopyTepFile, ~Fault("tep"), ctx.tep.at = "store"
  PROVE  /\ ctx.tep # None /\ TepTarget # None /\ TepTarget.at = Storage
         /\ TepTarget.name = ctx.tep.name
         /\ \/ /\ Ok /\ ctx'.tep = TepTarget /\ ctx'.new = TepTarget
               /\ OnDevice' = OnDevice \cup {TepTarget}
               /\ dev'.torn \subseteq dev.torn
               /\ ~ctx.move => dev.teps \subseteq dev'.teps
            \/ /\ Fails /\ ctx.move /\ TepTarget \in dev.teps
               /\ ctx' = ctx /\ UNCHANGED <<dev.teps, dev.torn>>
<1>t. DevType /\ CtxType /\ ctx.tep \in TepPlaces
  BY DEF TypeInv, CtxType
<1>1. /\ ctx.tep \in TepFiles /\ TepTarget \in TepFiles /\ TepTarget # None
      /\ TepTarget.at = Storage /\ TepTarget.name = ctx.tep.name
      /\ TepTarget.at \in {"card", "phone"}
  BY <1>t, TepTargets, TepFacts DEF CopyTepFile, TepTarget, Storage
<1>2. \/ /\ Ok /\ ctx' = [ctx EXCEPT !.tep = TepTarget, !.new = TepTarget]
         /\ \/ ~ctx.move /\ dev' = Placed(dev, TepTarget)
            \/ ctx.move /\ dev' = Moved(dev, ctx.tep, TepTarget)
      \/ Fails /\ ctx.move /\ TepTarget \in dev.teps /\ ctx' = ctx /\ dev' = dev
  BY DEF CopyTepFile, KeepDev, KeepCtx
<1>3. ctx' = [ctx EXCEPT !.tep = TepTarget, !.new = TepTarget] =>
        ctx'.tep = TepTarget /\ ctx'.new = TepTarget
  BY <1>t DEF CtxType
<1>4. ctx.tep # None
  BY DEF CopyTepFile
<1> HIDE DEF Ok, Fails, TepTarget, Placed, Moved
<1>5. \/ ~ctx.move /\ dev' = Placed(dev, TepTarget)
      \/ ctx.move /\ dev' = Moved(dev, ctx.tep, TepTarget)
      => /\ OnDevice' = OnDevice \cup {TepTarget}
         /\ dev'.torn \subseteq dev.torn
         /\ ~ctx.move => dev.teps \subseteq dev'.teps
  <2>1. CASE ~ctx.move /\ dev' = Placed(dev, TepTarget)
    <3>1. /\ dev'.teps = dev.teps \cup {TepTarget}
          /\ dev'.torn \subseteq dev.torn
      BY <2>1, <1>t DEF DevType, Placed
    <3> QED
      BY <3>1, <1>1 DEF OnDevice
  <2>2. CASE ctx.move /\ dev' = Moved(dev, ctx.tep, TepTarget)
    <3>1. /\ dev'.teps = (dev.teps \cup {TepTarget}) \ {ctx.tep}
          /\ dev'.torn \subseteq dev.torn
      BY <2>2, <1>t DEF DevType, Moved, Placed
    <3>2. OnDevice' = OnDevice \cup {TepTarget}
      BY <3>1, <1>1 DEF OnDevice
    <3> QED
      BY <2>2, <3>1, <3>2
  <2> QED
    BY <2>1, <2>2
<1> QED
  BY <1>1, <1>2, <1>3, <1>4, <1>5

LEMMA InstallTepStep ==
  ASSUME TypeInv, RowInv, RowInv', SessionInv, PlaceInv, FilesInv, TepInv, Next, ~Begin, ~Exit,
         TepCalm', req = "Install", Handled
  PROVE  TepWhere'
<1>t. /\ LoopType /\ DevType /\ CtxType /\ CardType /\ it \in 1..8 /\ Length(req) = 8
  BY StepLists DEF TypeInv, Length
<1>i. /\ InstallTep /\ dev.torn = {} /\ Supplied /\ FilesCalm /\ FilesCalm'
      /\ "cardForgotten" \notin past /\ ~Fault("tep")
  BY TepCalmStep, FilesCalmStep DEF TepInv, TepWhere, TepCalm, Fault
<1>p. /\ UNCHANGED <<req, made, ctx.old, ctx.move>>
      /\ \/ UNCHANGED <<phase, it>> /\ Launches
         \/ /\ phase = "process" /\ phase' = "process" /\ it' = it + 1 /\ it < 8
         \/ /\ phase = "process" /\ phase' = "clean" /\ it' = 1 /\ it = 8
         \/ /\ phase = "process" /\ phase' = "undo" /\ it' = it
         \/ /\ phase = "undo" /\ phase' = "undo" /\ it' = it - 1 /\ it > 1
         \/ /\ phase = "undo" /\ phase' = "end" /\ it' = it /\ it = 1
         \/ /\ phase = "clean" /\ phase' = "clean" /\ it' = it + 1 /\ it < 8
         \/ /\ phase = "clean" /\ phase' = "end" /\ it' = it
  BY <1>t, Proceeds
<1>o. \/ Launches
      \/ /\ phase = "process" /\ it = 5 => CopyTep
         /\ phase = "process" /\ it = 7 => Register
         /\ phase = "undo" /\ it = 5 => CopyTepUndo
  BY <1>t, Owners, StepLists
<1>f. \/ Quiet
      \/ phase = "process" /\ it = 3 /\ AcquireExternalStorage
      \/ phase = "undo" /\ it = 4 /\ CopyUndo
      \/ phase = "clean" /\ it = 4 /\ CopyClean
      \/ phase = "process" /\ it = 5 /\ CopyTep
      \/ phase = "undo" /\ it = 5 /\ CopyTepUndo
      \/ phase = "process" /\ it = 7 /\ Register
      \/ phase = "undo" /\ it = 7 /\ RegisterUndo
  BY <1>t, TepLocated DEF Quiet
<1>n. dev.row.v = 0 => dev.row.tep = None
  BY DEF RowInv, NoRow
<1>s. SUFFICES /\ dev'.torn = {} /\ Supplied'
               /\ phase' \in {"idle", "end"} => Kept(dev.row.tep)'
               /\ Handled' => InstallTep'
  BY <1>p DEF TepWhere
<1>1. CASE Quiet
  <2>1. /\ UNCHANGED <<OnDevice, dev.row.tep, ctx.tep, Storage, card.at>>
        /\ dev'.torn = {} /\ Supplied'
    BY <1>1, <1>i, QuietSteps, UntouchedSame DEF Untouched
  <2>2. CASE Launches
    <3>1. UNCHANGED <<phase, it>>
      BY <2>2, Proceeds
    <3> QED
      BY <1>i, <1>p, <2>1, <3>1 DEF InstallTep, Processes, Undoes, Kept, Stored, Handled
  <2>3. CASE ~Launches
    <3>1. ~(phase = "process" /\ it \in {5, 7}) /\ ~(phase = "undo" /\ it = 5)
      BY <1>1, <1>o, <2>3 DEF Quiet, TepActions, RowTepActions
    <3>2. ASSUME phase = "process"
          PROVE  /\ phase' \notin {"idle", "end"}
                 /\ InstallTep'
      <4>1. CASE phase' = "clean"
        <5>1. OnDevice = Only(dev.row.tep) /\ Stored(dev.row.tep)
          BY <1>i, <1>p, <3>2, <4>1 DEF InstallTep, Processes
        <5>2. card.at = Storage
          BY <1>i, <1>p, <1>t, <3>2, <4>1
          DEF PlaceInv, Opened, Processes, Storage, CardType, Places
        <5> QED
          BY <2>1, <4>1, <5>1, <5>2 DEF InstallTep, Processes, Undoes, Kept, Stored
      <4>2. CASE phase' # "clean"
        BY <1>i, <1>p, <1>t, <2>1, <2>3, <3>1, <3>2, <4>2
        DEF InstallTep, Processes, Undoes, Stored
      <4> QED
        BY <1>p, <2>3, <3>2, <4>1, <4>2
    <3>3. ASSUME phase = "undo", phase' = "undo"
          PROVE  InstallTep'
      BY <1>i, <1>p, <1>t, <2>1, <2>3, <3>1, <3>3 DEF InstallTep, Processes, Undoes, Stored
    <3>4. ASSUME phase = "undo", phase' = "end"
          PROVE  Kept(dev.row.tep)'
      <4>1. dev'.row.v = 0
        BY <1>i, <3>4, EndsWith DEF RowInv, Handled
      <4>2. dev'.row.tep = None /\ OnDevice = {}
        BY <1>i, <1>p, <2>3, <3>4, <4>1 DEF RowInv, NoRow, InstallTep, Undoes
      <4> QED
        BY <2>1, <4>2 DEF Kept, Only
    <3>5. ASSUME phase = "clean"
          PROVE  Kept(dev.row.tep)' /\ (phase' = "clean" => InstallTep')
      BY <1>i, <2>1, <3>5 DEF InstallTep, Processes, Undoes, Kept
    <3> QED
      BY <1>p, <2>1, <2>3, <3>2, <3>3, <3>4, <3>5 DEF Handled
  <2> QED
    BY <2>2, <2>3
<1>2. CASE phase = "process" /\ it = 3 /\ AcquireExternalStorage
  <2>1. UNCHANGED <<dev, ctx.tep>>
    BY <1>2, CtxTepFrame
    DEF AcquireExternalStorage, KeepDev, CopyTep, UpdateTep, MoveInstalledStorage, MoveTep, Process
  <2>2. (phase' = "process" /\ it' = 4) \/ (phase' = "undo" /\ it' = 3)
    <3>1. Ok \/ Fails
      BY <1>2 DEF AcquireExternalStorage
    <3> QED
      BY <1>2, <1>t, <3>1, Handlers
  <2> QED
    BY <1>2, <1>i, <1>p, <2>1, <2>2
    DEF InstallTep, Processes, Undoes, OnDevice, Supplied
<1>3. CASE phase = "undo" /\ it = 4 /\ CopyUndo
  <2>1. /\ dev' = RemovedDir(dev) /\ ctx' = ctx /\ \E ok \in BOOLEAN : Undone(ok)
    BY <1>3, <1>i DEF CopyUndo, Fault, FilesCalm, KeepCtx
  <2>2. phase' = "undo" /\ it' = 3
    BY <1>3, <1>t, <2>1, Handlers
  <2>3. dev'.teps = dev.teps \ OnPhone(dev.teps) /\ dev'.torn = dev.torn
    BY <1>t, <2>1 DEF DevType, RemovedDir
  <2>4. OnDevice = {}
    BY <1>3, <1>i DEF InstallTep, Undoes
  <2>5. OnDevice' = {} /\ Supplied'
    BY <1>i, <2>1, <2>3, <2>4, TepFacts DEF OnDevice, OnPhone, Supplied, CtxType
  <2> QED
    BY <1>i, <2>2, <2>3, <2>5 DEF InstallTep, Processes, Undoes
<1>4. CASE phase = "clean" /\ it = 4 /\ CopyClean
  <2>1. UNCHANGED <<dev, ctx>> /\ phase' = "clean"
    <3>1. Cleaned
      BY <1>4 DEF CopyClean
    <3> QED
      BY <1>4, <1>t, <3>1, Handlers DEF CopyClean, KeepDev, KeepCtx
  <2>2. card'.at = card.at
    <3>1. ctx.ext => card.session = "Install"
      BY <1>4 DEF SessionInv, Session, Cleans
    <3> QED
      BY <1>4, <1>t, <3>1 DEF CopyClean, CommitCard, Commit, Finalize, CardType
  <2> QED
    BY <1>4, <1>i, <2>1, <2>2
    DEF InstallTep, Processes, Undoes, OnDevice, Supplied, Kept
<1>5. CASE phase = "process" /\ it = 5 /\ CopyTep
  <2>1. OnDevice = {} /\ (ctx.tep # None => ctx.tep.at = "store")
    BY <1>5, <1>i DEF InstallTep, Processes
  <2>2. ctx'.ext = ctx.ext
    BY CardMoves, <1>5
    DEF Opens, Closes, CopyTep, AcquireExternalStorage, MoveInstalledStorage,
        MoveInstalledStorageRefused, MoveTep, CopyUndo, CopyClean, CopyBackupUndo,
        CopyBackupClean, RemoveFiles, MoveInstalledStorageUndo, MoveInstalledStorageClean,
        Process, Undo, Clean
  <2>3. CASE ctx.tep = None
    <3>1. UNCHANGED <<dev, ctx>> /\ Ok
      BY <1>5, <2>3 DEF CopyTep, CopyTepFile, KeepDev, KeepCtx
    <3>2. phase' = "process" /\ it' = 6
      BY <1>5, <1>t, <3>1, Handlers
    <3> QED
      BY <1>i, <2>1, <2>3, <3>1, <3>2
      DEF InstallTep, Processes, Undoes, OnDevice, Supplied, Only, Stored
  <2>4. CASE ctx.tep # None
    <3>1. CopyTepFile
      BY <1>5, <2>4 DEF CopyTep
    <3>2. TepTarget \notin dev.teps
      BY <1>i, <2>1, <2>4, <3>1, CopyTepFileMoves DEF OnDevice, Storage
    <3>3. /\ Ok /\ ctx'.tep = TepTarget /\ OnDevice' = {TepTarget} /\ dev'.torn = {}
          /\ TepTarget.at = Storage /\ TepTarget.name = ctx.tep.name /\ TepTarget # None
          /\ ~ctx.move => dev.teps \subseteq dev'.teps
      BY <1>i, <2>1, <2>4, <3>1, <3>2, CopyTepFileMoves
    <3>4. phase' = "process" /\ it' = 6
      BY <1>5, <1>t, <3>3, Handlers
    <3>5. Supplied'
      BY <1>i, <1>p, <2>4, <3>3 DEF Supplied
    <3> QED
      BY <2>2, <3>3, <3>4, <3>5 DEF InstallTep, Processes, Undoes, Only, Stored, Storage
  <2> QED
    BY <2>3, <2>4
<1>6. CASE phase = "undo" /\ it = 5 /\ CopyTepUndo
  <2>1. /\ ctx' = ctx /\ \E ok \in BOOLEAN : Undone(ok)
        /\ dev' = [dev EXCEPT !.teps = (@ \ {ctx.tep})
                                         \ (IF ctx.ext THEN {Tep("card", ctx.tep.name)} ELSE {})]
    BY <1>6 DEF CopyTepUndo, KeepCtx
  <2>2. phase' = "undo" /\ it' = 4
    BY <1>6, <1>t, <2>1, Handlers
  <2>3. /\ dev'.torn = dev.torn
        /\ dev'.teps = (dev.teps \ {ctx.tep})
                         \ (IF ctx.ext THEN {Tep("card", ctx.tep.name)} ELSE {})
    BY <1>t, <2>1 DEF DevType
  <2>4. OnDevice = Only(ctx.tep) /\ Stored(ctx.tep)
    BY <1>6, <1>i DEF InstallTep, Undoes
  <2>5. OnDevice' = {}
    BY <2>3, <2>4 DEF OnDevice, Only
  <2>6. Supplied'
    <3> SUFFICES ASSUME ctx.tep # None, ~ctx.move
                 PROVE  Tep("store", ctx.tep.name) \in dev'.teps
      BY <2>1 DEF Supplied
    <3>1. /\ Tep("store", ctx.tep.name).at = "store" /\ Tep("card", ctx.tep.name).at = "card"
          /\ ctx.tep.at # "store"
      BY <1>t, <2>4, TepFacts DEF CtxType, Stored, Storage
    <3> QED
      BY <1>i, <2>3, <3>1 DEF Supplied
  <2> QED
    BY <1>i, <2>2, <2>3, <2>5, <2>6 DEF InstallTep, Processes, Undoes
<1>7. CASE phase = "process" /\ it = 7 /\ Register
  <2>1. /\ ctx' = ctx
        /\ \/ Ok /\ dev' = [dev EXCEPT !.row = RowWith(made, ctx.tep, TRUE)]
           \/ Fails /\ dev' = dev
    BY <1>7 DEF Register, KeepCtx, KeepDev
  <2>2. UNCHANGED <<dev.teps, dev.torn>>
    BY <1>t, <2>1 DEF DevType
  <2>3. RowWith(made, ctx.tep, TRUE).tep = ctx.tep
    BY DEF RowWith
  <2>4. \/ phase' = "process" /\ it' = 8 /\ dev'.row.tep = ctx.tep
        \/ phase' = "undo" /\ it' = 7
    <3>1. \/ Ok /\ dev'.row = RowWith(made, ctx.tep, TRUE)
          \/ Fails
      BY <1>t, <2>1 DEF DevType
    <3>2. (Ok /\ dev'.row.tep = ctx.tep) \/ Fails
      BY <2>3, <3>1
    <3> QED
      BY <1>7, <1>t, <3>2, Handlers
  <2> QED
    BY <1>7, <1>i, <2>1, <2>2, <2>4
    DEF InstallTep, Processes, Undoes, OnDevice, Supplied, Stored, Storage
<1>8. CASE phase = "undo" /\ it = 7 /\ RegisterUndo
  <2>1. /\ ctx' = ctx /\ (\E ok \in BOOLEAN : Undone(ok))
        /\ dev' = [dev EXCEPT !.row = NoRow] \/ dev' = dev
    BY <1>8 DEF RegisterUndo, KeepCtx, KeepDev
  <2>2. UNCHANGED <<dev.teps, dev.torn>>
    BY <1>t, <2>1 DEF DevType
  <2>3. phase' = "undo" /\ it' = 6
    BY <1>8, <1>t, <2>1, Handlers
  <2> QED
    BY <1>8, <1>i, <2>1, <2>2, <2>3
    DEF InstallTep, Processes, Undoes, OnDevice, Supplied, Stored, Storage
<1> QED
  BY <1>f, <1>1, <1>2, <1>3, <1>4, <1>5, <1>6, <1>7, <1>8

\* The TEP files when the package directory becomes the backup, and back.
Device(teps) == {f \in teps : f.at # "store"}
AsBackup(teps) == (teps \ OnPhone(teps)) \cup Renamed(OnPhone(teps), "bck")
AsBefore(teps) == (teps \ (OnPhone(teps) \cup InBackup(teps))) \cup Renamed(InBackup(teps), "phone")

LEMMA BackupSets ==
  ASSUME NEW teps \in SUBSET TepFiles, NEW t \in TepPlaces
  PROVE  /\ \A f \in TepFiles : f.at = "store" /\ f \in teps =>
              f \in AsBackup(teps) /\ f \in AsBefore(teps) /\ f \in teps \ InBackup(teps)
         /\ Device(teps) = Only(t) /\ (t # None => t.at = "card") =>
              Device(AsBackup(teps)) = Only(t) /\ Device(AsBefore(teps)) = Only(t)
         /\ t # None /\ t.at = "phone" /\ Device(teps) = Only(t) =>
              Device(AsBackup(teps)) = {Tep("bck", t.name)}
         /\ /\ t # None /\ t.at = "phone" /\ Tep("bck", t.name) \in teps
            /\ \A f \in Device(teps) \ {Tep("bck", t.name)} : f.at = "phone"
            => Device(AsBefore(teps)) = Only(t)
         /\ (\A f \in Device(teps) : f.at = "phone") => Device(AsBefore(teps)) = {}
<1>t. /\ \A f \in teps : f \in TepFiles /\ f.at \in {"store", "phone", "bck", "card"}
                         /\ f.name \in TepNames /\ f = Tep(f.at, f.name) /\ f # None
      /\ \A at \in {"phone", "bck"}, name \in TepNames : Tep(at, name).at = at /\ Tep(at, name).name = name
      /\ t # None => t \in TepFiles /\ t.name \in TepNames /\ t = Tep(t.at, t.name)
  BY TepFacts
<1>1. \A f : f \in OnPhone(teps) <=> f \in teps /\ f.at = "phone"
  BY DEF OnPhone
<1>2. \A f : f \in InBackup(teps) <=> f \in teps /\ f.at = "bck"
  BY DEF InBackup
<1>3. \A f : f \in AsBackup(teps) <=>
        \/ f \in teps /\ f.at # "phone"
        \/ \E g \in teps : g.at = "phone" /\ f = Tep("bck", g.name)
  BY <1>1 DEF AsBackup, Renamed
<1>4. \A f : f \in AsBefore(teps) <=>
        \/ f \in teps /\ f.at # "phone" /\ f.at # "bck"
        \/ \E g \in teps : g.at = "bck" /\ f = Tep("phone", g.name)
  BY <1>1, <1>2 DEF AsBefore, Renamed
<1>5. \A f, S : f \in Device(S) <=> f \in S /\ f.at # "store"
  BY DEF Device
<1> HIDE DEF Tep, TepFiles
<1>6. \A f \in TepFiles : f.at = "store" /\ f \in teps =>
        f \in AsBackup(teps) /\ f \in AsBefore(teps) /\ f \in teps \ InBackup(teps)
  BY <1>2, <1>3, <1>4
<1>7. ASSUME Device(teps) = Only(t), t # None => t.at = "card"
      PROVE  Device(AsBackup(teps)) = Only(t) /\ Device(AsBefore(teps)) = Only(t)
  <2>1. \A g \in teps : g.at # "phone" /\ g.at # "bck"
    BY <1>5, <1>7 DEF Only
  <2>2. AsBackup(teps) = teps /\ AsBefore(teps) = teps
    BY <1>3, <1>4, <2>1
  <2> QED
    BY <1>7, <2>2
<1>8. ASSUME t # None, t.at = "phone", Device(teps) = Only(t)
      PROVE  Device(AsBackup(teps)) = {Tep("bck", t.name)}
  <2>1. \A g \in teps : g.at # "store" <=> g = t
    BY <1>5, <1>8 DEF Only
  <2>2. t \in teps
    BY <1>5, <1>8 DEF Only
  <2>3. \A f : f \in Device(AsBackup(teps)) <=> f = Tep("bck", t.name)
    BY <1>3, <1>5, <1>8, <1>t, <2>1, <2>2
  <2> QED
    BY <2>3
<1>9. ASSUME t # None, t.at = "phone", Tep("bck", t.name) \in teps,
             \A f \in Device(teps) \ {Tep("bck", t.name)} : f.at = "phone"
      PROVE  Device(AsBefore(teps)) = Only(t)
  <2>1. \A g \in teps : g.at # "store" => g.at = "phone" \/ g = Tep("bck", t.name)
    BY <1>5, <1>9
  <2>2. Tep("phone", t.name) = t /\ Tep("bck", t.name).name = t.name
        /\ Tep("bck", t.name).at = "bck"
    BY <1>9, <1>t
  <2>3. \A f : f \in Device(AsBefore(teps)) <=> f = t
    BY <1>4, <1>5, <1>9, <1>t, <2>1, <2>2
  <2> QED
    BY <1>9, <2>3 DEF Only
<1>10. ASSUME \A f \in Device(teps) : f.at = "phone"
       PROVE  Device(AsBefore(teps)) = {}
  <2>1. \A g \in teps : g.at # "store" => g.at = "phone"
    BY <1>5, <1>10
  <2>2. \A f : f \notin Device(AsBefore(teps))
    BY <1>4, <1>5, <1>t, <2>1
  <2> QED
    BY <2>2
<1> QED
  BY <1>6, <1>7, <1>8, <1>9, <1>10

\* The steps of an update that have nothing to do with a TEP file.
LEMMA UpdateTepsQuiet ==
  ASSUME TypeInv, UpdateTeps, Next, ~Begin, ~Exit, req = "Update", Handled, Quiet
  PROVE  /\ Handled' => UpdateTeps'
         /\ phase' = "end" => Kept(dev.row.tep)'
<1>t. it \in 1..8 /\ Length(req) = 8
  BY StepLists DEF TypeInv, Length
<1>p. /\ UNCHANGED <<req, made, ctx.old, ctx.move>>
      /\ \/ UNCHANGED <<phase, it>> /\ Launches
         \/ /\ phase = "process" /\ phase' = "process" /\ it' = it + 1 /\ it < 8
         \/ /\ phase = "process" /\ phase' = "clean" /\ it' = 1 /\ it = 8
         \/ /\ phase = "process" /\ phase' = "undo" /\ it' = it
         \/ /\ phase = "undo" /\ phase' = "undo" /\ it' = it - 1 /\ it > 1
         \/ /\ phase = "undo" /\ phase' = "end" /\ it' = it /\ it = 1
         \/ /\ phase = "clean" /\ phase' = "clean" /\ it' = it + 1 /\ it < 8
         \/ /\ phase = "clean" /\ phase' = "end" /\ it' = it
  BY <1>t, Proceeds
<1>u. /\ UNCHANGED <<OnDevice, OldTep, NewTep, Storage, dev.bck, dev.row.tep, ctx.tep, ctx.new,
                     ctx.ext, ctx.old, ctx.move, card.at>>
      /\ InBackup(OldTep)' = InBackup(OldTep)
  BY QuietSteps, UntouchedSame DEF Untouched
<1>1. CASE Launches
  <2>1. UNCHANGED <<phase, it>>
    BY <1>1, Proceeds
  <2> QED
    BY <1>p, <1>u, <2>1 DEF UpdateTeps, Processes, Undoes, Kept, Stored, Handled
<1>2. CASE ~Launches
  <2>1. /\ ~(phase = "process" /\ it \in {3, 4, 5, 6}) /\ ~(phase = "undo" /\ it \in {4, 5, 6})
        /\ ~(phase = "clean" /\ it \in {4, 5})
    <3>1. /\ phase = "process" =>
               /\ it = 3 => AcquireExternalStorage
               /\ it = 4 => CopyBackup
               /\ it = 5 => UpdateTep
               /\ it = 6 => UpdateApp
          /\ phase = "undo" =>
               /\ it = 4 => CopyBackupUndo
               /\ it = 5 => UpdateTepUndo
               /\ it = 6 => UpdateAppUndo
          /\ phase = "clean" =>
               /\ it = 4 => CopyBackupClean
               /\ it = 5 => UpdateTepClean
      BY <1>2, Owners, StepLists DEF TypeInv
    <3> QED
      BY <3>1 DEF Quiet, TepActions, RowTepActions, Opens
  <2>2. phase = "clean" /\ phase' = "end" => it = 8
    BY <1>2, <1>t, <2>1, NeverFail, StepLists DEF TypeInv
  <2>3. CASE phase = "process" /\ it \in {1, 2}
    <3>1. \/ phase' = "process" /\ it' \in {2, 3}
          \/ phase' = "undo" /\ it' \in {1, 2}
      BY <1>2, <1>p, <2>3
    <3>2. /\ dev.row.tep = ctx.old.tep /\ Kept(ctx.old.tep)
          /\ ctx.tep # None => ctx.tep.at = "store"
      BY <2>3 DEF UpdateTeps, Processes
    <3>3. ASSUME phase' = "process", it' \in {2, 3}
          PROVE  UpdateTeps'
      BY <1>p, <1>u, <3>2, <3>3 DEF UpdateTeps, Processes, Undoes, Kept
    <3>4. ASSUME phase' = "undo", it' \in {1, 2}
          PROVE  UpdateTeps'
      BY <1>p, <1>u, <3>2, <3>4 DEF UpdateTeps, Processes, Undoes, Kept
    <3> QED
      BY <3>1, <3>3, <3>4
  <2>4. CASE phase = "process" /\ it \in {7, 8}
    <3>1. /\ dev.row.tep = ctx.new /\ OnDevice = OldTep \cup Only(ctx.new) /\ ctx.new = NewTep
          /\ Stored(ctx.new) /\ Stored(ctx.old.tep) /\ card.at = Storage /\ req = "Update"
      BY <2>4 DEF UpdateTeps, Processes
    <3>2. ctx.tep # None => ctx.tep.at = Storage
      BY <3>1 DEF NewTep, Stored
    <3>3. ASSUME phase' = "undo", it' \in {7, 8}
          PROVE  UpdateTeps'
      <4>1. dev.bck # 0
        BY <2>4 DEF UpdateTeps, Processes
      <4> QED
        BY <1>p, <1>u, <3>1, <3>2, <3>3, <4>1 DEF UpdateTeps, Processes, Undoes, Stored
    <3>4. ASSUME phase' = "process", it' = 8
          PROVE  UpdateTeps'
      <4>1. dev.bck # 0
        BY <2>4 DEF UpdateTeps, Processes
      <4> QED
        BY <1>p, <1>u, <3>1, <3>4, <4>1 DEF UpdateTeps, Processes, Undoes, Stored
    <3>5. ASSUME phase' = "clean", it' = 1
          PROVE  UpdateTeps'
      BY <1>p, <1>u, <3>1, <3>5 DEF UpdateTeps, Processes, Undoes, Stored
    <3> QED
      BY <1>2, <1>p, <2>4, <3>3, <3>4, <3>5
  <2>5. CASE phase = "undo" /\ it \in {7, 8}
    <3>1. phase' = "undo" /\ it' \in {6, 7}
      BY <1>2, <1>p, <2>5
    <3> QED
      BY <1>p, <1>u, <2>5, <3>1 DEF UpdateTeps, Processes, Undoes, Stored
  <2>6. CASE phase = "undo" /\ it \in {1, 2, 3}
    <3>1. (phase' = "undo" /\ it' \in {1, 2}) \/ phase' = "end"
      BY <1>2, <1>p, <2>6
    <3>2. dev.row.tep = ctx.old.tep /\ Kept(ctx.old.tep)
      BY <2>6 DEF UpdateTeps, Undoes
    <3> QED
      BY <1>p, <1>u, <3>1, <3>2 DEF UpdateTeps, Processes, Undoes, Kept, Handled
  <2>7. CASE phase = "clean"
    <3>1. ASSUME phase' = "clean"
          PROVE  UpdateTeps'
      BY <1>2, <1>p, <1>t, <1>u, <2>1, <2>7, <3>1 DEF UpdateTeps, Processes, Undoes, Stored
    <3>2. ASSUME phase' = "end"
          PROVE  Kept(dev.row.tep)'
      BY <1>u, <2>2, <2>7, <3>2 DEF UpdateTeps, Kept, Stored
    <3> QED
      BY <1>2, <1>p, <2>7, <3>1, <3>2 DEF Handled
  <2> QED
    BY <1>p, <1>t, <2>1, <2>3, <2>4, <2>5, <2>6, <2>7 DEF Handled
<1> QED
  BY <1>1, <1>2

\* The package directory and its backup during an update.
LEMMA UpdateBackups ==
  ASSUME TypeInv, RowInv, SessionInv, FilesInv, UpdateTeps, Supplied, dev.torn = {},
         Next, ~Begin, ~Exit, TepCalm', FilesCalm, req = "Update",
         \/ phase = "process" /\ it = 4 /\ CopyBackup
         \/ phase = "undo" /\ it = 4 /\ CopyBackupUndo
         \/ phase = "clean" /\ it = 4 /\ CopyBackupClean
  PROVE  UpdateTeps' /\ Supplied' /\ dev'.torn = {} /\ phase' # "end"
<1>t. /\ LoopType /\ DevType /\ CtxType /\ CardType /\ Length(req) = 8
      /\ ctx.old.tep \in TepPlaces /\ dev.teps \in SUBSET TepFiles
      /\ ctx.tep \in TepPlaces
  BY DEF TypeInv, DevType, CtxType, Rows, Length
<1>f. ~Fault("remove") /\ ~Fault("clean")
  BY DEF TepCalm, Fault
<1>p. UNCHANGED <<req, made, ctx.old, ctx.move>>
  BY Proceeds
<1>o. /\ \A S : Device(S) = {f \in S : f.at # "store"}
      /\ OnDevice = Device(dev.teps) /\ OnDevice' = Device(dev'.teps)
  BY DEF OnDevice, Device
<1>r. dev'.row.tep = dev.row.tep
  BY RowTepFrame
  DEF RowTepActions, CopyBackup, CopyBackupUndo, CopyBackupClean, MoveTep,
      MoveInstalledStorageUndo, Register, RegisterUndo, UpdateApp, UpdateAppUndo, Unregister,
      UnregisterUndo, Process, Undo, Clean
<1>x. ctx' = ctx
  BY DEF CopyBackup, CopyBackupUndo, CopyBackupClean, KeepCtx
<1>k. ASSUME \A f \in TepFiles : f.at = "store" /\ f \in dev.teps => f \in dev'.teps
      PROVE  Supplied'
  <2>1. ctx.tep # None => Tep("store", ctx.tep.name) \in TepFiles
                          /\ Tep("store", ctx.tep.name).at = "store"
    BY <1>t, TepFacts
  <2> QED
    BY <1>k, <1>x, <2>1 DEF Supplied
<1>s. /\ Stored(ctx.old.tep) /\ card.at = Storage
      /\ ctx.old.tep # None /\ ctx.ext => ctx.old.tep.at = "card"
      /\ ctx.old.tep # None /\ ~ctx.ext => ctx.old.tep.at = "phone"
      /\ OldTep = IF ctx.old.tep = None \/ ctx.ext THEN Only(ctx.old.tep)
                  ELSE {Tep("bck", ctx.old.tep.name)}
      /\ UNCHANGED <<OldTep, NewTep, Storage>>
  BY <1>x DEF UpdateTeps, Processes, Undoes, Stored, Storage, OldTep, NewTep
<1>c. card'.at = card.at
  <2>1. ctx.ext /\ phase \in {"undo", "clean"} => card.session = "Update"
    BY DEF SessionInv, Session, Undoes, Cleans
  <2> QED
    BY <1>t, <1>f, <2>1
    DEF CopyBackup, CopyBackupUndo, CopyBackupClean, KeepCard, AbortCard, CommitCard, Abort,
        Commit, Finalize, CardType
<1>a. Device(dev.teps) = Only(ctx.old.tep) => Device(AsBackup(dev.teps)) = OldTep
  <2>1. CASE ctx.old.tep = None \/ ctx.ext
    <3>1. ctx.old.tep # None => ctx.old.tep.at = "card"
      BY <1>s, <2>1
    <3>2. Device(dev.teps) = Only(ctx.old.tep) => Device(AsBackup(dev.teps)) = Only(ctx.old.tep)
      BY <1>t, <3>1, BackupSets
    <3> QED
      BY <1>s, <2>1, <3>2
  <2>2. CASE ctx.old.tep # None /\ ~ctx.ext
    <3>1. ctx.old.tep.at = "phone" /\ OldTep = {Tep("bck", ctx.old.tep.name)}
      BY <1>s, <2>2
    <3>2. Device(dev.teps) = Only(ctx.old.tep) =>
            Device(AsBackup(dev.teps)) = {Tep("bck", ctx.old.tep.name)}
      BY <1>t, <2>2, <3>1, BackupSets
    <3> QED
      BY <3>1, <3>2
  <2> QED
    BY <2>1, <2>2
<1>1. CASE phase = "process" /\ it = 4 /\ CopyBackup
  <2>1. /\ OnDevice = Only(ctx.old.tep) /\ Kept(ctx.old.tep) /\ dev.row.tep = ctx.old.tep
        /\ ctx.tep # None => ctx.tep.at = "store"
    BY <1>1 DEF UpdateTeps, Processes, Kept
  <2>2. dev.files # 0 /\ dev.bck = 0
    BY <1>1 DEF FilesInv, UpdateFiles, Processes, RowInv, Handled
  <2>3. made # 0 /\ Torn # 0
    BY <1>1, <1>t DEF CtxType, Torn
  <2>4. ASSUME NEW x, dev' = BackedUp(dev, x)
        PROVE  dev'.bck = dev.files /\ dev'.torn = dev.torn /\ dev'.teps = AsBackup(dev.teps)
    BY <1>t, <2>4 DEF DevType, BackedUp, AsBackup
  <2>5. \/ Ok /\ dev' = BackedUp(dev, made)
        \/ Fails /\ dev' = BackedUp(dev, Torn)
        \/ Fails /\ dev' = dev
    BY <1>1 DEF CopyBackup, KeepDev
  <2>6. CASE Ok /\ dev' = BackedUp(dev, made)
    <3>1. phase' = "process" /\ it' = 5
      BY <1>1, <1>t, <2>6, Handlers
    <3>2. OnDevice' = OldTep /\ dev'.bck # 0 /\ dev'.torn = {} /\ Supplied'
      BY <1>a, <1>k, <1>o, <1>t, <2>1, <2>2, <2>4, <2>6, BackupSets
    <3> QED
      BY <1>c, <1>p, <1>r, <1>s, <1>x, <2>1, <3>1, <3>2
      DEF UpdateTeps, Processes, Undoes, Stored
  <2>7. CASE Fails /\ dev' = BackedUp(dev, Torn)
    <3>1. phase' = "undo" /\ it' = 4
      BY <1>1, <1>t, <2>7, Handlers
    <3>2. OnDevice' = OldTep /\ dev'.bck # 0 /\ dev'.torn = {} /\ Supplied'
      BY <1>a, <1>k, <1>o, <1>t, <2>1, <2>2, <2>4, <2>7, BackupSets
    <3>3. ctx.ext => OldTep = Only(ctx.old.tep)
      BY <1>s
    <3> QED
      BY <1>c, <1>p, <1>r, <1>s, <1>x, <2>1, <3>1, <3>2, <3>3
      DEF UpdateTeps, Processes, Undoes, Stored
  <2>8. CASE Fails /\ dev' = dev
    <3>1. phase' = "undo" /\ it' = 4
      BY <1>1, <1>t, <2>8, Handlers
    <3>2. OnDevice' = Only(ctx.old.tep) /\ dev'.bck = 0 /\ dev'.torn = {} /\ Supplied'
      BY <1>k, <1>o, <2>1, <2>2, <2>8
    <3> QED
      BY <1>c, <1>p, <1>r, <1>s, <1>x, <2>1, <3>1, <3>2
      DEF UpdateTeps, Processes, Undoes, Stored
  <2> QED
    BY <2>5, <2>6, <2>7, <2>8
<1>2. CASE phase = "undo" /\ it = 4 /\ CopyBackupUndo
  <2>1. /\ IF dev.bck = 0 \/ ctx.ext THEN OnDevice = Only(ctx.old.tep)
           ELSE OldTep \subseteq OnDevice /\ \A f \in OnDevice \ OldTep : f.at = "phone"
        /\ dev.row.tep = ctx.old.tep
    BY <1>2 DEF UpdateTeps, Undoes
  <2>2. phase' = "undo" /\ it' = 3
    <3>1. \E ok \in BOOLEAN : Undone(ok)
      BY <1>2 DEF CopyBackupUndo
    <3> QED
      BY <1>2, <1>t, <3>1, Handlers
  <2>3. \/ dev.bck = 0 /\ dev' = dev
        \/ dev.bck # 0 /\ dev'.teps = AsBefore(dev.teps) /\ dev'.torn = dev.torn
    BY <1>2, <1>f, <1>t DEF CopyBackupUndo, KeepDev, DevType, AsBefore
  <2>4. OnDevice' = Only(ctx.old.tep)
    <3>1. CASE dev.bck = 0
      BY <1>o, <2>1, <2>3, <3>1
    <3>2. CASE dev.bck # 0 /\ ctx.ext
      BY <1>o, <1>s, <1>t, <2>1, <2>3, <3>2, BackupSets
    <3>3. CASE dev.bck # 0 /\ ~ctx.ext /\ ctx.old.tep = None
      <4>1. OldTep = {} /\ Only(ctx.old.tep) = {}
        BY <1>s, <3>3 DEF Only
      <4> QED
        BY <1>o, <1>t, <2>1, <2>3, <3>3, <4>1, BackupSets
    <3>4. CASE dev.bck # 0 /\ ~ctx.ext /\ ctx.old.tep # None
      <4>1. OldTep = {Tep("bck", ctx.old.tep.name)} /\ ctx.old.tep.at = "phone"
        BY <1>s, <3>4
      <4>2. /\ Tep("bck", ctx.old.tep.name) \in dev.teps
            /\ \A f \in Device(dev.teps) \ {Tep("bck", ctx.old.tep.name)} : f.at = "phone"
        BY <1>o, <2>1, <3>4, <4>1
      <4> QED
        BY <1>o, <1>t, <2>3, <3>4, <4>1, <4>2, BackupSets
    <3> QED
      BY <3>1, <3>2, <3>3, <3>4
  <2>5. Supplied' /\ dev'.torn = {}
    BY <1>k, <1>t, <2>3, BackupSets
  <2> QED
    BY <1>c, <1>p, <1>r, <1>s, <1>x, <2>1, <2>2, <2>4, <2>5
    DEF UpdateTeps, Processes, Undoes, Stored, Kept
<1>3. CASE phase = "clean" /\ it = 4 /\ CopyBackupClean
  <2>1. /\ OnDevice = OldTep \cup Only(ctx.new) /\ Stored(ctx.new) /\ dev.row.tep = ctx.new
    BY <1>3 DEF UpdateTeps
  <2>2. /\ Cleaned /\ dev'.teps = dev.teps \ InBackup(dev.teps) /\ dev'.torn = dev.torn
    BY <1>3, <1>f, <1>t DEF CopyBackupClean, DevType
  <2>3. phase' = "clean" /\ it' = 5
    BY <1>3, <1>t, <2>2, Handlers
  <2>4. OnDevice' = (OldTep \ InBackup(OldTep)) \cup Only(ctx.new)
    BY <2>1, <2>2 DEF OnDevice, InBackup, Only, Stored, Storage
  <2>5. Supplied' /\ dev'.torn = {}
    BY <1>k, <1>t, <2>2, BackupSets
  <2>6. InBackup(OldTep)' = InBackup(OldTep)
    BY <1>s
  <2> QED
    BY <1>c, <1>p, <1>r, <1>s, <1>x, <2>1, <2>3, <2>4, <2>5, <2>6
    DEF UpdateTeps, Processes, Undoes, Stored
<1> QED
  BY <1>1, <1>2, <1>3

\* The session with the card of an update, and the new version in the database.
LEMMA UpdateCardAndRow ==
  ASSUME TypeInv, SessionInv, UpdateTeps, Supplied, dev.torn = {},
         Next, ~Begin, ~Exit, TepCalm', req = "Update",
         \/ phase = "process" /\ it = 3 /\ AcquireExternalStorage
         \/ phase = "process" /\ it = 6 /\ UpdateApp
         \/ phase = "undo" /\ it = 6 /\ UpdateAppUndo
  PROVE  UpdateTeps' /\ Supplied' /\ dev'.torn = {} /\ phase' # "end"
<1>t. LoopType /\ DevType /\ CtxType /\ CardType /\ Length(req) = 8
  BY StepLists DEF TypeInv, Length
<1>p. UNCHANGED <<req, made, ctx.old, ctx.move>>
  BY Proceeds
<1>1. CASE phase = "process" /\ it = 3 /\ AcquireExternalStorage
  <2>1. UNCHANGED <<dev, ctx.tep>>
    BY <1>1, CtxTepFrame
    DEF AcquireExternalStorage, KeepDev, CopyTep, UpdateTep, MoveInstalledStorage, MoveTep, Process
  <2>2. (phase' = "process" /\ it' = 4) \/ (phase' = "undo" /\ it' = 3)
    <3>1. Ok \/ Fails
      BY <1>1 DEF AcquireExternalStorage
    <3> QED
      BY <1>1, <1>t, <3>1, Handlers
  <2>3. /\ Kept(ctx.old.tep) /\ dev.row.tep = ctx.old.tep /\ ~ctx.ext
        /\ ctx.tep # None => ctx.tep.at = "store"
    BY <1>1 DEF UpdateTeps, Processes, SessionInv, NoSessionYet
  <2>4. card'.at = card.at /\ (phase' = "process" => card.at = Storage')
    <3>1. card.at \in {"phone", "card"}
      BY <1>t DEF CardType, Places
    <3>2. WantsCard <=> card.at = "card"
      BY DEF WantsCard
    <3>3. \/ ctx'.ext /\ WantsCard /\ card'.at = "card"
          \/ /\ ctx'.ext = ctx.ext /\ card'.at = card.at
             /\ phase' # "undo" => ~WantsCard
      BY <1>1, CardMoves DEF Opens
    <3> QED
      BY <2>2, <2>3, <3>1, <3>2, <3>3 DEF Storage
  <2>5. Kept(ctx.old.tep)' /\ Supplied' /\ dev'.torn = {} /\ dev'.row.tep = ctx'.old.tep
    BY <1>p, <2>1, <2>3, <2>4 DEF Kept, OnDevice, Supplied
  <2>6. phase' = "process" => Stored(ctx.old.tep)'
    BY <2>4, <2>5 DEF Kept, Stored
  <2> QED
    BY <1>p, <2>1, <2>2, <2>3, <2>4, <2>5, <2>6 DEF UpdateTeps, Processes, Undoes
<1>2. CASE (phase = "process" /\ it = 6 /\ UpdateApp) \/ (phase = "undo" /\ it = 6 /\ UpdateAppUndo)
  <2>1. /\ UNCHANGED <<dev.teps, dev.torn, dev.bck, ctx, card>>
    <3>1. \/ dev' = dev
          \/ \E r : dev' = [dev EXCEPT !.row = r]
      BY <1>2 DEF UpdateApp, UpdateAppUndo, Written, KeepDev
    <3> QED
      BY <1>2, <1>t, <3>1 DEF DevType, UpdateApp, UpdateAppUndo, KeepCtx, KeepCard
  <2>2. /\ UNCHANGED <<OnDevice, OldTep, NewTep, Storage>> /\ Supplied' /\ dev'.torn = {}
    BY <1>p, <2>1 DEF OnDevice, OldTep, NewTep, Storage, Supplied
  <2>3. CASE phase = "process" /\ it = 6 /\ UpdateApp
    <3>1. \/ phase' = "process" /\ it' = 7 /\ dev'.row.tep = ctx.new
          \/ phase' = "undo" /\ it' = 6
      <4>1. RowWith(made, ctx.new, TRUE).tep = ctx.new /\ RowWith(made, ctx.new, FALSE).tep = ctx.new
        BY DEF RowWith
      <4>2. \/ Ok /\ \E e \in BOOLEAN : dev'.row = RowWith(made, ctx.new, e)
            \/ Fails
        BY <1>t, <2>3 DEF DevType, UpdateApp, Written
      <4>3. (Ok /\ dev'.row.tep = ctx.new) \/ Fails
        BY <4>1, <4>2
      <4> QED
        BY <2>3, <1>t, <4>3, Handlers
    <3>2. /\ OnDevice = OldTep \cup Only(ctx.new) /\ ctx.new = NewTep /\ Stored(ctx.new)
          /\ Stored(ctx.old.tep) /\ card.at = Storage /\ dev.bck # 0
      BY <2>3 DEF UpdateTeps, Processes
    <3>3. ctx.tep # None => ctx.tep.at = Storage
      BY <3>2 DEF NewTep, Stored
    <3> QED
      BY <1>p, <2>1, <2>2, <3>1, <3>2, <3>3 DEF UpdateTeps, Processes, Undoes, Stored
  <2>4. CASE phase = "undo" /\ it = 6 /\ UpdateAppUndo
    <3>1. phase' = "undo" /\ it' = 5 /\ dev'.row.tep = ctx.old.tep
      <4>1. /\ RowWith(ctx.old.v, ctx.old.tep, TRUE).tep = ctx.old.tep
            /\ RowWith(ctx.old.v, ctx.old.tep, FALSE).tep = ctx.old.tep
        BY DEF RowWith
      <4>2. ~Fault("registerAgain")
        BY DEF TepCalm, Fault
      <4>3. /\ \E ok \in BOOLEAN : Undone(ok)
            /\ \E e \in BOOLEAN : dev'.row = RowWith(ctx.old.v, ctx.old.tep, e)
        BY <1>t, <2>4, <4>2 DEF DevType, UpdateAppUndo, Written
      <4>4. dev'.row.tep = ctx.old.tep
        BY <4>1, <4>3
      <4> QED
        BY <2>4, <1>t, <4>3, <4>4, Handlers
    <3>2. /\ OnDevice \in {OldTep, OldTep \cup Only(NewTep)} /\ dev.bck # 0
          /\ ctx.tep # None => ctx.tep.at = Storage \/ (ctx.tep.at = "store" /\ ctx.move /\ OnDevice = OldTep)
          /\ Stored(ctx.old.tep) /\ card.at = Storage
      BY <2>4 DEF UpdateTeps, Undoes
    <3> QED
      BY <1>p, <2>1, <2>2, <3>1, <3>2 DEF UpdateTeps, Processes, Undoes, Stored
  <2> QED
    BY <1>2, <2>3, <2>4
<1> QED
  BY <1>1, <1>2

\* The new TEP file of an update, or the old one, which it preserves.
LEMMA UpdateTepStarts ==
  ASSUME TypeInv, UpdateTeps, Supplied, dev.torn = {}, Next, ~Begin, ~Exit, TepCalm',
         req = "Update", phase = "process" /\ it = 5 /\ UpdateTep
  PROVE  UpdateTeps' /\ Supplied' /\ dev'.torn = {} /\ phase' # "end"
<1>t. /\ LoopType /\ DevType /\ CtxType /\ Length(req) = 8
      /\ ctx.old.tep \in TepPlaces /\ dev.teps \in SUBSET TepFiles
  BY StepLists DEF TypeInv, Length, CtxType, Rows, DevType
<1>f. ~Fault("tep")
  BY DEF TepCalm, Fault
<1>p. UNCHANGED <<req, made, ctx.old, ctx.move>>
  BY Proceeds
<1>c. card' = card /\ UNCHANGED <<dev.bck, dev.row>>
  <2>1. \/ dev' = dev
        \/ \E f : dev' = Placed(dev, f) \/ dev' = TornAt(dev, f)
        \/ \E f, g : dev' = Moved(dev, f, g)
    BY DEF UpdateTep, CopyTepFile, PreserveTep, KeepDev
  <2> QED
    BY <1>t, <2>1 DEF UpdateTep, KeepCard, DevType, Placed, Moved, TornAt
<1>e. ctx'.ext = ctx.ext
  BY <1>t DEF CtxType, UpdateTep, CopyTepFile, PreserveTep, KeepCtx
<1>s. /\ OnDevice = OldTep /\ Stored(ctx.old.tep) /\ card.at = Storage /\ dev.bck # 0
      /\ dev.row.tep = ctx.old.tep
      /\ ctx.tep # None => ctx.tep.at = "store"
  BY DEF UpdateTeps, Processes
<1>u. UNCHANGED <<OldTep, Storage>>
  BY <1>e, <1>p DEF OldTep, Storage
<1>1. CASE CopyTepFile
  <2>1. /\ ctx.tep # None /\ TepTarget # None /\ TepTarget.at = Storage
        /\ TepTarget.name = ctx.tep.name
        /\ \/ /\ Ok /\ ctx'.tep = TepTarget /\ ctx'.new = TepTarget
              /\ OnDevice' = OnDevice \cup {TepTarget}
              /\ dev'.torn \subseteq dev.torn
              /\ ~ctx.move => dev.teps \subseteq dev'.teps
           \/ /\ Fails /\ ctx.move /\ ctx' = ctx /\ UNCHANGED <<dev.teps, dev.torn>>
    <3>1. ctx.tep.at = "store"
      BY <1>1, <1>s DEF CopyTepFile
    <3> QED
      BY <1>1, <1>f, <3>1, CopyTepFileMoves
  <2>2. CASE /\ Ok /\ ctx'.tep = TepTarget /\ ctx'.new = TepTarget
             /\ OnDevice' = OnDevice \cup {TepTarget} /\ dev'.torn \subseteq dev.torn
             /\ ~ctx.move => dev.teps \subseteq dev'.teps
    <3>1. phase' = "process" /\ it' = 6
      BY <1>t, <2>2, Handlers
    <3>2. /\ OnDevice' = OldTep' \cup Only(ctx'.new) /\ ctx'.new = NewTep' /\ Stored(ctx.new)'
          /\ Supplied' /\ dev'.torn = {}
      BY <1>e, <1>p, <1>s, <1>u, <2>1, <2>2 DEF Only, NewTep, Stored, Supplied
    <3> QED
      BY <1>c, <1>p, <1>s, <1>u, <3>1, <3>2 DEF UpdateTeps, Processes, Undoes, Stored
  <2>3. CASE Fails /\ ctx.move /\ ctx' = ctx /\ UNCHANGED <<dev.teps, dev.torn>>
    <3>1. phase' = "undo" /\ it' = 5
      BY <1>t, <2>3, Handlers
    <3>2. OnDevice' = OldTep' /\ Supplied' /\ dev'.torn = {}
      BY <1>s, <1>u, <2>3 DEF OnDevice, Supplied
    <3> QED
      BY <1>c, <1>p, <1>s, <1>u, <2>3, <3>1, <3>2 DEF UpdateTeps, Processes, Undoes, Stored
  <2> QED
    BY <2>1, <2>2, <2>3
<1>2. CASE PreserveTep
  <2> DEFINE kept == ctx.old.tep
             saved == Tep("bck", kept.name)
  <2>1. /\ ctx.tep = None
        /\ \/ (kept = None \/ ctx.ext) /\ dev' = dev /\ Ok
           \/ kept # None /\ ~ctx.ext /\ dev' = Placed(dev, kept) /\ Ok
           \/ kept # None /\ ~ctx.ext /\ dev' = dev /\ Fails
        /\ ctx' = [ctx EXCEPT !.new = kept]
    BY <1>2 DEF PreserveTep, KeepDev
  <2>2. ctx'.tep = None /\ ctx'.new = kept /\ ctx'.new = NewTep'
    BY <1>p, <1>t, <2>1 DEF CtxType, NewTep
  <2>3. Supplied' /\ Stored(ctx.new)' /\ Stored(ctx.old.tep)'
    BY <1>p, <1>s, <1>u, <2>2 DEF Supplied, Stored
  <2>4. CASE (kept = None \/ ctx.ext) /\ dev' = dev /\ Ok
    <3>1. phase' = "process" /\ it' = 6
      BY <1>t, <2>4, Handlers
    <3>2. OnDevice' = OldTep' \cup Only(ctx'.new) /\ dev'.torn = {}
      BY <1>s, <1>u, <2>2, <2>4 DEF OnDevice, OldTep
    <3> QED
      BY <1>c, <1>p, <1>s, <1>u, <2>2, <2>3, <3>1, <3>2 DEF UpdateTeps, Processes, Undoes
  <2>5. CASE kept # None /\ ~ctx.ext /\ dev' = Placed(dev, kept) /\ Ok
    <3>1. phase' = "process" /\ it' = 6
      BY <1>t, <2>5, Handlers
    <3>2. dev'.teps = dev.teps \cup {kept} /\ dev'.torn \subseteq dev.torn
      BY <1>t, <2>5 DEF DevType, Placed
    <3>3. kept.at = "phone"
      BY <1>s, <2>5 DEF Stored, Storage
    <3>4. OnDevice' = OldTep' \cup Only(ctx'.new) /\ dev'.torn = {}
      BY <1>s, <1>u, <2>2, <2>5, <3>2, <3>3 DEF OnDevice, Only
    <3> QED
      BY <1>c, <1>p, <1>s, <1>u, <2>2, <2>3, <3>1, <3>4 DEF UpdateTeps, Processes, Undoes
  <2>6. CASE kept # None /\ ~ctx.ext /\ dev' = dev /\ Fails
    <3>1. phase' = "undo" /\ it' = 5
      BY <1>t, <2>6, Handlers
    <3>2. OnDevice' = OldTep' /\ dev'.torn = {}
      BY <1>s, <1>u, <2>6 DEF OnDevice
    <3> QED
      BY <1>c, <1>p, <1>s, <1>u, <2>2, <2>3, <3>1, <3>2 DEF UpdateTeps, Processes, Undoes
  <2> QED
    BY <2>1, <2>4, <2>5, <2>6
<1> QED
  BY <1>1, <1>2 DEF UpdateTep

LEMMA UpdateTepEnds ==
  ASSUME TypeInv, UpdateTeps, Supplied, dev.torn = {}, Next, ~Begin, ~Exit, TepCalm',
         req = "Update",
         \/ phase = "undo" /\ it = 5 /\ UpdateTepUndo
         \/ phase = "clean" /\ it = 5 /\ UpdateTepClean
  PROVE  UpdateTeps' /\ Supplied' /\ dev'.torn = {} /\ phase' # "end"
<1>t. /\ LoopType /\ DevType /\ CtxType /\ Length(req) = 8
      /\ ctx.old.tep \in TepPlaces /\ ctx.tep \in TepPlaces /\ ctx.new \in TepPlaces
      /\ dev.teps \in SUBSET TepFiles
  BY StepLists DEF TypeInv, Length, CtxType, Rows, DevType
<1>p. UNCHANGED <<req, made, ctx.old, ctx.move>>
  BY Proceeds
<1>u. ctx' = ctx /\ card' = card /\ UNCHANGED <<OldTep, NewTep, Storage>>
  BY DEF UpdateTepUndo, UpdateTepClean, KeepCtx, KeepCard, OldTep, NewTep, Storage
<1>c. UNCHANGED <<dev.bck, dev.row, dev.torn>>
  BY <1>t DEF DevType, UpdateTepUndo, UpdateTepClean, KeepDev
<1>b. \A n : Tep("bck", n).at = "bck" /\ Tep("store", n).at = "store" /\ Tep("bck", n) # None
  BY TepFacts DEF Tep, None
<1>1. CASE phase = "undo" /\ it = 5 /\ UpdateTepUndo
  <2>1. /\ dev.bck # 0 /\ Stored(ctx.old.tep) /\ card.at = Storage /\ dev.row.tep = ctx.old.tep
        /\ OnDevice \in {OldTep, OldTep \cup Only(NewTep)}
        /\ ctx.tep # None => ctx.tep.at = Storage \/ (ctx.tep.at = "store" /\ ctx.move)
    BY <1>1 DEF UpdateTeps, Undoes
  <2>2. phase' = "undo" /\ it' = 4
    <3>1. \E ok \in BOOLEAN : Undone(ok)
      BY <1>1 DEF UpdateTepUndo, Undone, StepUndone
    <3> QED
      BY <1>1, <1>t, <3>1, Handlers
  <2>3. dev'.teps = dev.teps \ {ctx.tep} /\ OnDevice' = OnDevice \ {ctx.tep}
    <3>1. dev'.teps = dev.teps \ {ctx.tep}
      BY <1>1, <1>t DEF DevType, UpdateTepUndo
    <3> QED
      BY <3>1 DEF OnDevice
  <2>4. ctx.tep = None \/ ctx.tep # ctx.old.tep
    BY <1>1 DEF UpdateTepUndo, TepCalm
  <2>5. Supplied'
    <3> SUFFICES ASSUME ctx.tep # None, ~ctx.move
                 PROVE  Tep("store", ctx.tep.name) \in dev'.teps
      BY <1>p, <1>u DEF Supplied
    <3>1. ctx.tep # Tep("store", ctx.tep.name)
      BY <1>b, <2>1 DEF Storage
    <3> QED
      BY <2>3, <3>1 DEF Supplied
  <2>6. IF ctx.ext THEN OnDevice' = Only(ctx.old.tep)
        ELSE OldTep \subseteq OnDevice' /\ \A f \in OnDevice' \ OldTep : f.at = "phone"
    <3>1. CASE ctx.ext
      <4>1. OldTep = Only(ctx.old.tep)
        BY <3>1 DEF OldTep
      <4> QED
        BY <2>1, <2>3, <2>4, <3>1, <4>1 DEF Only, NewTep
    <3>2. CASE ~ctx.ext
      <4>1. \A f \in OldTep : f.at = "bck"
        BY <1>b, <3>2 DEF OldTep, Only
      <4>2. ctx.tep \notin OldTep
        <5>1. CASE ctx.tep = None
          BY <1>b, <3>2, <5>1 DEF OldTep, Only
        <5>2. CASE ctx.tep # None
          BY <2>1, <3>2, <4>1, <5>2 DEF Storage
        <5> QED
          BY <5>1, <5>2
      <4>3. \A f \in OnDevice' \ OldTep : f = NewTep /\ f # None /\ f # ctx.tep
        BY <2>1, <2>3 DEF Only
      <4>4. \A f \in OnDevice' \ OldTep : f.at = "phone"
        BY <2>1, <3>2, <4>3 DEF NewTep, Stored, Storage
      <4> QED
        BY <2>1, <2>3, <3>2, <4>2, <4>4
    <3> QED
      BY <3>1, <3>2
  <2> QED
    BY <1>c, <1>p, <1>u, <2>1, <2>2, <2>5, <2>6 DEF UpdateTeps, Processes, Undoes, Stored
<1>2. CASE phase = "clean" /\ it = 5 /\ UpdateTepClean
  <2>1. /\ OnDevice = (OldTep \ InBackup(OldTep)) \cup Only(ctx.new) /\ Stored(ctx.new)
        /\ Stored(ctx.old.tep) /\ card.at = Storage /\ dev.row.tep = ctx.new
    BY <1>2 DEF UpdateTeps
  <2>2. Cleaned /\ phase' = "clean" /\ it' = 6
    BY <1>2, <1>t, Handlers DEF UpdateTepClean
  <2>3. ~Fault("remove")
    BY DEF TepCalm, Fault
  <2>4. dev'.teps = IF ctx.ext /\ ctx.old.tep # ctx.new THEN dev.teps \ {ctx.old.tep} ELSE dev.teps
    BY <1>2, <1>t, <2>3 DEF DevType, UpdateTepClean, KeepDev
  <2>5. OnDevice' = IF ctx.ext /\ ctx.old.tep # ctx.new THEN OnDevice \ {ctx.old.tep} ELSE OnDevice
    BY <2>4 DEF OnDevice
  <2>6. OnDevice' = Only(ctx.new)
    <3>1. CASE ctx.ext
      <4>1. OldTep = Only(ctx.old.tep) /\ InBackup(OldTep) = {}
        BY <2>1, <3>1 DEF OldTep, Only, InBackup, Stored, Storage
      <4> QED
        BY <2>1, <2>5, <3>1, <4>1 DEF Only
    <3>2. CASE ~ctx.ext
      <4>1. OldTep \ InBackup(OldTep) = {}
        BY <1>b, <3>2 DEF OldTep, Only, InBackup
      <4> QED
        BY <2>1, <2>5, <3>2, <4>1
    <3> QED
      BY <3>1, <3>2
  <2>7. Supplied'
    <3>1. ctx.old.tep # Tep("store", ctx.tep.name)
      BY <1>b, <1>t, <2>1, TepFacts DEF Stored, Storage
    <3> QED
      BY <1>p, <1>u, <2>4, <3>1 DEF Supplied
  <2> QED
    BY <1>c, <1>p, <1>u, <2>1, <2>2, <2>6, <2>7 DEF UpdateTeps, Processes, Undoes, Stored
<1> QED
  BY <1>1, <1>2

LEMMA UpdateTepStep ==
  ASSUME TypeInv, RowInv, SessionInv, FilesInv, TepInv, Next, ~Begin, ~Exit, TepCalm',
         req = "Update", Handled
  PROVE  TepWhere'
<1>i. UpdateTeps /\ dev.torn = {} /\ Supplied /\ FilesCalm /\ LoopType
  BY TepCalmStep, FilesCalmStep DEF TepInv, TepWhere, TypeInv
<1>p. req' = req /\ phase' # "idle"
  BY Proceeds DEF Handled
<1>s. SUFFICES /\ dev'.torn = {} /\ Supplied'
               /\ phase' = "end" => Kept(dev.row.tep)'
               /\ Handled' => UpdateTeps'
  BY <1>p DEF TepWhere
<1>1. CASE Quiet
  <2>1. dev'.torn = {} /\ Supplied'
    BY <1>1, <1>i, QuietSteps, UntouchedSame
  <2> QED
    BY <1>1, <1>i, <2>1, UpdateTepsQuiet
<1>2. CASE ~Quiet
  <2>1. \/ phase = "process" /\ it = 3 /\ AcquireExternalStorage
        \/ phase = "process" /\ it = 4 /\ CopyBackup
        \/ phase = "undo" /\ it = 4 /\ CopyBackupUndo
        \/ phase = "clean" /\ it = 4 /\ CopyBackupClean
        \/ phase = "process" /\ it = 5 /\ UpdateTep
        \/ phase = "undo" /\ it = 5 /\ UpdateTepUndo
        \/ phase = "clean" /\ it = 5 /\ UpdateTepClean
        \/ phase = "process" /\ it = 6 /\ UpdateApp
        \/ phase = "undo" /\ it = 6 /\ UpdateAppUndo
    BY <1>2, <1>i, TepLocated DEF Quiet
  <2>2. UpdateTeps' /\ Supplied' /\ dev'.torn = {} /\ phase' # "end"
    BY <1>i, <2>1, UpdateBackups, UpdateCardAndRow, UpdateTepStarts, UpdateTepEnds
  <2> QED
    BY <2>2
<1> QED
  BY <1>1, <1>2

\* A move takes the TEP file with it.
LEMMA MoveTepMoves ==
  ASSUME TypeInv, SessionInv, MoveTeps, Supplied, dev.torn = {}, ctx.tep = None,
         Next, ~Begin, ~Exit, TepCalm', req = "Move", phase = "process" /\ it = 4,
         MoveInstalledStorage \/ MoveInstalledStorageRefused \/ MoveTep
  PROVE  MoveTeps' /\ Supplied' /\ dev'.torn = {} /\ phase' # "end"
<1>t. /\ LoopType /\ DevType /\ CtxType /\ CardType /\ Length(req) = 5
      /\ OldLocation \in TepPlaces /\ NewLocation \in TepPlaces /\ dev.row \in Rows
      /\ OldLocation # None => NewLocation \in TepFiles /\ NewLocation.at = Target /\ NewLocation # None
      /\ OldLocation = None => NewLocation = None
  BY StepLists, TepTargets, TepFacts
  DEF TypeInv, Length, CtxType, Rows, DevType, NewLocation, OldLocation, Target
<1>f. ~Fault("tep")
  BY DEF TepCalm, Fault
<1>p. UNCHANGED <<req, made, ctx.old, ctx.move>>
  BY Proceeds
<1>i. /\ dev.row.tep = ctx.old.tep /\ Kept(ctx.old.tep) /\ ~ctx.ext /\ OldLocation = ctx.old.tep
  BY DEF MoveTeps, Processes, SessionInv, NoSessionYet, OldLocation
<1>n. Target \in {"phone", "card"} /\ (CanOpen("Move", Target) => Target # card.at)
  BY DEF Target, CanOpen
<1>1. CASE MoveInstalledStorage
  <2>1. dev' = dev /\ ctx' = [ctx EXCEPT !.ext = TRUE, !.new = NewLocation] /\ Ok
        /\ OldLocation = NewLocation /\ CanOpen("Move", Target)
    BY <1>1 DEF MoveInstalledStorage, KeepDev, Initialize
  <2>2. phase' = "process" /\ it' = 5
    BY <1>t, <2>1, Handlers
  <2>3. ctx.old.tep = None
    BY <1>i, <1>n, <1>t, <2>1 DEF Kept
  <2>4. ctx'.ext /\ ctx'.tep = None
    BY <1>t, <2>1 DEF CtxType
  <2>5. OnDevice' = {} /\ dev'.row.tep = None
    BY <1>i, <2>1, <2>3 DEF Kept, Only, OnDevice
  <2>6. Kept(dev.row.tep)'
    BY <2>5 DEF Kept, Only
  <2> QED
    BY <1>p, <2>1, <2>2, <2>4, <2>6 DEF MoveTeps, Processes, Undoes, Supplied
<1>2. CASE MoveInstalledStorageRefused
  <2>1. dev' = dev /\ ctx' = ctx /\ Fails
    BY <1>2 DEF MoveInstalledStorageRefused, KeepDev, KeepCtx
  <2>2. phase' = "undo" /\ it' = 4
    BY <1>t, <2>1, Handlers
  <2>3. card'.at = card.at
    BY <1>2 DEF MoveInstalledStorageRefused, NotInitialized, KeepCard
  <2>4. Kept(ctx.old.tep)'
    BY <1>i, <2>1, <2>3 DEF Kept, OnDevice
  <2> QED
    BY <1>i, <1>p, <2>1, <2>2, <2>4 DEF MoveTeps, Processes, Undoes, Supplied
<1>3. CASE MoveTep
  <2>1. /\ OldLocation # NewLocation
        /\ ctx' = [ctx EXCEPT !.ext = TRUE, !.new = NewLocation]
        /\ card'.at = Target /\ Target # card.at
    BY <1>3, <1>n, <1>t DEF MoveTep, Initialize, CardType
  <2>2. ctx'.ext /\ ctx'.tep = None
    BY <1>t, <2>1 DEF CtxType
  <2>3. /\ OldLocation # None /\ NewLocation \in TepFiles /\ NewLocation.at = Target
        /\ NewLocation # None
        /\ OnDevice = {OldLocation}
    BY <1>i, <1>t, <2>1 DEF Kept, Only
  <2>4. \/ /\ CanMove(OldLocation, NewLocation) /\ Ok
           /\ dev' = [Moved(dev, OldLocation, NewLocation) EXCEPT !.row.tep = NewLocation]
        \/ Fails /\ dev'.torn \subseteq dev.torn
    <3>1. Moved(dev, OldLocation, NewLocation).torn \subseteq dev.torn
      BY <1>t DEF DevType, Moved, Placed
    <3> HIDE DEF Moved
    <3> QED
      BY <1>3, <1>f, <3>1 DEF MoveTep, KeepDev
  <2>5. CASE /\ CanMove(OldLocation, NewLocation) /\ Ok
             /\ dev' = [Moved(dev, OldLocation, NewLocation) EXCEPT !.row.tep = NewLocation]
    <3>1. phase' = "process" /\ it' = 5
      BY <1>t, <2>5, Handlers
    <3>2. dev'.teps = (dev.teps \cup {NewLocation}) \ {OldLocation} /\ dev'.torn \subseteq dev.torn
      BY <1>t, <2>5 DEF DevType, Moved, Placed
    <3>3. dev'.row = [dev.row EXCEPT !.tep = NewLocation]
      BY <1>t, <2>5 DEF DevType, Moved, Placed
    <3>4. dev'.row.tep = NewLocation
      BY <1>t, <3>3 DEF Rows
    <3>5. OnDevice' = {NewLocation}
      BY <1>n, <2>1, <2>3, <3>2 DEF OnDevice
    <3>6. Kept(dev.row.tep)'
      BY <2>1, <2>3, <3>4, <3>5 DEF Kept, Only
    <3> QED
      BY <1>p, <2>2, <3>1, <3>2, <3>6 DEF MoveTeps, Processes, Undoes, Supplied
  <2>6. CASE Fails /\ dev'.torn \subseteq dev.torn
    <3>1. phase' = "undo" /\ it' = 4
      BY <1>t, <2>6, Handlers
    <3> QED
      BY <1>p, <2>2, <2>6, <3>1 DEF MoveTeps, Processes, Undoes, Supplied
  <2> QED
    BY <2>4, <2>5, <2>6
<1> QED
  BY <1>1, <1>2, <1>3

LEMMA MoveTepStep ==
  ASSUME TypeInv, SessionInv, TepInv, Next, ~Begin, ~Exit, TepCalm', req = "Move", Handled
  PROVE  TepWhere'
<1>t. /\ LoopType /\ DevType /\ CtxType /\ CardType /\ it \in 1..5 /\ Length(req) = 5
  BY StepLists DEF TypeInv, Length
<1>i. MoveTeps /\ dev.torn = {} /\ Supplied /\ ctx.tep = None
  BY TepCalmStep DEF TepInv, TepWhere, TepAsked, Handled
<1>p. /\ UNCHANGED <<req, made, ctx.old, ctx.move>>
      /\ \/ UNCHANGED <<phase, it>> /\ Launches
         \/ /\ phase = "process" /\ phase' = "process" /\ it' = it + 1 /\ it < 5
         \/ /\ phase = "process" /\ phase' = "clean" /\ it' = 1 /\ it = 5
         \/ /\ phase = "process" /\ phase' = "undo" /\ it' = it
         \/ /\ phase = "undo" /\ phase' = "undo" /\ it' = it - 1 /\ it > 1
         \/ /\ phase = "undo" /\ phase' = "end" /\ it' = it /\ it = 1
         \/ /\ phase = "clean" /\ phase' = "clean" /\ it' = it + 1 /\ it < 5
         \/ /\ phase = "clean" /\ phase' = "end" /\ it' = it
  BY <1>t, Proceeds
<1>f. \/ Quiet
      \/ /\ phase = "process" /\ it = 4
         /\ MoveInstalledStorage \/ MoveInstalledStorageRefused \/ MoveTep
      \/ phase = "undo" /\ it = 4 /\ MoveInstalledStorageUndo
      \/ phase = "clean" /\ it = 4 /\ MoveInstalledStorageClean
  BY <1>t, TepLocated DEF Quiet
<1>s. SUFFICES /\ dev'.torn = {} /\ Supplied'
               /\ phase' = "end" => Kept(dev.row.tep)'
               /\ Handled' => MoveTeps'
  BY <1>p DEF TepWhere, Handled
<1>1. CASE Quiet
  <2>1. /\ UNCHANGED <<OnDevice, dev.row.tep, ctx.tep, ctx.ext, card.at>>
        /\ dev'.torn = {} /\ Supplied'
    BY <1>1, <1>i, QuietSteps, UntouchedSame DEF Untouched
  <2>2. CASE Launches
    <3>1. UNCHANGED <<phase, it>>
      BY <2>2, Proceeds
    <3> QED
      BY <1>i, <1>p, <2>1, <3>1 DEF MoveTeps, Processes, Undoes, Kept, Handled
  <2>3. CASE ~Launches
    <3>1. ~(phase = "process" /\ it = 4) /\ ~(phase = "undo" /\ it = 4)
      <4>1. /\ phase = "process" /\ it = 4 => Opens
            /\ phase = "undo" /\ it = 4 => Closes
        BY <1>t, <2>3, Owners, StepLists DEF Opens, Closes
      <4> QED
        BY <1>1, <4>1 DEF Quiet
    <3>2. CASE phase = "process" /\ it \in {1, 2, 3}
      <4>1. /\ dev.row.tep = ctx.old.tep /\ Kept(ctx.old.tep)
            /\ \/ phase' = "process" /\ it' \in {2, 3, 4}
               \/ phase' = "undo" /\ it' \in {1, 2, 3}
        BY <1>i, <1>p, <2>3, <3>2 DEF MoveTeps, Processes
      <4> QED
        BY <1>p, <2>1, <4>1 DEF MoveTeps, Processes, Undoes, Kept
    <3>3. CASE phase = "process" /\ it = 5
      <4>1. /\ ctx.ext /\ Kept(dev.row.tep)
            /\ phase' \in {"undo", "clean"} /\ (phase' = "undo" => it' = 5)
        BY <1>i, <1>p, <2>3, <3>3 DEF MoveTeps, Processes
      <4> QED
        BY <1>p, <2>1, <4>1 DEF MoveTeps, Processes, Undoes, Kept
    <3>4. CASE phase = "undo" /\ it \in {1, 2, 3}
      <4>1. /\ dev.row.tep = ctx.old.tep /\ Kept(ctx.old.tep)
            /\ (phase' = "undo" /\ it' \in {1, 2}) \/ phase' = "end"
        BY <1>i, <1>p, <2>3, <3>4 DEF MoveTeps, Undoes
      <4> QED
        BY <1>p, <2>1, <4>1 DEF MoveTeps, Processes, Undoes, Kept, Handled
    <3>5. CASE phase = "undo" /\ it = 5
      <4>1. phase' = "undo" /\ it' = 4
        BY <1>p, <2>3, <3>5
      <4> QED
        BY <1>i, <1>p, <2>1, <3>5, <4>1 DEF MoveTeps, Processes, Undoes, Kept
    <3>6. CASE phase = "clean"
      <4>1. Kept(dev.row.tep) /\ phase' \in {"clean", "end"}
        BY <1>i, <1>p, <2>3, <3>6 DEF MoveTeps
      <4> QED
        BY <1>p, <2>1, <4>1 DEF MoveTeps, Processes, Undoes, Kept, Handled
    <3> QED
      BY <1>t, <3>1, <3>2, <3>3, <3>4, <3>5, <3>6 DEF Handled
  <2> QED
    BY <2>2, <2>3
<1>2. CASE /\ phase = "process" /\ it = 4
           /\ MoveInstalledStorage \/ MoveInstalledStorageRefused \/ MoveTep
  BY <1>2, <1>i, MoveTepMoves
<1>3. CASE phase = "undo" /\ it = 4 /\ MoveInstalledStorageUndo
  <2>1. ~ctx.ext
    BY <1>3 DEF MoveInstalledStorageUndo, TepCalm
  <2>2. dev' = dev /\ ctx' = ctx /\ card' = card /\ \E ok \in BOOLEAN : Undone(ok)
    BY <1>3, <2>1 DEF MoveInstalledStorageUndo, KeepDev, KeepCtx, KeepCard
  <2>3. phase' = "undo" /\ it' = 3
    BY <1>3, <1>t, <2>2, Handlers
  <2>4. dev.row.tep = ctx.old.tep /\ Kept(ctx.old.tep)
    BY <1>3, <1>i, <2>1 DEF MoveTeps, Undoes
  <2> QED
    BY <1>i, <1>p, <2>2, <2>3, <2>4 DEF MoveTeps, Processes, Undoes, Kept, OnDevice, Supplied
<1>4. CASE phase = "clean" /\ it = 4 /\ MoveInstalledStorageClean
  <2>1. UNCHANGED <<dev, ctx>> /\ phase' = "clean"
    <3>1. Cleaned
      BY <1>4 DEF MoveInstalledStorageClean
    <3> QED
      BY <1>4, <1>t, <3>1, Handlers DEF MoveInstalledStorageClean, KeepDev, KeepCtx
  <2>2. card'.at = card.at
    <3>1. ctx.ext => card.session = "Move"
      BY <1>4 DEF SessionInv, Session, Cleans
    <3> QED
      BY <1>4, <1>t, <3>1 DEF MoveInstalledStorageClean, CommitCard, Commit, Finalize, CardType
  <2>3. Kept(dev.row.tep)
    BY <1>4, <1>i DEF MoveTeps
  <2> QED
    BY <1>i, <1>p, <2>1, <2>2, <2>3 DEF MoveTeps, Processes, Undoes, Kept, OnDevice, Supplied
<1> QED
  BY <1>f, <1>1, <1>2, <1>3, <1>4

LEMMA UninstallTepStep ==
  ASSUME TypeInv, RowInv, RowInv', SessionInv, FilesInv, FilesInv', TepInv, Next, ~Begin, ~Exit,
         TepCalm', req = "Uninstall", Handled
  PROVE  TepWhere'
<1>t. /\ LoopType /\ DevType /\ CtxType /\ CardType /\ it \in 1..14 /\ Length(req) = 14
  BY StepLists DEF TypeInv, Length
<1>i. /\ UninstallTep /\ dev.torn = {} /\ Supplied /\ ctx.tep = None /\ FilesCalm /\ FilesCalm'
      /\ ~Fault("remove")
  BY TepCalmStep, FilesCalmStep DEF TepInv, TepWhere, TepAsked, Handled, TepCalm, Fault
<1>p. /\ UNCHANGED <<req, made, ctx.old, ctx.move>>
      /\ \/ UNCHANGED <<phase, it>> /\ Launches
         \/ /\ phase = "process" /\ phase' = "process" /\ it' = it + 1 /\ it < 14
         \/ /\ phase = "process" /\ phase' = "clean" /\ it' = 1 /\ it = 14
         \/ /\ phase = "process" /\ phase' = "undo" /\ it' = it
         \/ /\ phase = "undo" /\ phase' = "undo" /\ it' = it - 1 /\ it > 1
         \/ /\ phase = "undo" /\ phase' = "end" /\ it' = it /\ it = 1
         \/ /\ phase = "clean" /\ phase' = "clean" /\ it' = it + 1 /\ it < 14
         \/ /\ phase = "clean" /\ phase' = "end" /\ it' = it
  BY <1>t, Proceeds
<1>b. /\ phase = "undo" => it <= 8
      /\ phase' = "undo" => it' <= 8
  BY <1>i, <1>p DEF FilesInv, UninstallFiles
<1>f. \/ Quiet
      \/ phase = "process" /\ it = 8 /\ AcquireExternalStorage
      \/ phase = "process" /\ it = 9 /\ Unregister
      \/ phase = "process" /\ it = 11 /\ RemoveFiles
      \/ phase = "process" /\ it = 12 /\ RemoveTep
  BY <1>b, <1>t, TepLocated DEF Quiet
<1>s. SUFFICES /\ dev'.torn = {} /\ Supplied'
               /\ phase' = "end" => Kept(dev.row.tep)'
               /\ Handled' => UninstallTep'
  BY <1>p DEF TepWhere, Handled
<1>1. CASE Quiet
  <2>1. /\ UNCHANGED <<OnDevice, dev.row.tep, card.at>> /\ dev'.torn = {} /\ Supplied'
    BY <1>1, <1>i, QuietSteps, UntouchedSame DEF Untouched
  <2>2. CASE Launches
    <3>1. UNCHANGED <<phase, it>>
      BY <2>2, Proceeds
    <3> QED
      BY <1>i, <1>p, <2>1, <3>1 DEF UninstallTep, Processes, Kept, Handled
  <2>3. CASE ~Launches
    <3>1. ~(phase = "process" /\ it \in {8, 9, 11, 12})
      <4>1. phase = "process" =>
              /\ it = 8 => AcquireExternalStorage
              /\ it = 9 => Unregister
              /\ it = 11 => RemoveFiles
              /\ it = 12 => RemoveTep
        BY <1>t, <2>3, Owners, StepLists
      <4> QED
        BY <1>1, <4>1 DEF Quiet, TepActions, RowTepActions, Opens
    <3>2. CASE phase = "process" /\ it \in 1..7
      <4>1. /\ dev.row.tep = ctx.old.tep /\ Kept(ctx.old.tep)
            /\ (phase' = "process" /\ it' \in 2..8) \/ phase' = "undo"
        BY <1>i, <1>p, <2>3, <3>2 DEF UninstallTep, Processes
      <4> QED
        BY <1>p, <2>1, <4>1 DEF UninstallTep, Processes, Kept
    <3>3. CASE phase = "process" /\ it = 10
      <4>1. phase' = "process" /\ it' = 11
        BY <1>b, <1>p, <2>3, <3>3
      <4> QED
        BY <1>i, <1>p, <2>1, <3>3, <4>1 DEF UninstallTep, Processes
    <3>4. CASE phase = "process" /\ it \in {13, 14}
      <4>1. phase' = "clean" \/ (phase' = "process" /\ it' = 14)
        BY <1>b, <1>p, <2>3, <3>4
      <4> QED
        BY <1>i, <1>p, <2>1, <3>4, <4>1 DEF UninstallTep, Processes
    <3>5. CASE phase = "undo"
      <4>1. /\ dev.row.tep = ctx.old.tep /\ Kept(ctx.old.tep)
            /\ phase' \in {"undo", "end"}
        BY <1>i, <1>p, <2>3, <3>5 DEF UninstallTep
      <4> QED
        BY <1>p, <2>1, <4>1 DEF UninstallTep, Processes, Kept, Handled
    <3>6. CASE phase = "clean"
      <4>1. OnDevice = {} /\ phase' \in {"clean", "end"}
        BY <1>i, <1>p, <2>3, <3>6 DEF UninstallTep
      <4>2. phase' = "end" => dev'.row.tep = None
        BY <1>i, <3>6, EndsWith DEF RowInv, NoRow
      <4> QED
        BY <1>p, <2>1, <4>1, <4>2 DEF UninstallTep, Processes, Kept, Only, Handled
    <3> QED
      BY <1>t, <3>1, <3>2, <3>3, <3>4, <3>5, <3>6 DEF Handled
  <2> QED
    BY <2>2, <2>3
<1>2. CASE phase = "process" /\ it = 8 /\ AcquireExternalStorage
  <2>1. dev' = dev /\ ctx'.tep = ctx.tep
    BY <1>2, CtxTepFrame
    DEF AcquireExternalStorage, KeepDev, CopyTep, UpdateTep, MoveInstalledStorage, MoveTep, Process
  <2>2. card'.at = card.at
    BY <1>2, <1>t
    DEF AcquireExternalStorage, KeepCard, Initialize, NotInitialized, CanOpen, CardType
  <2>3. (phase' = "process" /\ it' = 9) \/ phase' = "undo"
    <3>1. Ok \/ Fails
      BY <1>2 DEF AcquireExternalStorage
    <3> QED
      BY <1>2, <1>t, <3>1, Handlers
  <2>4. dev.row.tep = ctx.old.tep /\ Kept(ctx.old.tep)
    BY <1>2, <1>i DEF UninstallTep, Processes
  <2> QED
    BY <1>i, <1>p, <2>1, <2>2, <2>3, <2>4 DEF UninstallTep, Processes, Kept, OnDevice, Supplied
<1>3. CASE \/ phase = "process" /\ it = 9 /\ Unregister
           \/ phase = "process" /\ it = 11 /\ RemoveFiles
  <2>1. phase' = "process" /\ it' = it + 1
    <3>1. CASE Unregister
      <4>1. Ok
        BY <3>1 DEF Unregister
      <4> QED
        BY <1>3, <1>t, <4>1, Handlers
    <3>2. CASE RemoveFiles
      <4>1. StepOk(NumSteps)
        BY <3>2 DEF RemoveFiles
      <4> QED
        BY <1>3, <1>p, <1>t, <4>1, Outcomes DEF NumSteps
    <3> QED
      BY <1>3, <3>1, <3>2
  <2>2. ctx' = ctx
    BY <1>3 DEF Unregister, RemoveFiles, KeepCtx
  <2>3. dev'.teps \subseteq dev.teps /\ dev'.torn = dev.torn
    BY <1>3, <1>t DEF DevType, Unregister, RemoveFiles, RemovedDir, KeepDev
  <2>4. OnDevice \subseteq Only(ctx.old.tep)
    BY <1>3, <1>i DEF UninstallTep, Processes, Kept
  <2>5. OnDevice' \subseteq Only(ctx'.old.tep)
    BY <2>2, <2>3, <2>4 DEF OnDevice
  <2> QED
    BY <1>3, <1>i, <1>p, <2>1, <2>2, <2>3, <2>5 DEF UninstallTep, Processes, Supplied
<1>4. CASE phase = "process" /\ it = 12 /\ RemoveTep
  <2>1. ctx' = ctx /\ phase' = "process" /\ it' = 13
    <3>1. Ok
      BY <1>4 DEF RemoveTep
    <3> QED
      BY <1>4, <1>t, <3>1, Handlers DEF RemoveTep, KeepCtx
  <2>2. dev'.teps = dev.teps \ {ctx.old.tep} /\ dev'.torn = dev.torn
    BY <1>4, <1>i, <1>t DEF DevType, RemoveTep
  <2>3. OnDevice \subseteq Only(ctx.old.tep)
    BY <1>4, <1>i DEF UninstallTep, Processes
  <2>4. OnDevice' = {}
    BY <2>2, <2>3 DEF OnDevice, Only
  <2> QED
    BY <1>i, <1>p, <2>1, <2>2, <2>4 DEF UninstallTep, Processes, Supplied
<1> QED
  BY <1>f, <1>1, <1>2, <1>3, <1>4

\* A request that has nothing to do with the TEP file.
LEMMA ClearTepStep ==
  ASSUME TypeInv, TepInv, Next, ~Begin, ~Exit, TepCalm', req = "Clear", Handled
  PROVE  TepWhere'
<1>1. Kept(dev.row.tep) /\ dev.torn = {} /\ Supplied /\ LoopType
  BY TepCalmStep DEF TepInv, TepWhere, TypeInv
<1>2. Quiet
  BY <1>1, TepLocated
<1>3. /\ UNCHANGED <<OnDevice, dev.row.tep, card.at>> /\ dev'.torn = {} /\ Supplied'
  BY <1>1, <1>2, QuietSteps, UntouchedSame DEF Untouched
<1>4. Kept(dev.row.tep)'
  BY <1>1, <1>3 DEF Kept
<1>5. req' = req
  BY Proceeds
<1> QED
  BY <1>3, <1>4, <1>5 DEF TepWhere

LEMMA TepAskedStep ==
  ASSUME TypeInv, TepInv, Next
  PROVE  TepAsked'
<1>t. /\ LoopType /\ CtxType /\ TepAsked
  BY DEF TypeInv, TepInv
<1>1. CASE Begin
  <2>1. PICK kind \in Kinds, toCard \in BOOLEAN, auto \in BOOLEAN, move \in BOOLEAN,
             tep \in TepPlaces : Asked(kind, toCard, auto, move, tep)
    BY <1>1, <1>t, BeginsWith DEF CtxType
  <2>2. req' = kind /\ ctx'.tep = tep /\ (kind \notin {"Install", "Update"} => tep = None)
    BY <2>1 DEF Asked
  <2>3. phase' = "process"
    BY <1>1, <1>t, BeginsWith DEF CtxType
  <2> QED
    BY <2>2, <2>3 DEF TepAsked
<1>2. CASE Exit
  <2>1. ctx' = Fresh /\ phase' = "idle"
    BY <1>2, ExitsWith
  <2> QED
    BY <2>1 DEF TepAsked, Fresh
<1>3. CASE ~Begin /\ ~Exit
  <2>1. req' = req /\ (phase' = "idle" <=> phase = "idle")
    BY <1>3, Proceeds DEF Launches
  <2>2. CASE CopyTep \/ UpdateTep
    <3>1. phase = "process" /\ req \in {"Install", "Update"}
      BY <1>t, <2>2, Located DEF CopyTep, UpdateTep, Process, At
    <3> QED
      BY <2>1, <3>1 DEF TepAsked
  <2>3. CASE ~CopyTep /\ ~UpdateTep
    <3>1. ctx'.tep = ctx.tep
      <4>1. CASE MoveInstalledStorage \/ MoveTep
        BY <1>t, <4>1 DEF CtxType, MoveInstalledStorage, MoveTep
      <4> QED
        BY <1>3, <2>3, <4>1, CtxTepFrame
    <3> QED
      BY <1>t, <2>1, <3>1 DEF TepAsked
  <2> QED
    BY <2>2, <2>3
<1> QED
  BY <1>1, <1>2, <1>3

\* A request begins with the TEP file in its place.
LEMMA BeginTepStep ==
  ASSUME TypeInv, RowInv, TepInv, Begin, TepCalm'
  PROVE  TepWhere'
<1>t. LoopType /\ DevType /\ CtxType /\ dev.row.tep \in TepPlaces
  BY DEF TypeInv, DevType, Rows
<1>1. PICK kind \in Kinds, toCard \in BOOLEAN, auto \in BOOLEAN, move \in BOOLEAN,
           tep \in TepPlaces : Asked(kind, toCard, auto, move, tep)
  BY <1>t, BeginsWith DEF CtxType
<1>2. /\ phase = "idle" /\ phase' = "process" /\ it' = 1 /\ UNCHANGED <<card, faults>>
  BY <1>t, BeginsWith DEF CtxType, storageVars
<1>3. /\ req' = kind /\ ctx'.tep = tep /\ ctx'.old = dev.row /\ past \subseteq past'
      /\ kind = "Install" => dev.row.v = 0
      /\ tep # None => tep.at = "store"
    BY <1>1 DEF Asked
<1>4. /\ dev'.row = dev.row /\ dev'.torn = dev.torn
      /\ dev'.teps = {f \in dev.teps : f.at # "store"} \cup ({tep} \ {None})
  BY <1>1, <1>t DEF Asked, DevType
<1>5. Kept(dev.row.tep) /\ dev.torn = {}
  BY <1>2, <1>3 DEF TepInv, TepWhere, TepCalm
<1>6. OnDevice' = OnDevice
  BY <1>3, <1>4 DEF OnDevice
<1>7. Kept(dev.row.tep)' /\ Kept(ctx.old.tep)' /\ dev'.row.tep = ctx'.old.tep
  BY <1>2, <1>3, <1>4, <1>5, <1>6 DEF Kept
<1>8. Supplied'
  <2>1. tep # None => tep = Tep("store", tep.name)
    BY <1>3, TepFacts
  <2> QED
    BY <1>3, <1>4, <2>1 DEF Supplied
<1>9. kind = "Install" => OnDevice' = {}
  BY <1>3, <1>5, <1>6 DEF RowInv, NoRow, Kept, Only
<1> QED
  BY <1>2, <1>3, <1>4, <1>5, <1>7, <1>8, <1>9
  DEF TepWhere, InstallTep, UpdateTeps, MoveTeps, UninstallTep, Processes, Undoes, Handled

LEMMA TepInvStep ==
  ASSUME CardSafe, CardSafe', PackageSafe, PackageSafe', TepInv, Next
  PROVE  TepInv'
<1>i. /\ TypeInv /\ RowInv /\ SessionInv /\ PlaceInv /\ FilesInv /\ RowInv' /\ FilesInv'
  BY DEF CardSafe, PackageSafe
<1>t. LoopType
  BY <1>i DEF TypeInv
<1> SUFFICES ASSUME TepCalm'
             PROVE  TepWhere'
  BY <1>i, TepAskedStep DEF TepInv
<1>1. CASE Begin
  BY <1>1, <1>i, BeginTepStep
<1>2. CASE Exit
  <2>1. /\ phase = "end" /\ phase' = "idle" /\ UNCHANGED <<dev, past, faults>> /\ ctx' = Fresh
    BY <1>2, ExitsWith
  <2>2. card'.at = card.at
    <3>1. card \in [at : Places, session : Sessions, mounted : BOOLEAN]
      BY <1>i DEF TypeInv, CardType
    <3> QED
      BY <1>2, <3>1, ExitsWith
  <2>3. Kept(dev.row.tep) /\ dev.torn = {}
    BY <2>1 DEF TepInv, TepWhere, TepCalm
  <2> QED
    BY <2>1, <2>2, <2>3 DEF TepWhere, Kept, OnDevice, Supplied, Fresh, Handled
<1>3. CASE ~Begin /\ ~Exit /\ ~Handled
  <2>1. Quiet /\ UNCHANGED <<phase, it>>
    <3>1. Launches
      BY <1>3, <1>i, Proceeds DEF Handled
    <3> QED
      BY <1>3, <1>i, <1>t, <3>1, TepLocated, Proceeds DEF Quiet
  <2>2. /\ UNCHANGED <<OnDevice, dev.row.tep, card.at>>
        /\ dev'.torn = dev.torn /\ Supplied' = Supplied
    BY <1>3, <1>i, <2>1, QuietSteps, UntouchedSame DEF Untouched
  <2>3. TepWhere
    BY <1>3, <1>i, TepCalmStep DEF TepInv
  <2> QED
    BY <1>3, <2>1, <2>2, <2>3 DEF TepWhere, Kept, Handled
<1>4. CASE ~Begin /\ ~Exit /\ Handled
  <2>1. req \in {"Install", "Update", "Move", "Clear", "Uninstall"}
    BY <1>t DEF LoopType, Kinds
  <2> QED
    BY <1>4, <1>i, <2>1, InstallTepStep, UpdateTepStep, MoveTepStep, ClearTepStep, UninstallTepStep
<1> QED
  BY <1>1, <1>2, <1>3, <1>4

TepSafe == CardSafe /\ PackageSafe /\ TepInv

\* Everything that is kept at once: the type of the state, the row, the session
\* and the card, the files, the contexts and the TEP file.
THEOREM TepInvariant == Spec => []TepSafe
<1>1. Init => TepInv
  BY DEF Init, RunnerInit, Fresh, TepInv, TepAsked, TepWhere, Kept, Only, OnDevice, Supplied, Handled, NoRow
<1>2. TepInv /\ CardSafe /\ CardSafe' /\ PackageSafe /\ PackageSafe' /\ [Next]_vars => TepInv'
  <2> SUFFICES ASSUME TepInv, CardSafe, CardSafe', PackageSafe, PackageSafe', [Next]_vars
               PROVE  TepInv'
    OBVIOUS
  <2>1. CASE Next
    BY <2>1, TepInvStep
  <2>2. CASE UNCHANGED vars
    <3>1. UNCHANGED <<phase, it, ret, card, faults, budget, dev, req, made, ctx, past>>
      BY <2>2 DEF vars, storageVars, runnerVars
    <3>2. /\ UNCHANGED <<OnDevice, OldTep, NewTep, Storage, InBackup(OldTep)>>
          /\ \A t : (Kept(t) => Kept(t)') /\ (Stored(t) => Stored(t)')
      BY <3>1 DEF OnDevice, OldTep, NewTep, Storage, Kept, Stored
    <3>3. TepAsked' /\ (TepCalm' => TepCalm /\ TepWhere) /\ Supplied' = Supplied
      BY <3>1 DEF TepInv, TepAsked, TepCalm, Supplied
    <3>4. /\ InstallTep => InstallTep'
          /\ MoveTeps => MoveTeps'
          /\ UninstallTep => UninstallTep'
      BY <3>1, <3>2 DEF InstallTep, MoveTeps, UninstallTep, Processes, Undoes, Kept, Stored
    <3>5. UpdateTeps => UpdateTeps'
      BY <3>1, <3>2 DEF UpdateTeps, Processes, Undoes, Kept, Stored
    <3>6. Kept(dev.row.tep) => Kept(dev.row.tep)'
      BY <3>1, <3>2 DEF Kept
    <3> QED
      BY <3>1, <3>3, <3>4, <3>5, <3>6 DEF TepInv, TepWhere, Handled
  <2> QED
    BY <2>1, <2>2
<1> QED
  BY <1>1, <1>2, CardInvariant, PackageInvariant, PTL DEF Spec, TepSafe

\* StepCopyTep, StepUpdateTep, StepRemoveTep and StepMoveInstalledStorage: when a
\* request has ended the TEP file of the database is where the database says,
\* whole, in the storage of its package, and the only one.
THEOREM TepKeptHolds == Spec => []TepKept
<1>1. TepSafe => TepKept
  <2> SUFFICES ASSUME TepSafe, TepCalm, phase = "end"
               PROVE  /\ OnDevice = {dev.row.tep} \ {None}
                      /\ dev.row.tep # None => dev.row.tep.at = card.at
                      /\ dev.row.tep.at = "card" => dev.row.tep.name \notin dev.torn
                      /\ ctx.tep # None /\ ~ctx.move => Tep("store", ctx.tep.name) \in dev.teps
    BY DEF TepKept, TepCalm
  <2>1. Kept(dev.row.tep) /\ dev.torn = {} /\ Supplied
    BY DEF TepSafe, TepInv, TepWhere
  <2> QED
    BY <2>1 DEF Kept, Only, Supplied
<1> QED
  BY <1>1, TepInvariant, PTL

================================================================================
