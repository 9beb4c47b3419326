------------------------ MODULE PackageTransactionFiles ------------------------
(***************************************************************************)
(* What becomes of the files of the committed version, proved for packages *)
(* with any entries and applications and for any number of failures and    *)
(* crashes, those of a rollback or of a recovery included: as long as      *)
(* neither the clean-up nor the loop of Backup() is cut short, and no      *)
(* manifest stays of an installation that was taken back, the old version  *)
(* can be put back at any moment.                                          *)
(*                                                                         *)
(* The invariant relates the package directory, its backup, the database   *)
(* and the installed manifest to the recovery file and to the place the    *)
(* step loop has reached.                                                  *)
(***************************************************************************)
EXTENDS PackageTransactionProofs

-------------------------------------------------------------------------------
(* The old version is in one place or the other *)

\* The histories OldVersionNeverLost speaks of.  Recoveries and undo() may fail in
\* them, and the recovery file may be torn.
Kept == ~CleanCutShort /\ ~BackupCutShort /\ ~ManifestLeft

Whole(t, v) == \A e \in CodeLike : t[e] = {<<"self", v>>}

\* The recovery file and the one in memory, whatever fails: at least a torn file is
\* there as long as there is something to recover.
FileOK ==
  LET file == ctx.file.kind
      rec == device.rec.kind
  IN  /\ phase = "idle" => file = "none"
      /\ req # "Recovery" =>
           /\ phase = "process" =>
                /\ it = 1 => file = "none" /\ (part = "start" => rec = "none") /\ rec \in {"none", "torn"}
                /\ it >= 2 => file = req /\ rec \in {req, "torn"}
           /\ phase = "undo" =>
                /\ it = 1 => IF file = "none" THEN rec = "none" ELSE file = req /\ rec \in {req, "torn"}
                /\ it >= 2 => file = req /\ rec \in {req, "torn"}
           /\ phase = "clean" /\ it = 1 => file = req /\ rec \in {req, "torn"}
           /\ phase = "end" => IF file = "none" THEN rec = "none" ELSE file = req /\ rec \in {req, "torn"}
      /\ phase = "clean" /\ it > 1 => file = "none" /\ rec = "none"
      /\ req = "Recovery" =>
           /\ phase = "process" /\ it <= 2 => file = "none" /\ rec # "none"
           /\ (phase = "process" /\ it >= 3) \/ (phase = "clean" /\ it = 1) =>
                file \in {"Install", "Update"} /\ rec \in {file, "torn"}
           /\ phase = "undo" =>
                /\ rec # "none"
                /\ it = 1 => file = "none"
                /\ it >= 2 => file = "none" \/ rec \in {file, "torn"}
           /\ phase = "end" => file = "none"

\* An installation is one of a package without a committed version, and so is its
\* recovery.
KindOK ==
  stable # None =>
    /\ device.rec.kind # "Install" /\ ctx.file.kind # "Install"
    /\ req = "Install" => phase \in {"idle", "end"} \/ (phase = "clean" /\ it > 1)

\* A committed package is in the database, unless a recovery is about to register it.
RowOK ==
  /\ stable # None /\ device.db = None =>
       /\ device.rec.kind # "none"
       /\ \/ phase = "idle"
          \/ /\ req = "Recovery" /\ phase # "clean"
             /\ phase = "process" => it < 4 \/ (it = 4 /\ part # "certs")
  /\ req = "Install" =>
       /\ phase = "process" /\ (it = 10 \/ (it = 9 /\ part = "certs")) => device.db # None
       /\ phase = "clean" /\ it = 1 => device.db # None

\* What a request has read from the manifests when it registers one.
ManifestsOK ==
  /\ req # "Recovery" /\ phase = "process" /\ it >= 4 => ctx.man # None
  /\ req = "Update" /\ phase = "process" /\ it = 5 /\ part = "rec" => device.xml # None
  /\ req = "Update" /\ phase \in {"process", "undo"} /\ it >= 6 => ctx.old # None

\* Without a committed version nothing is set aside, for an update fails when it
\* looks for the installed manifest.
NothingOK ==
  stable = None =>
    /\ ~Exists(device.bck) /\ device.xmlBck = None
    /\ \A e \in CodeLike : device.pkg[e] \subseteq {<<"self", 1>>}
    /\ req = "Update" => phase \in {"idle", "end"} \/ (phase \in {"process", "undo"} /\ it <= 5)
    /\ device.xml # None =>
         \/ req = "Install" /\ phase \in {"process", "undo"} /\ it >= 8
         \/ req = "Install" /\ phase = "clean" /\ it = 1
         \/ phase = "idle" /\ device.rec.kind \in {"Install", "torn"}
         \/ /\ req = "Recovery" /\ device.rec.kind \in {"Install", "torn"}
            /\ \/ phase \in {"undo", "end"}
               \/ phase = "process" /\ it <= 7 /\ (it >= 3 => ctx.file.kind = "Install")

\* The new version on its way from the archive to the package directory.
ContentOK ==
  /\ ~Exists(device.pkg) => \A e \in CodeLike : device.pkg[e] = {}
  /\ req = "Install" =>
       /\ phase = "process" /\ it \in 3..5 => device.tmp = Shipped(NewVersion)
       /\ (phase = "process" /\ it >= 6) \/ (phase = "clean" /\ it = 1) => Whole(device.pkg, NewVersion)
  /\ req = "Update" =>
       /\ phase = "process" /\ it \in 3..8 => device.tmp = Shipped(NewVersion)
       /\ (phase = "process" /\ it >= 9) \/ (phase = "clean" /\ it = 1) => Whole(device.pkg, NewVersion)

\* Where there must be a backup, and what its steps have left in the package.
BackupOK ==
  /\ req = "Update" =>
       /\ \/ phase \in {"process", "undo"} /\ it >= 9
          \/ phase = "process" /\ it = 8 /\ part \in {"backup", "content"}
          \/ phase = "undo" /\ it = 8 /\ part = "restore"
          => Exists(device.bck)
       /\ phase = "process" /\ it = 8 =>
            /\ part = "backup" => \A e \in Entries : Has(device.pkg, e) => e \in ctx.todo
            /\ part = "content" => IsEmpty(device.pkg)
  /\ req = "Recovery" /\ phase = "process" /\ it = 9 /\ part = "move" => Exists(device.bck)

\* The backup is all of the old version once there is one, and the package is until
\* then; in the loop of Backup() each entry is here or there.
Looping == req = "Update" /\ phase = "process" /\ it = 8 /\ part = "backup"
Committed == req # "Recovery" /\ phase = "clean" /\ it > 1
Halfway ==
  /\ \A e \in CodeLike : \/ device.bck[e] = {<<"self", stable>>}
                         \/ e \in ctx.todo /\ device.pkg[e] = {<<"self", stable>>}
  /\ \A e \in ctx.todo : ~Has(device.bck, e)
OldOK ==
  stable # None =>
    CASE Committed -> Whole(device.pkg, stable) /\ (Exists(device.bck) => req = "Update" /\ it <= 8)
      [] Looping   -> Whole(device.bck, stable) \/ Halfway
      [] OTHER     -> IF Exists(device.bck) THEN Whole(device.bck, stable)
                                            ELSE Whole(device.pkg, stable)

KeptBody ==
  /\ FileOK /\ KindOK /\ RowOK /\ ManifestsOK
  /\ NothingOK /\ ContentOK /\ BackupOK /\ OldOK
KeptInv == Kept => KeptBody

-------------------------------------------------------------------------------
(* The invariant is kept: by what a handler may do in general, ... *)

\* What the histories exclude: a clean-up that is cut short, a failure or a crash
\* between two moves of the loop of Backup(), and the manifest of an installation
\* that its recovery cannot remove.
Harmless(kind, where) ==
  /\ kind \notin {"clean", "crashInClean"}
  /\ kind \in {"fail", "crash"} => where # "Backup"
  /\ kind = "fail" => where # "ManifestRemoval"

LEMMA KeptBefore ==
  ASSUME Kept'
  PROVE  /\ NoFault => Kept
         /\ \A kind, where : Fault(kind, where) => Kept /\ Harmless(kind, where)
<1>1. ASSUME NoFault
      PROVE  Kept
  BY <1>1 DEF NoFault, Kept, CleanCutShort, BackupCutShort, ManifestLeft, Only, Happened
<1>2. ASSUME NEW kind, NEW where, Fault(kind, where)
      PROVE  Kept /\ Harmless(kind, where)
  <2>. DEFINE f == <<kind, where>>
  <2>1. faults \subseteq faults' /\ f \in faults' /\ f[1] = kind /\ f[2] = where
    BY <1>2 DEF Fault
  <2>2. Kept
    BY <2>1 DEF Kept, CleanCutShort, BackupCutShort, ManifestLeft, Only, Happened
  <2>3. f[1] \in {"fail", "undo", "crash", "crashInUndo", "crashAtEnd"}
    BY <2>1 DEF Kept, CleanCutShort, Only
  <2>4. f[1] \in {"fail", "crash"} => f[2] # "Backup"
    BY <2>1 DEF Kept, BackupCutShort, Happened
  <2>5. f[1] = "fail" => f[2] # "ManifestRemoval"
    BY <2>1 DEF Kept, ManifestLeft, Happened
  <2>. QED  BY <2>1, <2>2, <2>3, <2>4, <2>5 DEF Harmless
<1>. QED  BY <1>1, <1>2

\* Trees with the same code, and what a handler may change without a consequence
\* for the old version.
Alike(t, u) == (Exists(t) <=> Exists(u)) /\ \A e \in CodeLike : t[e] = u[e]

Near(d, c) ==
  /\ Alike(d.pkg, device.pkg) /\ Alike(d.bck, device.bck)
  /\ \/ d.xml = device.xml
     \/ /\ it # 5
        /\ d.xml = None \/ stable # None \/ (req = "Install" /\ phase = "process" /\ it = 8)
  /\ d.xmlBck = device.xmlBck \/ d.xmlBck = None \/ stable # None
  /\ d.db = device.db \/ d.db # None \/ (stable = None /\ phase = "undo")
  /\ c.file.kind = ctx.file.kind
  /\ c.man = ctx.man \/ c.man # None \/ req = "Recovery"
  /\ c.old = ctx.old \/ c.old # None
  /\ \/ d.rec.kind = device.rec.kind
     \/ phase = "process" /\ ctx.file.kind # "none" /\ d.rec.kind \in {ctx.file.kind, "torn"}

LEMMA NearItself ==
  Near(device, ctx)
BY DEF Near, Alike

\* Where a request can be.
LEMMA Places ==
  ASSUME TypeInv
  PROVE  /\ NumSteps = Last /\ it \in Nat /\ it >= 1 /\ it <= Last
         /\ req \in {"Install", "Update", "Recovery"}
         /\ Last = IF req = "Update" THEN 13 ELSE 10
         /\ stable \in Nat /\ NewVersion # None /\ NewVersion # stable
         /\ device \in Devices /\ ctx \in Contexts
BY Positions, StateAssumption DEF TypeInv, RunnerOK, StateOK, HistoryOK, Last, Requests, NewVersion, None

LEMMA KeptFails ==
  ASSUME TypeInv, KeptBody, phase = "process", NEW d, NEW c, Failed(d, c), Near(d, c),
         it = 1 => d.rec.kind = "none",
         Looping => Whole(device.bck, stable)
  PROVE  KeptBody'
<1>1. /\ device' = d /\ ctx' = c /\ phase' = "undo" /\ it' = it /\ req' = req
      /\ stable' = stable /\ part' = "start"
  BY DEF Failed, Leave, envVars, StepFails
<1>. USE Places DEF KeptBody
<1>2. FileOK' /\ KindOK'
  BY <1>1 DEF FileOK, KindOK, Near
<1>3. RowOK'
  BY <1>1 DEF FileOK, RowOK, KindOK, Near
<1>4. ManifestsOK'
  BY <1>1 DEF ManifestsOK, Near
<1>5. NothingOK'
  BY <1>1 DEF FileOK, NothingOK, Near, Alike
<1>6. ContentOK' /\ BackupOK'
  BY <1>1 DEF ContentOK, BackupOK, Near, Alike, Looping
<1>7. OldOK'
  BY <1>1 DEF OldOK, BackupOK, Near, Alike, Looping, Committed, Whole
<1>. QED  BY <1>2, <1>3, <1>4, <1>5, <1>6, <1>7

LEMMA KeptGoesOn ==
  ASSUME TypeInv, KeptBody, phase # "clean", NEW d, NEW c, NEW p, GoOn(p, d, c), Near(d, c),
         d.tmp = device.tmp \/ req = "Recovery" \/ it = 2,
         it # 1, req = "Update" => it # 8, req = "Recovery" => it \notin {4, 9},
         req = "Install" => it # 9, req = "Update" /\ p = "rec" => it # 5
  PROVE  KeptBody'
<1>1. /\ device' = d /\ ctx' = c /\ phase' = phase /\ it' = it /\ req' = req
      /\ stable' = stable /\ part' = p
  BY DEF GoOn, Leave, envVars, runnerVars
<1>. USE Places DEF KeptBody
<1>2. FileOK' /\ KindOK'
  BY <1>1 DEF FileOK, KindOK, Near
<1>3. RowOK'
  BY <1>1 DEF FileOK, RowOK, KindOK, Near
<1>4. ManifestsOK'
  BY <1>1 DEF ManifestsOK, Near
<1>5. NothingOK'
  BY <1>1 DEF FileOK, NothingOK, Near, Alike
<1>6. ContentOK'
  BY <1>1 DEF ContentOK, Near, Alike, Whole, NewVersion
<1>7. BackupOK'
  BY <1>1 DEF BackupOK, Near, Alike
<1>8. OldOK'
  BY <1>1 DEF OldOK, BackupOK, Near, Alike, Looping, Committed, Whole
<1>. QED  BY <1>2, <1>3, <1>4, <1>5, <1>6, <1>7, <1>8

\* Nothing to be shown, except at the steps after which something new is known.
LEMMA KeptDone ==
  ASSUME TypeInv, KeptBody, phase = "process", NEW d, NEW c, Done(d, c), Near(d, c),
         it >= 2, it = 2 => req # "Recovery" /\ d.tmp = Shipped(NewVersion),
         it > 2 => d.tmp = device.tmp \/ req = "Recovery",
         it = 3 => req = "Recovery" \/ c.man # None,
         req = "Install" => it # 5 /\ (it = 9 => d.db # None),
         req = "Update" => it # 8 /\ (it = 5 => stable # None /\ c.old # None),
         req = "Recovery" => (it = 4 /\ stable # None => d.db # None)
                             /\ (it = 7 /\ stable = None => d.xml = None)
  PROVE  KeptBody'
<1>1. /\ device' = d /\ ctx' = c /\ req' = req /\ stable' = stable /\ part' = "start"
      /\ \/ it < Last /\ phase' = "process" /\ it' = it + 1
         \/ it = Last /\ phase' = "clean" /\ it' = 1
  BY Places DEF Done, Leave, envVars, StepOk
<1>. USE Places DEF KeptBody
<1>2. FileOK' /\ KindOK'
  BY <1>1 DEF FileOK, KindOK, Near
<1>3. RowOK'
  BY <1>1 DEF FileOK, RowOK, KindOK, Near
<1>4. ManifestsOK'
  BY <1>1 DEF ManifestsOK, Near
<1>5. NothingOK'
  BY <1>1 DEF FileOK, NothingOK, Near, Alike
<1>6. ContentOK'
  BY <1>1 DEF ContentOK, Near, Alike, Whole, NewVersion
<1>7. BackupOK'
  BY <1>1 DEF BackupOK, Near, Alike
<1>8. OldOK'
  BY <1>1 DEF OldOK, BackupOK, Near, Alike, Looping, Committed, Whole
<1>. QED  BY <1>2, <1>3, <1>4, <1>5, <1>6, <1>7, <1>8

LEMMA KeptUndone ==
  ASSUME TypeInv, KeptBody, phase = "undo", NEW d, NEW ok, Undone(ok, d), Near(d, ctx),
         req = "Recovery" => it # 2,
         req = "Install" /\ it = 8 /\ stable = None => d.xml = None
  PROVE  KeptBody'
<1>1. /\ device' = d /\ req' = req /\ stable' = stable /\ part' = "start"
      /\ ctx'.file = ctx.file /\ ctx'.man = ctx.man /\ ctx'.old = ctx.old
      /\ \/ it > 1 /\ phase' = "undo" /\ it' = it - 1
         \/ it = 1 /\ phase' = "end" /\ it' = it
  BY Places DEF Undone, Leave, envVars, StepUndone, Contexts
<1>. USE Places DEF KeptBody
<1>2. FileOK' /\ KindOK'
  BY <1>1 DEF FileOK, KindOK, Near
<1>3. RowOK'
  BY <1>1 DEF FileOK, RowOK, KindOK, Near
<1>4. ManifestsOK'
  BY <1>1 DEF ManifestsOK, Near
<1>5. NothingOK'
  BY <1>1 DEF FileOK, NothingOK, Near, Alike
<1>6. ContentOK' /\ BackupOK'
  BY <1>1 DEF ContentOK, BackupOK, Near, Alike
<1>7. OldOK'
  BY <1>1 DEF OldOK, BackupOK, Near, Alike, Looping, Committed, Whole
<1>. QED  BY <1>2, <1>3, <1>4, <1>5, <1>6, <1>7

LEMMA KeptCleaned ==
  ASSUME TypeInv, KeptBody, phase = "clean", it > 1, NEW d, NEW c, Cleaned(d, c), Near(d, c),
         req = "Update" /\ it = 8 => ~Exists(device.bck)
  PROVE  KeptBody'
<1>1. /\ device' = d /\ ctx' = c /\ req' = req /\ stable' = stable /\ part' = "start"
      /\ \/ it < Last /\ phase' = "clean" /\ it' = it + 1
         \/ it = Last /\ phase' = "end" /\ it' = it
  BY Places DEF Cleaned, Leave, envVars, StepCleaned
<1>. USE Places DEF KeptBody
<1>2. FileOK' /\ KindOK'
  BY <1>1 DEF FileOK, KindOK, Near
<1>3. RowOK'
  BY <1>1 DEF FileOK, RowOK, KindOK, Near
<1>4. ManifestsOK'
  BY <1>1 DEF ManifestsOK, Near
<1>5. NothingOK'
  BY <1>1 DEF FileOK, NothingOK, Near, Alike
<1>6. ContentOK' /\ BackupOK'
  BY <1>1 DEF ContentOK, BackupOK, Near, Alike
<1>7. OldOK'
  BY <1>1 DEF OldOK, BackupOK, Near, Alike, Looping, Committed, Whole
<1>. QED  BY <1>2, <1>3, <1>4, <1>5, <1>6, <1>7

\* A handler that only touches icons, certificates or rules changes nothing of it.
LEMMA NearWithout ==
  ASSUME NEW d, NEW c,
         \A f \in {"pkg", "bck", "xml", "xmlBck", "db", "rec"} : d[f] = device[f],
         \A f \in {"man", "old", "file"} : c[f] = ctx[f]
  PROVE  Near(d, c)
BY DEF Near, Alike

LEMMA KeptFailsHere ==
  ASSUME TypeInv, KeptBody, phase = "process", NEW step, FailsHere(step), it # 1, ~Looping
  PROVE  KeptBody'
BY NearItself, KeptFails DEF FailsHere

-------------------------------------------------------------------------------
(* ... through the steps of installations and updates *)

LEMMA KeptConfigure ==
  ASSUME TypeInv, KeptBody, Configure \/ ConfigureWrite
  PROVE  KeptBody'
<1>1. /\ it = 1 /\ phase = "process" /\ 1 < NumSteps
      /\ Configure => part = "start"
  BY Positions DEF Configure, ConfigureWrite, Process, TypeInv, RunnerOK, Last
<1>. USE Places
<1>2. CASE FailsHere("Configure") /\ (req = "Recovery" \/ part = "start")
  <2>1. req # "Recovery" => device.rec.kind = "none"
    BY <1>1, <1>2 DEF KeptBody, FileOK
  <2>2. CASE req # "Recovery"
    BY <1>1, <1>2, <2>1, <2>2, NearItself, KeptFails DEF FailsHere, Looping
  <2>3. CASE req = "Recovery"
    <3>1. /\ device' = device /\ ctx' = ctx /\ phase' = "undo" /\ it' = 1 /\ req' = req
          /\ stable' = stable /\ part' = "start"
      BY <1>1, <1>2 DEF FailsHere, Failed, Leave, envVars, StepFails
    <3>. QED  BY <1>1, <2>3, <3>1 DEF KeptBody, FileOK, KindOK, RowOK, ManifestsOK, NothingOK, ContentOK, BackupOK, OldOK, Looping, Committed
  <2>. QED  BY <2>2, <2>3
<1>3. CASE NoFault /\ Done(device, ctx) /\ req = "Recovery"
  <2>1. /\ device' = device /\ ctx' = ctx /\ phase' = "process" /\ it' = 2 /\ req' = req
        /\ stable' = stable /\ part' = "start"
    BY <1>1, <1>3 DEF Done, Leave, envVars, StepOk
  <2>. QED  BY <1>1, <1>3, <2>1 DEF KeptBody, FileOK, KindOK, RowOK, ManifestsOK, NothingOK, ContentOK, BackupOK, OldOK, Looping, Committed
<1>. DEFINE Torn1 == [device EXCEPT !.rec = TornRecovery]
            None1 == [device EXCEPT !.rec = NoRecovery]
            file == [NoRecovery EXCEPT !.kind = req]
            Full == [device EXCEPT !.rec = file]
            c == [ctx EXCEPT !.file = file]
<1>4. /\ \A f \in {"pkg", "bck", "tmp", "xml", "xmlBck", "db"} :
            Torn1[f] = device[f] /\ None1[f] = device[f] /\ Full[f] = device[f]
      /\ Torn1.rec.kind = "torn" /\ None1.rec.kind = "none" /\ Full.rec.kind = req
      /\ c.file.kind = req /\ c.man = ctx.man /\ c.old = ctx.old
  BY DEF Devices, Contexts, TornRecovery, NoRecovery
<1>5. CASE GoOn("write", Torn1, ctx) /\ req # "Recovery"
  <2>1. /\ device' = Torn1 /\ ctx' = ctx /\ phase' = "process" /\ it' = 1 /\ req' = req
        /\ stable' = stable /\ part' = "write"
    BY <1>1, <1>5 DEF GoOn, Leave, envVars, runnerVars
  <2>. HIDE DEF Torn1
  <2>. QED  BY <1>1, <1>4, <1>5, <2>1 DEF KeptBody, FileOK, KindOK, RowOK, ManifestsOK, NothingOK, ContentOK, BackupOK, OldOK, Looping, Committed
<1>6. CASE ConfigureWrite
  <2>1. req # "Recovery"
    BY <1>6, <1>1 DEF ConfigureWrite, Process, TypeInv, LoopsOK, Loops
  <2>. HIDE DEF None1, Full, c
  <2>2. stable # None => req # "Install"
    BY <1>1 DEF KeptBody, KindOK
  <2>3. CASE Done(Full, c)
    <3>1. /\ device' = Full /\ ctx' = c /\ phase' = "process" /\ it' = 2 /\ req' = req
          /\ stable' = stable /\ part' = "start"
      BY <1>1, <2>3 DEF Done, Leave, envVars, StepOk
    <3>. QED  BY <1>1, <1>4, <2>1, <2>2, <3>1 DEF KeptBody, FileOK, KindOK, RowOK, ManifestsOK, NothingOK, ContentOK, BackupOK, OldOK, Looping, Committed
  <2>4. CASE Failed(None1, ctx)
    <3>1. /\ device' = None1 /\ ctx' = ctx /\ phase' = "undo" /\ it' = 1 /\ req' = req
          /\ stable' = stable /\ part' = "start"
      BY <1>1, <2>4 DEF Failed, Leave, envVars, StepFails
    <3>. QED  BY <1>1, <1>4, <2>1, <2>2, <3>1 DEF KeptBody, FileOK, KindOK, RowOK, ManifestsOK, NothingOK, ContentOK, BackupOK, OldOK, Looping, Committed
  <2>. QED  BY <1>6, <2>3, <2>4 DEF ConfigureWrite, Full, None1, c
<1>. QED  BY <1>1, <1>2, <1>3, <1>5, <1>6 DEF Configure

\* The commit: what was the new version is the old one from now on.
LEMMA KeptCommit ==
  ASSUME TypeInv, KeptBody, ConfigureClean
  PROVE  KeptBody'
<1>1. it = 1 /\ phase = "clean" /\ 1 < NumSteps
  BY Positions DEF ConfigureClean, Clean, TypeInv, RunnerOK, Last
<1>2. /\ device' = [device EXCEPT !.rec = NoRecovery] /\ ctx' = [ctx EXCEPT !.file = NoRecovery]
      /\ phase' = "clean" /\ it' = 2 /\ req' = req /\ part' = "start"
      /\ stable' = IF req = "Recovery" THEN stable ELSE NewVersion
  BY <1>1 DEF ConfigureClean, StepCleaned
<1>3. /\ \A f \in {"pkg", "bck", "tmp", "xml", "xmlBck", "db"} : device'[f] = device[f]
      /\ device'.rec.kind = "none" /\ ctx'.file.kind = "none"
      /\ ctx'.man = ctx.man /\ ctx'.old = ctx.old
  BY <1>2, Places DEF Devices, Contexts, NoRecovery
<1>. USE Places DEF KeptBody
<1>4. FileOK' /\ KindOK'
  BY <1>1, <1>2, <1>3 DEF FileOK, KindOK
<1>5. RowOK' /\ ManifestsOK'
  BY <1>1, <1>2, <1>3 DEF NothingOK, RowOK, ManifestsOK
<1>6. NothingOK' /\ ContentOK' /\ BackupOK'
  BY <1>1, <1>2, <1>3 DEF NothingOK, ContentOK, BackupOK
<1>7. OldOK'
  BY <1>1, <1>2, <1>3 DEF NothingOK, ContentOK, OldOK, KindOK, Looping, Committed, Whole
<1>. QED  BY <1>4, <1>5, <1>6, <1>7

LEMMA KeptUnzip ==
  ASSUME TypeInv, KeptBody, Unzip \/ UnzipCreateDir \/ UnzipExtract \/ UnzipUndo
  PROVE  KeptBody'
<1>1. it = 2 /\ phase \in {"process", "undo"} /\ req # "Recovery"
  BY Positions DEF Unzip, UnzipCreateDir, UnzipExtract, UnzipUndo, Process, Undo, TypeInv, RunnerOK
<1>. USE Places
<1>. DEFINE Tmp(t) == [device EXCEPT !.tmp = t]
            Rec(r) == [device EXCEPT !.rec = r]
            Dir == [ctx EXCEPT !.unpacked = TRUE]
            file == [ctx.file EXCEPT !.dir = TRUE]
            File == [ctx EXCEPT !.file = file]
<1>2. /\ \A t : Near(Tmp(t), ctx) /\ Tmp(t).tmp = t
      /\ \A t : Near(Tmp(t), Dir)
  BY NearWithout DEF Devices, Contexts
<1>3. CASE Unzip
  <2>1. PICK d : WriteRecovery(file, d) /\ GoOn("mkdir", d, File)
    BY <1>3 DEF Unzip
  <2>2. phase = "process" /\ ctx.file.kind # "none"
    BY <1>1, <1>3 DEF Unzip, Process, KeptBody, FileOK
  <2>3. file.kind = ctx.file.kind /\ ctx.file.kind # "none"
    BY <2>2 DEF Contexts, RecoveryFiles
  <2>4. File.file = file /\ File.man = ctx.man /\ File.old = ctx.old
    BY DEF Contexts
  <2>5. \A r \in {file, TornRecovery, device.rec} :
           /\ \A f \in {"pkg", "bck", "tmp", "xml", "xmlBck", "db"} : Rec(r)[f] = device[f]
           /\ Rec(r).rec.kind \in {device.rec.kind, ctx.file.kind, "torn"}
    BY <2>3 DEF Devices, TornRecovery, NoRecovery
  <2>6. \E r \in {file, TornRecovery, device.rec} : d = Rec(r)
    BY <2>1 DEF WriteRecovery, WriteResults
  <2>. HIDE DEF Rec, File, file
  <2>7. Near(d, File) /\ d.tmp = device.tmp
    BY <2>2, <2>3, <2>4, <2>5, <2>6 DEF Near, Alike
  <2>. QED  BY <1>1, <2>1, <2>2, <2>7, KeptGoesOn
<1>. HIDE DEF Tmp, Dir
<1>4. CASE UnzipCreateDir
  <2>1. GoOn("extract", Tmp(EmptyDir), ctx) \/ FailsHere("Unzip")
    BY <1>4 DEF UnzipCreateDir, Tmp
  <2>2. phase = "process" /\ ~Looping
    BY <1>1, <1>4 DEF UnzipCreateDir, Process, Looping
  <2>. QED  BY <1>1, <1>2, <2>1, <2>2, KeptGoesOn, KeptFailsHere
<1>5. CASE UnzipExtract
  <2>1. Done(Tmp(Shipped(NewVersion)), Dir) \/ Failed(Tmp(Missing), ctx)
    BY <1>5 DEF UnzipExtract, Tmp, Dir
  <2>2. CASE Done(Tmp(Shipped(NewVersion)), Dir)
    BY <1>1, <1>2, <1>5, <2>2, KeptDone DEF UnzipExtract, Process
  <2>3. CASE Failed(Tmp(Missing), ctx)
    BY <1>1, <1>2, <1>5, <2>3, KeptFails DEF UnzipExtract, Process, Looping
  <2>. QED  BY <2>1, <2>2, <2>3
<1>6. CASE UnzipUndo
  <2>1. Undone(TRUE, Tmp(Missing)) \/ Undone(TRUE, device)
    BY <1>6 DEF UnzipUndo, Tmp
  <2>2. phase = "undo" /\ it # 8
    BY <1>1, <1>6 DEF UnzipUndo, Undo
  <2>. QED  BY <1>1, <1>2, <2>1, <2>2, NearItself, KeptUndone, Zenon
<1>. QED  BY <1>3, <1>4, <1>5, <1>6

LEMMA ShippedManifest ==
  ASSUME TypeInv, NewVersion \in Versions
  PROVE  VersionOf(Shipped(NewVersion)["manifest"]) # None
<1>1. "manifest" \in CodeLike /\ Shipped(NewVersion)["manifest"] = {<<"self", NewVersion>>}
  BY ShippedTree DEF CodeLike
<1>2. {<<"self", NewVersion>>} \in SUBSET CodeFiles
  BY DEF CodeFiles
<1>. QED  BY <1>1, <1>2, VersionOfFiles

LEMMA KeptParse ==
  ASSUME TypeInv, KeptBody,
         ParseManifest \/ ParseInstalled
         \/ \E d \in WriteResults([ctx.file EXCEPT !.pkgid = TRUE]) : ParseWrite(d)
  PROVE  KeptBody'
<1>1. /\ phase = "process" /\ ~Looping
      /\ (it = 3 /\ req \in {"Install", "Update"}) \/ (it = 5 /\ req = "Update")
  <2>1. Step \in {"ParseManifest", "ParseInstalled"} /\ phase = "process"
    BY DEF ParseManifest, ParseInstalled, ParseWrite, Process
  <2>. QED  BY <2>1, Positions DEF TypeInv, RunnerOK, Looping, Requests
<1>. USE Places
<1>2. \A step : FailsHere(step) => KeptBody'
  BY <1>1, KeptFailsHere
<1>3. CASE ParseManifest
  <2>. DEFINE c == [ctx EXCEPT !.pkgid = TRUE]
  <2>1. GoOn("rec", device, c) \/ FailsHere("ParseManifest")
    BY <1>3 DEF ParseManifest
  <2>2. Near(device, c)
    BY NearWithout DEF Contexts
  <2>3. it = 3
    BY <1>1, <1>3, Positions DEF ParseManifest, Process, TypeInv, RunnerOK
  <2>. HIDE DEF c
  <2>. QED  BY <1>1, <1>2, <2>1, <2>2, <2>3, KeptGoesOn
<1>4. CASE ParseInstalled
  <2>1. it = 5 /\ req = "Update"
    BY <1>1, <1>4, Positions DEF ParseInstalled, Process, TypeInv, RunnerOK
  <2>2. CASE Failed(device, ctx)
    BY <1>1, <2>1, <2>2, NearItself, KeptFails
  <2>3. CASE GoOn("rec", device, ctx) /\ device.xml \in Versions
    <3>1. /\ device' = device /\ ctx' = ctx /\ phase' = phase /\ it' = 5 /\ req' = req
          /\ stable' = stable /\ part' = "rec"
      BY <2>1, <2>3 DEF GoOn, Leave, envVars, runnerVars
    <3>2. device.xml # None
      BY <2>3, StateAssumption DEF Versions, None
    <3>. QED  BY <1>1, <2>1, <3>1, <3>2 DEF KeptBody, FileOK, KindOK, RowOK, ManifestsOK, NothingOK, ContentOK, BackupOK, OldOK, Looping, Committed, NewVersion
  <2>. QED  BY <1>2, <1>4, <2>2, <2>3 DEF ParseInstalled
<1>5. ASSUME NEW d \in WriteResults([ctx.file EXCEPT !.pkgid = TRUE]), ParseWrite(d)
      PROVE  KeptBody'
  <2>. DEFINE file == [ctx.file EXCEPT !.pkgid = TRUE]
              Rec(r) == [device EXCEPT !.rec = r]
              Man == [ctx EXCEPT !.file = file, !.man = VersionOf(device.tmp["manifest"])]
              Old == [ctx EXCEPT !.file = file, !.old = device.xml]
  <2>1. ctx.file.kind # "none"
    BY <1>1 DEF KeptBody, FileOK
  <2>2. file.kind = ctx.file.kind
    BY DEF Contexts, RecoveryFiles
  <2>3. \A r \in {file, TornRecovery, device.rec} :
           /\ \A f \in {"pkg", "bck", "tmp", "xml", "xmlBck", "db"} : Rec(r)[f] = device[f]
           /\ Rec(r).rec.kind \in {device.rec.kind, ctx.file.kind, "torn"}
    BY <2>2 DEF Devices, TornRecovery, NoRecovery
  <2>4. \E r \in {file, TornRecovery, device.rec} : d = Rec(r)
    BY <1>5 DEF WriteResults
  <2>5. /\ Man.file = file /\ Man.man = VersionOf(device.tmp["manifest"]) /\ Man.old = ctx.old
        /\ Old.file = file /\ Old.man = ctx.man /\ Old.old = device.xml
    BY DEF Contexts
  <2>6. \/ Process("ParseManifest", "rec") /\ Done(d, Man)
        \/ Process("ParseInstalled", "rec") /\ Done(d, Old)
    BY <1>5 DEF ParseWrite
  <2>. HIDE DEF Rec, Man, Old, file
  <2>7. d.tmp = device.tmp
    BY <2>3, <2>4
  <2>8. CASE Process("ParseManifest", "rec") /\ Done(d, Man)
    <3>1. it = 3 /\ device.tmp = Shipped(NewVersion)
      BY <1>1, <2>8, Positions DEF Process, TypeInv, RunnerOK, KeptBody, ContentOK
    <3>2. Man.man # None
      <4>1. NewVersion \in Versions
        BY <1>1, StateAssumption DEF TypeInv, RoomOK, NewVersion, Versions
      <4>. QED  BY <2>5, <3>1, <4>1, ShippedManifest
    <3>3. Near(d, Man)
      BY <1>1, <2>1, <2>2, <2>3, <2>4, <2>5, <3>2 DEF Near, Alike
    <3>. QED  BY <1>1, <2>7, <2>8, <3>1, <3>2, <3>3, KeptDone
  <2>9. CASE Process("ParseInstalled", "rec") /\ Done(d, Old)
    <3>1. it = 5 /\ req = "Update" /\ device.xml # None
      BY <1>1, <2>9, Positions DEF Process, TypeInv, RunnerOK, KeptBody, ManifestsOK
    <3>2. stable # None
      BY <1>1, <3>1 DEF KeptBody, NothingOK
    <3>3. Near(d, Old)
      BY <1>1, <2>1, <2>2, <2>3, <2>4, <2>5, <3>1 DEF Near, Alike
    <3>. QED  BY <1>1, <2>5, <2>7, <2>9, <3>1, <3>2, <3>3, KeptDone
  <2>. QED  BY <2>6, <2>8, <2>9
<1>. QED  BY <1>3, <1>4, <1>5

LEMMA KeptIcons ==
  ASSUME TypeInv, KeptBody, CreateIcons \/ CreateIconsCopy \/ CreateIconsUndo
  PROVE  KeptBody'
<1>1. /\ (it = 7 /\ req = "Install") \/ (it = 10 /\ req = "Update")
      /\ phase \in {"process", "undo"} /\ ~Looping
  <2>1. Step = "CreateIcons" /\ phase \in {"process", "undo"}
    BY DEF CreateIcons, CreateIconsCopy, CreateIconsUndo, Process, Undo
  <2>. QED  BY <2>1, Positions DEF TypeInv, RunnerOK, Looping
<1>. USE Places
<1>2. ASSUME NEW d, NEW c, \A f \in {"pkg", "bck", "tmp", "xml", "xmlBck", "db", "rec"} : d[f] = device[f],
             \A f \in {"man", "old", "file"} : c[f] = ctx[f]
      PROVE  /\ GoOn("copy", d, c) => KeptBody'
             /\ phase = "process" /\ Done(d, c) => KeptBody'
             /\ phase = "process" /\ Failed(d, c) => KeptBody'
  BY <1>1, <1>2, NearWithout, KeptGoesOn, KeptDone, KeptFails
<1>. DEFINE Icon(i) == [device EXCEPT !.icon = i]
            Todo(t) == [ctx EXCEPT !.todo = t]
            Made(t, m) == [ctx EXCEPT !.todo = t, !.made = m]
<1>3. /\ \A i : \A f \in {"pkg", "bck", "tmp", "xml", "xmlBck", "db", "rec"} : Icon(i)[f] = device[f]
      /\ \A t : \A f \in {"man", "old", "file"} : Todo(t)[f] = ctx[f]
      /\ \A t, m : \A f \in {"man", "old", "file"} : Made(t, m)[f] = ctx[f]
  BY DEF Devices, Contexts
<1>4. CASE CreateIcons
  <2>1. GoOn("copy", device, Todo(Apps))
    BY <1>4 DEF CreateIcons
  <2>. HIDE DEF Icon, Todo, Made
  <2>. QED  BY <1>2, <1>3, <2>1
<1>5. CASE CreateIconsCopy
  <2>1. \/ Done(device, ctx) \/ Failed(device, ctx)
        \/ \E a \in ctx.todo : GoOn("copy", [device EXCEPT !.icon[a] = ctx.man],
                                    [ctx EXCEPT !.todo = @ \ {a}, !.made = @ \cup {a}])
    BY <1>5 DEF CreateIconsCopy, FailsHere
  <2>2. ASSUME NEW a, GoOn("copy", [device EXCEPT !.icon[a] = ctx.man],
                           [ctx EXCEPT !.todo = @ \ {a}, !.made = @ \cup {a}])
        PROVE  GoOn("copy", Icon([device.icon EXCEPT ![a] = ctx.man]),
                    Made(ctx.todo \ {a}, ctx.made \cup {a}))
    BY <2>2 DEF Devices, Contexts
  <2>3. phase = "process"
    BY <1>5 DEF CreateIconsCopy, Process
  <2>4. CASE Done(device, ctx) \/ Failed(device, ctx)
    BY <1>2, <2>3, <2>4
  <2>5. CASE \E i, t, m : GoOn("copy", Icon(i), Made(t, m))
    <3>1. PICK i, t, m : GoOn("copy", Icon(i), Made(t, m))
      BY <2>5
    <3>. HIDE DEF Icon, Made
    <3>. QED  BY <1>2, <1>3, <3>1
  <2>. HIDE DEF Icon, Todo, Made
  <2>. QED  BY <2>1, <2>2, <2>4, <2>5
<1>6. CASE CreateIconsUndo
  <2>1. PICK i : Undone(TRUE, Icon(i))
    BY <1>6 DEF CreateIconsUndo
  <2>2. phase = "undo" /\ it # 8
    BY <1>1, <1>6 DEF CreateIconsUndo, Undo
  <2>. HIDE DEF Icon
  <2>3. Near(Icon(i), ctx)
    BY <1>3, NearWithout
  <2>. QED  BY <1>1, <2>1, <2>2, <2>3, KeptUndone, Zenon
<1>. QED  BY <1>4, <1>5, <1>6

LEMMA KeptManifest ==
  ASSUME TypeInv, KeptBody, CreateManifest \/ CreateManifestUndo
  PROVE  KeptBody'
<1>1. /\ (it = 8 /\ req = "Install") \/ (it = 11 /\ req = "Update")
      /\ phase \in {"process", "undo"} /\ ~Looping
  <2>1. Step = "CreateManifest" /\ phase \in {"process", "undo"}
    BY DEF CreateManifest, CreateManifestUndo, Process, Undo
  <2>. QED  BY <2>1, Positions DEF TypeInv, RunnerOK, Looping
<1>. USE Places
<1>. DEFINE Xml(x) == [device EXCEPT !.xml = x]
<1>2. \A x : Xml(x).xml = x
             /\ \A f \in {"pkg", "bck", "tmp", "xmlBck", "db", "rec"} : Xml(x)[f] = device[f]
  BY DEF Devices
<1>3. CASE CreateManifest
  <2>1. phase = "process" /\ (Done(Xml(ctx.man), ctx) \/ FailsHere("CreateManifest"))
    BY <1>3 DEF CreateManifest, Process
  <2>. HIDE DEF Xml
  <2>2. Near(Xml(ctx.man), ctx)
    BY <1>1, <1>2, <2>1 DEF KeptBody, NothingOK, Near, Alike
  <2>. QED  BY <1>1, <1>2, <2>1, <2>2, KeptDone, KeptFailsHere
<1>4. CASE CreateManifestUndo
  <2>1. phase = "undo" /\ Undone(TRUE, Xml(None))
    BY <1>4 DEF CreateManifestUndo, Undo
  <2>. HIDE DEF Xml
  <2>2. Near(Xml(None), ctx)
    BY <1>1, <1>2 DEF Near, Alike
  <2>3. req # "Recovery" /\ Xml(None).xml = None
    BY <1>1, <1>2
  <2>. QED  BY <2>1, <2>2, <2>3, KeptUndone, Zenon
<1>. QED  BY <1>3, <1>4

LEMMA KeptNothing ==
  ASSUME TypeInv, KeptBody, NothingToUndo \/ NothingToClean
  PROVE  KeptBody'
<1>. USE Places
<1>1. CASE NothingToUndo
  <2>1. phase = "undo" /\ Undone(TRUE, device) /\ Step \notin HasUndo
    BY <1>1 DEF NothingToUndo
  <2>2. ~(req = "Recovery" /\ it = 2) /\ ~(req = "Install" /\ it = 8)
    BY <2>1, Positions DEF HasUndo, TypeInv, RunnerOK
  <2>. QED  BY <2>1, <2>2, NearItself, KeptUndone, Zenon
<1>2. CASE NothingToClean
  <2>1. phase = "clean" /\ Cleaned(device, ctx) /\ Step \notin HasClean
    BY <1>2 DEF NothingToClean
  <2>2. it # 1 /\ ~(req = "Update" /\ it = 8)
    BY <2>1, Positions DEF HasClean, TypeInv, RunnerOK
  <2>. QED  BY <2>1, <2>2, NearItself, KeptCleaned
<1>. QED  BY <1>1, <1>2

LEMMA KeptCommon ==
  ASSUME TypeInv, KeptBody, CommonStep
  PROVE  KeptBody'
BY KeptConfigure, KeptCommit, KeptUnzip, KeptParse, KeptIcons, KeptManifest, KeptNothing
   DEF CommonStep

-------------------------------------------------------------------------------
(* ... through the steps of an installation *)

\* A change of storage is none of the code.
LEMMA StorageAlike ==
  ASSUME NEW t, TreeOK(t)
  PROVE  /\ \A e \in StorageKeys : \A files : Alike(Put(t, e, files), t)
         /\ \A files, more : Alike(Put(Put(t, "data", files), "shared", more), t)
         /\ \A e \in StorageKeys : Alike(Drop(t, e), t)
<1>1. \A e \in StorageKeys : e \in Nodes /\ e # "." /\ e \notin CodeLike
  BY StateAssumption DEF Nodes, Entries, StorageKeys, CodeLike
<1>2. DOMAIN t = Nodes /\ t = [n \in Nodes |-> t[n]]
  BY DEF TreeOK, Trees
<1>3. \A e \in StorageKeys : \A files : \A n \in Nodes \ {e} : Put(t, e, files)[n] = t[n]
  BY <1>2 DEF Put
<1>4. \A files, more : \A n \in Nodes \ StorageKeys : Put(Put(t, "data", files), "shared", more)[n] = t[n]
  BY <1>2 DEF Put, StorageKeys
<1>5. "." \in Nodes /\ CodeLike \subseteq Nodes
  BY DEF Nodes, Entries
<1>. QED  BY <1>1, <1>3, <1>4, <1>5 DEF Alike, Exists, Drop

LEMMA CutSmaller ==
  ASSUME NEW t, TreeOK(t), NEW u \in RemoveCut(t)
  PROVE  (Exists(u) <=> Exists(t)) /\ \A e \in CodeLike : u[e] \subseteq t[e]
<1>1. PICK kept \in SUBSET Entries :
        u = [n \in Nodes |-> IF n \in kept \cup {"."} THEN t[n] ELSE {}]
  BY DEF RemoveCut
<1>. QED  BY <1>1, CutTree DEF Nodes, Entries

\* A package that is not committed yet may lose what it has.
LEMMA KeptShrinks ==
  ASSUME TypeInv, KeptBody, req = "Install", it = 5, phase = "undo", NEW d, NEW ok, Undone(ok, d),
         \A f \in {"bck", "xml", "xmlBck", "db", "rec"} : d[f] = device[f],
         \A e \in CodeLike : d.pkg[e] \subseteq device.pkg[e],
         ~Exists(d.pkg) => \A e \in CodeLike : d.pkg[e] = {}
  PROVE  KeptBody'
<1>1. /\ device' = d /\ req' = req /\ stable' = stable /\ part' = "start"
      /\ ctx'.file = ctx.file /\ ctx'.man = ctx.man /\ ctx'.old = ctx.old
      /\ phase' = "undo" /\ it' = 4
  BY Places DEF Undone, Leave, envVars, StepUndone, Contexts
<1>2. stable = None
  BY DEF KeptBody, KindOK
<1>. USE DEF KeptBody
<1>3. FileOK' /\ KindOK' /\ RowOK' /\ ManifestsOK' /\ OldOK'
  BY <1>1, <1>2 DEF FileOK, KindOK, RowOK, ManifestsOK, OldOK
<1>4. NothingOK' /\ ContentOK' /\ BackupOK'
  BY <1>1, <1>2 DEF NothingOK, ContentOK, BackupOK
<1>. QED  BY <1>3, <1>4

LEMMA KeptCopy ==
  ASSUME TypeInv, KeptBody, Copy \/ CopyUndo
  PROVE  KeptBody'
<1>1. it = 5 /\ req = "Install" /\ phase \in {"process", "undo"} /\ ~Looping
  <2>1. Step = "Copy" /\ phase \in {"process", "undo"}
    BY DEF Copy, CopyUndo, Process, Undo
  <2>. QED  BY <2>1, Positions DEF TypeInv, RunnerOK, Looping
<1>. USE Places
<1>2. stable = None /\ NewVersion = 1
  BY <1>1 DEF KeptBody, KindOK, NewVersion, None
<1>3. CASE Copy
  <2>. DEFINE t == MoveTree(device.tmp, device.pkg)
              d == [device EXCEPT !.pkg = t, !.tmp = Missing]
  <2>1. phase = "process" /\ (Done(d, ctx) \/ FailsHere("Copy"))
    BY <1>3 DEF Copy, Process
  <2>2. /\ \A f \in {"bck", "xml", "xmlBck", "db", "rec"} : d[f] = device[f]
        /\ d.pkg = t
    BY DEF Devices
  <2>3. NewVersion \in Versions
    BY <1>1, <2>1, StateAssumption DEF TypeInv, RoomOK, Versions, NewVersion
  <2>4. device.tmp = Shipped(NewVersion)
    BY <1>1, <2>1 DEF KeptBody, ContentOK
  <2>5. \A e \in CodeLike : device.pkg[e] \in SUBSET {<<"self", 1>>} /\ e \in Nodes /\ e \in Entries
    BY <1>2 DEF KeptBody, NothingOK, Nodes, Entries
  <2>6. Whole(t, 1) /\ Exists(t)
    <3>1. CASE IsEmpty(device.pkg)
      BY <1>2, <2>3, <2>4, <3>1, ShippedTree DEF MoveTree, Whole
    <3>2. CASE ~IsEmpty(device.pkg)
      <4>1. t = [n \in Nodes |-> Merge(device.pkg[n], device.tmp[n])]
        BY <3>2 DEF MoveTree
      <4>2. \A e \in CodeLike : t[e] = Merge(device.pkg[e], {<<"self", 1>>})
        <5>1. \A e \in CodeLike : device.tmp[e] = {<<"self", 1>>}
          BY <1>2, <2>3, <2>4, ShippedTree
        <5>. QED  BY <2>5, <4>1, <5>1
      <4>3. \A e \in CodeLike : t[e] = {<<"self", 1>>}
        <5>1. ASSUME NEW files \in SUBSET {<<"self", 1>>}
              PROVE  Merge(files, {<<"self", 1>>}) = {<<"self", 1>>}
          BY <5>1 DEF Merge, Names
        <5>. QED  BY <2>5, <4>2, <5>1
      <4>4. "manifest" \in CodeLike
        BY DEF CodeLike
      <4>5. Exists(t)
        <5>1. device.tmp["."] = {Dot}
          BY <2>4 DEF Shipped, Nodes
        <5>2. Merge(device.pkg["."], {Dot}) # {}
          BY DEF Merge, Names
        <5>. QED  BY <4>1, <5>1, <5>2 DEF Exists, Nodes
      <4>. QED  BY <4>3, <4>5 DEF Whole
    <3>. QED  BY <3>1, <3>2
  <2>. HIDE DEF t, d
  <2>7. CASE Done(d, ctx)
    <3>1. /\ device' = d /\ ctx' = ctx /\ req' = req /\ stable' = stable /\ part' = "start"
          /\ phase' = "process" /\ it' = 6
      BY <1>1, <2>7 DEF Done, Leave, envVars, StepOk
    <3>2. FileOK' /\ KindOK' /\ RowOK' /\ ManifestsOK' /\ OldOK'
      BY <1>1, <1>2, <2>1, <2>2, <3>1 DEF KeptBody, FileOK, KindOK, RowOK, ManifestsOK, OldOK
    <3>3. NothingOK' /\ ContentOK' /\ BackupOK'
      BY <1>1, <1>2, <2>1, <2>2, <2>6, <3>1 DEF KeptBody, NothingOK, ContentOK, BackupOK, Whole, NewVersion
    <3>. QED  BY <3>2, <3>3 DEF KeptBody
  <2>. QED  BY <1>1, <2>1, <2>7, KeptFailsHere
<1>4. CASE CopyUndo
  <2>. DEFINE Pkg(t) == [device EXCEPT !.pkg = t]
  <2>1. phase = "undo" /\ \E t \in RemoveCut(device.pkg) \cup {Missing} : \E ok \in BOOLEAN : Undone(ok, Pkg(t))
    BY <1>4, Zenon DEF CopyUndo, Undo
  <2>2. \A t : Pkg(t).pkg = t /\ \A f \in {"bck", "xml", "xmlBck", "db", "rec"} : Pkg(t)[f] = device[f]
    BY DEF Devices
  <2>. HIDE DEF Pkg
  <2>3. ASSUME NEW t \in RemoveCut(device.pkg) \cup {Missing}
        PROVE  /\ \A e \in CodeLike : t[e] \subseteq device.pkg[e]
               /\ ~Exists(t) => \A e \in CodeLike : t[e] = {}
    <3>1. \A e \in CodeLike : Missing[e] = {}
      BY DEF Missing, Nodes, Entries
    <3>2. ~Exists(device.pkg) => \A e \in CodeLike : device.pkg[e] = {}
      BY DEF KeptBody, ContentOK
    <3>. QED  BY <2>3, <3>1, <3>2, CutSmaller DEF TypeInv, TreesOK
  <2>4. PICK t \in RemoveCut(device.pkg) \cup {Missing}, ok \in BOOLEAN : Undone(ok, Pkg(t))
    BY <2>1
  <2>. QED  BY <1>1, <2>1, <2>2, <2>3, <2>4, KeptShrinks
<1>. QED  BY <1>3, <1>4

LEMMA KeptInstall ==
  ASSUME TypeInv, KeptBody, InstallStep
  PROVE  KeptBody'
<1>. USE Places
<1>. DEFINE Pkg(t) == [device EXCEPT !.pkg = t]
            Sec(s) == [device EXCEPT !.sec = s]
            Row(v) == [device EXCEPT !.db = v]
            Cert == [device EXCEPT !.cert = TRUE]
            NoRow == [device EXCEPT !.db = None, !.cert = FALSE]
<1>1. /\ \A s : \A f \in {"pkg", "bck", "tmp", "xml", "xmlBck", "db", "rec"} : Sec(s)[f] = device[f]
      /\ \A v : Row(v).db = v /\ \A f \in {"pkg", "bck", "tmp", "xml", "xmlBck", "rec"} : Row(v)[f] = device[f]
      /\ \A f \in {"pkg", "bck", "tmp", "xml", "xmlBck", "db", "rec"} : Cert[f] = device[f]
      /\ NoRow.db = None /\ \A f \in {"pkg", "bck", "tmp", "xml", "xmlBck", "rec"} : NoRow[f] = device[f]
      /\ \A t : Pkg(t).pkg = t /\ \A f \in {"bck", "tmp", "xml", "xmlBck", "db", "rec"} : Pkg(t)[f] = device[f]
  BY DEF Devices
<1>2. CASE RollbackInstallationSecurity \/ RollbackInstallationSecurityUndo
  <2>1. it = 4 /\ req = "Install"
    BY <1>2, Positions DEF RollbackInstallationSecurity, RollbackInstallationSecurityUndo, Process, Undo, TypeInv, RunnerOK
  <2>2. \/ phase = "process" /\ Done(device, ctx)
        \/ phase = "undo" /\ (Undone(TRUE, Sec(None)) \/ Undone(FALSE, device))
    BY <1>2, Zenon DEF RollbackInstallationSecurity, RollbackInstallationSecurityUndo, Process, Undo
  <2>. HIDE DEF Pkg, Sec, Row, Cert, NoRow
  <2>3. Near(Sec(None), ctx)
    BY <1>1, NearWithout
  <2>4. CASE phase = "process" /\ Done(device, ctx)
    BY <2>1, <2>4, NearItself, KeptDone
  <2>5. req # "Recovery" /\ it # 8
    BY <2>1
  <2>. QED  BY <2>2, <2>3, <2>4, <2>5, NearItself, KeptUndone, Zenon
<1>3. CASE RegisterSecurity
  <2>1. it = 10 /\ req = "Install" /\ phase = "process" /\ ~Looping
    BY <1>3, Positions DEF RegisterSecurity, Process, TypeInv, RunnerOK, Looping
  <2>2. \E s : Done(Sec(s), ctx) \/ Failed(Sec(s), ctx)
    BY <1>3 DEF RegisterSecurity
  <2>. HIDE DEF Pkg, Sec, Row, Cert, NoRow
  <2>3. \A s : Near(Sec(s), ctx)
    BY <1>1, NearWithout
  <2>. QED  BY <1>1, <2>1, <2>2, <2>3, KeptDone, KeptFails
<1>4. CASE CreateStorageDirectories
  <2>1. it = 6 /\ req = "Install" /\ phase = "process" /\ ~Looping
    BY <1>4, Positions DEF CreateStorageDirectories, Process, TypeInv, RunnerOK, Looping
  <2>. DEFINE made == [k \in StorageKeys |-> device.pkg[k] \cup {Dot}]
              t == IF global THEN Drop(device.pkg, "data")
                   ELSE Put(Put(device.pkg, "data", made["data"]), "shared", made["shared"])
  <2>2. Done(Pkg(t), ctx) \/ FailsHere("CreateStorageDirectories")
    BY <1>4 DEF CreateStorageDirectories
  <2>3. Alike(t, device.pkg)
    BY StorageAlike DEF TypeInv, TreesOK, StorageKeys
  <2>. HIDE DEF t, Pkg, Sec, Row, Cert, NoRow
  <2>4. Near(Pkg(t), ctx)
    BY <1>1, <2>3 DEF Near, Alike
  <2>. QED  BY <1>1, <2>1, <2>2, <2>4, KeptDone, KeptFailsHere
<1>5. CASE RegisterApplication \/ RegisterApplicationCerts
  <2>1. it = 9 /\ req = "Install" /\ phase = "process" /\ ~Looping
    BY <1>5, Positions DEF RegisterApplication, RegisterApplicationCerts, Process, TypeInv, RunnerOK, Looping
  <2>2. \/ Failed(device, ctx) \/ FailsHere("RegisterApplication")
        \/ GoOn("certs", Row(ctx.man), ctx)
        \/ part = "certs" /\ Done(Cert, ctx)
    BY <1>5 DEF RegisterApplication, RegisterApplicationCerts, Process
  <2>3. ctx.man # None /\ (part = "certs" => device.db # None)
    BY <2>1 DEF KeptBody, ManifestsOK, RowOK
  <2>. HIDE DEF Pkg, Sec, Row, Cert, NoRow
  <2>4. CASE part = "certs" /\ Done(Cert, ctx)
    <3>1. Near(Cert, ctx)
      BY <1>1, NearWithout
    <3>. QED  BY <1>1, <2>1, <2>3, <2>4, <3>1, KeptDone
  <2>5. CASE GoOn("certs", Row(ctx.man), ctx)
    <3>1. /\ device' = Row(ctx.man) /\ ctx' = ctx /\ phase' = phase /\ it' = it /\ req' = req
          /\ stable' = stable /\ part' = "certs"
      BY <2>5 DEF GoOn, Leave, envVars, runnerVars
    <3>. QED  BY <1>1, <2>1, <2>3, <3>1 DEF KeptBody, FileOK, KindOK, RowOK, ManifestsOK, NothingOK, ContentOK, BackupOK, OldOK, Looping, Committed, NewVersion, Whole
  <2>. QED  BY <2>1, <2>2, <2>4, <2>5, NearItself, KeptFails, KeptFailsHere
<1>6. CASE RegisterApplicationUndo
  <2>1. it = 9 /\ req = "Install" /\ phase = "undo"
    BY <1>6, Positions DEF RegisterApplicationUndo, Undo, TypeInv, RunnerOK
  <2>2. Undone(TRUE, NoRow) \/ Undone(FALSE, device)
    BY <1>6, Zenon DEF RegisterApplicationUndo
  <2>3. stable = None
    BY <2>1 DEF KeptBody, KindOK
  <2>. HIDE DEF Pkg, Sec, Row, Cert, NoRow
  <2>4. Near(NoRow, ctx)
    BY <1>1, <2>1, <2>3 DEF Near, Alike
  <2>5. req # "Recovery" /\ it # 8
    BY <2>1
  <2>. QED  BY <2>1, <2>2, <2>4, <2>5, NearItself, KeptUndone, Zenon
<1>. QED  BY <1>2, <1>3, <1>4, <1>5, <1>6, KeptCopy DEF InstallStep

-------------------------------------------------------------------------------
(* ... through the steps of an update *)

\* An update that has looked at the installed manifest replaces a version.
LEMMA UpdateReplaces ==
  ASSUME TypeInv, KeptBody, req = "Update",
         (phase = "clean" /\ it = 1) \/ (phase \in {"process", "undo"} /\ it >= 6)
  PROVE  stable # None
BY Places DEF KeptBody, NothingOK

LEMMA KeptSmallUpdates ==
  ASSUME TypeInv, KeptBody, Kept', CheckOldCertificate \/ BackupManifest \/ BackupManifestUndo \/ BackupManifestClean
  PROVE  KeptBody'
<1>. USE Places
<1>. DEFINE Xml(x, b) == [device EXCEPT !.xml = x, !.xmlBck = b]
            XmlOnly(x) == [device EXCEPT !.xml = x]
            Bck(b) == [device EXCEPT !.xmlBck = b]
            c == [ctx EXCEPT !.bxml = TRUE]
<1>1. /\ \A x, b : \A f \in {"pkg", "bck", "tmp", "db", "rec"} : Xml(x, b)[f] = device[f]
      /\ \A x : \A f \in {"pkg", "bck", "tmp", "db", "rec"} : XmlOnly(x)[f] = device[f]
      /\ \A b : Bck(b).xmlBck = b /\ \A f \in {"pkg", "bck", "tmp", "xml", "db", "rec"} : Bck(b)[f] = device[f]
      /\ c.file = ctx.file /\ c.man = ctx.man /\ c.old = ctx.old
  BY DEF Devices, Contexts
<1>2. CASE CheckOldCertificate
  <2>1. it = 4 /\ req = "Update" /\ phase = "process" /\ ~Looping
    BY <1>2, Positions DEF CheckOldCertificate, Process, TypeInv, RunnerOK, Looping
  <2>2. Done(device, ctx) \/ Failed(device, ctx)
    BY <1>2 DEF CheckOldCertificate, FailsHere
  <2>. QED  BY <2>1, <2>2, NearItself, KeptDone, KeptFails
<1>3. CASE BackupManifest
  <2>1. it = 6 /\ req = "Update" /\ phase = "process" /\ ~Looping
    BY <1>3, Positions DEF BackupManifest, Process, TypeInv, RunnerOK, Looping
  <2>2. \/ Failed(device, ctx) \/ Failed(device, c)
        \/ \E b : Done(Bck(b), c) \/ Failed(Bck(b), c)
    BY <1>3 DEF BackupManifest
  <2>3. stable # None
    BY <2>1, UpdateReplaces
  <2>. HIDE DEF Xml, XmlOnly, Bck, c
  <2>4. Near(device, c) /\ \A b : Near(Bck(b), c)
    BY <1>1, <2>3 DEF Near, Alike
  <2>. QED  BY <1>1, <2>1, <2>2, <2>3, <2>4, NearItself, KeptDone, KeptFails
<1>4. CASE BackupManifestUndo
  <2>1. it = 6 /\ req = "Update" /\ phase = "undo"
    BY <1>4, Positions DEF BackupManifestUndo, Undo, TypeInv, RunnerOK
  <2>2. \/ Undone(TRUE, device) \/ Undone(TRUE, Xml(device.xmlBck, None))
        \/ \E x : Undone(FALSE, XmlOnly(x))
    BY <1>4, Zenon DEF BackupManifestUndo
  <2>3. stable # None /\ req # "Recovery" /\ req # "Install"
    BY <2>1, UpdateReplaces
  <2>. HIDE DEF Xml, XmlOnly, Bck, c
  <2>4. \A x, b : Near(Xml(x, b), ctx) /\ Near(XmlOnly(x), ctx)
    BY <1>1, <2>1, <2>3 DEF Near, Alike, Xml, XmlOnly, Devices
  <2>. QED  BY <2>1, <2>2, <2>3, <2>4, NearItself, KeptUndone, Zenon
<1>5. CASE BackupManifestClean
  <2>1. it = 6 /\ req = "Update" /\ phase = "clean"
    BY <1>5, Positions DEF BackupManifestClean, Clean, TypeInv, RunnerOK
  <2>2. Cleaned(Bck(None), ctx)
    BY <1>5, KeptBefore DEF BackupManifestClean, Harmless
  <2>. HIDE DEF Xml, XmlOnly, Bck, c
  <2>3. Near(Bck(None), ctx)
    BY <1>1 DEF Near, Alike
  <2>. QED  BY <2>1, <2>2, <2>3, KeptCleaned
<1>. QED  BY <1>2, <1>3, <1>4, <1>5

LEMMA KeptBackupIcons ==
  ASSUME TypeInv, KeptBody, BackupIcons \/ BackupIconsMove \/ BackupIconsUndo \/ BackupIconsClean
  PROVE  KeptBody'
<1>. USE Places
<1>1. it = 7 /\ req = "Update" /\ phase \in {"process", "undo", "clean"} /\ ~Looping
  <2>1. Step = "BackupIcons" /\ phase \in {"process", "undo", "clean"}
    BY DEF BackupIcons, BackupIconsMove, BackupIconsUndo, BackupIconsClean, Process, Undo, Clean
  <2>. QED  BY <2>1, Positions DEF TypeInv, RunnerOK, Looping
<1>. DEFINE Icon(i, j) == [device EXCEPT !.icon = i, !.iconBck = j]
            Bck(j) == [device EXCEPT !.iconBck = j]
            Todo(t) == [ctx EXCEPT !.todo = t]
            Found(g, t) == [ctx EXCEPT !.gathered = g, !.todo = t]
<1>2. /\ \A i, j : \A f \in {"pkg", "bck", "tmp", "xml", "xmlBck", "db", "rec"} : Icon(i, j)[f] = device[f]
      /\ \A j : \A f \in {"pkg", "bck", "tmp", "xml", "xmlBck", "db", "rec"} : Bck(j)[f] = device[f]
      /\ \A t : \A f \in {"man", "old", "file"} : Todo(t)[f] = ctx[f]
      /\ \A g, t : \A f \in {"man", "old", "file"} : Found(g, t)[f] = ctx[f]
  BY DEF Devices, Contexts
<1>3. CASE BackupIcons
  <2>1. phase = "process" /\ \E g, t : GoOn("move", device, Found(g, t))
    BY <1>3 DEF BackupIcons, Process
  <2>. HIDE DEF Icon, Bck, Todo, Found
  <2>. QED  BY <1>1, <1>2, <2>1, NearWithout, KeptGoesOn
<1>4. CASE BackupIconsMove
  <2>1. phase = "process"
    BY <1>4 DEF BackupIconsMove, Process
  <2>2. \/ Done(device, ctx) \/ Failed(device, ctx)
        \/ \E a : GoOn("move", [device EXCEPT !.iconBck[a] = device.icon[a], !.icon[a] = None],
                       [ctx EXCEPT !.todo = @ \ {a}])
    BY <1>4 DEF BackupIconsMove, FailsHere
  <2>3. ASSUME NEW a, GoOn("move", [device EXCEPT !.iconBck[a] = device.icon[a], !.icon[a] = None],
                           [ctx EXCEPT !.todo = @ \ {a}])
        PROVE  \E i, j, t : GoOn("move", Icon(i, j), Todo(t))
    <3>1. /\ [device EXCEPT !.iconBck[a] = device.icon[a], !.icon[a] = None]
               = Icon([device.icon EXCEPT ![a] = None], [device.iconBck EXCEPT ![a] = device.icon[a]])
          /\ [ctx EXCEPT !.todo = @ \ {a}] = Todo(ctx.todo \ {a})
      BY DEF Devices, Contexts
    <3>. QED  BY <2>3, <3>1
  <2>. HIDE DEF Icon, Bck, Todo, Found
  <2>4. \A i, j, t : Near(Icon(i, j), Todo(t)) /\ Icon(i, j).tmp = device.tmp
    BY <1>2, NearWithout
  <2>5. CASE Done(device, ctx) \/ Failed(device, ctx)
    BY <1>1, <2>1, <2>5, NearItself, KeptDone, KeptFails
  <2>6. ASSUME NEW i, NEW j, NEW t, GoOn("move", Icon(i, j), Todo(t))
        PROVE  KeptBody'
    BY <1>1, <2>1, <2>4, <2>6, KeptGoesOn
  <2>. QED  BY <2>2, <2>3, <2>5, <2>6
<1>5. CASE BackupIconsUndo
  <2>1. phase = "undo" /\ \E ok, i, j : Undone(ok, Icon(i, j))
    BY <1>5, Zenon DEF BackupIconsUndo, Undo
  <2>2. PICK ok, i, j : Undone(ok, Icon(i, j))
    BY <2>1
  <2>. HIDE DEF Icon, Bck, Todo, Found
  <2>. QED  BY <1>1, <1>2, <2>1, <2>2, NearWithout, KeptUndone
<1>6. CASE BackupIconsClean
  <2>1. phase = "clean" /\ \E j : Cleaned(Bck(j), ctx)
    BY <1>6 DEF BackupIconsClean, Clean
  <2>. HIDE DEF Icon, Bck, Todo, Found
  <2>. QED  BY <1>1, <1>2, <2>1, NearWithout, KeptCleaned
<1>. QED  BY <1>3, <1>4, <1>5, <1>6

\* The loop of Backup(): the entries that are not in the backup yet are those it
\* has left to do, so that the backup is complete when none is.
LEMMA KeptBackup ==
  ASSUME TypeInv, KeptBody, Kept', CopyBackup \/ CopyBackupEntry \/ CopyBackupNewContent
  PROVE  KeptBody'
<1>. USE Places
<1>1. it = 8 /\ req = "Update" /\ phase = "process"
  <2>1. Step = "CopyBackup" /\ phase = "process"
    BY DEF CopyBackup, CopyBackupEntry, CopyBackupNewContent, Process
  <2>. QED  BY <2>1, Positions DEF TypeInv, RunnerOK
<1>2. stable # None
  BY <1>1, UpdateReplaces
<1>3. "manifest" \in CodeLike /\ \A e \in CodeLike : e \in Entries /\ e \in Nodes
  BY DEF CodeLike, Entries, Nodes
<1>4. CASE CopyBackup
  <2>. DEFINE b == IF Exists(device.bck) THEN device.bck ELSE EmptyDir
              d == [device EXCEPT !.bck = b]
              todo == {e \in Entries : Has(device.pkg, e)}
              c == [ctx EXCEPT !.todo = todo]
  <2>1. part = "start" /\ ~Looping
    BY <1>4 DEF CopyBackup, Process, Looping
  <2>2. IF Exists(device.bck) THEN Whole(device.bck, stable) ELSE Whole(device.pkg, stable)
    BY <1>1, <1>2, <2>1 DEF KeptBody, OldOK, Committed
  <2>3. /\ d.bck = b /\ \A f \in {"pkg", "tmp", "xml", "xmlBck", "db", "rec"} : d[f] = device[f]
        /\ c.todo = todo /\ \A f \in {"man", "old", "file"} : c[f] = ctx[f]
    BY DEF Devices, Contexts
  <2>4. \/ FailsHere("CopyBackup")
        \/ ~Exists(device.pkg) /\ Failed(d, ctx)
        \/ GoOn("backup", d, c)
    BY <1>4 DEF CopyBackup
  <2>. HIDE DEF d, c
  <2>5. CASE ~Exists(device.pkg) /\ Failed(d, ctx)
    <3>1. Exists(device.bck)
      BY <1>3, <2>2, <2>5 DEF KeptBody, ContentOK, Whole
    <3>2. Near(d, ctx)
      BY <2>3, <3>1 DEF Near, Alike
    <3>. QED  BY <1>1, <2>1, <2>5, <3>2, KeptFails
  <2>6. CASE GoOn("backup", d, c)
    <3>1. /\ device' = d /\ ctx' = c /\ phase' = phase /\ it' = it /\ req' = req
          /\ stable' = stable /\ part' = "backup"
      BY <2>6 DEF GoOn, Leave, envVars, runnerVars
    <3>2. Exists(b)
      BY EmptyTrees
    <3>3. FileOK' /\ KindOK' /\ RowOK' /\ ManifestsOK' /\ NothingOK' /\ ContentOK' /\ BackupOK'
      BY <1>1, <1>2, <2>3, <3>1, <3>2 DEF KeptBody, FileOK, KindOK, RowOK, ManifestsOK, NothingOK, ContentOK, BackupOK, NewVersion
    <3>4. Whole(b, stable) \/ (~Exists(device.bck) /\ Whole(device.pkg, stable))
      BY <2>2
    <3>5. \A e \in Entries : EmptyDir[e] = {}
      BY StateAssumption DEF EmptyDir, Missing, Nodes, Entries, CodeLike, StorageKeys
    <3>6. ~Exists(device.bck) /\ Whole(device.pkg, stable) =>
            /\ \A e \in CodeLike : e \in todo /\ device.pkg[e] = {<<"self", stable>>}
            /\ \A e \in todo : ~Has(b, e)
      BY <1>3, <3>5 DEF Whole, Has
    <3>7. OldOK'
      <4>. HIDE DEF b, todo
      <4>1. Looping' /\ ~Committed' /\ stable' # None
        BY <1>1, <1>2, <3>1 DEF Looping, Committed
      <4>2. Whole(device'.bck, stable') \/ Halfway'
        BY <2>3, <3>1, <3>4, <3>6 DEF Halfway
      <4>. QED  BY <4>1, <4>2 DEF OldOK
    <3>. QED  BY <3>3, <3>7 DEF KeptBody
  <2>. QED  BY <1>1, <2>1, <2>4, <2>5, <2>6, KeptFailsHere
<1>5. CASE CopyBackupEntry
  <2>1. part = "backup" /\ Looping /\ ~Committed
    BY <1>1, <1>5 DEF CopyBackupEntry, Process, Looping, Committed
  <2>2. /\ Whole(device.bck, stable) \/ Halfway
        /\ \A e \in Entries : Has(device.pkg, e) => e \in ctx.todo
        /\ Exists(device.bck)
    BY <1>1, <1>2, <2>1 DEF KeptBody, OldOK, BackupOK
  <2>3. CASE ctx.todo = {} /\ GoOn("content", device, ctx)
    <3>1. /\ device' = device /\ ctx' = ctx /\ phase' = phase /\ it' = it /\ req' = req
          /\ stable' = stable /\ part' = "content"
      BY <2>3 DEF GoOn, Leave, envVars, runnerVars
    <3>2. Whole(device.bck, stable) /\ IsEmpty(device.pkg)
      BY <2>2, <2>3 DEF Halfway, Whole, IsEmpty
    <3>. QED  BY <1>1, <1>2, <2>2, <3>1, <3>2 DEF KeptBody, FileOK, KindOK, RowOK, ManifestsOK, NothingOK, ContentOK, BackupOK, OldOK, Looping, Committed, NewVersion, Whole
  <2>4. ASSUME NEW e \in ctx.todo, Has(device.bck, e), Failed(device, ctx)
        PROVE  KeptBody'
    <3>1. Whole(device.bck, stable)
      BY <2>2, <2>4 DEF Halfway
    <3>. QED  BY <1>1, <2>4, <3>1, NearItself, KeptFails
  <2>5. ASSUME NEW e \in ctx.todo, ~Has(device.bck, e),
               GoOn("backup", [device EXCEPT !.bck = Put(@, e, device.pkg[e]), !.pkg = Drop(@, e)],
                    [ctx EXCEPT !.todo = @ \ {e}])
        PROVE  KeptBody'
    <3>. DEFINE b == Put(device.bck, e, device.pkg[e])
                t == Drop(device.pkg, e)
                d == [device EXCEPT !.bck = b, !.pkg = t]
                c == [ctx EXCEPT !.todo = ctx.todo \ {e}]
    <3>1. GoOn("backup", d, c)
      BY <2>5 DEF Devices, Contexts
    <3>2. /\ device' = d /\ ctx' = c /\ phase' = phase /\ it' = it /\ req' = req
          /\ stable' = stable /\ part' = "backup"
      BY <3>1 DEF GoOn, Leave, envVars, runnerVars
    <3>3. /\ d.bck = b /\ d.pkg = t /\ \A f \in {"tmp", "xml", "xmlBck", "db", "rec"} : d[f] = device[f]
          /\ c.todo = ctx.todo \ {e} /\ \A f \in {"man", "old", "file"} : c[f] = ctx[f]
      BY DEF Devices, Contexts
    <3>4. e \in Entries /\ TreeOK(device.bck) /\ TreeOK(device.pkg)
      BY <1>1, <2>1, Positions DEF TypeInv, RunnerOK, LoopsOK, Loops, TreesOK
    <3>5. /\ b[e] = device.pkg[e] /\ t[e] = {} /\ \A n \in Entries \ {e} : b[n] = device.bck[n] /\ t[n] = device.pkg[n]
          /\ (Exists(b) <=> Exists(device.bck)) /\ (Exists(t) <=> Exists(device.pkg))
      <4>1. e \in Nodes /\ e # "." /\ \A n \in Entries : n \in Nodes
        BY <3>4, StateAssumption DEF Nodes, Entries, CodeLike, StorageKeys
      <4>2. \A n \in Nodes \ {e} : b[n] = device.bck[n] /\ t[n] = device.pkg[n]
        BY <3>4, <4>1 DEF TreeOK, Trees, Put, Drop
      <4>3. b[e] = device.pkg[e] /\ t[e] = {}
        BY <3>4, <4>1 DEF TreeOK, Trees, Put, Drop
      <4>. QED  BY <3>4, <4>1, <4>2, <4>3, PutEntry, DropEntry
    <3>. HIDE DEF b, t, d, c
    <3>6. Whole(b, stable) \/
            /\ \A n \in CodeLike : \/ b[n] = {<<"self", stable>>}
                                   \/ n \in c.todo /\ t[n] = {<<"self", stable>>}
            /\ \A n \in c.todo : ~Has(b, n)
      <4>1. CASE Whole(device.bck, stable)
        <5>1. e \notin CodeLike
          BY <2>5, <4>1 DEF Whole, Has
        <5>. QED  BY <1>3, <3>5, <4>1, <5>1 DEF Whole
      <4>2. CASE Halfway
        <5>1. e \in CodeLike => device.pkg[e] = {<<"self", stable>>}
          BY <2>5, <4>2 DEF Halfway, Has
        <5>2. \A n \in ctx.todo : n \in Entries
          BY <1>1, <2>1, Positions DEF TypeInv, RunnerOK, LoopsOK, Loops
        <5>3. \A n \in c.todo : ~Has(b, n)
          BY <3>3, <3>5, <4>2, <5>2 DEF Halfway, Has
        <5>4. \A n \in CodeLike : b[n] = {<<"self", stable>>} \/ (n \in c.todo /\ t[n] = {<<"self", stable>>})
          BY <1>3, <3>3, <3>5, <4>2, <5>1 DEF Halfway
        <5>. QED  BY <5>3, <5>4
      <4>. QED  BY <2>2, <4>1, <4>2
    <3>7. FileOK' /\ KindOK' /\ RowOK' /\ ManifestsOK' /\ NothingOK'
      BY <1>1, <1>2, <3>2, <3>3 DEF KeptBody, FileOK, KindOK, RowOK, ManifestsOK, NothingOK
    <3>8. ContentOK'
      <4>1. \A n \in CodeLike : device.pkg[n] = {} => t[n] = {}
        BY <1>3, <3>5
      <4>. QED  BY <1>1, <3>2, <3>3, <3>5, <4>1 DEF KeptBody, ContentOK, NewVersion
    <3>9. BackupOK'
      <4>1. \A n \in Entries : Has(t, n) => n \in c.todo
        BY <2>2, <3>3, <3>5 DEF Has
      <4>. QED  BY <1>1, <2>2, <3>2, <3>3, <3>5, <4>1 DEF BackupOK
    <3>10. OldOK'
      <4>1. Looping' /\ ~Committed' /\ stable' # None
        BY <1>1, <1>2, <3>2 DEF Looping, Committed
      <4>2. Whole(device'.bck, stable') \/ Halfway'
        BY <3>2, <3>3, <3>6 DEF Halfway
      <4>. QED  BY <4>1, <4>2 DEF OldOK
    <3>. QED  BY <3>7, <3>8, <3>9, <3>10 DEF KeptBody
  <2>6. ~Fault("fail", "Backup")
    BY KeptBefore DEF Harmless
  <2>. QED  BY <1>5, <2>3, <2>4, <2>5, <2>6 DEF CopyBackupEntry, FailsHere
<1>6. CASE CopyBackupNewContent
  <2>1. part = "content" /\ ~Looping
    BY <1>6 DEF CopyBackupNewContent, Process, Looping
  <2>2. IsEmpty(device.pkg) /\ Exists(device.bck) /\ device.tmp = Shipped(NewVersion)
    BY <1>1, <2>1 DEF KeptBody, BackupOK, ContentOK
  <2>3. Whole(device.bck, stable)
    BY <1>1, <1>2, <2>1, <2>2 DEF KeptBody, OldOK, Committed
  <2>. DEFINE t == MoveTree(device.tmp, device.pkg)
              d == [device EXCEPT !.pkg = t, !.tmp = Missing]
  <2>4. Done(d, ctx) \/ FailsHere("NewContent")
    BY <1>6 DEF CopyBackupNewContent
  <2>5. d.pkg = t /\ \A f \in {"bck", "xml", "xmlBck", "db", "rec"} : d[f] = device[f]
    BY DEF Devices
  <2>6. Whole(t, NewVersion) /\ Exists(t)
    <3>1. NewVersion \in Versions
      BY <1>1, StateAssumption DEF TypeInv, RoomOK, Versions, NewVersion
    <3>. QED  BY <2>2, <3>1, ShippedTree DEF MoveTree, Whole
  <2>. HIDE DEF t, d
  <2>7. CASE Done(d, ctx)
    <3>1. /\ device' = d /\ ctx' = ctx /\ req' = req /\ stable' = stable /\ part' = "start"
          /\ phase' = "process" /\ it' = 9
      BY <1>1, <2>7 DEF Done, Leave, envVars, StepOk
    <3>2. FileOK' /\ KindOK' /\ RowOK' /\ ManifestsOK' /\ NothingOK'
      BY <1>1, <1>2, <2>5, <3>1 DEF KeptBody, FileOK, KindOK, RowOK, ManifestsOK, NothingOK
    <3>3. ContentOK' /\ BackupOK' /\ OldOK'
      BY <1>1, <1>2, <2>2, <2>3, <2>5, <2>6, <3>1 DEF ContentOK, BackupOK, OldOK, Looping, Committed, Whole, NewVersion
    <3>. QED  BY <3>2, <3>3 DEF KeptBody
  <2>. QED  BY <1>1, <2>1, <2>4, <2>7, KeptFailsHere
<1>. QED  BY <1>4, <1>5, <1>6

\* What undo() and clean() do to the directories, once a version is replaced.
LEMMA KeptBackupUndone ==
  ASSUME TypeInv, KeptBody, phase = "undo", req = "Update", it = 8, NEW d, NEW ok, Undone(ok, d),
         \A f \in {"xml", "xmlBck", "db", "rec"} : d[f] = device[f],
         ~Exists(d.pkg) => \A e \in CodeLike : d.pkg[e] = {},
         IF Exists(d.bck) THEN Whole(d.bck, stable) ELSE Whole(d.pkg, stable)
  PROVE  KeptBody'
<1>. USE Places
<1>1. /\ device' = d /\ req' = req /\ stable' = stable /\ part' = "start"
      /\ ctx'.file = ctx.file /\ ctx'.man = ctx.man /\ ctx'.old = ctx.old
      /\ phase' = "undo" /\ it' = 7
  BY DEF Undone, Leave, envVars, StepUndone, Contexts
<1>2. stable # None
  BY UpdateReplaces
<1>. USE DEF KeptBody
<1>3. FileOK' /\ KindOK' /\ RowOK' /\ ManifestsOK' /\ NothingOK'
  BY <1>1, <1>2 DEF FileOK, KindOK, RowOK, ManifestsOK, NothingOK
<1>4. ContentOK' /\ BackupOK' /\ OldOK'
  BY <1>1, <1>2 DEF ContentOK, BackupOK, OldOK, Looping, Committed, Whole
<1>. QED  BY <1>3, <1>4

LEMMA KeptBackupUndo ==
  ASSUME TypeInv, KeptBody, Kept', CopyBackupUndo \/ CopyBackupRestore
  PROVE  KeptBody'
<1>. USE Places
<1>1. it = 8 /\ req = "Update" /\ phase = "undo" /\ ~Looping /\ ~Committed
  <2>1. Step = "CopyBackup" /\ phase = "undo"
    BY DEF CopyBackupUndo, CopyBackupRestore, Undo
  <2>. QED  BY <2>1, Positions DEF TypeInv, RunnerOK, Looping, Committed
<1>2. stable # None
  BY <1>1, UpdateReplaces
<1>3. IF Exists(device.bck) THEN Whole(device.bck, stable) ELSE Whole(device.pkg, stable)
  BY <1>1, <1>2 DEF KeptBody, OldOK
<1>4. ~Exists(device.pkg) => \A e \in CodeLike : device.pkg[e] = {}
  BY DEF KeptBody, ContentOK
<1>5. TreeOK(device.pkg) /\ \A e \in CodeLike : Missing[e] = {}
  BY DEF TypeInv, TreesOK, Missing, Nodes, Entries
<1>. DEFINE Tmp == [device EXCEPT !.tmp = Missing]
            Gone1 == [Tmp EXCEPT !.pkg = Missing]
            Cut(t) == [Tmp EXCEPT !.pkg = t]
            Back == [device EXCEPT !.pkg = device.bck, !.bck = Missing]
<1>6. /\ \A f \in {"pkg", "bck", "xml", "xmlBck", "db", "rec"} : Tmp[f] = device[f]
      /\ Gone1.pkg = Missing /\ \A f \in {"bck", "xml", "xmlBck", "db", "rec"} : Gone1[f] = device[f]
      /\ \A t : Cut(t).pkg = t /\ \A f \in {"bck", "xml", "xmlBck", "db", "rec"} : Cut(t)[f] = device[f]
      /\ Back.pkg = device.bck /\ Back.bck = Missing /\ \A f \in {"xml", "xmlBck", "db", "rec"} : Back[f] = device[f]
  BY DEF Devices
<1>7. CASE CopyBackupUndo
  <2>1. \/ Undone(TRUE, Tmp)
        \/ Exists(device.bck) /\ GoOn("restore", Gone1, ctx)
        \/ \E t \in RemoveCut(device.pkg) : Exists(device.bck) /\ Undone(FALSE, Cut(t))
    BY <1>7, Zenon DEF CopyBackupUndo
  <2>. HIDE DEF Tmp, Gone1, Cut, Back
  <2>2. CASE Undone(TRUE, Tmp)
    <3>1. Near(Tmp, ctx) /\ req # "Recovery" /\ req # "Install"
      BY <1>1, <1>6, NearWithout
    <3>. QED  BY <1>1, <2>2, <3>1, KeptUndone, Zenon
  <2>3. CASE Exists(device.bck) /\ GoOn("restore", Gone1, ctx)
    <3>1. /\ device' = Gone1 /\ ctx' = ctx /\ phase' = phase /\ it' = it /\ req' = req
          /\ stable' = stable /\ part' = "restore"
      BY <2>3 DEF GoOn, Leave, envVars, runnerVars
    <3>2. FileOK' /\ KindOK' /\ RowOK' /\ ManifestsOK' /\ NothingOK'
      BY <1>1, <1>2, <1>6, <3>1 DEF KeptBody, FileOK, KindOK, RowOK, ManifestsOK, NothingOK
    <3>3. ContentOK' /\ BackupOK' /\ OldOK'
      BY <1>1, <1>2, <1>3, <1>5, <1>6, <2>3, <3>1 DEF ContentOK, BackupOK, OldOK, Looping, Committed
    <3>. QED  BY <3>2, <3>3 DEF KeptBody
  <2>4. ASSUME NEW t \in RemoveCut(device.pkg), Exists(device.bck), Undone(FALSE, Cut(t))
        PROVE  KeptBody'
    <3>1. (Exists(t) <=> Exists(device.pkg)) /\ \A e \in CodeLike : t[e] \subseteq device.pkg[e]
      BY <1>5, CutSmaller
    <3>2. ~Exists(t) => \A e \in CodeLike : t[e] = {}
      BY <1>4, <3>1
    <3>3. PICK ok \in BOOLEAN : Undone(ok, Cut(t))
      BY <2>4
    <3>. QED  BY <1>1, <1>3, <1>6, <2>4, <3>2, <3>3, KeptBackupUndone
  <2>. QED  BY <2>1, <2>2, <2>3, <2>4
<1>8. CASE CopyBackupRestore
  <2>1. part = "restore" /\ (Undone(TRUE, Back) \/ Undone(FALSE, device))
    BY <1>8, Zenon DEF CopyBackupRestore, Undo
  <2>2. Exists(device.bck)
    BY <1>1, <2>1 DEF KeptBody, BackupOK
  <2>. HIDE DEF Tmp, Gone1, Cut, Back
  <2>3. CASE Undone(TRUE, Back)
    <3>1. PICK ok \in BOOLEAN : Undone(ok, Back)
      BY <2>3
    <3>2. ~Exists(Back.bck) /\ Exists(Back.pkg) /\ Whole(Back.pkg, stable)
      BY <1>3, <1>6, <2>2, EmptyTrees
    <3>. QED  BY <1>1, <1>6, <3>1, <3>2, KeptBackupUndone
  <2>4. CASE Undone(FALSE, device)
    <3>1. req # "Recovery" /\ req # "Install"
      BY <1>1
    <3>. QED  BY <1>1, <2>4, <3>1, NearItself, KeptUndone, Zenon
  <2>. QED  BY <2>1, <2>3, <2>4
<1>. QED  BY <1>7, <1>8

LEMMA KeptBackupClean ==
  ASSUME TypeInv, KeptBody, Kept', CopyBackupClean
  PROVE  KeptBody'
<1>. USE Places
<1>. DEFINE d == [device EXCEPT !.bck = Missing]
<1>1. it = 8 /\ req = "Update" /\ phase = "clean" /\ ~Looping /\ Committed
  BY Positions DEF CopyBackupClean, Clean, TypeInv, RunnerOK, Looping, Committed
<1>2. Cleaned(d, ctx)
  BY KeptBefore DEF CopyBackupClean, Harmless
<1>3. d.bck = Missing /\ ~Exists(d.bck) /\ \A f \in {"pkg", "xml", "xmlBck", "db", "rec"} : d[f] = device[f]
  BY EmptyTrees DEF Devices
<1>4. /\ device' = d /\ ctx' = ctx /\ req' = req /\ stable' = stable /\ part' = "start"
      /\ phase' = "clean" /\ it' = 9
  BY <1>1, <1>2 DEF Cleaned, Leave, envVars, StepCleaned
<1>. HIDE DEF d
<1>. USE DEF KeptBody
<1>5. FileOK' /\ KindOK' /\ RowOK' /\ ManifestsOK' /\ NothingOK'
  BY <1>1, <1>3, <1>4 DEF FileOK, KindOK, RowOK, ManifestsOK, NothingOK
<1>6. ContentOK' /\ BackupOK' /\ OldOK'
  BY <1>1, <1>3, <1>4 DEF ContentOK, BackupOK, OldOK, Looping, Committed, Whole
<1>. QED  BY <1>5, <1>6

\* The storage moves between two directories that exist.
LEMMA KeptStorage ==
  ASSUME TypeInv, KeptBody,
         \/ CopyStorageDirectories \/ CopyStorageCache
         \/ \E key \in StorageKeys : CopyStorageMove(key) \/ CopyStorageRemove(key) \/ CopyStorageUndo(key)
  PROVE  KeptBody'
<1>. USE Places
<1>1. it = 9 /\ req = "Update" /\ phase \in {"process", "undo"} /\ ~Looping
  <2>1. Step = "CopyStorageDirectories" /\ phase \in {"process", "undo"}
    BY DEF CopyStorageDirectories, CopyStorageCache, CopyStorageMove, CopyStorageRemove, CopyStorageUndo, Process, Undo
  <2>. QED  BY <2>1, Positions DEF TypeInv, RunnerOK, Looping
<1>. DEFINE Pkg(t) == [device EXCEPT !.pkg = t]
            Bck(t) == [device EXCEPT !.bck = t]
            Both(t, u) == [device EXCEPT !.pkg = t, !.bck = u]
<1>2. TreeOK(device.pkg) /\ TreeOK(device.bck) /\ Exists(device.bck)
  BY <1>1 DEF TypeInv, TreesOK, KeptBody, BackupOK
<1>3. /\ \A t : Alike(t, device.pkg) => Near(Pkg(t), ctx) /\ Pkg(t).tmp = device.tmp
      /\ \A t : Alike(t, device.bck) => Near(Bck(t), ctx) /\ Bck(t).tmp = device.tmp
      /\ \A t, u : Alike(t, device.pkg) /\ Alike(u, device.bck) => Near(Both(t, u), ctx) /\ Both(t, u).tmp = device.tmp
  BY DEF Near, Alike, Devices
<1>4. ASSUME NEW d, NEW c, Near(d, ctx), d.tmp = device.tmp, \A f \in {"man", "old", "file"} : c[f] = ctx[f]
      PROVE  /\ phase = "process" /\ (Done(d, ctx) \/ Failed(d, ctx)) => KeptBody'
             /\ \A p : GoOn(p, d, c) => KeptBody'
             /\ \A ok : phase = "undo" /\ Undone(ok, d) => KeptBody'
  <2>1. Near(d, c)
    BY <1>4 DEF Near
  <2>. QED  BY <1>1, <1>4, <2>1, KeptDone, KeptFails, KeptGoesOn, KeptUndone
<1>5. CASE CopyStorageDirectories \/ CopyStorageCache
  <2>1. /\ phase = "process"
        /\ Done(device, ctx) \/ Failed(device, ctx) \/ GoOn("data", device, ctx)
    BY <1>5 DEF CopyStorageDirectories, CopyStorageCache, Process, FailsHere
  <2>. QED  BY <1>4, <2>1, NearItself
<1>6. ASSUME NEW key \in StorageKeys, CopyStorageMove(key)
      PROVE  KeptBody'
  <2>1. phase = "process"
    BY <1>6 DEF CopyStorageMove, Process
  <2>2. \/ Failed(device, ctx)
        \/ \E p, f : GoOn(p, [device EXCEPT !.pkg = Put(@, key, f), !.bck = Drop(@, key)], ctx)
        \/ \E p, f : GoOn(p, [device EXCEPT !.pkg = Put(@, key, f)], ctx)
        \/ \E f : Failed([device EXCEPT !.pkg = Put(@, key, f)], ctx)
    BY <1>6, Zenon DEF CopyStorageMove, FailsHere
  <2>3. \A f : /\ [device EXCEPT !.pkg = Put(@, key, f), !.bck = Drop(@, key)] = Both(Put(device.pkg, key, f), Drop(device.bck, key))
               /\ [device EXCEPT !.pkg = Put(@, key, f)] = Pkg(Put(device.pkg, key, f))
    BY DEF Devices
  <2>4. \A f : Alike(Put(device.pkg, key, f), device.pkg) /\ Alike(Drop(device.bck, key), device.bck)
    BY <1>2, StorageAlike
  <2>. HIDE DEF Pkg, Bck, Both
  <2>5. CASE Failed(device, ctx)
    BY <1>4, <2>1, <2>5, NearItself
  <2>6. ASSUME NEW p, NEW f, GoOn(p, [device EXCEPT !.pkg = Put(@, key, f), !.bck = Drop(@, key)], ctx)
        PROVE  KeptBody'
    <3>. DEFINE d == Both(Put(device.pkg, key, f), Drop(device.bck, key))
    <3>1. GoOn(p, d, ctx)
      BY <2>3, <2>6
    <3>2. Near(d, ctx) /\ d.tmp = device.tmp
      BY <1>3, <2>4
    <3>. HIDE DEF d
    <3>. QED  BY <1>4, <3>1, <3>2
  <2>7. ASSUME NEW f, Failed([device EXCEPT !.pkg = Put(@, key, f)], ctx)
                      \/ \E p : GoOn(p, [device EXCEPT !.pkg = Put(@, key, f)], ctx)
        PROVE  KeptBody'
    <3>. DEFINE d == Pkg(Put(device.pkg, key, f))
    <3>1. Failed(d, ctx) \/ \E p : GoOn(p, d, ctx)
      BY <2>3, <2>7
    <3>2. Near(d, ctx) /\ d.tmp = device.tmp
      BY <1>3, <2>4
    <3>. HIDE DEF d
    <3>. QED  BY <1>4, <2>1, <3>1, <3>2
  <2>. QED  BY <2>2, <2>5, <2>6, <2>7
<1>7. ASSUME NEW key \in StorageKeys, CopyStorageRemove(key)
      PROVE  KeptBody'
  <2>1. phase = "process"
    BY <1>7 DEF CopyStorageRemove, Process
  <2>2. \/ \E p : GoOn(p, [device EXCEPT !.bck = Drop(@, key)], ctx)
        \/ \E f : Failed([device EXCEPT !.bck = Put(@, key, f)], ctx)
    BY <1>7, Zenon DEF CopyStorageRemove
  <2>3. /\ [device EXCEPT !.bck = Drop(@, key)] = Bck(Drop(device.bck, key))
        /\ \A f : [device EXCEPT !.bck = Put(@, key, f)] = Bck(Put(device.bck, key, f))
    BY DEF Devices
  <2>4. \A f : Alike(Put(device.bck, key, f), device.bck) /\ Alike(Drop(device.bck, key), device.bck)
    BY <1>2, StorageAlike
  <2>. HIDE DEF Pkg, Bck, Both
  <2>5. ASSUME NEW t, Alike(t, device.bck), Failed(Bck(t), ctx) \/ \E p : GoOn(p, Bck(t), ctx)
        PROVE  KeptBody'
    <3>1. Near(Bck(t), ctx) /\ Bck(t).tmp = device.tmp
      BY <1>3, <2>5
    <3>. QED  BY <1>4, <2>1, <2>5, <3>1
  <2>6. CASE \E p : GoOn(p, [device EXCEPT !.bck = Drop(@, key)], ctx)
    BY <2>3, <2>4, <2>5, <2>6
  <2>7. CASE \E f : Failed([device EXCEPT !.bck = Put(@, key, f)], ctx)
    BY <2>3, <2>4, <2>5, <2>7
  <2>. QED  BY <2>2, <2>6, <2>7
<1>8. ASSUME NEW key \in StorageKeys, CopyStorageUndo(key)
      PROVE  KeptBody'
  <2>. DEFINE u == Put(Put(device.bck, ".", {Dot}), key, device.pkg[key])
              t == Drop(device.pkg, key)
              Ok(ok) == [ctx EXCEPT !.ok = ok]
  <2>1. phase = "undo" /\ \E ok \in BOOLEAN : \E d \in {device, Both(t, u)} :
                            GoOn("shared", d, Ok(ok)) \/ (\E b \in BOOLEAN : Undone(b, d))
    <3>1. [device EXCEPT !.bck = Put(Put(@, ".", {Dot}), key, device.pkg[key]),
                         !.pkg = Drop(@, key)] = Both(t, u)
      BY DEF Devices
    <3>2. ctx.ok \in BOOLEAN
      BY DEF Contexts
    <3>3. phase = "undo"
      BY <1>8 DEF CopyStorageUndo, Undo
    <3>. QED  BY <1>8, <3>1, <3>2, <3>3 DEF CopyStorageUndo
  <2>2. Alike(u, device.bck)
    <3>1. \A n \in Nodes \ {".", key} : u[n] = device.bck[n]
      BY <1>2 DEF Put, TreeOK, Trees
    <3>2. u["."] # {} /\ key \notin CodeLike /\ CodeLike \subseteq Nodes /\ "." \notin CodeLike
      BY <1>2, StateAssumption DEF Put, TreeOK, Trees, Nodes, Entries, StorageKeys, CodeLike
    <3>. QED  BY <1>2, <3>1, <3>2 DEF Alike, Exists
  <2>3. Alike(t, device.pkg)
    BY <1>2, StorageAlike
  <2>4. \A ok : \A f \in {"man", "old", "file"} : Ok(ok)[f] = ctx[f]
    BY DEF Contexts
  <2>. HIDE DEF Pkg, Bck, Both, t, u, Ok
  <2>5. \A d \in {device, Both(t, u)} : Near(d, ctx) /\ d.tmp = device.tmp
    BY <1>3, <2>2, <2>3, NearItself
  <2>6. PICK ok \in BOOLEAN, d \in {device, Both(t, u)} :
               GoOn("shared", d, Ok(ok)) \/ (\E b \in BOOLEAN : Undone(b, d))
    BY <2>1
  <2>. QED  BY <1>4, <2>1, <2>4, <2>5, <2>6
<1>. QED  BY <1>5, <1>6, <1>7, <1>8

LEMMA KeptUpdateApplication ==
  ASSUME TypeInv, KeptBody,
         \/ UpdateApplication \/ UpdateApplicationCerts
         \/ UpdateApplicationUndo \/ UpdateApplicationUndoCerts
  PROVE  KeptBody'
<1>. USE Places
<1>1. it = 12 /\ req = "Update" /\ phase \in {"process", "undo"} /\ ~Looping
  <2>1. Step = "UpdateApplication" /\ phase \in {"process", "undo"}
    BY DEF UpdateApplication, UpdateApplicationCerts, UpdateApplicationUndo, UpdateApplicationUndoCerts, Process, Undo
  <2>. QED  BY <2>1, Positions DEF TypeInv, RunnerOK, Looping
<1>. DEFINE Row(v) == [device EXCEPT !.db = v, !.cert = FALSE]
            Cert(v) == [device EXCEPT !.cert = v]
            Keep == [ctx EXCEPT !.cert = device.cert]
<1>2. /\ \A v : Row(v).db = v /\ \A f \in {"pkg", "bck", "tmp", "xml", "xmlBck", "rec"} : Row(v)[f] = device[f]
      /\ \A v : \A f \in {"pkg", "bck", "tmp", "xml", "xmlBck", "db", "rec"} : Cert(v)[f] = device[f]
      /\ \A f \in {"man", "old", "file"} : Keep[f] = ctx[f]
  BY DEF Devices, Contexts
<1>3. CASE UpdateApplication \/ UpdateApplicationCerts
  <2>1. phase = "process" /\ ctx.man # None
    BY <1>1, <1>3 DEF UpdateApplication, UpdateApplicationCerts, Process, KeptBody, ManifestsOK
  <2>2. \/ GoOn("certs", Row(ctx.man), ctx) \/ (\E v : Done(Cert(v), ctx)) \/ Failed(device, ctx)
    BY <1>3, Zenon DEF UpdateApplication, UpdateApplicationCerts, FailsHere
  <2>. HIDE DEF Row, Cert, Keep
  <2>3. Near(Row(ctx.man), ctx)
    BY <1>2, <2>1 DEF Near, Alike
  <2>4. CASE GoOn("certs", Row(ctx.man), ctx)
    BY <1>1, <1>2, <2>1, <2>3, <2>4, KeptGoesOn
  <2>5. ASSUME NEW v, Done(Cert(v), ctx)
        PROVE  KeptBody'
    <3>1. Near(Cert(v), ctx) /\ Cert(v).tmp = device.tmp
      BY <1>2, NearWithout
    <3>. QED  BY <1>1, <2>1, <2>5, <3>1, KeptDone
  <2>6. CASE Failed(device, ctx)
    BY <1>1, <2>1, <2>6, NearItself, KeptFails
  <2>. QED  BY <2>2, <2>4, <2>5, <2>6
<1>4. CASE UpdateApplicationUndo \/ UpdateApplicationUndoCerts
  <2>1. phase = "undo" /\ ctx.old # None
    <3>1. phase = "undo"
      BY <1>4 DEF UpdateApplicationUndo, UpdateApplicationUndoCerts, Undo
    <3>. QED  BY <1>1, <3>1 DEF KeptBody, ManifestsOK
  <2>2. \/ GoOn("certs", Row(ctx.old), Keep)
        \/ \E v : Undone(TRUE, Cert(v)) \/ Undone(FALSE, device)
    BY <1>4, Zenon DEF UpdateApplicationUndo, UpdateApplicationUndoCerts
  <2>. HIDE DEF Row, Cert, Keep
  <2>3. Near(Row(ctx.old), Keep)
    BY <1>2, <2>1 DEF Near, Alike
  <2>4. CASE GoOn("certs", Row(ctx.old), Keep)
    BY <1>1, <1>2, <2>1, <2>3, <2>4, KeptGoesOn
  <2>5. (\A v : Near(Cert(v), ctx)) /\ req # "Recovery" /\ req # "Install"
    BY <1>1, <1>2, NearWithout
  <2>. QED  BY <2>1, <2>2, <2>4, <2>5, NearItself, KeptUndone, Zenon
<1>. QED  BY <1>3, <1>4

LEMMA KeptUpdateSecurity ==
  ASSUME TypeInv, KeptBody, UpdateSecurity \/ UpdateSecurityUndo
  PROVE  KeptBody'
<1>. USE Places
<1>1. it = 13 /\ req = "Update" /\ ~Looping
  <2>1. Step = "UpdateSecurity"
    BY DEF UpdateSecurity, UpdateSecurityUndo, Process, Undo
  <2>. QED  BY <2>1, Positions DEF TypeInv, RunnerOK, Looping
<1>. DEFINE Sec(s) == [device EXCEPT !.sec = s]
<1>2. \A s : Sec(s).tmp = device.tmp /\ Near(Sec(s), ctx)
  BY NearWithout DEF Devices
<1>3. \/ phase = "process" /\ \E s : Done(Sec(s), ctx) \/ Failed(Sec(s), ctx)
      \/ phase = "undo" /\ \E s : Undone(TRUE, Sec(s)) \/ Undone(FALSE, Sec(s))
  BY Zenon DEF UpdateSecurity, UpdateSecurityUndo, Process, Undo
<1>. HIDE DEF Sec
<1>4. CASE phase = "process" /\ \E s : Done(Sec(s), ctx) \/ Failed(Sec(s), ctx)
  BY <1>1, <1>2, <1>4, KeptDone, KeptFails
<1>5. req # "Recovery" /\ req # "Install"
  BY <1>1
<1>. QED  BY <1>2, <1>3, <1>4, <1>5, KeptUndone, Zenon

LEMMA KeptUpdate ==
  ASSUME TypeInv, KeptBody, Kept', UpdateStep
  PROVE  KeptBody'
BY KeptSmallUpdates, KeptBackupIcons, KeptBackup, KeptBackupUndo, KeptBackupClean, KeptStorage,
   KeptUpdateApplication, KeptUpdateSecurity
   DEF UpdateStep

-------------------------------------------------------------------------------
(* ... through the steps of a recovery *)

LEMMA KeptOpenRecovery ==
  ASSUME TypeInv, KeptBody, OpenRecoveryFile \/ OpenRecoveryFileUndo
  PROVE  KeptBody'
<1>. USE Places
<1>1. it = 2 /\ req = "Recovery" /\ ~Looping /\ Last = 10
  <2>1. Step = "OpenRecoveryFile"
    BY DEF OpenRecoveryFile, OpenRecoveryFileUndo, Process, Undo
  <2>. QED  BY <2>1, Positions DEF TypeInv, RunnerOK, Looping
<1>. USE DEF KeptBody
<1>2. CASE OpenRecoveryFile
  <2>. DEFINE c == [ctx EXCEPT !.file = device.rec, !.unpacked = device.rec.dir,
                               !.pkgid = device.rec.pkgid]
  <2>1. c.file = device.rec /\ c.man = ctx.man /\ c.old = ctx.old
    BY DEF Contexts
  <2>2. /\ phase = "process"
        /\ \/ device.rec.kind \in {"Install", "Update"} /\ Done(device, c)
           \/ FailsHere("OpenRecoveryFile")
    BY <1>2 DEF OpenRecoveryFile, Process
  <2>. HIDE DEF c
  <2>3. CASE device.rec.kind \in {"Install", "Update"} /\ Done(device, c)
    <3>1. /\ device' = device /\ ctx' = c /\ req' = req /\ stable' = stable /\ part' = "start"
          /\ phase' = "process" /\ it' = 3
      BY <1>1, <2>2, <2>3 DEF Done, Leave, envVars, StepOk
    <3>2. FileOK' /\ KindOK' /\ RowOK' /\ ManifestsOK' /\ NothingOK'
      BY <1>1, <2>1, <2>2, <2>3, <3>1 DEF FileOK, KindOK, RowOK, ManifestsOK, NothingOK
    <3>3. ContentOK' /\ BackupOK' /\ OldOK'
      BY <1>1, <2>2, <3>1 DEF ContentOK, BackupOK, OldOK, Looping, Committed
    <3>. QED  BY <3>2, <3>3
  <2>. QED  BY <1>1, <2>2, <2>3, KeptFailsHere
<1>3. CASE OpenRecoveryFileUndo
  <2>1. ctx'.file = NoRecovery /\ ctx'.man = ctx.man /\ ctx'.old = ctx.old
    BY <1>3 DEF OpenRecoveryFileUndo, Contexts
  <2>2. /\ device' = device /\ req' = req /\ stable' = stable /\ part' = "start"
        /\ phase = "undo" /\ phase' = "undo" /\ it' = 1
    BY <1>1, <1>3 DEF OpenRecoveryFileUndo, Undo, envVars, StepUndone
  <2>3. FileOK' /\ KindOK' /\ RowOK' /\ ManifestsOK' /\ NothingOK'
    BY <1>1, <2>1, <2>2 DEF FileOK, KindOK, RowOK, ManifestsOK, NothingOK, NoRecovery
  <2>4. ContentOK' /\ BackupOK' /\ OldOK'
    BY <1>1, <2>2 DEF ContentOK, BackupOK, OldOK, Looping, Committed
  <2>. QED  BY <2>3, <2>4
<1>. QED  BY <1>2, <1>3

LEMMA KeptParseRecovery ==
  ASSUME TypeInv, KeptBody,
         ParseRecovery \/ \E d \in WriteResults(ctx.file) : ParseRecoveryWrite(d)
  PROVE  KeptBody'
<1>. USE Places
<1>1. it = 3 /\ req = "Recovery" /\ phase = "process" /\ ~Looping
  <2>1. Step = "ParseRecovery" /\ phase = "process"
    BY DEF ParseRecovery, ParseRecoveryWrite, Process
  <2>. QED  BY <2>1, Positions DEF TypeInv, RunnerOK, Looping
<1>2. CASE ParseRecovery
  <2>1. Failed(device, ctx) \/ Done(device, ctx) \/ GoOn("rec", device, ctx)
    BY <1>2 DEF ParseRecovery, FailsHere
  <2>. QED  BY <1>1, <2>1, NearItself, KeptFails, KeptDone, KeptGoesOn
<1>3. ASSUME NEW d \in WriteResults(ctx.file), ParseRecoveryWrite(d)
      PROVE  KeptBody'
  <2>. DEFINE Rec(r) == [device EXCEPT !.rec = r]
              Man(m) == [ctx EXCEPT !.man = m]
  <2>1. \A r \in {ctx.file, TornRecovery, device.rec} :
           /\ \A f \in {"pkg", "bck", "tmp", "xml", "xmlBck", "db"} : Rec(r)[f] = device[f]
           /\ Rec(r).rec.kind \in {device.rec.kind, ctx.file.kind, "torn"}
    BY DEF Devices, TornRecovery, NoRecovery
  <2>2. \E r \in {ctx.file, TornRecovery, device.rec} : d = Rec(r)
    BY <1>3 DEF WriteResults
  <2>3. \A m : Man(m).file = ctx.file /\ Man(m).old = ctx.old
    BY DEF Contexts
  <2>4. Done(d, Man(ManifestFound))
    BY <1>3 DEF ParseRecoveryWrite
  <2>5. ctx.file.kind # "none"
    BY <1>1 DEF KeptBody, FileOK
  <2>. HIDE DEF Rec, Man
  <2>6. Near(d, Man(ManifestFound))
    BY <1>1, <2>1, <2>2, <2>3, <2>5 DEF Near, Alike
  <2>. QED  BY <1>1, <2>4, <2>6, KeptDone
<1>. QED  BY <1>2, <1>3

\* The row of the package goes, but nothing else, until it is back.
LEMMA KeptRow ==
  ASSUME TypeInv, KeptBody, req = "Recovery", phase = "process", it = 4,
         NEW d, \A f \in {"pkg", "bck", "xml", "xmlBck", "rec"} : d[f] = device[f],
         NEW p,
         \/ GoOn(p, d, ctx) /\ (p = "certs" => stable = None \/ d.db # None)
         \/ Done(d, ctx) /\ (stable = None \/ d.db # None)
  PROVE  KeptBody'
<1>. USE Places DEF KeptBody
<1>1. /\ device' = d /\ ctx' = ctx /\ phase' = "process" /\ req' = req /\ stable' = stable
      /\ \/ it' = 4 /\ part' = p /\ (p = "certs" => stable = None \/ d.db # None)
         \/ it' = 5 /\ part' = "start" /\ (stable = None \/ d.db # None)
  BY DEF GoOn, Done, Leave, envVars, runnerVars, StepOk
<1>2. FileOK' /\ KindOK' /\ ManifestsOK' /\ NothingOK'
  BY <1>1 DEF FileOK, KindOK, ManifestsOK, NothingOK
<1>3. RowOK'
  BY <1>1 DEF FileOK, RowOK
<1>4. ContentOK' /\ BackupOK' /\ OldOK'
  BY <1>1 DEF ContentOK, BackupOK, OldOK, Looping, Committed
<1>. QED  BY <1>2, <1>3, <1>4

LEMMA KeptRecoverApplication ==
  ASSUME TypeInv, KeptBody,
         RecoverApplication \/ RecoverApplicationRegister \/ RecoverApplicationCerts
  PROVE  KeptBody'
<1>. USE Places
<1>1. it = 4 /\ req = "Recovery" /\ phase = "process" /\ ~Looping
  <2>1. Step = "RecoverApplication" /\ phase = "process"
    BY DEF RecoverApplication, RecoverApplicationRegister, RecoverApplicationCerts, Process
  <2>. QED  BY <2>1, Positions DEF TypeInv, RunnerOK, Looping
<1>. DEFINE Row(m) == [device EXCEPT !.db = m]
            removed == [device EXCEPT !.db = None, !.cert = FALSE]
            plain == [device EXCEPT !.cert = FALSE]
<1>2. /\ \A m : Row(m).db = m /\ \A f \in {"pkg", "bck", "xml", "xmlBck", "rec"} : Row(m)[f] = device[f]
      /\ \A f \in {"pkg", "bck", "xml", "xmlBck", "rec"} : removed[f] = device[f]
      /\ plain.db = device.db /\ \A f \in {"pkg", "bck", "xml", "xmlBck", "rec"} : plain[f] = device[f]
  BY DEF Devices
<1>3. New => stable = None
  BY DEF New, KeptBody, KindOK
<1>4. CASE RecoverApplication
  <2>1. \E d \in {device, removed} : IF New THEN Done(d, ctx) ELSE GoOn("register", d, ctx)
    BY <1>4 DEF RecoverApplication
  <2>. HIDE DEF Row, removed, plain
  <2>. QED  BY <1>1, <1>2, <1>3, <2>1, KeptRow
<1>5. CASE RecoverApplicationRegister
  <2>1. (ctx.man # None /\ GoOn("certs", Row(ctx.man), ctx)) \/ Failed(device, ctx)
    BY <1>5 DEF RecoverApplicationRegister, FailsHere
  <2>. HIDE DEF Row, removed, plain
  <2>2. CASE Failed(device, ctx)
    BY <1>1, <2>2, NearItself, KeptFails
  <2>. QED  BY <1>1, <1>2, <2>1, <2>2, KeptRow
<1>6. CASE RecoverApplicationCerts
  <2>1. part = "certs" /\ (Done(plain, ctx) \/ Failed(device, ctx))
    BY <1>6 DEF RecoverApplicationCerts, FailsHere, Process
  <2>. HIDE DEF Row, removed, plain
  <2>2. stable = None \/ device.db # None
    BY <1>1, <2>1 DEF KeptBody, RowOK
  <2>3. CASE Failed(device, ctx)
    BY <1>1, <2>3, NearItself, KeptFails
  <2>. QED  BY <1>1, <1>2, <2>1, <2>2, <2>3, KeptRow
<1>. QED  BY <1>4, <1>5, <1>6

LEMMA KeptRecoverIcons ==
  ASSUME TypeInv, KeptBody,
         RemoveTemporaryDirectory \/ RecoverIcons \/ RecoverIconsMove \/ RecoverSecurity
  PROVE  KeptBody'
<1>. USE Places
<1>1. it \in {5, 6, 10} /\ req = "Recovery" /\ phase = "process" /\ ~Looping
  <2>1. Step \in {"RemoveTemporaryDirectory", "RecoverIcons", "RecoverSecurity"} /\ phase = "process"
    BY DEF RemoveTemporaryDirectory, RecoverIcons, RecoverIconsMove, RecoverSecurity, Process
  <2>. QED  BY <2>1, Positions DEF TypeInv, RunnerOK, Looping
<1>2. ASSUME NEW d, \A f \in {"pkg", "bck", "xml", "xmlBck", "db", "rec"} : d[f] = device[f]
      PROVE  Done(d, ctx) => KeptBody'
  <2>1. Near(d, ctx)
    BY <1>2, NearWithout
  <2>2. ~(it = 7 /\ stable = None)
    BY <1>1
  <2>. QED  BY <1>1, <2>1, <2>2, KeptDone
<1>3. ASSUME NEW d, NEW todo, \A f \in {"pkg", "bck", "xml", "xmlBck", "db", "rec"} : d[f] = device[f],
             GoOn("move", d, [ctx EXCEPT !.todo = todo])
      PROVE  KeptBody'
  <2>. DEFINE c == [ctx EXCEPT !.todo = todo]
  <2>1. \A f \in {"man", "old", "file"} : c[f] = ctx[f]
    BY DEF Contexts
  <2>. HIDE DEF c
  <2>2. Near(d, c)
    BY <1>3, <2>1, NearWithout
  <2>. QED  BY <1>1, <1>3, <2>2, KeptGoesOn DEF c
<1>4. Failed(device, ctx) => KeptBody'
  BY <1>1, NearItself, KeptFails
<1>5. Done(device, ctx) => KeptBody'
  BY <1>2
<1>6. CASE RemoveTemporaryDirectory
  <2>. DEFINE d == IF ctx.unpacked THEN [device EXCEPT !.tmp = Missing] ELSE device
  <2>1. \A f \in {"pkg", "bck", "xml", "xmlBck", "db", "rec"} : d[f] = device[f]
    BY DEF Devices
  <2>2. Done(d, ctx)
    BY <1>6 DEF RemoveTemporaryDirectory
  <2>. HIDE DEF d
  <2>. QED  BY <1>2, <2>1, <2>2
<1>7. CASE RecoverIcons
  <2>1. Done(device, ctx) \/ \E todo : GoOn("move", device, [ctx EXCEPT !.todo = todo])
    BY <1>7, Zenon DEF RecoverIcons
  <2>. QED  BY <1>3, <1>5, <2>1
<1>8. CASE RecoverIconsMove
  <2>. DEFINE D(a) == IF New THEN [device EXCEPT !.icon[a] = None]
                      ELSE [device EXCEPT !.icon[a] = device.iconBck[a], !.iconBck[a] = None]
              F(a) == IF New THEN device ELSE [device EXCEPT !.icon[a] = None]
  <2>1. \/ Done(device, ctx) \/ Failed(device, ctx)
        \/ \E a \in ctx.todo : \/ GoOn("move", D(a), [ctx EXCEPT !.todo = ctx.todo \ {a}])
                              \/ GoOn("move", F(a), [ctx EXCEPT !.todo = ctx.todo \ {a}])
    BY <1>8 DEF RecoverIconsMove, FailsHere
  <2>2. \A a : \A f \in {"pkg", "bck", "xml", "xmlBck", "db", "rec"} :
          D(a)[f] = device[f] /\ F(a)[f] = device[f]
    BY DEF Devices
  <2>. HIDE DEF D, F
  <2>3. ASSUME NEW a \in ctx.todo, GoOn("move", D(a), [ctx EXCEPT !.todo = ctx.todo \ {a}])
        PROVE  KeptBody'
    BY <1>3, <2>2, <2>3
  <2>4. ASSUME NEW a \in ctx.todo, GoOn("move", F(a), [ctx EXCEPT !.todo = ctx.todo \ {a}])
        PROVE  KeptBody'
    BY <1>3, <2>2, <2>4
  <2>. QED  BY <1>4, <1>5, <2>1, <2>3, <2>4
<1>9. CASE RecoverSecurity
  <2>. DEFINE D(s) == [device EXCEPT !.sec = s]
  <2>1. Done(device, ctx) \/ Failed(device, ctx) \/ \E s : Done(D(s), ctx)
    BY <1>9 DEF RecoverSecurity, FailsHere
  <2>2. \A s : \A f \in {"pkg", "bck", "xml", "xmlBck", "db", "rec"} : D(s)[f] = device[f]
    BY DEF Devices
  <2>. HIDE DEF D
  <2>. QED  BY <1>2, <1>4, <1>5, <2>1, <2>2
<1>. QED  BY <1>6, <1>7, <1>8, <1>9

\* Without a committed version there is no manifest to restore, and an installation's
\* is removed.
LEMMA KeptRecoverManifest ==
  ASSUME TypeInv, KeptBody, Kept', RecoverManifest
  PROVE  KeptBody'
<1>. USE Places
<1>. DEFINE d == IF New THEN [device EXCEPT !.xml = None]
                 ELSE IF device.xmlBck = None THEN device
                 ELSE [device EXCEPT !.xml = device.xmlBck, !.xmlBck = None]
<1>1. it = 7 /\ req = "Recovery" /\ phase = "process" /\ ~Looping
  BY Positions DEF RecoverManifest, Process, TypeInv, RunnerOK, Looping
<1>. DEFINE m == [device EXCEPT !.xml = None]
<1>2. \/ Done(d, ctx) \/ FailsHere("RecoverManifest")
      \/ Fault("fail", "ManifestRemoval") \/ Done(m, ctx)
  BY DEF RecoverManifest
<1>6. ~Fault("fail", "ManifestRemoval")
  BY KeptBefore DEF Harmless
<1>7. \A f \in {"pkg", "bck", "xmlBck", "db", "rec"} : m[f] = device[f] /\ m.xml = None
  BY DEF Devices
<1>3. /\ \A f \in {"pkg", "bck", "db", "rec"} : d[f] = device[f]
      /\ New => d.xml = None /\ d.xmlBck = device.xmlBck
      /\ ~New /\ device.xmlBck = None => d = device
      /\ ~New => d.xmlBck = None
  BY DEF Devices
<1>. HIDE DEF d, m
<1>4. stable = None => d.xml = None
  <2>1. stable = None /\ device.xml # None => New
    BY <1>1 DEF KeptBody, NothingOK, New
  <2>2. stable = None => device.xmlBck = None
    BY DEF KeptBody, NothingOK
  <2>. QED  BY <1>3, <2>1, <2>2
<1>5. Near(d, ctx) /\ Near(m, ctx)
  BY <1>1, <1>3, <1>4, <1>7 DEF Near, Alike
<1>. QED  BY <1>1, <1>2, <1>4, <1>5, <1>6, <1>7, KeptDone, KeptFailsHere

LEMMA KeptRecoverStorage ==
  ASSUME TypeInv, KeptBody, RecoverStorageDirectories \/ RecoverStorageShared
  PROVE  KeptBody'
<1>. USE Places
<1>1. it = 8 /\ req = "Recovery" /\ phase = "process"
  <2>1. Step = "RecoverStorageDirectories" /\ phase = "process"
    BY DEF RecoverStorageDirectories, RecoverStorageShared, Process
  <2>. QED  BY <2>1, Positions DEF TypeInv, RunnerOK
<1>2. \A key \in StorageKeys : Near(StorageRecovered(device, key), ctx)
  <2>. SUFFICES ASSUME NEW key \in StorageKeys
                PROVE  Near(StorageRecovered(device, key), ctx)
    OBVIOUS
  <2>. DEFINE u == Put(device.bck, key, device.pkg[key])
              t == Drop(device.pkg, key)
              d == [device EXCEPT !.bck = u, !.pkg = t]
  <2>1. d.bck = u /\ d.pkg = t /\ \A f \in {"xml", "xmlBck", "db", "rec"} : d[f] = device[f]
    BY DEF Devices
  <2>2. Alike(u, device.bck) /\ Alike(t, device.pkg)
    BY StorageAlike DEF TypeInv, TreesOK
  <2>3. StorageRecovered(device, key) \in {device, d}
    BY DEF StorageRecovered
  <2>. HIDE DEF u, t, d
  <2>4. Near(d, ctx)
    BY <2>1, <2>2 DEF Near
  <2>. QED  BY <2>3, <2>4, NearItself
<1>3. \E d \in {device, StorageRecovered(device, "data"), StorageRecovered(device, "shared")} :
        Done(d, ctx) \/ GoOn("shared", d, ctx)
  BY DEF RecoverStorageDirectories, RecoverStorageShared
<1>4. PICK d : Near(d, ctx) /\ (Done(d, ctx) \/ GoOn("shared", d, ctx))
  BY <1>2, <1>3, NearItself DEF StorageKeys
<1>. QED  BY <1>1, <1>4, KeptDone, KeptGoesOn

\* What the directories of a package are, when no loop is at work on them.
DirsOK(d) ==
  /\ ~Exists(d.pkg) => \A e \in CodeLike : d.pkg[e] = {}
  /\ IF stable = None
       THEN ~Exists(d.bck) /\ \A e \in CodeLike : d.pkg[e] \subseteq {<<"self", 1>>}
       ELSE IF Exists(d.bck) THEN Whole(d.bck, stable) ELSE Whole(d.pkg, stable)

LEMMA DirsNow ==
  ASSUME TypeInv, KeptBody, ~Looping, ~Committed
  PROVE  /\ DirsOK(device)
         /\ \A d : Alike(d.pkg, device.pkg) /\ Alike(d.bck, device.bck) => DirsOK(d)
         /\ \A t \in RemoveCut(device.pkg) \cup {Missing} : \A d :
              d.pkg = t /\ d.bck = device.bck /\ (stable = None \/ Exists(device.bck)) => DirsOK(d)
<1>1. DirsOK(device)
  BY DEF KeptBody, NothingOK, OldOK, ContentOK, DirsOK
<1>2. TreeOK(device.pkg) /\ \A e \in CodeLike : Missing[e] = {}
  BY DEF TypeInv, TreesOK, Missing, Nodes, Entries
<1>3. ASSUME NEW t \in RemoveCut(device.pkg) \cup {Missing}
      PROVE  /\ \A e \in CodeLike : t[e] \subseteq device.pkg[e]
             /\ ~Exists(t) => \A e \in CodeLike : t[e] = {}
  BY <1>1, <1>2, <1>3, CutSmaller DEF DirsOK
<1>4. \A d : Alike(d.pkg, device.pkg) /\ Alike(d.bck, device.bck) => DirsOK(d)
  BY <1>1 DEF DirsOK, Alike, Whole
<1>5. ASSUME NEW t \in RemoveCut(device.pkg) \cup {Missing}, NEW d,
             d.pkg = t, d.bck = device.bck, stable = None \/ Exists(device.bck)
      PROVE  DirsOK(d)
  BY <1>1, <1>3, <1>5 DEF DirsOK
<1>. QED  BY <1>1, <1>4, <1>5

\* What the recovery does to the directories.
LEMMA KeptDirectories ==
  ASSUME TypeInv, KeptBody, req = "Recovery", phase = "process", it = 9,
         NEW d, \A f \in {"xml", "xmlBck", "db", "rec"} : d[f] = device[f],
         DirsOK(d),
         (GoOn("move", d, ctx) /\ Exists(d.bck)) \/ Done(d, ctx) \/ Failed(d, ctx)
  PROVE  KeptBody'
<1>. USE Places DEF KeptBody
<1>1. /\ device' = d /\ ctx' = ctx /\ req' = req /\ stable' = stable
      /\ \/ phase' = "process" /\ it' = 9 /\ part' = "move" /\ Exists(d.bck)
         \/ phase' = "process" /\ it' = 10 /\ part' = "start"
         \/ phase' = "undo" /\ it' = 9 /\ part' = "start"
  BY DEF GoOn, Done, Failed, Leave, envVars, runnerVars, StepOk, StepFails
<1>2. FileOK' /\ KindOK' /\ RowOK' /\ ManifestsOK' /\ NothingOK'
  BY <1>1 DEF FileOK, KindOK, RowOK, ManifestsOK, NothingOK, DirsOK
<1>3. ContentOK' /\ BackupOK' /\ OldOK'
  BY <1>1 DEF ContentOK, BackupOK, OldOK, Looping, Committed, Whole, DirsOK
<1>. QED  BY <1>2, <1>3

LEMMA KeptRecoverFiles ==
  ASSUME TypeInv, KeptBody, RecoverFiles \/ RecoverFilesMove
  PROVE  KeptBody'
<1>. USE Places
<1>1. it = 9 /\ req = "Recovery" /\ phase = "process" /\ ~Looping /\ ~Committed
  <2>1. Step = "RecoverFiles" /\ phase = "process"
    BY DEF RecoverFiles, RecoverFilesMove, Process
  <2>. QED  BY <2>1, Positions DEF TypeInv, RunnerOK, Looping, Committed
<1>2. DirsOK(device) /\ (New => stable = None)
  BY <1>1, DirsNow DEF KeptBody, KindOK, New
<1>. DEFINE Pkg(t) == [device EXCEPT !.pkg = t]
            Back == [device EXCEPT !.pkg = device.bck, !.bck = Missing]
<1>3. /\ \A t : Pkg(t).pkg = t /\ \A f \in {"bck", "xml", "xmlBck", "db", "rec"} : Pkg(t)[f] = device[f]
      /\ Back.pkg = device.bck /\ Back.bck = Missing /\ \A f \in {"xml", "xmlBck", "db", "rec"} : Back[f] = device[f]
  BY DEF Devices
<1>4. CASE RecoverFiles
  <2>1. \/ Done(device, ctx)
        \/ \E t \in RemoveCut(device.pkg) \cup {Missing} :
             \/ New /\ (Done(Pkg(t), ctx) \/ Failed(Pkg(t), ctx))
             \/ Exists(device.bck) /\ (GoOn("move", Pkg(t), ctx) \/ Failed(Pkg(t), ctx))
    BY <1>4, Zenon DEF RecoverFiles
  <2>. HIDE DEF Pkg, Back
  <2>2. CASE Done(device, ctx)
    BY <1>1, <1>2, <2>2, KeptDirectories
  <2>3. ASSUME NEW t \in RemoveCut(device.pkg) \cup {Missing}, New \/ Exists(device.bck),
               \/ GoOn("move", Pkg(t), ctx) /\ Exists(device.bck)
               \/ Done(Pkg(t), ctx) \/ Failed(Pkg(t), ctx)
        PROVE  KeptBody'
    <3>1. DirsOK(Pkg(t)) /\ Pkg(t).bck = device.bck
      BY <1>1, <1>2, <1>3, <2>3, DirsNow
    <3>. QED  BY <1>1, <1>3, <2>3, <3>1, KeptDirectories
  <2>. QED  BY <2>1, <2>2, <2>3
<1>5. CASE RecoverFilesMove
  <2>1. part = "move" /\ (Done(Back, ctx) \/ Done(device, ctx))
    BY <1>5 DEF RecoverFilesMove, Process
  <2>. HIDE DEF Pkg, Back
  <2>2. Exists(device.bck)
    BY <1>1, <2>1 DEF KeptBody, BackupOK
  <2>3. ~Exists(Back.bck) /\ Exists(Back.pkg)
    BY <1>3, <2>2, EmptyTrees
  <2>4. DirsOK(Back)
    BY <1>2, <1>3, <2>2, <2>3 DEF DirsOK
  <2>. QED  BY <1>1, <1>2, <1>3, <2>1, <2>4, KeptDirectories
<1>. QED  BY <1>4, <1>5

LEMMA KeptRecovery ==
  ASSUME TypeInv, KeptBody, Kept', RecoveryStep
  PROVE  KeptBody'
BY KeptOpenRecovery, KeptParseRecovery, KeptRecoverApplication, KeptRecoverIcons,
   KeptRecoverManifest, KeptRecoverStorage, KeptRecoverFiles
   DEF RecoveryStep

-------------------------------------------------------------------------------
(* ... through the life of a process *)

LEMMA KeptBegin ==
  ASSUME TypeInv, KeptBody, Begin
  PROVE  KeptBody'
<1>. USE Places
<1>1. /\ phase = "idle" /\ phase' = "process" /\ it' = 1 /\ device' = device /\ ctx' = ctx
      /\ part = "start" /\ part' = part /\ stable' = stable
      /\ \/ req' = "Recovery" /\ device.rec.kind # "none"
         \/ device.rec.kind = "none" /\ req' = IF device.db = None THEN "Install" ELSE "Update"
  BY DEF Begin, BeginRun, TypeInv, RunnerOK, RecoveryWaits
<1>. USE DEF KeptBody
<1>2. FileOK' /\ KindOK' /\ RowOK' /\ ManifestsOK'
  BY <1>1 DEF FileOK, KindOK, RowOK, ManifestsOK
<1>3. NothingOK'
  BY <1>1 DEF NothingOK
<1>4. ContentOK' /\ BackupOK' /\ OldOK'
  BY <1>1 DEF ContentOK, BackupOK, OldOK, Looping, Committed
<1>. QED  BY <1>2, <1>3, <1>4

\* Once the process is gone, only what is on the device counts.
LEMMA KeptGone ==
  ASSUME TypeInv, KeptBody, Gone, NEW d, device' = d, DirsOK(d), d.db = device.db, d.xml = device.xml,
         stable = None => d.xmlBck = None /\ (d.xml # None => d.rec.kind \in {"Install", "torn"}),
         stable # None => d.rec.kind # "Install" /\ (d.db = None => d.rec.kind # "none")
  PROVE  KeptBody'
<1>1. /\ phase' = "idle" /\ ctx'.file.kind = "none" /\ stable' = stable /\ req' = req /\ device' = d
  BY DEF Gone, envVars, FreshContext, NoRecovery
<1>2. FileOK' /\ KindOK' /\ RowOK' /\ ManifestsOK' /\ NothingOK'
  BY <1>1 DEF FileOK, KindOK, RowOK, ManifestsOK, NothingOK, DirsOK
<1>3. ContentOK' /\ BackupOK' /\ OldOK'
  BY <1>1 DEF ContentOK, BackupOK, OldOK, Looping, Committed, Whole, DirsOK
<1>. QED  BY <1>2, <1>3 DEF KeptBody

\* The recovery file is the one of an interrupted request, or torn.
LEMMA KeptDies ==
  ASSUME TypeInv, KeptBody, phase \in {"process", "undo", "end"}, Gone,
         NEW d, device' = d, DirsOK(d), d.db = device.db, d.xml = device.xml,
         stable = None => d.xmlBck = device.xmlBck,
         d.rec.kind \in {device.rec.kind, "torn"}
  PROVE  KeptBody'
<1>. USE Places DEF KeptBody
<1>1. stable = None => d.xmlBck = None
  BY DEF NothingOK
<1>2. stable = None /\ d.xml # None => d.rec.kind \in {"Install", "torn"}
  BY DEF NothingOK, FileOK
<1>3. stable # None => d.rec.kind # "Install" /\ (d.db = None => d.rec.kind # "none")
  BY DEF KindOK, RowOK
<1>. QED  BY <1>1, <1>2, <1>3, KeptGone

LEMMA KeptExit ==
  ASSUME TypeInv, KeptBody, Exit \/ Abort
  PROVE  KeptBody'
<1>. USE Places
<1>1. Gone /\ phase \in {"process", "end"} /\ ~Committed /\ ~Looping
  BY Positions DEF Exit, Abort, Process, Committed, Looping, TypeInv, RunnerOK
<1>2. DirsOK(device)
  BY <1>1, DirsNow
<1>3. CASE device' = device
  BY <1>1, <1>2, <1>3, KeptDies
<1>4. CASE Exit /\ ctx.file.kind # "none" /\ device' = [device EXCEPT !.rec = NoRecovery]
  <2>. DEFINE d == [device EXCEPT !.rec = NoRecovery]
  <2>1. d.rec.kind = "none" /\ \A f \in {"pkg", "bck", "xml", "xmlBck", "db"} : d[f] = device[f]
    BY DEF Devices, NoRecovery
  <2>2. device' = d /\ phase = "end" /\ ctx.file.kind # "none"
    BY <1>4 DEF Exit
  <2>. HIDE DEF d
  <2>3. req # "Recovery"
    BY <2>2 DEF KeptBody, FileOK
  <2>4. stable = None => d.xmlBck = None /\ d.xml = None
    BY <2>1, <2>2, <2>3 DEF KeptBody, NothingOK
  <2>5. stable # None => d.db # None
    BY <2>1, <2>2, <2>3 DEF KeptBody, RowOK
  <2>6. DirsOK(d)
    BY <1>2, <2>1 DEF DirsOK
  <2>. QED  BY <1>1, <2>1, <2>2, <2>4, <2>5, <2>6, KeptGone
<1>. QED  BY <1>3, <1>4 DEF Exit, Abort

LEMMA KeptStoreUserFile ==
  ASSUME TypeInv, KeptBody, StoreUserFile
  PROVE  KeptBody'
<1>. USE Places
<1>. DEFINE t == Put(device.pkg, "data", device.pkg["data"] \cup {UserFile})
            d == [device EXCEPT !.pkg = t]
<1>1. /\ device' = d /\ phase = "idle" /\ phase' = "idle" /\ ctx' = ctx
      /\ stable' = stable /\ req' = req /\ it' = it /\ part' = part
  BY DEF StoreUserFile, Idle, runnerVars, Devices
<1>2. d.pkg = t /\ \A f \in {"bck", "xml", "xmlBck", "db", "rec"} : d[f] = device[f]
  BY DEF Devices
<1>3. Alike(t, device.pkg)
  BY StorageAlike DEF TypeInv, TreesOK, StorageKeys
<1>4. ~Looping /\ ~Committed
  BY <1>1 DEF Looping, Committed
<1>. HIDE DEF t, d
<1>5. DirsOK(d)
  BY <1>2, <1>3, <1>4, DirsNow DEF Alike
<1>. USE DEF KeptBody
<1>6. FileOK' /\ KindOK' /\ RowOK' /\ ManifestsOK' /\ NothingOK'
  BY <1>1, <1>2, <1>5 DEF FileOK, KindOK, RowOK, ManifestsOK, NothingOK, DirsOK
<1>7. ContentOK' /\ BackupOK' /\ OldOK'
  BY <1>1, <1>2, <1>5 DEF ContentOK, BackupOK, OldOK, Looping, Committed, Whole, DirsOK
<1>. QED  BY <1>6, <1>7

LEMMA KeptCrash ==
  ASSUME TypeInv, KeptBody, Kept', Crash
  PROVE  KeptBody'
<1>. USE Places
<1>1. /\ phase \in {"process", "undo", "end"} /\ ~Looping /\ ~Committed /\ Gone
      /\ stable' = stable
  <2>1. Harmless(CrashKind, Where) /\ phase # "idle" /\ Gone
    BY KeptBefore DEF Crash, Idle
  <2>2. phase # "clean"
    BY <2>1 DEF Harmless, CrashKind
  <2>3. phase = "process" => Where # "Backup"
    BY <2>1 DEF Harmless, CrashKind
  <2>4. Looping => Step = "CopyBackup"
    BY Positions DEF Looping, TypeInv, RunnerOK
  <2>5. ~Looping
    BY <2>3, <2>4 DEF Looping, Where, Process
  <2>. QED  BY <2>1, <2>2, <2>5 DEF TypeInv, RunnerOK, Phases, Committed, Gone, envVars
<1>2. CASE UNCHANGED device
  BY <1>1, <1>2, DirsNow, KeptDies
<1>. DEFINE Pkg(t) == [device EXCEPT !.pkg = t]
            Bck(t) == [device EXCEPT !.bck = t]
            Xml == [device EXCEPT !.xmlBck = Torn]
            Sec == [device EXCEPT !.sec = Torn]
            Rec == [device EXCEPT !.rec = TornRecovery]
<1>3. /\ \A t : Pkg(t).pkg = t /\ \A f \in {"bck", "xml", "xmlBck", "db", "rec"} : Pkg(t)[f] = device[f]
      /\ \A t : Bck(t).bck = t /\ \A f \in {"pkg", "xml", "xmlBck", "db", "rec"} : Bck(t)[f] = device[f]
      /\ \A f \in {"pkg", "bck", "xml", "db", "rec"} : Xml[f] = device[f]
      /\ \A f \in {"pkg", "bck", "xml", "xmlBck", "db", "rec"} : Sec[f] = device[f]
      /\ Rec.rec.kind = "torn" /\ \A f \in {"pkg", "bck", "xml", "xmlBck", "db"} : Rec[f] = device[f]
  BY DEF Devices, TornRecovery, NoRecovery
<1>4. TreeOK(device.pkg) /\ TreeOK(device.bck)
  BY DEF TypeInv, TreesOK
<1>5. CASE HalfDone
  <2>1. \/ device' = Rec
        \/ Process("BackupManifest", "start") /\ device' = Xml
        \/ \E key \in StorageKeys : \E files : device' = [device EXCEPT !.pkg = Put(@, key, files)]
        \/ \E key \in StorageKeys : \E files : device' = [device EXCEPT !.bck = Put(@, key, files)]
        \/ RemovesPackage /\ \E t \in RemoveCut(device.pkg) : device' = Pkg(t)
        \/ device' = Sec
    <3>1. ~Clean("CopyBackup")
      BY <1>1 DEF Clean
    <3>. QED  BY <1>5, <3>1, Zenon DEF HalfDone
  <2>2. \A key, files : /\ [device EXCEPT !.pkg = Put(@, key, files)] = Pkg(Put(device.pkg, key, files))
                        /\ [device EXCEPT !.bck = Put(@, key, files)] = Bck(Put(device.bck, key, files))
    BY DEF Devices
  <2>. HIDE DEF Pkg, Bck, Xml, Sec, Rec
  <2>3. CASE device' = Rec \/ device' = Sec
    <3>1. PICK d \in {Rec, Sec} : device' = d
      BY <2>3
    <3>2. DirsOK(d)
      BY <1>1, <1>3, DirsNow DEF Alike
    <3>. QED  BY <1>1, <1>3, <3>1, <3>2, KeptDies
  <2>4. CASE Process("BackupManifest", "start") /\ device' = Xml
    <3>1. req = "Update" /\ it = 6 /\ phase = "process"
      BY <2>4, Positions DEF Process, TypeInv, RunnerOK
    <3>2. stable # None
      BY <3>1, UpdateReplaces
    <3>3. DirsOK(Xml)
      BY <1>1, <1>3, DirsNow DEF Alike
    <3>. QED  BY <1>1, <1>3, <2>4, <3>2, <3>3, KeptDies
  <2>5. ASSUME NEW key \in StorageKeys, NEW files, device' = [device EXCEPT !.pkg = Put(@, key, files)]
        PROVE  KeptBody'
    <3>1. DirsOK(Pkg(Put(device.pkg, key, files)))
      BY <1>1, <1>3, <1>4, DirsNow, StorageAlike DEF Alike
    <3>. QED  BY <1>1, <1>3, <2>2, <2>5, <3>1, KeptDies
  <2>6. ASSUME NEW key \in StorageKeys, NEW files, device' = [device EXCEPT !.bck = Put(@, key, files)]
        PROVE  KeptBody'
    <3>1. DirsOK(Bck(Put(device.bck, key, files)))
      BY <1>1, <1>3, <1>4, DirsNow, StorageAlike DEF Alike
    <3>. QED  BY <1>1, <1>3, <2>2, <2>6, <3>1, KeptDies
  <2>7. ASSUME RemovesPackage, NEW t \in RemoveCut(device.pkg), device' = Pkg(t)
        PROVE  KeptBody'
    <3>1. stable = None \/ Exists(device.bck)
      <4>1. CASE Undo("Copy", "start")
        <5>1. req = "Install" /\ phase = "undo"
          BY <4>1, Positions DEF Undo, TypeInv, RunnerOK
        <5>. QED  BY <5>1 DEF KeptBody, KindOK
      <4>2. New => stable = None
        BY DEF New, KeptBody, KindOK
      <4>. QED  BY <2>7, <4>1, <4>2 DEF RemovesPackage
    <3>2. DirsOK(Pkg(t))
      BY <1>1, <1>3, <3>1, DirsNow
    <3>. QED  BY <1>1, <1>3, <2>7, <3>2, KeptDies
  <2>. QED  BY <2>1, <2>3, <2>4, <2>5, <2>6, <2>7
<1>. QED  BY <1>2, <1>5 DEF Crash

-------------------------------------------------------------------------------
(* The invariant, and what it is for *)

LEMMA KeptStep ==
  ASSUME TypeInv, KeptBody, Kept', Next
  PROVE  KeptBody'
BY KeptCommon, KeptInstall, KeptUpdate, KeptRecovery, KeptBegin, KeptExit, KeptCrash,
   KeptStoreUserFile
   DEF Next

\* In every history OldVersionNeverLost speaks of, the files of the version
\* committed last are all in the backup directory as soon as there is one, and all
\* in the package directory until then; only in the loop of Backup() is each entry
\* in one or the other.
THEOREM KeptInvariant == Spec => []KeptInv
<1>1. Init => KeptInv
  <2>1. ASSUME Init
        PROVE  KeptBody
    <3>1. /\ phase = "idle" /\ stable = None /\ device = CleanDevice /\ ctx = FreshContext
      BY <2>1 DEF Init, RunnerInit
    <3>2. \A e \in CodeLike : Missing[e] = {}
      BY DEF Missing, Nodes, Entries
    <3>. QED  BY <3>1, <3>2, EmptyTrees
              DEF CleanDevice, FreshContext, NoRecovery, KeptBody, FileOK, KindOK, RowOK,
                  ManifestsOK, NothingOK, ContentOK, BackupOK, OldOK
  <2>. QED  BY <2>1 DEF KeptInv
<1>2. TypeInv /\ KeptInv /\ [Next]_vars => KeptInv'
  <2>. SUFFICES ASSUME TypeInv, KeptInv, [Next]_vars, Kept'
                PROVE  KeptBody'
    BY DEF KeptInv
  <2>1. CASE Next
    <3>1. Kept
      BY <2>1, StepsAndFaults, KeptBefore
    <3>2. KeptBody
      BY <3>1 DEF KeptInv
    <3>. QED  BY <2>1, <3>2, KeptStep
  <2>2. CASE UNCHANGED vars
    <3>1. Kept
      BY <2>2 DEF vars, Kept, CleanCutShort, BackupCutShort, ManifestLeft, Only, Happened
    <3>2. KeptBody
      BY <3>1 DEF KeptInv
    <3>. QED  BY <2>2, <3>2
              DEF vars, runnerVars, envVars, KeptBody, FileOK, KindOK, RowOK, ManifestsOK,
                  NothingOK, ContentOK, BackupOK, OldOK, Looping, Committed, Halfway, Whole,
                  NewVersion
  <2>. QED  BY <2>1, <2>2
<1>. QED  BY <1>1, <1>2, TransactionTypeInvariant, PTL DEF Spec

\* At no moment of an update, of its rollback or of its recovery, nor after one that
\* failed itself, is there an entry of the version committed last that is neither in
\* the package directory nor in the backup.
THEOREM OldVersionNeverLostHolds == Spec => []OldVersionNeverLost
<1>1. KeptInv => OldVersionNeverLost
  <2>. SUFFICES ASSUME KeptInv, stable # None, Kept, NEW e \in CodeLike
                PROVE  <<"self", stable>> \in device.pkg[e] \cup device.bck[e]
    BY DEF OldVersionNeverLost, Kept
  <2>1. OldOK
    BY DEF KeptInv, KeptBody
  <2>. QED  BY <2>1 DEF OldOK, Whole, Halfway
<1>. QED  BY <1>1, KeptInvariant, PTL
===============================================================================
