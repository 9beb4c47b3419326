-------------------------- MODULE PackageChecksProofs --------------------------
(***************************************************************************)
(* That the checks may rely on the database, for any number of users,      *)
(* authors, requests, failures of the database and crashes.                *)
(*                                                                         *)
(* RightsFitLevel is inductive once the same is said of the rows that are  *)
(* not in the database but may get back there: the one in the context, and *)
(* those in the recovery files.  OneAuthor needs what each check has found *)
(* out about the record, which nobody else changes meanwhile.              *)
(***************************************************************************)
EXTENDS PackageChecks, TLAPS

Types == InstallTypes \cup UpdateTypes \cup {"Unknown", "Uninstall", "none"}
Updates == req.type \in UpdateTypes
Removes == req.type \notin InstallTypes \cup UpdateTypes

RequestType == [user : Users, type : Types, root : BOOLEAN, preload : BOOLEAN]

LoopInv ==
  /\ phase \in Phases /\ it \in 1..NumSteps /\ req \in RequestType
  /\ past \subseteq {"unsigned", "removed", "notSaved", "recovered"}

-------------------------------------------------------------------------------
(* Rights *)

\* The rows that may do no more than their level allows.
FittingRows ==
  {r \in [author : Authors \cup {NoCert}, level : Levels, needs : Levels, mounted : BOOLEAN] :
     r.needs <= r.level}

RightsInv ==
  /\ row \in [Users -> FittingRows]
  /\ died \in [Users -> SUBSET [type : {"Install", "Update"}, old : FittingRows]]
  /\ ctx \in [author : Authors \cup {NoCert}, level : Levels, needs : Levels,
              oldApi : BOOLEAN, old : FittingRows, saved : Authors \cup {NoCert}]
  /\ ctx.needs <= ctx.level
  /\ record \in Authors \cup {NoCert}

\* CheckSignature accepts no package without a level.
LevelInv == phase = "process" /\ ~Removes /\ it > 3 => ctx.level # UNTRUSTED

-------------------------------------------------------------------------------
(* Authors *)

\* While a request is handled, with what its checks have found out.
RowsAgree == \A u \in Users : row[u].author \in {NoCert, record}

AuthorsAgree ==
  /\ RowsAgree
  \* CheckSignature compares with the record, and only this request changes it.
  /\ phase = "process" => ctx.author \in {NoCert, record} \/ record = NoCert
  \* CheckOldCertificate: an update registers the certificate that is there.
  /\ phase = "process" /\ Updates /\ it > 6 => record = ctx.author
  /\ phase \in {"process", "undo"} /\ Updates => ctx.old.author \in {NoCert, record}
  \* A removal keeps the certificate that it may have deleted.
  /\ phase = "process" /\ Removes /\ it < 3 => ctx.old.author \in {NoCert, record}
  /\ (phase = "process" /\ Removes /\ it = 3) \/ (phase = "undo" /\ Removes /\ it > 1) =>
       /\ ctx.old.author \in {NoCert, ctx.saved}
       /\ record = ctx.saved \/ \A u \in Users : row[u].author = NoCert

AuthorInv == past = {} => AuthorsAgree

-------------------------------------------------------------------------------
(* The step lists. *)

InstallList == <<"Configure", "CheckTizenVersion", "CheckSignature", "PrivilegeCompatibility",
                 "CheckBackgroundCategory", "Register", "Rest">>
UpdateList == <<"Configure", "CheckTizenVersion", "CheckSignature", "PrivilegeCompatibility",
                "CheckBackgroundCategory", "CheckOldCertificate", "BlockCrossUpdate",
                "Update", "Rest">>
RemoveList == <<"Configure", "Unregister", "Rest">>

ListsKnown ==
  /\ req.type \in InstallTypes => Len(Pipeline) = 7 /\ \A i \in 1..7 : Pipeline[i] = InstallList[i]
  /\ req.type \in UpdateTypes => Len(Pipeline) = 9 /\ \A i \in 1..9 : Pipeline[i] = UpdateList[i]
  /\ req.type \notin InstallTypes \cup UpdateTypes => Pipeline = RemoveList

LEMMA ThreeLists == ListsKnown
<1> DEFINE Names == {Checks[i] : i \in 1..5} \cup {"CheckOldCertificate", "BlockCrossUpdate",
                                                    "Update", "Register", "Rest"}
<1>0. Checks \in Seq(Names) /\ Len(Checks) = 5
  BY DEF Checks
<1>1. /\ Len(Checks \o <<"Register", "Rest">>) = 7
      /\ \A i \in 1..7 : (Checks \o <<"Register", "Rest">>)[i] = InstallList[i]
  <2> DEFINE t == <<"Register", "Rest">>
  <2>1. t \in Seq(Names) /\ Len(t) = 2
    OBVIOUS
  <2>2. Len(Checks \o t) = 7
    BY DEF Checks
  <2>3. \A i \in 1..7 : (Checks \o t)[i] = InstallList[i]
    BY <1>0, <2>1 DEF Checks, InstallList
  <2> QED
    BY <2>2, <2>3
<1>2. /\ Len(Checks \o <<"CheckOldCertificate", "BlockCrossUpdate", "Update", "Rest">>) = 9
      /\ \A i \in 1..9 :
           (Checks \o <<"CheckOldCertificate", "BlockCrossUpdate", "Update", "Rest">>)[i] = UpdateList[i]
  <2> DEFINE t == <<"CheckOldCertificate", "BlockCrossUpdate", "Update", "Rest">>
  <2>1. t \in Seq(Names) /\ Len(t) = 4
    OBVIOUS
  <2>2. Len(Checks \o t) = 9
    BY DEF Checks
  <2>3. \A i \in 1..9 : (Checks \o t)[i] = UpdateList[i]
    BY <1>0, <2>1 DEF Checks, UpdateList
  <2> QED
    BY <2>2, <2>3
<1>3. InstallTypes \cap UpdateTypes = {}
  BY DEF InstallTypes, UpdateTypes
<1> QED
  BY <1>1, <1>2, <1>3 DEF Pipeline, ListsKnown, RemoveList

\* Where each step is, and how long the lists are.
LEMMA Places ==
  ASSUME it \in 1..NumSteps
  PROVE  /\ it \in 1..9 /\ NumSteps = IF req.type \in InstallTypes THEN 7 ELSE IF Updates THEN 9 ELSE 3
         /\ Step = "Configure" => it = 1
         /\ Step = "CheckTizenVersion" => ~Removes /\ it = 2
         /\ Step = "CheckSignature" => ~Removes /\ it = 3
         /\ Step = "PrivilegeCompatibility" => ~Removes /\ it = 4
         /\ Step = "CheckBackgroundCategory" => ~Removes /\ it = 5
         /\ Step = "CheckOldCertificate" => Updates /\ it = 6
         /\ Step = "BlockCrossUpdate" => Updates /\ it = 7
         /\ Step = "Update" => Updates /\ it = 8
         /\ Step = "Register" => req.type \in InstallTypes /\ it = 6
         /\ Step = "Unregister" => Removes /\ it = 2
         /\ Step = "Rest" => it = NumSteps
         /\ Removes /\ it = 2 => Step = "Unregister"
         /\ ~Removes /\ it = 3 => Step = "CheckSignature"
         /\ Updates => ~(req.type \in InstallTypes)
<1>1. CASE req.type \in InstallTypes
  <2>1. ~Updates /\ ~Removes
    BY <1>1 DEF Updates, Removes, InstallTypes, UpdateTypes
  <2>2. NumSteps = 7
    BY <1>1, ThreeLists DEF NumSteps, ListsKnown, InstallList
  <2> QED
    BY <1>1, <2>1, <2>2, ThreeLists DEF Step, ListsKnown, InstallList
<1>2. CASE Updates
  <2>1. req.type \notin InstallTypes /\ ~Removes
    BY <1>2 DEF Updates, Removes, InstallTypes, UpdateTypes
  <2>2. NumSteps = 9
    BY <1>2, ThreeLists DEF NumSteps, Updates, ListsKnown, UpdateList
  <2> QED
    BY <1>2, <2>1, <2>2, ThreeLists DEF Step, Updates, ListsKnown, UpdateList
<1>3. CASE Removes
  <2>1. req.type \notin InstallTypes /\ ~Updates
    BY <1>3 DEF Updates, Removes
  <2>2. NumSteps = 3
    BY <1>3, ThreeLists DEF NumSteps, Removes, ListsKnown, RemoveList
  <2> QED
    BY <1>3, <2>1, <2>2, ThreeLists DEF Step, Removes, ListsKnown, RemoveList
<1> QED
  BY <1>1, <1>2, <1>3 DEF Updates, Removes

-------------------------------------------------------------------------------
(* The loops. *)

\* A step of the loops keeps the place inside the list.
LEMMA LoopStep ==
  ASSUME it \in 1..NumSteps, req' = req,
         \/ StepOk(NumSteps) \/ StepFails \/ StepCleaned(NumSteps)
         \/ \E ok \in BOOLEAN : StepUndone(ok)
  PROVE  phase' \in Phases /\ it' \in 1..NumSteps'
<1>1. NumSteps' = NumSteps /\ NumSteps \in Nat
  BY Places DEF NumSteps, Pipeline
<1> QED
  BY <1>1 DEF Phases, StepOk, StepFails, StepCleaned, StepUndone

LEMMA LoopMoves ==
  ASSUME Next
  PROVE  \/ Request \/ EndRequest \/ Crash \/ Recover
         \/ /\ req' = req
            /\ \/ StepOk(NumSteps) \/ StepFails \/ StepCleaned(NumSteps)
               \/ \E ok \in BOOLEAN : StepUndone(ok)
<1>1. \A c : Passes(c) => req' = req /\ StepOk(NumSteps)
  BY DEF Passes
<1>2. Refused => req' = req /\ StepFails
  BY DEF Refused
<1>3. \A ok, c : Check(ok, c) => req' = req /\ (StepOk(NumSteps) \/ StepFails)
  BY <1>1, <1>2 DEF Check
<1>4. CASE Configure \/ CheckTizenVersion \/ CheckOldCertificate \/ BlockCrossUpdate
  BY <1>3, <1>4 DEF Configure, CheckTizenVersion, CheckOldCertificate, BlockCrossUpdate
<1>5. CASE CheckSignature
  BY <1>2, <1>3, <1>5 DEF CheckSignature
<1>6. CASE PrivilegeCompatibility \/ CheckBackgroundCategory \/ Rest
  BY <1>1, <1>2, <1>3, <1>6 DEF PrivilegeCompatibility, CheckBackgroundCategory, Rest
<1>7. CASE Register \/ Update \/ Unregister
  BY <1>7 DEF Register, Update, Unregister, Processed
<1>8. CASE RegisterUndo \/ UpdateUndo \/ UnregisterUndo \/ Nothing
  BY <1>8 DEF RegisterUndo, UpdateUndo, UnregisterUndo, Nothing
<1> QED
  BY <1>4, <1>5, <1>6, <1>7, <1>8 DEF Next

LEMMA RequestMoves ==
  ASSUME Request
  PROVE  /\ req' \in RequestType /\ phase' = "process" /\ it' = 1 /\ it' \in 1..NumSteps'
         /\ ctx' = [Fresh EXCEPT !.old = row[req'.user]]
<1>1. PICK u \in Users, root \in BOOLEAN, preload \in BOOLEAN, asked \in Asked :
        \E type \in RequestTypes(asked, Has(u)) :
          /\ req' = [user |-> u, type |-> type, root |-> root, preload |-> preload]
          /\ ctx' = [Fresh EXCEPT !.old = row[u]]
  BY DEF Request
<1>2. PICK type \in RequestTypes(asked, Has(u)) :
          /\ req' = [user |-> u, type |-> type, root |-> root, preload |-> preload]
          /\ ctx' = [Fresh EXCEPT !.old = row[u]]
  BY <1>1
<1>3. type \in Types
  BY <1>2 DEF RequestTypes, Asked, Types, InstallTypes, UpdateTypes
<1>4. NumSteps' \in Nat /\ NumSteps' >= 1
  <2>1. ListsKnown'
    BY ThreeLists, PTL
  <2> QED
    <3>1. NumSteps' \in {3, 7, 9}
      BY <2>1 DEF ListsKnown, NumSteps, RemoveList, InstallList, UpdateList
    <3> QED
      BY <3>1
<1> QED
  BY <1>2, <1>3, <1>4 DEF Request, BeginRun, RequestType

LEMMA LoopInvInit == Init => LoopInv
<1> SUFFICES ASSUME Init
             PROVE  LoopInv
  OBVIOUS
<1>1. NumSteps = 3
  BY ThreeLists DEF Init, NoRequest, NumSteps, ListsKnown, RemoveList, InstallTypes, UpdateTypes
<1>2. req \in RequestType
  BY UsersAssumption DEF Init, NoRequest, RequestType, Types
<1> QED
  BY <1>1, <1>2 DEF Init, RunnerInit, LoopInv, Phases

LEMMA LoopInvStep == LoopInv /\ [Next]_vars => LoopInv'
<1> SUFFICES ASSUME LoopInv, [Next]_vars
             PROVE  LoopInv'
  OBVIOUS
<1>1. CASE UNCHANGED vars
  BY <1>1 DEF LoopInv, vars, runnerVars, NumSteps, Pipeline
<1>2. CASE Next
  <2> DEFINE Events == {"unsigned", "removed", "notSaved", "recovered"}
  <2>1. past' \subseteq Events
    <3>1. \A events : Happens(events) /\ events \subseteq Events => past' \subseteq Events
      BY DEF Happens, LoopInv
    <3>2. past' = past => past' \subseteq Events
      BY DEF LoopInv
    <3> HIDE DEF Events
    <3>3. \A u : Unregistered(u) => past' \subseteq Events
      BY <3>1 DEF Unregistered, Events
    <3>4. \A new, cert, ok : Registered(new, cert, ok) => past' \subseteq Events
      BY <3>1, <3>2 DEF Registered, Events
    <3>5. \A new, cert, ok : Upgraded(new, cert, ok) => past' \subseteq Events
      BY <3>1, <3>2 DEF Upgraded, Events
    <3>6. \A ok, c : Check(ok, c) \/ Passes(c) \/ Refused => past' = past
      BY DEF Check, Passes, Refused
    <3>7. CASE Register \/ RegisterUndo \/ Update \/ UpdateUndo \/ Unregister \/ UnregisterUndo
      BY <3>2, <3>3, <3>4, <3>5, <3>7
      DEF Register, RegisterUndo, Update, UpdateUndo, Unregister, UnregisterUndo
    <3>8. CASE Recover
      <4>1. (\E u \in Users : Unregistered(u)) \/ Happens({"recovered"}) \/ past' = past
        BY <3>8 DEF Recover, RecoveryNew, RecoveryUpdate
      <4> QED
        BY <3>1, <3>2, <3>3, <4>1 DEF Events
    <3>9. CASE Configure \/ CheckTizenVersion \/ CheckSignature \/ PrivilegeCompatibility
               \/ CheckBackgroundCategory \/ CheckOldCertificate \/ BlockCrossUpdate \/ Rest
      BY <3>2, <3>6, <3>9
      DEF Configure, CheckTizenVersion, CheckSignature, PrivilegeCompatibility,
          CheckBackgroundCategory, CheckOldCertificate, BlockCrossUpdate, Rest
    <3>10. CASE Request \/ Nothing \/ EndRequest \/ Crash
      BY <3>2, <3>10 DEF Request, Nothing, EndRequest, Crash
    <3> QED
      BY <1>2, <3>7, <3>8, <3>9, <3>10 DEF Next
  <2>2. CASE Request
    BY <2>1, <2>2, RequestMoves DEF LoopInv, Phases
  <2>3. CASE EndRequest \/ Crash
    <3>1. phase' = "idle" /\ it' = 1 /\ req' = NoRequest
      BY <2>3 DEF EndRequest, Crash
    <3>2. ListsKnown'
      BY ThreeLists, PTL
    <3>3. NumSteps' = 3
      BY <3>1, <3>2
      DEF NoRequest, NumSteps, ListsKnown, RemoveList, InstallTypes, UpdateTypes
    <3>4. NoRequest \in RequestType
      BY UsersAssumption DEF NoRequest, RequestType, Types
    <3> QED
      BY <2>1, <3>1, <3>3, <3>4 DEF LoopInv, Phases
  <2>4. CASE Recover
    <3>1. UNCHANGED <<runnerVars, req>>
      BY <2>4 DEF Recover
    <3> QED
      BY <2>1, <3>1 DEF LoopInv, runnerVars, NumSteps, Pipeline
  <2>5. CASE ~Request /\ ~EndRequest /\ ~Crash /\ ~Recover
    BY <1>2, <2>1, <2>5, LoopMoves, LoopStep DEF LoopInv
  <2> QED
    BY <2>2, <2>3, <2>4, <2>5
<1> QED
  BY <1>1, <1>2

-------------------------------------------------------------------------------
(* The operators the checks are built from. *)

LEMMA LevelsAreRanked ==
  /\ Levels \subseteq Nat
  /\ UNTRUSTED \in Levels /\ PUBLIC \in Levels /\ PARTNER \in Levels /\ PLATFORM \in Levels
  /\ \A m, n \in Levels : Higher(m, n) \in Levels /\ m <= Higher(m, n) /\ n <= Higher(m, n)
  /\ \A m, n, l \in Levels : m <= l /\ n <= l => Higher(m, n) <= l
  BY DEF Levels, UNTRUSTED, PUBLIC, PARTNER, PLATFORM, Higher

\* The four parts the list of background categories is rebuilt from are the
\* declared ones again, or all, for every level.
LEMMA CategoriesKept == CategoriesAsDeclared
<1> SUFFICES ASSUME NEW old \in BOOLEAN, NEW support \in BOOLEAN, NEW level \in Levels,
                    NEW declared \in SUBSET Categories, ~ShouldSendFail(level, declared)
             PROVE  Granted(old, support, level, declared) =
                      declared \cup (IF old /\ support /\ level # UNTRUSTED THEN Known ELSE {})
  BY DEF CategoriesAsDeclared
<1>0. level \in {UNTRUSTED, PUBLIC, PARTNER, PLATFORM}
  BY DEF Levels, UNTRUSTED, PUBLIC, PARTNER, PLATFORM
<1>l. /\ UNTRUSTED # PUBLIC /\ UNTRUSTED # PARTNER /\ UNTRUSTED # PLATFORM
      /\ PUBLIC # PARTNER /\ PUBLIC # PLATFORM
  BY DEF UNTRUSTED, PUBLIC, PARTNER, PLATFORM
<1>k. "system" \notin Known
  BY DEF Known
<1> DEFINE rest == declared \ (Known \cup {"system"})
<1>1. CASE level = UNTRUSTED
  BY <1>1, <1>l
  DEF Granted, ShouldSendFail, ShouldSendAll, ShouldSendSystem, ShouldSendKnown,
      ShouldSendUnknown, IsTrustedCert
<1>2. CASE level = PUBLIC
  <2>1. "system" \notin declared /\ ~ShouldSendSystem(level, declared)
    BY <1>2, <1>l DEF ShouldSendFail, ShouldSendSystem, IsTrustedCert
  <2>2. ShouldSendAll(old, support, level, declared) = (old /\ support)
    BY <1>2, <2>1 DEF ShouldSendAll
  <2> QED
    BY <1>2, <1>l, <2>1, <2>2 DEF Granted, ShouldSendKnown, ShouldSendUnknown
<1>3. CASE level \in {PARTNER, PLATFORM}
  <2>1. ShouldSendSystem(level, declared) = ("system" \in declared)
    BY <1>3 DEF ShouldSendSystem, IsTrustedCert
  <2>2. ShouldSendAll(old, support, level, declared) = (old /\ support)
    BY <1>3 DEF ShouldSendAll, IsTrustedCert
  <2> QED
    BY <1>3, <1>l, <2>1, <2>2 DEF Granted, ShouldSendKnown, ShouldSendUnknown
<1> QED
  BY <1>0, <1>1, <1>2, <1>3

\* Only a partner or the platform gets the category "system".
LEMMA SystemIsTrusted ==
  ASSUME NEW old, NEW support, NEW level, NEW declared,
         "system" \in Granted(old, support, level, declared)
  PROVE  level \in {PARTNER, PLATFORM}
  BY DEF Granted, ShouldSendSystem, IsTrustedCert, Known

\* What the validation finds out is a level, and whether there is an author.
LEMMA ValidatedType ==
  ASSUME NEW reference \in BOOLEAN, NEW preload \in BOOLEAN,
         NEW v \in Validated[reference][preload]
  PROVE  v.level \in Levels
<1>1. Validated[reference][preload] =
        {[signed |-> AuthorCertificate(sigs, reference, "author") # NoCert,
          level |-> SignatureLevel(sigs, reference, store)] :
           store \in Levels,
           sigs \in {s \in UNION {[files -> Verdicts] : files \in SUBSET SignatureFiles} :
                       ValidateSignatures(s, reference, preload)}}
  BY SMT DEF Validated
<1>2. \A sigs : \A store \in Levels : SignatureLevel(sigs, reference, store) \in Levels
  BY LevelsAreRanked DEF SignatureLevel
<1>3. \E store \in Levels : \E sigs :
        v = [signed |-> AuthorCertificate(sigs, reference, "author") # NoCert,
             level |-> SignatureLevel(sigs, reference, store)]
  BY <1>1
<1> QED
  BY <1>2, <1>3

-------------------------------------------------------------------------------
(* RightsInv is an invariant. *)

Signers == Authors \cup {NoCert}
CtxType == [author : Signers, level : Levels, needs : Levels, oldApi : BOOLEAN,
            old : FittingRows, saved : Signers]

LEMMA NoRowFits == NoRow \in FittingRows /\ NoRow.author = NoCert
  BY LevelsAreRanked DEF NoRow, FittingRows, UNTRUSTED

LEMMA RightsInvInit == Init => RightsInv
  BY NoRowFits, LevelsAreRanked DEF Init, RightsInv, Fresh, UNTRUSTED

LEMMA NewRowsFit ==
  ASSUME RightsInv, NEW new \in NewRows
  PROVE  new \in FittingRows /\ new.author = ctx.author
<1>1. ctx.old.mounted \in BOOLEAN
  BY DEF RightsInv, FittingRows
<1>2. \E mounted \in BOOLEAN : new = NewRow(mounted)
  BY <1>1 DEF NewRows
<1> QED
  BY <1>2 DEF NewRow, RightsInv, FittingRows

\* What a step may write to the database.
LEMMA RowsFit ==
  ASSUME RightsInv, LoopInv
  PROVE  /\ \A new \in FittingRows : \A cert \in Signers : \A ok \in BOOLEAN :
              Registered(new, cert, ok) \/ Upgraded(new, cert, ok) =>
                row' \in [Users -> FittingRows] /\ record' \in Signers
         /\ \A u \in Users :
              Unregistered(u) => row' \in [Users -> FittingRows] /\ record' \in Signers
<1>1. row \in [Users -> FittingRows] /\ record \in Signers /\ req.user \in Users
  BY DEF RightsInv, LoopInv, RequestType, Signers
<1>2. \A u : Deleted(u) \subseteq Signers
  BY <1>1 DEF Deleted, Signers
<1>3. NoRow \in FittingRows
  BY NoRowFits
<1> QED
  BY <1>1, <1>2, <1>3 DEF Registered, Upgraded, Unregistered

\* What a package brings that CheckSignature lets through.
Signed(cert, level, needs) ==
  [ctx EXCEPT !.author = cert, !.level = level, !.needs = needs]

LEMMA SignatureMoves ==
  ASSUME RightsInv, LoopInv, CheckSignature, ~Refused
  PROVE  \E cert \in Signers, level \in Levels, needs \in Levels :
           /\ cert # NoCert => ~CheckPkgCertificateMismatch(cert)
           /\ level # UNTRUSTED /\ needs <= level
           /\ Passes(Signed(cert, level, needs))
           /\ Signed(cert, level, needs) \in CtxType
           /\ Signed(cert, level, needs).author = cert
           /\ Signed(cert, level, needs).level = level
           /\ Signed(cert, level, needs).needs = needs
           /\ Signed(cert, level, needs).old = ctx.old
<1> DEFINE direct == req.type \in {"ManifestDirectInstall", "ManifestDirectUpdate"}
           reference == ~(req.root /\ direct)
<1>t. ctx \in CtxType
  BY DEF RightsInv, CtxType, Signers
<1>0. reference \in BOOLEAN /\ req.preload \in BOOLEAN
  BY DEF LoopInv, RequestType
<1>1. PICK v \in Validated[reference][req.preload], author \in Authors, needs \in Levels :
        LET cert == IF v.signed THEN author ELSE NoCert
            level == IF req.preload THEN PLATFORM ELSE v.level
        IN  Check(/\ cert # NoCert => ~CheckPkgCertificateMismatch(cert)
                  /\ level # UNTRUSTED
                  /\ req.preload \/ ValidatePrivilegeLevel(level, needs),
                  [ctx EXCEPT !.author = cert, !.level = level, !.needs = needs])
  BY DEF CheckSignature
<1> DEFINE cert == IF v.signed THEN author ELSE NoCert
           level == IF req.preload THEN PLATFORM ELSE v.level
<1>2. v.level \in Levels
  BY <1>0, ValidatedType
<1> HIDE DEF reference
<1>3. level \in Levels /\ cert \in Signers
  BY <1>2, LevelsAreRanked DEF Signers
<1>4. /\ cert # NoCert => ~CheckPkgCertificateMismatch(cert)
      /\ level # UNTRUSTED /\ (req.preload \/ ValidatePrivilegeLevel(level, needs))
      /\ Passes(Signed(cert, level, needs))
  BY <1>1 DEF Check, Signed
<1>5. needs <= level
  BY <1>4 DEF ValidatePrivilegeLevel, Levels, PLATFORM, UNTRUSTED
<1> HIDE DEF cert, level
<1>6. /\ Signed(cert, level, needs) \in CtxType
      /\ Signed(cert, level, needs).author = cert
      /\ Signed(cert, level, needs).level = level
      /\ Signed(cert, level, needs).needs = needs
      /\ Signed(cert, level, needs).old = ctx.old
  BY <1>t, <1>3 DEF CtxType, Signed
<1> QED
  BY <1>3, <1>4, <1>5, <1>6

\* The other checks keep author and level, and stay within the level.
LEMMA CheckMoves ==
  ASSUME RightsInv, LevelInv, LoopInv, ~Refused,
         \/ Configure \/ CheckTizenVersion \/ PrivilegeCompatibility \/ CheckBackgroundCategory
         \/ CheckOldCertificate \/ BlockCrossUpdate \/ Rest
  PROVE  \E c \in CtxType : /\ Passes(c) /\ c.needs <= c.level
                            /\ c.author = ctx.author /\ c.level = ctx.level /\ c.old = ctx.old
<1>t. ctx \in CtxType /\ ctx.needs <= ctx.level
  BY DEF RightsInv, CtxType, Signers
<1>1. CASE Configure \/ CheckOldCertificate \/ BlockCrossUpdate \/ Rest
  <2>1. Passes(ctx)
    BY <1>1 DEF Configure, CheckOldCertificate, BlockCrossUpdate, Rest, Check
  <2> QED
    BY <1>t, <2>1
<1>2. CASE CheckTizenVersion
  <2>1. PICK version : Check(version \in {"old", "current"}, [ctx EXCEPT !.oldApi = (version = "old")])
    BY <1>2 DEF CheckTizenVersion
  <2> DEFINE c == [ctx EXCEPT !.oldApi = (version = "old")]
  <2>2. c \in CtxType /\ c.needs <= c.level /\ c.author = ctx.author /\ c.level = ctx.level
        /\ c.old = ctx.old
    BY <1>t DEF CtxType
  <2>3. Passes(c)
    BY <2>1 DEF Check
  <2> HIDE DEF c
  <2> QED
    BY <2>2, <2>3
\* The privilege every package of its level gets is within it.
<1>3. CASE PrivilegeCompatibility
  <2> DEFINE needs == Higher(ctx.needs, Higher(PUBLIC, ctx.level))
             c == [ctx EXCEPT !.needs = needs]
  <2>1. Passes(c)
    BY <1>3 DEF PrivilegeCompatibility
  <2>2. c \in CtxType /\ c.level = ctx.level /\ c.needs = needs /\ c.author = ctx.author
        /\ c.old = ctx.old
    BY <1>t, LevelsAreRanked DEF CtxType
  <2>3. ctx.level # UNTRUSTED
    BY <1>3, Places DEF PrivilegeCompatibility, Process, LevelInv, LoopInv
  <2>4. needs <= ctx.level
    BY <1>t, <2>3 DEF CtxType, Levels, PUBLIC, UNTRUSTED, PLATFORM, Higher
  <2> HIDE DEF c
  <2> QED
    BY <2>1, <2>2, <2>4
\* The category "system" adds what only a trusted package may ask for.
<1>4. CASE CheckBackgroundCategory
  <2>1. PICK declared \in SUBSET Categories, support \in BOOLEAN :
          LET granted == Granted(ctx.oldApi, support, ctx.level, declared)
          IN  Check(~ShouldSendFail(ctx.level, declared),
                    [ctx EXCEPT !.needs = IF "system" \in granted THEN Higher(@, PARTNER) ELSE @,
                                !.oldApi = FALSE])
    BY <1>4 DEF CheckBackgroundCategory
  <2> DEFINE system == "system" \in Granted(ctx.oldApi, support, ctx.level, declared)
             needs == IF system THEN Higher(ctx.needs, PARTNER) ELSE ctx.needs
             c == [ctx EXCEPT !.needs = needs, !.oldApi = FALSE]
  <2>2. c = [ctx EXCEPT !.needs = IF system THEN Higher(@, PARTNER) ELSE @, !.oldApi = FALSE]
    BY <1>t DEF CtxType
  <2>3. system => ctx.level \in {PARTNER, PLATFORM}
    BY SystemIsTrusted
  <2>4. needs \in Levels /\ needs <= ctx.level
    <3> HIDE DEF system
    <3> QED
      BY <1>t, <2>3, LevelsAreRanked DEF CtxType, Levels, PARTNER, PLATFORM, UNTRUSTED, Higher
  <2> HIDE DEF needs
  <2>5. c \in CtxType /\ c.needs <= c.level /\ c.author = ctx.author /\ c.level = ctx.level
        /\ c.old = ctx.old
    BY <1>t, <2>4 DEF CtxType
  <2>6. Check(~ShouldSendFail(ctx.level, declared), c)
    BY <2>1, <2>2
  <2> HIDE DEF c
  <2>7. Passes(c)
    BY <2>6 DEF Check
  <2> QED
    BY <2>5, <2>7
<1> QED
  BY <1>1, <1>2, <1>3, <1>4

LEMMA RightsInvStep == RightsInv /\ LevelInv /\ LoopInv /\ [Next]_vars => RightsInv'
<1> SUFFICES ASSUME RightsInv, LevelInv, LoopInv, [Next]_vars
             PROVE  RightsInv'
  OBVIOUS
<1>t. /\ row \in [Users -> FittingRows]
      /\ died \in [Users -> SUBSET [type : {"Install", "Update"}, old : FittingRows]]
      /\ ctx \in CtxType /\ ctx.needs <= ctx.level /\ record \in Signers
  BY DEF RightsInv, CtxType, Signers
<1>a. ASSUME row' \in [Users -> FittingRows], record' \in Signers,
             died' \in [Users -> SUBSET [type : {"Install", "Update"}, old : FittingRows]],
             ctx' \in CtxType, ctx'.needs <= ctx'.level
      PROVE  RightsInv'
  BY <1>a DEF RightsInv, CtxType, Signers
<1>b. ASSUME UNCHANGED <<row, record, died>>, ctx' \in CtxType, ctx'.needs <= ctx'.level
      PROVE  RightsInv'
  BY <1>t, <1>a, <1>b
<1>c. ASSUME NEW c \in CtxType, c.needs <= c.level, Passes(c)
      PROVE  RightsInv'
  BY <1>b, <1>c DEF Passes
<1>r. Refused => RightsInv'
  BY <1>t, <1>b DEF Refused
<1>f. Fresh \in CtxType /\ Fresh.needs <= Fresh.level
  BY NoRowFits, LevelsAreRanked DEF Fresh, CtxType, Signers, UNTRUSTED
<1>1. CASE UNCHANGED vars
  BY <1>t, <1>b, <1>1 DEF vars
<1>2. CASE Request
  <2>1. req'.user \in Users /\ ctx' = [Fresh EXCEPT !.old = row[req'.user]]
    BY <1>2, RequestMoves DEF RequestType
  <2>2. row[req'.user] \in FittingRows
    BY <1>t, <2>1
  <2>3. ctx' \in CtxType /\ ctx'.needs <= ctx'.level
    BY <1>f, <2>1, <2>2 DEF CtxType
  <2> QED
    BY <1>2, <1>b, <2>3 DEF Request
<1>3. CASE \/ Configure \/ CheckTizenVersion \/ PrivilegeCompatibility \/ CheckBackgroundCategory
          \/ CheckOldCertificate \/ BlockCrossUpdate \/ Rest
  BY <1>c, <1>r, <1>3, CheckMoves
<1>4. CASE CheckSignature
  BY <1>c, <1>r, <1>4, SignatureMoves
<1>8. CASE Register \/ Update \/ UpdateUndo \/ UnregisterUndo
  <2>1. \E new \in FittingRows, cert \in Signers, ok \in BOOLEAN :
           Registered(new, cert, ok) \/ Upgraded(new, cert, ok)
    <3>1. ctx.old \in FittingRows /\ ctx.author \in Signers /\ ctx.saved \in Signers
      BY <1>t DEF CtxType
    <3> QED
      BY <1>8, <1>t, <3>1, NewRowsFit DEF Register, Update, UpdateUndo, UnregisterUndo
  <2>2. row' \in [Users -> FittingRows] /\ record' \in Signers
    BY <2>1, RowsFit
  <2> QED
    BY <1>8, <1>t, <1>a, <2>2 DEF Register, Update, UpdateUndo, UnregisterUndo
<1>9. CASE RegisterUndo \/ Unregister
  <2>1. \/ Unregistered(req.user)
        \/ UNCHANGED <<row, record>>
    BY <1>9 DEF RegisterUndo, Unregister
  <2>2. row' \in [Users -> FittingRows] /\ record' \in Signers
    BY <1>t, <2>1, RowsFit DEF LoopInv, RequestType
  <2>3. died' = died /\ (ctx' = ctx \/ ctx' = [ctx EXCEPT !.saved = record])
    BY <1>9 DEF RegisterUndo, Unregister
  <2>4. ctx' \in CtxType /\ ctx'.needs <= ctx'.level
    BY <1>t, <2>3 DEF CtxType
  <2> QED
    BY <1>t, <1>a, <2>2, <2>3, <2>4
<1>10. CASE Nothing
  BY <1>10, <1>t, <1>b DEF Nothing
<1>11. CASE EndRequest
  BY <1>11, <1>f, <1>b DEF EndRequest
<1>12. CASE Crash
  <2>1. req.user \in Users /\ ctx.old \in FittingRows
    BY <1>t DEF CtxType, LoopInv, RequestType
  <2>. DEFINE new == {[type |-> t, old |-> ctx.old] : t \in {"Install", "Update"} \cap {req.type}}
  <2>2. died' = [died EXCEPT ![req.user] = @ \cup new]
    BY <1>12 DEF Crash
  <2>3. new \in SUBSET [type : {"Install", "Update"}, old : FittingRows]
    BY <2>1
  <2>. HIDE DEF new
  <2>4. died' \in [Users -> SUBSET [type : {"Install", "Update"}, old : FittingRows]]
    BY <1>t, <2>1, <2>2, <2>3
  <2> QED
    BY <1>12, <1>t, <1>f, <1>a, <2>4 DEF Crash
<1>13. CASE Recover
  <2>0. PICK u \in Users : \E d \in died[u] :
          /\ died' = died \/ died' = [died EXCEPT ![u] = @ \ {d}]
          /\ RecoveryNew(u) \/ \E ok \in BOOLEAN : RecoveryUpdate(u, d.old, ok)
    BY <1>13 DEF Recover
  <2>1. PICK d \in died[u] :
          /\ died' = died \/ died' = [died EXCEPT ![u] = @ \ {d}]
          /\ RecoveryNew(u) \/ \E ok \in BOOLEAN : RecoveryUpdate(u, d.old, ok)
    BY <2>0
  <2>2. d \in [type : {"Install", "Update"}, old : FittingRows]
    BY <1>t, <2>1
  <2>3. died' \in [Users -> SUBSET [type : {"Install", "Update"}, old : FittingRows]]
    BY <1>t, <2>1
  <2>4. row' \in [Users -> FittingRows] /\ record' \in Signers
    <3>1. CASE Unregistered(u)
      BY <3>1, RowsFit
    <3>2. ASSUME NEW ok \in BOOLEAN, RecoveryUpdate(u, d.old, ok)
          PROVE  row' \in [Users -> FittingRows] /\ record' \in Signers
      <4>1. \E new \in {row[u], NoRow, d.old} : row' = [row EXCEPT ![u] = new]
        BY <1>t, <3>2 DEF RecoveryUpdate
      <4>2. record' \in {record, NoCert}
        BY <3>2 DEF RecoveryUpdate, Deleted
      <4>. QED
        BY <1>t, <2>2, <4>1, <4>2, NoRowFits DEF Signers
    <3> QED
      BY <1>t, <2>1, <3>1, <3>2 DEF RecoveryNew
  <2> QED
    BY <1>13, <1>t, <1>a, <2>3, <2>4 DEF Recover
<1> QED
  BY <1>1, <1>2, <1>3, <1>4, <1>8, <1>9, <1>10, <1>11, <1>12, <1>13 DEF Next

-------------------------------------------------------------------------------
(* LevelInv is an invariant. *)

LEMMA LevelInvStep == LevelInv /\ LoopInv /\ RightsInv /\ [Next]_vars => LevelInv'
<1> SUFFICES ASSUME LevelInv, LoopInv, RightsInv, [Next]_vars, ~UNCHANGED vars,
                    phase' = "process", ~Removes', it' > 3
             PROVE  ctx'.level # UNTRUSTED
  BY DEF LevelInv, vars, runnerVars, Removes
<1>1. Next
  OBVIOUS
<1>2. ~Request /\ ~EndRequest /\ ~Crash
  <2>1. it' = 1 \/ phase' = "idle" => FALSE
    OBVIOUS
  <2> QED
    BY <2>1 DEF Request, BeginRun, EndRequest, Crash
<1>3. CASE Recover
  BY <1>3 DEF Recover, runnerVars, LevelInv, Removes
<1>4. CASE ~Recover
  <2>1. req' = req /\ phase = "process" /\ it' = it + 1 /\ it \in Nat
    BY <1>1, <1>2, <1>4, LoopMoves, Places
    DEF StepOk, StepFails, StepCleaned, StepUndone, LoopInv
  <2>2. ~Removes
    BY <2>1 DEF Removes
  <2>r. ~Refused
    BY <2>1 DEF Refused, StepFails
  <2>3. CASE it = 3
    <3>1. Step = "CheckSignature"
      BY <2>2, <2>3, Places DEF LoopInv
    <3>2. CheckSignature
      BY <1>1, <1>2, <1>4, <2>1, <3>1
      DEF Next, Configure, CheckTizenVersion, PrivilegeCompatibility, CheckBackgroundCategory,
          CheckOldCertificate, BlockCrossUpdate, Register, RegisterUndo, Update, UpdateUndo,
          Unregister, UnregisterUndo, Rest, Nothing, Process
    <3> QED
      BY <2>r, <3>2, SignatureMoves DEF Passes
  <2>4. CASE it > 3
    <3>1. Step # "CheckSignature" /\ Step # "Unregister"
      BY <2>2, <2>4, Places DEF LoopInv
    <3>2. ctx'.level = ctx.level
      <4>1. CASE \/ Configure \/ CheckTizenVersion \/ PrivilegeCompatibility
                 \/ CheckBackgroundCategory \/ CheckOldCertificate \/ BlockCrossUpdate \/ Rest
        BY <2>r, <4>1, CheckMoves DEF Passes
      <4>3. CASE Register \/ RegisterUndo \/ Update \/ UpdateUndo \/ UnregisterUndo \/ Nothing
        BY <4>3 DEF Register, RegisterUndo, Update, UpdateUndo, UnregisterUndo, Nothing
      <4> QED
        BY <1>1, <1>2, <1>4, <3>1, <4>1, <4>3
        DEF Next, CheckSignature, Unregister, Process
    <3> QED
      BY <2>1, <2>2, <2>4, <3>2 DEF LevelInv
  <2>5. it > 2
    BY <2>1
  <2> QED
    BY <2>1, <2>3, <2>4, <2>5
<1> QED
  BY <1>3, <1>4

-------------------------------------------------------------------------------
(* AuthorInv is an invariant. *)

LEMMA AuthorInvInit == Init => AuthorInv
<1>1. Init => RowsAgree /\ phase = "idle"
  BY NoRowFits DEF Init, RunnerInit, RowsAgree
<1> QED
  BY <1>1 DEF AuthorInv, AuthorsAgree

\* History only grows.
LEMMA PastGrows ==
  ASSUME Next, past' = {}
  PROVE  past = {}
<1>1. \A events : Happens(events) => past = {}
  BY DEF Happens
<1>2. past' = past => past = {}
  OBVIOUS
<1>3. \A u : Unregistered(u) => past = {}
  BY <1>1 DEF Unregistered
<1>4. \A new, cert, ok : Registered(new, cert, ok) \/ Upgraded(new, cert, ok) => past = {}
  BY <1>1, <1>2 DEF Registered, Upgraded
<1>5. CASE Register \/ RegisterUndo \/ Update \/ UpdateUndo \/ Unregister \/ UnregisterUndo
  BY <1>2, <1>3, <1>4, <1>5
  DEF Register, RegisterUndo, Update, UpdateUndo, Unregister, UnregisterUndo
<1>6. CASE Recover
  BY <1>1, <1>2, <1>3, <1>6 DEF Recover, RecoveryNew, RecoveryUpdate
<1>7. \A ok, c : Check(ok, c) \/ Passes(c) \/ Refused => past' = past
  BY DEF Check, Passes, Refused
<1>8. CASE Configure \/ CheckTizenVersion \/ CheckSignature \/ PrivilegeCompatibility
           \/ CheckBackgroundCategory \/ CheckOldCertificate \/ BlockCrossUpdate \/ Rest
  BY <1>2, <1>7, <1>8
  DEF Configure, CheckTizenVersion, CheckSignature, PrivilegeCompatibility,
      CheckBackgroundCategory, CheckOldCertificate, BlockCrossUpdate, Rest
<1>9. CASE Request \/ Nothing \/ EndRequest \/ Crash
  BY <1>2, <1>9 DEF Request, Nothing, EndRequest, Crash
<1> QED
  BY <1>5, <1>6, <1>8, <1>9 DEF Next

\* A removal takes the record of another's package with it only as an exception.
LEMMA UnregisteredAuthors ==
  ASSUME row \in [Users -> FittingRows], RowsAgree, past' = {},
         NEW u \in Users, Unregistered(u)
  PROVE  /\ RowsAgree'
         /\ record' \in {record, NoCert}
         /\ record' = record \/ \A v \in Users : row'[v].author = NoCert
<1>1. row' = [row EXCEPT ![u] = NoRow] /\ record' \in {record, NoCert}
  BY DEF Unregistered, Deleted
<1>2. \A v \in Users : row'[v] = IF v = u THEN NoRow ELSE row[v]
  BY <1>1
<1>3. record' = record \/ Others(u) = {}
  BY DEF Unregistered, Happens
<1>4. CASE record' = record
  BY <1>2, <1>4, NoRowFits DEF RowsAgree
<1>5. CASE Others(u) = {}
  <2>1. \A v \in Users \ {u} : row[v] = NoRow
    BY <1>5 DEF Others, Has
  <2>2. \A v \in Users : row'[v].author = NoCert
    BY <1>2, <2>1, NoRowFits
  <2> QED
    BY <1>1, <2>2 DEF RowsAgree
<1> QED
  BY <1>1, <1>3, <1>4, <1>5

\* A step that leaves the database and the request alone.
LEMMA AuthorsUntouched ==
  ASSUME AuthorsAgree, UNCHANGED <<row, record, req>>, ctx' = ctx,
         it \in 1..NumSteps,
         \/ phase' \notin {"process", "undo"}
         \/ phase' = "undo" /\ phase = "undo" /\ it' = it - 1
         \/ phase' = "undo" /\ phase = "process" /\ it' = it /\ (Removes => it # 2)
  PROVE  AuthorsAgree'
<1>1. it \in 1..9 /\ (Removes => it \in 1..3)
  BY Places DEF Removes, Updates
<1>2. RowsAgree' /\ (Updates' <=> Updates) /\ (Removes' <=> Removes)
  BY DEF AuthorsAgree, RowsAgree, Updates, Removes
<1>3. CASE phase' \notin {"process", "undo"}
  BY <1>2, <1>3 DEF AuthorsAgree
<1>4. CASE phase' = "undo" /\ phase = "undo" /\ it' = it - 1
  BY <1>1, <1>2, <1>4 DEF AuthorsAgree
<1>5. CASE phase' = "undo" /\ phase = "process" /\ it' = it /\ (Removes => it # 2)
  BY <1>1, <1>2, <1>5 DEF AuthorsAgree
<1> QED
  BY <1>3, <1>4, <1>5

\* A check passes; what it has found out is in the context, or in the record.
LEMMA AuthorsChecked ==
  ASSUME AuthorsAgree, NEW c \in CtxType, Passes(c), it \in 1..NumSteps,
         c.old = ctx.old,
         c.author = ctx.author \/ (it = 3 /\ (c.author \in {NoCert, record} \/ record = NoCert)),
         it = 2 => ~Removes,
         it = 6 /\ Updates => record = ctx.author
  PROVE  AuthorsAgree'
<1>1. it \in 1..9 /\ (Removes => it \in 1..3) /\ UNCHANGED <<row, record, req>> /\ ctx' = c
  BY Places DEF Removes, Updates, Passes
<1>2. RowsAgree' /\ (Updates' <=> Updates) /\ (Removes' <=> Removes)
  BY <1>1 DEF AuthorsAgree, RowsAgree, Updates, Removes
<1>3. phase = "process" /\ (phase' = "clean" \/ (phase' = "process" /\ it' = it + 1))
  BY DEF Passes, StepOk
<1>4. CASE phase' = "clean"
  BY <1>2, <1>4 DEF AuthorsAgree
<1>5. CASE phase' = "process" /\ it' = it + 1
  BY <1>1, <1>2, <1>3, <1>5 DEF AuthorsAgree
<1> QED
  BY <1>3, <1>4, <1>5

LEMMA AuthorInvStep == AuthorInv /\ RightsInv /\ LevelInv /\ LoopInv /\ [Next]_vars => AuthorInv'
<1> SUFFICES ASSUME AuthorInv, RightsInv, LevelInv, LoopInv, [Next]_vars, past' = {}
             PROVE  AuthorsAgree'
  BY DEF AuthorInv
<1>0. AuthorsAgree
  BY PastGrows DEF AuthorInv, vars
<1>t. /\ row \in [Users -> FittingRows] /\ it \in 1..NumSteps /\ phase \in Phases
      /\ req.user \in Users /\ req.type \in Types
  BY DEF RightsInv, LoopInv, RequestType
<1>i. it \in 1..9 /\ (Removes => it \in 1..3)
  BY <1>t, Places DEF Removes, Updates
<1>r. ASSUME Refused, it = 2 => ~Removes
      PROVE  AuthorsAgree'
  <2>1. UNCHANGED <<row, record, req>> /\ ctx' = ctx /\ phase = "process" /\ phase' = "undo"
        /\ it' = it
    BY <1>r DEF Refused, StepFails
  <2> QED
    BY <1>0, <1>t, <1>r, <2>1, AuthorsUntouched
<1>1. CASE UNCHANGED vars
  <2>1. RowsAgree' /\ (Updates' <=> Updates) /\ (Removes' <=> Removes)
    BY <1>0, <1>1 DEF AuthorsAgree, RowsAgree, vars, Updates, Removes
  <2> QED
    BY <1>0, <1>1, <2>1 DEF AuthorsAgree, vars, runnerVars
<1>2. CASE Request
  <2>1. /\ phase' = "process" /\ it' = 1 /\ UNCHANGED <<row, record>> /\ req'.user \in Users
        /\ ctx' = [Fresh EXCEPT !.old = row[req'.user]]
    BY <1>2, RequestMoves DEF Request, RequestType
  <2>2. ctx'.author = NoCert /\ ctx'.old = row[req'.user]
    BY <2>1 DEF Fresh
  <2>3. RowsAgree' /\ ctx'.old.author \in {NoCert, record'}
    BY <1>0, <2>1, <2>2 DEF AuthorsAgree, RowsAgree
  <2> QED
    BY <2>1, <2>2, <2>3 DEF AuthorsAgree
<1>3. CASE \/ Configure \/ CheckTizenVersion \/ PrivilegeCompatibility \/ CheckBackgroundCategory
          \/ CheckOldCertificate \/ BlockCrossUpdate \/ Rest
  <2>1. it = 2 => ~Removes
    BY <1>3, <1>t, Places
    DEF Configure, CheckTizenVersion, PrivilegeCompatibility, CheckBackgroundCategory,
        CheckOldCertificate, BlockCrossUpdate, Rest, Process
  <2>2. CASE Refused
    BY <1>r, <2>1, <2>2
  <2>3. CASE ~Refused
    <3>1. PICK c \in CtxType : Passes(c) /\ c.author = ctx.author /\ c.old = ctx.old
      BY <1>3, <2>3, CheckMoves
    <3>2. it = 6 /\ Updates => CheckOldCertificate
      <4>1. Updates => NumSteps = 9
        BY <1>t, Places DEF Updates
      <4>2. CASE Rest
        <5>1. it = NumSteps
          BY <1>t, <4>2, Places DEF Rest, Process
        <5> QED
          BY <4>1, <5>1
      <4>3. CASE ~Rest
        <5>1. \/ CheckOldCertificate \/ Step = "Configure" \/ Step = "CheckTizenVersion"
              \/ Step = "PrivilegeCompatibility" \/ Step = "CheckBackgroundCategory"
              \/ Step = "BlockCrossUpdate"
          BY <1>3, <4>3
          DEF Configure, CheckTizenVersion, PrivilegeCompatibility, CheckBackgroundCategory,
              BlockCrossUpdate, Process
        <5> QED
          BY <1>t, <5>1, Places
      <4> QED
        BY <4>2, <4>3
    <3>3. CheckOldCertificate => record = ctx.author
      BY <2>3 DEF CheckOldCertificate, Check
    <3> QED
      BY <1>0, <1>t, <2>1, <3>1, <3>2, <3>3, AuthorsChecked
  <2> QED
    BY <2>2, <2>3
<1>4. CASE CheckSignature
  <2>1. it = 3 /\ ~Removes
    BY <1>4, <1>t, Places DEF CheckSignature, Process
  <2>2. CASE Refused
    BY <1>r, <2>1, <2>2
  <2>3. CASE ~Refused
    <3>1. \E c \in CtxType : /\ Passes(c) /\ c.old = ctx.old
                             /\ c.author # NoCert => ~CheckPkgCertificateMismatch(c.author)
      BY <1>4, <2>3, SignatureMoves
    <3> QED
      BY <1>0, <1>t, <2>1, <3>1, AuthorsChecked DEF CheckPkgCertificateMismatch
  <2> QED
    BY <2>2, <2>3
<1>5. CASE Register
  <2>1. it = 6 /\ req.type \in InstallTypes /\ phase = "process"
    BY <1>5, <1>t, Places DEF Register, Process
  <2>2. ~Updates' /\ ~Removes'
    BY <1>5, <2>1 DEF Register, Updates, Removes, InstallTypes, UpdateTypes
  <2>3. ctx' = ctx /\ (ctx.author \in {NoCert, record} \/ record = NoCert)
    BY <1>0, <1>5, <2>1 DEF Register, AuthorsAgree
  <2>4. PICK new \in NewRows, ok \in BOOLEAN : Registered(new, ctx.author, ok)
    BY <1>5 DEF Register
  <2>5. new.author = ctx.author
    BY NewRowsFit
  <2>6. CASE UNCHANGED <<row, record>>
    BY <1>0, <2>2, <2>3, <2>6 DEF AuthorsAgree, RowsAgree
  <2>7. CASE /\ row' = [row EXCEPT ![req.user] = new] /\ record' = ctx.author
             /\ ctx.author # NoCert \/ record = NoCert
    <3>1. RowsAgree'
      BY <1>0, <1>t, <2>3, <2>5, <2>7 DEF AuthorsAgree, RowsAgree
    <3> QED
      BY <2>2, <2>3, <2>7, <3>1 DEF AuthorsAgree
  <2> QED
    BY <2>4, <2>6, <2>7 DEF Registered, Happens
<1>6. CASE RegisterUndo
  <2>1. ~Updates' /\ ~Removes' /\ phase' # "process"
    BY <1>6, <1>t, Places
    DEF RegisterUndo, Updates, Removes, InstallTypes, UpdateTypes, StepUndone
  <2>2. Unregistered(req.user) \/ UNCHANGED <<row, record>>
    BY <1>6 DEF RegisterUndo
  <2>3. RowsAgree'
    BY <1>0, <1>t, <2>2, UnregisteredAuthors DEF AuthorsAgree, RowsAgree
  <2> QED
    BY <2>1, <2>3 DEF AuthorsAgree
<1>7. CASE Update
  <2>1. it = 8 /\ Updates /\ phase = "process"
    BY <1>7, <1>t, Places DEF Update, Process
  <2>2. Updates' /\ ~Removes' /\ ctx' = ctx
    BY <1>7, <2>1 DEF Update, Updates, Removes
  <2>3. record = ctx.author /\ ctx.old.author \in {NoCert, record}
    BY <1>0, <2>1 DEF AuthorsAgree
  <2>4. PICK new \in NewRows, ok \in BOOLEAN : Upgraded(new, ctx.author, ok)
    BY <1>7 DEF Update
  <2>5. new.author = ctx.author
    BY NewRowsFit
  <2>6. record' = record /\ (row' = row \/ row' = [row EXCEPT ![req.user] = new])
    BY <2>3, <2>4 DEF Upgraded, Happens
  <2>7. RowsAgree'
    BY <1>0, <1>t, <2>3, <2>5, <2>6 DEF AuthorsAgree, RowsAgree
  <2> QED
    BY <2>2, <2>3, <2>6, <2>7 DEF AuthorsAgree
<1>8. CASE UpdateUndo
  <2>1. Updates /\ phase = "undo"
    BY <1>8, <1>t, Places DEF UpdateUndo
  <2>2. ~Removes' /\ ctx' = ctx /\ phase' # "process"
    BY <1>8, <2>1 DEF UpdateUndo, Updates, Removes, StepUndone
  <2>3. ctx.old.author \in {NoCert, record}
    BY <1>0, <2>1 DEF AuthorsAgree
  <2>4. record' = record /\ (row' = row \/ row' = [row EXCEPT ![req.user] = ctx.old])
    BY <1>8 DEF UpdateUndo, Upgraded, Happens
  <2>5. RowsAgree'
    BY <1>0, <1>t, <2>3, <2>4 DEF AuthorsAgree, RowsAgree
  <2> QED
    BY <2>2, <2>3, <2>4, <2>5 DEF AuthorsAgree
<1>9. CASE Unregister
  <2>1. it = 2 /\ Removes /\ phase = "process"
    BY <1>9, <1>t, Places DEF Unregister, Process
  <2>2. Removes' /\ ~Updates' /\ (phase' \notin {"process", "undo"} \/ (phase' = "process" /\ it' = 3))
    BY <1>9, <2>1 DEF Unregister, Updates, Removes, StepOk
  <2>3. ctx' = [ctx EXCEPT !.saved = record] /\ ctx \in CtxType
    BY <1>9 DEF Unregister, RightsInv, CtxType, Signers
  <2>4. ctx'.old = ctx.old /\ ctx'.saved = record /\ ctx'.author = ctx.author
    BY <2>3 DEF CtxType
  <2>5. ctx.old.author \in {NoCert, record} /\ (ctx.author \in {NoCert, record} \/ record = NoCert)
    BY <1>0, <2>1 DEF AuthorsAgree
  <2>6. /\ RowsAgree' /\ record' \in {record, NoCert}
        /\ record' = record \/ \A v \in Users : row'[v].author = NoCert
    BY <1>0, <1>t, <1>9, UnregisteredAuthors DEF Unregister, AuthorsAgree, RowsAgree
  <2> QED
    BY <2>2, <2>4, <2>5, <2>6 DEF AuthorsAgree
<1>10. CASE UnregisterUndo
  <2>1. it = 2 /\ Removes /\ phase = "undo"
    BY <1>10, <1>t, Places DEF UnregisterUndo
  <2>2. ~Updates' /\ phase' # "process" /\ (phase' = "undo" => it' = 1)
    BY <1>10, <2>1 DEF UnregisterUndo, Updates, Removes, StepUndone
  <2>3. /\ ctx.old.author \in {NoCert, ctx.saved}
        /\ record = ctx.saved \/ \A u \in Users : row[u].author = NoCert
    BY <1>0, <2>1 DEF AuthorsAgree
  <2>4. PICK ok \in BOOLEAN : Registered(ctx.old, ctx.saved, ok)
    BY <1>10 DEF UnregisterUndo
  <2>5. CASE UNCHANGED <<row, record>>
    BY <1>0, <2>2, <2>5 DEF AuthorsAgree, RowsAgree
  <2>6. CASE row' = [row EXCEPT ![req.user] = ctx.old] /\ record' = ctx.saved
    <3>1. RowsAgree'
      BY <1>0, <1>t, <2>3, <2>6 DEF AuthorsAgree, RowsAgree
    <3> QED
      BY <2>2, <3>1 DEF AuthorsAgree
  <2> QED
    BY <2>4, <2>5, <2>6 DEF Registered, Happens
<1>11. CASE Nothing
  <2>1. UNCHANGED <<row, record, req>> /\ ctx' = ctx
    BY <1>11 DEF Nothing
  <2>2. \/ phase' \notin {"process", "undo"}
        \/ phase' = "undo" /\ phase = "undo" /\ it' = it - 1
    BY <1>11 DEF Nothing, StepUndone, StepCleaned
  <2> QED
    BY <1>0, <1>t, <2>1, <2>2, AuthorsUntouched
<1>12. CASE EndRequest \/ Crash
  <2>1. phase' = "idle" /\ UNCHANGED <<row, record>>
    BY <1>12 DEF EndRequest, Crash
  <2> QED
    BY <1>0, <2>1 DEF AuthorsAgree, RowsAgree
<1>13. CASE Recover
  <2>1. (\E u \in Users : Unregistered(u)) \/ UNCHANGED <<row, record>>
    BY <1>13 DEF Recover, RecoveryNew, RecoveryUpdate, Happens
  <2>3. RowsAgree'
    BY <1>0, <1>t, <2>1, UnregisteredAuthors DEF AuthorsAgree, RowsAgree
  <2>2. RowsAgree' /\ phase' = "idle"
    BY <1>13, <2>3 DEF Recover, runnerVars
  <2> QED
    BY <2>2 DEF AuthorsAgree
<1> QED
  BY <1>1, <1>2, <1>3, <1>4, <1>5, <1>6, <1>7, <1>8, <1>9, <1>10, <1>11, <1>12, <1>13 DEF Next

-------------------------------------------------------------------------------
(* The theorems. *)

\* What the requests keep, of the database, of the request in progress, and of
\* those that died.
ChecksInv == LoopInv /\ RightsInv /\ LevelInv /\ AuthorInv

\* Every step of every request keeps the invariant: a check, the registration or
\* its undo, a crash, or the recovery of what died.
THEOREM ChecksInvariant == Spec => []ChecksInv
<1>1. Init => ChecksInv
  <2>1. Init => LevelInv
    BY DEF Init, RunnerInit, LevelInv
  <2> QED
    BY <2>1, LoopInvInit, RightsInvInit, AuthorInvInit DEF ChecksInv
<1>2. ChecksInv /\ [Next]_vars => ChecksInv'
  BY LoopInvStep, RightsInvStep, LevelInvStep, AuthorInvStep DEF ChecksInv
<1> QED
  BY <1>1, <1>2, PTL DEF Spec

\* Whatever users ask for, in whatever order, what is installed is entitled to
\* what it has and comes from the one author of its id: for any number of users,
\* authors and requests.
THEOREM TrustedPackagesHolds == Spec => []TrustedPackages
<1>1. ChecksInv => TrustedPackages
  <2> SUFFICES ASSUME ChecksInv
               PROVE  TrustedPackages
    OBVIOUS
  <2>1. RightsFitLevel
    BY DEF ChecksInv, RightsInv, RightsFitLevel, FittingRows
  <2>2. OneAuthor
    BY DEF ChecksInv, AuthorInv, AuthorsAgree, RowsAgree, OneAuthor
  <2> QED
    BY <2>1, <2>2, CategoriesKept DEF TrustedPackages
<1> QED
  BY <1>1, ChecksInvariant, PTL

================================================================================
