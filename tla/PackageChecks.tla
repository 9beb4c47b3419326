---------------------------- MODULE PackageChecks ----------------------------
(***************************************************************************)
(* The checks a package passes before it is registered, over the requests  *)
(* of several users for the same package id.  A check trusts what earlier  *)
(* requests left behind: the row of the user and the author certificate on *)
(* record.  The certificates are deleted without naming a user and queried *)
(* for any user (G_MAXUINT), so there is one record for the package.       *)
(*                                                                         *)
(* What a package contains is chosen when a check reads it first.          *)
(***************************************************************************)
EXTENDS Sequences, StepRunner, BackgroundCategories

CONSTANTS
  Users,    \* those who install the package, "global" among them
  Authors,  \* the authors who sign packages with this id
  MaxRequests   \* how many requests are made

ASSUME UsersAssumption == "global" \in Users
ASSUME RequestAssumption == MaxRequests \in Nat

VARIABLES
  row,      \* the package as each user has it in the database
  record,   \* the author certificate on record
  req,      \* who asks, and for what
  made,     \* number of requests
  ctx,      \* the fields of InstallerContext the checks fill in
  died,     \* recovery files: the requests of each user that died
  past      \* history: what makes an exception in a property

vars == <<runnerVars, row, record, req, made, ctx, died, past>>

Asked == {"install", "reinstall", "mount", "direct", "uninstall"}
InstallTypes == {"Install", "MountInstall", "ManifestDirectInstall"}
UpdateTypes == {"Update", "Delta", "Reinstall", "MountUpdate", "ManifestDirectUpdate"}

NoRow == [author |-> NoCert, level |-> UNTRUSTED, needs |-> UNTRUSTED, mounted |-> FALSE]
Has(u) == row[u] # NoRow
Higher(m, n) == IF m > n THEN m ELSE n

\* old: the row that an update or a removal replaces, saved: the certificate kept
\* for the undo of a removal, oldApi: the package asks for a version below 2.4.
Fresh == [author |-> NoCert, level |-> UNTRUSTED, needs |-> UNTRUSTED, oldApi |-> FALSE,
          old |-> NoRow, saved |-> NoCert]

Checks == <<"Configure", "CheckTizenVersion", "CheckSignature", "PrivilegeCompatibility",
            "CheckBackgroundCategory">>
Pipeline ==
  IF req.type \in InstallTypes THEN Checks \o <<"Register", "Rest">>
  ELSE IF req.type \in UpdateTypes
    THEN Checks \o <<"CheckOldCertificate", "BlockCrossUpdate", "Update", "Rest">>
  ELSE <<"Configure", "Unregister", "Rest">>
NumSteps == Len(Pipeline)
Step == Pipeline[it]

NoRequest == [user |-> "global", type |-> "none", root |-> FALSE, preload |-> FALSE]

Init ==
  /\ RunnerInit
  /\ row = [u \in Users |-> NoRow]
  /\ record = NoCert
  /\ req = NoRequest
  /\ made = 0
  /\ ctx = Fresh
  /\ died = [u \in Users |-> {}]
  /\ past = {}

-------------------------------------------------------------------------------
(* The loops of Run() around a step. *)

Process(step) == phase = "process" /\ Step = step
Passes(c) == StepOk(NumSteps) /\ ctx' = c /\ UNCHANGED <<row, record, req, made, died, past>>
Refused == StepFails /\ UNCHANGED <<row, record, req, made, ctx, died, past>>
Check(ok, c) == IF ok THEN Passes(c) ELSE Refused

\* PkgMgrInterface::GetRequestType(); a delta needs an installed package.
RequestTypes(asked, installed) ==
  CASE asked = "install" /\ installed -> {"Update", "Delta"}
    [] asked = "install" /\ ~installed -> {"Install", "Unknown"}
    [] asked = "mount" -> {IF installed THEN "MountUpdate" ELSE "MountInstall"}
    [] asked = "direct" -> {IF installed THEN "ManifestDirectUpdate" ELSE "ManifestDirectInstall"}
    [] asked = "reinstall" -> {"Reinstall"}
    [] asked = "uninstall" -> {"Uninstall"}

\* root acts for the global user; a backend that updates or removes a package
\* has read its old manifest, or fails.
Request ==
  /\ BeginRun
  /\ made < MaxRequests
  /\ made' = made + 1
  /\ \E u \in Users, root \in BOOLEAN, preload \in BOOLEAN, asked \in Asked :
       \E type \in RequestTypes(asked, Has(u)) :
         /\ root => u = "global"
         /\ asked \in {"reinstall", "uninstall"} => Has(u)
         /\ req' = [user |-> u, type |-> type, root |-> root, preload |-> preload]
         /\ ctx' = [Fresh EXCEPT !.old = row[u]]
  /\ UNCHANGED <<row, record, died, past>>

Configure ==
  /\ Process("Configure")
  /\ LET direct == req.type \in {"ManifestDirectInstall", "ManifestDirectUpdate"}
     IN  Check(/\ req.type # "Unknown"
               /\ IF req.root THEN direct \/ req.preload ELSE ~req.preload, ctx)

\* precheck() wants an api version, process() one the platform has.
CheckTizenVersion ==
  /\ Process("CheckTizenVersion")
  /\ \E version \in {"none", "old", "current", "future"} :
       Check(version \in {"old", "current"}, [ctx EXCEPT !.oldApi = (version = "old")])

\* Mutant: the certificate is only compared with that of the user's own package.
CheckPkgCertificateMismatchOwn(author) ==
  row[req.user].author # NoCert /\ row[req.user].author # author

CheckPkgCertificateMismatch(author) == record # NoCert /\ record # author

\* What the validation can make of the signatures of a package it accepts:
\* whether the author's counts, and the level of the first distributor's.
Validated ==
  [reference \in BOOLEAN |-> [preload \in BOOLEAN |->
     {[signed |-> AuthorCertificate(sigs, reference, "author") # NoCert,
       level |-> SignatureLevel(sigs, reference, store)] :
        store \in Levels,
        sigs \in {s \in UNION {[files -> Verdicts] : files \in SUBSET SignatureFiles} :
                    ValidateSignatures(s, reference, preload)}}]]

\* The privileges of a preloaded package are not looked at.
CheckSignature ==
  /\ Process("CheckSignature")
  /\ \/ Refused
     \/ LET direct == req.type \in {"ManifestDirectInstall", "ManifestDirectUpdate"}
            reference == ~(req.root /\ direct)
        IN  \E v \in Validated[reference][req.preload], author \in Authors, needs \in Levels :
              LET cert == IF v.signed THEN author ELSE NoCert
                  level == IF req.preload THEN PLATFORM ELSE v.level
              IN  Check(/\ cert # NoCert => ~CheckPkgCertificateMismatch(cert)
                        /\ level # UNTRUSTED
                        /\ req.preload \/ ValidatePrivilegeLevel(level, needs),
                        [ctx EXCEPT !.author = cert, !.level = level, !.needs = needs])

\* The privilege every package of its level gets is added; the mapping to the
\* privileges of this version keeps their levels, or fails.
PrivilegeCompatibility ==
  /\ Process("PrivilegeCompatibility")
  /\ \/ Passes([ctx EXCEPT !.needs = Higher(@, Higher(PUBLIC, ctx.level))])
     \/ Refused

\* For each application; "system" asks for a partner's or the platform's level.
CheckBackgroundCategory ==
  /\ Process("CheckBackgroundCategory")
  /\ \E declared \in SUBSET Categories, support \in BOOLEAN :
       LET granted == Granted(ctx.oldApi, support, ctx.level, declared)
       IN  Check(~ShouldSendFail(ctx.level, declared),
                 [ctx EXCEPT !.needs = IF "system" \in granted THEN Higher(@, PARTNER) ELSE @,
                             !.oldApi = FALSE])

\* What is on record and what the package brings must both be there and agree,
\* or both be missing.
CheckOldCertificate ==
  /\ Process("CheckOldCertificate")
  /\ Check(record = ctx.author, ctx)

BlockCrossUpdate ==
  /\ Process("BlockCrossUpdate")
  /\ Check(/\ ctx.old # NoRow
           /\ ctx.old.mounted => req.type \notin {"Reinstall", "Delta", "Update"}
           /\ ~ctx.old.mounted => req.type # "MountUpdate", ctx)

-------------------------------------------------------------------------------
(* The database: the row of the user, and the certificate of the package. *)

\* What the new row says; a manifest that was installed directly may have kept
\* the mount file of the old row.
NewRow(mounted) ==
  [author |-> ctx.author, level |-> ctx.level, needs |-> ctx.needs, mounted |-> mounted]
NewRows ==
  {NewRow(mounted) : mounted \in
     IF req.type \in {"MountInstall", "MountUpdate"} THEN {TRUE}
     ELSE IF req.type = "ManifestDirectUpdate" THEN {FALSE, ctx.old.mounted}
     ELSE {FALSE}}

Happens(events) == past' = past \cup events

\* pkgmgr_installer_delete_certinfo(): whether the record survives as long as
\* another user has the package is the database's business.
Others(u) == {v \in Users \ {u} : Has(v)}
Deleted(u) == {NoCert} \cup (IF Others(u) # {} THEN {record} ELSE {})

\* RegisterAppInPkgmgr(): the row, then the certificates, ok if both succeed; a
\* package without an author certificate leaves the record empty.
Registered(new, cert, ok) ==
  \/ /\ row' = [row EXCEPT ![req.user] = new]
     /\ IF ok
        THEN /\ record' = cert
             /\ Happens(IF cert = NoCert /\ record # NoCert THEN {"unsigned"} ELSE {})
        ELSE UNCHANGED record /\ Happens({"notSaved"})
  \/ ~ok /\ UNCHANGED <<row, record, past>>

\* UnregisterAppInPkgmgr(): the row, then the certificates, whoever uses them.
Unregistered(u) ==
  /\ row' = [row EXCEPT ![u] = NoRow]
  /\ record' \in Deleted(u)
  /\ Happens(IF Others(u) # {} /\ record' # record THEN {"removed"} ELSE {})

\* UpgradeAppInPkgmgr(): the certificates are deleted and registered anew.
Upgraded(new, cert, ok) ==
  \/ /\ row' = [row EXCEPT ![req.user] = new]
     /\ IF ok THEN record' = cert /\ UNCHANGED past
        ELSE record' \in Deleted(req.user) /\ Happens({"notSaved"})
  \/ ~ok /\ UNCHANGED <<row, record, past>>

Processed(ok) == IF ok THEN StepOk(NumSteps) ELSE StepFails

Register ==
  /\ Process("Register")
  /\ \E new \in NewRows, ok \in BOOLEAN : Registered(new, ctx.author, ok) /\ Processed(ok)
  /\ UNCHANGED <<req, made, ctx, died>>

\* undo(), whether or not process() has registered anything.
RegisterUndo ==
  /\ phase = "undo" /\ Step = "Register"
  /\ \/ Unregistered(req.user) /\ StepUndone(TRUE)
     \/ StepUndone(FALSE) /\ UNCHANGED <<row, record, past>>
  /\ UNCHANGED <<req, made, ctx, died>>

Update ==
  /\ Process("Update")
  /\ \E new \in NewRows, ok \in BOOLEAN : Upgraded(new, ctx.author, ok) /\ Processed(ok)
  /\ UNCHANGED <<req, made, ctx, died>>

\* undo() registers the certificate that is on record by now, with the old row.
UpdateUndo ==
  /\ phase = "undo" /\ Step = "Update"
  /\ \E ok \in BOOLEAN : Upgraded(ctx.old, record, ok) /\ StepUndone(ok)
  /\ UNCHANGED <<req, made, ctx, died>>

\* A removal goes on whatever the database says.
Unregister ==
  /\ Process("Unregister")
  /\ StepOk(NumSteps)
  /\ ctx' = [ctx EXCEPT !.saved = record]
  /\ Unregistered(req.user) \/ UNCHANGED <<row, record, past>>
  /\ UNCHANGED <<req, made, died>>

UnregisterUndo ==
  /\ phase = "undo" /\ Step = "Unregister"
  /\ \E ok \in BOOLEAN : Registered(ctx.old, ctx.saved, ok) /\ StepUndone(ok)
  /\ UNCHANGED <<req, made, ctx, died>>

-------------------------------------------------------------------------------
(* The rest of a request, crashes and recoveries. *)

Rest ==
  /\ Process("Rest")
  /\ Passes(ctx) \/ Refused

HasUndo == Step \in {"Register", "Update", "Unregister"}

\* The undo() and the clean() of the checks do nothing.
Nothing ==
  /\ \/ phase = "undo" /\ ~HasUndo /\ StepUndone(TRUE)
     \/ phase = "clean" /\ StepCleaned(NumSteps)
  /\ UNCHANGED <<row, record, req, made, ctx, died, past>>

EndRequest ==
  /\ phase = "end"
  /\ phase' = "idle" /\ it' = 1 /\ ret' = "OK"
  /\ req' = NoRequest /\ ctx' = Fresh
  /\ UNCHANGED <<row, record, made, died, past>>

\* The process dies; the recovery file tells which request it was.
Crash ==
  /\ phase \in {"process", "undo"} /\ it > 1
  /\ phase' = "idle" /\ it' = 1 /\ ret' = "OK"
  /\ died' = [died EXCEPT ![req.user] =
                @ \cup {[type |-> t, old |-> ctx.old] : t \in {"Install", "Update"} \cap {req.type}}]
  /\ req' = NoRequest /\ ctx' = Fresh
  /\ UNCHANGED <<row, record, made, past>>

\* StepRecoverApplication removes what the request has registered, if it can, and
\* ignores that it cannot.
RecoveryNew(u) == Unregistered(u) \/ UNCHANGED <<row, record, past>>

\* After an update it registers the old package, with no certificate at all.  The
\* recovery fails when that fails, whatever has become of the row till then.
RecoveryUpdate(u, old, ok) ==
  \/ /\ row' = [row EXCEPT ![u] = old]
     /\ record' \in {NoCert} \cup (IF ok THEN {} ELSE {record})
     /\ Happens({"recovered"})
  \/ /\ ~ok
     /\ row' = [row EXCEPT ![u] = NoRow]
     /\ record' \in Deleted(u)
     /\ Happens({"recovered"})
  \/ ~ok /\ UNCHANGED <<row, record, past>>

\* Only a recovery that succeeds to its end removes its file.
Recover ==
  /\ phase = "idle"
  /\ \E u \in Users : \E d \in died[u], ok \in BOOLEAN :
       /\ \/ d.type = "Install" /\ RecoveryNew(u)
          \/ d.type = "Update" /\ RecoveryUpdate(u, d.old, ok)
       /\ \/ ok /\ died' = [died EXCEPT ![u] = @ \ {d}]
          \/ UNCHANGED died
  /\ UNCHANGED <<runnerVars, req, made, ctx>>

Next ==
  \/ Request \/ Configure \/ CheckTizenVersion \/ CheckSignature
  \/ PrivilegeCompatibility \/ CheckBackgroundCategory
  \/ CheckOldCertificate \/ BlockCrossUpdate
  \/ Register \/ RegisterUndo \/ Update \/ UpdateUndo \/ Unregister \/ UnregisterUndo
  \/ Rest \/ Nothing \/ EndRequest \/ Crash \/ Recover

Spec == Init /\ [][Next]_vars

-------------------------------------------------------------------------------
(* Properties *)

\* What a package may do is what its first distributor signature entitles it to.
RightsFitLevel ==
  \A u \in Users : Has(u) => row[u].needs <= row[u].level

\* An author takes over a package id from nobody: all who have the package have
\* it from the author on record.
OneAuthor ==
  past = {} => \A u \in Users : row[u].author \in {NoCert, record}

\* An application gets the background categories it declares, or its package is
\* refused; only an old one gets more.
CategoriesAsDeclared ==
  \A old \in BOOLEAN, support \in BOOLEAN, level \in Levels, declared \in SUBSET Categories :
     ShouldSendFail(level, declared) \/
     Granted(old, support, level, declared) =
       declared \cup (IF old /\ support /\ level # UNTRUSTED THEN Known ELSE {})

\* Whatever users ask for, in whatever order, what is installed is entitled to
\* what it has and comes from the one author of its id: the checks of a request
\* may rely on what the database says of earlier ones.
TrustedPackages == RightsFitLevel /\ OneAuthor /\ CategoriesAsDeclared
===============================================================================
