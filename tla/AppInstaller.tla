----------------------------- MODULE AppInstaller -----------------------------
(***************************************************************************)
(* One request handled by AppInstaller::Run(): the step loops (StepRunner) *)
(* and the signals to the client (PkgmgrSignal).  What a step does is left *)
(* open: each precheck/process, undo and clean may succeed or fail, may    *)
(* learn the package id and may report an error through on_error.          *)
(***************************************************************************)
EXTENDS StepRunner, PkgmgrSignal

CONSTANT NumSteps    \* length of the step list the backend has built

ASSUME NumStepsAssumption == NumSteps \in Nat \ {0}

VARIABLES
  note,          \* which part of the signalling comes next; "none": a step runs
  online,        \* pi_ exists: online mode and a signal object was created
  uninstall,     \* the request is an uninstallation
  preload,       \* a preload request in offline mode
  pkgid,         \* context_->pkgid is known
  processed,     \* how often process() of a step has succeeded
  undone,        \* how often undo() of a step has been called
  cleaned,       \* how often clean() of a step has succeeded
  failedAt,      \* the step whose precheck() or process() failed, 0 if none
  undoFailed,    \* some undo() has failed
  preloadError   \* the package is named in /tmp/.preload_install_error

reqVars == <<online, uninstall, preload>>
histVars == <<processed, undone, cleaned, failedAt, undoFailed>>
vars == <<runnerVars, signalVars, note, reqVars, pkgid, histVars, preloadError>>

Steps == 1..NumSteps
Notes == {"none", "start", "percent", "finish", "info", "done"}
Zero == [s \in Steps |-> 0]
Bump(f, s) == [f EXCEPT ![s] = @ + 1]
Percent(k) == (k * 100) \div NumSteps    \* kProgressRange is 100

Init ==
  /\ RunnerInit
  /\ SignalInit
  /\ note = "none"
  /\ online \in BOOLEAN
  /\ uninstall \in BOOLEAN
  /\ preload \in BOOLEAN
  /\ preload => ~online
  /\ pkgid = FALSE
  /\ processed = Zero
  /\ undone = Zero
  /\ cleaned = Zero
  /\ failedAt = 0
  /\ undoFailed = FALSE
  /\ preloadError = FALSE

Begin ==
  /\ BeginRun
  /\ UNCHANGED <<signalVars, note, reqVars, pkgid, histVars, preloadError>>

\* HandleStepError(): a step may emit on_error before it returns an error.
OnError ==
  \/ online /\ SendError
  \/ NoSignal

ProcessOk ==
  /\ note = "none"
  /\ StepOk(NumSteps)
  /\ note' = IF online THEN "start" ELSE "none"
  /\ pkgid' \in {pkgid, TRUE}
  /\ processed' = Bump(processed, it)
  /\ UNCHANGED <<signalVars, reqVars, undone, cleaned, failedAt, undoFailed, preloadError>>

ProcessFails ==
  /\ note = "none"
  /\ StepFails
  /\ OnError
  /\ pkgid' \in {pkgid, TRUE}
  /\ failedAt' = it
  /\ UNCHANGED <<note, reqVars, processed, undone, cleaned, undoFailed, preloadError>>

\* After a step: the start signal as soon as the package id is known ...
NotifyStart ==
  /\ note = "start"
  /\ IF pkgid THEN SendStarted(uninstall) ELSE NoSignal
  /\ note' = "percent"
  /\ UNCHANGED <<runnerVars, reqVars, pkgid, histVars, preloadError>>

\* Mutant: the loop waits until the client has been told of the start.
NotifyProgressWaits ==
  /\ note = "percent"
  /\ state = "STARTED"
  /\ SendProgress(Percent(IF phase = "clean" THEN NumSteps ELSE it - 1))
  /\ note' = "none"
  /\ UNCHANGED <<runnerVars, reqVars, pkgid, histVars, preloadError>>

\* ... then the progress.  The iterator has moved on: the step just processed
\* is the one before it, or the last one when the clean loop comes next.
NotifyProgress ==
  /\ note = "percent"
  /\ SendProgress(Percent(IF phase = "clean" THEN NumSteps ELSE it - 1))
  /\ note' = "none"
  /\ UNCHANGED <<runnerVars, reqVars, pkgid, histVars, preloadError>>

UndoStep ==
  /\ note = "none"
  /\ \E ok \in BOOLEAN :
       /\ StepUndone(ok)
       /\ undoFailed' = (undoFailed \/ ~ok)
  /\ undone' = Bump(undone, it)
  /\ UNCHANGED <<signalVars, note, reqVars, pkgid, processed, cleaned, failedAt, preloadError>>

CleanOk ==
  /\ note = "none"
  /\ StepCleaned(NumSteps)
  /\ cleaned' = Bump(cleaned, it)
  /\ UNCHANGED <<signalVars, note, reqVars, pkgid, processed, undone, failedAt,
                 undoFailed, preloadError>>

CleanFails ==
  /\ note = "none"
  /\ StepCleanFails
  /\ OnError
  /\ UNCHANGED <<note, reqVars, pkgid, histVars, preloadError>>

\* The loops are over: the start signal if it is still due, ...
LateStart ==
  /\ phase = "end"
  /\ note = "none"
  /\ IF online THEN SendStarted(uninstall) ELSE NoSignal
  /\ note' = "finish"
  /\ UNCHANGED <<runnerVars, reqVars, pkgid, histVars, preloadError>>

\* ... the end signal, which carries the status of processing only, ...
Finish ==
  /\ note = "finish"
  /\ IF online THEN SendFinished(failedAt = 0) ELSE NoSignal
  /\ note' = "info"
  /\ UNCHANGED <<runnerVars, reqVars, pkgid, histVars, preloadError>>

\* ... and the mark left behind for a failed preload installation.
WriteInfo ==
  /\ note = "info"
  /\ note' = "done"
  /\ preloadError' = (preloadError \/ (preload /\ failedAt # 0))
  /\ UNCHANGED <<runnerVars, signalVars, reqVars, pkgid, histVars>>

Next ==
  \/ Begin
  \/ ProcessOk
  \/ ProcessFails
  \/ NotifyStart
  \/ NotifyProgress
  \/ UndoStep
  \/ CleanOk
  \/ CleanFails
  \/ LateStart
  \/ Finish
  \/ WriteInfo

Spec == Init /\ [][Next]_vars

\* Run() is one thread that never waits for another: it goes on while it can.
FairSpec == Spec /\ WF_vars(Next)

-------------------------------------------------------------------------------
(* Properties *)

\* The shape of the state.
TypeOK ==
  /\ phase \in Phases
  /\ it \in Steps
  /\ ret \in Results
  /\ state \in States
  /\ errorSent \in BOOLEAN
  /\ wire \in Seq(Signal)
  /\ lost \subseteq Keys
  /\ note \in Notes
  /\ online \in BOOLEAN
  /\ uninstall \in BOOLEAN
  /\ preload \in BOOLEAN
  /\ pkgid \in BOOLEAN
  /\ processed \in [Steps -> Nat]
  /\ undone \in [Steps -> Nat]
  /\ cleaned \in [Steps -> Nat]
  /\ failedAt \in 0..NumSteps
  /\ undoFailed \in BOOLEAN
  /\ preloadError \in BOOLEAN

\* Once the loops are over, a failed run has undone the failing step and every
\* step before it exactly once and no other one, and it has cleaned nothing:
\* the boundary cases of the reverse loop of Run() are in this.
UndoneExactlyOnce ==
  (phase = "end" /\ failedAt # 0) =>
     /\ \A s \in Steps : undone[s] = IF s <= failedAt THEN 1 ELSE 0
     /\ cleaned = Zero

\* A step is undone only after every later step that was reached has been
\* undone, whatever fails meanwhile (steps rely on the state their
\* predecessors left when they process, so undo must unwind it in reverse).
UndoneInReverse ==
  \A s, t \in Steps :
     (s < t /\ t <= failedAt /\ undone[s] > 0) => undone[t] > 0

\* clean() gives up what undo() needs (backups, the recovery file): it only
\* starts when every step has been processed, and from then on nothing is undone.
CleanOnlyAfterSuccess ==
  (\E s \in Steps : cleaned[s] > 0) =>
     \A s \in Steps : processed[s] = 1 /\ undone[s] = 0

\* The value Run() returns tells what happened: OK for a run that was processed
\* and cleaned to the last step, UNDO_ERROR exactly when some undo() failed, and
\* CLEANUP_ERROR when processing succeeded and some step stays uncleaned.
ResultIsTruthful ==
  (phase = "end") =>
     /\ (ret = "OK") <=> (failedAt = 0 /\ \A s \in Steps : cleaned[s] = 1)
     /\ (ret = "UNDO_ERROR") <=> undoFailed
     /\ (ret = "CLEANUP_ERROR") <=> (failedAt = 0 /\ \E s \in Steps : cleaned[s] = 0)

\* What the client sees is well formed even when signals are lost: nothing
\* before START, one START, nothing after END, progress that grows, END "ok"
\* only for a request whose steps all succeeded.
ClientProtocol ==
  \A i \in 1..Len(wire) :
     /\ (i = 1) <=> (wire[i].key = "start")
     /\ (wire[i].key = "end") => (i = Len(wire) /\ note \in {"info", "done"})
     /\ (wire[i] = Sig("end", OkValue)) => (\A s \in Steps : processed[s] = 1)
     /\ \A j \in 1..i : (wire[i].key = "percent" /\ wire[j].key = "percent" /\ j # i)
                           => wire[j].value < wire[i].value

\* The error or the END itself could not be sent.
OutcomeLost == lost \cap {"error", "end"} # {}

\* When Run() returns, the client of an online request has got its END, and for
\* a failed request an error before it, exactly once, whatever else was lost: a
\* START that could not be sent is sent again after the next step or at the end.
\* A client hears nothing at all only when START was lost, to the last try.
ClientLearnsOutcome ==
  (note = "done" /\ online) =>
     /\ wire = << >> => "start" \in lost
     /\ wire # << >> /\ ~OutcomeLost =>
          /\ wire[Len(wire)] = Sig("end", IF failedAt = 0 THEN OkValue ELSE FailValue)
          /\ failedAt # 0 =>
               \E i \in 1..Len(wire) :
                  /\ wire[i].key = "error"
                  /\ \A j \in 1..Len(wire) : wire[j].key = "error" => j = i

\* Every run comes to its end, failures of steps, undos, cleans and signals included.
RunEnds == <>(note = "done")

-------------------------------------------------------------------------------
(* The request as a transaction *)

TxStatus ==
  CASE phase \in {"idle", "process"} -> "running"
    [] phase = "undo" -> "failing"
    [] phase = "clean" -> "committed"
    [] phase = "end" -> IF failedAt = 0 THEN "committed" ELSE "aborted"

\* The failing step counts: its process() may have done a part of its work.
TxEffects == {s \in Steps : (processed[s] > 0 \/ s = failedAt) /\ undone[s] = 0}

TxAnswer ==
  IF wire = << >> \/ wire[Len(wire)].key # "end" THEN "none"
  ELSE IF wire[Len(wire)].value = OkValue THEN "ok" ELSE "fail"

Transaction == INSTANCE RequestTransaction
               WITH status <- TxStatus, effects <- TxEffects, answer <- TxAnswer

\* The loops of Run() implement the transaction its clients rely on: a request
\* reaches an outcome, all of its steps or none of them, every step reverted
\* once, and the END the client gets, if any, names the outcome and comes after
\* it.
ImplementsTransaction == Transaction!Spec
===============================================================================
