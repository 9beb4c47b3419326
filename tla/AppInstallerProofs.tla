-------------------------- MODULE AppInstallerProofs --------------------------
(***************************************************************************)
(* What AppInstaller::Run() guarantees for a step list of any length,      *)
(* proved from one inductive invariant: for each phase of the loops, how   *)
(* often every step has been processed, undone and cleaned; that Run()     *)
(* implements the transaction of RequestTransaction; and what the client   *)
(* is told: the signals are well formed whatever is lost on the way, and a *)
(* client that loses none learns how the request ended.                    *)
(***************************************************************************)
EXTENDS AppInstaller, SequenceTheorems, TLAPS

\* f counts 1 for the steps satisfying the test and 0 for the others.
Before(k) == [s \in Steps |-> IF s < k THEN 1 ELSE 0]
UpTo(k) == [s \in Steps |-> IF s <= k THEN 1 ELSE 0]
Between(i, k) == [s \in Steps |-> IF i < s /\ s <= k THEN 1 ELSE 0]
All == [s \in Steps |-> 1]

FailedRet == IF undoFailed THEN "UNDO_ERROR" ELSE "ERROR"

\* The part of the type invariant the loops depend on.
LoopTypeOK ==
  /\ phase \in Phases
  /\ it \in Steps
  /\ ret \in Results
  /\ note \in Notes
  /\ failedAt \in 0..NumSteps
  /\ undoFailed \in BOOLEAN

IdleInv ==
  phase = "idle" =>
    /\ note = "none" /\ it = 1 /\ failedAt = 0 /\ ~undoFailed /\ ret = "OK"
    /\ processed = Zero /\ undone = Zero /\ cleaned = Zero

ProcessInv ==
  phase = "process" =>
    /\ note \in {"none", "start", "percent"}
    /\ failedAt = 0 /\ ~undoFailed /\ ret = "OK"
    /\ processed = Before(it) /\ undone = Zero /\ cleaned = Zero

UndoInv ==
  phase = "undo" =>
    /\ note = "none"
    /\ it <= failedAt /\ ret = FailedRet
    /\ undone = Between(it, failedAt) /\ cleaned = Zero

CleanInv ==
  phase = "clean" =>
    /\ note \in {"none", "start", "percent"}
    /\ note # "none" => it = 1
    /\ failedAt = 0 /\ ~undoFailed /\ ret = "OK"
    /\ processed = All /\ undone = Zero /\ cleaned = Before(it)

FailedEnd ==
  /\ failedAt # 0 /\ ret = FailedRet
  /\ undone = UpTo(failedAt) /\ cleaned = Zero

CleanedEnd ==
  /\ failedAt = 0 /\ ~undoFailed
  /\ processed = All /\ undone = Zero
  /\ \/ ret = "OK" /\ cleaned = All
     \/ ret = "CLEANUP_ERROR" /\ cleaned = Before(it)

EndInv ==
  phase = "end" =>
    /\ note \in {"none", "finish", "info", "done"}
    /\ FailedEnd \/ CleanedEnd

LoopInv == LoopTypeOK /\ IdleInv /\ ProcessInv /\ UndoInv /\ CleanInv /\ EndInv

-------------------------------------------------------------------------------
(* Lemmas: what counting one more step does to the counters of the loops. *)

\* Counting step k turns "all steps before k" into "all steps before k + 1".
LEMMA BumpBefore ==
  ASSUME NEW k \in Steps
  PROVE  Bump(Before(k), k) = Before(k + 1)
<1> DEFINE f == Before(k)  g == Before(k + 1)
<1>1. \A s \in Steps : g[s] = IF s = k THEN f[s] + 1 ELSE f[s]
  BY NumStepsAssumption, SMT DEF Before, Steps
<1>2. f = [s \in Steps |-> f[s]] /\ g = [s \in Steps |-> g[s]]
  BY DEF Before
<1> HIDE DEF f, g
<1>3. [f EXCEPT ![k] = f[k] + 1] = g
  BY <1>1, <1>2
<1> QED
  BY <1>3 DEF Bump, f, g

\* Counting step k turns "from k + 1 to f" into "from k to f": one undo().
LEMMA BumpBetween ==
  ASSUME NEW f \in Steps, NEW k \in Steps, k <= f
  PROVE  Bump(Between(k, f), k) = Between(k - 1, f)
<1> DEFINE b == Between(k, f)  g == Between(k - 1, f)
<1>1. \A s \in Steps : g[s] = IF s = k THEN b[s] + 1 ELSE b[s]
  BY NumStepsAssumption, SMT DEF Between, Steps
<1>2. b = [s \in Steps |-> b[s]] /\ g = [s \in Steps |-> g[s]]
  BY DEF Between
<1> HIDE DEF b, g
<1>3. [b EXCEPT ![k] = b[k] + 1] = g
  BY <1>1, <1>2
<1> QED
  BY <1>3 DEF Bump, b, g

\* The counters at the ends of the loops.
LEMMA Boundaries ==
  /\ Before(1) = Zero
  /\ Before(NumSteps + 1) = All
  /\ \A f \in Steps : Between(f, f) = Zero /\ Between(0, f) = UpTo(f)
  BY NumStepsAssumption, SMT DEF Before, Between, UpTo, All, Zero, Steps

\* The steps of the loops other than Begin leave Steps well defined.
LEMMA FirstStep == 1 \in Steps /\ NumSteps \in Steps
  BY NumStepsAssumption, SMT DEF Steps

-------------------------------------------------------------------------------
(* The invariant is inductive. *)

LEMMA LoopInit == Init => LoopInv
<1>1. 0 \in 0..NumSteps
  BY NumStepsAssumption
<1> QED
  BY <1>1, FirstStep
  DEF Init, RunnerInit, LoopInv, LoopTypeOK, IdleInv, ProcessInv, UndoInv, CleanInv,
      EndInv, Phases, Results, Notes

LEMMA LoopStep == LoopInv /\ [Next]_vars => LoopInv'
<1> SUFFICES ASSUME LoopInv, [Next]_vars
             PROVE  LoopInv'
  OBVIOUS
<1> USE DEF LoopInv, LoopTypeOK, Phases, Results, Notes
<1>1. CASE Begin
  BY <1>1, FirstStep, Boundaries
  DEF Begin, BeginRun, IdleInv, ProcessInv, UndoInv, CleanInv, EndInv, signalVars,
      histVars
<1>2. CASE ProcessOk
  <2>1. /\ phase = "process" /\ note = "none" /\ it \in Steps
        /\ failedAt' = failedAt /\ undoFailed' = undoFailed /\ ret' = ret
        /\ undone' = undone /\ cleaned' = cleaned
        /\ note' \in {"none", "start"}
    BY <1>2 DEF ProcessOk, StepOk
  <2>2. processed' = Before(it + 1)
    BY <1>2, <2>1, BumpBefore DEF ProcessOk, ProcessInv
  <2>3. CASE it < NumSteps
    <3>1. phase' = "process" /\ it' = it + 1
      BY <1>2, <2>3 DEF ProcessOk, StepOk
    <3>2. it' \in Steps
      BY <2>1, <2>3, <3>1, NumStepsAssumption DEF Steps
    <3> QED
      BY <2>1, <2>2, <3>1, <3>2 DEF ProcessInv, IdleInv, UndoInv, CleanInv, EndInv
  <2>4. CASE ~(it < NumSteps)
    <3>1. phase' = "clean" /\ it' = 1
      BY <1>2, <2>4 DEF ProcessOk, StepOk
    <3>2. it = NumSteps
      BY <2>1, <2>4, NumStepsAssumption DEF Steps
    <3>3. processed' = All /\ Before(1) = Zero
      BY <2>2, <3>2, Boundaries
    <3> QED
      BY <2>1, <3>1, <3>3, FirstStep DEF ProcessInv, IdleInv, UndoInv, CleanInv, EndInv
  <2> QED
    BY <2>3, <2>4
<1>3. CASE ProcessFails
  <2>1. /\ phase = "process" /\ phase' = "undo" /\ ret' = "ERROR" /\ it' = it
        /\ failedAt' = it /\ note = "none" /\ note' = note
        /\ undone' = undone /\ cleaned' = cleaned /\ undoFailed' = undoFailed
    BY <1>3 DEF ProcessFails, StepFails
  <2>2. it \in Steps /\ it <= it /\ it \in 0..NumSteps
    BY NumStepsAssumption DEF Steps
  <2>3. undone' = Between(it, it)
    BY <2>1, <2>2, Boundaries DEF ProcessInv
  <2> QED
    BY <2>1, <2>2, <2>3
    DEF ProcessInv, IdleInv, UndoInv, CleanInv, EndInv, FailedRet
<1>4. CASE NotifyStart \/ NotifyProgress
  <2>1. /\ UNCHANGED <<phase, it, ret, processed, undone, cleaned, failedAt, undoFailed>>
        /\ note \in {"start", "percent"} /\ note' \in {"percent", "none"}
    BY <1>4 DEF NotifyStart, NotifyProgress, runnerVars, histVars
  <2> QED
    BY <2>1
    DEF ProcessInv, IdleInv, UndoInv, CleanInv, EndInv, FailedEnd, CleanedEnd, FailedRet,
        Before
<1>5. CASE UndoStep
  <2>1. PICK ok \in BOOLEAN : StepUndone(ok) /\ undoFailed' = (undoFailed \/ ~ok)
    BY <1>5 DEF UndoStep
  <2>2. /\ phase = "undo" /\ note = "none" /\ note' = note /\ it \in Steps
        /\ failedAt' = failedAt /\ cleaned' = cleaned /\ cleaned = Zero
        /\ it <= failedAt /\ failedAt \in Steps
        /\ undone' = Bump(Between(it, failedAt), it)
    BY <1>5, <2>1, NumStepsAssumption DEF UndoStep, StepUndone, UndoInv, Steps
  <2>3. undone' = Between(it - 1, failedAt)
    BY <2>2, BumpBetween
  <2>4. ret' = FailedRet' /\ undoFailed' \in BOOLEAN
    BY <2>1, <2>2 DEF StepUndone, FailedRet, UndoInv
  <2>5. CASE it > 1
    <3>1. phase' = "undo" /\ it' = it - 1
      BY <2>1, <2>5 DEF StepUndone
    <3>2. it' \in Steps /\ it' <= failedAt
      BY <2>2, <2>5, <3>1, NumStepsAssumption DEF Steps
    <3> QED
      BY <2>2, <2>3, <2>4, <3>1, <3>2
      DEF ProcessInv, IdleInv, UndoInv, CleanInv, EndInv, FailedRet
  <2>6. CASE ~(it > 1)
    <3>1. phase' = "end" /\ it' = it
      BY <2>1, <2>6 DEF StepUndone
    <3>2. it - 1 = 0 /\ failedAt # 0
      BY <2>2, <2>6, NumStepsAssumption DEF Steps
    <3>3. undone' = UpTo(failedAt)
      BY <2>2, <2>3, <3>2, Boundaries
    <3> QED
      BY <2>2, <2>4, <3>1, <3>2, <3>3
      DEF ProcessInv, IdleInv, UndoInv, CleanInv, EndInv, FailedEnd, FailedRet, UpTo
  <2> QED
    BY <2>5, <2>6
<1>6. CASE CleanOk
  <2>1. /\ phase = "clean" /\ note = "none" /\ note' = note /\ it \in Steps
        /\ failedAt' = failedAt /\ undoFailed' = undoFailed /\ ret' = ret
        /\ processed' = processed /\ undone' = undone
    BY <1>6 DEF CleanOk, StepCleaned
  <2>2. cleaned' = Before(it + 1)
    BY <1>6, <2>1, BumpBefore DEF CleanOk, CleanInv
  <2>3. CASE it < NumSteps
    <3>1. phase' = "clean" /\ it' = it + 1
      BY <1>6, <2>3 DEF CleanOk, StepCleaned
    <3>2. it' \in Steps
      BY <2>1, <2>3, <3>1, NumStepsAssumption DEF Steps
    <3> QED
      BY <2>1, <2>2, <3>1, <3>2 DEF ProcessInv, IdleInv, UndoInv, CleanInv, EndInv
  <2>4. CASE ~(it < NumSteps)
    <3>1. phase' = "end" /\ it' = it
      BY <1>6, <2>4 DEF CleanOk, StepCleaned
    <3>2. it = NumSteps
      BY <2>1, <2>4, NumStepsAssumption DEF Steps
    <3>3. cleaned' = All
      BY <2>2, <3>2, Boundaries
    <3> QED
      BY <2>1, <3>1, <3>3
      DEF ProcessInv, IdleInv, UndoInv, CleanInv, EndInv, CleanedEnd
  <2> QED
    BY <2>3, <2>4
<1>7. CASE CleanFails
  <2>1. /\ phase = "clean" /\ phase' = "end" /\ ret' = "CLEANUP_ERROR" /\ it' = it
        /\ note = "none" /\ note' = note
        /\ UNCHANGED <<processed, undone, cleaned, failedAt, undoFailed>>
    BY <1>7 DEF CleanFails, StepCleanFails, histVars
  <2>2. CleanedEnd'
    BY <2>1 DEF CleanInv, CleanedEnd, Before, All
  <2> QED
    BY <2>1, <2>2 DEF ProcessInv, IdleInv, UndoInv, CleanInv, EndInv
<1>8. CASE LateStart \/ Finish \/ WriteInfo
  <2>1. /\ UNCHANGED <<phase, it, ret, processed, undone, cleaned, failedAt, undoFailed>>
        /\ note' \in {"finish", "info", "done"} /\ phase = "end"
    <3>1. CASE LateStart
      BY <3>1 DEF LateStart, runnerVars, histVars
    <3>2. CASE Finish \/ WriteInfo
      <4>1. note \in {"finish", "info"}
        BY <3>2 DEF Finish, WriteInfo
      <4>2. phase = "end"
        BY <4>1 DEF IdleInv, ProcessInv, UndoInv, CleanInv
      <4> QED
        BY <3>2, <4>2 DEF Finish, WriteInfo, runnerVars, histVars
    <3> QED
      BY <1>8, <3>1, <3>2
  <2> QED
    BY <2>1
    DEF ProcessInv, IdleInv, UndoInv, CleanInv, EndInv, FailedEnd, CleanedEnd, FailedRet,
        Before, UpTo
<1>9. CASE UNCHANGED vars
  BY <1>9
  DEF vars, runnerVars, histVars, IdleInv, ProcessInv, UndoInv, CleanInv, EndInv,
      FailedEnd, CleanedEnd, FailedRet, Before, UpTo, Between
<1> QED
  BY <1>1, <1>2, <1>3, <1>4, <1>5, <1>6, <1>7, <1>8, <1>9 DEF Next

\* The invariant of the loops holds in every reachable state.
THEOREM LoopInvariant == Spec => []LoopInv
  BY LoopInit, LoopStep, PTL DEF Spec

-------------------------------------------------------------------------------
(* What follows from it. *)

\* A failed run has undone the failing step and every step before it exactly
\* once, no other step, and has cleaned nothing, for a list of any length.
THEOREM UndoneExactlyOnceHolds == Spec => []UndoneExactlyOnce
<1>1. LoopInv => UndoneExactlyOnce
  BY DEF LoopInv, EndInv, FailedEnd, CleanedEnd, UpTo, UndoneExactlyOnce
<1> QED
  BY <1>1, LoopInvariant, PTL

\* clean() of a step only runs when all steps have been processed, and never
\* in a run that undoes a step.
THEOREM CleanOnlyAfterSuccessHolds == Spec => []CleanOnlyAfterSuccess
<1>1. LoopInv => CleanOnlyAfterSuccess
  <2> SUFFICES ASSUME LoopInv, NEW c \in Steps, cleaned[c] > 0
               PROVE  \A s \in Steps : processed[s] = 1 /\ undone[s] = 0
    BY DEF CleanOnlyAfterSuccess
  <2>1. cleaned # Zero
    BY SMT DEF Zero
  <2>2. processed = All /\ undone = Zero
    BY <2>1
    DEF LoopInv, LoopTypeOK, Phases, IdleInv, ProcessInv, UndoInv, CleanInv, EndInv,
        FailedEnd, CleanedEnd
  <2> QED
    BY <2>2 DEF All, Zero
<1> QED
  BY <1>1, LoopInvariant, PTL

\* No step is undone before a later one that was reached.
THEOREM UndoneInReverseHolds == Spec => []UndoneInReverse
<1>1. LoopInv => UndoneInReverse
  <2> SUFFICES ASSUME LoopInv, NEW s \in Steps, NEW t \in Steps,
                      s < t, t <= failedAt, undone[s] > 0
               PROVE  undone[t] > 0
    BY DEF UndoneInReverse
  <2>1. failedAt # 0 /\ undone # Zero
    BY NumStepsAssumption, SMT DEF Steps, Zero
  <2>2. CASE phase = "undo"
    BY <2>2, NumStepsAssumption, SMT DEF LoopInv, LoopTypeOK, UndoInv, Between, Steps
  <2>3. CASE phase = "end"
    BY <2>1, <2>3, NumStepsAssumption, SMT DEF LoopInv, EndInv, FailedEnd, CleanedEnd, UpTo, Steps
  <2> QED
    BY <2>1, <2>2, <2>3
    DEF LoopInv, LoopTypeOK, Phases, IdleInv, ProcessInv, CleanInv
<1> QED
  BY <1>1, LoopInvariant, PTL

\* The Result of Run() is OK only for a run that was processed and cleaned to
\* the last step, UNDO_ERROR exactly when an undo() failed, and CLEANUP_ERROR
\* exactly when processing succeeded and some step stays uncleaned.
THEOREM ResultIsTruthfulHolds == Spec => []ResultIsTruthful
<1>1. LoopInv => ResultIsTruthful
  <2> SUFFICES ASSUME LoopInv, phase = "end"
               PROVE  ResultIsTruthful
    BY DEF ResultIsTruthful
  <2>1. CASE FailedEnd
    BY <2>1 DEF FailedEnd, FailedRet, ResultIsTruthful
  <2>2. CASE CleanedEnd
    <3>1. CASE ret = "OK" /\ cleaned = All
      BY <2>2, <3>1 DEF CleanedEnd, All, ResultIsTruthful
    <3>2. CASE ret = "CLEANUP_ERROR" /\ cleaned = Before(it)
      <4>1. it \in Steps /\ cleaned[it] = 0
        BY <3>2, NumStepsAssumption, SMT DEF Before, LoopInv, LoopTypeOK, Steps
      <4> QED
        BY <2>2, <3>2, <4>1 DEF CleanedEnd, ResultIsTruthful
    <3> QED
      BY <2>2, <3>1, <3>2 DEF CleanedEnd
  <2> QED
    BY <2>1, <2>2 DEF LoopInv, EndInv
<1> QED
  BY <1>1, LoopInvariant, PTL

-------------------------------------------------------------------------------
(* The shape of the state: LoopInv has that of the loops, what is left is the *)
(* conversation with the client and the counters.                             *)

SignalTypeOK ==
  /\ state \in States
  /\ errorSent \in BOOLEAN
  /\ wire \in Seq(Signal)
  /\ lost \subseteq Keys

OtherTypeOK ==
  /\ online \in BOOLEAN /\ uninstall \in BOOLEAN /\ preload \in BOOLEAN
  /\ pkgid \in BOOLEAN /\ preloadError \in BOOLEAN
  /\ processed \in [Steps -> Nat]
  /\ undone \in [Steps -> Nat]
  /\ cleaned \in [Steps -> Nat]

LEMMA SignalsAreSignals ==
  ASSUME NEW k \in Keys, NEW v \in Nat
  PROVE  <<Sig(k, v)>> \in Seq(Signal)
<1>1. Sig(k, v) \in Signal
  BY DEF Sig, Signal
<1> QED
  BY <1>1

LEMMA DeliverType ==
  ASSUME wire \in Seq(Signal), NEW signals \in Seq(Signal), Deliver(signals)
  PROVE  wire' \in Seq(Signal)
  BY DEF Deliver

LEMMA SendStartedType ==
  ASSUME SignalTypeOK, NEW u, SendStarted(u)
  PROVE  SignalTypeOK'
<1> DEFINE start == Sig("start", OkValue)
           appid == Sig("appid", OkValue)
<1>1. <<start>> \in Seq(Signal) /\ <<start, appid>> \in Seq(Signal)
  <2>1. start \in Signal /\ appid \in Signal
    BY DEF Sig, Signal, Keys, OkValue
  <2> HIDE DEF start, appid
  <2> QED
    BY <2>1
<1>2. wire' \in Seq(Signal)
  BY <1>1, DeliverType DEF SendStarted, NoSignal, signalVars, NotDelivered, SignalTypeOK
<1> QED
  BY <1>2 DEF SendStarted, NoSignal, NotDelivered, signalVars, SignalTypeOK, States, Keys

LEMMA SendProgressType ==
  ASSUME SignalTypeOK, NEW p \in Nat, SendProgress(p)
  PROVE  SignalTypeOK'
<1>1. <<Sig("percent", p)>> \in Seq(Signal)
  BY SignalsAreSignals DEF Keys
<1>2. wire' \in Seq(Signal)
  BY <1>1, DeliverType DEF SendProgress, NoSignal, signalVars, NotDelivered, SignalTypeOK
<1> QED
  BY <1>2 DEF SendProgress, NoSignal, NotDelivered, signalVars, SignalTypeOK, Keys

LEMMA SendErrorType ==
  ASSUME SignalTypeOK, SendError
  PROVE  SignalTypeOK'
<1>1. <<Sig("error", FailValue)>> \in Seq(Signal)
  BY SignalsAreSignals DEF Keys, FailValue
<1>2. wire' \in Seq(Signal)
  BY <1>1, DeliverType DEF SendError, NoSignal, signalVars, NotDelivered, SignalTypeOK
<1> QED
  BY <1>2 DEF SendError, NoSignal, NotDelivered, signalVars, SignalTypeOK, Keys

LEMMA SendFinishedType ==
  ASSUME SignalTypeOK, NEW ok \in BOOLEAN, SendFinished(ok)
  PROVE  SignalTypeOK'
<1> DEFINE err == IF ok \/ errorSent THEN << >> ELSE <<Sig("error", FailValue)>>
           end == <<Sig("end", IF ok THEN OkValue ELSE FailValue)>>
<1>1. err \in Seq(Signal) /\ end \in Seq(Signal)
  <2>1. <<Sig("error", FailValue)>> \in Seq(Signal)
    BY SignalsAreSignals DEF Keys, FailValue
  <2>2. (IF ok THEN OkValue ELSE FailValue) \in Nat
    BY DEF OkValue, FailValue
  <2>3. end \in Seq(Signal)
    BY <2>2, SignalsAreSignals DEF Keys
  <2> QED
    BY <2>1, <2>3
<1>2. err \o end \in Seq(Signal)
  BY <1>1
<1>3. CASE state # "STARTED"
  BY <1>3 DEF SendFinished, NoSignal, signalVars, SignalTypeOK
<1>4. CASE state = "STARTED"
  <2>1. /\ \/ Deliver(err \o end) /\ state' = "FINISHED" /\ UNCHANGED lost
           \/ /\ \/ NotDelivered("error")
                 \/ Deliver(err) /\ lost' = lost \cup {"end"}
              /\ UNCHANGED state
        /\ UNCHANGED errorSent
    BY <1>4 DEF SendFinished
  <2> HIDE DEF err, end
  <2>2. wire' \in Seq(Signal)
    BY <1>1, <1>2, <2>1, DeliverType DEF NotDelivered, SignalTypeOK
  <2> QED
    BY <2>1, <2>2 DEF SignalTypeOK, States, Keys, NotDelivered
<1> QED
  BY <1>3, <1>4

LEMMA BumpType ==
  ASSUME NEW f \in [Steps -> Nat], NEW k \in Steps
  PROVE  Bump(f, k) \in [Steps -> Nat]
  BY DEF Bump

LEMMA ZeroType == Zero \in [Steps -> Nat]
  BY DEF Zero

LEMMA PercentType ==
  ASSUME NEW k \in Nat
  PROVE  Percent(k) \in Nat
  BY NumStepsAssumption DEF Percent

LEMMA OtherTypeStep ==
  ASSUME LoopTypeOK, OtherTypeOK, [Next]_vars
  PROVE  OtherTypeOK'
<1> USE DEF OtherTypeOK, LoopTypeOK
<1>1. CASE Begin
  BY <1>1 DEF Begin, reqVars, histVars
<1>2. CASE ProcessOk
  BY <1>2, BumpType DEF ProcessOk, reqVars
<1>3. CASE ProcessFails
  BY <1>3 DEF ProcessFails, reqVars
<1>4. CASE NotifyStart \/ NotifyProgress
  BY <1>4 DEF NotifyStart, NotifyProgress, reqVars, histVars
<1>5. CASE UndoStep
  BY <1>5, BumpType DEF UndoStep, reqVars
<1>6. CASE CleanOk
  BY <1>6, BumpType DEF CleanOk, reqVars
<1>7. CASE CleanFails
  BY <1>7 DEF CleanFails, reqVars, histVars
<1>8. CASE LateStart \/ Finish
  BY <1>8 DEF LateStart, Finish, reqVars, histVars
<1>9. CASE WriteInfo
  BY <1>9 DEF WriteInfo, reqVars, histVars
<1>10. CASE UNCHANGED vars
  BY <1>10 DEF vars, reqVars, histVars
<1> QED
  BY <1>1, <1>2, <1>3, <1>4, <1>5, <1>6, <1>7, <1>8, <1>9, <1>10 DEF Next

LEMMA SignalTypeStep ==
  ASSUME LoopTypeOK, SignalTypeOK, [Next]_vars
  PROVE  SignalTypeOK'
<1>1. ASSUME NoSignal
      PROVE  SignalTypeOK'
  BY <1>1 DEF NoSignal, signalVars, SignalTypeOK
<1>2. CASE Begin \/ ProcessOk \/ UndoStep \/ CleanOk \/ WriteInfo \/ UNCHANGED vars
  BY <1>1, <1>2 DEF Begin, ProcessOk, UndoStep, CleanOk, WriteInfo, vars, NoSignal
<1>3. CASE ProcessFails \/ CleanFails
  BY <1>1, <1>3, SendErrorType DEF ProcessFails, CleanFails, OnError
<1>4. CASE NotifyStart \/ LateStart
  BY <1>1, <1>4, SendStartedType DEF NotifyStart, LateStart
<1>5. CASE NotifyProgress
  <2> DEFINE k == IF phase = "clean" THEN NumSteps ELSE it - 1
  <2>1. k \in Nat
    BY NumStepsAssumption, SMT DEF LoopTypeOK, Steps
  <2>2. SendProgress(Percent(k))
    BY <1>5 DEF NotifyProgress
  <2> HIDE DEF k
  <2> QED
    BY <2>1, <2>2, PercentType, SendProgressType
<1>6. CASE Finish
  <2>1. (failedAt = 0) \in BOOLEAN
    OBVIOUS
  <2> QED
    BY <1>1, <1>6, <2>1, SendFinishedType DEF Finish
<1> QED
  BY <1>2, <1>3, <1>4, <1>5, <1>6 DEF Next

\* Every variable keeps its type, for a list of any length: the iterator stays
\* inside the list, and the client only gets signals.
THEOREM TypeOKHolds == Spec => []TypeOK
<1>1. Init => SignalTypeOK /\ OtherTypeOK
  <2> SUFFICES ASSUME Init
               PROVE  SignalTypeOK /\ OtherTypeOK
    OBVIOUS
  <2>1. SignalTypeOK
    <3>1. << >> \in Seq(Signal)
      OBVIOUS
    <3> QED
      BY <3>1 DEF Init, SignalInit, SignalTypeOK, States
  <2>2. OtherTypeOK
    BY ZeroType DEF Init, OtherTypeOK
  <2> QED
    BY <2>1, <2>2
<1>2. LoopInv /\ SignalTypeOK /\ OtherTypeOK /\ [Next]_vars => (SignalTypeOK /\ OtherTypeOK)'
  BY SignalTypeStep, OtherTypeStep DEF LoopInv
<1>3. LoopInv /\ SignalTypeOK /\ OtherTypeOK => TypeOK
  BY DEF LoopInv, LoopTypeOK, SignalTypeOK, OtherTypeOK, TypeOK
<1> QED
  BY <1>1, <1>2, <1>3, LoopInvariant, PTL DEF Spec

-------------------------------------------------------------------------------
(* Run() implements the transaction of RequestTransaction: every step of the   *)
(* loops is a step of the transaction or none of its business.  That the       *)
(* transaction also comes to an end is left to TLC.                            *)

\* A failed request has processed the steps before the failing one.
ReachedInv == failedAt # 0 => processed = Before(failedAt)

\* The client gets no END before Run() has come to Finish.
AnswerInv == note \notin {"info", "done"} => TxAnswer = "none"

ImplInv == LoopInv /\ ReachedInv /\ AnswerInv /\ wire \in Seq(Signal)

-------------------------------------------------------------------------------
(* The effects of a request, phase by phase. *)

LEMMA EffectsForward ==
  ASSUME LoopInv, phase \in {"idle", "process"}
  PROVE  TxEffects = {s \in Steps : s < it}
<1>1. failedAt = 0 /\ undone = Zero
  BY DEF LoopInv, IdleInv, ProcessInv
<1>2. processed = Before(it)
  BY Boundaries DEF LoopInv, IdleInv, ProcessInv
<1> QED
  BY <1>1, <1>2, NumStepsAssumption, SMT DEF TxEffects, Before, Zero, Steps

LEMMA EffectsBackward ==
  ASSUME LoopInv, ReachedInv, phase = "undo"
  PROVE  TxEffects = {s \in Steps : s <= it}
<1>1. it \in Steps /\ failedAt \in Steps /\ it <= failedAt
  BY NumStepsAssumption, SMT DEF LoopInv, LoopTypeOK, UndoInv, Steps
<1>2. processed = Before(failedAt) /\ undone = Between(it, failedAt)
  BY <1>1, NumStepsAssumption DEF LoopInv, UndoInv, ReachedInv, Steps
<1> QED
  BY <1>1, <1>2, NumStepsAssumption, SMT DEF TxEffects, Before, Between, Steps

LEMMA EffectsCommitted ==
  ASSUME processed = All, undone = Zero
  PROVE  TxEffects = Steps
  BY SMT DEF TxEffects, All, Zero

LEMMA EffectsAborted ==
  ASSUME ReachedInv, failedAt \in Steps, undone = UpTo(failedAt)
  PROVE  TxEffects = {}
<1>1. processed = Before(failedAt)
  BY NumStepsAssumption DEF ReachedInv, Steps
<1> QED
  BY <1>1, NumStepsAssumption, SMT DEF TxEffects, Before, UpTo, Steps

-------------------------------------------------------------------------------
(* The answer: appending a signal other than END leaves the client without. *)

LEMMA LastOf ==
  ASSUME NEW w \in Seq(Signal), NEW s \in Signal
  PROVE  /\ w \o <<s>> # << >>
         /\ (w \o <<s>>)[Len(w \o <<s>>)] = s
  OBVIOUS

LEMMA DeliveredAnswer ==
  ASSUME wire \in Seq(Signal), NEW k \in Keys, NEW v \in Nat, Deliver(<<Sig(k, v)>>)
  PROVE  TxAnswer' = IF k # "end" THEN "none" ELSE IF v = OkValue THEN "ok" ELSE "fail"
<1> DEFINE s == Sig(k, v)
<1>1. s \in Signal /\ s.key = k /\ s.value = v
  BY DEF Sig, Signal
<1>2. wire' = wire \o <<s>>
  BY DEF Deliver
<1> HIDE DEF s
<1>3. wire' # << >> /\ wire'[Len(wire')] = s
  BY <1>1, <1>2, LastOf
<1> QED
  BY <1>1, <1>3 DEF TxAnswer

LEMMA SameAnswer ==
  ASSUME wire' = wire
  PROVE  TxAnswer' = TxAnswer
  BY DEF TxAnswer

LEMMA OnErrorAnswer ==
  ASSUME wire \in Seq(Signal), OnError, TxAnswer = "none"
  PROVE  TxAnswer' = "none"
<1>1. CASE wire' = wire
  BY <1>1, SameAnswer
<1>2. CASE Deliver(<<Sig("error", FailValue)>>)
  BY <1>2, DeliveredAnswer DEF Keys, FailValue
<1> QED
  BY <1>1, <1>2 DEF OnError, SendError, NoSignal, signalVars, NotDelivered

LEMMA StartAnswer ==
  ASSUME wire \in Seq(Signal), NEW u, SendStarted(u) \/ NoSignal, TxAnswer = "none"
  PROVE  TxAnswer' = "none"
<1>1. CASE wire' = wire
  BY <1>1, SameAnswer
<1>2. CASE Deliver(<<Sig("start", OkValue)>>)
  BY <1>2, DeliveredAnswer DEF Keys, OkValue
<1>3. CASE Deliver(<<Sig("start", OkValue), Sig("appid", OkValue)>>)
  <2> DEFINE a == Sig("start", OkValue)  b == Sig("appid", OkValue)
  <2>1. a \in Signal /\ b \in Signal /\ b.key = "appid"
    BY DEF Sig, Signal, Keys, OkValue
  <2>2. wire' = wire \o <<a, b>>
    BY <1>3 DEF Deliver
  <2> HIDE DEF a, b
  <2>3. wire' # << >> /\ wire'[Len(wire')] = b
    BY <2>1, <2>2
  <2> QED
    BY <2>1, <2>3 DEF TxAnswer
<1> QED
  BY <1>1, <1>2, <1>3 DEF SendStarted, NoSignal, signalVars, NotDelivered

LEMMA ProgressAnswer ==
  ASSUME wire \in Seq(Signal), NEW p \in Nat, SendProgress(p), TxAnswer = "none"
  PROVE  TxAnswer' = "none"
<1>1. CASE wire' = wire
  BY <1>1, SameAnswer
<1>2. CASE Deliver(<<Sig("percent", p)>>)
  BY <1>2, DeliveredAnswer DEF Keys
<1> QED
  BY <1>1, <1>2 DEF SendProgress, NoSignal, signalVars, NotDelivered

LEMMA FinishedAnswer ==
  ASSUME wire \in Seq(Signal), NEW ok \in BOOLEAN, SendFinished(ok), TxAnswer = "none"
  PROVE  TxAnswer' \in {"none", IF ok THEN "ok" ELSE "fail"}
<1> DEFINE v == IF ok THEN OkValue ELSE FailValue
           e == Sig("error", FailValue)
           f == Sig("end", v)
           err == IF ok \/ errorSent THEN << >> ELSE <<e>>
<1>1. /\ e \in Signal /\ e.key = "error"
      /\ f \in Signal /\ f.key = "end" /\ f.value = v
  BY DEF Sig, Signal, Keys, OkValue, FailValue
<1>2. CASE wire' = wire
  BY <1>2, SameAnswer
<1>3. CASE Deliver(<<e>>)
  BY <1>3, DeliveredAnswer DEF Keys, FailValue
<1>4. CASE Deliver(err \o <<f>>)
  <2>1. wire' = wire \o (err \o <<f>>)
    BY <1>4 DEF Deliver
  <2> HIDE DEF e, f
  <2>2. err \in Seq(Signal)
    BY <1>1
  <2> HIDE DEF err
  <2>3. wire' # << >> /\ wire'[Len(wire')] = f
    BY <1>1, <2>1, <2>2
  <2>4. (v = OkValue) <=> ok
    BY DEF OkValue, FailValue
  <2> QED
    BY <1>1, <2>3, <2>4 DEF TxAnswer
<1>5. CASE state = "STARTED"
  <2>1. \/ Deliver(err \o <<f>>)
        \/ Deliver(err)
        \/ wire' = wire
    BY <1>5 DEF SendFinished, NotDelivered
  <2>2. Deliver(err) => wire' = wire \/ Deliver(<<e>>)
    <3>1. CASE err = << >>
      BY <3>1 DEF Deliver
    <3>2. CASE err = <<e>>
      BY <3>2
    <3> QED
      BY <3>1, <3>2
  <2> HIDE DEF e, f, err
  <2> QED
    BY <1>2, <1>3, <1>4, <2>1, <2>2
<1>6. CASE state # "STARTED"
  BY <1>2, <1>6 DEF SendFinished, NoSignal, signalVars
<1> QED
  BY <1>5, <1>6

-------------------------------------------------------------------------------
(* The invariant is inductive, *)

LEMMA ImplInit == Init => ReachedInv /\ AnswerInv
<1> SUFFICES ASSUME Init
             PROVE  ReachedInv /\ AnswerInv
  OBVIOUS
<1>1. wire = << >> /\ failedAt = 0
  BY DEF Init, SignalInit
<1> QED
  BY <1>1 DEF ReachedInv, AnswerInv, TxAnswer

LEMMA ReachedStep == LoopInv /\ ReachedInv /\ [Next]_vars => ReachedInv'
<1> SUFFICES ASSUME LoopInv, ReachedInv, [Next]_vars
             PROVE  ReachedInv'
  OBVIOUS
<1>1. CASE ProcessOk
  <2>1. phase = "process" /\ failedAt' = failedAt
    BY <1>1 DEF ProcessOk, StepOk
  <2> QED
    BY <2>1 DEF ReachedInv, LoopInv, ProcessInv
<1>2. CASE ProcessFails
  <2>1. phase = "process" /\ failedAt' = it /\ processed' = processed
    BY <1>2 DEF ProcessFails, StepFails
  <2> QED
    BY <2>1 DEF ReachedInv, LoopInv, ProcessInv, Before
<1>3. CASE \/ Begin \/ NotifyStart \/ NotifyProgress \/ UndoStep \/ CleanOk \/ CleanFails
           \/ LateStart \/ Finish \/ WriteInfo \/ UNCHANGED vars
  <2>1. failedAt' = failedAt /\ processed' = processed
    BY <1>3
    DEF Begin, NotifyStart, NotifyProgress, UndoStep, CleanOk, CleanFails, LateStart,
        Finish, WriteInfo, vars, histVars
  <2> QED
    BY <2>1 DEF ReachedInv, Before
<1> QED
  BY <1>1, <1>2, <1>3 DEF Next

\* Up to Finish, no step of Run() sends an END.
LEMMA NoAnswerYet ==
  ASSUME ImplInv, Next, ~Finish, ~WriteInfo
  PROVE  TxAnswer = "none" /\ TxAnswer' = "none"
<1>1. TxAnswer = "none"
  <2>1. note \notin {"info", "done"}
    BY DEF ImplInv, LoopInv, LoopTypeOK, Phases, IdleInv, ProcessInv, UndoInv, CleanInv,
           EndInv, Next, Begin, BeginRun, ProcessOk, ProcessFails, NotifyStart,
           NotifyProgress, UndoStep, CleanOk, CleanFails, LateStart
  <2> QED
    BY <2>1 DEF ImplInv, AnswerInv
<1>2. CASE Begin \/ ProcessOk \/ UndoStep \/ CleanOk
  BY <1>1, <1>2, SameAnswer DEF Begin, ProcessOk, UndoStep, CleanOk, signalVars
<1>3. CASE ProcessFails \/ CleanFails
  BY <1>1, <1>3, OnErrorAnswer DEF ProcessFails, CleanFails, ImplInv
<1>4. CASE NotifyStart \/ LateStart
  BY <1>1, <1>4, StartAnswer DEF NotifyStart, LateStart, ImplInv
<1>5. CASE NotifyProgress
  <2> DEFINE k == IF phase = "clean" THEN NumSteps ELSE it - 1
  <2>1. k \in Nat
    BY NumStepsAssumption, SMT DEF ImplInv, LoopInv, LoopTypeOK, Steps
  <2>2. SendProgress(Percent(k))
    BY <1>5 DEF NotifyProgress
  <2> HIDE DEF k
  <2> QED
    BY <1>1, <2>1, <2>2, PercentType, ProgressAnswer DEF ImplInv
<1> QED
  BY <1>1, <1>2, <1>3, <1>4, <1>5 DEF Next

LEMMA AnswerStep == ImplInv /\ [Next]_vars => AnswerInv'
<1> SUFFICES ASSUME ImplInv, [Next]_vars
             PROVE  AnswerInv'
  OBVIOUS
<1>1. CASE Next /\ ~Finish /\ ~WriteInfo
  BY <1>1, NoAnswerYet DEF AnswerInv
<1>2. CASE Finish \/ WriteInfo
  BY <1>2 DEF Finish, WriteInfo, AnswerInv
<1>3. CASE UNCHANGED vars
  BY <1>3, SameAnswer DEF vars, signalVars, ImplInv, AnswerInv
<1> QED
  BY <1>1, <1>2, <1>3

-------------------------------------------------------------------------------
(* and every step of Run() is a step of the transaction or leaves it alone. *)

LEMMA InitImplements == LoopInv /\ Init => Transaction!Init
<1> SUFFICES ASSUME LoopInv, Init
             PROVE  TxStatus = "running" /\ TxEffects = {} /\ TxAnswer = "none"
  BY DEF Transaction!Init
<1>1. phase = "idle" /\ it = 1 /\ wire = << >>
  BY DEF Init, RunnerInit, SignalInit
<1>2. TxEffects = {}
  BY <1>1, EffectsForward, NumStepsAssumption, SMT DEF Steps
<1> QED
  BY <1>1, <1>2 DEF TxStatus, TxAnswer

\* The steps of the loops that the transaction does not see.
LEMMA SameEffects ==
  ASSUME processed' = processed, undone' = undone, failedAt' = failedAt
  PROVE  TxEffects' = TxEffects
  BY DEF TxEffects

LEMMA StepImplements ==
  ImplInv /\ ImplInv' /\ [Next]_vars => [Transaction!Next]_Transaction!txVars
<1> SUFFICES ASSUME ImplInv, ImplInv', [Next]_vars
             PROVE  \/ Transaction!Next
                    \/ TxStatus' = TxStatus /\ TxEffects' = TxEffects /\ TxAnswer' = TxAnswer
  BY DEF Transaction!txVars
<1> USE DEF ImplInv
<1>1. CASE Begin
  <2>1. phase = "idle" /\ phase' = "process"
    BY <1>1 DEF Begin, BeginRun
  <2> QED
    BY <1>1, <2>1, SameEffects, SameAnswer DEF Begin, TxStatus, histVars, signalVars
<1>2. CASE ProcessOk
  <2>1. /\ phase = "process" /\ it \in Steps /\ phase' \in {"process", "clean"}
        /\ IF it < NumSteps THEN phase' = "process" /\ it' = it + 1
                            ELSE phase' = "clean" /\ it' = 1
    BY <1>2 DEF ProcessOk, StepOk, LoopInv, LoopTypeOK
  <2>2. TxEffects = {s \in Steps : s < it} /\ it \in Steps \ TxEffects
    BY <2>1, EffectsForward, NumStepsAssumption DEF Steps
  <2>3. TxAnswer' = TxAnswer
    BY <1>2, SameAnswer DEF ProcessOk, signalVars
  <2>4. CASE it < NumSteps
    <3>1. TxEffects' = {s \in Steps : s < it + 1}
      <4>1. LoopInv' /\ phase' = "process" /\ it' = it + 1
        BY <2>1, <2>4
      <4>2. TxEffects' = {s \in Steps : s < it'}
        BY <4>1, NumStepsAssumption, SMT
        DEF LoopInv, ProcessInv, TxEffects, Before, Zero, Steps
      <4> QED
        BY <4>1, <4>2
    <3>2. TxEffects' = TxEffects \cup {it}
      BY <2>1, <2>2, <2>4, <3>1, NumStepsAssumption, SMT DEF Steps
    <3>3. NumSteps \in Steps \ TxEffects'
      BY <2>1, <2>4, <3>1, FirstStep, NumStepsAssumption, SMT DEF Steps
    <3>4. TxStatus = "running" /\ TxStatus' = "running"
      BY <2>1, <2>4 DEF TxStatus
    <3> QED
      BY <2>2, <2>3, <3>2, <3>3, <3>4 DEF Transaction!Next, Transaction!Apply
  <2>5. CASE ~(it < NumSteps)
    <3>1. TxEffects' = Steps
      <4>1. processed' = All /\ undone' = Zero
        BY <2>1, <2>5 DEF LoopInv, CleanInv, All, Zero
      <4> QED
        BY <4>1 DEF TxEffects, All, Zero
    <3>2. TxEffects' = TxEffects \cup {it}
      BY <2>1, <2>2, <2>5, <3>1, NumStepsAssumption, SMT DEF Steps
    <3>3. TxStatus = "running" /\ TxStatus' = "committed"
      BY <2>1, <2>5 DEF TxStatus
    <3> QED
      BY <2>2, <2>3, <3>1, <3>2, <3>3 DEF Transaction!Next, Transaction!Apply
  <2> QED
    BY <2>4, <2>5
<1>3. CASE ProcessFails
  <2>1. /\ phase = "process" /\ phase' = "undo" /\ it \in Steps /\ it' = it
        /\ LoopInv' /\ ReachedInv'
    BY <1>3 DEF ProcessFails, StepFails, LoopInv, LoopTypeOK
  <2>2. TxEffects = {s \in Steps : s < it} /\ it \in Steps \ TxEffects
    BY <2>1, EffectsForward, NumStepsAssumption DEF Steps
  <2>3. TxEffects' = {s \in Steps : s <= it}
    <3>1. /\ processed' = Before(it) /\ undone' = Zero /\ failedAt' = it
      BY <1>3, <2>1 DEF ProcessFails, LoopInv, ProcessInv
    <3> QED
      BY <2>1, <3>1, NumStepsAssumption, SMT DEF TxEffects, Before, Zero, Steps
  <2>4. TxEffects' = TxEffects \cup {it}
    BY <2>1, <2>2, <2>3, NumStepsAssumption, SMT DEF Steps
  <2>5. TxStatus = "running" /\ TxStatus' = "failing"
    BY <2>1 DEF TxStatus
  <2>6. TxAnswer' = TxAnswer
    BY <1>3, <2>1, NoAnswerYet DEF Next, Finish, WriteInfo, ProcessFails, StepFails
  <2> QED
    BY <2>2, <2>4, <2>5, <2>6 DEF Transaction!Next, Transaction!Fail
<1>4. CASE UndoStep
  <2>1. PICK ok \in BOOLEAN : StepUndone(ok)
    BY <1>4 DEF UndoStep
  <2>2. /\ phase = "undo" /\ it \in Steps /\ failedAt \in Steps /\ it <= failedAt
        /\ processed = Before(failedAt) /\ undone = Between(it, failedAt)
        /\ processed' = processed /\ failedAt' = failedAt
    BY <1>4, <2>1, NumStepsAssumption
    DEF UndoStep, StepUndone, LoopInv, LoopTypeOK, UndoInv, ReachedInv, Steps
  <2>3. undone' = Between(it - 1, failedAt)
    BY <1>4, <2>2, BumpBetween DEF UndoStep
  <2>4. TxEffects = {s \in Steps : s <= it}
    BY <2>2, EffectsBackward
  <2>5. TxEffects' = {s \in Steps : s <= it - 1}
    BY <2>2, <2>3, NumStepsAssumption, SMT DEF TxEffects, Before, Between, Steps
  <2>6. it \in TxEffects /\ TxEffects' = TxEffects \ {it}
    BY <2>2, <2>4, <2>5, NumStepsAssumption, SMT DEF Steps
  <2>7. TxAnswer' = TxAnswer
    BY <1>4, SameAnswer DEF UndoStep, signalVars
  <2>8. CASE it > 1
    <3>1. TxStatus = "failing" /\ TxStatus' = "failing"
      BY <2>1, <2>2, <2>8 DEF TxStatus, StepUndone
    <3>2. 1 \in TxEffects'
      BY <2>2, <2>5, <2>8, NumStepsAssumption, SMT DEF Steps
    <3> QED
      BY <2>6, <2>7, <3>1, <3>2 DEF Transaction!Next, Transaction!Revert
  <2>9. CASE ~(it > 1)
    <3>1. phase' = "end" /\ failedAt' # 0
      BY <2>1, <2>2, <2>9, NumStepsAssumption DEF StepUndone, Steps
    <3>2. TxStatus = "failing" /\ TxStatus' = "aborted"
      BY <2>2, <3>1 DEF TxStatus
    <3>3. TxEffects' = {}
      BY <2>2, <2>5, <2>9, NumStepsAssumption, SMT DEF Steps
    <3> QED
      BY <2>6, <2>7, <3>2, <3>3 DEF Transaction!Next, Transaction!Revert
  <2> QED
    BY <2>8, <2>9
<1>5. CASE CleanOk \/ CleanFails
  <2>1. /\ phase = "clean" /\ phase' \in {"clean", "end"} /\ failedAt = 0
        /\ processed' = processed /\ undone' = undone /\ failedAt' = failedAt
    BY <1>5
    DEF CleanOk, CleanFails, StepCleaned, StepCleanFails, histVars, LoopInv, CleanInv
  <2>2. TxStatus' = TxStatus
    BY <2>1 DEF TxStatus
  <2>3. TxAnswer' = TxAnswer
    BY <1>5, <2>1, NoAnswerYet
    DEF Next, Finish, WriteInfo, CleanOk, CleanFails
  <2> QED
    BY <2>1, <2>2, <2>3, SameEffects
<1>6. CASE NotifyStart \/ NotifyProgress \/ LateStart
  <2>1. UNCHANGED <<phase, processed, undone, failedAt>> /\ ~Finish /\ ~WriteInfo
    BY <1>6
    DEF NotifyStart, NotifyProgress, LateStart, Finish, WriteInfo, runnerVars, histVars
  <2>2. TxStatus' = TxStatus
    BY <2>1 DEF TxStatus
  <2>3. TxAnswer' = TxAnswer
    BY <1>6, <2>1, NoAnswerYet DEF Next
  <2> QED
    BY <2>1, <2>2, <2>3, SameEffects
<1>7. CASE Finish
  <2>1. /\ UNCHANGED <<phase, processed, undone, failedAt>>
        /\ note = "finish" /\ phase = "end"
    BY <1>7
    DEF Finish, runnerVars, histVars, LoopInv, LoopTypeOK, Phases, IdleInv, ProcessInv,
        UndoInv, CleanInv
  <2>2. TxStatus' = TxStatus /\ TxEffects' = TxEffects
    BY <2>1, SameEffects DEF TxStatus
  <2>3. TxAnswer = "none"
    BY <2>1 DEF AnswerInv
  <2>4. CASE SendFinished(failedAt = 0)
    <3>1. (failedAt = 0) \in BOOLEAN
      OBVIOUS
    <3>2. TxAnswer' \in {"none", IF failedAt = 0 THEN "ok" ELSE "fail"}
      BY <2>3, <2>4, <3>1, FinishedAnswer
    <3>3. TxStatus = IF failedAt = 0 THEN "committed" ELSE "aborted"
      BY <2>1 DEF TxStatus
    <3> QED
      BY <2>2, <2>3, <3>2, <3>3 DEF Transaction!Next, Transaction!Answer
  <2>5. CASE NoSignal
    BY <2>2, <2>5, SameAnswer DEF NoSignal, signalVars
  <2> QED
    BY <1>7, <2>4, <2>5 DEF Finish
<1>8. CASE WriteInfo \/ UNCHANGED vars
  <2>1. UNCHANGED <<phase, processed, undone, failedAt, wire>>
    BY <1>8 DEF WriteInfo, vars, runnerVars, histVars, signalVars
  <2> QED
    BY <2>1, SameEffects, SameAnswer DEF TxStatus
<1> QED
  BY <1>1, <1>2, <1>3, <1>4, <1>5, <1>6, <1>7, <1>8 DEF Next

-------------------------------------------------------------------------------
(* The theorem. *)

\* Whatever fails, and for a list of any length, Run() does what a transaction
\* does and nothing else: it never commits a part of the steps, never aborts
\* with one of them still in effect, and never tells the client another
\* outcome, or an outcome before there is one.
THEOREM RunImplementsTransaction == Spec => Transaction!Safe
<1>1. Spec => []ImplInv
  <2>1. TypeOK => wire \in Seq(Signal)
    BY DEF TypeOK
  <2>2. Init /\ LoopInv /\ wire \in Seq(Signal) => ImplInv
    BY ImplInit DEF ImplInv
  <2>3. /\ ImplInv /\ [Next]_vars /\ LoopInv' /\ (wire \in Seq(Signal))'
        => ImplInv'
    BY ReachedStep, AnswerStep DEF ImplInv
  <2> QED
    BY <2>1, <2>2, <2>3, LoopInvariant, TypeOKHolds, PTL DEF Spec
<1>2. ImplInv /\ Init => Transaction!Init
  BY InitImplements DEF ImplInv
<1> QED
  BY <1>1, <1>2, StepImplements, PTL DEF Spec, Transaction!Safe
-------------------------------------------------------------------------------
(* What the client of a request is told.  The invariants relate the signals    *)
(* delivered so far to the state of PkgmgrSignal and to the place              *)
(* AppInstaller::Run() has reached.                                            *)

No(k, w) == \A i \in 1..Len(w) : w[i].key # k

One(k, w) ==
  \E i \in 1..Len(w) : w[i].key = k /\ \A j \in 1..Len(w) : w[j].key = k => j = i

StartsOnce(w) == \A i \in 1..Len(w) : (i = 1) <=> (w[i].key = "start")

PercentsUpTo(m, w) == \A i \in 1..Len(w) : w[i].key = "percent" => w[i].value <= m

PercentsGrow(w) ==
  \A i \in 1..Len(w) : \A j \in 1..i :
    (w[i].key = "percent" /\ w[j].key = "percent" /\ j # i) => w[j].value < w[i].value

Outcome == Sig("end", IF failedAt = 0 THEN OkValue ELSE FailValue)

\* The one END is the last signal and names the outcome of processing.
Ended(w) ==
  /\ w # << >>
  /\ w[Len(w)] = Outcome
  /\ \A i \in 1..Len(w) : w[i].key = "end" => i = Len(w)

\* START comes first and END last, and the state of PkgmgrSignal says which of
\* the two are out; the client of an offline request gets no signal at all.
ShapeInv ==
  /\ wire \in Seq(Signal)
  /\ state \in States
  /\ (state = "NOT_SENT") <=> (wire = << >>)
  /\ StartsOnce(wire)
  /\ state # "FINISHED" => No("end", wire)
  /\ state = "FINISHED" => note \in {"info", "done"} /\ Ended(wire)
  /\ ~online => state = "NOT_SENT" /\ note \notin {"start", "percent"}

\* An error is sent by the failing step or else with the END, never by both.
ErrorInv ==
  /\ phase \in {"idle", "process", "clean"} => ~errorSent /\ No("error", wire)
  /\ (~OutcomeLost /\ failedAt # 0) =>
        IF errorSent \/ state = "FINISHED" THEN One("error", wire) ELSE No("error", wire)

\* A call that fails leaves its trace in lost: START is out by the end of Run()
\* unless it was lost, and then END as well unless END or the error was.
SentInv ==
  online =>
    /\ note \in {"finish", "info", "done"} => state # "NOT_SENT" \/ "start" \in lost
    /\ note \in {"info", "done"} => state # "STARTED" \/ OutcomeLost

TalkInv == ShapeInv /\ ErrorInv /\ SentInv

\* How many steps the progress may have been reported for: the one that has
\* just been processed is still to be reported while note says so.
Told ==
  IF note = "none" THEN it - 1
  ELSE IF phase = "clean" THEN NumSteps - 1 ELSE it - 2

GrowInv ==
  /\ phase = "idle" => wire = << >>
  /\ PercentsGrow(wire)
  /\ (phase = "process" \/ note \in {"start", "percent"}) =>
        Told \in Nat /\ PercentsUpTo(Percent(Told), wire)

-------------------------------------------------------------------------------
(* Lemmas: what one more signal does to what the client has got. *)

LEMMA OneMore ==
  ASSUME NEW w \in Seq(Signal), NEW s \in Signal
  PROVE  /\ w \o <<s>> \in Seq(Signal)
         /\ w \o <<s>> # << >>
         /\ Len(w) \in Nat
         /\ Len(w \o <<s>>) = Len(w) + 1
         /\ (w \o <<s>>)[Len(w) + 1] = s
         /\ \A i \in 1..Len(w) : (w \o <<s>>)[i] = w[i]
  OBVIOUS

LEMMA ValueType ==
  ASSUME NEW w \in Seq(Signal), NEW i \in 1..Len(w)
  PROVE  w[i].value \in Nat
<1>1. w[i] \in Signal
  OBVIOUS
<1> QED
  BY <1>1 DEF Signal

LEMMA NoOneMore ==
  ASSUME NEW w \in Seq(Signal), NEW s \in Signal, NEW k, No(k, w)
  PROVE  IF s.key = k THEN One(k, w \o <<s>>) ELSE No(k, w \o <<s>>)
<1> DEFINE v == w \o <<s>>
<1>1. /\ Len(w) \in Nat /\ Len(v) = Len(w) + 1 /\ v[Len(w) + 1] = s
      /\ \A i \in 1..Len(w) : v[i] = w[i]
  BY OneMore
<1> HIDE DEF v
<1>2. CASE s.key = k
  <2>1. Len(v) \in 1..Len(v) /\ v[Len(v)].key = k
    BY <1>1, <1>2
  <2>2. \A j \in 1..Len(v) : v[j].key = k => j = Len(v)
    BY <1>1 DEF No
  <2> QED
    BY <1>2, <2>1, <2>2 DEF One, v
<1>3. CASE s.key # k
  <2>1. \A i \in 1..Len(v) : v[i].key # k
    BY <1>1, <1>3 DEF No
  <2> QED
    BY <1>3, <2>1 DEF No, v
<1> QED
  BY <1>2, <1>3

LEMMA OneOneMore ==
  ASSUME NEW w \in Seq(Signal), NEW s \in Signal, NEW k, One(k, w), s.key # k
  PROVE  One(k, w \o <<s>>)
<1> DEFINE v == w \o <<s>>
<1>1. /\ Len(w) \in Nat /\ Len(v) = Len(w) + 1 /\ v[Len(w) + 1] = s
      /\ \A i \in 1..Len(w) : v[i] = w[i]
  BY OneMore
<1> HIDE DEF v
<1>2. PICK i \in 1..Len(w) : w[i].key = k /\ \A j \in 1..Len(w) : w[j].key = k => j = i
  BY DEF One
<1>3. i \in 1..Len(v) /\ v[i].key = k
  BY <1>1, <1>2
<1>4. \A j \in 1..Len(v) : v[j].key = k => j = i
  BY <1>1, <1>2
<1> QED
  BY <1>3, <1>4 DEF One, v

LEMMA StartsOneMore ==
  ASSUME NEW w \in Seq(Signal), NEW s \in Signal, StartsOnce(w),
         (w = << >>) <=> (s.key = "start")
  PROVE  StartsOnce(w \o <<s>>)
<1> DEFINE v == w \o <<s>>
<1>1. /\ Len(w) \in Nat /\ Len(v) = Len(w) + 1 /\ v[Len(w) + 1] = s
      /\ \A i \in 1..Len(w) : v[i] = w[i]
  BY OneMore
<1>2. (w = << >>) <=> (Len(w) = 0)
  OBVIOUS
<1> HIDE DEF v
<1>3. \A i \in 1..Len(v) : (i = 1) <=> (v[i].key = "start")
  BY <1>1, <1>2 DEF StartsOnce
<1> QED
  BY <1>3 DEF StartsOnce, v

LEMMA UpToOneMore ==
  ASSUME NEW w \in Seq(Signal), NEW s \in Signal, NEW m \in Nat, NEW n \in Nat,
         m <= n, PercentsUpTo(m, w), s.key = "percent" => s.value = n
  PROVE  PercentsUpTo(n, w \o <<s>>)
<1> DEFINE v == w \o <<s>>
<1>1. /\ Len(w) \in Nat /\ Len(v) = Len(w) + 1 /\ v[Len(w) + 1] = s
      /\ \A i \in 1..Len(w) : v[i] = w[i]
  BY OneMore
<1>2. \A i \in 1..Len(w) : w[i].value \in Nat
  BY ValueType
<1> HIDE DEF v
<1>3. \A i \in 1..Len(v) : v[i].key = "percent" => v[i].value <= n
  BY <1>1, <1>2 DEF PercentsUpTo
<1> QED
  BY <1>3 DEF PercentsUpTo, v

LEMMA GrowOneMore ==
  ASSUME NEW w \in Seq(Signal), NEW s \in Signal, NEW m \in Nat, PercentsGrow(w),
         s.key = "percent" => PercentsUpTo(m, w) /\ m < s.value
  PROVE  PercentsGrow(w \o <<s>>)
<1> DEFINE v == w \o <<s>>
<1>1. /\ Len(w) \in Nat /\ Len(v) = Len(w) + 1 /\ v[Len(w) + 1] = s
      /\ \A i \in 1..Len(w) : v[i] = w[i]
  BY OneMore
<1>2. s.value \in Nat /\ \A i \in 1..Len(w) : w[i].value \in Nat
  BY ValueType DEF Signal
<1> HIDE DEF v
<1>3. ASSUME NEW i \in 1..Len(v), NEW j \in 1..i,
             v[i].key = "percent", v[j].key = "percent", j # i
      PROVE  v[j].value < v[i].value
  <2>1. j \in 1..Len(w) /\ v[j] = w[j]
    BY <1>1, <1>3
  <2>2. CASE i = Len(w) + 1
    <3>1. w[j].value <= m /\ m < s.value /\ v[i] = s
      BY <1>1, <1>3, <2>1, <2>2 DEF PercentsUpTo
    <3> QED
      BY <1>2, <2>1, <3>1
  <2>3. CASE i # Len(w) + 1
    BY <1>1, <1>3, <2>1, <2>3 DEF PercentsGrow
  <2> QED
    BY <2>2, <2>3
<1> QED
  BY <1>3 DEF PercentsGrow, v

\* A signal other than progress leaves the progress as it is.
LEMMA QuietOneMore ==
  ASSUME NEW w \in Seq(Signal), NEW s \in Signal, s.key # "percent"
  PROVE  /\ PercentsGrow(w) => PercentsGrow(w \o <<s>>)
         /\ \A m \in Nat : PercentsUpTo(m, w) => PercentsUpTo(m, w \o <<s>>)
<1>1. ASSUME PercentsGrow(w)
      PROVE  PercentsGrow(w \o <<s>>)
  <2>1. 0 \in Nat
    OBVIOUS
  <2> QED
    BY <1>1, <2>1, GrowOneMore
<1>2. ASSUME NEW m \in Nat, PercentsUpTo(m, w)
      PROVE  PercentsUpTo(m, w \o <<s>>)
  <2>1. m <= m
    OBVIOUS
  <2> QED
    BY <1>2, <2>1, UpToOneMore
<1> QED
  BY <1>1, <1>2

LEMMA UpToMore ==
  ASSUME NEW w \in Seq(Signal), NEW m \in Nat, NEW n \in Nat, m <= n, PercentsUpTo(m, w)
  PROVE  PercentsUpTo(n, w)
<1>1. \A i \in 1..Len(w) : w[i].value \in Nat
  BY ValueType
<1> QED
  BY <1>1 DEF PercentsUpTo

\* The signals that are sent are signals; an uninstallation sends two at once.
LEMMA SigIsSignal ==
  ASSUME NEW k \in Keys, NEW v \in Nat
  PROVE  Sig(k, v) \in Signal /\ Sig(k, v).key = k /\ Sig(k, v).value = v
  BY DEF Sig, Signal

LEMMA TwoMore ==
  ASSUME NEW w \in Seq(Signal), NEW a \in Signal, NEW b \in Signal
  PROVE  w \o <<a, b>> = (w \o <<a>>) \o <<b>>
<1> DEFINE t == <<a, b>>  u == <<a>> \o <<b>>
<1>1. t = u
  <2>1. t \in Seq(Signal) /\ Len(t) = 2 /\ t[1] = a /\ t[2] = b
    OBVIOUS
  <2>2. u \in Seq(Signal) /\ Len(u) = 2 /\ u[1] = a /\ u[2] = b
    OBVIOUS
  <2> HIDE DEF t, u
  <2> QED
    BY <2>1, <2>2, SeqEqual
<1>2. w \o (<<a>> \o <<b>>) = (w \o <<a>>) \o <<b>>
  BY ConcatAssociative
<1> QED
  BY <1>1, <1>2

-------------------------------------------------------------------------------
(* The progress grows with the steps when there are not more of them than the *)
(* 100 points of the scale.                                                   *)

LEMMA Quotient ==
  ASSUME NEW a \in Nat, NEW b \in Nat \ {0}
  PROVE  /\ a \div b \in Nat
         /\ b * (a \div b) <= a
         /\ a < b * (a \div b) + b
  OBVIOUS

LEMMA PercentGrows ==
  ASSUME NumSteps <= 100, NEW k \in Nat, NEW l \in Nat, k < l
  PROVE  Percent(k) < Percent(l)
<1> DEFINE p == Percent(k)  q == Percent(l)
<1>1. /\ p \in Nat /\ NumSteps * p <= k * 100
      /\ q \in Nat /\ l * 100 < NumSteps * q + NumSteps
  BY Quotient, NumStepsAssumption DEF Percent
<1> HIDE DEF p, q
<1>2. SUFFICES ASSUME q <= p
               PROVE  FALSE
  BY <1>1 DEF p, q
<1>3. NumSteps * q <= NumSteps * p
  BY <1>1, <1>2, NumStepsAssumption
<1>4. NumSteps * q \in Nat /\ NumSteps * p \in Nat
  BY <1>1, NumStepsAssumption
<1> QED
  BY <1>1, <1>3, <1>4, NumStepsAssumption

-------------------------------------------------------------------------------
(* What each kind of call does to what the client has got. *)

\* v has the signals of kind k that w has, when there are none or one.
Spares(k, w, v) == (No(k, w) => No(k, v)) /\ (One(k, w) => One(k, v))

LEMMA SparesOneMore ==
  ASSUME NEW w \in Seq(Signal), NEW s \in Signal, NEW k, s.key # k
  PROVE  Spares(k, w, w \o <<s>>)
  BY NoOneMore, OneOneMore DEF Spares

\* SendStarted() sends START to a client that has got nothing yet.
LEMMA StartedTalk ==
  ASSUME ShapeInv, NEW u, SendStarted(u)
  PROVE  /\ wire' \in Seq(Signal) /\ state' \in States
         /\ (state' = "NOT_SENT") <=> (wire' = << >>)
         /\ state # "NOT_SENT" => state' = state
         /\ state = "NOT_SENT" => state' \in {"NOT_SENT", "STARTED"}
         /\ StartsOnce(wire')
         /\ Spares("end", wire, wire') /\ Spares("error", wire, wire')
         /\ PercentsGrow(wire) => PercentsGrow(wire')
         /\ \A m \in Nat : PercentsUpTo(m, wire) => PercentsUpTo(m, wire')
         /\ errorSent' = errorSent
         /\ OutcomeLost' = OutcomeLost
         /\ state' = "NOT_SENT" => state = "NOT_SENT" /\ "start" \in lost'
         /\ "start" \in lost => "start" \in lost'
<1> DEFINE a == Sig("start", OkValue)  b == Sig("appid", OkValue)
<1> USE DEF ShapeInv
<1>1. CASE state # "NOT_SENT"
  BY <1>1 DEF SendStarted, NoSignal, signalVars, Spares, OutcomeLost
<1>2. CASE state = "NOT_SENT"
  <2>1. a \in Signal /\ a.key = "start" /\ b \in Signal /\ b.key = "appid"
    BY SigIsSignal DEF Keys, OkValue
  <2>2. /\ errorSent' = errorSent
        /\ \/ Deliver(<<a>>) /\ state' = "STARTED"
           \/ Deliver(<<a, b>>) /\ state' = "STARTED"
           \/ wire' = wire /\ state' = "NOT_SENT" /\ "start" \in lost'
        /\ OutcomeLost' = OutcomeLost
        /\ "start" \in lost => "start" \in lost'
    BY <1>2 DEF SendStarted, NotDelivered, OutcomeLost
  <2> HIDE DEF a, b
  <2>3. /\ wire = << >> /\ wire \in Seq(Signal) /\ Spares("end", wire, wire)
        /\ Spares("error", wire, wire)
    BY <1>2 DEF Spares
  <2> DEFINE w == wire \o <<a>>
  <2>4. /\ w \in Seq(Signal) /\ w # << >> /\ StartsOnce(w)
        /\ Spares("end", wire, w) /\ Spares("error", wire, w)
        /\ PercentsGrow(wire) => PercentsGrow(w)
        /\ \A m \in Nat : PercentsUpTo(m, wire) => PercentsUpTo(m, w)
    <3>1. /\ w \in Seq(Signal) /\ w # << >> /\ StartsOnce(w)
      BY <2>1, <2>3, OneMore, StartsOneMore
    <3>2. Spares("end", wire, w) /\ Spares("error", wire, w)
      BY <2>1, <2>3, SparesOneMore
    <3>3. /\ PercentsGrow(wire) => PercentsGrow(w)
          /\ \A m \in Nat : PercentsUpTo(m, wire) => PercentsUpTo(m, w)
      BY <2>1, <2>3, QuietOneMore
    <3> QED
      BY <3>1, <3>2, <3>3
  <2>5. CASE wire' = w /\ state' = "STARTED"
    BY <1>2, <2>2, <2>4, <2>5 DEF States
  <2>6. CASE Deliver(<<a, b>>) /\ state' = "STARTED"
    <3>1. wire' = w \o <<b>>
      BY <2>1, <2>3, <2>6, TwoMore DEF Deliver
    <3> HIDE DEF w
    <3>2. /\ w \o <<b>> \in Seq(Signal) /\ w \o <<b>> # << >>
          /\ StartsOnce(w \o <<b>>)
      BY <2>1, <2>4, OneMore, StartsOneMore
    <3>3. Spares("end", w, w \o <<b>>) /\ Spares("error", w, w \o <<b>>)
      BY <2>1, <2>4, SparesOneMore
    <3>4. /\ PercentsGrow(w) => PercentsGrow(w \o <<b>>)
          /\ \A m \in Nat : PercentsUpTo(m, w) => PercentsUpTo(m, w \o <<b>>)
      BY <2>1, <2>4, QuietOneMore
    <3> QED
      BY <1>2, <2>2, <2>4, <2>6, <3>1, <3>2, <3>3, <3>4 DEF States, Spares
  <2>7. CASE wire' = wire /\ state' = "NOT_SENT" /\ "start" \in lost'
    BY <1>2, <2>2, <2>3, <2>7
  <2> QED
    BY <2>2, <2>5, <2>6, <2>7 DEF Deliver
<1> QED
  BY <1>1, <1>2

\* SendProgress() and SendError() send nothing or one signal of their kind.
LEMMA OneTalk ==
  ASSUME ShapeInv, state = "STARTED", NEW s \in Signal, s.key # "start", Deliver(<<s>>)
  PROVE  /\ wire' \in Seq(Signal) /\ wire' # << >>
         /\ StartsOnce(wire')
         /\ \A k \in Keys : s.key # k => Spares(k, wire, wire')
         /\ No(s.key, wire) => One(s.key, wire')
         /\ s.key # "percent" /\ PercentsGrow(wire) => PercentsGrow(wire')
<1>1. wire' = wire \o <<s>> /\ wire \in Seq(Signal) /\ wire # << >> /\ StartsOnce(wire)
  BY DEF Deliver, ShapeInv
<1> QED
  BY <1>1, OneMore, StartsOneMore, SparesOneMore, NoOneMore, GrowOneMore, SMT

LEMMA ErrorTalk ==
  ASSUME ShapeInv, SendError \/ NoSignal
  PROVE  /\ wire' \in Seq(Signal) /\ state' = state
         /\ (wire' = << >>) <=> (wire = << >>)
         /\ StartsOnce(wire')
         /\ Spares("end", wire, wire')
         /\ PercentsGrow(wire) => PercentsGrow(wire')
         /\ lost \subseteq lost'
         /\ \/ wire' = wire /\ (OutcomeLost' \/ errorSent' = errorSent)
            \/ errorSent' /\ (No("error", wire) => One("error", wire'))
<1> DEFINE e == Sig("error", FailValue)
<1>1. CASE UNCHANGED signalVars
  BY <1>1 DEF ShapeInv, signalVars, Spares, OutcomeLost
<1>2. CASE SendError /\ state = "STARTED"
  <2>1. e \in Signal /\ e.key = "error"
    BY SigIsSignal DEF Keys, FailValue
  <2>2. /\ errorSent' = TRUE /\ state' = state
        /\ \/ Deliver(<<e>>) /\ lost' = lost
           \/ wire' = wire /\ lost' = lost \cup {"error"} /\ OutcomeLost'
    BY <1>2 DEF SendError, NotDelivered, OutcomeLost
  <2> HIDE DEF e
  <2>3. CASE Deliver(<<e>>) /\ lost' = lost
    BY <1>2, <2>1, <2>2, <2>3, OneTalk DEF ShapeInv, Keys
  <2>4. CASE wire' = wire /\ lost' = lost \cup {"error"} /\ OutcomeLost'
    BY <2>2, <2>4 DEF ShapeInv, Spares
  <2> QED
    BY <2>2, <2>3, <2>4
<1> QED
  BY <1>1, <1>2 DEF SendError, NoSignal

LEMMA ProgressTalk ==
  ASSUME ShapeInv, NEW p \in Nat, SendProgress(p)
  PROVE  /\ wire' \in Seq(Signal) /\ state' = state /\ errorSent' = errorSent
         /\ (wire' = << >>) <=> (wire = << >>)
         /\ StartsOnce(wire')
         /\ Spares("end", wire, wire') /\ Spares("error", wire, wire')
         /\ lost \subseteq lost' /\ OutcomeLost' = OutcomeLost
         /\ wire' = wire \/ (state = "STARTED" /\ wire' = wire \o <<Sig("percent", p)>>)
<1> DEFINE s == Sig("percent", p)
<1>1. CASE UNCHANGED signalVars
  BY <1>1 DEF ShapeInv, signalVars, Spares, OutcomeLost
<1>2. CASE state = "STARTED"
  <2>1. s \in Signal /\ s.key = "percent"
    BY SigIsSignal DEF Keys
  <2>2. /\ errorSent' = errorSent /\ state' = state
        /\ lost \subseteq lost' /\ OutcomeLost' = OutcomeLost
        /\ Deliver(<<s>>) \/ wire' = wire
    BY <1>2 DEF SendProgress, NotDelivered, OutcomeLost
  <2>3. CASE Deliver(<<s>>)
    <3>1. wire' = wire \o <<s>>
      BY <2>3 DEF Deliver
    <3> HIDE DEF s
    <3> QED
      BY <1>2, <2>1, <2>2, <2>3, <3>1, OneTalk DEF ShapeInv, Keys, s
  <2>4. CASE wire' = wire
    BY <2>2, <2>4 DEF ShapeInv, Spares
  <2> QED
    BY <2>2, <2>3, <2>4
<1> QED
  BY <1>1, <1>2 DEF SendProgress, NoSignal

\* The END is the last signal, and the first of its kind.
LEMMA EndedOneMore ==
  ASSUME NEW w \in Seq(Signal), No("end", w), Outcome \in Signal
  PROVE  Ended(w \o <<Outcome>>)
<1> DEFINE v == w \o <<Outcome>>
<1>1. /\ v # << >> /\ Len(w) \in Nat /\ Len(v) = Len(w) + 1 /\ v[Len(w) + 1] = Outcome
      /\ \A i \in 1..Len(w) : v[i] = w[i]
  BY OneMore
<1> HIDE DEF v
<1>2. \A i \in 1..Len(v) : v[i].key = "end" => i = Len(v)
  BY <1>1 DEF No
<1>3. Ended(v)
  BY <1>1, <1>2 DEF Ended
<1> QED
  BY <1>3 DEF v

LEMMA OutcomeType ==
  /\ Outcome \in Signal /\ Outcome.key = "end"
  /\ Outcome = Sig("end", OkValue) <=> failedAt = 0
<1>1. (IF failedAt = 0 THEN OkValue ELSE FailValue) \in Nat
  BY DEF OkValue, FailValue
<1>2. OkValue \in Nat /\ FailValue \in Nat /\ OkValue # FailValue
  BY DEF OkValue, FailValue
<1> QED
  BY <1>1, <1>2, SigIsSignal DEF Outcome, Keys

LEMMA FinishedTalk ==
  ASSUME ShapeInv, state = "STARTED", SendFinished(failedAt = 0)
  PROVE  /\ wire' \in Seq(Signal) /\ wire' # << >> /\ StartsOnce(wire')
         /\ PercentsGrow(wire) => PercentsGrow(wire')
         /\ errorSent' = errorSent
         /\ \/ /\ state' = "FINISHED" /\ lost' = lost /\ Ended(wire')
               /\ errorSent => Spares("error", wire, wire')
               /\ (failedAt # 0 /\ ~errorSent /\ No("error", wire)) => One("error", wire')
            \/ state' = "STARTED" /\ OutcomeLost' /\ No("end", wire')
<1> DEFINE e == Sig("error", FailValue)
           ok == failedAt = 0
           err == IF ok \/ errorSent THEN << >> ELSE <<e>>
           o == Sig("end", IF ok THEN OkValue ELSE FailValue)
<1>1. e \in Signal /\ e.key = "error" /\ o = Outcome /\ o \in Signal /\ o.key = "end"
  <2>1. FailValue \in Nat /\ "error" \in Keys
    BY DEF FailValue, Keys
  <2> QED
    BY <2>1, SigIsSignal, OutcomeType DEF Outcome
<1>2. /\ errorSent' = errorSent
      /\ \/ Deliver(err \o <<o>>) /\ state' = "FINISHED" /\ lost' = lost
         \/ (Deliver(err) \/ wire' = wire) /\ OutcomeLost' /\ state' = "STARTED"
  BY DEF SendFinished, NotDelivered, OutcomeLost
<1>3. /\ wire \in Seq(Signal) /\ wire # << >> /\ StartsOnce(wire) /\ No("end", wire)
  BY DEF ShapeInv
<1> DEFINE w == IF ok \/ errorSent THEN wire ELSE wire \o <<e>>
<1>4. (Deliver(err) => wire' = w) /\ (Deliver(err \o <<o>>) => wire' = w \o <<o>>)
  <2>1. CASE ok \/ errorSent
    <3>1. wire \o << >> = wire /\ << >> \o <<o>> = <<o>>
      BY <1>1, <1>3
    <3> QED
      BY <2>1, <3>1 DEF Deliver
  <2>2. CASE ~(ok \/ errorSent)
    <3> HIDE DEF e, o
    <3>1. <<e>> \o <<o>> = <<e, o>> /\ wire \o <<e, o>> = (wire \o <<e>>) \o <<o>>
      <4>1. << >> \in Seq(Signal) /\ <<e>> = << >> \o <<e>> /\ <<e, o>> = << >> \o <<e, o>>
        BY <1>1
      <4> QED
        BY <1>1, <1>3, <4>1, TwoMore
    <3> QED
      BY <2>2, <3>1 DEF Deliver
  <2> QED
    BY <2>1, <2>2
<1> HIDE DEF e, o, err
<1>5. /\ w \in Seq(Signal) /\ w # << >> /\ StartsOnce(w) /\ No("end", w)
      /\ PercentsGrow(wire) => PercentsGrow(w)
  <2>1. CASE w = wire
    BY <1>3, <2>1
  <2>2. CASE w = wire \o <<e>>
    <3>1. wire \o <<e>> \in Seq(Signal) /\ wire \o <<e>> # << >>
      BY <1>1, <1>3, OneMore
    <3>2. StartsOnce(wire \o <<e>>)
      BY <1>1, <1>3, StartsOneMore
    <3>3. No("end", wire \o <<e>>)
      BY <1>1, <1>3, NoOneMore
    <3>4. PercentsGrow(wire) => PercentsGrow(wire \o <<e>>)
      BY <1>1, <1>3, QuietOneMore
    <3> QED
      BY <2>2, <3>1, <3>2, <3>3, <3>4
  <2> QED
    BY <2>1, <2>2
<1>6. /\ errorSent => w = wire
      /\ (failedAt # 0 /\ ~errorSent /\ No("error", wire)) => One("error", w)
  BY <1>1, <1>3, NoOneMore
<1> HIDE DEF w
<1>7. CASE Deliver(err \o <<o>>) /\ state' = "FINISHED" /\ lost' = lost
  <2>1. wire' = w \o <<o>>
    BY <1>4, <1>7
  <2>2. wire' \in Seq(Signal) /\ wire' # << >> /\ StartsOnce(wire')
    BY <1>1, <1>5, <2>1, OneMore, StartsOneMore
  <2>3. PercentsGrow(wire) => PercentsGrow(wire')
    BY <1>1, <1>5, <2>1, QuietOneMore
  <2>4. Ended(wire')
    BY <1>1, <1>5, <2>1, EndedOneMore
  <2>5. Spares("error", w, wire')
    BY <1>1, <1>5, <2>1, SparesOneMore
  <2> QED
    BY <1>2, <1>6, <1>7, <2>2, <2>3, <2>4, <2>5 DEF Spares
<1>8. CASE (Deliver(err) \/ wire' = wire) /\ OutcomeLost' /\ state' = "STARTED"
  BY <1>2, <1>3, <1>4, <1>5, <1>8
<1> QED
  BY <1>2, <1>7, <1>8

-------------------------------------------------------------------------------
(* The invariant of the conversation is inductive. *)

LEMMA TalkInit == Init => TalkInv
<1> SUFFICES ASSUME Init
             PROVE  TalkInv
  OBVIOUS
<1>1. wire = << >> /\ state = "NOT_SENT" /\ ~errorSent /\ failedAt = 0 /\ note = "none"
  BY DEF Init, SignalInit
<1> QED
  BY <1>1 DEF TalkInv, ShapeInv, ErrorInv, SentInv, States, StartsOnce, No

\* Run() gets to the signals that end a request only when its loops are over.
LEMMA FinalNotes ==
  ASSUME LoopInv, note \in {"finish", "info", "done"}
  PROVE  phase = "end"
  BY DEF LoopInv, LoopTypeOK, Phases, IdleInv, ProcessInv, UndoInv, CleanInv

LEMMA SparesSame == \A k : \A w : Spares(k, w, w)
  BY DEF Spares

LEMMA TalkStep == LoopInv /\ TalkInv /\ [Next]_vars => TalkInv'
<1> SUFFICES ASSUME LoopInv, TalkInv, [Next]_vars
             PROVE  TalkInv'
  OBVIOUS
<1> USE DEF TalkInv
<1>1. CASE Begin \/ ProcessOk \/ UndoStep \/ CleanOk
  <2>1. /\ UNCHANGED <<state, errorSent, wire, lost, online, failedAt>>
        /\ note = "none" /\ note' \in {"none", "start"} /\ (~online => note' = "none")
        /\ phase' \in {"process", "clean", "idle"} => phase \in {"process", "clean", "idle"}
    BY <1>1
    DEF Begin, BeginRun, ProcessOk, StepOk, UndoStep, StepUndone, CleanOk, StepCleaned,
        signalVars, reqVars, histVars, LoopInv, IdleInv
  <2> QED
    BY <2>1 DEF ShapeInv, ErrorInv, SentInv, No, One, StartsOnce, Ended, Outcome, OutcomeLost
<1>2. CASE ProcessFails \/ CleanFails
  <2>1. /\ SendError \/ NoSignal
        /\ ~online => NoSignal \/ state = "NOT_SENT"
        /\ note = "none" /\ note' = "none" /\ online' = online
        /\ phase \in {"process", "clean"} /\ phase' \in {"undo", "end"}
        /\ phase = "clean" => failedAt' = 0
    BY <1>2
    DEF ProcessFails, StepFails, CleanFails, StepCleanFails, OnError, reqVars, histVars,
        LoopInv, CleanInv
  <2>2. /\ wire' \in Seq(Signal) /\ state' = state
        /\ (wire' = << >>) <=> (wire = << >>)
        /\ StartsOnce(wire')
        /\ Spares("end", wire, wire')
        /\ lost \subseteq lost'
        /\ \/ wire' = wire /\ (OutcomeLost' \/ errorSent' = errorSent)
           \/ errorSent' /\ (No("error", wire) => One("error", wire'))
    BY <2>1, ErrorTalk
  <2>3. ShapeInv'
    BY <2>1, <2>2 DEF ShapeInv, Spares
  <2>4. ErrorInv'
    <3>1. ~errorSent /\ No("error", wire) /\ state # "FINISHED"
      BY <2>1 DEF ErrorInv, ShapeInv
    <3> QED
      BY <2>1, <2>2, <3>1 DEF ErrorInv, OutcomeLost
  <2> QED
    BY <2>1, <2>3, <2>4 DEF SentInv
<1>3. CASE NotifyStart \/ LateStart
  <2>1. /\ SendStarted(uninstall) \/ NoSignal
        /\ ~online \/ note' = "percent" \/ SendStarted(uninstall)
        /\ ~online => NoSignal
        /\ UNCHANGED <<phase, failedAt, online>>
        /\ note \in {"none", "start"} /\ note' \in {"percent", "finish"}
        /\ ~online => note' = "finish"
    BY <1>3 DEF NotifyStart, LateStart, runnerVars, reqVars, histVars, ShapeInv
  <2>2. CASE SendStarted(uninstall)
    <3>1. /\ wire' \in Seq(Signal) /\ state' \in States
          /\ (state' = "NOT_SENT") <=> (wire' = << >>)
          /\ state # "NOT_SENT" => state' = state
          /\ state = "NOT_SENT" => state' \in {"NOT_SENT", "STARTED"}
          /\ StartsOnce(wire')
          /\ Spares("end", wire, wire') /\ Spares("error", wire, wire')
          /\ errorSent' = errorSent
          /\ OutcomeLost' = OutcomeLost
          /\ state' = "NOT_SENT" => state = "NOT_SENT" /\ "start" \in lost'
          /\ "start" \in lost => "start" \in lost'
      BY <2>2, StartedTalk
    <3>2. ShapeInv'
      BY <2>1, <3>1 DEF ShapeInv, Spares, NoSignal, signalVars
    <3>3. ErrorInv'
      BY <2>1, <3>1 DEF ShapeInv, ErrorInv, Spares
    <3> QED
      BY <2>1, <3>1, <3>2, <3>3 DEF SentInv, ShapeInv
  <2>3. CASE NoSignal /\ (~online \/ note' = "percent")
    BY <2>1, <2>3
    DEF NoSignal, signalVars, ShapeInv, ErrorInv, SentInv, No, One, StartsOnce, Ended, Outcome,
        OutcomeLost
  <2> QED
    BY <2>1, <2>2, <2>3
<1>4. CASE NotifyProgress
  <2>1. PICK p \in Nat : SendProgress(p)
    <3> DEFINE k == IF phase = "clean" THEN NumSteps ELSE it - 1
    <3>1. k \in Nat
      BY NumStepsAssumption, SMT DEF LoopInv, LoopTypeOK, Steps
    <3>2. SendProgress(Percent(k))
      BY <1>4 DEF NotifyProgress
    <3> HIDE DEF k
    <3> QED
      BY <3>1, <3>2, PercentType
  <2>2. /\ UNCHANGED <<phase, failedAt, online>>
        /\ note = "percent" /\ note' = "none"
    BY <1>4 DEF NotifyProgress, runnerVars, reqVars, histVars
  <2>3. /\ wire' \in Seq(Signal) /\ state' = state /\ errorSent' = errorSent
        /\ (wire' = << >>) <=> (wire = << >>)
        /\ StartsOnce(wire')
        /\ Spares("end", wire, wire') /\ Spares("error", wire, wire')
        /\ lost \subseteq lost' /\ OutcomeLost' = OutcomeLost
    BY <2>1, ProgressTalk
  <2> QED
    BY <2>2, <2>3 DEF ShapeInv, ErrorInv, SentInv, Spares
<1>5. CASE Finish
  <2>1. /\ IF online THEN SendFinished(failedAt = 0) ELSE NoSignal
        /\ UNCHANGED <<phase, failedAt, online>>
        /\ note = "finish" /\ note' = "info" /\ phase = "end"
    BY <1>5, FinalNotes DEF Finish, runnerVars, reqVars, histVars
  <2>2. CASE online /\ state = "STARTED"
    <3>1. /\ wire' \in Seq(Signal) /\ wire' # << >> /\ StartsOnce(wire')
          /\ errorSent' = errorSent
          /\ \/ /\ state' = "FINISHED" /\ lost' = lost /\ Ended(wire')
                /\ errorSent => Spares("error", wire, wire')
                /\ (failedAt # 0 /\ ~errorSent /\ No("error", wire)) => One("error", wire')
             \/ state' = "STARTED" /\ OutcomeLost' /\ No("end", wire')
      BY <2>1, <2>2, FinishedTalk
    <3>2. ShapeInv'
      BY <2>1, <2>2, <3>1 DEF ShapeInv, States, Ended, Outcome
    <3>3. ErrorInv'
      BY <2>1, <2>2, <3>1 DEF ErrorInv, Spares, OutcomeLost
    <3> QED
      BY <2>1, <2>2, <3>1, <3>2, <3>3 DEF SentInv
  <2>3. CASE ~(online /\ state = "STARTED")
    <3>1. UNCHANGED <<state, errorSent, wire, lost>>
      BY <2>1, <2>3 DEF SendFinished, NoSignal, signalVars
    <3>2. state = "NOT_SENT"
      BY <2>1, <2>3 DEF ShapeInv, States
    <3> QED
      BY <2>1, <2>3, <3>1, <3>2
      DEF ShapeInv, ErrorInv, SentInv, No, One, StartsOnce, OutcomeLost
  <2> QED
    BY <2>2, <2>3
<1>6. CASE WriteInfo \/ UNCHANGED vars
  <2>1. /\ UNCHANGED <<state, errorSent, wire, lost, online, phase, failedAt>>
        /\ note' = note \/ (note = "info" /\ note' = "done")
    BY <1>6 DEF WriteInfo, vars, runnerVars, signalVars, reqVars, histVars
  <2> QED
    BY <2>1 DEF ShapeInv, ErrorInv, SentInv, No, One, StartsOnce, Ended, Outcome, OutcomeLost
<1> QED
  BY <1>1, <1>2, <1>3, <1>4, <1>5, <1>6 DEF Next

\* What PkgmgrSignal has sent fits its flags and the place in the loops of Run().
THEOREM TalkInvariant == Spec => []TalkInv
  BY TalkInit, TalkStep, LoopInvariant, PTL DEF Spec

\* A client that gets START gets the END of its request, which names the outcome,
\* and for a failed request exactly one error before it, unless one of these two
\* is lost; a client that gets nothing has lost START.
THEOREM ClientLearnsOutcomeHolds == Spec => []ClientLearnsOutcome
<1>1. TalkInv => ClientLearnsOutcome
  <2> SUFFICES ASSUME TalkInv, note = "done", online
               PROVE  ClientLearnsOutcome
    BY DEF ClientLearnsOutcome
  <2>1. wire = << >> => "start" \in lost
    BY DEF TalkInv, SentInv, ShapeInv
  <2>2. ASSUME wire # << >>, ~OutcomeLost
        PROVE  Ended(wire) /\ (failedAt # 0 => One("error", wire))
    <3>1. state = "FINISHED"
      BY <2>2 DEF TalkInv, SentInv, ShapeInv, States
    <3> QED
      BY <2>2, <3>1 DEF TalkInv, ShapeInv, ErrorInv
  <2> QED
    BY <2>1, <2>2 DEF Ended, Outcome, One, ClientLearnsOutcome
<1> QED
  BY <1>1, TalkInvariant, PTL

-------------------------------------------------------------------------------
(* The progress grows; the shape of the signals with it. *)

LEMMA GrowStep ==
  ASSUME NumSteps <= 100, LoopInv, ShapeInv, GrowInv, [Next]_vars
  PROVE  GrowInv'
<1> USE DEF GrowInv
<1>1. CASE Begin
  <2>1. wire' = wire /\ wire = << >> /\ it' = 1 /\ note' = "none" /\ phase' = "process"
    BY <1>1 DEF Begin, BeginRun, signalVars, LoopInv, IdleInv
  <2> QED
    BY <2>1 DEF PercentsGrow, PercentsUpTo, Told
<1>2. CASE ProcessOk
  <2>1. /\ wire' = wire /\ phase = "process" /\ note = "none" /\ it \in Steps
        /\ Told = it - 1 /\ Told \in Nat /\ PercentsUpTo(Percent(Told), wire)
        /\ note' \in {"start", "none"}
        /\ IF it < NumSteps THEN phase' = "process" /\ it' = it + 1
                            ELSE phase' = "clean" /\ it' = 1
    BY <1>2 DEF ProcessOk, StepOk, signalVars, Told, LoopInv, LoopTypeOK
  <2>2. PercentsGrow(wire')
    BY <2>1
  <2>3. CASE note' = "start"
    <3>1. Told' = it - 1
      BY <2>1, <2>3, NumStepsAssumption, SMT DEF Told, Steps
    <3> QED
      BY <2>1, <2>2, <2>3, <3>1 DEF PercentsUpTo, Percent
  <2>4. CASE note' = "none" /\ phase' = "process"
    <3>1. Told' = it /\ it \in Nat /\ it - 1 < it
      BY <2>1, <2>4, NumStepsAssumption, SMT DEF Told, Steps
    <3>2. /\ Percent(it - 1) \in Nat /\ Percent(it) \in Nat
          /\ Percent(it - 1) < Percent(it)
      BY <2>1, <3>1, PercentGrows, PercentType
    <3>3. PercentsUpTo(Percent(it), wire)
      <4>1. Percent(it - 1) <= Percent(it) /\ wire \in Seq(Signal)
        BY <3>2 DEF ShapeInv
      <4> QED
        BY <2>1, <3>2, <4>1, UpToMore
    <3> QED
      BY <2>1, <2>2, <2>4, <3>1, <3>3 DEF PercentsUpTo, Percent
  <2> QED
    BY <2>1, <2>2, <2>3, <2>4
<1>3. CASE NotifyStart
  <2>1. /\ SendStarted(uninstall) \/ NoSignal
        /\ UNCHANGED <<phase, it>> /\ note = "start" /\ note' = "percent"
        /\ phase # "idle" /\ Told' = Told
    BY <1>3 DEF NotifyStart, runnerVars, Told, LoopInv, IdleInv
  <2>2. /\ PercentsGrow(wire) => PercentsGrow(wire')
        /\ \A m \in Nat : PercentsUpTo(m, wire) => PercentsUpTo(m, wire')
    BY <2>1, StartedTalk DEF NoSignal, signalVars
  <2>3. Told \in Nat /\ PercentsUpTo(Percent(Told), wire) /\ Percent(Told) \in Nat
    BY <2>1, PercentType
  <2>4. Percent(Told)' = Percent(Told)
    BY <2>1 DEF Percent
  <2> QED
    BY <2>1, <2>2, <2>3, <2>4
<1>4. CASE NotifyProgress
  <2> DEFINE k == IF phase = "clean" THEN NumSteps ELSE it - 1
             s == Sig("percent", Percent(k))
  <2>1. /\ SendProgress(Percent(k)) /\ note = "percent" /\ note' = "none"
        /\ UNCHANGED <<phase, it>>
    BY <1>4 DEF NotifyProgress, runnerVars
  <2>2. /\ Told \in Nat /\ PercentsUpTo(Percent(Told), wire)
        /\ phase # "idle" /\ wire \in Seq(Signal) /\ it \in Nat
    BY <2>1, NumStepsAssumption DEF LoopInv, LoopTypeOK, IdleInv, ShapeInv, Steps
  <2>3. k \in Nat /\ k = Told + 1 /\ (phase = "process" => Told' = k)
    BY <2>1, <2>2, NumStepsAssumption, SMT DEF Told
  <2> HIDE DEF k
  <2>4. /\ Percent(Told) \in Nat /\ Percent(k) \in Nat /\ Percent(Told) < Percent(k)
        /\ Percent(Told) <= Percent(k)
    <3>1. Told < k
      BY <2>2, <2>3
    <3>2. Percent(Told) \in Nat /\ Percent(k) \in Nat
      BY <2>2, <2>3, PercentType
    <3>3. Percent(Told) < Percent(k)
      BY <2>2, <2>3, <3>1, PercentGrows
    <3> QED
      BY <3>2, <3>3
  <2>5. s \in Signal /\ s.key = "percent" /\ s.value = Percent(k)
    BY <2>4, SigIsSignal DEF Keys
  <2>6. wire' = wire \/ wire' = wire \o <<s>>
    BY <2>1, <2>4, ProgressTalk
  <2> HIDE DEF s
  <2>7. PercentsGrow(wire')
    BY <2>2, <2>4, <2>5, <2>6, GrowOneMore
  <2>8. PercentsUpTo(Percent(k), wire')
    BY <2>2, <2>4, <2>5, <2>6, UpToOneMore, UpToMore
  <2> QED
    BY <2>1, <2>2, <2>3, <2>7, <2>8 DEF Percent
<1>5. CASE ProcessFails \/ CleanFails
  <2>1. /\ SendError \/ NoSignal
        /\ phase' \in {"undo", "end"} /\ note' = "none"
    BY <1>5 DEF ProcessFails, StepFails, CleanFails, StepCleanFails, OnError
  <2> QED
    BY <2>1, ErrorTalk
<1>6. CASE Finish
  <2>1. /\ SendFinished(failedAt = 0) \/ NoSignal
        /\ note = "finish" /\ note' = "info" /\ phase' = phase /\ phase = "end"
    BY <1>6, FinalNotes DEF Finish, runnerVars
  <2>2. CASE wire' = wire
    BY <2>1, <2>2
  <2>3. CASE state = "STARTED" /\ SendFinished(failedAt = 0)
    BY <2>1, <2>3, FinishedTalk
  <2> QED
    BY <2>1, <2>2, <2>3 DEF SendFinished, NoSignal, signalVars
<1>7. CASE LateStart
  <2>1. /\ SendStarted(uninstall) \/ NoSignal
        /\ note' = "finish" /\ phase' = "end"
    BY <1>7 DEF LateStart, runnerVars
  <2> QED
    BY <2>1, StartedTalk DEF NoSignal, signalVars
<1>8. CASE UndoStep \/ CleanOk \/ WriteInfo
  <2>1. /\ wire' = wire /\ note' \in {"none", "done"} /\ phase' \in {"undo", "clean", "end"}
    BY <1>8, FinalNotes
    DEF UndoStep, StepUndone, CleanOk, StepCleaned, WriteInfo, runnerVars, signalVars
  <2> QED
    BY <2>1
<1>9. CASE UNCHANGED vars
  BY <1>9 DEF vars, runnerVars, signalVars, Told, Percent
<1> QED
  BY <1>1, <1>2, <1>3, <1>4, <1>5, <1>6, <1>7, <1>8, <1>9 DEF Next

LEMMA GrowInvariant ==
  ASSUME NumSteps <= 100
  PROVE  Spec => []GrowInv
<1>1. Init => GrowInv
  <2> SUFFICES ASSUME Init
               PROVE  GrowInv
    OBVIOUS
  <2>1. wire = << >> /\ phase = "idle" /\ note = "none"
    BY DEF Init, RunnerInit, SignalInit
  <2> QED
    BY <2>1 DEF GrowInv, PercentsGrow
<1>2. LoopInv /\ TalkInv /\ GrowInv /\ [Next]_vars => GrowInv'
  BY GrowStep DEF TalkInv
<1> QED
  BY <1>1, <1>2, LoopInvariant, TalkInvariant, PTL DEF Spec

\* Whatever is lost, the client gets nothing before START, one START, nothing
\* after END, END "ok" only for a request whose steps have all been processed,
\* and progress that grows.  The last one holds for a list of up to 100 steps:
\* a longer one has neighbouring steps at the same percentage, which the
\* client is then told twice (the lists of the backends are far shorter).
THEOREM ClientProtocolHolds ==
  ASSUME NumSteps <= 100
  PROVE  Spec => []ClientProtocol
<1>1. LoopInv /\ TalkInv /\ GrowInv => ClientProtocol
  <2> SUFFICES ASSUME LoopInv, TalkInv, GrowInv, NEW i \in 1..Len(wire)
               PROVE  /\ (i = 1) <=> (wire[i].key = "start")
                      /\ (wire[i].key = "end") => (i = Len(wire) /\ note \in {"info", "done"})
                      /\ (wire[i] = Sig("end", OkValue)) => (\A s \in Steps : processed[s] = 1)
                      /\ \A j \in 1..i : (wire[i].key = "percent" /\ wire[j].key = "percent" /\ j # i)
                                            => wire[j].value < wire[i].value
    BY DEF ClientProtocol
  <2>1. (i = 1) <=> (wire[i].key = "start")
    BY DEF TalkInv, ShapeInv, StartsOnce
  <2>2. wire[i].key = "end" => state = "FINISHED" /\ note \in {"info", "done"} /\ Ended(wire)
    BY DEF TalkInv, ShapeInv, No
  <2>3. wire[i].key = "end" => i = Len(wire)
    BY <2>2 DEF Ended
  <2>4. ASSUME wire[i] = Sig("end", OkValue)
        PROVE  \A s \in Steps : processed[s] = 1
    <3>1. wire[i].key = "end"
      BY <2>4 DEF Sig
    <3>2. Outcome = Sig("end", OkValue) /\ phase = "end"
      BY <2>2, <2>3, <2>4, <3>1, FinalNotes DEF Ended
    <3>3. failedAt = 0
      BY <3>2, OutcomeType
    <3> QED
      BY <3>2, <3>3 DEF LoopInv, EndInv, FailedEnd, CleanedEnd, All
  <2>5. \A j \in 1..i : (wire[i].key = "percent" /\ wire[j].key = "percent" /\ j # i)
                          => wire[j].value < wire[i].value
    BY DEF GrowInv, PercentsGrow
  <2> QED
    BY <2>1, <2>2, <2>3, <2>4, <2>5
<1> QED
  BY <1>1, LoopInvariant, TalkInvariant, GrowInvariant, PTL
===============================================================================
