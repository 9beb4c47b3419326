------------------------------ MODULE StepRunner ------------------------------
(***************************************************************************)
(* The control loop of AppInstaller::Run(): a list of n steps is processed *)
(* in order; the first failure turns the run into an undo of the failing   *)
(* step and of every step before it, last one first; a run without failure *)
(* ends with the clean() of every step, first one first.                   *)
(*                                                                         *)
(* The number of steps is a parameter of the actions, because every kind   *)
(* of request has a list of its own.                                       *)
(***************************************************************************)
EXTENDS Naturals

VARIABLES
  phase,  \* what the loop is doing; "idle" before, "end" after the loops
  it,     \* the iterator: index of the current step
  ret     \* the Result that Run() is going to return

runnerVars == <<phase, it, ret>>

Phases == {"idle", "process", "undo", "clean", "end"}
Results == {"OK", "ERROR", "UNDO_ERROR", "CLEANUP_ERROR"}

RunnerInit ==
  /\ phase = "idle"
  /\ it = 1
  /\ ret = "OK"

BeginRun ==
  /\ phase = "idle"
  /\ phase' = "process"
  /\ it' = 1
  /\ ret' = "OK"

\* Mutant: the loop runs one step past the end of the list.
StepOkPastEnd(n) ==
  /\ phase = "process"
  /\ IF it <= n THEN phase' = "process" /\ it' = it + 1
                ELSE phase' = "clean"   /\ it' = 1
  /\ UNCHANGED ret

\* precheck() and process() returned OK.
StepOk(n) ==
  /\ phase = "process"
  /\ IF it < n THEN phase' = "process" /\ it' = it + 1
               ELSE phase' = "clean"   /\ it' = 1
  /\ UNCHANGED ret

\* Mutant: the undo loop starts at the head of the list.
StepFailsFromHead ==
  /\ phase = "process"
  /\ phase' = "undo"
  /\ ret' = "ERROR"
  /\ it' = 1

\* precheck() or process() returned another status, or threw.
StepFails ==
  /\ phase = "process"
  /\ phase' = "undo"
  /\ ret' = "ERROR"
  /\ UNCHANGED it

\* Mutant: the undo loop leaves the first step of the list out.
StepUndoneSkipsHead(ok) ==
  /\ phase = "undo"
  /\ IF it > 2 THEN phase' = "undo" /\ it' = it - 1
               ELSE phase' = "end"  /\ it' = it
  /\ ret' = IF ok THEN ret ELSE "UNDO_ERROR"

\* Mutant: an undo() that succeeds hides an earlier one that failed.
StepUndoneForgets(ok) ==
  /\ phase = "undo"
  /\ IF it > 1 THEN phase' = "undo" /\ it' = it - 1
               ELSE phase' = "end"  /\ it' = it
  /\ ret' = IF ok THEN "ERROR" ELSE "UNDO_ERROR"

\* Mutant: a failing undo() ends the loop, as a failing clean() does.
StepUndoneStops(ok) ==
  /\ phase = "undo"
  /\ IF ok /\ it > 1 THEN phase' = "undo" /\ it' = it - 1
                     ELSE phase' = "end"  /\ it' = it
  /\ ret' = IF ok THEN ret ELSE "UNDO_ERROR"

\* A failing (or throwing) undo() is noted and the loop goes on.
StepUndone(ok) ==
  /\ phase = "undo"
  /\ IF it > 1 THEN phase' = "undo" /\ it' = it - 1
               ELSE phase' = "end"  /\ it' = it
  /\ ret' = IF ok THEN ret ELSE "UNDO_ERROR"

StepCleaned(n) ==
  /\ phase = "clean"
  /\ IF it < n THEN phase' = "clean" /\ it' = it + 1
               ELSE phase' = "end"   /\ it' = it
  /\ UNCHANGED ret

\* A failing (or throwing) clean() ends the loop: the later ones never run.
StepCleanFails ==
  /\ phase = "clean"
  /\ phase' = "end"
  /\ ret' = "CLEANUP_ERROR"
  /\ UNCHANGED it
===============================================================================
