-------------------------- MODULE ModificationState ---------------------------
(***************************************************************************)
(* The state of a request that brings only what has changed: a reinstall   *)
(* for rapid development ("rds"), which changes the installed package in   *)
(* place, and an update with a delta package, which rebuilds beside the    *)
(* installed package its new version ("delta"), or a part of it that the   *)
(* installer and the application leave alone ("partial").                  *)
(***************************************************************************)
EXTENDS Integers, Sequences, FiniteSets, SequencesExt, StepRunner, PathTree

CONSTANT FaultBudget   \* how many operations of the environment may fail

ASSUME ModificationAssumption == FaultBudget \in Nat

VARIABLES
  kind,      \* the kind of the request
  pkg,       \* the installed package
  unpacked,  \* the directory the package of the request was unpacked to
  aside,     \* where the old state of changed files, or the delta, is put aside
  temp,      \* which temporary directories and files exist
  memory,    \* the context of the request and the members of its steps
  before,    \* history: pkg and unpacked at the beginning
  faults,    \* history: the kinds of the failures so far
  budget     \* how many more may happen

vars == <<runnerVars, kind, pkg, unpacked, aside, temp, memory, before, faults, budget>>

Pipeline ==
  [rds     |-> <<"RDSParse", "RDSModify", "Later">>,
   delta   |-> <<"Unzip", "DeltaPatch", "Later">>,
   partial |-> <<"Unzip", "DeltaPatch", "Later">>]
NumSteps == Len(Pipeline[kind])
Step == Pipeline[kind][it]

NoLists == [add |-> <<>>, modify |-> <<>>, delete |-> <<>>]
\* part is the next part of the current handler, todo what its loop has left and
\* done what success_modifications_ holds, both as pairs of operation and path.
NoMemory == [lists |-> NoLists, part |-> "", todo |-> <<>>, done |-> <<>>]

Pairs(op, paths) == [i \in 1..Len(paths) |-> <<op, paths[i]>>]

Process(step, p) == phase = "process" /\ Step = step /\ memory.part = p
Undo(step, p) == phase = "undo" /\ Step = step /\ memory.part = p
Clean(step) == phase = "clean" /\ Step = step

NoFault == UNCHANGED <<faults, budget>>
Fault(f) == budget > 0 /\ budget' = budget - 1 /\ faults' = faults \cup {f}

Files(p, u, a, t) ==
  pkg' = p /\ unpacked' = u /\ aside' = a /\ temp' = t /\ UNCHANGED <<kind, before>>
NoFiles == Files(pkg, unpacked, aside, temp)

\* The handler goes on, returns OK, or fails.
GoOn(m) == memory' = m /\ UNCHANGED runnerVars
Reset == memory' = [memory EXCEPT !.part = "", !.todo = <<>>]
Ok == Reset /\ StepOk(NumSteps)
Fails == Reset /\ StepFails
Undone(ok) == Reset /\ StepUndone(ok)
Cleaned == Reset /\ StepCleaned(NumSteps)
===============================================================================
