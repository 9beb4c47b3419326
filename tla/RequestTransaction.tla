-------------------------- MODULE RequestTransaction --------------------------
(***************************************************************************)
(* What a client may expect of a request, whatever the steps do: it takes  *)
(* effect as a whole or not at all, and the answer tells which.  The steps *)
(* are a set here; that they are a list, run by three loops, with signals  *)
(* in between that may be lost, is the business of AppInstaller, which     *)
(* implements this module.                                                 *)
(***************************************************************************)
CONSTANT Steps   \* the parts of the work

VARIABLES
  status,    \* "running", "failing", "committed" or "aborted"
  effects,   \* the steps whose effect, or a part of it, is there
  answer     \* what the client has been told: "none", "ok" or "fail"

txVars == <<status, effects, answer>>

Init ==
  /\ status = "running"
  /\ effects = {}
  /\ answer = "none"

\* A step takes effect; the last one commits the request.
Apply ==
  /\ status = "running"
  /\ \E s \in Steps \ effects : effects' = effects \cup {s}
  /\ status' = IF effects' = Steps THEN "committed" ELSE "running"
  /\ UNCHANGED answer

\* A step fails, and may have left a part of its effect.
Fail ==
  /\ status = "running"
  /\ \E s \in Steps \ effects : effects' = effects \cup {s}
  /\ status' = "failing"
  /\ UNCHANGED answer

\* The effect of a step is taken back; the last one aborts the request.
Revert ==
  /\ status = "failing"
  /\ \E s \in effects : effects' = effects \ {s}
  /\ status' = IF effects' = {} THEN "aborted" ELSE "failing"
  /\ UNCHANGED answer

\* The client is told once, when the outcome is final.
Answer ==
  /\ answer = "none"
  /\ \/ status = "committed" /\ answer' = "ok"
     \/ status = "aborted" /\ answer' = "fail"
  /\ UNCHANGED <<status, effects>>

Next == Apply \/ Fail \/ Revert \/ Answer

Safe == Init /\ [][Next]_txVars

\* Every request comes to an outcome; the answer may be lost.
Spec == Safe /\ WF_txVars(Apply \/ Fail) /\ WF_txVars(Revert)
===============================================================================
