----------------------------- MODULE PkgmgrSignal -----------------------------
(***************************************************************************)
(* What the client of a request is told: the signals PkgmgrSignal sends    *)
(* through pkgmgr_installer_send_signal(), which may fail at every call.   *)
(* Every Send...() is an action; a call that returns false because of the  *)
(* state of the object sends nothing and changes nothing.                  *)
(***************************************************************************)
EXTENDS Naturals, Sequences

VARIABLES
  state,      \* PkgmgrSignal::state_
  errorSent,  \* PkgmgrSignal::error_message_sent_
  wire,       \* the signals delivered to the client, in order
  lost        \* history: the kinds of the signals that could not be sent

signalVars == <<state, errorSent, wire, lost>>

States == {"NOT_SENT", "STARTED", "FINISHED"}
Keys == {"start", "appid", "percent", "error", "end"}
Signal == [key : Keys, value : Nat]

OkValue == 0       \* "ok" of the end signal
FailValue == 1     \* "fail" of the end signal, and every error code

Sig(k, v) == [key |-> k, value |-> v]
NoSignal == UNCHANGED signalVars

SignalInit ==
  /\ state = "NOT_SENT"
  /\ errorSent = FALSE
  /\ wire = << >>
  /\ lost = {}

Deliver(signals) == wire' = wire \o signals
NotDelivered(key) == wire' = wire /\ lost' = lost \cup {key}

\* The start signal; for an uninstallation the ids of the applications follow
\* it (none when they cannot be queried), and losing one of them makes
\* SendStarted() return false with START out.
SendStarted(uninstall) ==
  IF state # "NOT_SENT"
    THEN NoSignal
    ELSE /\ \/ /\ \/ Deliver(<<Sig("start", OkValue)>>)
                  \/ uninstall /\ Deliver(<<Sig("start", OkValue), Sig("appid", OkValue)>>)
               /\ state' = "STARTED"
               /\ UNCHANGED lost
            \/ /\ uninstall
               /\ Deliver(<<Sig("start", OkValue)>>)
               /\ state' = "STARTED"
               /\ lost' = lost \cup {"appid"}
            \/ /\ NotDelivered("start")
               /\ UNCHANGED state
         /\ UNCHANGED errorSent

\* Mutant: progress is sent without looking at the state.
SendProgressAnyway(progress) ==
  /\ \/ Deliver(<<Sig("percent", progress)>>) /\ UNCHANGED lost
     \/ NotDelivered("percent")
  /\ UNCHANGED <<state, errorSent>>

SendProgress(progress) ==
  IF state # "STARTED"
    THEN NoSignal
    ELSE /\ \/ Deliver(<<Sig("percent", progress)>>) /\ UNCHANGED lost
            \/ NotDelivered("percent")
         /\ UNCHANGED <<state, errorSent>>

\* The flag is raised before the signal is sent, and stays up if it is lost.
SendError ==
  IF state # "STARTED"
    THEN NoSignal
    ELSE /\ errorSent' = TRUE
         /\ \/ Deliver(<<Sig("error", FailValue)>>) /\ UNCHANGED lost
            \/ NotDelivered("error")
         /\ UNCHANGED state

\* Mutant: the error code is sent although a step has reported an error.
SendFinishedErrorTwice(ok) ==
  IF state # "STARTED"
    THEN NoSignal
    ELSE LET err == IF ok THEN << >> ELSE <<Sig("error", FailValue)>>
             end == <<Sig("end", IF ok THEN OkValue ELSE FailValue)>>
         IN  /\ \/ /\ Deliver(err \o end)
                   /\ state' = "FINISHED"
                   /\ UNCHANGED lost
                \/ /\ \/ err # << >> /\ NotDelivered("error")
                      \/ Deliver(err) /\ lost' = lost \cup {"end"}
                   /\ UNCHANGED state
             /\ UNCHANGED errorSent

\* A failed request whose steps sent no error gets the error code first; the
\* end signal is not even tried when that one is lost.
SendFinished(ok) ==
  IF state # "STARTED"
    THEN NoSignal
    ELSE LET err == IF ok \/ errorSent THEN << >> ELSE <<Sig("error", FailValue)>>
             end == <<Sig("end", IF ok THEN OkValue ELSE FailValue)>>
         IN  /\ \/ /\ Deliver(err \o end)
                   /\ state' = "FINISHED"
                   /\ UNCHANGED lost
                \/ /\ \/ err # << >> /\ NotDelivered("error")
                      \/ Deliver(err) /\ lost' = lost \cup {"end"}
                   /\ UNCHANGED state
             /\ UNCHANGED errorSent
===============================================================================
