---------------------------- MODULE SecurityContexts ----------------------------
(***************************************************************************)
(* security_registration.cc: a manifest is registered and unregistered one *)
(* application after the other, and the first failure ends the loop, with  *)
(* the applications before it done.                                        *)
(***************************************************************************)
EXTENDS Naturals, Sequences

AllApps == {"service", "ui"}

\* The applications of a version: one of them is dropped by every second one.
Apps(v) == IF v % 2 = 1 THEN <<"service", "ui">> ELSE <<"ui">>
Members(apps) == {apps[i] : i \in 1..Len(apps)}

\* The security manager keeps for every application whether it has a context and
\* whether that was registered with the author, without whom shared/trusted is
\* left out of the paths.
Contexts == {"none", "plain", "authored"}

PrepareRequest(author) == IF author THEN "authored" ELSE "plain"

RegisterSecurityContext(sec, a, author) == [sec EXCEPT ![a] = PrepareRequest(author)]
UnregisterSecurityContext(sec, a) == [sec EXCEPT ![a] = "none"]

\* The result of the loops when the first k applications were done; a manifest
\* names an application once.
Done(apps, k) == {apps[i] : i \in 1..k}

RegisterForManifest(sec, apps, author, k) ==
  [a \in AllApps |-> IF a \in Done(apps, k) THEN RegisterSecurityContext(sec, a, author)[a]
                                           ELSE sec[a]]
UnregisterForManifest(sec, apps, k) ==
  [a \in AllApps |-> IF a \in Done(apps, k) THEN UnregisterSecurityContext(sec, a)[a]
                                           ELSE sec[a]]
===============================================================================
