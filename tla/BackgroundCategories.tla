------------------------- MODULE BackgroundCategories -------------------------
(***************************************************************************)
(* StepCheckBackgroundCategory: which background categories an application *)
(* gets, from those its manifest declares.                                 *)
(***************************************************************************)
EXTENDS SignatureValidation

Known == {"media", "download"}        \* of the six that are known, two
Categories == Known \cup {"system", "other"}

IsTrustedCert(level) == level \in {PARTNER, PLATFORM}

ShouldSendFail(level, declared) ==
  \/ level = PUBLIC /\ "system" \in declared
  \/ level = UNTRUSTED /\ declared # {}

\* old: the package asks for a version below 2.4.
ShouldSendAll(old, support, level, declared) ==
  /\ old /\ support
  /\ (level = PUBLIC /\ "system" \notin declared) \/ IsTrustedCert(level)

ShouldSendSystem(level, declared) == IsTrustedCert(level) /\ "system" \in declared

ShouldSendKnown(old, support, level, declared) ==
  /\ ~ShouldSendFail(level, declared)
  /\ ~ShouldSendAll(old, support, level, declared)
  /\ declared \cap Known # {}

\* What is left but "system" is unknown.
ShouldSendUnknown(level, declared) ==
  ~ShouldSendFail(level, declared) /\ declared \ (Known \cup {"system"}) # {}

\* Mutant: the categories that are not known are dropped.
GrantedKnownOnly(old, support, level, declared) ==
  (IF ShouldSendAll(old, support, level, declared) THEN Known ELSE {})
  \cup (IF ShouldSendSystem(level, declared) THEN {"system"} ELSE {})
  \cup (IF ShouldSendKnown(old, support, level, declared) THEN declared \cap Known ELSE {})

\* The manifest's own list is thrown away, and rebuilt in these four parts.
Granted(old, support, level, declared) ==
  (IF ShouldSendAll(old, support, level, declared) THEN Known ELSE {})
  \cup (IF ShouldSendSystem(level, declared) THEN {"system"} ELSE {})
  \cup (IF ShouldSendKnown(old, support, level, declared) THEN declared \cap Known ELSE {})
  \cup (IF ShouldSendUnknown(level, declared)
          THEN declared \ (Known \cup {"system"}) ELSE {})
===============================================================================
