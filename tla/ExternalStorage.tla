---------------------------- MODULE ExternalStorage ----------------------------
(***************************************************************************)
(* The part of a package that is on the memory card: ExternalStorage, the  *)
(* session with app2ext that a request opens (pre_) and has to close       *)
(* (post_), and ExternalMount, which makes the part visible for a while.   *)
(* app2ext itself is external: of its state the model keeps where the part *)
(* is, the kind of the open session and whether the part is mounted.       *)
(***************************************************************************)
EXTENDS Naturals

CONSTANT FaultBudget   \* how many operations of the environment may fail

ASSUME FaultBudgetAssumption == FaultBudget \in Nat

VARIABLES
  card,    \* at: where the external part is, session: the open session,
           \* mounted: it was made visible by ExternalMount::Mount()
  faults,  \* history: the kinds of the failures so far
  budget   \* how many more may happen

storageVars == <<card, faults, budget>>

Places == {"phone", "card"}
Sessions == {"none", "Install", "Update", "Move", "Uninstall"}
NoCard == [at |-> "phone", session |-> "none", mounted |-> FALSE]

NoFault == UNCHANGED <<faults, budget>>
Fault(kind) == budget > 0 /\ budget' = budget - 1 /\ faults' = faults \cup {kind}

\* What app2ext refuses: to move a package to where it is, and to uninstall one
\* that is not on the card.
CanOpen(kind, target) ==
  CASE kind = "Move"      -> card.at # target
    [] kind = "Uninstall" -> card.at = "card"
    [] OTHER              -> TRUE

\* Initialize(), with the pre_ call of the session; a move first unmounts the
\* package.
Initialize(kind, target) ==
  /\ CanOpen(kind, target)
  /\ IF kind = "Move"
     THEN card' = [card EXCEPT !.session = kind, !.at = target, !.mounted = FALSE]
     ELSE card' = [card EXCEPT !.session = kind, !.at = "card"]

\* The factories return no storage; force_clean() of an installation may be done.
NotInitialized(kind, target) ==
  /\ \/ ~CanOpen(kind, target) /\ UNCHANGED card /\ NoFault
     \/ /\ Fault("app2ext")
        /\ card' = (IF kind = "Install" THEN [card EXCEPT !.at = "phone"] ELSE card)

\* Mutant: the status of a failed installation is not passed on.
FinalizeForgets(c, success) ==
  [c EXCEPT !.session = "none",
            !.at = IF c.session = "Uninstall" THEN "phone" ELSE @]

\* Finalize(): only an installation that has failed is told apart; a move is not
\* taken back.
Finalize(c, success) ==
  [c EXCEPT !.session = "none",
            !.at = IF c.session = "Uninstall" \/ (c.session = "Install" /\ ~success)
                   THEN "phone" ELSE @]

Commit == Finalize(card, TRUE)
Abort == Finalize(card, FALSE)

\* ExternalMount, with the destructor that unmounts what is still mounted.
IsAvailable == card.at = "card"
Mount == card' = [card EXCEPT !.mounted = TRUE]
Umount == card' = [card EXCEPT !.mounted = FALSE]
===============================================================================
