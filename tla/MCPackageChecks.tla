---------------------------- MODULE MCPackageChecks ----------------------------
(***************************************************************************)
(* PackageChecks for TLC: an ordinary user beside the global one, and two  *)
(* authors, who are only ever compared.                                    *)
(***************************************************************************)
EXTENDS PackageChecks, TLC

CONSTANTS a1, a2   \* the authors

TwoUsers == {"global", "user"}
Interchangeable == Permutations({a1, a2})
===============================================================================
