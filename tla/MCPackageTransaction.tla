------------------------- MODULE MCPackageTransaction -------------------------
(* PackageTransaction for TLC. *)
EXTENDS PackageTransaction
===============================================================================
