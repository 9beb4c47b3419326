--------------------------- MODULE MCMountedPackage ---------------------------
(* A few requests for one mounted package. *)
EXTENDS MountedPackage
MCPoints == {Final} \cup {Tmp(n) : n \in 1..MaxRequests}
===============================================================================
