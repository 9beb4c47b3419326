-------------------------- MODULE MCInstalledPackage --------------------------
(***************************************************************************)
(* Three requests for one package, with up to two failures.                *)
(***************************************************************************)
EXTENDS InstalledPackage
===============================================================================
