---------------------------- MODULE MCAppInstaller ----------------------------
(* AppInstaller for TLC: the only constant is a number, given in the cfg. *)
EXTENDS AppInstaller
===============================================================================
