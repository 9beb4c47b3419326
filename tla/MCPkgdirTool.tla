---------------------------- MODULE MCPkgdirTool ----------------------------
(* The user directory service with a few users, directories and requests. *)
EXTENDS PkgdirTool
MCUserList == <<"u1", "u2">>
=============================================================================
