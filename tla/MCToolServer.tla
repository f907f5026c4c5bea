---------------------------- MODULE MCToolServer ----------------------------
(***************************************************************************)
(* An instance of ToolServer for TLC: two calls, one connection.           *)
(***************************************************************************)
EXTENDS ToolServer, TLC
=============================================================================
