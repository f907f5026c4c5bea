---------------------------- MODULE MCConnection ----------------------------
(***************************************************************************)
(* Connection for TLC: two outages, each of which may wedge the session.   *)
(***************************************************************************)
EXTENDS Connection
=============================================================================
