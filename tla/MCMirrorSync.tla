---------------------------- MODULE MCMirrorSync ----------------------------
(***************************************************************************)
(* MirrorSync for TLC: a page holds one change, so that a stream of two    *)
(* messages lets the mailbox change between its pages.                     *)
(***************************************************************************)
EXTENDS MirrorSync
=============================================================================
