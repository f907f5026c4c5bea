----------------------------- MODULE MailWalks -----------------------------
(***************************************************************************)
(* The walks of SearchPaging, under names that MirrorSync does not use:    *)
(* the theorems about both stand in one module, and a walk may read the    *)
(* mirror.  A mailbox is here its matches, and a change of it a move.      *)
(***************************************************************************)
CONSTANTS Walks, Limits, Chunk, Loose, Start, MaxMsg, MaxMoves, MaxFailures
VARIABLES matches, newest, walk, parts, moves, failures

Paging == INSTANCE SearchPaging WITH
  box <- matches, changes <- moves, MaxChanges <- MaxMoves

(* What the theorem about a walk assumes of the constants.                  *)
ASSUME WalksAssumption == Paging!ConstantsOK

PagingSpec == Paging!Spec

(* A client that was told of no gap has seen what was there all the time,   *)
(* but for one message per removal, or arrival between a count and its rows *)
(* (email_tools.py:1060-1911, mail_read.py:353-800).                        *)
MissesNeedChanges == Paging!MissesNeedChanges

(* No page sends a client back to where it is for ever (email_tools.py:1483). *)
WalkEnds == Paging!WalkEnds
=============================================================================
