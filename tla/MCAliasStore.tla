---------------------------- MODULE MCAliasStore ----------------------------
(***************************************************************************)
(* AliasStore for TLC: two callers, an item that moves twice and one that  *)
(* stays, and a result page that mixes both.                               *)
(***************************************************************************)
EXTENDS AliasStore, TLC

CONSTANTS a0, a1, a2, b0, i, j

MCOwner == (a0 :> i) @@ (a1 :> i) @@ (a2 :> i) @@ (b0 :> j)

MCPages == {<<[op |-> "alias", id |-> a1, kind |-> "m"],
              [op |-> "alias", id |-> b0, kind |-> "m"]>>}

MCSymmetry == Permutations(Threads)
=============================================================================
