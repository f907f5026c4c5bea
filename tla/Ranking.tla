------------------------------ MODULE Ranking ------------------------------
(***************************************************************************)
(* Lists in an order: what Python's sort and Exchange's order_by make of a *)
(* set.  The element at a place is the one that so many others precede;    *)
(* order is a set of pairs, of which the first precedes the second.        *)
(***************************************************************************)
EXTENDS Naturals, FiniteSets

Ahead(x, S, order) == {y \in S : <<y, x>> \in order}

Ranked(S, order) ==
  [k \in 1..Cardinality(S) |-> CHOOSE x \in S : Cardinality(Ahead(x, S, order)) = k - 1]

InTurn(I) == Ranked(I, {p \in I \X I : p[1] < p[2]})
=============================================================================
