---------------------------- MODULE AliasRegistry ----------------------------
(***************************************************************************)
(* What IdAliaser promises to the tools, without rows, counters, locks and *)
(* transactions: a set of names, each an alias with the item it stands     *)
(* for.  It is read, and now and then it changes at once: a new name has   *)
(* an alias that was never used, an item that had a name keeps one, and    *)
(* what callers are given are names of the moment.  AliasStore implements  *)
(* it.                                                                     *)
(***************************************************************************)
VARIABLES
  names,   (* what aliases stand for now: a set of [alias, item]           *)
  used,    (* aliases that will not be given to another item: those of all *)
           (* names there ever were, and perhaps more                      *)
  given    (* the names callers were given                                 *)

rvars == <<names, used, given>>

AliasesOf(ns) == {x.alias : x \in ns}

Init == names = {} /\ used = {} /\ given = {}

(* A call asks for a name                                                   *)
Answer ==
  /\ \E x \in names : given' = given \union {x}
  /\ UNCHANGED <<names, used>>

(* A call, or another program over the same file, changes the names         *)
Update ==
  /\ \A x, y \in names' : x.alias = y.alias => x = y
  /\ \A x \in names' : x \in names \/ x.alias \notin used
  /\ \A x \in names : \E y \in names' : y.item = x.item
  /\ used \union AliasesOf(names') \subseteq used'
  /\ \E answers \in SUBSET names' : given' = given \union answers

Next == Answer \/ Update

Spec == Init /\ [][Next]_rvars
=============================================================================
