--------------------------- MODULE MemoryAliaser ---------------------------
(***************************************************************************)
(* The short ids of one user in multi-user mode (v5/ewsmcp/ids.py,         *)
(* MemoryAliaser): two maps kept in the user's Context only, the least     *)
(* recently seen alias dropped first.                                      *)
(*                                                                         *)
(* Exchange ids, folder paths and aliases are all [kind, n]: the tools     *)
(* pass each where another is expected.                                    *)
(***************************************************************************)
EXTENDS Naturals, Sequences, SequencesExt

CONSTANTS
  MaxEntries,        (* max_entries                                        *)
  BlockSize          (* 1000: how far apart two instances start to count   *)

ASSUME AliaserAssumption == MaxEntries \in Nat \ {0} /\ BlockSize \in Nat

AliasKinds == {"r", "f"}
IsAlias(value) == value.kind \in AliasKinds
Unknown == [kind |-> "unknown", n |-> 0]

(* A new aliaser counts from the start of its block                        *)
NewAliaser(block) ==
  [counters |-> [k \in AliasKinds |-> block * BlockSize],
   by_alias |-> <<>>, by_id |-> <<>>]

(* An alias is in the map at most once                                      *)
Without(by_alias, alias) ==
  LET at == {i \in DOMAIN by_alias : by_alias[i].alias = alias}
  IN  IF at = {} THEN by_alias ELSE RemoveAt(by_alias, CHOOSE i \in at : TRUE)

(* The oldest entry goes when there is one too many                        *)
Trimmed(a) ==
  IF Len(a.by_alias) <= MaxEntries THEN a
  ELSE [a EXCEPT !.by_alias = Tail(@),
                 !.by_id = Restrict(@, DOMAIN @ \ {Head(a.by_alias).id})]

Minted(a, id, kind) ==
  LET alias == [kind |-> kind, n |-> a.counters[kind] + 1]
  IN  Trimmed([a EXCEPT !.counters[kind] = @ + 1,
                        !.by_alias = Append(@, [alias |-> alias, id |-> id]),
                        !.by_id = [i \in DOMAIN @ \cup {id} |-> IF i = id THEN alias ELSE @[i]]])

Seen(a, id) ==
  [a EXCEPT !.by_alias =
     Append(Without(@, a.by_id[id]), [alias |-> a.by_id[id], id |-> id])]

(* The aliaser after alias_for; by_id[id] is what it answers               *)
alias_for(a, id, kind) ==
  IF id \in DOMAIN a.by_id THEN Seen(a, id) ELSE Minted(a, id, kind)

(* An alias that is not in the map is a KeyError; what is no alias passes  *)
resolve(a, value) ==
  IF ~IsAlias(value) THEN value
  ELSE IF \E i \in DOMAIN a.by_alias : a.by_alias[i].alias = value
    THEN a.by_alias[CHOOSE i \in DOMAIN a.by_alias : a.by_alias[i].alias = value].id
    ELSE Unknown
=============================================================================
