---------------------------- MODULE MemoryStore ----------------------------
(***************************************************************************)
(* The key/value store of the v4 server (src/memory/store.py): one SQLite  *)
(* table, rows under (namespace, key) with a size and an optional expiry.  *)
(* Every method opens a connection of its own; a transaction of SQLite is  *)
(* one step, and what a method does in two transactions is two steps, with *)
(* other threads and other server processes in between.                    *)
(*                                                                         *)
(* A method that changes the table is an operator that gives the tables it *)
(* may leave.  Names and JSON are left out, as is the audit table, which   *)
(* nothing reads.                                                          *)
(***************************************************************************)
EXTENDS Naturals, FiniteSets, FiniteSetsExt

CONSTANTS
  Key,      (* the keys of the instance: records with a field ns           *)
  Size,     (* sizes of values                                             *)
  Cap,      (* _NAMESPACE_BYTE_CAP                                         *)
  Never,    (* expires_at of a row without a TTL                           *)
  NoTtl,    (* ttl_seconds not given                                       *)
  NoRow

(* No value is larger than a namespace (_MAX_VALUE_BYTES, 1 MiB of 50).    *)
ASSUME SizeAssumption == /\ Cap \in Nat
                         /\ Size \subseteq 1..Cap
                         /\ NoTtl \notin Nat

VARIABLES now, kv

Instant == Nat \union {Never}
RowOf(Value) == [val : Value, size : Size, upd : Nat, exp : Instant]

Expired(row) == row.exp # Never /\ row.exp < now

RowsOf(t, ns) == {k \in Key : k.ns = ns /\ t[k] # NoRow}
Bytes(t, K) == MapThenSumSet(LAMBDA k : t[k].size, K)

(* _prune_namespace_if_needed: when the namespace exceeds its cap, the rows *)
(* with the oldest updated_at go, whatever they hold, until it fits again.  *)
(* The row just written is the newest.                                      *)
PruneNamespaceIfNeeded(t, written) ==
  LET rows == RowsOf(t, written.ns)
      fits(E) == Bytes(t, rows \ E) <= Cap
  IN {E \in SUBSET (rows \ {written}) :
        /\ fits(E)
        /\ \A e \in E, r \in (rows \ {written}) \ E : t[e].upd <= t[r].upd
        /\ E # {} => \E last \in E : /\ \A e \in E : t[e].upd <= t[last].upd
                                     /\ ~fits(E \ {last})}

Without(t, K) == [k \in Key |-> IF k \in K THEN NoRow ELSE t[k]]

(* set: upsert and prune in one transaction.                                *)
Set(k, val, size, ttl) ==
  LET row == [val |-> val, size |-> size, upd |-> now,
              exp |-> IF ttl = NoTtl THEN Never ELSE now + ttl]
      full == [kv EXCEPT ![k] = row]
  IN {Without(full, E) : E \in PruneNamespaceIfNeeded(full, k)}

(* The SELECT of get; the caller's next step is Delete if Expired.          *)
Found(k) == kv[k] # NoRow

Delete(k) == Without(kv, {k})

(* list: the unexpired rows, newest first, cut at the limit.                *)
List(ns, limit) ==
  LET live == {k \in RowsOf(kv, ns) : ~Expired(kv[k])}
  IN {L \in SUBSET live : /\ Cardinality(L) = IF Cardinality(live) < limit
                                              THEN Cardinality(live) ELSE limit
                          /\ \A k \in L, o \in live \ L : kv[o].upd <= kv[k].upd}

(* Mutant: consume without its DELETE                                       *)
ConsumeNothing(k) == kv

(* consume: read, compare the value's status and delete in one BEGIN        *)
(* IMMEDIATE transaction.  expires_at is not looked at.                     *)
Consumable(k, status) == kv[k] # NoRow /\ kv[k].val.status = status
Consume(k) == Without(kv, {k})
=============================================================================
