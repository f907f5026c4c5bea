----------------------------- MODULE AliasStore -----------------------------
(***************************************************************************)
(* IdAliaser (v5/ewsmcp/ids.py): the SQLite table that gives EWS ids the   *)
(* short handles the model works with, shared by every thread and every    *)
(* server process over one DATA_DIR.                                       *)
(*                                                                         *)
(* An item keeps its identity through moves while its EWS id changes;      *)
(* Owner says which item an id belongs to.  A write runs in a transaction  *)
(* (BEGIN IMMEDIATE): one writer, a private working copy, COMMIT or        *)
(* ROLLBACK, which is also what a crash leaves.  Readers take no lock and  *)
(* see the last commit.  A storage error is answered by each call in its   *)
(* own way: alias_for with the raw id, rebind with None, alias_many with   *)
(* whatever it has looked up or minted so far.                             *)
(***************************************************************************)
EXTENDS Naturals, Sequences, FiniteSets

CONSTANTS
  Threads,     (* callers, of this process or another                      *)
  Kinds,       (* the letters aliases start with                           *)
  Ids,         (* EWS ids                                                  *)
  Items,       (* what they identify                                       *)
  Owner,       (* Owner[id]: the item an id belongs to, for ever           *)
  Pages,       (* what alias_many is called with: sequences of entries     *)
  MaxAlias,    (* bound of the checked instances on a kind's counter       *)
  None

ASSUME OwnerAssumption == Owner \in [Ids -> Items]
ASSUME NoneAssumption == None \notin Threads

Alias == [kind : Kinds, n : Nat \ {0}]
Row == [alias : Alias, id : Ids]
Store == [rows : SUBSET Row, counters : [Kinds -> Nat]]
Name == [alias : Alias, item : Items]
AliasEntry == [op : {"alias"}, id : Ids, kind : Kinds]
RebindEntry == {e \in [op : {"rebind"}, id : Ids, new : Ids] :
                  Owner[e.id] = Owner[e.new]}
Entry == AliasEntry \union RebindEntry

ASSUME PagesAssumption == Pages \subseteq Seq(AliasEntry)

VARIABLES
  db,          (* the committed tables `aliases' and `counters'            *)
  work,        (* the writer's uncommitted copy, db when there is no writer*)
  writer,      (* who holds the write lock                                 *)
  call,        (* the call each thread is in                               *)
  todo,        (* what is left of the thread's transaction                 *)
  out,         (* the names the open transaction will return               *)
  issued,      (* history: the names callers were given                    *)
  leaked       (* history: the names returned by a failed alias_many       *)

vars == <<db, work, writer, call, todo, out, issued, leaked>>

-----------------------------------------------------------------------------
(* The SQL statements, on a store *)

RowsOf(s, id) == {r \in s.rows : r.id = id}

NameOf(r) == [alias |-> r.alias, item |-> Owner[r.id]]

(* Mutant: rows are counted instead                                         *)
NextAliasByCount(s, kind) ==
  [kind |-> kind, n |-> Cardinality({r \in s.rows : r.alias.kind = kind}) + 1]

(* INSERT .. ON CONFLICT DO UPDATE SET n = n + 1, then the new alias' row   *)
NextAlias(s, kind) == [kind |-> kind, n |-> s.counters[kind] + 1]
MintRow(s, id, kind) ==
  [rows |-> s.rows \union {[alias |-> NextAlias(s, kind), id |-> id]},
   counters |-> [s.counters EXCEPT ![kind] = @ + 1]]

(* Mutant: the old row is dropped with the new id's other one               *)
RebindRowDropping(s, r, new) ==
  [s EXCEPT !.rows = {q \in @ : q.id # new /\ q # r}]

(* DELETE the row another alias has for the new id, UPDATE the old id's row *)
RebindRow(s, r, new) ==
  [rows |-> {q \in s.rows : q.id # new /\ q # r}
              \union {[alias |-> r.alias, id |-> new]},
   counters |-> s.counters]

-----------------------------------------------------------------------------
Init ==
  /\ db = [rows |-> {}, counters |-> [k \in Kinds |-> 0]]
  /\ work = db
  /\ writer = None
  /\ call = [p \in Threads |-> "none"]
  /\ todo = [p \in Threads |-> << >>]
  /\ out = {}
  /\ issued = {} /\ leaked = {}

(* alias_for's fast path: a row without new metadata answers unlocked       *)
FastRead(p, id) ==
  /\ call[p] = "none"
  /\ \E r \in RowsOf(db, id) : issued' = issued \union {NameOf(r)}
  /\ UNCHANGED <<db, work, writer, call, todo, out, leaked>>

StartCall(p, name, entries) ==
  /\ call[p] = "none"
  /\ call' = [call EXCEPT ![p] = name]
  /\ todo' = [todo EXCEPT ![p] = entries]
  /\ UNCHANGED <<db, work, writer, out, issued, leaked>>

(* alias_for's write path: no row yet, metadata to backfill, or a failed    *)
(* read; alias_many goes to its transaction directly                        *)
StartAliasFor(p, id, kind) ==
  StartCall(p, "alias_for", <<[op |-> "alias", id |-> id, kind |-> kind]>>)

StartAliasMany(p, page) == page # << >> /\ StartCall(p, "alias_many", page)

(* rebind, called when Exchange has moved an item to a new id               *)
StartRebind(p, old, new) ==
  /\ old # new /\ Owner[old] = Owner[new]
  /\ StartCall(p, "rebind", <<[op |-> "rebind", id |-> old, new |-> new]>>)

Begin(p) ==
  /\ call[p] # "none" /\ writer = None
  /\ writer' = p /\ work' = db /\ out' = {}
  /\ UNCHANGED <<db, call, todo, issued, leaked>>

(* One entry of the transaction *)
At(p, op) == writer = p /\ todo[p] # << >> /\ Head(todo[p]).op = op
Finished(p) ==
  /\ todo' = [todo EXCEPT ![p] = Tail(@)]
  /\ UNCHANGED <<db, writer, call, issued, leaked>>

FindRow(p) ==
  /\ At(p, "alias")
  /\ \E r \in RowsOf(work, Head(todo[p]).id) : out' = out \union {NameOf(r)}
  /\ Finished(p)
  /\ UNCHANGED work

Mint(p) ==
  /\ At(p, "alias")
  /\ LET e == Head(todo[p]) IN
     /\ RowsOf(work, e.id) = {}
     /\ work.counters[e.kind] < MaxAlias
     /\ work' = MintRow(work, e.id, e.kind)
     /\ out' = out \union {[alias |-> NextAlias(work, e.kind), item |-> Owner[e.id]]}
  /\ Finished(p)

Rebind(p) ==
  /\ At(p, "rebind")
  /\ LET e == Head(todo[p]) IN
     \/ \E r \in RowsOf(work, e.id) :
          /\ work' = RebindRow(work, r, e.new)
          /\ out' = out \union {NameOf(r)}
     \/ RowsOf(work, e.id) = {} /\ UNCHANGED <<work, out>>
  /\ Finished(p)

(* The transaction ends and its thread is free, or gone *)
End(p) ==
  /\ writer' = None /\ out' = {}
  /\ call' = [call EXCEPT ![p] = "none"]
  /\ todo' = [todo EXCEPT ![p] = << >>]

Commit(p) ==
  /\ writer = p /\ todo[p] = << >>
  /\ db' = work /\ issued' = issued \union out
  /\ End(p)
  /\ UNCHANGED <<work, leaked>>

(* A storage error, in the COMMIT too: alias_many still returns its dict    *)
Fail(p) ==
  /\ writer = p
  /\ work' = db
  /\ leaked' = IF call[p] = "alias_many" THEN leaked \union out ELSE leaked
  /\ End(p)
  /\ UNCHANGED <<db, issued>>

(* The process of the writer dies: SQLite discards what was not committed   *)
Crash(p) ==
  /\ writer = p
  /\ work' = db
  /\ End(p)
  /\ UNCHANGED <<db, issued, leaked>>

Next ==
  \/ \E p \in Threads, id \in Ids : FastRead(p, id)
  \/ \E p \in Threads, id \in Ids, kind \in Kinds : StartAliasFor(p, id, kind)
  \/ \E p \in Threads, page \in Pages : StartAliasMany(p, page)
  \/ \E p \in Threads, old, new \in Ids : StartRebind(p, old, new)
  \/ \E p \in Threads : Begin(p) \/ Commit(p) \/ Fail(p) \/ Crash(p)
  \/ \E p \in Threads : FindRow(p) \/ Mint(p) \/ Rebind(p)

Spec == Init /\ [][Next]_vars

-----------------------------------------------------------------------------
(* Properties *)

(* The tables hold what their columns say; with no writer the working copy  *)
(* is the committed one.                                                    *)
TypeOK ==
  /\ db \in Store /\ work \in Store
  /\ writer \in Threads \union {None}
  /\ call \in [Threads -> {"none", "alias_for", "alias_many", "rebind"}]
  /\ todo \in [Threads -> Seq(Entry)]
  /\ out \subseteq Name /\ issued \subseteq Name /\ leaked \subseteq Name

UniqueRows(s) ==
  \A q, r \in s.rows : (q.id = r.id \/ q.alias = r.alias) => q = r

(* The PRIMARY KEY and UNIQUE constraints of the table never fire: no       *)
(* insert or update of the code could be refused, so alias_for falls back   *)
(* to a raw id on storage errors only.                                      *)
ConstraintsHold == UniqueRows(db) /\ UniqueRows(work)

Sound(names) ==
  /\ \A x, y \in names : x.alias = y.alias => x.item = y.item
  /\ \A x \in names, r \in db.rows : x.alias = r.alias => x.item = Owner[r.id]

(* An alias that a successful call gave resolves to the item it was given   *)
(* for, or to nothing: never to another item, whatever was moved, rebound   *)
(* or lost in a crash.                                                      *)
AliasNamesOneItem == Sound(issued)

(* What alias_many's contract says of a storage error: the entries it could *)
(* not serve are missing from what it returns, so what it returns is sound. *)
BulkNamesOneItem == Sound(issued \union leaked)

(* Readers that take no lock, transactions that are rolled back and several *)
(* processes over one file look to the callers like AliasRegistry, one set  *)
(* of names that changes at once (ids.py:159-380): a lookup gives a name of *)
(* the moment, and a commit drops no item's last alias and reuses no number.*)
StoreNames(s) == {NameOf(r) : r \in s.rows}
Numbers(s) == UNION {[kind : {k}, n : 1..s.counters[k]] : k \in Kinds}
Registry == INSTANCE AliasRegistry
  WITH names <- StoreNames(db), used <- Numbers(db), given <- issued
ImplementsRegistry == Registry!Spec

(* A commit takes an alias out of use only if another alias of the same     *)
(* item stays: rebind drops duplicates, it never orphans an item.           *)
HandlesSurvive ==
  [][\A r \in db.rows :
       \E q \in db'.rows : Owner[q.id] = Owner[r.id]]_vars
=============================================================================
