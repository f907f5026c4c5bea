-------------------------- MODULE AliasStore_proofs --------------------------
(***************************************************************************)
(* What holds of the alias table for every set of threads, kinds, ids and   *)
(* pages, and with no bound on the counters.                                *)
(*                                                                          *)
(* The inductive invariant speaks of names: the pairs of an alias and the   *)
(* item it stands for.  Names of the committed table, of the open           *)
(* transaction and of what callers were given never contradict each other,  *)
(* and no name is numbered above its kind's counter, so the next alias is   *)
(* always new.                                                              *)
(*                                                                          *)
(* The last section shows that the table implements AliasRegistry: a lookup *)
(* is an Answer, a commit one Update, and every other step is invisible.    *)
(***************************************************************************)
EXTENDS AliasStore, TLAPS

(* Names that survive a rollback, and all names                             *)
KnownNames == issued \union StoreNames(db)
AllNames == KnownNames \union StoreNames(work) \union out

Coherent(names) == \A x, y \in names : x.alias = y.alias => x.item = y.item
Numbered(names, s) == \A x \in names : x.alias.n <= s.counters[x.alias.kind]

NameInv ==
  /\ Coherent(AllNames)
  /\ Numbered(AllNames, work)
  /\ Numbered(KnownNames, db)

IInv == TypeOK /\ ConstraintsHold /\ NameInv

-----------------------------------------------------------------------------
(* Lemmas about the statements                                              *)

(* The name a row stands for is well typed.                                 *)
LEMMA NameType ==
  ASSUME NEW r \in Row
  PROVE  NameOf(r) \in Name
BY OwnerAssumption DEF NameOf, Name, Row

(* Minting a row keeps the store well typed (ids.py:159-241).               *)
LEMMA MintType ==
  ASSUME NEW s \in Store, NEW id \in Ids, NEW kind \in Kinds
  PROVE  /\ MintRow(s, id, kind) \in Store
         /\ NextAlias(s, kind) \in Alias
<1>1. s.counters[kind] \in Nat
  BY DEF Store
<1>2. NextAlias(s, kind) \in Alias
  BY <1>1 DEF NextAlias, Alias
<1>3. [s.counters EXCEPT ![kind] = @ + 1] \in [Kinds -> Nat]
  BY <1>1 DEF Store
<1>4. s.rows \union {[alias |-> NextAlias(s, kind), id |-> id]} \in SUBSET Row
  BY <1>2 DEF Store, Row
<1> QED
  BY <1>2, <1>3, <1>4 DEF MintRow, Store

(* Rebinding a row keeps the store well typed (ids.py:334-380).             *)
LEMMA RebindType ==
  ASSUME NEW s \in Store, NEW r \in s.rows, NEW new \in Ids
  PROVE  RebindRow(s, r, new) \in Store
BY DEF RebindRow, Store, Row

(* A mint keeps both columns unique when no row is numbered above its       *)
(* counter and the id has no row yet.                                       *)
LEMMA MintUnique ==
  ASSUME NEW s \in Store, NEW id \in Ids, NEW kind \in Kinds,
         UniqueRows(s), RowsOf(s, id) = {}, Numbered(StoreNames(s), s)
  PROVE  UniqueRows(MintRow(s, id, kind))
<1>1. \A q \in s.rows : q.alias # NextAlias(s, kind)
  <2> SUFFICES ASSUME NEW q \in s.rows, q.alias = NextAlias(s, kind)
               PROVE  FALSE
    OBVIOUS
  <2>1. NameOf(q) \in StoreNames(s)
    BY DEF StoreNames
  <2>2. q.alias.n <= s.counters[q.alias.kind]
    BY <2>1 DEF Numbered, NameOf
  <2>3. s.counters[kind] \in Nat
    BY DEF Store
  <2> QED
    BY <2>2, <2>3 DEF NextAlias
<1>2. \A q \in s.rows : q.id # id
  BY DEF RowsOf
<1> QED
  BY <1>1, <1>2 DEF UniqueRows, MintRow

(* A rebind keeps both columns unique.                                      *)
LEMMA RebindUnique ==
  ASSUME NEW s \in Store, NEW r \in s.rows, NEW new \in Ids, UniqueRows(s)
  PROVE  UniqueRows(RebindRow(s, r, new))
BY DEF UniqueRows, RebindRow

(* A rebind between two ids of one item invents no name.                    *)
LEMMA RebindNames ==
  ASSUME NEW s \in Store, NEW r \in s.rows, NEW new \in Ids,
         Owner[r.id] = Owner[new]
  PROVE  StoreNames(RebindRow(s, r, new)) \subseteq StoreNames(s)
BY DEF StoreNames, RebindRow, NameOf

(* What a writer has to do next is an entry of its page.                    *)
LEMMA HeadEntry ==
  ASSUME TypeOK, NEW p \in Threads, todo[p] # << >>
  PROVE  Head(todo[p]) \in Entry
<1>1. todo[p] \in Seq(Entry)
  BY DEF TypeOK
<1> HIDE DEF Entry
<1> QED
  BY <1>1

-----------------------------------------------------------------------------
(* Type correctness                                                         *)

(* The tables, the transactions and what callers hold have the types of     *)
(* TypeOK, for any threads, ids and pages.                                  *)
THEOREM TypeCorrect == Spec => []TypeOK
<1>1. Init => TypeOK
  BY DEF Init, TypeOK, Store
<1>2. TypeOK /\ [Next]_vars => TypeOK'
  <2> SUFFICES ASSUME TypeOK, [Next]_vars
               PROVE  TypeOK'
    OBVIOUS
  <2> USE DEF TypeOK
  <2>1. ASSUME NEW p \in Threads, NEW id \in Ids, FastRead(p, id)
        PROVE  TypeOK'
    <3>1. PICK r \in RowsOf(db, id) : issued' = issued \union {NameOf(r)}
      BY <2>1 DEF FastRead
    <3>2. r \in Row
      BY DEF RowsOf, Store
    <3> QED
      BY <2>1, <3>1, <3>2, NameType DEF FastRead
  <2>2. ASSUME NEW p \in Threads, NEW id \in Ids, NEW kind \in Kinds,
               StartAliasFor(p, id, kind)
        PROVE  TypeOK'
    <3>1. <<[op |-> "alias", id |-> id, kind |-> kind]>> \in Seq(Entry)
      BY DEF Entry, AliasEntry
    <3> QED
      BY <2>2, <3>1 DEF StartAliasFor, StartCall
  <2>3. ASSUME NEW p \in Threads, NEW page \in Pages, StartAliasMany(p, page)
        PROVE  TypeOK'
    <3>1. page \in Seq(Entry)
      BY PagesAssumption DEF Entry
    <3> QED
      BY <2>3, <3>1 DEF StartAliasMany, StartCall
  <2>4. ASSUME NEW p \in Threads, NEW old \in Ids, NEW new \in Ids,
               StartRebind(p, old, new)
        PROVE  TypeOK'
    <3>1. <<[op |-> "rebind", id |-> old, new |-> new]>> \in Seq(Entry)
      BY <2>4 DEF Entry, RebindEntry, StartRebind
    <3> QED
      BY <2>4, <3>1 DEF StartRebind, StartCall
  <2>5. ASSUME NEW p \in Threads, Begin(p)
        PROVE  TypeOK'
    BY <2>5 DEF Begin
  <2>6. ASSUME NEW p \in Threads, Commit(p) \/ Fail(p) \/ Crash(p)
        PROVE  TypeOK'
    <3>0. End(p)
      BY <2>6 DEF Commit, Fail, Crash
    <3>1. /\ call' \in [Threads -> {"none", "alias_for", "alias_many", "rebind"}]
          /\ todo' \in [Threads -> Seq(Entry)]
          /\ out' = {} /\ writer' = None
      BY <3>0 DEF End
    <3>2. db' \in {db, work} /\ work' \in {db, work}
      BY <2>6 DEF Commit, Fail, Crash
    <3>3. issued' \subseteq issued \union out /\ leaked' \subseteq leaked \union out
      BY <2>6 DEF Commit, Fail, Crash
    <3> QED
      BY <3>1, <3>2, <3>3
  <2>7. ASSUME NEW p \in Threads, FindRow(p)
        PROVE  TypeOK'
    <3>1. PICK r \in work.rows : out' = out \union {NameOf(r)}
      BY <2>7 DEF FindRow, RowsOf
    <3>2. r \in Row
      BY DEF Store
    <3>3. todo' \in [Threads -> Seq(Entry)]
      BY <2>7 DEF FindRow, Finished, At
    <3> QED
      BY <2>7, <3>1, <3>2, <3>3, NameType DEF FindRow, Finished
  <2>8. ASSUME NEW p \in Threads, Mint(p)
        PROVE  TypeOK'
    <3> DEFINE e == Head(todo[p])
    <3>0. e \in Entry /\ e.op = "alias"
      BY <2>8, HeadEntry DEF Mint, At
    <3>1. e \in AliasEntry
      BY <3>0 DEF Entry, RebindEntry
    <3>2. e.id \in Ids /\ e.kind \in Kinds
      BY <3>1 DEF AliasEntry
    <3>3. work' \in Store /\ NextAlias(work, e.kind) \in Alias
      BY <2>8, <3>2, MintType DEF Mint
    <3>4. out' \subseteq Name
      BY <2>8, <3>2, <3>3, OwnerAssumption DEF Mint, Name
    <3>5. todo' \in [Threads -> Seq(Entry)]
      BY <2>8 DEF Mint, Finished, At
    <3> QED
      BY <2>8, <3>3, <3>4, <3>5 DEF Mint, Finished
  <2>9. ASSUME NEW p \in Threads, Rebind(p)
         PROVE  TypeOK'
    <3> DEFINE e == Head(todo[p])
    <3>0. e \in Entry /\ e.op = "rebind"
      BY <2>9, HeadEntry DEF Rebind, At
    <3>1. e \in RebindEntry
      BY <3>0 DEF Entry, AliasEntry
    <3>2. e.new \in Ids
      BY <3>1 DEF RebindEntry
    <3>3. todo' \in [Threads -> Seq(Entry)]
      BY <2>9 DEF Rebind, Finished, At
    <3>4. CASE RowsOf(work, e.id) = {} /\ UNCHANGED <<work, out>>
      BY <2>9, <3>3, <3>4 DEF Rebind, Finished
    <3>5. ASSUME NEW r \in RowsOf(work, e.id),
                 work' = RebindRow(work, r, e.new), out' = out \union {NameOf(r)}
          PROVE  TypeOK'
      <4>1. r \in work.rows /\ r \in Row
        BY DEF RowsOf, Store
      <4>2. work' \in Store
        BY <3>2, <3>5, <4>1, RebindType
      <4>3. out' \subseteq Name
        BY <3>5, <4>1, NameType
      <4> QED
        BY <2>9, <3>3, <4>2, <4>3 DEF Rebind, Finished
    <3> QED
      BY <2>9, <3>4, <3>5 DEF Rebind
  <2>10. CASE UNCHANGED vars
    BY <2>10 DEF vars
  <2> QED
    BY <2>1, <2>2, <2>3, <2>4, <2>5, <2>6, <2>7, <2>8, <2>9, <2>10 DEF Next
<1> QED
  BY <1>1, <1>2, PTL DEF Spec

-----------------------------------------------------------------------------
(* The naming invariant                                                     *)

(* A step that adds no name and leaves the counters alone keeps it.         *)
LEMMA NoNewName ==
  ASSUME NameInv, AllNames' \subseteq AllNames, KnownNames' \subseteq KnownNames,
         work'.counters = work.counters, db'.counters = db.counters
  PROVE  NameInv'
BY DEF NameInv, Coherent, Numbered

(* The working copy goes back to the committed tables.                      *)
LEMMA FreshCopy ==
  ASSUME NameInv, ConstraintsHold, work' = db, out' = {}, UNCHANGED <<db, issued>>
  PROVE  NameInv' /\ ConstraintsHold'
<1>1. AllNames' = KnownNames /\ KnownNames' = KnownNames
  BY DEF AllNames, KnownNames, StoreNames
<1>2. KnownNames \subseteq AllNames
  BY DEF AllNames
<1> QED
  BY <1>1, <1>2 DEF NameInv, Coherent, Numbered, ConstraintsHold, UniqueRows

(* A lookup without the lock issues a name the store has.                   *)
LEMMA FastReadInv ==
  ASSUME IInv, NEW p \in Threads, NEW id \in Ids, FastRead(p, id)
  PROVE  NameInv' /\ ConstraintsHold'
<1>1. PICK r \in db.rows : issued' = issued \union {NameOf(r)}
  BY DEF FastRead, RowsOf
<1>2. NameOf(r) \in StoreNames(db)
  BY DEF StoreNames
<1>3. UNCHANGED <<db, work, out>>
  BY DEF FastRead
<1>4. StoreNames(db)' = StoreNames(db) /\ StoreNames(work)' = StoreNames(work)
  BY <1>3 DEF StoreNames
<1>5. KnownNames' = KnownNames /\ AllNames' = AllNames
  BY <1>1, <1>2, <1>3, <1>4 DEF KnownNames, AllNames
<1> QED
  BY <1>3, <1>5, NoNewName DEF IInv, ConstraintsHold

(* A commit publishes the working copy and the names made from it.          *)
LEMMA CommitInv ==
  ASSUME IInv, NEW p \in Threads, Commit(p)
  PROVE  NameInv' /\ ConstraintsHold'
<1>1. db' = work /\ work' = work /\ issued' = issued \union out /\ out' = {}
  BY DEF Commit, End
<1>2. StoreNames(db)' = StoreNames(work) /\ StoreNames(work)' = StoreNames(work)
  BY <1>1 DEF StoreNames
<1>3. KnownNames' \subseteq AllNames /\ AllNames' \subseteq AllNames
  BY <1>1, <1>2 DEF KnownNames, AllNames
<1>4. NameInv'
  BY <1>1, <1>3 DEF NameInv, Coherent, Numbered, IInv
<1> QED
  BY <1>1, <1>4 DEF IInv, ConstraintsHold

(* A lookup under the lock returns a name the working copy has.             *)
LEMMA FindRowInv ==
  ASSUME IInv, NEW p \in Threads, FindRow(p)
  PROVE  NameInv' /\ ConstraintsHold'
<1>1. PICK r \in work.rows : out' = out \union {NameOf(r)}
  BY DEF FindRow, RowsOf
<1>2. NameOf(r) \in StoreNames(work)
  BY DEF StoreNames
<1>3. UNCHANGED <<db, work, issued>>
  BY DEF FindRow, Finished
<1>4. StoreNames(db)' = StoreNames(db) /\ StoreNames(work)' = StoreNames(work)
  BY <1>3 DEF StoreNames
<1>5. KnownNames' = KnownNames /\ AllNames' = AllNames
  BY <1>1, <1>2, <1>3, <1>4 DEF KnownNames, AllNames
<1> QED
  BY <1>3, <1>5, NoNewName DEF IInv, ConstraintsHold

(* The minted alias is above its kind's counter, so no name has it yet.     *)
LEMMA MintInv ==
  ASSUME IInv, NEW p \in Threads, Mint(p)
  PROVE  NameInv' /\ ConstraintsHold'
<1> DEFINE e == Head(todo[p])
           a == NextAlias(work, e.kind)
           name == [alias |-> a, item |-> Owner[e.id]]
<1>1. e \in Entry /\ e.op = "alias"
  BY HeadEntry DEF Mint, At, IInv
<1>2. e.id \in Ids /\ e.kind \in Kinds
  BY <1>1 DEF Entry, AliasEntry, RebindEntry
<1>3. /\ RowsOf(work, e.id) = {}
      /\ work' = MintRow(work, e.id, e.kind)
      /\ out' = out \union {name}
      /\ UNCHANGED <<db, issued>>
  BY DEF Mint, Finished
<1>4. work \in Store
  BY DEF IInv, TypeOK
<1>5. work.counters[e.kind] \in Nat
  BY <1>2, <1>4 DEF Store
<1>6. StoreNames(work)' = StoreNames(work) \union {name}
  <2> DEFINE row == [alias |-> a, id |-> e.id]
  <2>1. work'.rows = work.rows \union {row}
    BY <1>3 DEF MintRow
  <2>2. NameOf(row) = name
    BY DEF NameOf
  <2>3. {NameOf(r) : r \in work.rows \union {row}}
          = {NameOf(r) : r \in work.rows} \union {NameOf(row)}
    OBVIOUS
  <2>4. StoreNames(work)' = {NameOf(r) : r \in work'.rows}
    BY DEF StoreNames, NameOf
  <2> HIDE DEF row, name
  <2> QED
    BY <2>1, <2>2, <2>3, <2>4 DEF StoreNames
<1>7. StoreNames(db)' = StoreNames(db) /\ KnownNames' = KnownNames
  BY <1>3 DEF StoreNames, KnownNames
<1>8. AllNames' = AllNames \union {name}
  BY <1>3, <1>6, <1>7 DEF AllNames
<1>9. AllNames \subseteq Name
  <2>1. StoreNames(db) \subseteq Name /\ StoreNames(work) \subseteq Name
    BY NameType DEF IInv, TypeOK, Store, StoreNames
  <2> QED
    BY <2>1 DEF AllNames, KnownNames, IInv, TypeOK
<1>10. work'.counters = [work.counters EXCEPT ![e.kind] = @ + 1]
  BY <1>3 DEF MintRow
<1>11. \A x \in AllNames : x.alias # a
  BY <1>2, <1>4, <1>5, <1>9 DEF IInv, NameInv, Numbered, NextAlias, Name, Alias, Store
<1>12. Coherent(AllNames)'
  BY <1>8, <1>11 DEF Coherent, IInv, NameInv
<1>13. Numbered(AllNames, work)'
  <2> SUFFICES ASSUME NEW x \in AllNames \union {name}
               PROVE  x.alias.n <= work'.counters[x.alias.kind]
    BY <1>8 DEF Numbered
  <2>1. CASE x = name
    BY <2>1, <1>2, <1>4, <1>5, <1>10 DEF NextAlias, Store
  <2>2. CASE x \in AllNames
    <3>1. x.alias.kind \in Kinds /\ x.alias.n \in Nat
      BY <2>2, <1>9 DEF Name, Alias
    <3>2. x.alias.n <= work.counters[x.alias.kind]
      BY <2>2 DEF IInv, NameInv, Numbered
    <3>3. work.counters[x.alias.kind] \in Nat
      BY <3>1, <1>4 DEF Store
    <3>4. work'.counters[x.alias.kind] \in
            {work.counters[x.alias.kind], work.counters[x.alias.kind] + 1}
      BY <3>1, <1>2, <1>4, <1>10 DEF Store
    <3> QED
      BY <3>1, <3>2, <3>3, <3>4
  <2> QED
    BY <2>1, <2>2
<1>14. Numbered(KnownNames, db)'
  BY <1>3, <1>7 DEF Numbered, IInv, NameInv
<1>15. Numbered(StoreNames(work), work)
  BY DEF IInv, NameInv, Numbered, AllNames
<1>16. UniqueRows(work')
  BY <1>2, <1>3, <1>4, <1>15, MintUnique DEF IInv, ConstraintsHold
<1> QED
  BY <1>3, <1>12, <1>13, <1>14, <1>16 DEF NameInv, ConstraintsHold, IInv

(* A rebind replaces names of an item by names of the same item.            *)
LEMMA RebindInv ==
  ASSUME IInv, NEW p \in Threads, Rebind(p)
  PROVE  NameInv' /\ ConstraintsHold'
<1> DEFINE e == Head(todo[p])
<1>1. e \in Entry /\ e.op = "rebind"
  BY HeadEntry DEF Rebind, At, IInv
<1>2. e.new \in Ids /\ Owner[e.id] = Owner[e.new]
  BY <1>1 DEF Entry, AliasEntry, RebindEntry
<1>3. UNCHANGED <<db, issued>>
  BY DEF Rebind, Finished
<1>4. KnownNames' = KnownNames
  BY <1>3 DEF KnownNames, StoreNames
<1>5. CASE UNCHANGED <<work, out>>
  <2>1. AllNames' = AllNames
    BY <1>4, <1>5 DEF AllNames, StoreNames
  <2> QED
    BY <1>3, <1>4, <1>5, <2>1, NoNewName DEF IInv, ConstraintsHold
<1>6. ASSUME NEW r \in RowsOf(work, e.id),
             work' = RebindRow(work, r, e.new), out' = out \union {NameOf(r)}
      PROVE  NameInv' /\ ConstraintsHold'
  <2>1. r \in work.rows /\ r.id = e.id
    BY DEF RowsOf
  <2>2. work \in Store /\ UniqueRows(work)
    BY DEF IInv, TypeOK, ConstraintsHold
  <2>3. UniqueRows(work')
    BY <1>2, <1>6, <2>1, <2>2, RebindUnique
  <2>4. StoreNames(work)' \subseteq StoreNames(work)
    <3>1. StoreNames(RebindRow(work, r, e.new)) \subseteq StoreNames(work)
      BY <1>2, <2>1, <2>2, RebindNames
    <3>2. StoreNames(work)' = StoreNames(work')
      BY DEF StoreNames, NameOf
    <3> QED
      BY <1>6, <3>1, <3>2
  <2>5. NameOf(r) \in StoreNames(work)
    BY <2>1 DEF StoreNames
  <2>6. AllNames' \subseteq AllNames
    BY <1>4, <1>6, <2>4, <2>5 DEF AllNames
  <2>7. work'.counters = work.counters
    BY <1>6 DEF RebindRow
  <2> QED
    BY <1>3, <1>4, <2>3, <2>6, <2>7, NoNewName DEF IInv, ConstraintsHold
<1> QED
  BY <1>5, <1>6 DEF Rebind

(* A step that touches neither the tables nor the names keeps the rest.     *)
LEMMA QuietInv ==
  ASSUME IInv, UNCHANGED <<db, work, out, issued>>
  PROVE  NameInv' /\ ConstraintsHold'
<1>1. KnownNames' = KnownNames /\ AllNames' = AllNames
  BY DEF KnownNames, AllNames, StoreNames
<1> QED
  BY <1>1, NoNewName DEF IInv, ConstraintsHold

(* An empty store has issued no name.                                       *)
LEMMA InitInv == Init => NameInv /\ ConstraintsHold
<1> SUFFICES ASSUME Init
             PROVE  NameInv /\ ConstraintsHold
  OBVIOUS
<1>1. db.rows = {} /\ work.rows = {} /\ out = {} /\ issued = {}
  BY DEF Init
<1>2. AllNames = {} /\ KnownNames = {}
  BY <1>1 DEF AllNames, KnownNames, StoreNames
<1> QED
  BY <1>1, <1>2 DEF NameInv, Coherent, Numbered, ConstraintsHold, UniqueRows

(* Every step keeps names and constraints.                                  *)
LEMMA NextInv ==
  ASSUME IInv, [Next]_vars
  PROVE  NameInv' /\ ConstraintsHold'
<1>1. ASSUME NEW p \in Threads, NEW id \in Ids, FastRead(p, id)
      PROVE  NameInv' /\ ConstraintsHold'
  BY <1>1, FastReadInv
<1>2. ASSUME NEW p \in Threads, NEW id \in Ids, NEW kind \in Kinds,
             StartAliasFor(p, id, kind)
      PROVE  NameInv' /\ ConstraintsHold'
  BY <1>2, QuietInv DEF StartAliasFor, StartCall
<1>3. ASSUME NEW p \in Threads, NEW page \in Pages, StartAliasMany(p, page)
      PROVE  NameInv' /\ ConstraintsHold'
  BY <1>3, QuietInv DEF StartAliasMany, StartCall
<1>4. ASSUME NEW p \in Threads, NEW old \in Ids, NEW new \in Ids,
             StartRebind(p, old, new)
      PROVE  NameInv' /\ ConstraintsHold'
  BY <1>4, QuietInv DEF StartRebind, StartCall
<1>5. ASSUME NEW p \in Threads, Begin(p)
      PROVE  NameInv' /\ ConstraintsHold'
  BY <1>5, FreshCopy DEF Begin, IInv
<1>6. ASSUME NEW p \in Threads, Commit(p)
      PROVE  NameInv' /\ ConstraintsHold'
  BY <1>6, CommitInv
<1>7. ASSUME NEW p \in Threads, Fail(p) \/ Crash(p)
      PROVE  NameInv' /\ ConstraintsHold'
  BY <1>7, FreshCopy DEF Fail, Crash, End, IInv
<1>8. ASSUME NEW p \in Threads, FindRow(p)
      PROVE  NameInv' /\ ConstraintsHold'
  BY <1>8, FindRowInv
<1>9. ASSUME NEW p \in Threads, Mint(p)
      PROVE  NameInv' /\ ConstraintsHold'
  BY <1>9, MintInv
<1>10. ASSUME NEW p \in Threads, Rebind(p)
       PROVE  NameInv' /\ ConstraintsHold'
  BY <1>10, RebindInv
<1>11. CASE UNCHANGED vars
  BY <1>11, QuietInv DEF vars
<1> QED
  BY <1>1, <1>2, <1>3, <1>4, <1>5, <1>6, <1>7, <1>8, <1>9, <1>10, <1>11 DEF Next

(* The invariant behind Constraints and Naming.                             *)
LEMMA NamesInvariant == Spec => [](NameInv /\ ConstraintsHold)
<1>1. Init => NameInv /\ ConstraintsHold
  BY InitInv
<1>2. TypeOK /\ (NameInv /\ ConstraintsHold) /\ [Next]_vars
        => (NameInv /\ ConstraintsHold)'
  BY NextInv DEF IInv
<1> QED
  BY <1>1, <1>2, TypeCorrect, PTL DEF Spec

(* The table's constraints never refuse a write of the code.                *)
THEOREM Constraints == Spec => []ConstraintsHold
BY NamesInvariant, PTL

(* An alias a caller was given resolves to the item it was given for or to  *)
(* nothing, for any threads, ids and moves.                                 *)
THEOREM Naming == Spec => []AliasNamesOneItem
<1>1. NameInv => AliasNamesOneItem
  <2> SUFFICES ASSUME NameInv
               PROVE  AliasNamesOneItem
    OBVIOUS
  <2>1. issued \subseteq AllNames
    BY DEF AllNames, KnownNames
  <2>2. \A r \in db.rows : NameOf(r) \in AllNames
    BY DEF AllNames, KnownNames, StoreNames
  <2> QED
    BY <2>1, <2>2 DEF AliasNamesOneItem, Sound, NameInv, Coherent, NameOf
<1> QED
  BY <1>1, NamesInvariant, PTL

-----------------------------------------------------------------------------
(* Handles survive                                                          *)

(* Every item with a committed handle has one in the working copy, so a     *)
(* commit cannot orphan it.                                                 *)
Kept(s, t) == \A r \in s.rows : \E q \in t.rows : Owner[q.id] = Owner[r.id]

(* A rebind within an item leaves the item a row.                           *)
LEMMA RebindKeeps ==
  ASSUME NEW s, NEW t, NEW r \in t.rows, NEW new \in Ids,
         Owner[r.id] = Owner[new], Kept(s, t)
  PROVE  Kept(s, RebindRow(t, r, new))
<1> SUFFICES ASSUME NEW x \in s.rows
             PROVE  \E q \in RebindRow(t, r, new).rows : Owner[q.id] = Owner[x.id]
  BY DEF Kept
<1> DEFINE moved == [alias |-> r.alias, id |-> new]
<1>1. PICK q \in t.rows : Owner[q.id] = Owner[x.id]
  BY DEF Kept
<1>2. RebindRow(t, r, new).rows = {y \in t.rows : y.id # new /\ y # r} \union {moved}
  BY DEF RebindRow
<1>3. CASE q.id = new \/ q = r
  <2>1. Owner[moved.id] = Owner[x.id]
    BY <1>1, <1>3
  <2>2. moved \in RebindRow(t, r, new).rows
    BY <1>2
  <2> QED
    BY <2>1, <2>2
<1>4. CASE q.id # new /\ q # r
  BY <1>1, <1>2, <1>4
<1> QED
  BY <1>3, <1>4

(* No step loses the last row of an item, nor does any commit.              *)
LEMMA NextKeeps ==
  ASSUME TypeOK, Kept(db, work), [Next]_vars
  PROVE  Kept(db, work)' /\ Kept(db, db')
<1>1. Kept(db, db)
  BY DEF Kept
<1>2. ASSUME UNCHANGED <<db, work>>
      PROVE  Kept(db, work)' /\ Kept(db, db')
  BY <1>1, <1>2
<1>3. ASSUME NEW p \in Threads, Begin(p) \/ Fail(p) \/ Crash(p)
      PROVE  Kept(db, work)' /\ Kept(db, db')
  BY <1>1, <1>3 DEF Begin, Fail, Crash
<1>4. ASSUME NEW p \in Threads, Commit(p)
      PROVE  Kept(db, work)' /\ Kept(db, db')
  <2>1. db' = work /\ work' = work
    BY <1>4 DEF Commit
  <2>2. Kept(work, work)
    BY DEF Kept
  <2> QED
    BY <2>1, <2>2
<1>5. ASSUME NEW p \in Threads, Mint(p)
      PROVE  Kept(db, work)' /\ Kept(db, db')
  <2>1. work.rows \subseteq work'.rows /\ db' = db
    BY <1>5 DEF Mint, MintRow, Finished
  <2>2. Kept(db, work')
    BY <2>1 DEF Kept
  <2> QED
    BY <1>1, <2>1, <2>2
<1>6. ASSUME NEW p \in Threads, Rebind(p)
      PROVE  Kept(db, work)' /\ Kept(db, db')
  <2> DEFINE e == Head(todo[p])
  <2>1. e \in Entry /\ e.op = "rebind"
    BY <1>6, HeadEntry DEF Rebind, At
  <2>2. e.new \in Ids /\ Owner[e.id] = Owner[e.new]
    BY <2>1 DEF Entry, AliasEntry, RebindEntry
  <2>3. CASE UNCHANGED work
    BY <1>2, <1>6, <2>3 DEF Rebind, Finished
  <2>4. ASSUME NEW r \in RowsOf(work, e.id), work' = RebindRow(work, r, e.new)
        PROVE  Kept(db, work)' /\ Kept(db, db')
    <3>1. r \in work.rows /\ r.id = e.id
      BY DEF RowsOf
    <3>2. Kept(db, RebindRow(work, r, e.new))
      BY <2>2, <3>1, RebindKeeps
    <3>3. db' = db
      BY <1>6 DEF Rebind, Finished
    <3> QED
      BY <1>1, <2>4, <3>2, <3>3
  <2> QED
    BY <1>6, <2>3, <2>4 DEF Rebind
<1> QED
  BY <1>2, <1>3, <1>4, <1>5, <1>6
  DEF Next, vars, FastRead, StartAliasFor, StartAliasMany, StartRebind, StartCall,
      FindRow, Finished

(* A commit never leaves an item that had a handle without one.             *)
THEOREM Survival == Spec => HandlesSurvive
<1>1. Init => Kept(db, work)
  BY DEF Init, Kept
<1>2. TypeOK /\ Kept(db, work) /\ [Next]_vars
        => Kept(db, work)' /\ [Kept(db, db')]_vars
  BY NextKeeps
<1>3. HandlesSurvive <=> [][Kept(db, db')]_vars
  BY PTL DEF HandlesSurvive, Kept
<1> QED
  BY <1>1, <1>2, <1>3, TypeCorrect, PTL DEF Spec

-----------------------------------------------------------------------------
(* The registry of names                                                    *)

(* What a transaction has done so far could be done at once: its new names  *)
(* have numbers the committed counters have not reached, and it will give   *)
(* away names it leaves behind; one that moves an item does only that.      *)
Fresh ==
  \A x \in StoreNames(work) :
    x \in StoreNames(db) \/ db.counters[x.alias.kind] < x.alias.n
Onwards == \A k \in Kinds : db.counters[k] <= work.counters[k]
OneMove ==
  \A p \in Threads :
    \/ todo[p] \in Seq(AliasEntry)
    \/ Tail(todo[p]) = << >> /\ (writer = p => out = {})
TxInv ==
  /\ Fresh /\ Onwards /\ out \subseteq StoreNames(work)
  /\ writer \in Threads => call[writer] # "none"
  /\ OneMove

(* The numbers of a store are those its counters have reached.              *)
LEMMA InNumbers ==
  ASSUME NEW s \in Store, NEW a \in Alias
  PROVE  a \in Numbers(s) <=> a.n <= s.counters[a.kind]
<1>1. a.kind \in Kinds /\ a.n \in Nat \ {0} /\ a = [kind |-> a.kind, n |-> a.n]
  BY DEF Alias
<1>2. s.counters[a.kind] \in Nat
  BY <1>1 DEF Store
<1>3. ASSUME a.n <= s.counters[a.kind]
      PROVE  a \in Numbers(s)
  <2>1. a \in [kind : {a.kind}, n : 1..s.counters[a.kind]]
    BY <1>1, <1>2, <1>3
  <2> QED
    BY <1>1, <2>1 DEF Numbers
<1>4. ASSUME a \in Numbers(s)
      PROVE  a.n <= s.counters[a.kind]
  <2>1. PICK k \in Kinds : a \in [kind : {k}, n : 1..s.counters[k]]
    BY <1>4 DEF Numbers
  <2>2. a.kind = k /\ a.n \in 1..s.counters[k]
    BY <2>1
  <2> QED
    BY <2>2, <1>2
<1> QED
  BY <1>3, <1>4

(* What is left of a page when its first entry is done is one again.        *)
LEMMA TailSeq ==
  ASSUME NEW S, NEW s \in Seq(S), s # << >>
  PROVE  Head(s) \in S /\ Tail(s) \in Seq(S)
OBVIOUS

(* A thread that has done an entry has a page of aliases left, or nothing.  *)
LEMMA EntryDone ==
  ASSUME TypeOK, OneMove, NEW p \in Threads, writer = p, todo[p] # << >>,
         todo' = [todo EXCEPT ![p] = Tail(@)], writer' = writer
  PROVE  OneMove'
<1>1. todo \in [Threads -> Seq(Entry)]
  BY DEF TypeOK
<1>2. todo'[p] = Tail(todo[p])
  BY <1>1
<1>3. todo'[p] \in Seq(AliasEntry)
  <2>1. CASE todo[p] \in Seq(AliasEntry)
    <3>1. Tail(todo[p]) \in Seq(AliasEntry)
      BY <2>1, TailSeq
    <3> QED
      BY <1>2, <3>1
  <2>2. CASE Tail(todo[p]) = << >>
    <3>1. << >> \in Seq(AliasEntry)
      OBVIOUS
    <3> QED
      BY <1>2, <2>2, <3>1
  <2> QED
    BY <2>1, <2>2 DEF OneMove
<1>4. ASSUME NEW q \in Threads, q # p
      PROVE  /\ todo'[q] = todo[q]
             /\ ~(writer' = q)
  BY <1>1, <1>4
<1> QED
  BY <1>3, <1>4 DEF OneMove

(* A working copy that is the committed one                                 *)
LEMMA TxFresh ==
  ASSUME TypeOK', work' = db', out' = {}
  PROVE  Fresh' /\ Onwards' /\ (out \subseteq StoreNames(work))'
<1>1. Fresh' /\ (out \subseteq StoreNames(work))'
  BY DEF Fresh
<1>2. \A k \in Kinds : db'.counters[k] \in Nat
  BY DEF TypeOK, Store
<1> QED
  BY <1>1, <1>2 DEF Onwards

(* Each step keeps the transaction publishable.                             *)
LEMMA MintTx ==
  ASSUME IInv, TxInv, NEW p \in Threads, Mint(p)
  PROVE  TxInv'
<1> DEFINE e == Head(todo[p])
           name == [alias |-> NextAlias(work, e.kind), item |-> Owner[e.id]]
           row == [alias |-> NextAlias(work, e.kind), id |-> e.id]
<1>1. e \in Entry /\ e.op = "alias"
  BY HeadEntry DEF Mint, At, IInv
<1>2. e.id \in Ids /\ e.kind \in Kinds
  BY <1>1 DEF Entry, AliasEntry, RebindEntry
<1>3. /\ work' = MintRow(work, e.id, e.kind) /\ out' = out \union {name}
      /\ db' = db /\ writer = p /\ writer' = writer /\ call' = call
      /\ todo[p] # << >> /\ todo' = [todo EXCEPT ![p] = Tail(@)]
  BY DEF Mint, Finished, At
<1>4. StoreNames(work)' = StoreNames(work) \union {name}
  <2>1. work'.rows = work.rows \union {row}
    BY <1>3 DEF MintRow
  <2>2. NameOf(row) = name
    BY DEF NameOf
  <2>3. {NameOf(r) : r \in work.rows \union {row}}
          = {NameOf(r) : r \in work.rows} \union {NameOf(row)}
    OBVIOUS
  <2>4. StoreNames(work)' = {NameOf(r) : r \in work'.rows}
    BY DEF StoreNames, NameOf
  <2> HIDE DEF row, name
  <2> QED
    BY <2>1, <2>2, <2>3, <2>4 DEF StoreNames
<1>5. /\ db.counters \in [Kinds -> Nat] /\ work.counters \in [Kinds -> Nat]
      /\ work'.counters = [work.counters EXCEPT ![e.kind] = @ + 1]
  BY <1>3 DEF IInv, TypeOK, Store, MintRow
<1>6. \A k \in Kinds : db.counters[k] <= work.counters[k]
  BY DEF TxInv, Onwards
<1>7. Onwards'
  BY <1>2, <1>3, <1>5, <1>6 DEF Onwards
<1>8. Fresh'
  <2>1. name.alias.kind = e.kind /\ name.alias.n = work.counters[e.kind] + 1
    BY DEF NextAlias
  <2>2. db.counters[name.alias.kind] < name.alias.n
    BY <1>2, <1>5, <1>6, <2>1
  <2>3. StoreNames(db)' = StoreNames(db)
    BY <1>3 DEF StoreNames
  <2> HIDE DEF name
  <2> QED
    BY <1>3, <1>4, <2>2, <2>3 DEF TxInv, Fresh
<1>9. (out \subseteq StoreNames(work))'
  BY <1>3, <1>4 DEF TxInv
<1>10. OneMove'
  BY <1>3, EntryDone DEF TxInv, IInv
<1> QED
  BY <1>3, <1>7, <1>8, <1>9, <1>10 DEF TxInv

(* A rebind moves a row whose item keeps its name, so it names nothing new. *)
LEMMA RebindTx ==
  ASSUME IInv, TxInv, NEW p \in Threads, Rebind(p)
  PROVE  TxInv'
<1> DEFINE e == Head(todo[p])
<1>1. e \in Entry /\ e.op = "rebind"
  BY HeadEntry DEF Rebind, At, IInv
<1>2. e.new \in Ids /\ Owner[e.id] = Owner[e.new]
  BY <1>1 DEF Entry, AliasEntry, RebindEntry
<1>3. /\ db' = db /\ writer = p /\ writer' = writer /\ call' = call
      /\ todo[p] # << >> /\ todo' = [todo EXCEPT ![p] = Tail(@)]
  BY DEF Rebind, Finished, At
<1>4. OneMove'
  BY <1>3, EntryDone DEF TxInv, IInv
<1>5. CASE UNCHANGED <<work, out>>
  BY <1>3, <1>4, <1>5 DEF TxInv, Fresh, Onwards, StoreNames
<1>6. ASSUME NEW r \in RowsOf(work, e.id),
             work' = RebindRow(work, r, e.new), out' = out \union {NameOf(r)}
      PROVE  TxInv'
  <2>1. r \in work.rows /\ r.id = e.id /\ work \in Store
    BY DEF RowsOf, IInv, TypeOK
  <2>2. StoreNames(work') \subseteq StoreNames(work)
    BY <1>2, <1>6, <2>1, RebindNames
  <2>3. work'.counters = work.counters
    BY <1>6 DEF RebindRow
  <2>4. out = {}
    <3>1. todo[p] \notin Seq(AliasEntry)
      <4>1. ASSUME todo[p] \in Seq(AliasEntry)
            PROVE  e \in AliasEntry
        BY <1>3, <4>1, TailSeq
      <4> QED
        BY <1>1, <4>1 DEF AliasEntry
    <3> QED
      BY <1>3, <3>1 DEF TxInv, OneMove
  <2>5. NameOf(r) \in StoreNames(work')
    <3> DEFINE moved == [alias |-> r.alias, id |-> e.new]
    <3>1. moved \in work'.rows
      BY <1>6 DEF RebindRow
    <3>2. NameOf(moved) = NameOf(r)
      BY <1>2, <2>1 DEF NameOf
    <3> HIDE DEF moved
    <3> QED
      BY <3>1, <3>2 DEF StoreNames
  <2>6. Fresh' /\ Onwards'
    BY <1>3, <2>2, <2>3 DEF TxInv, Fresh, Onwards
  <2>7. out' \subseteq StoreNames(work')
    BY <1>6, <2>4, <2>5
  <2> QED
    BY <1>3, <1>4, <2>6, <2>7 DEF TxInv
<1> QED
  BY <1>5, <1>6 DEF Rebind

(* A call that starts touches no transaction: its thread was not writing.   *)
LEMMA StartTx ==
  ASSUME IInv, TxInv, NEW p \in Threads, NEW name, name # "none", NEW entries,
         StartCall(p, name, entries),
         entries \in Seq(AliasEntry) \/ Tail(entries) = << >>
  PROVE  TxInv'
<1>1. /\ UNCHANGED <<db, work, writer, out>>
      /\ call[p] = "none" /\ call' = [call EXCEPT ![p] = name]
      /\ todo' = [todo EXCEPT ![p] = entries]
  BY DEF StartCall
<1>2. writer # p
  BY <1>1 DEF TxInv
<1>3. call \in [Threads -> {"none", "alias_for", "alias_many", "rebind"}]
      /\ todo \in [Threads -> Seq(Entry)]
  BY DEF IInv, TypeOK
<1>4. writer' \in Threads => call'[writer'] # "none"
  BY <1>1, <1>2, <1>3 DEF TxInv
<1>5. OneMove'
  <2>1. ASSUME NEW q \in Threads, q # p
        PROVE  todo'[q] = todo[q]
    BY <1>1, <1>3, <2>1
  <2>2. todo'[p] = entries /\ writer' # p
    BY <1>1, <1>2, <1>3
  <2> QED
    BY <1>1, <2>1, <2>2 DEF TxInv, OneMove
<1> QED
  BY <1>1, <1>4, <1>5 DEF TxInv, Fresh, Onwards, StoreNames

(* Where a transaction ends, the next one starts from the committed table.  *)
LEMMA EndTx ==
  ASSUME IInv, TxInv, TypeOK', NEW p \in Threads, End(p), work' = db'
  PROVE  TxInv'
<1>1. /\ writer' = None /\ out' = {} /\ todo' = [todo EXCEPT ![p] = << >>]
      /\ todo \in [Threads -> Seq(Entry)]
  BY DEF End, IInv, TypeOK
<1>2. OneMove'
  <2>1. << >> \in Seq(AliasEntry)
    OBVIOUS
  <2>2. ASSUME NEW q \in Threads, q # p
        PROVE  todo'[q] = todo[q]
    BY <1>1, <2>2
  <2>3. todo'[p] = << >>
    BY <1>1
  <2> QED
    BY <1>1, <2>1, <2>2, <2>3, NoneAssumption DEF TxInv, OneMove
<1> QED
  BY <1>1, <1>2, TxFresh, NoneAssumption DEF TxInv

(* BEGIN IMMEDIATE reads the committed table.                               *)
LEMMA BeginTx ==
  ASSUME IInv, TxInv, TypeOK', NEW p \in Threads, Begin(p)
  PROVE  TxInv'
<1>1. /\ work' = db' /\ out' = {} /\ writer' = p
      /\ call' = call /\ todo' = todo /\ call[p] # "none"
  BY DEF Begin
<1>2. OneMove'
  BY <1>1 DEF TxInv, OneMove
<1> QED
  BY <1>1, <1>2, TxFresh DEF TxInv

(* Every step keeps what a transaction has done publishable.                *)
LEMMA NextTx ==
  ASSUME IInv, TypeOK', TxInv, [Next]_vars
  PROVE  TxInv'
<1>1. ASSUME NEW p \in Threads, NEW id \in Ids, FastRead(p, id)
      PROVE  TxInv'
  BY <1>1 DEF FastRead, TxInv, Fresh, Onwards, OneMove, StoreNames
<1>2. ASSUME NEW p \in Threads, NEW id \in Ids, NEW kind \in Kinds,
             StartAliasFor(p, id, kind)
      PROVE  TxInv'
  <2>1. <<[op |-> "alias", id |-> id, kind |-> kind]>> \in Seq(AliasEntry)
    BY DEF AliasEntry
  <2> QED
    BY <1>2, <2>1, StartTx DEF StartAliasFor
<1>3. ASSUME NEW p \in Threads, NEW page \in Pages, StartAliasMany(p, page)
      PROVE  TxInv'
  BY <1>3, PagesAssumption, StartTx DEF StartAliasMany
<1>4. ASSUME NEW p \in Threads, NEW old \in Ids, NEW new \in Ids,
             StartRebind(p, old, new)
      PROVE  TxInv'
  <2>1. Tail(<<[op |-> "rebind", id |-> old, new |-> new]>>) = << >>
    OBVIOUS
  <2> QED
    BY <1>4, <2>1, StartTx DEF StartRebind
<1>5. ASSUME NEW p \in Threads, Begin(p)
      PROVE  TxInv'
  BY <1>5, BeginTx
<1>6. ASSUME NEW p \in Threads, Commit(p) \/ Fail(p) \/ Crash(p)
      PROVE  TxInv'
  BY <1>6, EndTx DEF Commit, Fail, Crash
<1>7. ASSUME NEW p \in Threads, FindRow(p)
      PROVE  TxInv'
  <2>1. PICK r \in work.rows : out' = out \union {NameOf(r)}
    BY <1>7 DEF FindRow, RowsOf
  <2>2. NameOf(r) \in StoreNames(work)
    BY DEF StoreNames
  <2>3. /\ UNCHANGED <<db, work, writer, call>> /\ writer = p
        /\ todo[p] # << >> /\ todo' = [todo EXCEPT ![p] = Tail(@)]
    BY <1>7 DEF FindRow, Finished, At
  <2>4. OneMove'
    BY <2>3, EntryDone DEF TxInv, IInv
  <2> QED
    BY <2>1, <2>2, <2>3, <2>4 DEF TxInv, Fresh, Onwards, StoreNames
<1>8. ASSUME NEW p \in Threads, Mint(p)
      PROVE  TxInv'
  BY <1>8, MintTx
<1>9. ASSUME NEW p \in Threads, Rebind(p)
      PROVE  TxInv'
  BY <1>9, RebindTx
<1>10. CASE UNCHANGED vars
  BY <1>10 DEF vars, TxInv, Fresh, Onwards, OneMove, StoreNames
<1> QED
  BY <1>1, <1>2, <1>3, <1>4, <1>5, <1>6, <1>7, <1>8, <1>9, <1>10 DEF Next

(* A commit is one update of the registry.                                  *)
LEMMA CommitUpdates ==
  ASSUME IInv, TxInv, Kept(db, work), NEW p \in Threads, Commit(p)
  PROVE  Registry!Update
<1>1. db' = work /\ issued' = issued \union out
  BY DEF Commit
<1>2. db \in Store /\ work \in Store
  BY DEF IInv, TypeOK
<1>3. StoreNames(db) \subseteq Name /\ StoreNames(work) \subseteq Name
  BY <1>2, NameType DEF Store, StoreNames
<1>4. \A x, y \in StoreNames(work) : x.alias = y.alias => x = y
  <2> SUFFICES ASSUME NEW x \in StoreNames(work), NEW y \in StoreNames(work),
                      x.alias = y.alias
               PROVE  x = y
    OBVIOUS
  <2>1. x.item = y.item
    BY DEF IInv, NameInv, Coherent, AllNames
  <2> QED
    BY <1>3, <2>1 DEF Name
<1>5. \A x \in StoreNames(work) : x \in StoreNames(db) \/ x.alias \notin Numbers(db)
  <2> SUFFICES ASSUME NEW x \in StoreNames(work), x \notin StoreNames(db)
               PROVE  x.alias \notin Numbers(db)
    OBVIOUS
  <2>1. x.alias \in Alias /\ db.counters[x.alias.kind] < x.alias.n
    BY <1>3 DEF TxInv, Fresh, Name
  <2>2. db.counters[x.alias.kind] \in Nat /\ x.alias.n \in Nat
    BY <1>2, <2>1 DEF Store, Alias
  <2> QED
    BY <1>2, <2>1, <2>2, InNumbers
<1>6. \A x \in StoreNames(db) : \E y \in StoreNames(work) : y.item = x.item
  <2> SUFFICES ASSUME NEW x \in StoreNames(db)
               PROVE  \E y \in StoreNames(work) : y.item = x.item
    OBVIOUS
  <2>1. PICK r \in db.rows : x = NameOf(r)
    BY DEF StoreNames
  <2>2. PICK q \in work.rows : Owner[q.id] = Owner[r.id]
    BY DEF Kept
  <2>3. NameOf(q) \in StoreNames(work) /\ NameOf(q).item = x.item
    BY <2>1, <2>2 DEF StoreNames, NameOf
  <2> QED
    BY <2>3
<1>7. Numbers(db) \subseteq Numbers(work)
  <2> SUFFICES ASSUME NEW a \in Numbers(db)
               PROVE  a \in Numbers(work)
    OBVIOUS
  <2>1. PICK k \in Kinds : a \in [kind : {k}, n : 1..db.counters[k]]
    BY DEF Numbers
  <2>2. db.counters[k] \in Nat /\ work.counters[k] \in Nat /\ db.counters[k] <= work.counters[k]
    BY <1>2 DEF TxInv, Onwards, Store
  <2>3. a \in [kind : {k}, n : 1..work.counters[k]]
    BY <2>1, <2>2
  <2> QED
    BY <2>3 DEF Numbers
<1>8. ASSUME NEW x \in StoreNames(work)
      PROVE  x.alias \in Numbers(work)
  <2>1. x.alias \in Alias /\ x.alias.n <= work.counters[x.alias.kind]
    BY <1>3 DEF IInv, NameInv, Numbered, AllNames, Name
  <2> QED
    BY <1>2, <2>1, InNumbers
<1>9. Registry!AliasesOf(StoreNames(work)) \subseteq Numbers(work)
  BY <1>8 DEF Registry!AliasesOf
<1>10. StoreNames(db)' = StoreNames(work) /\ Numbers(db)' = Numbers(work)
  BY <1>1 DEF StoreNames, Numbers
<1>11. out \in SUBSET StoreNames(work)
  BY DEF TxInv
<1> QED
  BY <1>1, <1>4, <1>5, <1>6, <1>7, <1>9, <1>10, <1>11 DEF Registry!Update, Registry!AliasesOf

(* Every step is one of the registry, or none.                              *)
LEMMA NextImplements ==
  ASSUME IInv, TxInv, Kept(db, work), [Next]_vars
  PROVE  [Registry!Next]_(Registry!rvars)
<1>1. ASSUME UNCHANGED <<db, issued>>
      PROVE  UNCHANGED Registry!rvars
  BY <1>1 DEF Registry!rvars, StoreNames, Numbers
<1>2. ASSUME NEW p \in Threads, NEW id \in Ids, FastRead(p, id)
      PROVE  Registry!Answer
  <2>1. PICK r \in db.rows : issued' = issued \union {NameOf(r)}
    BY <1>2 DEF FastRead, RowsOf
  <2>2. NameOf(r) \in StoreNames(db)
    BY DEF StoreNames
  <2>3. StoreNames(db)' = StoreNames(db) /\ Numbers(db)' = Numbers(db)
    BY <1>2 DEF FastRead, StoreNames, Numbers
  <2> QED
    BY <2>1, <2>2, <2>3 DEF Registry!Answer
<1>3. ASSUME NEW p \in Threads, Commit(p)
      PROVE  Registry!Update
  BY <1>3, CommitUpdates
<1> QED
  BY <1>1, <1>2, <1>3
  DEF Next, vars, Registry!Next, StartAliasFor, StartAliasMany, StartRebind, StartCall,
      Begin, Fail, Crash, FindRow, Mint, Rebind, Finished

(* The alias table looks to its callers like one set of names that changes  *)
(* at once: a lookup gives a name of the moment, and a commit leaves every  *)
(* item a name, gives no alias to two items and reuses no number, for any   *)
(* threads, kinds, ids and pages (ids.py:159-380).                          *)
THEOREM Implements == Spec => ImplementsRegistry
<1>1. Init => TxInv /\ Kept(db, work) /\ Registry!Init
  <2> SUFFICES ASSUME Init
               PROVE  TxInv /\ Kept(db, work) /\ Registry!Init
    OBVIOUS
  <2>1. /\ db = [rows |-> {}, counters |-> [k \in Kinds |-> 0]] /\ work = db
        /\ writer = None /\ out = {} /\ issued = {}
        /\ todo = [p \in Threads |-> << >>]
    BY DEF Init
  <2>2. StoreNames(db) = {} /\ StoreNames(work) = {}
    BY <2>1 DEF StoreNames
  <2>3. Numbers(db) = {}
    <3>1. ASSUME NEW k \in Kinds
          PROVE  [kind : {k}, n : 1..db.counters[k]] = {}
      <4>1. db.counters[k] = 0
        BY <2>1
      <4>2. 1..0 = {}
        OBVIOUS
      <4> QED
        BY <4>1, <4>2
    <3> QED
      BY <3>1 DEF Numbers
  <2>4. << >> \in Seq(AliasEntry)
    OBVIOUS
  <2>5. Onwards
    BY <2>1 DEF Onwards
  <2> QED
    BY <2>1, <2>2, <2>3, <2>4, <2>5, NoneAssumption
    DEF TxInv, Fresh, OneMove, Kept, Registry!Init
<1>2. TypeOK /\ TypeOK' /\ NameInv /\ ConstraintsHold /\ TxInv /\ Kept(db, work) /\ [Next]_vars
        => /\ (TxInv /\ Kept(db, work))'
           /\ [Registry!Next]_(Registry!rvars)
  BY NextTx, NextKeeps, NextImplements DEF IInv
<1> QED
  BY <1>1, <1>2, TypeCorrect, NamesInvariant, PTL DEF Spec, ImplementsRegistry, Registry!Spec
=============================================================================
