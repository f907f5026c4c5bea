-------------------------- MODULE Approvals_proofs --------------------------
(***************************************************************************)
(* What the approval queue guarantees for any number of approvals, workers *)
(* and server processes, any cap, any sizes and any number of crashes.     *)
(*                                                                         *)
(* The invariant follows one approval: it is in exactly one place (the     *)
(* conjunct Placed), the place tells the status of its row (RowsAgree) and *)
(* whether a person approved it (Answered).  A step touches one approval;  *)
(* the cap may push out the row of others, which are then in the place     *)
(* "pruned" and in no other, as one whose expired row is deleted is in     *)
(* "expired".                                                              *)
(***************************************************************************)
EXTENDS Approvals, TLAPS

InOnePlace(i) == \E p \in Places : At(p, i) /\ \A q \in Places \ {p} : ~At(q, i)

Placed(i) ==
  /\ i \in submitted => InOnePlace(i)
  /\ i \notin submitted => \A p \in Places : ~At(p, i)
  /\ \A w, v \in Workers : Holds(w, i) /\ Holds(v, i) => w = v
  /\ ran[i] <= 1

RowsAgree(i) ==
  /\ kv[Slot(i)] # NoRow =>
       kv[Slot(i)].val \in Approval /\ kv[Slot(i)].val.status = "pending"
  /\ kv[Decided(i)] # NoRow =>
       kv[Decided(i)].val \in Approval /\ kv[Decided(i)].val.status = "approved"
  /\ \A w \in Workers : Holds(w, i) => job[w].val.status = "approved"

Answered(i) ==
  /\ i \in approved =>
       /\ i \in submitted \ (rejected \union failed) /\ kv[Slot(i)] = NoRow
       /\ \A w \in Workers : Holds(w, i) => job[w].pc = "executing"
  /\ i \notin approved =>
       /\ kv[Decided(i)] = NoRow /\ ran[i] = 0
       /\ \A w \in Workers : Holds(w, i) => job[w].pc = "approving"

Sound(i) == Placed(i) /\ RowsAgree(i) /\ Answered(i)

IInv == TypeOK /\ \A i \in Ids : Sound(i)

-----------------------------------------------------------------------------
(* The store *)

(* The keys of the instance are those of the four kinds, and a key is of    *)
(* one kind and of one approval.                                            *)
LEMMA KeyFacts ==
  /\ \A i \in Ids : Slot(i) \in Key /\ Decided(i) \in Key /\ Slot(i) # Decided(i)
  /\ \A i, j \in Ids : /\ i # j => Slot(i) # Slot(j) /\ Decided(i) # Decided(j)
                       /\ Slot(i) # Decided(j)
  /\ \A c \in Commitments : Ledger(c) \in Key
  /\ \A n \in Names : Pref(n) \in Key
  /\ \A i \in Ids : Slot(i).ns = "approval" /\ Decided(i).ns = "approval"
  /\ \A c \in Commitments : Ledger(c).ns = "commitment"
  /\ \A n \in Names : Pref(n).ns = "prefs"
  /\ \A k \in Key : k.ns = "approval" => \E i \in Ids : k = Slot(i) \/ k = Decided(i)
  /\ \A i \in Ids : Slot(i).id = i /\ Decided(i).id = i
<1>1. /\ \A i \in Ids : Slot(i) \in Key /\ Decided(i) \in Key
      /\ \A c \in Commitments : Ledger(c) \in Key
      /\ \A n \in Names : Pref(n) \in Key
  BY KeyAssumption DEF AllKeys
<1>2. /\ \A i \in Ids : Slot(i).ns = "approval" /\ Decided(i).ns = "approval"
      /\ \A c \in Commitments : Ledger(c).ns = "commitment"
      /\ \A n \in Names : Pref(n).ns = "prefs"
      /\ \A i \in Ids : Slot(i).id = i /\ Decided(i).id = i
      /\ \A i \in Ids : Slot(i).part = "slot" /\ Decided(i).part = "decided"
  BY DEF Slot, Decided, Ledger, Pref
<1>3. \A k \in Key : k.ns = "approval" => \E i \in Ids : k = Slot(i) \/ k = Decided(i)
  BY <1>2, KeyAssumption DEF AllKeys
<1> QED BY <1>1, <1>2, <1>3

(* A table that Set leaves has the row written, and every other row as it   *)
(* was or pushed out; other namespaces are as they were.                    *)
LEMMA SetShape ==
  ASSUME TypeOK, NEW k \in Key, NEW val \in Approval \union Commitment \union {Scratch},
         NEW size \in Size, NEW ttl \in Nat \union {NoTtl},
         NEW t \in Set(k, val, size, ttl)
  PROVE  /\ t \in [Key -> Row \union {NoRow}]
         /\ t[k] # NoRow /\ t[k].val = val /\ t[k].size = size
         /\ \A x \in Key \ {k} : t[x] = kv[x] \/ t[x] = NoRow
         /\ \A x \in Key : x.ns # k.ns => t[x] = kv[x]
<1> DEFINE row == [val |-> val, size |-> size, upd |-> now,
                   exp |-> IF ttl = NoTtl THEN Never ELSE now + ttl]
           full == [kv EXCEPT ![k] = row]
<1>1. kv \in [Key -> Row \union {NoRow}] /\ now \in Nat
  BY DEF TypeOK
<1>2. row \in Row
  BY <1>1 DEF Row, RowOf, Instant
<1>3. row # NoRow
  BY <1>2, NullAssumption
<1>4. row.val = val /\ row.size = size
  OBVIOUS
<1>5. PICK E \in PruneNamespaceIfNeeded(full, k) : t = Without(full, E)
  BY DEF Set
<1> HIDE DEF row
<1>6. full \in [Key -> Row \union {NoRow}] /\ full[k] = row
      /\ \A x \in Key \ {k} : full[x] = kv[x]
  BY <1>1, <1>2
<1> HIDE DEF full
<1>7. E \subseteq RowsOf(full, k.ns) \ {k}
  BY <1>5 DEF PruneNamespaceIfNeeded
<1>8. k \notin E /\ \A x \in Key : x.ns # k.ns => x \notin E
  BY <1>7 DEF RowsOf
<1>9. t = [x \in Key |-> IF x \in E THEN NoRow ELSE full[x]]
  BY <1>5 DEF Without
<1> QED BY <1>3, <1>4, <1>6, <1>8, <1>9

(* Deleting or consuming a row leaves the others.                           *)
LEMMA WithoutShape ==
  ASSUME TypeOK, NEW k \in Key, NEW t, t = Without(kv, {k})
  PROVE  /\ t \in [Key -> Row \union {NoRow}]
         /\ t[k] = NoRow
         /\ \A x \in Key \ {k} : t[x] = kv[x]
BY DEF TypeOK, Without

(* A row that is there is a row.                                            *)
LEMMA RowFacts ==
  ASSUME TypeOK, NEW k \in Key, kv[k] # NoRow
  PROVE  kv[k].size \in Size /\ kv[k].upd \in Nat /\ kv[k].exp \in Instant
BY DEF TypeOK, Row, RowOf

(* A worker that is not idle is in one of the four calls.                   *)
LEMMA JobFacts ==
  ASSUME TypeOK, NEW w \in Workers, ~Idle(w)
  PROVE  /\ job[w] \in Jobs
         /\ job[w].pc \in {"approving", "executing"} =>
              job[w].id \in Ids /\ job[w].val \in Approval /\ job[w].size \in Size
         /\ job[w].pc = "evicting" => job[w].key \in Key
         /\ job[w].pc = "resolving" => job[w].id \in Commitments
              /\ job[w].to \in {"done", "cancelled"} /\ job[w].size \in Size
<1>1. job[w] \in Jobs
  BY DEF TypeOK, Idle
<1> QED BY <1>1 DEF Jobs

-----------------------------------------------------------------------------
(* One approval *)

(* The places, one by one, before and after a step                          *)
LEMMA AtFacts ==
  ASSUME NEW i \in Ids
  PROVE  /\ At("slot", i) <=> kv[Slot(i)] # NoRow
         /\ At("decided", i) <=> kv[Decided(i)] # NoRow
         /\ At("held", i) <=> \E w \in Workers : Holds(w, i)
         /\ At("ran", i) <=> ran[i] > 0
         /\ At("rejected", i) <=> i \in rejected
         /\ At("unrun", i) <=> i \in unrun
         /\ At("died", i) <=> i \in died
         /\ At("failed", i) <=> i \in failed
         /\ At("pruned", i) <=> i \in pruned
         /\ At("expired", i) <=> i \in expired
         /\ At("slot", i)' <=> kv'[Slot(i)] # NoRow
         /\ At("decided", i)' <=> kv'[Decided(i)] # NoRow
         /\ At("held", i)' <=> \E w \in Workers : Holds(w, i)'
         /\ At("ran", i)' <=> ran'[i] > 0
         /\ At("rejected", i)' <=> i \in rejected'
         /\ At("unrun", i)' <=> i \in unrun'
         /\ At("died", i)' <=> i \in died'
         /\ At("failed", i)' <=> i \in failed'
         /\ At("pruned", i)' <=> i \in pruned'
         /\ At("expired", i)' <=> i \in expired'
BY DEF At

(* The places that histories tell                                           *)
LEMMA HistoryPlaces ==
  ASSUME NEW i \in Ids, UNCHANGED history
  PROVE  \A q \in Places \ {"slot", "decided", "held"} : At(q, i)' => At(q, i)
BY AtFacts DEF Places, history

(* An approval that is in a place is in no other.                           *)
LEMMA OnlyThere ==
  ASSUME NEW i \in Ids, InOnePlace(i), NEW p \in Places, At(p, i)
  PROVE  \A q \in Places \ {p} : ~At(q, i)
BY DEF InOnePlace

(* An approval goes from one place to another.                              *)
LEMMA Moved ==
  ASSUME NEW i \in Ids, InOnePlace(i), NEW p \in Places, NEW q \in Places, p # q,
         At(p, i), At(q, i)', ~At(p, i)',
         \A r \in Places \ {p, q} : At(r, i)' => At(r, i)
  PROVE  InOnePlace(i)'
<1>1. \A r \in Places \ {p} : ~At(r, i)
  BY OnlyThere
<1>2. \A r \in Places \ {q} : ~At(r, i)'
  BY <1>1
<1> QED BY <1>2 DEF InOnePlace

(* An approval of which all the state but its rows stays                    *)
SameCalls(i) ==
  /\ \A w \in Workers : (Holds(w, i)' <=> Holds(w, i)) /\ (Holds(w, i) => job'[w] = job[w])
  /\ ran'[i] = ran[i]
  /\ i \in submitted' <=> i \in submitted
  /\ i \in approved' <=> i \in approved
  /\ i \in rejected' <=> i \in rejected
  /\ i \in unrun' <=> i \in unrun
  /\ i \in died' <=> i \in died
  /\ i \in failed' <=> i \in failed

(* Nothing happens to it.                                                   *)
Untouched(i) ==
  /\ SameCalls(i)
  /\ kv'[Slot(i)] = kv[Slot(i)] /\ kv'[Decided(i)] = kv[Decided(i)]
  /\ i \in pruned' <=> i \in pruned
  /\ i \in expired' <=> i \in expired

(* Some of its rows are deleted, and the history of one place tells.        *)
Losses == {"pruned", "expired"}
Spilled(i, place) ==
  /\ SameCalls(i)
  /\ kv'[Slot(i)] \in {kv[Slot(i)], NoRow} /\ kv'[Decided(i)] \in {kv[Decided(i)], NoRow}
  /\ At(place, i)' <=> \/ At(place, i)
                       \/ kv[Slot(i)] # NoRow /\ kv'[Slot(i)] = NoRow
                       \/ kv[Decided(i)] # NoRow /\ kv'[Decided(i)] = NoRow
  /\ \A p \in Losses \ {place} : At(p, i)' <=> At(p, i)

(* A spilled approval is in this place and in no other.                     *)
LEMMA SpilledSound ==
  ASSUME NEW i \in Ids, Sound(i), NEW place \in Losses, Spilled(i, place)
  PROVE  Sound(i)'
<1>1. RowsAgree(i)'
  BY DEF Sound, RowsAgree, Spilled, SameCalls
<1>2. Answered(i)'
  BY DEF Sound, Answered, Spilled, SameCalls
<1>3. \A w, v \in Workers : Holds(w, i)' /\ Holds(v, i)' => w = v
  BY DEF Sound, Placed, Spilled, SameCalls
<1>4. ran'[i] <= 1
  BY DEF Sound, Placed, Spilled, SameCalls
<1>5. \A r \in Places \ {"slot", "decided", place} : At(r, i)' <=> At(r, i)
  <2>1. At("held", i)' <=> At("held", i)
    BY AtFacts DEF Spilled, SameCalls
  <2>2. /\ At("ran", i)' <=> At("ran", i)
        /\ At("rejected", i)' <=> At("rejected", i)
        /\ At("unrun", i)' <=> At("unrun", i)
        /\ At("died", i)' <=> At("died", i)
        /\ At("failed", i)' <=> At("failed", i)
    BY AtFacts DEF Spilled, SameCalls
  <2>3. \A r \in Losses \ {place} : At(r, i)' <=> At(r, i)
    BY DEF Spilled
  <2> QED BY <2>1, <2>2, <2>3 DEF Places, Losses
<1>6. /\ At("slot", i)' => At("slot", i)
      /\ At("decided", i)' => At("decided", i)
      /\ At(place, i)' <=> \/ At(place, i)
                           \/ At("slot", i) /\ ~At("slot", i)'
                           \/ At("decided", i) /\ ~At("decided", i)'
  BY AtFacts DEF Spilled
<1>7. /\ i \in submitted' <=> i \in submitted
      /\ "slot" \in Places /\ "decided" \in Places /\ place \in Places
      /\ place # "slot" /\ place # "decided"
  BY DEF Spilled, SameCalls, Places, Losses
<1>8. CASE i \notin submitted
  <2>1. \A p \in Places : ~At(p, i)
    BY <1>8 DEF Sound, Placed
  <2>2. \A p \in Places : ~At(p, i)'
    BY <2>1, <1>5, <1>6, <1>7
  <2> QED BY <1>1, <1>2, <1>3, <1>4, <1>7, <1>8, <2>2 DEF Sound, Placed
<1>9. CASE i \in submitted
  <2>1. InOnePlace(i)
    BY <1>9 DEF Sound, Placed
  <2>2. PICK p \in Places : At(p, i)
    BY <2>1 DEF InOnePlace
  <2>3. \A q \in Places \ {p} : ~At(q, i)
    BY <2>1, <2>2, OnlyThere
  <2>4. ASSUME At(p, i)' PROVE InOnePlace(i)'
    <3>1. \A q \in Places \ {p} : ~At(q, i)'
      BY <1>5, <1>6, <1>7, <2>2, <2>3, <2>4
    <3> QED BY <2>4, <3>1 DEF InOnePlace
  <2>5. ASSUME ~At(p, i)' PROVE InOnePlace(i)'
    <3>1. p \in {"slot", "decided"} /\ At(place, i)'
      BY <1>5, <1>6, <1>7, <2>2, <2>5
    <3>2. \A r \in Places \ {p, place} : At(r, i)' => At(r, i)
      BY <1>5, <1>6
    <3> QED BY <2>1, <2>2, <2>5, <3>1, <3>2, <1>7, Moved
  <2>6. InOnePlace(i)'
    BY <2>4, <2>5
  <2> QED BY <1>1, <1>2, <1>3, <1>4, <1>7, <1>9, <2>6 DEF Sound, Placed
<1> QED BY <1>8, <1>9

(* An untouched one stays where it is.                                      *)
LEMMA UntouchedSound ==
  ASSUME NEW i \in Ids, Sound(i), Untouched(i)
  PROVE  Sound(i)'
<1>1. Spilled(i, "pruned") /\ "pruned" \in Losses
  BY AtFacts DEF Spilled, Untouched, Losses
<1> QED BY <1>1, SpilledSound

-----------------------------------------------------------------------------
(* Calls and rows in a step *)

(* An idle worker begins a call.                                            *)
LEMMA Begins ==
  ASSUME TypeOK, NEW w \in Workers, Idle(w), NEW r \in Jobs, job' = [job EXCEPT ![w] = r]
  PROVE  /\ job' \in [Workers -> Jobs \union {NoJob}] /\ job'[w] = r
         /\ \A v \in Workers \ {w} : job'[v] = job[v]
         /\ \A j \in Ids : ~Holds(w, j)
         /\ \A j \in Ids : Holds(w, j)' <=> r.pc \in {"approving", "executing"} /\ r.id = j
         /\ \A v \in Workers \ {w}, j \in Ids : Holds(v, j)' <=> Holds(v, j)
<1>1. /\ job' \in [Workers -> Jobs \union {NoJob}] /\ job'[w] = r
      /\ \A v \in Workers \ {w} : job'[v] = job[v]
  BY DEF TypeOK
<1>2. r # NoJob
  BY NullAssumption
<1> QED BY <1>1, <1>2 DEF Holds, Idle

(* A worker ends its call.                                                  *)
LEMMA Ends ==
  ASSUME TypeOK, NEW w \in Workers, Free(w)
  PROVE  /\ job' \in [Workers -> Jobs \union {NoJob}]
         /\ \A v \in Workers \ {w} : job'[v] = job[v]
         /\ \A j \in Ids : ~Holds(w, j)'
         /\ \A v \in Workers \ {w}, j \in Ids : Holds(v, j)' <=> Holds(v, j)
<1>1. /\ job' \in [Workers -> Jobs \union {NoJob}] /\ job'[w] = NoJob
      /\ \A v \in Workers \ {w} : job'[v] = job[v]
  BY DEF TypeOK, Free
<1> QED BY <1>1 DEF Holds

(* Who loses a row                                                          *)
LEMMA GoneFacts ==
  ASSUME NEW j \in Ids, NEW t
  PROVE  j \in Gone(t) <=> \/ kv[Slot(j)] # NoRow /\ t[Slot(j)] = NoRow
                           \/ kv[Decided(j)] # NoRow /\ t[Decided(j)] = NoRow
<1>1. j \in Gone(t) <=> \E x \in {Slot(j), Decided(j)} : kv[x] # NoRow /\ t[x] = NoRow
  BY DEF Gone
<1> QED BY <1>1

(* Writing the row of one approval at most pushes out the rows of another.  *)
LEMMA OthersSpilled ==
  ASSUME NEW i \in Ids, NEW k \in {Slot(i), Decided(i)}, NEW j \in Ids \ {i},
         \A x \in Key \ {k} : kv'[x] = kv[x] \/ kv'[x] = NoRow,
         pruned' = pruned \union Gone(kv'), expired' = expired, SameCalls(j)
  PROVE  Spilled(j, "pruned")
<1>1. /\ Slot(j) \in Key \ {k} /\ Decided(j) \in Key \ {k}
  BY KeyFacts
<1>2. j \in Gone(kv') <=> \/ kv[Slot(j)] # NoRow /\ kv'[Slot(j)] = NoRow
                          \/ kv[Decided(j)] # NoRow /\ kv'[Decided(j)] = NoRow
  BY GoneFacts
<1>3. /\ At("pruned", j)' <=> At("pruned", j) \/ j \in Gone(kv')
      /\ At("expired", j)' <=> At("expired", j)
  BY AtFacts
<1> QED BY <1>1, <1>2, <1>3 DEF Spilled, Losses

(* A step that leaves the rows, the calls and the histories of all the      *)
(* approvals keeps what is known of them.                                   *)
LEMMA Elsewhere ==
  ASSUME \A i \in Ids : Sound(i), UNCHANGED history,
         \A i \in Ids : kv'[Slot(i)] = kv[Slot(i)] /\ kv'[Decided(i)] = kv[Decided(i)],
         \A w \in Workers, i \in Ids :
           (Holds(w, i)' <=> Holds(w, i)) /\ (Holds(w, i) => job'[w] = job[w])
  PROVE  \A i \in Ids : Sound(i)'
<1> SUFFICES ASSUME NEW i \in Ids PROVE Sound(i)'
  OBVIOUS
<1>1. Untouched(i)
  BY DEF Untouched, SameCalls, history
<1> QED BY <1>1, UntouchedSound

-----------------------------------------------------------------------------
(* The steps on approvals *)

(* submit_for_approval: from nowhere to its pending row                     *)
LEMMA SubmitStep ==
  ASSUME IInv, NEW i \in Ids, NEW a \in Actions, NEW size \in Size, NEW ttl \in Ttls,
         Submit(i, a, size, ttl)
  PROVE  IInv'
<1> DEFINE k == Slot(i)
           val == Queued(a, ttl)
<1>1. TypeOK /\ ttl \in Nat /\ k \in Key
  BY ApprovalsAssumption, KeyFacts DEF IInv
<1>2. val \in Approval /\ val.status = "pending"
  BY <1>1 DEF Queued, Approval, TypeOK
<1>3. /\ kv' \in Set(k, val, size, ttl) /\ pruned' = pruned \union Gone(kv')
      /\ submitted' = submitted \union {i} /\ i \notin submitted
      /\ UNCHANGED <<now, job, crashes, ran, approved, rejected, unrun, died, failed, expired>>
  BY DEF Submit
<1> HIDE DEF val
<1>4. /\ kv' \in [Key -> Row \union {NoRow}]
      /\ kv'[k] # NoRow /\ kv'[k].val = val
      /\ \A x \in Key \ {k} : kv'[x] = kv[x] \/ kv'[x] = NoRow
  BY <1>1, <1>2, <1>3, SetShape
<1>5. TypeOK'
  BY <1>1, <1>3, <1>4 DEF TypeOK, Gone
<1>6. \A w \in Workers, j \in Ids : Holds(w, j)' <=> Holds(w, j)
  BY <1>3 DEF Holds
<1>7. ASSUME NEW j \in Ids \ {i} PROVE Sound(j)'
  <2>1. SameCalls(j)
    BY <1>3, <1>6 DEF SameCalls
  <2>2. Spilled(j, "pruned") /\ "pruned" \in Losses
    BY <1>3, <1>4, <2>1, OthersSpilled DEF Losses
  <2> QED BY <2>2, SpilledSound DEF IInv
<1>8. Sound(i)'
  <2>1. /\ \A p \in Places : ~At(p, i)
        /\ i \notin approved
        /\ \A w, v \in Workers : Holds(w, i) /\ Holds(v, i) => w = v
        /\ ran[i] <= 1
    BY <1>3 DEF IInv, Sound, Placed, Answered
  <2>2. /\ kv[Slot(i)] = NoRow /\ kv[Decided(i)] = NoRow /\ i \notin pruned /\ i \notin expired
        /\ \A w \in Workers : ~Holds(w, i)
    BY <2>1, AtFacts DEF Places
  <2>3. /\ kv'[Decided(i)] = NoRow
        /\ i \notin pruned' /\ i \notin expired'
    <3>1. Decided(i) \in Key \ {k}
      BY KeyFacts
    <3> QED BY <1>3, <1>4, <2>2, <3>1, GoneFacts
  <2>4. /\ At("slot", i)' /\ ~At("decided", i)' /\ ~At("pruned", i)'
        /\ \A r \in Places \ {"slot", "decided", "pruned"} : At(r, i)' <=> At(r, i)
    BY <1>3, <1>4, <1>6, <2>3, AtFacts DEF Places
  <2>5. InOnePlace(i)'
    BY <2>1, <2>4 DEF InOnePlace, Places
  <2>6. Placed(i)' /\ Answered(i)'
    BY <1>3, <1>6, <2>1, <2>2, <2>3, <2>5, AtFacts DEF Placed, Answered, Places, IInv, Sound
  <2>7. RowsAgree(i)'
    BY <1>2, <1>4, <1>6, <2>2, <2>3 DEF RowsAgree
  <2> QED BY <2>6, <2>7 DEF Sound
<1> QED BY <1>5, <1>7, <1>8 DEF IInv

(* approve, first half: from its row into the hands of the worker           *)
LEMMA DecideStep ==
  ASSUME IInv, NEW w \in Workers, NEW i \in Ids, Decide(w, i)
  PROVE  IInv'
<1> DEFINE k == Slot(i)
           r == [pc |-> "approving", id |-> i, size |-> kv[k].size, val |-> DecidedOn(kv[k].val)]
<1>1. TypeOK /\ k \in Key /\ Sound(i)
  BY KeyFacts DEF IInv
<1>2. /\ Idle(w) /\ kv[k] # NoRow /\ kv[k].val.status = "pending" /\ kv' = Without(kv, {k})
      /\ job' = [job EXCEPT ![w] = r] /\ UNCHANGED <<now, crashes, history>>
  BY DEF Decide, Consumable, Consume
<1>3. r \in Jobs /\ r.pc = "approving" /\ r.id = i /\ r.val.status = "approved"
  <2>1. kv[k].val \in Approval /\ kv[k].size \in Size
    BY <1>1, <1>2, RowFacts DEF Sound, RowsAgree
  <2>2. DecidedOn(kv[k].val) \in Approval /\ DecidedOn(kv[k].val).status = "approved"
    BY <2>1 DEF DecidedOn, Approval
  <2> QED BY <2>1, <2>2 DEF Jobs
<1> HIDE DEF r
<1>4. /\ kv' \in [Key -> Row \union {NoRow}] /\ kv'[k] = NoRow
      /\ \A x \in Key \ {k} : kv'[x] = kv[x]
  BY <1>1, <1>2, WithoutShape
<1>5. /\ job' \in [Workers -> Jobs \union {NoJob}] /\ job'[w] = r
      /\ \A v \in Workers \ {w} : job'[v] = job[v]
      /\ \A j \in Ids : ~Holds(w, j)
      /\ \A j \in Ids : Holds(w, j)' <=> i = j
      /\ \A v \in Workers \ {w}, j \in Ids : Holds(v, j)' <=> Holds(v, j)
  <2>1. TypeOK /\ Idle(w) /\ job' = [job EXCEPT ![w] = r]
    BY <1>1, <1>2
  <2> QED BY <1>3, <2>1, Begins
<1>6. TypeOK'
  BY <1>1, <1>2, <1>4, <1>5 DEF TypeOK, history
<1>7. ASSUME NEW j \in Ids \ {i} PROVE Sound(j)'
  <2>1. SameCalls(j)
    BY <1>2, <1>5 DEF SameCalls, history
  <2>2. Untouched(j)
    BY <1>2, <1>4, <2>1, KeyFacts DEF Untouched, history
  <2> QED BY <2>2, UntouchedSound DEF IInv
<1>8. Sound(i)'
  <2>1. /\ i \in submitted /\ InOnePlace(i) /\ At("slot", i) /\ "slot" \in Places
    BY <1>1, <1>2, AtFacts DEF Sound, Placed, Places
  <2>2. \A q \in Places \ {"slot"} : ~At(q, i)
    BY <2>1, OnlyThere
  <2>3. /\ \A v \in Workers : ~Holds(v, i)
        /\ kv[Decided(i)] = NoRow /\ i \notin approved
    BY <1>1, <1>2, <2>2, AtFacts DEF Places, Sound, Answered
  <2>4. kv'[Decided(i)] = NoRow
    BY <1>4, <2>3, KeyFacts
  <2>5. /\ At("held", i)' /\ ~At("slot", i)'
        /\ \A q \in Places \ {"slot", "held"} : At(q, i)' => At(q, i)
    <3>1. At("held", i)' /\ ~At("slot", i)' /\ ~At("decided", i)'
      BY <1>2, <1>4, <1>5, <2>4, AtFacts
    <3>2. \A q \in Places \ {"slot", "decided", "held"} : At(q, i)' => At(q, i)
      BY <1>2, HistoryPlaces
    <3> QED BY <3>1, <3>2
  <2>6. InOnePlace(i)'
    BY <2>1, <2>5, Moved DEF Places
  <2>7. Placed(i)'
    BY <1>1, <1>2, <1>5, <2>1, <2>3, <2>6 DEF Sound, Placed, history
  <2>8. RowsAgree(i)'
    BY <1>3, <1>4, <1>5, <2>3, <2>4 DEF RowsAgree
  <2>9. Answered(i)'
    BY <1>1, <1>2, <1>3, <1>5, <2>3, <2>4 DEF Sound, Answered, history
  <2> QED BY <2>7, <2>8, <2>9 DEF Sound
<1> QED BY <1>6, <1>7, <1>8 DEF IInv

(* The rest of approve: from the worker to the decided row                  *)
LEMMA ApproveStep ==
  ASSUME IInv, NEW w \in Workers, Approve(w)
  PROVE  IInv'
<1>1. TypeOK /\ ~Idle(w) /\ job[w].pc = "approving"
  BY DEF IInv, Approve
<1>2. PICK i \in Ids : i = job[w].id
  BY <1>1, JobFacts
<1> DEFINE k == Decided(i)
           val == job[w].val
<1>3. /\ kv' \in Set(k, val, job[w].size, ExecTtl) /\ pruned' = pruned \union Gone(kv')
      /\ approved' = approved \union {i} /\ Free(w)
      /\ UNCHANGED <<now, crashes, submitted, ran, rejected, unrun, died, failed, expired>>
  BY <1>2 DEF Approve
<1>4. /\ Holds(w, i) /\ Sound(i) /\ k \in Key /\ val \in Approval /\ val.status = "approved"
      /\ job[w].size \in Size
  <2>1. Holds(w, i)
    BY <1>1, <1>2 DEF Holds, Idle
  <2>2. val \in Approval /\ job[w].size \in Size
    BY <1>1, JobFacts
  <2>3. Sound(i) /\ k \in Key
    BY KeyFacts DEF IInv
  <2> QED BY <2>1, <2>2, <2>3 DEF Sound, RowsAgree
<1>5. /\ kv' \in [Key -> Row \union {NoRow}] /\ kv'[k] # NoRow /\ kv'[k].val = val
      /\ \A x \in Key \ {k} : kv'[x] = kv[x] \/ kv'[x] = NoRow
  BY <1>1, <1>3, <1>4, SetShape, ApprovalsAssumption
<1>6. /\ job' \in [Workers -> Jobs \union {NoJob}]
      /\ \A v \in Workers \ {w} : job'[v] = job[v]
      /\ \A j \in Ids : ~Holds(w, j)'
      /\ \A v \in Workers \ {w}, j \in Ids : Holds(v, j)' <=> Holds(v, j)
  BY <1>1, <1>3, Ends
<1>7. TypeOK'
  BY <1>1, <1>3, <1>5, <1>6 DEF TypeOK, Gone
<1>8. ASSUME NEW j \in Ids \ {i} PROVE Sound(j)'
  <2>1. ~Holds(w, j)
    BY <1>2 DEF Holds
  <2>2. SameCalls(j)
    BY <1>3, <1>6, <2>1 DEF SameCalls
  <2>3. Spilled(j, "pruned") /\ "pruned" \in Losses
    BY <1>3, <1>5, <2>2, OthersSpilled DEF Losses
  <2> QED BY <2>3, SpilledSound DEF IInv
<1>9. Sound(i)'
  <2>1. i \in submitted /\ InOnePlace(i) /\ At("held", i) /\ "held" \in Places
    BY <1>4, AtFacts DEF Sound, Placed, Places
  <2>2. \A q \in Places \ {"held"} : ~At(q, i)
    BY <2>1, OnlyThere
  <2>3. /\ kv[Slot(i)] = NoRow /\ i \notin rejected /\ i \notin failed /\ i \notin pruned /\ ran[i] <= 0
        /\ \A v \in Workers \ {w} : ~Holds(v, i)
    <3>1. ran[i] \in Nat
      BY <1>1 DEF TypeOK
    <3> QED BY <1>4, <2>2, <3>1, AtFacts DEF Places, Sound, Placed
  <2>4. kv'[Slot(i)] = NoRow /\ i \notin pruned'
    BY <1>3, <1>5, <2>3, KeyFacts, GoneFacts
  <2>5. /\ At("decided", i)' /\ ~At("held", i)'
        /\ \A q \in Places \ {"held", "decided"} : At(q, i)' => At(q, i)
    BY <1>3, <1>5, <1>6, <2>3, <2>4, AtFacts DEF Places
  <2>6. InOnePlace(i)'
    BY <2>1, <2>5, Moved DEF Places
  <2>7. \A v \in Workers : ~Holds(v, i)'
    BY <1>6, <2>3
  <2>8. Placed(i)'
    BY <1>3, <1>4, <2>1, <2>6, <2>7 DEF Sound, Placed
  <2>9. RowsAgree(i)' /\ Answered(i)'
    BY <1>3, <1>4, <1>5, <2>1, <2>3, <2>4, <2>7 DEF RowsAgree, Answered
  <2> QED BY <2>8, <2>9 DEF Sound
<1> QED BY <1>7, <1>8, <1>9 DEF IInv

(* reject: from its row to the rejected ones                                *)
LEMMA RejectStep ==
  ASSUME IInv, NEW i \in Ids, Reject(i)
  PROVE  IInv'
<1> DEFINE k == Slot(i)
<1>1. /\ TypeOK /\ Sound(i) /\ k \in Key /\ kv[k] # NoRow /\ kv' = Without(kv, {k})
      /\ rejected' = rejected \union {i}
      /\ UNCHANGED <<now, job, crashes, submitted, ran, approved, unrun, died, failed, pruned, expired>>
  BY KeyFacts DEF IInv, Reject, Consumable, Consume
<1>2. /\ kv' \in [Key -> Row \union {NoRow}] /\ kv'[k] = NoRow
      /\ \A x \in Key \ {k} : kv'[x] = kv[x]
  BY <1>1, WithoutShape
<1>3. TypeOK'
  BY <1>1, <1>2 DEF TypeOK
<1>4. \A w \in Workers, j \in Ids : Holds(w, j)' <=> Holds(w, j)
  BY <1>1 DEF Holds
<1>5. ASSUME NEW j \in Ids \ {i} PROVE Sound(j)'
  <2>1. Untouched(j)
    BY <1>1, <1>2, <1>4, KeyFacts DEF Untouched, SameCalls
  <2> QED BY <2>1, UntouchedSound DEF IInv
<1>6. Sound(i)'
  <2>1. i \in submitted /\ InOnePlace(i) /\ At("slot", i) /\ "slot" \in Places
    BY <1>1, AtFacts DEF Sound, Placed, Places
  <2>2. i \notin approved /\ kv'[Decided(i)] = kv[Decided(i)]
    BY <1>1, <1>2, KeyFacts DEF Sound, Answered
  <2>3. /\ At("rejected", i)' /\ ~At("slot", i)'
        /\ \A q \in Places \ {"slot", "rejected"} : At(q, i)' => At(q, i)
    BY <1>1, <1>2, <1>4, <2>2, AtFacts DEF Places
  <2>4. InOnePlace(i)'
    BY <2>1, <2>3, Moved DEF Places
  <2>5. Placed(i)'
    BY <1>1, <1>4, <2>1, <2>4 DEF Sound, Placed
  <2>6. RowsAgree(i)' /\ Answered(i)'
    BY <1>1, <1>2, <1>4, <2>2 DEF Sound, RowsAgree, Answered
  <2> QED BY <2>5, <2>6 DEF Sound
<1> QED BY <1>3, <1>5, <1>6 DEF IInv

(* execute, first half: from the decided row into the hands of the worker   *)
LEMMA ClaimStep ==
  ASSUME IInv, NEW w \in Workers, NEW i \in Ids, Claim(w, i)
  PROVE  IInv'
<1> DEFINE k == Decided(i)
           r == [pc |-> "executing", id |-> i, size |-> kv[k].size, val |-> kv[k].val]
<1>1. TypeOK /\ k \in Key /\ Sound(i)
  BY KeyFacts DEF IInv
<1>2. /\ Idle(w) /\ kv[k] # NoRow /\ kv[k].val.status = "approved" /\ kv' = Without(kv, {k})
      /\ job' = [job EXCEPT ![w] = r]
      /\ UNCHANGED <<now, crashes, submitted, ran, approved, rejected, unrun, died, failed, pruned, expired>>
  BY DEF Claim, Consumable, Consume, history
<1>3. r \in Jobs /\ r.pc = "executing" /\ r.id = i /\ r.val.status = "approved"
  <2>1. kv[k].val \in Approval /\ kv[k].size \in Size
    BY <1>1, <1>2, RowFacts DEF Sound, RowsAgree
  <2> QED BY <1>2, <2>1 DEF Jobs
<1> HIDE DEF r
<1>4. /\ kv' \in [Key -> Row \union {NoRow}] /\ kv'[k] = NoRow
      /\ \A x \in Key \ {k} : kv'[x] = kv[x]
  BY <1>1, <1>2, WithoutShape
<1>5. /\ job' \in [Workers -> Jobs \union {NoJob}] /\ job'[w] = r
      /\ \A v \in Workers \ {w} : job'[v] = job[v]
      /\ \A j \in Ids : ~Holds(w, j)
      /\ \A j \in Ids : Holds(w, j)' <=> i = j
      /\ \A v \in Workers \ {w}, j \in Ids : Holds(v, j)' <=> Holds(v, j)
  BY <1>1, <1>2, <1>3, Begins
<1>6. TypeOK'
  BY <1>1, <1>2, <1>4, <1>5 DEF TypeOK
<1>7. ASSUME NEW j \in Ids \ {i} PROVE Sound(j)'
  <2>1. SameCalls(j)
    BY <1>2, <1>5 DEF SameCalls
  <2>2. Untouched(j)
    BY <1>2, <1>4, <2>1, KeyFacts DEF Untouched
  <2> QED BY <2>2, UntouchedSound DEF IInv
<1>8. Sound(i)'
  <2>1. i \in submitted /\ InOnePlace(i) /\ At("decided", i) /\ "decided" \in Places
    BY <1>1, <1>2, AtFacts DEF Sound, Placed, Places
  <2>2. \A q \in Places \ {"decided"} : ~At(q, i)
    BY <2>1, OnlyThere
  <2>3. /\ \A v \in Workers : ~Holds(v, i)
        /\ kv[Slot(i)] = NoRow /\ i \in approved
    BY <1>1, <1>2, <2>2, AtFacts DEF Places, Sound, Answered
  <2>4. kv'[Slot(i)] = NoRow
    BY <1>4, <2>3, KeyFacts
  <2>5. /\ At("held", i)' /\ ~At("decided", i)'
        /\ \A q \in Places \ {"decided", "held"} : At(q, i)' => At(q, i)
    <3>1. At("held", i)' /\ ~At("slot", i)' /\ ~At("decided", i)'
      BY <1>2, <1>4, <1>5, <2>4, AtFacts
    <3>2. \A q \in Places \ {"slot", "decided", "held"} : At(q, i)' => At(q, i)
      BY <1>2, HistoryPlaces DEF history
    <3> QED BY <3>1, <3>2
  <2>6. InOnePlace(i)'
    BY <2>1, <2>5, Moved DEF Places
  <2>7. Placed(i)'
    BY <1>1, <1>2, <1>5, <2>1, <2>3, <2>6 DEF Sound, Placed
  <2>8. RowsAgree(i)'
    BY <1>3, <1>4, <1>5, <2>3, <2>4 DEF RowsAgree
  <2>9. Answered(i)'
    BY <1>1, <1>2, <1>3, <1>5, <2>3, <2>4 DEF Sound, Answered
  <2> QED BY <2>7, <2>8, <2>9 DEF Sound
<1> QED BY <1>6, <1>7, <1>8 DEF IInv

(* The rest of execute: the tool runs, or it is missing.                    *)
LEMMA ExecuteStep ==
  ASSUME IInv, NEW w \in Workers, ExecuteApproved(w)
  PROVE  IInv'
<1>1. TypeOK /\ ~Idle(w) /\ job[w].pc = "executing"
  BY DEF IInv, ExecuteApproved
<1>2. PICK i \in Ids : i = job[w].id
  BY <1>1, JobFacts
<1>3. /\ Free(w) /\ UNCHANGED <<now, kv, crashes, submitted, approved, rejected, died, failed, pruned, expired>>
      /\ \/ ran' = [ran EXCEPT ![i] = @ + 1] /\ unrun' = unrun
         \/ unrun' = unrun \union {i} /\ ran' = ran
  BY <1>2 DEF ExecuteApproved
<1>4. Holds(w, i) /\ Sound(i)
  BY <1>1, <1>2 DEF Holds, IInv, Idle
<1>5. /\ job' \in [Workers -> Jobs \union {NoJob}]
      /\ \A v \in Workers \ {w} : job'[v] = job[v]
      /\ \A j \in Ids : ~Holds(w, j)'
      /\ \A v \in Workers \ {w}, j \in Ids : Holds(v, j)' <=> Holds(v, j)
  BY <1>1, <1>3, Ends
<1>6. ran \in [Ids -> Nat]
  BY <1>1 DEF TypeOK
<1>7. TypeOK'
  BY <1>1, <1>3, <1>5, <1>6 DEF TypeOK
<1>8. ASSUME NEW j \in Ids \ {i} PROVE Sound(j)'
  <2>1. ~Holds(w, j)
    BY <1>2 DEF Holds
  <2>2. SameCalls(j)
    BY <1>3, <1>5, <1>6, <2>1 DEF SameCalls
  <2>3. Untouched(j)
    BY <1>3, <2>2 DEF Untouched
  <2> QED BY <2>3, UntouchedSound DEF IInv
<1>9. Sound(i)'
  <2>1. i \in submitted /\ InOnePlace(i) /\ At("held", i) /\ "held" \in Places
    BY <1>4, AtFacts DEF Sound, Placed, Places
  <2>2. \A q \in Places \ {"held"} : ~At(q, i)
    BY <2>1, OnlyThere
  <2>3. /\ kv[Slot(i)] = NoRow /\ kv[Decided(i)] = NoRow /\ i \in approved /\ ran[i] = 0
        /\ \A v \in Workers \ {w} : ~Holds(v, i)
    <3>1. i \in approved
      BY <1>1, <1>4 DEF Sound, Answered
    <3> QED BY <1>4, <1>6, <2>2, <3>1, AtFacts DEF Places, Sound, Placed
  <2>4. ~At("held", i)' /\ \A v \in Workers : ~Holds(v, i)'
    BY <1>5, <2>3, AtFacts
  <2>5. InOnePlace(i)'
    <3>1. ASSUME ran' = [ran EXCEPT ![i] = @ + 1], unrun' = unrun
          PROVE  InOnePlace(i)'
      <4>1. ran'[i] = 1
        BY <1>6, <2>3, <3>1
      <4>2. At("ran", i)' /\ \A q \in Places \ {"held", "ran"} : At(q, i)' => At(q, i)
        BY <1>3, <3>1, <4>1, AtFacts DEF Places
      <4> QED BY <2>1, <2>4, <4>2, Moved DEF Places
    <3>2. ASSUME unrun' = unrun \union {i}, ran' = ran
          PROVE  InOnePlace(i)'
      <4>1. At("unrun", i)' /\ \A q \in Places \ {"held", "unrun"} : At(q, i)' => At(q, i)
        BY <1>3, <3>2, AtFacts DEF Places
      <4> QED BY <2>1, <2>4, <4>1, Moved DEF Places
    <3> QED BY <1>3, <3>1, <3>2
  <2>6. ran'[i] <= 1
    BY <1>3, <1>6, <2>3
  <2>7. Placed(i)' /\ RowsAgree(i)' /\ Answered(i)'
    BY <1>3, <1>4, <2>1, <2>3, <2>4, <2>5, <2>6 DEF Sound, Placed, RowsAgree, Answered
  <2> QED BY <2>7 DEF Sound
<1> QED BY <1>7, <1>8, <1>9 DEF IInv

(* A worker lets go of the approval it held, if any; all the rest stays.    *)
Wasted == {"died", "failed"}
LetGo(i, w, place) ==
  /\ kv' = kv /\ ran'[i] = ran[i]
  /\ i \in submitted' <=> i \in submitted
  /\ i \in approved' <=> i \in approved
  /\ i \in rejected' <=> i \in rejected
  /\ At(place, i)' <=> At(place, i) \/ Holds(w, i)
  /\ place = "failed" /\ Holds(w, i) => i \notin approved
  /\ \A p \in Places \ {"held", place} : At(p, i)' <=> At(p, i)

LEMMA LetGoSound ==
  ASSUME TypeOK, \A i \in Ids : Sound(i), NEW w \in Workers, Free(w), NEW place \in Wasted,
         \A i \in Ids : LetGo(i, w, place)
  PROVE  \A i \in Ids : Sound(i)'
<1>1. /\ job' \in [Workers -> Jobs \union {NoJob}]
      /\ \A v \in Workers \ {w} : job'[v] = job[v]
      /\ \A j \in Ids : ~Holds(w, j)'
      /\ \A v \in Workers \ {w}, j \in Ids : Holds(v, j)' <=> Holds(v, j)
  BY Ends
<1>2. ASSUME NEW j \in Ids, ~Holds(w, j) PROVE Sound(j)'
  <2>1. LetGo(j, w, place) /\ Sound(j)
    OBVIOUS
  <2>2. At("unrun", j)' <=> At("unrun", j)
    BY <2>1 DEF LetGo, Places, Wasted
  <2>3. At("died", j)' <=> At("died", j)
    BY <1>2, <2>1 DEF LetGo, Places, Wasted
  <2>4. At("failed", j)' <=> At("failed", j)
    BY <1>2, <2>1 DEF LetGo, Places, Wasted
  <2>5. (At("pruned", j)' <=> At("pruned", j)) /\ (At("expired", j)' <=> At("expired", j))
    BY <2>1 DEF LetGo, Places, Wasted
  <2>6. SameCalls(j)
    BY <1>1, <1>2, <2>1, <2>2, <2>3, <2>4, AtFacts DEF SameCalls, LetGo
  <2>7. Untouched(j)
    BY <2>1, <2>5, <2>6, AtFacts DEF Untouched, LetGo
  <2> QED BY <2>1, <2>7, UntouchedSound
<1>3. ASSUME NEW i \in Ids, Holds(w, i) PROVE Sound(i)'
  <2>1. Sound(i) /\ i \in submitted /\ InOnePlace(i) /\ At("held", i) /\ "held" \in Places
    BY <1>3, AtFacts DEF Sound, Placed, Places
  <2>2. \A v \in Workers \ {w} : ~Holds(v, i)
    BY <1>3, <2>1 DEF Sound, Placed
  <2>3. ~At("held", i)' /\ \A v \in Workers : ~Holds(v, i)'
    BY <1>1, <2>2, AtFacts
  <2>4. LetGo(i, w, place) /\ place \in Places /\ place # "held"
    BY DEF Wasted, Places
  <2>5. At(place, i)' /\ \A q \in Places \ {"held", place} : At(q, i)' => At(q, i)
    BY <1>3, <2>4 DEF LetGo
  <2>6. InOnePlace(i)'
    BY <2>1, <2>3, <2>4, <2>5, Moved
  <2>7. i \in approved' => i \notin failed'
    <3>1. CASE place = "failed"
      BY <1>3, <2>4, <3>1 DEF LetGo
    <3>2. CASE place = "died"
      BY <2>1, <2>4, <3>2, AtFacts DEF LetGo, Places, Sound, Answered
    <3> QED BY <3>1, <3>2 DEF Wasted
  <2>8. Placed(i)' /\ RowsAgree(i)' /\ Answered(i)'
    BY <2>1, <2>3, <2>4, <2>6, <2>7 DEF Sound, Placed, RowsAgree, Answered, LetGo
  <2> QED BY <2>8 DEF Sound
<1> QED BY <1>2, <1>3

(* A process dies: what its worker held is lost.                            *)
LEMMA CrashStep ==
  ASSUME IInv, NEW w \in Workers, Crash(w)
  PROVE  IInv'
<1>1. /\ TypeOK /\ Free(w) /\ died' = died \union {i \in Ids : Holds(w, i)}
      /\ crashes' = crashes + 1
      /\ UNCHANGED <<now, kv, submitted, ran, approved, rejected, unrun, failed, pruned, expired>>
  BY DEF IInv, Crash
<1>2. TypeOK'
  BY <1>1, Ends DEF TypeOK
<1>3. ASSUME NEW i \in Ids PROVE LetGo(i, w, "died")
  <2>1. /\ At("died", i)' <=> At("died", i) \/ Holds(w, i)
        /\ \A p \in {"slot", "decided", "ran", "rejected", "unrun", "failed", "pruned", "expired"} :
             At(p, i)' <=> At(p, i)
    BY <1>1, <1>3, AtFacts
  <2> QED BY <1>1, <1>3, <2>1 DEF LetGo, Places
<1> QED BY <1>1, <1>2, <1>3, LetGoSound DEF Wasted, IInv

(* approve fails: so is the approval it was about.                          *)
LEMMA ApproveFailsStep ==
  ASSUME IInv, NEW w \in Workers, ApproveFails(w)
  PROVE  IInv'
<1>1. TypeOK /\ ~Idle(w) /\ job[w].pc = "approving"
  BY DEF IInv, ApproveFails
<1>2. PICK i \in Ids : i = job[w].id
  BY <1>1, JobFacts
<1>3. /\ Free(w) /\ failed' = failed \union {i}
      /\ UNCHANGED <<now, kv, crashes, submitted, ran, approved, rejected, unrun, died, pruned, expired>>
  BY <1>2 DEF ApproveFails
<1>4. TypeOK'
  BY <1>1, <1>3, Ends DEF TypeOK
<1>5. \A j \in Ids : Holds(w, j) <=> j = i
  BY <1>1, <1>2 DEF Holds, Idle
<1>6. ASSUME NEW j \in Ids PROVE LetGo(j, w, "failed")
  <2>1. /\ At("failed", j)' <=> At("failed", j) \/ Holds(w, j)
        /\ \A p \in {"slot", "decided", "ran", "rejected", "unrun", "died", "pruned", "expired"} :
             At(p, j)' <=> At(p, j)
    BY <1>3, <1>5, <1>6, AtFacts
  <2>2. Holds(w, j) => j \notin approved
    BY <1>1, <1>6 DEF IInv, Sound, Answered
  <2> QED BY <1>3, <1>6, <2>1, <2>2 DEF LetGo, Places
<1> QED BY <1>1, <1>3, <1>4, <1>6, LetGoSound DEF Wasted, IInv

-----------------------------------------------------------------------------
(* The other steps *)

(* A write in another namespace leaves the rows of the approvals.           *)
LEMMA OtherSet ==
  ASSUME TypeOK, NEW k \in Key, k.ns # "approval",
         NEW val \in Approval \union Commitment \union {Scratch},
         NEW size \in Size, NEW ttl \in Nat \union {NoTtl}, kv' \in Set(k, val, size, ttl)
  PROVE  /\ kv' \in [Key -> Row \union {NoRow}]
         /\ \A i \in Ids : kv'[Slot(i)] = kv[Slot(i)] /\ kv'[Decided(i)] = kv[Decided(i)]
<1>1. \A i \in Ids : Slot(i) \in Key /\ Decided(i) \in Key
                     /\ Slot(i).ns # k.ns /\ Decided(i).ns # k.ns
  BY KeyFacts
<1>2. /\ kv' \in [Key -> Row \union {NoRow}]
      /\ \A x \in Key : x.ns # k.ns => kv'[x] = kv[x]
  BY SetShape
<1> QED BY <1>1, <1>2

(* So does a deletion.                                                      *)
LEMMA OtherDelete ==
  ASSUME TypeOK, NEW k \in Key, k.ns # "approval", kv' = Delete(k)
  PROVE  /\ kv' \in [Key -> Row \union {NoRow}]
         /\ \A i \in Ids : kv'[Slot(i)] = kv[Slot(i)] /\ kv'[Decided(i)] = kv[Decided(i)]
<1>1. \A i \in Ids : Slot(i) \in Key \ {k} /\ Decided(i) \in Key \ {k}
  BY KeyFacts
<1>2. /\ kv' \in [Key -> Row \union {NoRow}]
      /\ \A x \in Key \ {k} : kv'[x] = kv[x]
  <2>1. TypeOK /\ kv' = Without(kv, {k})
    BY DEF Delete
  <2> QED BY <2>1, WithoutShape
<1> QED BY <1>1, <1>2

(* memory_set writes under prefs.                                           *)
LEMMA MemorySetStep ==
  ASSUME IInv, NEW n \in Names, NEW size \in SmallSize, NEW ttl \in Ttls \union {NoTtl},
         MemorySet(n, size, ttl)
  PROVE  IInv'
<1>1. /\ TypeOK /\ Pref(n) \in Key /\ Pref(n).ns # "approval"
      /\ size \in Size /\ ttl \in Nat \union {NoTtl}
      /\ kv' \in Set(Pref(n), Scratch, size, ttl) /\ UNCHANGED <<now, job, crashes, history>>
  <2>1. Pref(n) \in Key /\ Pref(n).ns # "approval"
    BY KeyFacts
  <2>2. size \in Size /\ ttl \in Nat \union {NoTtl}
    BY ApprovalsAssumption
  <2> QED BY <2>1, <2>2 DEF IInv, MemorySet
<1>2. /\ kv' \in [Key -> Row \union {NoRow}]
      /\ \A i \in Ids : kv'[Slot(i)] = kv[Slot(i)] /\ kv'[Decided(i)] = kv[Decided(i)]
  BY <1>1, OtherSet
<1>3. TypeOK'
  BY <1>1, <1>2 DEF TypeOK, history
<1>4. \A w \in Workers, i \in Ids : Holds(w, i)' <=> Holds(w, i)
  BY <1>1 DEF Holds
<1> QED BY <1>1, <1>2, <1>3, <1>4, Elsewhere DEF IInv

(* memory_delete is refused the approvals.                                  *)
LEMMA MemoryDeleteStep ==
  ASSUME IInv, NEW k \in Key, MemoryDelete(k)
  PROVE  IInv'
<1>1. /\ TypeOK /\ k.ns # "approval" /\ kv' = Delete(k) /\ UNCHANGED <<now, job, crashes, history>>
  BY DEF IInv, MemoryDelete, Reserved
<1>2. /\ kv' \in [Key -> Row \union {NoRow}]
      /\ \A i \in Ids : kv'[Slot(i)] = kv[Slot(i)] /\ kv'[Decided(i)] = kv[Decided(i)]
  BY <1>1, OtherDelete
<1>3. TypeOK'
  BY <1>1, <1>2 DEF TypeOK, history
<1>4. \A w \in Workers, i \in Ids : Holds(w, i)' <=> Holds(w, i)
  BY <1>1 DEF Holds
<1> QED BY <1>1, <1>2, <1>3, <1>4, Elsewhere DEF IInv

(* A worker takes a call that is not on an approval.                        *)
LEMMA ReadStep ==
  ASSUME IInv, NEW w \in Workers, Idle(w), NEW r \in Jobs, r.pc \notin {"approving", "executing"},
         job' = [job EXCEPT ![w] = r], UNCHANGED <<now, kv, crashes, history>>
  PROVE  IInv'
<1>1. TypeOK
  BY DEF IInv
<1>2. /\ job' \in [Workers -> Jobs \union {NoJob}]
      /\ \A v \in Workers \ {w} : job'[v] = job[v]
      /\ \A j \in Ids : ~Holds(w, j)
      /\ \A j \in Ids : ~Holds(w, j)'
      /\ \A v \in Workers \ {w}, j \in Ids : Holds(v, j)' <=> Holds(v, j)
  BY <1>1, Begins
<1>3. TypeOK'
  BY <1>1, <1>2 DEF TypeOK, history
<1> QED BY <1>2, <1>3, Elsewhere DEF IInv

(* It ends it.                                                              *)
LEMMA WriteStep ==
  ASSUME IInv, NEW w \in Workers, ~Idle(w), job[w].pc \notin {"approving", "executing"}, Free(w),
         kv' \in [Key -> Row \union {NoRow}],
         \A i \in Ids : kv'[Slot(i)] = kv[Slot(i)] /\ kv'[Decided(i)] = kv[Decided(i)],
         UNCHANGED <<now, crashes, history>>
  PROVE  IInv'
<1>1. TypeOK /\ \A j \in Ids : ~Holds(w, j)
  BY DEF IInv, Holds
<1>2. /\ job' \in [Workers -> Jobs \union {NoJob}]
      /\ \A v \in Workers \ {w} : job'[v] = job[v]
      /\ \A j \in Ids : ~Holds(w, j)'
      /\ \A v \in Workers \ {w}, j \in Ids : Holds(v, j)' <=> Holds(v, j)
  BY <1>1, Ends
<1>3. TypeOK'
  BY <1>1, <1>2 DEF TypeOK, history
<1> QED BY <1>1, <1>2, <1>3, Elsewhere DEF IInv

(* memory_get finds an expired row.                                         *)
LEMMA MemoryGetStep ==
  ASSUME IInv, NEW w \in Workers, NEW k \in Key, MemoryGet(w, k)
  PROVE  IInv'
<1>1. [pc |-> "evicting", key |-> k] \in Jobs
  BY DEF Jobs
<1> QED BY <1>1, ReadStep DEF MemoryGet

(* It deletes it: if it is an approval's, that is expired.                  *)
LEMMA EvictStep ==
  ASSUME IInv, NEW w \in Workers, Evict(w)
  PROVE  IInv'
<1>1. /\ TypeOK /\ ~Idle(w) /\ job[w].pc = "evicting" /\ job[w].key \in Key
      /\ kv' = Without(kv, {job[w].key}) /\ Free(w) /\ expired' = expired \union Gone(kv')
      /\ UNCHANGED <<now, crashes, submitted, ran, approved, rejected, unrun, died, failed, pruned>>
  BY JobFacts DEF IInv, Evict, Delete
<1>2. /\ kv' \in [Key -> Row \union {NoRow}]
      /\ \A x \in Key : kv'[x] = kv[x] \/ kv'[x] = NoRow
  <2>1. PICK k \in Key : k = job[w].key
    BY <1>1
  <2>2. TypeOK /\ kv' = Without(kv, {k})
    BY <1>1, <2>1
  <2>3. kv' \in [Key -> Row \union {NoRow}] /\ kv'[k] = NoRow /\ \A x \in Key \ {k} : kv'[x] = kv[x]
    BY <2>2, WithoutShape
  <2> QED BY <2>3
<1>3. /\ job' \in [Workers -> Jobs \union {NoJob}]
      /\ \A v \in Workers \ {w} : job'[v] = job[v]
      /\ \A j \in Ids : ~Holds(w, j)'
      /\ \A v \in Workers \ {w}, j \in Ids : Holds(v, j)' <=> Holds(v, j)
  BY <1>1, Ends
<1>4. TypeOK'
  BY <1>1, <1>2, <1>3 DEF TypeOK, Gone
<1>5. ASSUME NEW j \in Ids PROVE Sound(j)'
  <2>1. ~Holds(w, j)
    BY <1>1 DEF Holds
  <2>2. SameCalls(j)
    BY <1>1, <1>3, <2>1 DEF SameCalls
  <2>3. /\ Slot(j) \in Key /\ Decided(j) \in Key
        /\ j \in Gone(kv') <=> \/ kv[Slot(j)] # NoRow /\ kv'[Slot(j)] = NoRow
                               \/ kv[Decided(j)] # NoRow /\ kv'[Decided(j)] = NoRow
    BY KeyFacts, GoneFacts
  <2>4. /\ At("expired", j)' <=> At("expired", j) \/ j \in Gone(kv')
        /\ At("pruned", j)' <=> At("pruned", j)
    BY <1>1, AtFacts
  <2>5. Spilled(j, "expired") /\ "expired" \in Losses
    BY <1>2, <2>2, <2>3, <2>4 DEF Spilled, Losses
  <2> QED BY <2>5, SpilledSound DEF IInv
<1> QED BY <1>4, <1>5 DEF IInv

(* track_commitment writes under commitment.                                *)
LEMMA TrackStep ==
  ASSUME IInv, NEW c \in Commitments, NEW size \in SmallSize, TrackCommitment(c, size)
  PROVE  IInv'
<1>1. /\ TypeOK /\ Ledger(c) \in Key /\ Ledger(c).ns # "approval" /\ size \in Size
      /\ [status |-> "open"] \in Commitment
      /\ kv' \in Set(Ledger(c), [status |-> "open"], size, NoTtl)
      /\ UNCHANGED <<now, job, crashes, history>>
  <2>1. Ledger(c) \in Key /\ Ledger(c).ns # "approval"
    BY KeyFacts
  <2>2. size \in Size /\ [status |-> "open"] \in Commitment
    BY ApprovalsAssumption DEF Commitment
  <2> QED BY <2>1, <2>2 DEF IInv, TrackCommitment
<1>2. /\ kv' \in [Key -> Row \union {NoRow}]
      /\ \A i \in Ids : kv'[Slot(i)] = kv[Slot(i)] /\ kv'[Decided(i)] = kv[Decided(i)]
  BY <1>1, OtherSet
<1>3. TypeOK'
  BY <1>1, <1>2 DEF TypeOK, history
<1>4. \A w \in Workers, i \in Ids : Holds(w, i)' <=> Holds(w, i)
  BY <1>1 DEF Holds
<1> QED BY <1>1, <1>2, <1>3, <1>4, Elsewhere DEF IInv

(* resolve_commitment reads its row.                                        *)
LEMMA ResolveReadStep ==
  ASSUME IInv, NEW w \in Workers, NEW c \in Commitments, NEW to \in {"done", "cancelled"},
         ResolveRead(w, c, to)
  PROVE  IInv'
<1> DEFINE r == [pc |-> "resolving", id |-> c, to |-> to, size |-> kv[Ledger(c)].size]
<1>1. r \in Jobs
  <2>1. kv[Ledger(c)].size \in Size
    <3>1. TypeOK /\ kv[Ledger(c)] # NoRow
      BY DEF IInv, ResolveRead, Found
    <3>2. Ledger(c) \in Key
      BY KeyFacts
    <3> QED BY <3>1, <3>2, RowFacts
  <2> QED BY <2>1 DEF Jobs
<1>2. r.pc = "resolving"
  OBVIOUS
<1>3. /\ Idle(w) /\ job' = [job EXCEPT ![w] = r] /\ UNCHANGED <<now, kv, crashes, history>>
  BY DEF ResolveRead
<1> HIDE DEF r
<1> QED BY <1>1, <1>2, <1>3, ReadStep

(* It saves it.                                                             *)
LEMMA ResolveStep ==
  ASSUME IInv, NEW w \in Workers, ResolveCommitment(w)
  PROVE  IInv'
<1>1. /\ TypeOK /\ ~Idle(w) /\ job[w].pc = "resolving"
      /\ kv' \in Set(Ledger(job[w].id), [status |-> job[w].to], job[w].size, NoTtl)
      /\ Free(w) /\ UNCHANGED <<now, crashes, history>>
  BY DEF IInv, ResolveCommitment
<1>2. /\ job[w].id \in Commitments /\ job[w].size \in Size
      /\ [status |-> job[w].to] \in Commitment
  BY <1>1, JobFacts DEF Commitment
<1>3. PICK c \in Commitments, val \in Commitment, size \in Size :
        c = job[w].id /\ val = [status |-> job[w].to] /\ size = job[w].size
  BY <1>2
<1>4. /\ kv' \in [Key -> Row \union {NoRow}]
      /\ \A i \in Ids : kv'[Slot(i)] = kv[Slot(i)] /\ kv'[Decided(i)] = kv[Decided(i)]
  <2>1. Ledger(c) \in Key /\ Ledger(c).ns # "approval"
    BY KeyFacts
  <2>2. kv' \in Set(Ledger(c), val, size, NoTtl)
    BY <1>1, <1>3
  <2> QED BY <1>1, <2>1, <2>2, OtherSet
<1> QED BY <1>1, <1>4, WriteStep

(* Time passes.                                                             *)
LEMMA TickStep ==
  ASSUME IInv, Tick
  PROVE  IInv'
<1>1. /\ TypeOK /\ now' = now + 1 /\ UNCHANGED <<kv, job, crashes, history>>
  BY DEF IInv, Tick
<1>2. TypeOK'
  BY <1>1 DEF TypeOK, history
<1>3. \A w \in Workers, i \in Ids : Holds(w, i)' <=> Holds(w, i)
  BY <1>1 DEF Holds
<1> QED BY <1>1, <1>2, <1>3, Elsewhere DEF IInv

-----------------------------------------------------------------------------
(* The invariant *)

(* It holds in the empty store,                                             *)
LEMMA InitInv == Init => IInv
<1> SUFFICES ASSUME Init PROVE IInv
  OBVIOUS
<1>1. TypeOK
  BY DEF Init, TypeOK
<1>2. ASSUME NEW i \in Ids PROVE Sound(i)
  <2>1. kv[Slot(i)] = NoRow /\ kv[Decided(i)] = NoRow /\ \A w \in Workers : ~Holds(w, i)
    BY KeyFacts DEF Init, Holds
  <2>2. \A p \in Places : ~At(p, i)
    BY <2>1, AtFacts DEF Init, Places
  <2> QED BY <2>1, <2>2 DEF Init, Sound, Placed, RowsAgree, Answered
<1> QED BY <1>1, <1>2 DEF IInv

(* and every step keeps it.                                                 *)
LEMMA NextInv == IInv /\ [Next]_vars => IInv'
<1> SUFFICES ASSUME IInv, [Next]_vars PROVE IInv'
  OBVIOUS
<1>1. CASE UNCHANGED vars
  <2>1. TypeOK'
    BY <1>1 DEF IInv, TypeOK, vars, history
  <2>2. \A w \in Workers, i \in Ids : Holds(w, i)' <=> Holds(w, i)
    BY <1>1 DEF Holds, vars
  <2>3. /\ kv' = kv /\ job' = job /\ UNCHANGED history
    BY <1>1 DEF vars
  <2> QED BY <2>1, <2>2, <2>3, Elsewhere DEF IInv
<1>2. ASSUME NEW i \in Ids, NEW a \in Actions, NEW size \in Size, NEW ttl \in Ttls,
             Submit(i, a, size, ttl)
      PROVE  IInv'
  BY <1>2, SubmitStep
<1>3. ASSUME NEW w \in Workers, NEW i \in Ids, Decide(w, i) \/ Claim(w, i)
      PROVE  IInv'
  BY <1>3, DecideStep, ClaimStep
<1>4. ASSUME NEW w \in Workers, Approve(w) \/ ApproveFails(w) \/ ExecuteApproved(w)
                                \/ Evict(w) \/ ResolveCommitment(w) \/ Crash(w)
      PROVE  IInv'
  BY <1>4, ApproveStep, ApproveFailsStep, ExecuteStep, EvictStep, ResolveStep, CrashStep
<1>5. ASSUME NEW i \in Ids, Reject(i) PROVE IInv'
  BY <1>5, RejectStep
<1>6. ASSUME NEW n \in Names, NEW size \in SmallSize, NEW ttl \in Ttls \union {NoTtl},
             MemorySet(n, size, ttl)
      PROVE  IInv'
  BY <1>6, MemorySetStep
<1>7. ASSUME NEW w \in Workers, NEW k \in Key, MemoryGet(w, k) PROVE IInv'
  BY <1>7, MemoryGetStep
<1>8. ASSUME NEW k \in Key, MemoryDelete(k) PROVE IInv'
  BY <1>8, MemoryDeleteStep
<1>9. ASSUME NEW c \in Commitments, NEW size \in SmallSize, TrackCommitment(c, size) PROVE IInv'
  BY <1>9, TrackStep
<1>10. ASSUME NEW w \in Workers, NEW c \in Commitments, NEW to \in {"done", "cancelled"},
              ResolveRead(w, c, to)
       PROVE  IInv'
  BY <1>10, ResolveReadStep
<1>11. CASE Tick
  BY <1>11, TickStep
<1> QED BY <1>1, <1>2, <1>3, <1>4, <1>5, <1>6, <1>7, <1>8, <1>9, <1>10, <1>11 DEF Next

(* The invariant holds: the table, the calls and the histories have their   *)
(* types, and every approval is in one place that agrees with its row and   *)
(* with the answers that were given (approval_tools.py, models.py).         *)
THEOREM InductiveInv == Spec => []IInv
<1> QED BY InitInv, NextInv, PTL DEF Spec

(* The table, the calls of the workers and the histories have their types.  *)
THEOREM TypeCorrect == Spec => []TypeOK
<1>1. IInv => TypeOK
  BY DEF IInv
<1> QED BY <1>1, InductiveInv, PTL

(* An approval that was submitted is in exactly one place, whatever calls   *)
(* race for it: two approves, an approve and a reject, or two executions    *)
(* never both get it (consume, store.py).  The places it may be lost in are *)
(* those the code has: a missing tool, a crash, a decision that could not   *)
(* be stored, the cap, and memory_get of its expired row.                   *)
THEOREM AccountedHolds == Spec => []Accounted
<1>1. IInv => Accounted
  <2> SUFFICES ASSUME IInv, NEW i \in submitted
               PROVE  \E p \in Places : At(p, i) /\ \A q \in Places \ {p} : ~At(q, i)
    BY DEF Accounted
  <2>1. i \in Ids
    BY DEF IInv, TypeOK
  <2> QED BY <2>1 DEF IInv, Sound, Placed, InOnePlace
<1> QED BY <1>1, InductiveInv, PTL

(* A queued action is executed once at most, and only when a person has     *)
(* approved it and nobody has rejected it (execute_approved_action).        *)
THEOREM OnceAndApprovedHolds == Spec => []OnceAndApproved
<1>1. IInv => OnceAndApproved
  BY DEF IInv, Sound, Placed, Answered, OnceAndApproved
<1> QED BY <1>1, InductiveInv, PTL

(* What was answered holds: what list_pending_approvals shows can be        *)
(* decided and is nowhere else, and what was approved can be executed until *)
(* it is executed, lost with a worker, pushed out by the cap, or deleted by *)
(* memory_get after it has expired (store.py:334).                          *)
THEOREM AnswersKept == Spec => []AnswersHold
<1>1. IInv => AnswersHold
  <2> SUFFICES ASSUME IInv PROVE AnswersHold
    OBVIOUS
  <2>1. ASSUME NEW limit \in 1..2, NEW L \in ListPending(limit), NEW i \in L
        PROVE  Consumable(Slot(i), "pending") /\ ~\E p \in Places \ {"slot"} : At(p, i)
    <3>1. PICK M \in List("approval", limit) : L = PendingOf(M)
      BY DEF ListPending
    <3>2. PICK k \in M : kv[k].val.status = "pending" /\ i = k.id
      BY <3>1 DEF PendingOf
    <3>3. k \in Key /\ k.ns = "approval" /\ kv[k] # NoRow
      BY <3>1 DEF List, RowsOf
    <3>4. PICK j \in Ids : k = Slot(j) \/ k = Decided(j)
      BY <3>3, KeyFacts
    <3>5. j = i /\ Sound(i) /\ i \in Ids
      BY <3>2, <3>4, KeyFacts DEF IInv
    <3>6. k = Slot(i)
      BY <3>2, <3>3, <3>4, <3>5 DEF Sound, RowsAgree
    <3>7. At("slot", i) /\ "slot" \in Places
      BY <3>3, <3>5, <3>6, AtFacts DEF Places
    <3>8. InOnePlace(i)
      BY <3>5, <3>7 DEF Sound, Placed
    <3> QED BY <3>2, <3>3, <3>5, <3>6, <3>7, <3>8, OnlyThere DEF Consumable
  <2>2. ASSUME NEW i \in approved \ (unrun \union died \union pruned \union expired)
        PROVE  \/ kv[Decided(i)] # NoRow /\ kv[Decided(i)].val.status = "approved"
               \/ \E w \in Workers : Holds(w, i) /\ job[w].pc = "executing"
               \/ ran[i] = 1
    <3>1. i \in Ids /\ Sound(i) /\ ran[i] \in Nat
      BY DEF IInv, TypeOK
    <3>2. i \in submitted /\ InOnePlace(i)
      BY <3>1 DEF Sound, Answered, Placed
    <3>3. PICK p \in Places : At(p, i)
      BY <3>2 DEF InOnePlace
    <3>4. /\ ~At("slot", i) /\ ~At("rejected", i) /\ ~At("unrun", i) /\ ~At("died", i)
          /\ ~At("pruned", i) /\ ~At("expired", i)
      BY <3>1, AtFacts DEF Sound, Answered
    <3>5. ~At("failed", i) /\ p \in {"decided", "held", "ran"}
      BY <3>1, <3>3, <3>4, AtFacts DEF Sound, Answered, Places
    <3> QED BY <3>1, <3>3, <3>5, AtFacts DEF Sound, RowsAgree, Answered, Placed
  <2> QED BY <2>1, <2>2 DEF AnswersHold
<1> QED BY <1>1, InductiveInv, PTL
=============================================================================
