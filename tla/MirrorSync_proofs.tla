-------------------------- MODULE MirrorSync_proofs --------------------------
(***************************************************************************)
(* What the delta sync guarantees for any number of messages, tool calls    *)
(* and failures, and for pages of any size.                                 *)
(*                                                                          *)
(* The two properties of the mirror are not inductive: what a running       *)
(* cycle will store and delete is in its lists, so the invariant says of    *)
(* every message how the lists, the stream's state and the tables stand to  *)
(* each other at each point of a cycle (ItemOK).                            *)
(*                                                                          *)
(* Then what a walk through mail may miss (SearchPaging), with the mirror   *)
(* or with Exchange.  Its invariant (PagingInv) says that what a walk has   *)
(* not seen yet is, but for as many as changes account for, among what the  *)
(* next page or a later one will show: at the offset or behind it in one    *)
(* folder (Border, AloneOK); of several folders, among what they have given *)
(* and have still to give (Multi), but for a set that changes hide (Hides). *)
(* A page keeps it because the hits have the same places in any order of    *)
(* the calls to the folders (SamePlaces), and sorting puts a message behind *)
(* exactly those that are newer.                                            *)
(***************************************************************************)
EXTENDS MirrorSync, MailWalks, Ranking, FiniteSetTheorems, SequenceTheorems, WellFoundedInduction, TLAPS

Mirrored(i) == rows[i] # NoRow /\ rows[i].cat = box[i].cat
Covers(s, i) == box[i].here /\ s[i] # 0 /\ s[i] >= box[i].edit
Tracked(i) == i \notin aged \union touched
Running == cycle.pc # "idle"

(* Its content is in the lists, or it was in the mirror all along           *)
Listed(i) ==
  IF cycle.pc \in {"fetch", "upsert"} /\ cycle.up[i] # NoRow
  THEN cycle.up[i].cat = box[i].cat ELSE Mirrored(i)

ItemOK(i) ==
  /\ i \in cycle.del => ~box[i].here /\ box[i].at # 0
  /\ box[i].edit <= box[i].at
  /\ token[i] <= box[i].at /\ cycle.seen[i] <= box[i].at
  /\ box[i].here => box[i].at # 0
  /\ cycle.up[i] # NoRow => cycle.seen[i] # 0 \/ i \in cycle.del
  /\ Running /\ token[i] # 0 /\ cycle.seen[i] = 0 => i \in cycle.del
  /\ cycle.pc = "flags" /\ i \in cycle.del => rows[i] = NoRow
  /\ Running /\ Covers(cycle.seen, i) /\ Tracked(i) => Listed(i)
  /\ Covers(token, i) /\ Tracked(i) => Mirrored(i)
  /\ rows[i] # NoRow => token[i] # 0 \/ i \in interrupted \union Stored

JobsOK ==
  /\ job = [t \in Tools |-> job[t]]
  /\ \A t \in Tools : job[t] # NoJob => box[job[t].item].at # 0

IInv == TypeOK /\ JobsOK /\ \A i \in Items : ItemOK(i)

-----------------------------------------------------------------------------
(* An empty mirror of an empty mailbox.                                     *)
LEMMA InitInv == Init => IInv
<1> SUFFICES ASSUME Init PROVE IInv
  OBVIOUS
<1>1. (CHOOSE c \in Cats : TRUE) \in Cats
  BY CatsAssumption
<1>2. New \in Message
  BY <1>1 DEF New, Message, Init
<1>3. Idle \in [pc : {"idle", "fetch", "upsert", "delete", "flags"},
                seen : [Items -> 0..changes], up : [Items -> Row \union {NoRow}],
                del : SUBSET Items, flags : [Items -> {"none", "read", "unread"}]]
  BY DEF Idle, Unseen, NoRows, NoFlags, Init
<1>4. TypeOK
  BY <1>2, <1>3 DEF Init, TypeOK, NoRows, Unseen, Idle
<1>5. JobsOK
  BY DEF Init, JobsOK
<1>6. ASSUME NEW i \in Items PROVE ItemOK(i)
  BY DEF Init, ItemOK, New, Running, Covers, Idle, Unseen, NoRows, NoFlags
<1> QED BY <1>4, <1>5, <1>6 DEF IInv

(* Whoever changes the mailbox: a change is newer than what any state       *)
(* covers, and a message that is gone does not come back                    *)
LEMMA ChangeInv ==
  ASSUME IInv, NEW i \in Items, NEW m \in Message', Change(i, m),
         m.at = changes + 1,
         \/ m.edit = changes + 1
         \/ m.edit = box[i].edit /\ m.cat = box[i].cat,
         m.here => box[i].here \/ (box[i].at = 0 /\ m.edit = changes + 1),
         UNCHANGED <<rows, token, cycle, faults, touched, interrupted>>,
         job' = [t \in Tools |-> job'[t]],
         \A t \in Tools : job'[t] # NoJob =>
           job'[t] = job[t] \/ (Patching(job[t])' /\ job'[t].item = i)
  PROVE  IInv'
<1>1. /\ changes \in Nat /\ changes' = changes + 1
      /\ box' = [box EXCEPT ![i] = m] /\ aged' = aged
  BY DEF Change, IInv, TypeOK
<1>2. box' \in [Items -> Message']
  <2>1. \A k \in Items : box[k] \in Message'
    BY <1>1 DEF IInv, TypeOK, Message
  <2> QED BY <1>1, <2>1 DEF IInv, TypeOK
<1>3. \A k \in Items : box'[k] = IF k = i THEN m ELSE box[k]
  BY <1>1 DEF IInv, TypeOK
<1>4. ASSUME NEW k \in Items, ~box[k].here, box[k].at # 0
      PROVE  ~box'[k].here
  BY <1>3, <1>4
<1>5. ASSUME NEW k \in Items
      PROVE  ItemOK(k)'
  <2>1. ItemOK(k) /\ box[k] \in Message /\ token[k] \in 0..changes
        /\ cycle.seen[k] \in 0..changes
    BY <1>5 DEF IInv, TypeOK
  <2>2. CASE k # i
    BY <1>1, <1>3, <2>1, <2>2 DEF ItemOK, Covers, Tracked, Running, Listed, Mirrored, Stored
  <2>3. CASE k = i
    BY <1>1, <1>3, <1>4, <2>1, <2>3
       DEF ItemOK, Covers, Tracked, Running, Listed, Mirrored, Stored, Message
  <2> QED BY <2>2, <2>3
<1>6. TypeOK'
  <2>1. token' \in [Items -> 0..changes'] /\ cycle.seen \in [Items -> 0..changes']
    BY <1>1 DEF IInv, TypeOK
  <2>2. cycle' \in [pc : {"idle", "fetch", "upsert", "delete", "flags"},
                    seen : [Items -> 0..changes'], up : [Items -> Row \union {NoRow}],
                    del : SUBSET Items, flags : [Items -> {"none", "read", "unread"}]]
    BY <1>1, <2>1 DEF IInv, TypeOK
  <2>3. ASSUME NEW k \in Items, cycle'.pc # "idle"
        PROVE  cycle'.seen[k] >= token'[k] \/ (~box'[k].here /\ cycle'.seen[k] = 0)
    <3>1. ItemOK(k) /\ token[k] \in 0..changes /\ cycle.seen[k] \in 0..changes
      BY DEF IInv, TypeOK
    <3>2. cycle.seen[k] >= token[k] \/ (~box[k].here /\ cycle.seen[k] = 0)
      BY <2>3 DEF IInv, TypeOK
    <3>3. box[k].at = 0 => token[k] = 0 /\ cycle.seen[k] = 0
      BY <3>1, <1>1 DEF ItemOK, IInv, TypeOK, Message
    <3> QED BY <3>1, <3>2, <3>3, <1>1, <1>4
  <2>4. ASSUME NEW t \in Tools, job'[t] # NoJob
        PROVE  Patching(job[t])'
    <3>1. CASE job'[t] = job[t]
      <4>1. Patching(job[t]) /\ box[job[t].item].at # 0 /\ job[t].item \in Items
        BY <2>4, <3>1 DEF IInv, TypeOK, JobsOK, Patching
      <4>2. job[t].kind = "tombstone" => ~box'[job[t].item].here
        BY <4>1, <1>4 DEF Patching
      <4> QED BY <3>1, <4>1, <4>2 DEF Patching
    <3> QED BY <3>1, <2>4
  <2>5. /\ faults' \in Nat /\ changes' \in Nat /\ aged' \subseteq Items
        /\ rows' \in [Items -> Row \union {NoRow}]
        /\ touched' \subseteq Items /\ interrupted' \subseteq Items
    BY <1>1 DEF IInv, TypeOK
  <2>6. cycle'.pc = "idle" => cycle' = Idle
    BY DEF IInv, TypeOK
  <2> QED BY <1>2, <2>1, <2>2, <2>3, <2>4, <2>5, <2>6 DEF TypeOK, Idle, Unseen, NoRows, NoFlags
<1>7. JobsOK'
  <2>1. ASSUME NEW t \in Tools, job'[t] # NoJob
        PROVE  box'[job'[t].item].at # 0
    <3>1. CASE job'[t].item = i
      BY <3>1, <1>1, <1>3
    <3>2. CASE job'[t] = job[t]
      <4>1. Patching(job[t]) /\ box[job[t].item].at # 0
        BY <2>1, <3>2 DEF IInv, TypeOK, JobsOK
      <4> QED BY <3>2, <4>1, <1>1, <1>3 DEF Patching
    <3> QED BY <2>1, <3>1, <3>2
  <2> QED BY <2>1 DEF JobsOK
<1> QED BY <1>5, <1>6, <1>7 DEF IInv

(* A change of some fields of a message is a message again                  *)
LEMMA MessageFields ==
  ASSUME NEW n \in Nat, NEW m,
         NEW here \in BOOLEAN, NEW at \in 0..n, NEW edit \in 0..n,
         NEW read \in BOOLEAN, NEW cat \in Cats,
         m = [here |-> here, at |-> at, edit |-> edit, read |-> read, cat |-> cat]
  PROVE  /\ m \in [here : BOOLEAN, at : 0..n, edit : 0..n, read : BOOLEAN, cat : Cats]
         /\ m.here = here /\ m.at = at /\ m.edit = edit /\ m.read = read /\ m.cat = cat
OBVIOUS

(* What each kind of change makes of a message.                             *)
LEMMA NewMessage ==
  ASSUME IInv, NEW i \in Items, NEW m, Change(i, m),
         \/ m = Arrived
         \/ \E read \in BOOLEAN : m = Marked(i, read)
         \/ \E cat \in Cats : m = Categorized(i, cat)
         \/ m = Removed(i)
  PROVE  /\ m \in Message' /\ m.at = changes + 1
         /\ \/ m.edit = changes + 1
            \/ m.edit = box[i].edit /\ m.cat = box[i].cat
         /\ m.here => m.edit = changes + 1 \/ box[i].here
         /\ m # Arrived /\ m.here => box[i].here
<1> DEFINE n == changes + 1
           b == box[i]
<1>1. changes \in Nat /\ n \in Nat /\ changes' = n /\ b \in Message
  BY DEF IInv, TypeOK, Change
<1>2. /\ b.here \in BOOLEAN /\ b.read \in BOOLEAN /\ b.cat \in Cats
      /\ b.at \in 0..n /\ b.edit \in 0..n /\ n \in 0..n
      /\ b = [here |-> b.here, at |-> b.at, edit |-> b.edit, read |-> b.read, cat |-> b.cat]
  BY <1>1 DEF Message
<1>3. Message' = [here : BOOLEAN, at : 0..n, edit : 0..n, read : BOOLEAN, cat : Cats]
  BY <1>1 DEF Message
<1>4. CASE m = Arrived
  <2> DEFINE c == CHOOSE c \in Cats : TRUE
  <2>1. c \in Cats
    BY CatsAssumption
  <2>2. m = [here |-> TRUE, at |-> n, edit |-> n, read |-> FALSE, cat |-> c]
    BY <1>4 DEF Arrived, New
  <2> HIDE DEF c
  <2> QED BY <1>1, <1>2, <1>3, <1>4, <2>1, <2>2, MessageFields
<1>5. ASSUME NEW read \in BOOLEAN, m = Marked(i, read)
      PROVE  /\ m \in Message' /\ m.at = n /\ m.edit = b.edit
             /\ m.cat = b.cat /\ m.here = b.here
  <2>1. m = [here |-> b.here, at |-> n, edit |-> b.edit, read |-> read, cat |-> b.cat]
    BY <1>2, <1>5, Zenon DEF Marked
  <2> QED BY <1>1, <1>2, <1>3, <2>1, MessageFields
<1>6. ASSUME NEW cat \in Cats, m = Categorized(i, cat)
      PROVE  m \in Message' /\ m.at = n /\ m.edit = n /\ m.here = b.here
  <2>1. m = [here |-> b.here, at |-> n, edit |-> n, read |-> b.read, cat |-> cat]
    BY <1>2, <1>6 DEF Categorized
  <2> QED BY <1>1, <1>2, <1>3, <2>1, MessageFields
<1>7. ASSUME m = Removed(i)
      PROVE  /\ m \in Message' /\ m.at = n /\ m.edit = b.edit
             /\ m.cat = b.cat /\ ~m.here
  <2>1. m = [here |-> FALSE, at |-> n, edit |-> b.edit, read |-> b.read, cat |-> b.cat]
    BY <1>2, <1>7 DEF Removed
  <2> QED BY <1>1, <1>2, <1>3, <2>1, MessageFields
<1> QED BY <1>4, <1>5, <1>6, <1>7

(* Another client's change keeps the invariant.                             *)
LEMMA OutlookInv ==
  ASSUME IInv, NEW i \in Items, Outlook(i)
  PROVE  IInv'
<1>1. PICK m : /\ Change(i, m)
               /\ \/ m = Arrived /\ box[i].at = 0
                  \/ m = Marked(i, ~box[i].read) /\ box[i].here
                  \/ (\E cat \in Cats : m = Categorized(i, cat)) /\ box[i].here
                  \/ m = Removed(i) /\ box[i].here
  BY DEF Outlook
<1>2. (~box[i].read) \in BOOLEAN
  OBVIOUS
<1>3. /\ m \in Message' /\ m.at = changes + 1
      /\ \/ m.edit = changes + 1
         \/ m.edit = box[i].edit /\ m.cat = box[i].cat
      /\ m.here => m.edit = changes + 1 \/ box[i].here
  BY <1>1, <1>2, NewMessage
<1>4. m.here => box[i].here \/ (box[i].at = 0 /\ m.edit = changes + 1)
  BY <1>1, <1>3
<1>5. /\ UNCHANGED <<rows, token, cycle, job, faults, touched, interrupted>>
      /\ job' = [t \in Tools |-> job'[t]]
  BY DEF Outlook, history, IInv, JobsOK
<1> QED BY <1>1, <1>3, <1>4, <1>5, ChangeInv

(* A tool call leaves a patch for the message it has worked on              *)
LEMMA PatchShape ==
  ASSUME IInv, NEW t \in Tools, NEW kind, NEW i, NEW val, Patch(t, kind, i, val)
  PROVE  /\ job' = [u \in Tools |-> job'[u]]
         /\ \A u \in Tools \ {t} : job'[u] = job[u]
         /\ job'[t] = [kind |-> kind, item |-> i, val |-> val]
         /\ job'[t].kind = kind /\ job'[t].item = i /\ job'[t].val = val
<1>1. /\ job' = [u \in Tools |-> job'[u]]
      /\ \A u \in Tools \ {t} : job'[u] = job[u]
      /\ job'[t] = [kind |-> kind, item |-> i, val |-> val]
  BY DEF Patch, IInv, JobsOK
<1>2. job'[t].kind = kind /\ job'[t].item = i /\ job'[t].val = val
  BY <1>1
<1> QED BY <1>1, <1>2

(* A tool call's work at Exchange keeps the invariant.                      *)
LEMMA ToolInv ==
  ASSUME IInv, NEW t \in Tools, NEW i \in Items, UpdateMessage(t, i) \/ RemoveMessage(t, i)
  PROVE  IInv'
<1>1. /\ box[i].here /\ box[i] \in Message /\ box[i].at # 0
      /\ UNCHANGED <<rows, token, cycle, faults, touched, interrupted>>
  BY DEF UpdateMessage, RemoveMessage, history, IInv, TypeOK, ItemOK
<1>2. ASSUME NEW read \in BOOLEAN, Change(i, Marked(i, read)), Patch(t, "read", i, read)
      PROVE  IInv'
  <2> DEFINE m == Marked(i, read)
  <2>1. /\ m \in Message' /\ m.at = changes + 1
        /\ m.edit = changes + 1 \/ (m.edit = box[i].edit /\ m.cat = box[i].cat)
    BY <1>2, NewMessage
  <2>2. Patching(job[t])' /\ job'[t].item = i
    BY <1>2, PatchShape, Zenon DEF Patching
  <2>3. \A u \in Tools \ {t} : job'[u] = job[u]
    BY <1>2, PatchShape
  <2>4. Change(i, m)
    BY <1>2
  <2> HIDE DEF m
  <2> QED BY <1>1, <1>2, <2>1, <2>2, <2>3, <2>4, PatchShape, ChangeInv
<1>3. ASSUME NEW cat \in Cats, Change(i, Categorized(i, cat)), Patch(t, "categories", i, cat)
      PROVE  IInv'
  <2> DEFINE m == Categorized(i, cat)
  <2>1. /\ m \in Message' /\ m.at = changes + 1
        /\ m.edit = changes + 1 \/ (m.edit = box[i].edit /\ m.cat = box[i].cat)
    BY <1>3, NewMessage
  <2>2. Patching(job[t])' /\ job'[t].item = i
    BY <1>3, PatchShape, Zenon DEF Patching
  <2>3. \A u \in Tools \ {t} : job'[u] = job[u]
    BY <1>3, PatchShape
  <2>4. Change(i, m)
    BY <1>3
  <2> HIDE DEF m
  <2> QED BY <1>1, <1>3, <2>1, <2>2, <2>3, <2>4, PatchShape, ChangeInv
<1>4. ASSUME NEW cat \in Cats, Patch(t, "categories", i, cat), UNCHANGED mailbox
      PROVE  IInv'
  <2>1. Patching(job[t])' /\ job'[t].item = i
    BY <1>4, PatchShape, Zenon DEF Patching
  <2>2. \A u \in Tools \ {t} : job'[u] = job[u]
    BY <1>4, PatchShape
  <2>3. \A u \in Tools : job'[u] # NoJob => Patching(job[u])'
    <3> SUFFICES ASSUME NEW u \in Tools, u # t, job'[u] # NoJob
                 PROVE  Patching(job[u])'
      BY <2>1
    <3>1. job'[u] = job[u] /\ Patching(job[u])
      BY <2>2 DEF IInv, TypeOK
    <3> QED BY <1>4, <3>1 DEF Patching, mailbox
  <2>4. JobsOK'
    <3>1. job' = [u \in Tools |-> job'[u]]
      BY <1>4, PatchShape
    <3>2. \A u \in Tools : job'[u] # NoJob => box[job'[u].item].at # 0
      BY <1>1, <2>1, <2>2 DEF IInv, JobsOK
    <3> QED BY <1>4, <3>1, <3>2 DEF JobsOK, mailbox
  <2>5. TypeOK'
    BY <1>1, <1>4, <2>3 DEF IInv, TypeOK, mailbox, Message, Idle, Unseen, NoRows, NoFlags
  <2>6. ASSUME NEW k \in Items PROVE ItemOK(k)'
    BY <1>1, <1>4, <2>6
       DEF IInv, ItemOK, mailbox, Covers, Tracked, Running, Listed, Mirrored, Stored
  <2> QED BY <2>4, <2>5, <2>6 DEF IInv
<1>5. CASE RemoveMessage(t, i)
  <2> DEFINE m == Removed(i)
  <2>1. Change(i, m) /\ Patch(t, "tombstone", i, TRUE)
    BY <1>5 DEF RemoveMessage
  <2>2. /\ m \in Message' /\ m.at = changes + 1
        /\ m.edit = changes + 1 \/ (m.edit = box[i].edit /\ m.cat = box[i].cat)
    BY <2>1, NewMessage
  <2>3. box' = [box EXCEPT ![i] = m] /\ box'[i] = m /\ ~m.here
    BY <1>1, <2>1 DEF Change, IInv, TypeOK, Removed, Message
  <2>4. Patching(job[t])' /\ job'[t].item = i
    <3>1. job'[t].kind = "tombstone" /\ job'[t].item = i
      BY <2>1, PatchShape
    <3> QED BY <3>1, <2>3 DEF Patching
  <2>5. \A u \in Tools \ {t} : job'[u] = job[u]
    BY <2>1, PatchShape
  <2>6. job' = [u \in Tools |-> job'[u]]
    BY <2>1, PatchShape
  <2> HIDE DEF m
  <2> QED BY <1>1, <2>1, <2>2, <2>3, <2>4, <2>5, <2>6, ChangeInv
<1> QED BY <1>2, <1>3, <1>4, <1>5 DEF UpdateMessage

-----------------------------------------------------------------------------
(* Steps that leave the mailbox and the tool calls alone                    *)
LEMMA SameBox ==
  ASSUME IInv, UNCHANGED <<mailbox, job, faults, touched, interrupted>>,
         rows' \in [Items -> Row \union {NoRow}],
         token' \in [Items -> 0..changes],
         cycle' \in [pc : {"idle", "fetch", "upsert", "delete", "flags"},
                     seen : [Items -> 0..changes], up : [Items -> Row \union {NoRow}],
                     del : SUBSET Items, flags : [Items -> {"none", "read", "unread"}]],
         cycle'.pc = "idle" => cycle' = Idle,
         \A i \in Items : cycle'.pc # "idle" =>
           cycle'.seen[i] >= token'[i] \/ (~box[i].here /\ cycle'.seen[i] = 0),
         \A i \in Items : ItemOK(i)'
  PROVE  IInv'
<1>1. TypeOK'
  BY DEF IInv, TypeOK, mailbox, Patching, Message, Idle, Unseen, NoRows, NoFlags
<1>2. JobsOK'
  BY DEF IInv, JobsOK, mailbox
<1> QED BY <1>1, <1>2 DEF IInv

(* A new cycle's stream begins where the saved state ends.                  *)
LEMMA StartInv ==
  ASSUME IInv, StartCycle
  PROVE  IInv'
<1>1. /\ cycle' = [pc |-> "fetch", seen |-> token, up |-> NoRows, del |-> {}, flags |-> NoFlags]
      /\ UNCHANGED <<mailbox, job, faults, touched, interrupted, rows, token>>
      /\ cycle.pc = "idle"
  BY DEF StartCycle, Idle, history
<1>2. cycle' \in [pc : {"idle", "fetch", "upsert", "delete", "flags"},
                  seen : [Items -> 0..changes], up : [Items -> Row \union {NoRow}],
                  del : SUBSET Items, flags : [Items -> {"none", "read", "unread"}]]
  BY <1>1 DEF IInv, TypeOK, NoRows, NoFlags
<1>3. ASSUME NEW i \in Items
      PROVE  /\ ItemOK(i)'
             /\ cycle'.seen[i] >= token'[i]
  <2>1. ItemOK(i) /\ token[i] \in 0..changes /\ changes \in Nat
    BY DEF IInv, TypeOK
  <2>2. cycle'.seen[i] = token[i] /\ cycle'.up[i] = NoRow /\ cycle'.del = {}
    BY <1>1 DEF NoRows
  <2> QED BY <1>1, <2>1, <2>2
          DEF ItemOK, mailbox, Covers, Tracked, Running, Listed, Mirrored, Stored
<1> QED BY <1>1, <1>2, <1>3, SameBox DEF IInv, TypeOK

(* The upserts of the cycle reach the tables.                               *)
LEMMA UpsertInv ==
  ASSUME IInv, Upsert
  PROVE  IInv'
<1>1. /\ cycle' = [cycle EXCEPT !.pc = "delete"] /\ cycle.pc = "upsert"
      /\ UNCHANGED <<mailbox, job, faults, touched, interrupted, token>>
      /\ rows' = [i \in Items |-> IF cycle.up[i] = NoRow THEN rows[i] ELSE cycle.up[i]]
  BY DEF Upsert, history
<1>2. /\ cycle' \in [pc : {"idle", "fetch", "upsert", "delete", "flags"},
                     seen : [Items -> 0..changes], up : [Items -> Row \union {NoRow}],
                     del : SUBSET Items, flags : [Items -> {"none", "read", "unread"}]]
      /\ cycle'.pc = "delete" /\ cycle'.seen = cycle.seen /\ cycle'.up = cycle.up
      /\ cycle'.del = cycle.del
      /\ rows' \in [Items -> Row \union {NoRow}]
  BY <1>1 DEF IInv, TypeOK
<1>3. ASSUME NEW i \in Items
      PROVE  /\ ItemOK(i)'
             /\ cycle'.seen[i] >= token'[i] \/ (~box[i].here /\ cycle'.seen[i] = 0)
  <2>1. /\ ItemOK(i) /\ token[i] \in 0..changes /\ cycle.seen[i] \in 0..changes
        /\ changes \in Nat /\ box[i] \in Message
        /\ cycle.seen[i] >= token[i] \/ (~box[i].here /\ cycle.seen[i] = 0)
    BY <1>1 DEF IInv, TypeOK
  <2>2. rows'[i] = IF cycle.up[i] = NoRow THEN rows[i] ELSE cycle.up[i]
    BY <1>1
  <2> QED BY <1>1, <1>2, <2>1, <2>2
          DEF ItemOK, mailbox, Covers, Tracked, Running, Listed, Mirrored, Stored, Message
<1> QED BY <1>1, <1>2, <1>3, SameBox DEF IInv, TypeOK

(* The deletions of the cycle reach the tables.                             *)
LEMMA DeleteInv ==
  ASSUME IInv, Delete
  PROVE  IInv'
<1>1. /\ cycle' = [cycle EXCEPT !.pc = "flags"] /\ cycle.pc = "delete"
      /\ UNCHANGED <<mailbox, job, faults, touched, interrupted, token>>
      /\ rows' = [i \in Items |-> IF i \in cycle.del THEN NoRow ELSE rows[i]]
  BY DEF Delete, Gone, history
<1>2. /\ cycle' \in [pc : {"idle", "fetch", "upsert", "delete", "flags"},
                     seen : [Items -> 0..changes], up : [Items -> Row \union {NoRow}],
                     del : SUBSET Items, flags : [Items -> {"none", "read", "unread"}]]
      /\ cycle'.pc = "flags" /\ cycle'.seen = cycle.seen /\ cycle'.up = cycle.up
      /\ cycle'.del = cycle.del
      /\ rows' \in [Items -> Row \union {NoRow}]
  BY <1>1 DEF IInv, TypeOK
<1>3. ASSUME NEW i \in Items
      PROVE  /\ ItemOK(i)'
             /\ cycle'.seen[i] >= token'[i] \/ (~box[i].here /\ cycle'.seen[i] = 0)
  <2>1. /\ ItemOK(i)
        /\ cycle.seen[i] >= token[i] \/ (~box[i].here /\ cycle.seen[i] = 0)
    BY <1>1 DEF IInv, TypeOK
  <2>2. rows'[i] = IF i \in cycle.del THEN NoRow ELSE rows[i]
    BY <1>1
  <2> QED BY <1>1, <1>2, <2>1, <2>2
          DEF ItemOK, mailbox, Covers, Tracked, Running, Listed, Mirrored, Stored
<1> QED BY <1>1, <1>2, <1>3, SameBox DEF IInv, TypeOK

(* A read flag brings no row and changes no content.                        *)
LEMMA SetReadRow ==
  ASSUME IInv, NEW i \in Items, NEW read \in BOOLEAN
  PROVE  /\ SetRead(i, read) \in [Items -> Row \union {NoRow}]
         /\ \A k \in Items : /\ SetRead(i, read)[k] = NoRow <=> rows[k] = NoRow
                             /\ rows[k] # NoRow => SetRead(i, read)[k].cat = rows[k].cat
<1>1. CASE rows[i] = NoRow
  BY <1>1 DEF SetRead, IInv, TypeOK
<1>2. CASE rows[i] # NoRow
  <2> DEFINE row == [rows[i] EXCEPT !.read = read]
  <2>1. rows[i] \in Row
    BY <1>2 DEF IInv, TypeOK
  <2>2. row \in Row /\ row.cat = rows[i].cat
    BY <2>1 DEF Row
  <2>3. SetRead(i, read) = [rows EXCEPT ![i] = row]
    BY <1>2 DEF SetRead
  <2> HIDE DEF row
  <2> QED BY <1>2, <2>1, <2>2, <2>3, RowAssumption DEF IInv, TypeOK
<1> QED BY <1>1, <1>2

(* A read flag of the cycle reaches the tables.                             *)
LEMMA SetFlagInv ==
  ASSUME IInv, NEW i \in Items, SetFlag(i)
  PROVE  IInv'
<1>1. /\ cycle' = [cycle EXCEPT !.flags[i] = "none"] /\ cycle.pc = "flags"
      /\ UNCHANGED <<mailbox, job, faults, touched, interrupted, token>>
      /\ rows' = SetRead(i, cycle.flags[i] = "read")
  BY DEF SetFlag, history
<1>2. /\ cycle' \in [pc : {"idle", "fetch", "upsert", "delete", "flags"},
                     seen : [Items -> 0..changes], up : [Items -> Row \union {NoRow}],
                     del : SUBSET Items, flags : [Items -> {"none", "read", "unread"}]]
      /\ cycle'.pc = "flags" /\ cycle'.seen = cycle.seen /\ cycle'.up = cycle.up
      /\ cycle'.del = cycle.del
  BY <1>1 DEF IInv, TypeOK
<1>3. /\ rows' \in [Items -> Row \union {NoRow}]
      /\ \A k \in Items : /\ rows'[k] = NoRow <=> rows[k] = NoRow
                          /\ rows[k] # NoRow => rows'[k].cat = rows[k].cat
  BY <1>1, SetReadRow
<1>4. ASSUME NEW k \in Items
      PROVE  /\ ItemOK(k)'
             /\ cycle'.seen[k] >= token'[k] \/ (~box[k].here /\ cycle'.seen[k] = 0)
  <2>1. /\ ItemOK(k)
        /\ cycle.seen[k] >= token[k] \/ (~box[k].here /\ cycle.seen[k] = 0)
    BY <1>1 DEF IInv, TypeOK
  <2> QED BY <1>1, <1>2, <1>3, <2>1
          DEF ItemOK, mailbox, Covers, Tracked, Running, Listed, Mirrored, Stored
<1> QED BY <1>1, <1>2, <1>3, <1>4, SameBox DEF IInv, TypeOK

(* A page extends the lists by all that its state covers.                   *)
LEMMA FetchInv ==
  ASSUME IInv, NEW page \in SUBSET Items, FetchPage(page)
  PROVE  IInv'
<1> DEFINE last == page = Pending(cycle.seen)
<1>1. /\ cycle' = Collected(page, last) /\ cycle.pc = "fetch"
      /\ page \subseteq Pending(cycle.seen)
      /\ UNCHANGED <<mailbox, job, faults, touched, interrupted, rows, token>>
  BY DEF FetchPage, Page, history
<1>2. /\ cycle'.pc = (IF last THEN "upsert" ELSE "fetch")
      /\ cycle'.seen = [i \in Items |-> IF i \notin page THEN cycle.seen[i]
                                       ELSE IF box[i].here THEN box[i].at ELSE 0]
      /\ cycle'.up = [i \in Items |-> IF i \in Upserts(page) \ aged
                                     THEN RowOf(i) ELSE cycle.up[i]]
      /\ cycle'.del = cycle.del \union Deletes(page)
  BY <1>1 DEF Collected
<1>3. cycle' \in [pc : {"idle", "fetch", "upsert", "delete", "flags"},
                  seen : [Items -> 0..changes], up : [Items -> Row \union {NoRow}],
                  del : SUBSET Items, flags : [Items -> {"none", "read", "unread"}]]
  <2>1. cycle'.seen \in [Items -> 0..changes]
    BY <1>2 DEF IInv, TypeOK, Message
  <2>2. \A i \in Items : RowOf(i) \in Row
    BY DEF IInv, TypeOK, Message, RowOf, Row
  <2>3. cycle'.up \in [Items -> Row \union {NoRow}]
    BY <1>2, <2>2 DEF IInv, TypeOK
  <2>4. cycle'.del \in SUBSET Items
    BY <1>2 DEF Deletes, IInv, TypeOK
  <2>5. cycle'.flags \in [Items -> {"none", "read", "unread"}]
    BY <1>1 DEF Collected, IInv, TypeOK
  <2>6. cycle' = [pc |-> cycle'.pc, seen |-> cycle'.seen, up |-> cycle'.up,
                  del |-> cycle'.del, flags |-> cycle'.flags]
    BY <1>1 DEF Collected
  <2>7. cycle'.pc \in {"idle", "fetch", "upsert", "delete", "flags"}
    BY <1>2
  <2> QED BY <2>1, <2>3, <2>4, <2>5, <2>6, <2>7
<1>4. ASSUME NEW i \in Items
      PROVE  /\ ItemOK(i)'
             /\ cycle'.seen[i] >= token'[i] \/ (~box[i].here /\ cycle'.seen[i] = 0)
  <2>1. /\ ItemOK(i) /\ token[i] \in 0..changes /\ cycle.seen[i] \in 0..changes
        /\ changes \in Nat /\ box[i] \in Message
        /\ cycle.seen[i] >= token[i] \/ (~box[i].here /\ cycle.seen[i] = 0)
    BY <1>1 DEF IInv, TypeOK
  <2>2. CASE i \notin page
    <3>1. /\ cycle'.seen[i] = cycle.seen[i] /\ cycle'.up[i] = cycle.up[i]
          /\ i \in cycle'.del <=> i \in cycle.del
      BY <1>2, <2>2 DEF Upserts, Deletes
    <3> QED BY <1>1, <1>2, <2>1, <3>1
            DEF ItemOK, mailbox, Covers, Tracked, Running, Listed, Mirrored, Stored
  <2>3. CASE i \in page /\ ~box[i].here
    <3>1. /\ cycle'.seen[i] = 0 /\ cycle'.up[i] = cycle.up[i]
          /\ i \in cycle'.del /\ cycle.seen[i] # 0
      BY <1>1, <1>2, <2>3 DEF Upserts, Deletes, Pending
    <3>2. box[i].at # 0
      BY <2>1, <3>1 DEF ItemOK, Message
    <3> QED BY <1>1, <1>2, <2>1, <2>3, <3>1, <3>2
            DEF ItemOK, mailbox, Covers, Tracked, Running, Listed, Mirrored, Stored, Message
  <2>4. CASE i \in page /\ box[i].here
    <3>1. /\ cycle'.seen[i] = box[i].at
          /\ cycle'.up[i] = IF /\ cycle.seen[i] = 0 \/ box[i].edit > cycle.seen[i]
                               /\ i \notin aged
                            THEN RowOf(i) ELSE cycle.up[i]
          /\ i \in cycle'.del <=> i \in cycle.del
          /\ box[i].at > cycle.seen[i]
      BY <1>1, <1>2, <2>4 DEF Upserts, Deletes, Pending
    <3>2. RowOf(i) # NoRow /\ RowOf(i).cat = box[i].cat
      <4>1. RowOf(i) \in Row
        BY <2>1 DEF RowOf, Row, Message
      <4> QED BY <4>1, RowAssumption DEF RowOf
    <3> QED BY <1>1, <1>2, <2>1, <2>4, <3>1, <3>2
            DEF ItemOK, mailbox, Covers, Tracked, Running, Listed, Mirrored, Stored, Message
  <2> QED BY <2>2, <2>3, <2>4
<1> QED BY <1>1, <1>2, <1>3, <1>4, SameBox DEF IInv, TypeOK

(* What the lists held is in the tables when the state is saved             *)
LEMMA SaveInv ==
  ASSUME IInv, SaveToken
  PROVE  IInv'
<1>1. /\ cycle' = Idle /\ cycle.pc = "flags" /\ token' = cycle.seen
      /\ UNCHANGED <<mailbox, job, faults, touched, interrupted, rows>>
  BY DEF SaveToken, history
<1>2. /\ Idle \in [pc : {"idle", "fetch", "upsert", "delete", "flags"},
                   seen : [Items -> 0..changes], up : [Items -> Row \union {NoRow}],
                   del : SUBSET Items, flags : [Items -> {"none", "read", "unread"}]]
      /\ Idle.pc = "idle" /\ Idle.seen = Unseen /\ Idle.up = NoRows /\ Idle.del = {}
  BY DEF Idle, Unseen, NoRows, NoFlags, IInv, TypeOK
<1>3. ASSUME NEW i \in Items
      PROVE  ItemOK(i)'
  <2>1. /\ ItemOK(i) /\ Unseen[i] = 0 /\ NoRows[i] = NoRow /\ box[i] \in Message
    BY DEF IInv, TypeOK, Unseen, NoRows
  <2> QED BY <1>1, <1>2, <2>1
          DEF ItemOK, mailbox, Covers, Tracked, Running, Listed, Mirrored, Stored, Message
<1> QED BY <1>1, <1>2, <1>3, SameBox DEF IInv, TypeOK

(* A cycle that is cut off leaves its rows and no state                     *)
LEMMA CutOff ==
  ASSUME IInv, cycle' = Idle, faults' \in Nat, UNCHANGED <<mailbox, touched>>,
         interrupted' = interrupted \union Stored,
         Purge \/ UNCHANGED <<rows, token>>,
         \/ UNCHANGED job
         \/ job' = [t \in Tools |-> NoJob]
  PROVE  IInv'
<1>1. /\ Idle \in [pc : {"idle", "fetch", "upsert", "delete", "flags"},
                   seen : [Items -> 0..changes], up : [Items -> Row \union {NoRow}],
                   del : SUBSET Items, flags : [Items -> {"none", "read", "unread"}]]
      /\ Idle.pc = "idle" /\ Idle.seen = Unseen /\ Idle.up = NoRows /\ Idle.del = {}
  BY DEF Idle, Unseen, NoRows, NoFlags, IInv, TypeOK
<1>2. /\ rows' \in [Items -> Row \union {NoRow}] /\ token' \in [Items -> 0..changes]
      /\ Stored \subseteq Items
  BY DEF Purge, NoRows, Unseen, Stored, IInv, TypeOK
<1>3. JobsOK' /\ \A t \in Tools : job'[t] # NoJob => Patching(job[t])'
  BY DEF IInv, JobsOK, TypeOK, Patching, mailbox
<1>4. TypeOK'
  BY <1>1, <1>2, <1>3 DEF IInv, TypeOK, mailbox, Message, Idle, Unseen, NoRows, NoFlags
<1>5. ASSUME NEW i \in Items
      PROVE  ItemOK(i)'
  <2>1. /\ ItemOK(i) /\ Unseen[i] = 0 /\ NoRows[i] = NoRow /\ box[i] \in Message
    BY DEF IInv, TypeOK, Unseen, NoRows
  <2>2. \/ rows'[i] = rows[i] /\ token'[i] = token[i]
        \/ rows'[i] = NoRow /\ token'[i] = 0
    BY <2>1 DEF Purge
  <2> QED BY <1>1, <2>1, <2>2
          DEF ItemOK, mailbox, Covers, Tracked, Running, Listed, Mirrored, Stored, Message
<1> QED BY <1>3, <1>4, <1>5 DEF IInv

(* A failed cycle and a restart keep the invariant.                         *)
LEMMA FailsInv ==
  ASSUME IInv, CycleFails \/ Restart
  PROVE  IInv'
<1>1. faults' \in Nat
  BY DEF CycleFails, Restart, Fault, IInv, TypeOK
<1>2. CASE CycleFails
  BY <1>1, <1>2, CutOff DEF CycleFails
<1>3. CASE Restart
  BY <1>1, <1>3, CutOff DEF Restart
<1> QED BY <1>2, <1>3

(* A write-through keeps the invariant, whatever it overtakes.              *)
LEMMA WriteThroughInv ==
  ASSUME IInv, NEW t \in Tools, WriteThrough(t)
  PROVE  IInv'
<1> DEFINE j == job[t]
           i == j.item
<1>1. /\ Patching(j) /\ j # NoJob /\ i \in Items
      /\ UNCHANGED <<mailbox, token, cycle, faults, interrupted>>
      /\ job' = [job EXCEPT ![t] = NoJob]
      /\ touched' = IF j.kind = "categories" THEN touched \union {i} ELSE touched
  BY DEF WriteThrough, IInv, TypeOK, Patching
<1>2. /\ rows' \in [Items -> Row \union {NoRow}]
      /\ \A k \in Items :
           /\ rows[k] = NoRow => rows'[k] = NoRow
           /\ box[k].here /\ k \notin touched' =>
                /\ rows'[k] = NoRow <=> rows[k] = NoRow
                /\ rows[k] # NoRow => rows'[k].cat = rows[k].cat
  <2>1. CASE j.kind = "read" /\ j.val \in BOOLEAN
    <3>1. rows' = SetRead(i, j.val)
      BY <2>1 DEF WriteThrough
    <3> QED BY <1>1, <2>1, <3>1, SetReadRow
  <2>2. CASE j.kind = "tombstone" /\ ~box[i].here
    <3>1. rows' = [rows EXCEPT ![i] = NoRow]
      BY <2>2 DEF WriteThrough
    <3> QED BY <1>1, <2>2, <3>1 DEF IInv, TypeOK
  <2>3. CASE j.kind = "categories" /\ j.val \in Cats
    <3>1. rows' = IF rows[i] = NoRow THEN rows ELSE [rows EXCEPT ![i].cat = j.val]
      BY <2>3 DEF WriteThrough
    <3>2. CASE rows[i] = NoRow
      BY <3>1, <3>2 DEF IInv, TypeOK
    <3>3. CASE rows[i] # NoRow
      <4> DEFINE row == [rows[i] EXCEPT !.cat = j.val]
      <4>1. row \in Row
        BY <1>1, <2>3, <3>3 DEF IInv, TypeOK, Row
      <4>2. rows' = [rows EXCEPT ![i] = row]
        BY <3>1, <3>3
      <4> HIDE DEF row
      <4> QED BY <1>1, <2>3, <3>3, <4>1, <4>2 DEF IInv, TypeOK
    <3> QED BY <3>2, <3>3
  <2> QED BY <1>1, <2>1, <2>2, <2>3 DEF Patching
<1>3. job' = [u \in Tools |-> job'[u]] /\ \A u \in Tools : job'[u] \in {job[u], NoJob}
  BY <1>1 DEF IInv, JobsOK
<1>4. JobsOK'
  BY <1>1, <1>3 DEF IInv, JobsOK, mailbox
<1>5. TypeOK'
  <2>1. \A u \in Tools : job'[u] # NoJob => Patching(job[u])'
    BY <1>1, <1>3 DEF IInv, TypeOK, Patching, mailbox
  <2>2. touched' \subseteq Items
    BY <1>1 DEF IInv, TypeOK
  <2> QED BY <1>1, <1>2, <2>1, <2>2
          DEF IInv, TypeOK, mailbox, Message, Idle, Unseen, NoRows, NoFlags
<1>6. ASSUME NEW k \in Items
      PROVE  ItemOK(k)'
  <2>1. ItemOK(k) /\ touched \subseteq touched'
    BY <1>1 DEF IInv
  <2> QED BY <1>1, <1>2, <2>1
          DEF ItemOK, mailbox, Covers, Tracked, Running, Listed, Mirrored, Stored
<1> QED BY <1>4, <1>5, <1>6 DEF IInv

(* A lost write-through keeps the invariant.                                *)
LEMMA LostPatchInv ==
  ASSUME IInv, NEW t \in Tools, WriteThroughFails(t)
  PROVE  IInv'
<1>1. /\ UNCHANGED <<mailbox, token, cycle, rows, touched, interrupted>>
      /\ job' = [job EXCEPT ![t] = NoJob] /\ faults' \in Nat
  BY DEF WriteThroughFails, Fault, history, IInv, TypeOK
<1>2. job' = [u \in Tools |-> job'[u]] /\ \A u \in Tools : job'[u] \in {job[u], NoJob}
  BY <1>1 DEF IInv, JobsOK
<1>3. JobsOK'
  BY <1>1, <1>2 DEF IInv, JobsOK, mailbox
<1>4. TypeOK'
  <2>1. \A u \in Tools : job'[u] # NoJob => Patching(job[u])'
    BY <1>1, <1>2 DEF IInv, TypeOK, Patching, mailbox
  <2> QED BY <1>1, <2>1 DEF IInv, TypeOK, mailbox, Message, Idle, Unseen, NoRows, NoFlags
<1>5. ASSUME NEW k \in Items
      PROVE  ItemOK(k)'
  BY <1>1, <1>5 DEF IInv, ItemOK, mailbox, Covers, Tracked, Running, Listed, Mirrored, Stored
<1> QED BY <1>3, <1>4, <1>5 DEF IInv

(* A message leaves the window, or nothing happens.                         *)
LEMMA AgeInv ==
  ASSUME IInv, \/ \E i \in Items : AgeOut(i)
               \/ UNCHANGED vars
  PROVE  IInv'
<1>1. /\ UNCHANGED <<box, changes, rows, token, cycle, job, faults, touched, interrupted>>
      /\ aged \subseteq aged' /\ aged' \subseteq Items
  BY DEF AgeOut, vars, mailbox, history, IInv, TypeOK
<1>2. JobsOK'
  BY <1>1 DEF IInv, JobsOK
<1>3. TypeOK'
  BY <1>1 DEF IInv, TypeOK, Patching, Message, Idle, Unseen, NoRows, NoFlags
<1>4. ASSUME NEW k \in Items
      PROVE  ItemOK(k)'
  BY <1>1, <1>4 DEF IInv, ItemOK, Covers, Tracked, Running, Listed, Mirrored, Stored
<1> QED BY <1>2, <1>3, <1>4 DEF IInv

-----------------------------------------------------------------------------
(* The invariant behind the three theorems.                                 *)
LEMMA Invariant == Spec => []IInv
<1>1. IInv /\ [Next]_vars => IInv'
  BY OutlookInv, AgeInv, StartInv, FetchInv, UpsertInv, DeleteInv, SetFlagInv, SaveInv,
     FailsInv, ToolInv, WriteThroughInv, LostPatchInv DEF Next
<1> QED BY InitInv, <1>1, PTL DEF Spec

(* The tables, the stream and the cycle's lists keep their types, no state  *)
(* runs ahead of the mailbox and a tombstone only follows a removal         *)
(* (sync.py:201-245, writes.py:426-516).                                    *)
THEOREM TypeCorrect == Spec => []TypeOK
BY Invariant, PTL DEF IInv

(* What the saved state covers is in the mirror, whatever fails, restarts,  *)
(* or changes between two pages (sync.py:212-235).                          *)
THEOREM Covered == Spec => []CoveredIsMirrored
<1>1. IInv => CoveredIsMirrored
  <2> SUFFICES ASSUME IInv, NEW i \in Items, box[i].here, token[i] # 0,
                      token[i] >= box[i].edit, i \notin aged \union touched
               PROVE  rows[i] # NoRow /\ rows[i].cat = box[i].cat
    BY DEF CoveredIsMirrored
  <2> QED BY DEF IInv, ItemOK, Covers, Tracked, Mirrored
<1> QED BY Invariant, <1>1, PTL

(* Only an interrupted cycle leaves a row that nothing will delete          *)
(* (sync.py:230-235).                                                       *)
THEOREM Ghosts == Spec => []GhostsAreInterrupted
<1>1. IInv => GhostsAreInterrupted
  BY DEF IInv, ItemOK, GhostsAreInterrupted
<1> QED BY Invariant, <1>1, PTL

-----------------------------------------------------------------------------
(* Rankings: of a finite set, each in a strict order, one has so many       *)
(* before it, and a list that follows the order is the only one.            *)
Orders(R, S) ==
  /\ \A x \in S : <<x, x>> \notin R
  /\ \A x, y \in S : x # y => <<x, y>> \in R \/ <<y, x>> \in R
  /\ \A x, y, z \in S : <<x, y>> \in R /\ <<y, z>> \in R => <<x, z>> \in R

LEMMA Places ==
  ASSUME NEW S, IsFiniteSet(S), NEW R, Orders(R, S)
  PROVE  /\ Cardinality(S) \in Nat
         /\ \A k \in 1..Cardinality(S) : Ranked(S, R)[k] \in S
         /\ \A i, j \in 1..Cardinality(S) : Ranked(S, R)[i] = Ranked(S, R)[j] => i = j
         /\ \A x \in S : \E k \in 1..Cardinality(S) : Ranked(S, R)[k] = x
         /\ \A i, j \in 1..Cardinality(S) : i < j => <<Ranked(S, R)[i], Ranked(S, R)[j]>> \in R
<1> DEFINE n == Cardinality(S)
           rank == [x \in S |-> Cardinality(Ahead(x, S, R))]
           f == [x \in S |-> rank[x] + 1]
           list == Ranked(S, R)
<1>1. n \in Nat
  BY FS_CardinalityType
<1>2. ASSUME NEW x \in S PROVE IsFiniteSet(Ahead(x, S, R)) /\ rank[x] \in Nat /\ rank[x] < n
  <2>1. Ahead(x, S, R) \in SUBSET S /\ Ahead(x, S, R) # S
    BY DEF Orders, Ahead
  <2>2. /\ IsFiniteSet(Ahead(x, S, R)) /\ Cardinality(Ahead(x, S, R)) <= Cardinality(S)
        /\ Cardinality(S) = Cardinality(Ahead(x, S, R)) => S = Ahead(x, S, R)
    BY <2>1, FS_Subset
  <2>3. Cardinality(Ahead(x, S, R)) \in Nat
    BY <2>2, FS_CardinalityType
  <2> QED BY <1>1, <2>1, <2>2, <2>3
<1>3. ASSUME NEW x \in S, NEW y \in S, <<x, y>> \in R PROVE rank[x] < rank[y]
  <2>1. Ahead(x, S, R) \in SUBSET Ahead(y, S, R) /\ x \in Ahead(y, S, R) /\ x \notin Ahead(x, S, R)
    BY <1>3 DEF Orders, Ahead
  <2>2. IsFiniteSet(Ahead(y, S, R)) /\ rank[x] \in Nat /\ rank[y] \in Nat
    BY <1>2
  <2>3. /\ Cardinality(Ahead(x, S, R)) <= Cardinality(Ahead(y, S, R))
        /\ Cardinality(Ahead(y, S, R)) = Cardinality(Ahead(x, S, R)) =>
             Ahead(y, S, R) = Ahead(x, S, R)
    BY <2>1, <2>2, FS_Subset
  <2> QED BY <2>1, <2>2, <2>3
<1>a. \A x \in S : Cardinality(Ahead(x, S, R)) = rank[x]
  OBVIOUS
<1> HIDE DEF rank, n
<1>4. ASSUME NEW x \in S, NEW y \in S, rank[x] = rank[y] PROVE x = y
  <2>1. rank[x] \in Nat /\ rank[y] \in Nat
    BY <1>2
  <2>2. <<x, y>> \notin R
    BY <1>3, <1>4, <2>1
  <2>3. <<y, x>> \notin R
    BY <1>3, <1>4, <2>1
  <2> QED BY <2>2, <2>3 DEF Orders
<1>5. IsFiniteSet(1..n) /\ Cardinality(1..n) = n
  BY <1>1, FS_Interval
<1>6. f \in [S -> 1..n]
  BY <1>1, <1>2
<1>7. f \in Injection(S, 1..n)
  <2>1. \A x, y \in S : f[x] = f[y] => x = y
    BY <1>2, <1>4
  <2> HIDE DEF f
  <2> QED BY <1>6, <2>1 DEF Injection, IsInjective
<1>8. f \in Surjection(S, 1..n)
  <2>1. Cardinality(S) = n
    BY DEF n
  <2> HIDE DEF f
  <2> QED BY <1>5, <1>7, <2>1, FS_Injection
<1>b. list = [k \in 1..n |-> CHOOSE x \in S : Cardinality(Ahead(x, S, R)) = k - 1]
  BY DEF Ranked, n
<1>9. ASSUME NEW k \in 1..n PROVE list[k] \in S /\ rank[list[k]] = k - 1
  <2>1. \E x \in S : f[x] = k
    <3> HIDE DEF f
    <3> QED BY <1>8 DEF Surjection
  <2>2. \E x \in S : Cardinality(Ahead(x, S, R)) = k - 1
    BY <1>1, <1>2, <1>a, <2>1
  <2>3. list[k] = CHOOSE x \in S : Cardinality(Ahead(x, S, R)) = k - 1
    BY <1>b
  <2>4. list[k] \in S /\ Cardinality(Ahead(list[k], S, R)) = k - 1
    BY <2>2, <2>3
  <2> QED BY <1>a, <2>4
<1> HIDE DEF list
<1>10. \A x \in S : \E k \in 1..n : list[k] = x
  <2> SUFFICES ASSUME NEW x \in S PROVE list[f[x]] = x /\ f[x] \in 1..n
    OBVIOUS
  <2>1. f[x] \in 1..n /\ f[x] - 1 = rank[x]
    BY <1>2, <1>6
  <2> QED BY <1>4, <1>9, <2>1
<1>11. \A i, j \in 1..n : list[i] = list[j] => i = j
  BY <1>1, <1>9
<1>12. \A i, j \in 1..n : i < j => <<list[i], list[j]>> \in R
  <2> SUFFICES ASSUME NEW i \in 1..n, NEW j \in 1..n, i < j, <<list[j], list[i]>> \in R
               PROVE FALSE
    <3> SUFFICES ASSUME NEW i \in 1..n, NEW j \in 1..n, i < j PROVE <<list[i], list[j]>> \in R
      OBVIOUS
    <3>1. list[i] # list[j] /\ list[i] \in S /\ list[j] \in S
      BY <1>1, <1>9, <1>11
    <3> QED BY <3>1 DEF Orders
  <2>1. list[i] \in S /\ list[j] \in S /\ rank[list[i]] = i - 1 /\ rank[list[j]] = j - 1
    BY <1>9
  <2>2. rank[list[j]] < rank[list[i]]
    BY <1>3, <2>1
  <2> QED BY <1>1, <2>1, <2>2
<1> QED BY <1>1, <1>9, <1>10, <1>11, <1>12 DEF n, list

(* A list that goes through a set in the order is its ranking.              *)
Lists(list, n, S, R) ==
  /\ \A k \in 1..n : list[k] \in S
  /\ \A x \in S : \E k \in 1..n : list[k] = x
  /\ \A i, j \in 1..n : <<list[i], list[j]>> \in R <=> i < j

Till(list, m) == {list[i] : i \in 1..m}

LEMMA Counted ==
  ASSUME NEW n \in Nat, NEW list, NEW S, NEW R, Lists(list, n, S, R), NEW m \in 0..n
  PROVE  /\ IsFiniteSet(Till(list, m)) /\ Cardinality(Till(list, m)) = m
         /\ IsFiniteSet(S) /\ Cardinality(S) = n
         /\ m > 0 => Ahead(list[m], S, R) = Till(list, m - 1)
<1>1. ASSUME NEW i \in 1..n, NEW j \in 1..n, list[i] = list[j] PROVE i = j
  <2>1. ~(<<list[i], list[j]>> \in R /\ i < j) /\ ~(<<list[j], list[i]>> \in R /\ j < i)
    BY <1>1 DEF Lists
  <2>2. ~(i < j) /\ ~(j < i)
    BY <2>1 DEF Lists
  <2> QED BY <2>2
<1>2. ASSUME NEW k \in 0..n
      PROVE  IsFiniteSet(Till(list, k)) /\ Cardinality(Till(list, k)) = k
  <2> DEFINE f == [i \in 1..k |-> list[i]]
             T == Till(list, k)
  <2>1. k \in Nat /\ IsFiniteSet(1..k) /\ Cardinality(1..k) = k
    BY FS_Interval
  <2>2. f \in Bijection(1..k, T)
    BY <1>1, <2>1 DEF Bijection, Injection, Surjection, IsInjective, Till
  <2> HIDE DEF f, T
  <2>3. ExistsBijection(1..k, T)
    BY <2>2 DEF ExistsBijection
  <2>4. IsFiniteSet(T) /\ Cardinality(T) = k
    BY <2>1, <2>2, <2>3, FS_Bijection
  <2> QED BY <2>4 DEF T
<1>3. S = Till(list, n)
  BY DEF Lists, Till
<1>4. m > 0 => Ahead(list[m], S, R) = Till(list, m - 1)
  <2> SUFFICES ASSUME m > 0 PROVE Ahead(list[m], S, R) = Till(list, m - 1)
    OBVIOUS
  <2>1. m \in 1..n
    OBVIOUS
  <2> QED BY <1>3, <2>1 DEF Ahead, Lists, Till
<1>5. n \in 0..n
  OBVIOUS
<1> QED BY <1>2, <1>3, <1>4, <1>5

LEMMA Ranks ==
  ASSUME NEW n \in Nat, NEW list, NEW S, NEW R, Lists(list, n, S, R)
  PROVE  /\ Cardinality(S) = n /\ IsFiniteSet(S)
         /\ \A k \in 1..n : Cardinality(Ahead(list[k], S, R)) = k - 1
         /\ \A k \in 1..n : \A x \in S : Cardinality(Ahead(x, S, R)) = k - 1 => x = list[k]
         /\ Ranked(S, R) = [k \in 1..n |-> list[k]]
<1>1. Cardinality(S) = n /\ IsFiniteSet(S)
  <2>1. n \in 0..n
    OBVIOUS
  <2> QED BY <2>1, Counted
<1>2. ASSUME NEW k \in 1..n PROVE Cardinality(Ahead(list[k], S, R)) = k - 1
  <2>1. PICK m \in 0..n : m = k - 1
    OBVIOUS
  <2>2. k \in 0..n /\ k > 0
    OBVIOUS
  <2>3. Ahead(list[k], S, R) = Till(list, k - 1)
    BY <2>2, Counted
  <2>4. Cardinality(Till(list, m)) = m
    BY Counted
  <2> QED BY <2>1, <2>3, <2>4
<1>3. ASSUME NEW k \in 1..n, NEW x \in S, Cardinality(Ahead(x, S, R)) = k - 1 PROVE x = list[k]
  <2>1. PICK j \in 1..n : list[j] = x
    BY DEF Lists
  <2>2. Cardinality(Ahead(list[j], S, R)) = j - 1
    BY <1>2
  <2>3. j - 1 = k - 1
    BY <1>3, <2>1, <2>2
  <2>4. j = k
    BY <2>3
  <2> QED BY <2>1, <2>4
<1>4. \A k \in 1..n : (CHOOSE x \in S : Cardinality(Ahead(x, S, R)) = k - 1) = list[k]
  <2> SUFFICES ASSUME NEW k \in 1..n PROVE (CHOOSE x \in S : Cardinality(Ahead(x, S, R)) = k - 1) = list[k]
    OBVIOUS
  <2>1. list[k] \in S
    BY DEF Lists
  <2>2. Cardinality(Ahead(list[k], S, R)) = k - 1
    BY <1>2
  <2>3. \A x \in S : Cardinality(Ahead(x, S, R)) = k - 1 => x = list[k]
    BY <1>3
  <2> QED BY <2>1, <2>2, <2>3
<1>5. Ranked(S, R) = [k \in 1..n |-> CHOOSE x \in S : Cardinality(Ahead(x, S, R)) = k - 1]
  BY <1>1 DEF Ranked
<1>6. [k \in 1..n |-> CHOOSE x \in S : Cardinality(Ahead(x, S, R)) = k - 1] = [k \in 1..n |-> list[k]]
  BY <1>4
<1> QED BY <1>1, <1>2, <1>3, <1>5, <1>6

LEMMA RankedLists ==
  ASSUME NEW S, IsFiniteSet(S), NEW R, Orders(R, S)
  PROVE  /\ Cardinality(S) \in Nat /\ Lists(Ranked(S, R), Cardinality(S), S, R)
         /\ DOMAIN Ranked(S, R) = 1..Cardinality(S)
         /\ Ranked(S, R) \in Seq(S) /\ Len(Ranked(S, R)) = Cardinality(S)
<1>1. PICK n : n = Cardinality(S)
  OBVIOUS
<1>2. PICK list : list = Ranked(S, R)
  OBVIOUS
<1>3. /\ n \in Nat
      /\ \A k \in 1..n : list[k] \in S
      /\ \A x \in S : \E k \in 1..n : list[k] = x
      /\ \A i, j \in 1..n : i < j => <<list[i], list[j]>> \in R
  BY <1>1, <1>2, Places
<1>4. \A i, j \in 1..n : <<list[i], list[j]>> \in R => i < j
  <2> SUFFICES ASSUME NEW i \in 1..n, NEW j \in 1..n, <<list[i], list[j]>> \in R, ~(i < j) PROVE FALSE
    OBVIOUS
  <2>1. j < i => <<list[i], list[i]>> \in R
    BY <1>3 DEF Orders
  <2>2. i = j \/ j < i
    BY <1>3
  <2> QED BY <1>3, <2>1, <2>2 DEF Orders
<1>5. list = [k \in 1..n |-> CHOOSE x \in S : Cardinality(Ahead(x, S, R)) = k - 1]
  BY <1>1, <1>2 DEF Ranked
<1>6. DOMAIN list = 1..n
  BY <1>5
<1>7. list \in Seq(S) /\ Len(list) = n
  <2>1. list = [k \in 1..n |-> list[k]]
    BY <1>5
  <2> QED BY <1>3, <2>1
<1> QED BY <1>1, <1>2, <1>3, <1>4, <1>6, <1>7 DEF Lists

Later(S) == {p \in S \X S : p[1] > p[2]}

(* The numbers of a set, each with a place that those before it come to     *)
Descends(list, n, S) ==
  /\ \A k \in 1..n : list[k] \in S
  /\ \A x \in S : \E k \in 1..n : list[k] = x
  /\ \A i, j \in 1..n : list[i] > list[j] <=> i < j

LEMMA DescendsLists ==
  ASSUME NEW S \in SUBSET Nat, NEW list, NEW n \in Nat
  PROVE  Descends(list, n, S) <=> Lists(list, n, S, Later(S))
<1>1. ASSUME \A k \in 1..n : list[k] \in S, NEW i \in 1..n, NEW j \in 1..n
      PROVE  list[i] > list[j] <=> <<list[i], list[j]>> \in Later(S)
  BY <1>1 DEF Later
<1> QED BY <1>1 DEF Descends, Lists

LEMMA NewestFirst ==
  ASSUME NEW S \in SUBSET Nat, IsFiniteSet(S)
  PROVE  /\ Ranked(S, Later(S)) \in Seq(S) /\ Len(Ranked(S, Later(S))) = Cardinality(S)
         /\ Cardinality(S) \in Nat /\ Descends(Ranked(S, Later(S)), Cardinality(S), S)
<1>1. Orders(Later(S), S)
  BY DEF Orders, Later
<1>2. /\ Cardinality(S) \in Nat /\ Lists(Ranked(S, Later(S)), Cardinality(S), S, Later(S))
      /\ Ranked(S, Later(S)) \in Seq(S) /\ Len(Ranked(S, Later(S))) = Cardinality(S)
  BY <1>1, RankedLists
<1> QED BY <1>2, DescendsLists

Smaller == {p \in Nat \X Nat : p[1] < p[2]}

LEMMA SmallerIsWellFounded == IsWellFoundedOn(Smaller, Nat)
BY NatLessThanWellFounded DEF OpToRel, Smaller

-----------------------------------------------------------------------------
(* SearchPaging: a walk through any folders, in pages of any size and       *)
(* slices of any size, with any number of messages, changes and failures.   *)

(* How many of a set of messages are newer than one.                        *)
Newer(S, m) == {x \in S : x > m}
Count(S, m) == Cardinality(Newer(S, m))

LEMMA Sized == ASSUME NEW S, IsFiniteSet(S) PROVE Cardinality(S) \in Nat
BY FS_CardinalityType

LEMMA Subsets ==
  ASSUME NEW S, IsFiniteSet(S), NEW T \in SUBSET S
  PROVE  /\ IsFiniteSet(T) /\ Cardinality(T) \in Nat /\ Cardinality(S) \in Nat
         /\ Cardinality(T) <= Cardinality(S)
         /\ Cardinality(T) = Cardinality(S) => T = S
BY FS_Subset, FS_CardinalityType

LEMMA AtMostOne ==
  ASSUME NEW S, IsFiniteSet(S), \A x, y \in S : x = y
  PROVE  Cardinality(S) \in Nat /\ Cardinality(S) <= 1
<1>1. CASE S = {}
  BY <1>1, FS_EmptySet
<1>2. CASE S # {}
  <2>1. PICK x \in S : TRUE
    BY <1>2
  <2>2. S = {x}
    BY <2>1
  <2> QED BY <2>2, FS_Singleton
<1> QED BY <1>1, <1>2

(* A set that another one and so many more cover                            *)
LEMMA Spanned ==
  ASSUME NEW S, IsFiniteSet(S), NEW T, IsFiniteSet(T), NEW Q \in SUBSET (S \cup T)
  PROVE  /\ IsFiniteSet(Q) /\ Cardinality(Q) \in Nat
         /\ Cardinality(Q) <= Cardinality(S) + Cardinality(T)
         /\ Cardinality(S) \in Nat /\ Cardinality(T) \in Nat
<1>1. /\ IsFiniteSet(S \cup T) /\ Cardinality(S) \in Nat /\ Cardinality(T) \in Nat
      /\ Cardinality(S \cup T) = Cardinality(S) + Cardinality(T) - Cardinality(S \cap T)
  BY FS_Union, FS_CardinalityType
<1>2. Cardinality(S \cap T) \in Nat
  BY FS_Intersection, FS_CardinalityType
<1>3. IsFiniteSet(Q) /\ Cardinality(Q) \in Nat /\ Cardinality(Q) <= Cardinality(S \cup T)
  BY <1>1, Subsets
<1>4. Cardinality(S \cup T) \in Nat
  BY <1>1, Sized
<1> QED BY <1>1, <1>2, <1>3, <1>4

LEMMA PlusOne ==
  ASSUME NEW S, IsFiniteSet(S), NEW Y, IsFiniteSet(Y), \A x, y \in Y : x = y,
         NEW Q \in SUBSET (S \cup Y)
  PROVE  /\ IsFiniteSet(Q) /\ Cardinality(Q) \in Nat /\ Cardinality(S) \in Nat
         /\ Cardinality(Q) <= Cardinality(S) + 1
BY Spanned, AtMostOne

LEMMA Newers ==
  ASSUME NEW S \in SUBSET Nat, IsFiniteSet(S)
  PROVE  /\ \A m : IsFiniteSet(Newer(S, m)) /\ Count(S, m) \in Nat /\ Count(S, m) <= Cardinality(S)
         /\ \A m, x \in Nat : m <= x => Count(S, x) <= Count(S, m)
         /\ \A x \in S, m \in Nat : m < x => Count(S, x) < Count(S, m)
         /\ \A x \in S : Count(S, x) < Cardinality(S)
         /\ \A x, y \in S : Count(S, x) = Count(S, y) => x = y
<1>1. \A m : Newer(S, m) \in SUBSET S
  BY DEF Newer
<1>2. \A m : IsFiniteSet(Newer(S, m)) /\ Count(S, m) \in Nat /\ Count(S, m) <= Cardinality(S)
  BY <1>1, Subsets DEF Count
<1>3. ASSUME NEW m \in Nat, NEW x \in Nat, m <= x PROVE Count(S, x) <= Count(S, m)
  <2>1. \A y \in S : y > x => y > m
    BY <1>3
  <2>2. Newer(S, x) \in SUBSET Newer(S, m)
    BY <2>1 DEF Newer
  <2> QED BY <1>2, <2>2, Subsets DEF Count
<1>4. ASSUME NEW x \in S, NEW m \in Nat, m < x PROVE Count(S, x) < Count(S, m)
  <2>0. x > m /\ ~(x > x) /\ \A y \in S : y > x => y > m
    BY <1>4
  <2>1. Newer(S, x) \in SUBSET Newer(S, m) /\ x \in Newer(S, m) /\ x \notin Newer(S, x)
    BY <2>0 DEF Newer
  <2>2. Count(S, x) <= Count(S, m) /\ (Count(S, x) = Count(S, m) => Newer(S, x) = Newer(S, m))
    BY <1>2, <2>1, Subsets DEF Count
  <2> QED BY <1>2, <2>1, <2>2
<1>5. ASSUME NEW x \in S PROVE Count(S, x) < Cardinality(S)
  <2>1. Newer(S, x) # S
    BY DEF Newer
  <2>2. Cardinality(Newer(S, x)) = Cardinality(S) => Newer(S, x) = S
    BY <1>1, Subsets
  <2>3. Cardinality(S) \in Nat
    BY Sized
  <2> QED BY <1>2, <2>1, <2>2, <2>3 DEF Count
<1>6. ASSUME NEW x \in S, NEW y \in S, Count(S, x) = Count(S, y) PROVE x = y
  <2>1. ~(x < y) /\ ~(y < x)
    BY <1>2, <1>4, <1>6
  <2> QED BY <2>1
<1> QED BY <1>2, <1>3, <1>4, <1>5, <1>6

LEMMA CountWithout ==
  ASSUME NEW S, IsFiniteSet(S), NEW x \in S, NEW m
  PROVE  /\ IsFiniteSet(S \ {x}) /\ Cardinality(S \ {x}) = Cardinality(S) - 1
         /\ Count(S \ {x}, m) = IF x > m THEN Count(S, m) - 1 ELSE Count(S, m)
<1>1. IsFiniteSet(S \ {x}) /\ Cardinality(S \ {x}) = Cardinality(S) - 1
  BY FS_RemoveElement
<1>2. Newer(S \ {x}, m) = Newer(S, m) \ {x} /\ (x \in Newer(S, m) <=> x > m)
  BY DEF Newer
<1>3. IsFiniteSet(Newer(S, m))
  BY Subsets DEF Newer
<1> QED BY <1>1, <1>2, <1>3, FS_RemoveElement DEF Count

LEMMA CountWith ==
  ASSUME NEW S, IsFiniteSet(S), NEW x, x \notin S, NEW m
  PROVE  /\ IsFiniteSet(S \cup {x}) /\ Cardinality(S \cup {x}) = Cardinality(S) + 1
         /\ Count(S \cup {x}, m) = IF x > m THEN Count(S, m) + 1 ELSE Count(S, m)
<1>1. IsFiniteSet(S \cup {x}) /\ Cardinality(S \cup {x}) = Cardinality(S) + 1
  BY FS_AddElement
<1>2. Newer(S \cup {x}, m) = (IF x > m THEN Newer(S, m) \cup {x} ELSE Newer(S, m)) /\ x \notin Newer(S, m)
  BY DEF Newer
<1>3. IsFiniteSet(Newer(S, m))
  BY Subsets DEF Newer
<1> QED BY <1>1, <1>2, <1>3, FS_AddElement DEF Count

(* The list of a folder: at its k-th place is the message that k - 1 are    *)
(* newer than.                                                              *)
LEMMA ListingOf ==
  ASSUME NEW S \in SUBSET Nat, IsFiniteSet(S)
  PROVE  /\ Paging!Listing(S) \in Seq(S) /\ Len(Paging!Listing(S)) = Cardinality(S)
         /\ Cardinality(S) \in Nat
         /\ \A k \in 1..Cardinality(S) : Count(S, Paging!Listing(S)[k]) = k - 1
         /\ \A m \in S : /\ Count(S, m) + 1 \in 1..Cardinality(S)
                         /\ Paging!Listing(S)[Count(S, m) + 1] = m
         /\ \A k \in 1..Cardinality(S), m \in Nat : Paging!Listing(S)[k] > m <=> k <= Count(S, m)
<1>1. Paging!Listing(S) = Ranked(S, Later(S))
  BY DEF Paging!Listing, Later, Paging!Ranked, Ranked, Paging!Ahead, Ahead, Paging!Cardinality, Cardinality
<1>2. PICK n, list : n = Cardinality(S) /\ list = Paging!Listing(S)
  OBVIOUS
<1>3. list \in Seq(S) /\ Len(list) = n /\ n \in Nat /\ Descends(list, n, S)
  BY <1>1, <1>2, NewestFirst
<1>4. \A x \in S : Ahead(x, S, Later(S)) = Newer(S, x)
  BY DEF Ahead, Later, Newer
<1>5. Orders(Later(S), S)
  BY DEF Orders, Later
<1>6. Lists(list, n, S, Later(S))
  BY <1>1, <1>2, <1>5, RankedLists
<1>7. \A k \in 1..n : Count(S, list[k]) = k - 1
  <2>1. \A k \in 1..n : Cardinality(Ahead(list[k], S, Later(S))) = k - 1
    BY <1>3, <1>6, Ranks
  <2> QED BY <1>3, <1>4, <2>1 DEF Count, Descends
<1>8. \A m \in S : Count(S, m) + 1 \in 1..n /\ list[Count(S, m) + 1] = m
  <2> SUFFICES ASSUME NEW m \in S PROVE Count(S, m) + 1 \in 1..n /\ list[Count(S, m) + 1] = m
    OBVIOUS
  <2>1. PICK k \in 1..n : list[k] = m
    BY <1>3 DEF Descends
  <2>2. Count(S, m) = k - 1
    BY <1>7, <2>1
  <2>3. Count(S, m) + 1 = k
    BY <1>3, <2>2
  <2> QED BY <2>1, <2>3
<1>9. ASSUME NEW k \in 1..n, NEW m \in Nat PROVE list[k] > m <=> k <= Count(S, m)
  <2>1. list[k] \in S /\ list[k] \in Nat /\ Count(S, list[k]) = k - 1 /\ Count(S, m) \in Nat
    BY <1>3, <1>7, Newers DEF Descends
  <2>2. list[k] > m => Count(S, list[k]) < Count(S, m)
    BY <2>1, Newers
  <2>3. list[k] <= m => Count(S, m) <= Count(S, list[k])
    BY <2>1, Newers
  <2> QED BY <1>3, <2>1, <2>2, <2>3
<1> QED BY <1>2, <1>3, <1>7, <1>8, <1>9

-----------------------------------------------------------------------------
(* SearchPaging: one folder, read by the offset.  Passed are the messages   *)
(* that k items from the offset on should have shown and did not: there are *)
(* at most so many as changes may hide.                                     *)
Passed(b, U, o, k, list) == {m \in U : Count(b, m) < o + k /\ \A i \in 1..k : list[i] # m}
Left(U, list) == {m \in U : \A i \in 1..Len(list) : list[i] # m}

AloneOK(b, U, o, n, p, wanted) ==
  /\ \A k \in 0..Len(p.items) :
       /\ Cardinality(Passed(b, U, o, k, p.items)) <= n
       /\ p.total \in Nat => Cardinality(Passed(b, U, o, k, p.items)) + Cardinality(b) <= n + p.total
  /\ p.phase = "done" /\ Len(p.items) < wanted => Cardinality(Left(U, p.items)) <= n

LEMMA PassedSize ==
  ASSUME NEW b, IsFiniteSet(b), NEW U \in SUBSET b, NEW o, NEW k, NEW list
  PROVE  IsFiniteSet(Passed(b, U, o, k, list)) /\ Cardinality(Passed(b, U, o, k, list)) \in Nat
<1>1. Passed(b, U, o, k, list) \in SUBSET b
  BY DEF Passed
<1> QED BY <1>1, Subsets

LEMMA PassedRemoval ==
  ASSUME NEW b \in SUBSET Nat, IsFiniteSet(b), NEW U \in SUBSET b, NEW x \in b,
         NEW V \in SUBSET (U \ {x}), NEW o \in Nat, NEW k \in Nat, NEW list
  PROVE  Cardinality(Passed(b \ {x}, V, o, k, list)) <= Cardinality(Passed(b, U, o, k, list)) + 1
<1> DEFINE Y == {m \in b : Count(b, m) = o + k}
<1>1. IsFiniteSet(Y)
  BY Subsets
<1>2. \A y, z \in Y : y = z
  BY Newers
<1>3. Passed(b \ {x}, V, o, k, list) \in SUBSET (Passed(b, U, o, k, list) \cup Y)
  <2> SUFFICES ASSUME NEW m \in V, Count(b \ {x}, m) < o + k, \A i \in 1..k : list[i] # m
               PROVE  Count(b, m) < o + k \/ Count(b, m) = o + k
    BY DEF Passed
  <2>1. Count(b, m) \in Nat
    BY Newers
  <2>2. Count(b \ {x}, m) = Count(b, m) - 1 \/ Count(b \ {x}, m) = Count(b, m)
    BY CountWithout
  <2> QED BY <2>1, <2>2
<1> QED BY <1>1, <1>2, <1>3, PlusOne, PassedSize

LEMMA PassedArrival ==
  ASSUME NEW b \in SUBSET Nat, IsFiniteSet(b), NEW U \in SUBSET b, NEW x, x \notin b,
         NEW o \in Nat, NEW k \in Nat, NEW list
  PROVE  Cardinality(Passed(b \cup {x}, U, o, k, list)) <= Cardinality(Passed(b, U, o, k, list))
<1>1. Passed(b \cup {x}, U, o, k, list) \in SUBSET Passed(b, U, o, k, list)
  <2> SUFFICES ASSUME NEW m \in U, Count(b \cup {x}, m) < o + k PROVE Count(b, m) < o + k
    BY DEF Passed
  <2>1. Count(b, m) \in Nat
    BY Newers
  <2>2. Count(b \cup {x}, m) = Count(b, m) + 1 \/ Count(b \cup {x}, m) = Count(b, m)
    BY CountWith
  <2> QED BY <2>1, <2>2
<1> QED BY <1>1, PassedSize, Subsets

LEMMA AloneRemoval ==
  ASSUME NEW b \in SUBSET Nat, IsFiniteSet(b), NEW U \in SUBSET b, NEW x \in b,
         NEW V \in SUBSET (U \ {x}), NEW o \in Nat, NEW n \in Nat, NEW p, p.items \in Seq(Nat),
         NEW wanted, AloneOK(b, U, o, n, p, wanted)
  PROVE  AloneOK(b \ {x}, V, o, n + 1, p, wanted)
<1>1. Cardinality(b) \in Nat /\ Cardinality(b \ {x}) = Cardinality(b) - 1 /\ IsFiniteSet(b \ {x})
  BY Sized, FS_RemoveElement
<1>2. ASSUME NEW k \in 0..Len(p.items)
      PROVE  /\ Cardinality(Passed(b \ {x}, V, o, k, p.items)) <= n + 1
             /\ p.total \in Nat =>
                  Cardinality(Passed(b \ {x}, V, o, k, p.items)) + Cardinality(b \ {x}) <= n + 1 + p.total
  <2>1. Cardinality(Passed(b \ {x}, V, o, k, p.items)) <= Cardinality(Passed(b, U, o, k, p.items)) + 1
    BY PassedRemoval
  <2>2. Cardinality(Passed(b, U, o, k, p.items)) \in Nat
    BY PassedSize
  <2>3. Cardinality(Passed(b \ {x}, V, o, k, p.items)) \in Nat
    BY <1>1, PassedSize
  <2>4. /\ Cardinality(Passed(b, U, o, k, p.items)) <= n
        /\ p.total \in Nat => Cardinality(Passed(b, U, o, k, p.items)) + Cardinality(b) <= n + p.total
    BY DEF AloneOK
  <2> QED BY <1>1, <2>1, <2>2, <2>3, <2>4
<1>3. ASSUME p.phase = "done", Len(p.items) < wanted PROVE Cardinality(Left(V, p.items)) <= n + 1
  <2>1. Left(V, p.items) \in SUBSET Left(U, p.items) /\ Left(U, p.items) \in SUBSET b
    BY DEF Left
  <2>2. Cardinality(Left(U, p.items)) <= n
    BY <1>3 DEF AloneOK
  <2> QED BY <2>1, <2>2, Subsets
<1> QED BY <1>2, <1>3 DEF AloneOK

LEMMA AloneArrival ==
  ASSUME NEW b \in SUBSET Nat, IsFiniteSet(b), NEW U \in SUBSET b, NEW x, x \notin b,
         NEW o \in Nat, NEW n \in Nat, NEW p, p.items \in Seq(Nat), NEW wanted,
         AloneOK(b, U, o, n, p, wanted), NEW l \in Nat, l = n + 1 \/ (l = n /\ p.total \notin Nat)
  PROVE  AloneOK(b \cup {x}, U, o, l, p, wanted)
<1>1. Cardinality(b) \in Nat /\ Cardinality(b \cup {x}) = Cardinality(b) + 1 /\ IsFiniteSet(b \cup {x})
  BY Sized, FS_AddElement
<1>2. ASSUME NEW k \in 0..Len(p.items)
      PROVE  /\ Cardinality(Passed(b \cup {x}, U, o, k, p.items)) <= l
             /\ p.total \in Nat =>
                  Cardinality(Passed(b \cup {x}, U, o, k, p.items)) + Cardinality(b \cup {x}) <= l + p.total
  <2>1. Cardinality(Passed(b \cup {x}, U, o, k, p.items)) <= Cardinality(Passed(b, U, o, k, p.items))
    BY PassedArrival
  <2>2. Cardinality(Passed(b, U, o, k, p.items)) \in Nat
    BY PassedSize
  <2>3. Cardinality(Passed(b \cup {x}, U, o, k, p.items)) \in Nat
    BY <1>1, PassedSize
  <2>4. /\ Cardinality(Passed(b, U, o, k, p.items)) <= n
        /\ p.total \in Nat => Cardinality(Passed(b, U, o, k, p.items)) + Cardinality(b) <= n + p.total
    BY DEF AloneOK
  <2> QED BY <1>1, <2>1, <2>2, <2>3, <2>4
<1>3. ASSUME p.phase = "done", Len(p.items) < wanted PROVE Cardinality(Left(U, p.items)) <= l
  <2>1. Left(U, p.items) \in SUBSET b
    BY DEF Left
  <2>2. Cardinality(Left(U, p.items)) <= n
    BY <1>3 DEF AloneOK
  <2> QED BY <2>1, <2>2, Subsets
<1> QED BY <1>2, <1>3 DEF AloneOK

(* The next slice: as many as are wanted, or all there are.                 *)
Batch(b, origin, wanted) ==
  SubSeq(Paging!Listing(b), origin + 1,
         IF origin + wanted < Cardinality(b) THEN origin + wanted ELSE Cardinality(b))

LEMMA Batches ==
  ASSUME NEW b \in SUBSET Nat, IsFiniteSet(b), NEW c \in Nat, NEW w \in Nat
  PROVE  /\ Batch(b, c, w) \in Seq(b) /\ Len(Batch(b, c, w)) <= w
         /\ \A i \in 1..Len(Batch(b, c, w)) : Count(b, Batch(b, c, w)[i]) = c + i - 1
         /\ \A m \in b, i \in 1..Len(Batch(b, c, w)) : Count(b, m) = c + i - 1 => Batch(b, c, w)[i] = m
         /\ \A m \in Nat, i \in 1..Len(Batch(b, c, w)) : Batch(b, c, w)[i] > m <=> c + i <= Count(b, m)
         /\ Len(Batch(b, c, w)) < w => Cardinality(b) <= c + Len(Batch(b, c, w))
<1>1. PICK list, size : list = Paging!Listing(b) /\ size = Cardinality(b)
  OBVIOUS
<1>2. /\ list \in Seq(b) /\ Len(list) = size /\ size \in Nat
      /\ \A k \in 1..size : Count(b, list[k]) = k - 1
      /\ \A m \in b : Count(b, m) + 1 \in 1..size /\ list[Count(b, m) + 1] = m
      /\ \A k \in 1..size, m \in Nat : list[k] > m <=> k <= Count(b, m)
  BY <1>1, ListingOf
<1>3. PICK to \in Nat : to = IF c + w < size THEN c + w ELSE size
  BY <1>2
<1>4. PICK batch : batch = SubSeq(list, c + 1, to)
  OBVIOUS
<1>5. Batch(b, c, w) = batch
  BY <1>1, <1>3, <1>4 DEF Batch
<1>6. /\ batch \in Seq(b) /\ Len(batch) = IF c + 1 <= to THEN to - c ELSE 0
      /\ \A i \in 1..Len(batch) : batch[i] = list[c + i] /\ c + i \in 1..size
  <2>1. c + 1 <= to => Len(batch) = to - c /\ batch = [i \in 1..to - c |-> list[c + i]]
    BY <1>2, <1>3, <1>4
  <2>2. c + 1 > to => batch = << >>
    BY <1>2, <1>3, <1>4
  <2>3. to <= size
    BY <1>2, <1>3
  <2>4. \A i \in 1..to - c : c + i \in 1..size /\ list[c + i] \in b
    BY <1>2, <2>3
  <2>5. CASE c + 1 <= to
    <3>1. PICK l \in Nat : l = to - c
      BY <2>5
    <3>2. batch = [i \in 1..l |-> list[c + i]] /\ \A i \in 1..l : list[c + i] \in b
      BY <2>1, <2>4, <2>5, <3>1
    <3>3. batch \in Seq(b) /\ Len(batch) = l
      BY <3>1, <3>2
    <3> QED BY <2>4, <2>5, <3>1, <3>2, <3>3
  <2>6. CASE ~(c + 1 <= to)
    <3>1. batch = << >> /\ Len(batch) = 0
      BY <2>2, <2>6
    <3>2. batch \in Seq(b)
      BY <3>1
    <3> QED BY <2>6, <3>1, <3>2
  <2> QED BY <2>5, <2>6
<1>7. Len(batch) <= w /\ (Len(batch) < w => size <= c + Len(batch))
  BY <1>2, <1>3, <1>6
<1>8. \A i \in 1..Len(batch) : Count(b, batch[i]) = c + i - 1
  BY <1>2, <1>6
<1>9. \A m \in b, i \in 1..Len(batch) : Count(b, m) = c + i - 1 => batch[i] = m
  <2> SUFFICES ASSUME NEW m \in b, NEW i \in 1..Len(batch), Count(b, m) = c + i - 1 PROVE batch[i] = m
    OBVIOUS
  <2>1. Count(b, m) + 1 = c + i
    BY <1>6
  <2> QED BY <1>2, <1>6, <2>1
<1>10. \A m \in Nat, i \in 1..Len(batch) : batch[i] > m <=> c + i <= Count(b, m)
  BY <1>2, <1>6
<1> QED BY <1>1, <1>5, <1>6, <1>7, <1>8, <1>9, <1>10

LEMMA Wider == ASSUME NEW S, NEW T, S \subseteq T, NEW s \in Seq(S) PROVE s \in Seq(T)
<1>1. s \in [1..Len(s) -> S] /\ Len(s) \in Nat
  OBVIOUS
<1>2. s \in [1..Len(s) -> T]
  BY <1>1
<1> QED BY <1>1, <1>2

LEMMA Joins ==
  ASSUME NEW S, NEW s \in Seq(S), NEW t \in Seq(S)
  PROVE  /\ s \o t \in Seq(S) /\ Len(s \o t) = Len(s) + Len(t) /\ Len(s) \in Nat /\ Len(t) \in Nat
         /\ \A i \in 1..Len(s) : (s \o t)[i] = s[i]
         /\ \A i \in 1..Len(t) : (s \o t)[Len(s) + i] = t[i]
<1>1. s \o t \in Seq(S) /\ Len(s \o t) = Len(s) + Len(t) /\ Len(s) \in Nat /\ Len(t) \in Nat
  OBVIOUS
<1>2. \A i \in 1..Len(s) : (s \o t)[i] = s[i]
  OBVIOUS
<1>3. ASSUME NEW i \in 1..Len(t) PROVE (s \o t)[Len(s) + i] = t[i]
  OBVIOUS
<1> QED BY <1>1, <1>2, <1>3

Joined(list, old, new) == list = old \o new

LEMMA AloneSlice ==
  ASSUME NEW b \in SUBSET Nat, IsFiniteSet(b), NEW U \in SUBSET b, NEW o \in Nat, NEW n \in Nat,
         NEW p, p.items \in Seq(Nat), NEW wanted \in Nat, AloneOK(b, U, o, n, p, wanted),
         NEW w \in Nat, NEW q, q.total = p.total,
         Joined(q.items, p.items, Batch(b, o + Len(p.items), w)),
         q.phase = "done" /\ Len(q.items) < wanted => Len(Batch(b, o + Len(p.items), w)) < w
  PROVE  AloneOK(b, U, o, n, q, wanted)
<1>1. PICK L \in Nat : L = Len(p.items)
  OBVIOUS
<1>d. PICK c \in Nat : c = o + L
  OBVIOUS
<1>2. PICK batch : batch = Batch(b, c, w)
  OBVIOUS
<1>3. /\ batch \in Seq(b) /\ batch \in Seq(Nat)
      /\ \A m \in b, i \in 1..Len(batch) : Count(b, m) = c + i - 1 => batch[i] = m
      /\ Len(batch) < w => Cardinality(b) <= c + Len(batch)
  <2>1. /\ batch \in Seq(b)
        /\ \A m \in b, i \in 1..Len(batch) : Count(b, m) = c + i - 1 => batch[i] = m
        /\ Len(batch) < w => Cardinality(b) <= c + Len(batch)
    BY <1>2, Batches
  <2>2. batch \in Seq(Nat)
    BY <2>1, Wider
  <2> QED BY <2>1, <2>2
<1>4. PICK taken : taken = p.items
  OBVIOUS
<1>5. /\ Len(q.items) = L + Len(batch) /\ Len(batch) \in Nat
      /\ \A i \in 1..L : q.items[i] = taken[i]
      /\ \A i \in 1..Len(batch) : q.items[L + i] = batch[i]
  <2>1. q.items = taken \o batch /\ taken \in Seq(Nat) /\ L = Len(taken)
    BY <1>1, <1>d, <1>2, <1>4 DEF Joined
  <2> QED BY <1>3, <2>1, Joins
<1>b. PICK M \in Nat : M = Len(batch)
  BY <1>3
<1>c. L + M \in Nat /\ Len(q.items) = L + M
  BY <1>1, <1>5, <1>b
<1>a. PICK N \in Nat : N = Len(q.items) /\ N = L + M
  BY <1>c
<1>6. ASSUME NEW k \in 0..N
      PROVE  \E j \in 0..L : Passed(b, U, o, k, q.items) \in SUBSET Passed(b, U, o, j, taken)
  <2>1. CASE k <= L
    <3>0. \A i \in 1..k : i \in 1..L
      BY <1>1, <1>a, <2>1
    <3>1. \A i \in 1..k : q.items[i] = taken[i]
      BY <1>5, <3>0
    <3>2. Passed(b, U, o, k, q.items) = Passed(b, U, o, k, taken)
      BY <3>1 DEF Passed
    <3> QED BY <1>5, <2>1, <3>2
  <2>2. CASE k > L
    <3>1. ASSUME NEW m \in U, Count(b, m) < o + k, \A i \in 1..k : q.items[i] # m
          PROVE  Count(b, m) < o + L
      <4> SUFFICES ASSUME Count(b, m) >= o + L PROVE FALSE
        BY Newers
      <4>1. PICK i \in 1..Len(batch) : Count(b, m) = c + i - 1 /\ L + i <= k
        <5>1. Count(b, m) \in Nat
          BY Newers
        <5>a. k \in Nat /\ k <= L + Len(batch)
          BY <1>a, <1>b
        <5>2. Count(b, m) - c + 1 \in 1..Len(batch)
          BY <1>d, <1>5, <3>1, <5>1, <5>a
        <5>3. PICK i \in 1..Len(batch) : i = Count(b, m) - c + 1
          BY <5>2
        <5>4. Count(b, m) = c + i - 1 /\ L + i <= k
          BY <1>d, <3>1, <5>1, <5>a, <5>3
        <5> QED BY <5>4
      <4>2. batch[i] = m
        BY <1>3, <4>1
      <4>3. L + i \in 1..k
        BY <4>1
      <4> QED BY <1>5, <3>1, <4>2, <4>3
    <3>a. \A i \in 1..L : i \in 1..k
      BY <1>1, <1>5, <2>2
    <3>2. \A m \in U : (\A i \in 1..k : q.items[i] # m) => \A i \in 1..L : taken[i] # m
      BY <1>5, <3>a
    <3>3. Passed(b, U, o, k, q.items) \in SUBSET Passed(b, U, o, L, taken)
      BY <3>1, <3>2 DEF Passed
    <3> QED BY <3>3
  <2> QED BY <1>1, <1>a, <2>1, <2>2
<1>7. ASSUME NEW k \in 0..N
      PROVE  /\ Cardinality(Passed(b, U, o, k, q.items)) <= n
             /\ q.total \in Nat => Cardinality(Passed(b, U, o, k, q.items)) + Cardinality(b) <= n + q.total
  <2>1. PICK j \in 0..L : Passed(b, U, o, k, q.items) \in SUBSET Passed(b, U, o, j, taken)
    BY <1>6
  <2>2. /\ Cardinality(Passed(b, U, o, j, taken)) <= n
        /\ p.total \in Nat => Cardinality(Passed(b, U, o, j, taken)) + Cardinality(b) <= n + p.total
    BY <1>1, <1>4 DEF AloneOK
  <2>3. IsFiniteSet(Passed(b, U, o, j, taken))
    BY PassedSize
  <2>4. Cardinality(Passed(b, U, o, k, q.items)) <= Cardinality(Passed(b, U, o, j, taken))
    BY <2>1, <2>3, Subsets
  <2>5. /\ Cardinality(Passed(b, U, o, j, taken)) \in Nat
        /\ Cardinality(Passed(b, U, o, k, q.items)) \in Nat
    BY <2>1, <2>3, Subsets
  <2>6. Cardinality(b) \in Nat
    BY Sized
  <2> QED BY <2>2, <2>4, <2>5, <2>6
<1>8. ASSUME q.phase = "done", Len(q.items) < wanted PROVE Cardinality(Left(U, q.items)) <= n
  <2>1. Cardinality(b) <= c + Len(batch)
    BY <1>1, <1>d, <1>2, <1>3, <1>8
  <2>2. Cardinality(b) \in Nat /\ \A m \in b : Count(b, m) \in Nat /\ Count(b, m) < Cardinality(b)
    BY Newers, Sized
  <2>3. \A m \in U : Count(b, m) < o + N
    BY <1>d, <1>a, <1>b, <2>1, <2>2
  <2>4. Left(U, q.items) = Passed(b, U, o, N, q.items)
    BY <1>a, <2>3 DEF Left, Passed
  <2>5. N \in 0..N
    OBVIOUS
  <2> QED BY <1>7, <2>4, <2>5
<1> QED BY <1>a, <1>7, <1>8 DEF AloneOK

Behind(b, U, o) == {m \in U : Count(b, m) < o}

LEMMA AloneStarts ==
  ASSUME NEW b, IsFiniteSet(b), NEW U \in SUBSET b, NEW o \in Nat, NEW n \in Nat,
         Cardinality(Behind(b, U, o)) <= n, NEW p, p.items = << >>, NEW wanted,
         p.total \in Nat => p.total = Cardinality(b), p.phase # "done" \/ ~(0 < wanted)
  PROVE  AloneOK(b, U, o, n, p, wanted)
<1>1. ASSUME NEW k \in 0..Len(p.items) PROVE Passed(b, U, o, k, p.items) = Behind(b, U, o)
  <2>1. k = 0
    OBVIOUS
  <2> QED BY <2>1 DEF Passed, Behind
<1>2. Cardinality(Behind(b, U, o)) \in Nat
  BY Subsets DEF Behind
<1>3. Cardinality(b) \in Nat
  BY Sized
<1>4. \A k \in 0..Len(p.items) :
        /\ Cardinality(Passed(b, U, o, k, p.items)) <= n
        /\ p.total \in Nat => Cardinality(Passed(b, U, o, k, p.items)) + Cardinality(b) <= n + p.total
  BY <1>1, <1>2, <1>3
<1>5. ~(p.phase = "done" /\ Len(p.items) < wanted)
  OBVIOUS
<1> QED BY <1>4, <1>5 DEF AloneOK

LEMMA TailSize ==
  ASSUME NEW b \in SUBSET Nat, IsFiniteSet(b), NEW j \in Nat
  PROVE  LET T == {m \in b : Count(b, m) >= j} IN
         /\ IsFiniteSet(T) /\ Cardinality(T) \in Nat
         /\ j <= Cardinality(b) => Cardinality(T) <= Cardinality(b) - j
         /\ j > Cardinality(b) => T = {}
<1> DEFINE T == {m \in b : Count(b, m) >= j}
<1>1. PICK n \in Nat : n = Cardinality(b)
  BY Sized
<1>2. IsFiniteSet(T) /\ Cardinality(T) \in Nat
  BY Subsets
<1>3. \A m \in b : Count(b, m) \in Nat /\ Count(b, m) < n
  BY <1>1, Newers
<1>4. ASSUME j <= n PROVE Cardinality(T) <= n - j
  <2> DEFINE f == [m \in T |-> Count(b, m) + 1]
  <2>a. \A m \in T : Count(b, m) + 1 \in (j + 1)..n
    BY <1>3
  <2>1. f \in [T -> (j + 1)..n]
    BY <2>a
  <2>2. \A x, y \in T : f[x] = f[y] => x = y
    <3> SUFFICES ASSUME NEW x \in T, NEW y \in T, f[x] = f[y] PROVE x = y
      OBVIOUS
    <3>1. Count(b, x) = Count(b, y)
      BY <1>3
    <3> QED BY <3>1, Newers
  <2>3. f \in Injection(T, (j + 1)..n)
    <3> HIDE DEF f, T
    <3> QED BY <2>1, <2>2 DEF Injection, IsInjective
  <2>4. IsFiniteSet((j + 1)..n) /\ Cardinality((j + 1)..n) = n - j
    <3>1. /\ IsFiniteSet((j + 1)..n)
          /\ Cardinality((j + 1)..n) = IF j + 1 > n THEN 0 ELSE n - (j + 1) + 1
      BY FS_Interval
    <3> QED BY <1>4, <3>1
  <2> HIDE DEF f, T
  <2> QED BY <2>3, <2>4, FS_Injection
<1>5. ASSUME j > n PROVE T = {}
  <2>1. \A m \in b : ~(Count(b, m) >= j)
    BY <1>3, <1>5
  <2> QED BY <2>1
<1> QED BY <1>1, <1>2, <1>4, <1>5

Lacks(V, list, k) == \A m \in V : \A i \in 1..k : list[i] # m

(* The answer of a request of one folder: page holds what its first k items *)
(* are, but for what nobody wants, and next is where to go on.              *)
LEMMA AloneEnds ==
  ASSUME NEW b \in SUBSET Nat, IsFiniteSet(b), NEW U \in SUBSET b, NEW o \in Nat, NEW n \in Nat,
         NEW p, p.items \in Seq(Nat), NEW wanted \in Nat, AloneOK(b, U, o, n, p, wanted),
         NEW k \in 0..Len(p.items), NEW V \in SUBSET U, Lacks(V, p.items, k)
  PROVE  /\ \A next \in Nat : next <= o + k => Cardinality(Behind(b, V, next)) <= n
         /\ p.total \in Nat /\ p.total <= o + k => Cardinality(V) <= n
         /\ p.phase = "done" /\ k = Len(p.items) /\ k < wanted => Cardinality(V) <= n
<1>a. k \in Nat /\ Len(p.items) \in Nat
  OBVIOUS
<1>1. IsFiniteSet(Passed(b, U, o, k, p.items)) /\ Cardinality(Passed(b, U, o, k, p.items)) \in Nat
  BY PassedSize
<1>2. /\ Cardinality(Passed(b, U, o, k, p.items)) <= n
      /\ p.total \in Nat => Cardinality(Passed(b, U, o, k, p.items)) + Cardinality(b) <= n + p.total
  BY DEF AloneOK
<1>3. \A m \in b : Count(b, m) \in Nat
  BY Newers
<1>4. ASSUME NEW next \in Nat, next <= o + k PROVE Cardinality(Behind(b, V, next)) <= n
  <2>1. Behind(b, V, next) \in SUBSET Passed(b, U, o, k, p.items)
    <3>1. \A m \in b : Count(b, m) < next => Count(b, m) < o + k
      BY <1>a, <1>3, <1>4
    <3> QED BY <3>1 DEF Behind, Passed, Lacks
  <2> QED BY <1>1, <1>2, <2>1, Subsets
<1>5. ASSUME p.total \in Nat, p.total <= o + k PROVE Cardinality(V) <= n
  <2>j. PICK j \in Nat : j = o + k
    BY <1>a
  <2> DEFINE T == {m \in b : Count(b, m) >= j}
  <2>1. V \in SUBSET (Passed(b, U, o, k, p.items) \cup T)
    BY <1>3, <2>j DEF Passed, Lacks
  <2>2. /\ IsFiniteSet(T) /\ Cardinality(T) \in Nat
        /\ j <= Cardinality(b) => Cardinality(T) <= Cardinality(b) - j
        /\ j > Cardinality(b) => T = {}
    BY TailSize
  <2> HIDE DEF T
  <2>3. /\ Cardinality(V) \in Nat
        /\ Cardinality(V) <= Cardinality(Passed(b, U, o, k, p.items)) + Cardinality(T)
    BY <1>1, <2>1, <2>2, Spanned
  <2>4. Cardinality(b) \in Nat /\ (T = {} => Cardinality(T) = 0)
    BY Sized, FS_EmptySet
  <2> QED BY <1>a, <1>1, <1>2, <1>5, <2>j, <2>2, <2>3, <2>4
<1>6. ASSUME p.phase = "done", k = Len(p.items), k < wanted PROVE Cardinality(V) <= n
  <2>1. V \in SUBSET Left(U, p.items) /\ Left(U, p.items) \in SUBSET b
    BY <1>6 DEF Left, Lacks
  <2>2. Cardinality(Left(U, p.items)) <= n
    BY <1>6 DEF AloneOK
  <2>3. IsFiniteSet(Left(U, p.items))
    BY <2>1, Subsets
  <2>4. /\ Cardinality(V) <= Cardinality(Left(U, p.items)) /\ Cardinality(V) \in Nat
        /\ Cardinality(Left(U, p.items)) \in Nat
    BY <2>1, <2>3, Subsets
  <2> QED BY <2>2, <2>4
<1> QED BY <1>4, <1>5, <1>6

-----------------------------------------------------------------------------
(* SearchPaging: several folders F at once.  list[f] is what f has given,   *)
(* open are the folders that may give more: what is to come is then what    *)
(* the box holds from that place on.  Entries are the places, up to c in    *)
(* each folder, of what is newer than m.                                    *)
FoldersOK(F, list, b) ==
  /\ IsFiniteSet(F)
  /\ \A f \in F : list[f] \in Seq(Nat) /\ b[f] \in SUBSET Nat /\ IsFiniteSet(b[f])

Prior(list, open, b, f, k, m) ==
  IF k <= Len(list[f]) THEN list[f][k] > m ELSE f \in open /\ k <= Count(b[f], m)
Entries(F, list, open, b, c, m) == {h \in F \X (1..c) : Prior(list, open, b, h[1], h[2], m)}

LEMMA EntryShape ==
  ASSUME NEW F, NEW list, NEW open, NEW b, NEW c, NEW m
  PROVE  /\ Entries(F, list, open, b, c, m) \in SUBSET (F \X (1..c))
         /\ \A f \in F, k \in 1..c :
              <<f, k>> \in Entries(F, list, open, b, c, m) <=> Prior(list, open, b, f, k, m)
         /\ \A h \in Entries(F, list, open, b, c, m) :
              h[1] \in F /\ h[2] \in 1..c /\ h = <<h[1], h[2]>> /\ Prior(list, open, b, h[1], h[2], m)
BY DEF Entries

LEMMA EntriesFinite ==
  ASSUME NEW F, IsFiniteSet(F), NEW list, NEW open, NEW b, NEW c \in Nat, NEW m
  PROVE  /\ IsFiniteSet(Entries(F, list, open, b, c, m))
         /\ Cardinality(Entries(F, list, open, b, c, m)) \in Nat
<1>1. IsFiniteSet(1..c)
  BY FS_Interval
<1>2. IsFiniteSet(F \X (1..c))
  BY <1>1, FS_Product
<1>3. Entries(F, list, open, b, c, m) \in SUBSET (F \X (1..c))
  BY EntryShape
<1> QED BY <1>2, <1>3, Subsets

LEMMA EntriesGrow ==
  ASSUME NEW F, NEW list, NEW open, NEW b, FoldersOK(F, list, b),
         NEW c \in Nat, NEW d \in Nat, c <= d, NEW m \in Nat, NEW x \in Nat, m <= x
  PROVE  Entries(F, list, open, b, c, x) \in SUBSET Entries(F, list, open, b, d, m)
<1> SUFFICES ASSUME NEW f \in F, NEW k \in 1..c, Prior(list, open, b, f, k, x)
             PROVE  k \in 1..d /\ Prior(list, open, b, f, k, m)
  BY EntryShape
<1>1. list[f] \in Seq(Nat) /\ b[f] \in SUBSET Nat /\ IsFiniteSet(b[f])
  BY DEF FoldersOK
<1>2. Count(b[f], x) <= Count(b[f], m) /\ Count(b[f], x) \in Nat /\ Count(b[f], m) \in Nat
  BY <1>1, Newers
<1>3. CASE k <= Len(list[f])
  <2>1. list[f][k] \in Nat /\ list[f][k] > x
    BY <1>1, <1>3 DEF Prior
  <2> QED BY <1>3, <2>1 DEF Prior
<1>4. CASE ~(k <= Len(list[f]))
  BY <1>2, <1>4 DEF Prior
<1> QED BY <1>3, <1>4

(* A message that goes takes one place from the older ones that are still   *)
(* to come.                                                                 *)
Shifted(list, open, b, f, z, c, m) ==
  /\ m < z /\ f \in open
  /\ Count(b[f], m) > Len(list[f]) /\ Count(b[f], m) <= c

Goes(F, b, f, z, a) == a[f] = b[f] \ {z} /\ \A g \in F : g # f => a[g] = b[g]
Comes(F, b, f, z, a) == a[f] = b[f] \cup {z} /\ \A g \in F : g # f => a[g] = b[g]

Loses(old, new, p) == p \in old /\ new = old \ {p}
Gains(old, new, p) == old \in SUBSET new /\ new \in SUBSET (old \cup {p})

LEMMA EntriesRemoval ==
  ASSUME NEW F, NEW list, NEW open, NEW b, FoldersOK(F, list, b), NEW c \in Nat, NEW m \in Nat,
         NEW f \in F, NEW z \in b[f], NEW a, Goes(F, b, f, z, a)
  PROVE  /\ FoldersOK(F, list, a)
         /\ Shifted(list, open, b, f, z, c, m) =>
              Loses(Entries(F, list, open, b, c, m), Entries(F, list, open, a, c, m), <<f, Count(b[f], m)>>)
         /\ ~Shifted(list, open, b, f, z, c, m) =>
              Entries(F, list, open, a, c, m) = Entries(F, list, open, b, c, m)
<1>0. a[f] = b[f] \ {z} /\ \A g \in F : g # f => a[g] = b[g]
  BY DEF Goes
<1>1. list[f] \in Seq(Nat) /\ b[f] \in SUBSET Nat /\ IsFiniteSet(b[f])
  BY DEF FoldersOK
<1>2. IsFiniteSet(a[f]) /\ a[f] \in SUBSET Nat
  BY <1>0, <1>1, CountWithout
<1>3. FoldersOK(F, list, a)
  BY <1>0, <1>2 DEF FoldersOK
<1>4. PICK n \in Nat : n = Count(b[f], m)
  BY <1>1, Newers
<1>5. Count(a[f], m) = IF m < z THEN n - 1 ELSE n
  <2>1. /\ z > m => Count(b[f] \ {z}, m) = Count(b[f], m) - 1
        /\ ~(z > m) => Count(b[f] \ {z}, m) = Count(b[f], m)
    BY <1>1, CountWithout
  <2>2. z \in Nat
    BY <1>1
  <2> QED BY <1>0, <1>4, <2>1, <2>2
<1>6. \A g \in F, k \in 1..c : g # f => (Prior(list, open, a, g, k, m) <=> Prior(list, open, b, g, k, m))
  BY <1>0 DEF Prior
<1>7. \A k \in 1..c : k # n => (Prior(list, open, a, f, k, m) <=> Prior(list, open, b, f, k, m))
  BY <1>4, <1>5 DEF Prior
<1>8. PICK L \in Nat : L = Len(list[f])
  BY <1>1
<1>9. ASSUME n \in 1..c, ~(m < z /\ f \in open /\ n > L)
      PROVE  Prior(list, open, a, f, n, m) <=> Prior(list, open, b, f, n, m)
  BY <1>4, <1>5, <1>8, <1>9 DEF Prior
<1>10. ASSUME m < z, f \in open, n > L, n <= c
       PROVE  n \in 1..c /\ Prior(list, open, b, f, n, m) /\ ~Prior(list, open, a, f, n, m)
  BY <1>4, <1>5, <1>8, <1>10 DEF Prior
<1>11. CASE Shifted(list, open, b, f, z, c, m)
  <2>1. m < z /\ f \in open /\ n > L /\ n <= c
    BY <1>4, <1>8, <1>11 DEF Shifted
  <2>2. n \in 1..c /\ Prior(list, open, b, f, n, m) /\ ~Prior(list, open, a, f, n, m)
    BY <1>10, <2>1
  <2>3. \A g \in F, k \in 1..c : <<g, k>> # <<f, n>> =>
          (Prior(list, open, a, g, k, m) <=> Prior(list, open, b, g, k, m))
    BY <1>6, <1>7
  <2>4. <<f, n>> \in Entries(F, list, open, b, c, m) /\ <<f, n>> \notin Entries(F, list, open, a, c, m)
    BY <2>2, EntryShape
  <2>5. Entries(F, list, open, a, c, m) = Entries(F, list, open, b, c, m) \ {<<f, n>>}
    <3>1. \A h \in Entries(F, list, open, a, c, m) : h \in Entries(F, list, open, b, c, m) \ {<<f, n>>}
      BY <2>3, <2>4, EntryShape
    <3>2. \A h \in Entries(F, list, open, b, c, m) \ {<<f, n>>} : h \in Entries(F, list, open, a, c, m)
      BY <2>3, EntryShape
    <3> QED BY <3>1, <3>2
  <2> QED BY <1>3, <1>4, <1>11, <2>4, <2>5 DEF Loses
<1>12. CASE ~Shifted(list, open, b, f, z, c, m)
  <2>1. n \in 1..c => ~(m < z /\ f \in open /\ n > L)
    BY <1>4, <1>8, <1>12 DEF Shifted
  <2>2. \A g \in F, k \in 1..c : Prior(list, open, a, g, k, m) <=> Prior(list, open, b, g, k, m)
    BY <1>6, <1>7, <1>9, <2>1
  <2>3. Entries(F, list, open, a, c, m) = Entries(F, list, open, b, c, m)
    BY <2>2 DEF Entries
  <2> QED BY <1>3, <1>12, <2>3
<1> QED BY <1>11, <1>12

(* One that comes adds at most one place, for the older ones.               *)
LEMMA EntriesArrival ==
  ASSUME NEW F, NEW list, NEW open, NEW b, FoldersOK(F, list, b), NEW c \in Nat, NEW m \in Nat,
         NEW f \in F, NEW z \in Nat, z \notin b[f], NEW a, Comes(F, b, f, z, a)
  PROVE  /\ FoldersOK(F, list, a)
         /\ Gains(Entries(F, list, open, b, c, m), Entries(F, list, open, a, c, m), <<f, Count(b[f], m) + 1>>)
         /\ m >= z => Entries(F, list, open, a, c, m) = Entries(F, list, open, b, c, m)
<1>0. a[f] = b[f] \cup {z} /\ \A g \in F : g # f => a[g] = b[g]
  BY DEF Comes
<1>1. list[f] \in Seq(Nat) /\ b[f] \in SUBSET Nat /\ IsFiniteSet(b[f])
  BY DEF FoldersOK
<1>2. IsFiniteSet(a[f]) /\ a[f] \in SUBSET Nat
  BY <1>0, <1>1, CountWith
<1>3. FoldersOK(F, list, a)
  BY <1>0, <1>2 DEF FoldersOK
<1>4. PICK n \in Nat : n = Count(b[f], m)
  BY <1>1, Newers
<1>5. Count(a[f], m) = IF m < z THEN n + 1 ELSE n
  <2>1. /\ z > m => Count(b[f] \cup {z}, m) = Count(b[f], m) + 1
        /\ ~(z > m) => Count(b[f] \cup {z}, m) = Count(b[f], m)
    BY <1>1, CountWith
  <2> QED BY <1>0, <1>4, <2>1
<1>6. \A g \in F, k \in 1..c : g # f => (Prior(list, open, a, g, k, m) <=> Prior(list, open, b, g, k, m))
  BY <1>0 DEF Prior
<1>7. \A k \in 1..c : k # n + 1 => (Prior(list, open, a, f, k, m) <=> Prior(list, open, b, f, k, m))
  BY <1>4, <1>5 DEF Prior
<1>8. \A k \in 1..c : Prior(list, open, b, f, k, m) => Prior(list, open, a, f, k, m)
  BY <1>4, <1>5 DEF Prior
<1>9. \A k \in 1..c : m >= z => (Prior(list, open, a, f, k, m) <=> Prior(list, open, b, f, k, m))
  BY <1>4, <1>5 DEF Prior
<1>10. \A g \in F, k \in 1..c : Prior(list, open, b, g, k, m) => Prior(list, open, a, g, k, m)
  BY <1>6, <1>8
<1>11. \A g \in F, k \in 1..c : m >= z => (Prior(list, open, a, g, k, m) <=> Prior(list, open, b, g, k, m))
  BY <1>6, <1>9
<1>12. \A g \in F, k \in 1..c : <<g, k>> # <<f, n + 1>> =>
         (Prior(list, open, a, g, k, m) <=> Prior(list, open, b, g, k, m))
  BY <1>6, <1>7
<1>13. Entries(F, list, open, b, c, m) \in SUBSET Entries(F, list, open, a, c, m)
  BY <1>10, EntryShape
<1>14. Entries(F, list, open, a, c, m) \in SUBSET (Entries(F, list, open, b, c, m) \cup {<<f, n + 1>>})
  BY <1>12, EntryShape
<1>15. m >= z => Entries(F, list, open, a, c, m) = Entries(F, list, open, b, c, m)
  BY <1>11 DEF Entries
<1> QED BY <1>3, <1>4, <1>13, <1>14, <1>15 DEF Gains

(* A slice is what was to come at its places: no place changes.             *)
Kept(list, open, b, f, m) ==
  /\ \A k \in 1..Len(list[f]) : list[f][k] > m \/ \E j \in 1..k : list[f][j] = m
  /\ \/ \E j \in 1..Len(list[f]) : list[f][j] = m
     \/ f \in open /\ Count(b[f], m) >= Len(list[f])

(* Who is at a place, whether it was given or is to come.                   *)
At(list, open, b, f, k, x) ==
  IF k <= Len(list[f]) THEN list[f][k] = x
  ELSE f \in open /\ x \in b[f] /\ Count(b[f], x) + 1 = k
Placed(F, list, open, b, c, x) == \E f \in F, k \in 1..c : At(list, open, b, f, k, x)

Reads(F, list, open, b, f, w, new, pend) ==
  /\ f \in open /\ w \in Nat
  /\ Joined(new[f], list[f], Batch(b[f], Len(list[f]), w))
  /\ f \in pend \/ Len(Batch(b[f], Len(list[f]), w)) < w
  /\ \A g \in F : g # f => new[g] = list[g] /\ (g \in pend <=> g \in open)

SamePlaces(F, list, open, b, new, pend) ==
  /\ \A c, m \in Nat : Entries(F, new, pend, b, c, m) = Entries(F, list, open, b, c, m)
  /\ \A c \in Nat : \A x : Placed(F, new, pend, b, c, x) <=> Placed(F, list, open, b, c, x)
  /\ \A g \in F : \A m \in b[g] : Kept(list, open, b, g, m) => Kept(new, pend, b, g, m)

LEMMA EntriesSlice ==
  ASSUME NEW F, NEW list, NEW open, NEW b, FoldersOK(F, list, b), NEW f \in F,
         NEW w, NEW new, NEW pend, Reads(F, list, open, b, f, w, new, pend)
  PROVE  /\ FoldersOK(F, new, b)
         /\ SamePlaces(F, list, open, b, new, pend)
<1>0. /\ f \in open /\ w \in Nat
      /\ Joined(new[f], list[f], Batch(b[f], Len(list[f]), w))
      /\ f \in pend \/ Len(Batch(b[f], Len(list[f]), w)) < w
      /\ \A g \in F : g # f => new[g] = list[g] /\ (g \in pend <=> g \in open)
  BY DEF Reads
<1>1. list[f] \in Seq(Nat) /\ b[f] \in SUBSET Nat /\ IsFiniteSet(b[f])
  BY DEF FoldersOK
<1>a. PICK old : old = list[f] /\ old \in Seq(Nat)
  BY <1>1
<1>b. PICK L \in Nat : L = Len(old)
  BY <1>a
<1>2. old = list[f] /\ L = Len(old) /\ old \in Seq(Nat)
  BY <1>a, <1>b
<1>3. PICK box_f : box_f = b[f] /\ box_f \in SUBSET Nat /\ IsFiniteSet(box_f)
  BY <1>1
<1>4. PICK batch : batch = Batch(box_f, L, w)
  OBVIOUS
<1>5. /\ batch \in Seq(box_f)
      /\ \A m \in box_f, i \in 1..Len(batch) : Count(box_f, m) = L + i - 1 => batch[i] = m
      /\ \A m \in Nat, i \in 1..Len(batch) : batch[i] > m <=> L + i <= Count(box_f, m)
      /\ Len(batch) < w => Cardinality(box_f) <= L + Len(batch)
  <2>1. /\ batch \in Seq(box_f)
        /\ Len(batch) < w => Cardinality(box_f) <= L + Len(batch)
    BY <1>0, <1>3, <1>4, Batches
  <2>2. \A m \in box_f, i \in 1..Len(batch) : Count(box_f, m) = L + i - 1 => batch[i] = m
    BY <1>0, <1>3, <1>4, Batches
  <2>3. \A m \in Nat, i \in 1..Len(batch) : batch[i] > m <=> L + i <= Count(box_f, m)
    BY <1>0, <1>3, <1>4, Batches
  <2> QED BY <2>1, <2>2, <2>3
<1>6. batch \in Seq(Nat)
  BY <1>3, <1>5, Wider
<1>7. PICK M \in Nat : M = Len(batch)
  BY <1>6
<1>8. PICK united : united = new[f]
  OBVIOUS
<1>9. united = old \o batch
  BY <1>0, <1>2, <1>3, <1>4, <1>8 DEF Joined
<1>10. /\ united \in Seq(Nat) /\ Len(united) = L + M
       /\ \A i \in 1..L : united[i] = old[i]
       /\ \A i \in 1..M : united[L + i] = batch[i]
  BY <1>2, <1>6, <1>7, <1>9, Joins
<1>11. FoldersOK(F, new, b)
  BY <1>0, <1>8, <1>10 DEF FoldersOK
<1>12. /\ f \in pend \/ Cardinality(box_f) <= L + M
       /\ Cardinality(box_f) \in Nat /\ \A m : Count(box_f, m) \in Nat /\ Count(box_f, m) <= Cardinality(box_f)
       /\ \A m \in box_f : Count(box_f, m) < Cardinality(box_f)
  BY <1>0, <1>2, <1>3, <1>4, <1>5, <1>7, Newers, Sized
<1>13. ASSUME NEW k \in Nat \ {0}, NEW m \in Nat
       PROVE  Prior(new, pend, b, f, k, m) <=> Prior(list, open, b, f, k, m)
  <2>1. CASE k <= L
    <3>1. k \in 1..L /\ k <= L + M
      BY <2>1
    <3> QED BY <1>2, <1>8, <1>10, <2>1, <3>1 DEF Prior
  <2>2. CASE k > L /\ k <= L + M
    <3>1. PICK i \in 1..M : k = L + i
      <4>1. k - L \in 1..M /\ k = L + (k - L)
        BY <2>2
      <4> QED BY <4>1
    <3>2. united[k] > m <=> k <= Count(box_f, m)
      BY <1>5, <1>7, <1>10, <3>1
    <3> QED BY <1>0, <1>2, <1>3, <1>8, <1>10, <2>2, <3>2 DEF Prior
  <2>3. CASE k > L + M
    <3>1. f \notin pend => ~(k <= Count(box_f, m))
      BY <1>12, <2>3
    <3>2. ~(k <= L) /\ ~(k <= L + M)
      BY <2>3
    <3> QED BY <1>0, <1>2, <1>3, <1>8, <1>10, <3>1, <3>2 DEF Prior
  <2> QED BY <2>1, <2>2, <2>3
<1>14. ASSUME NEW c \in Nat, NEW m \in Nat
       PROVE  Entries(F, new, pend, b, c, m) = Entries(F, list, open, b, c, m)
  <2>1. \A g \in F, k \in 1..c : g # f => (Prior(new, pend, b, g, k, m) <=> Prior(list, open, b, g, k, m))
    BY <1>0 DEF Prior
  <2>2. \A k \in 1..c : k \in Nat \ {0}
    OBVIOUS
  <2>3. \A g \in F, k \in 1..c : Prior(new, pend, b, g, k, m) <=> Prior(list, open, b, g, k, m)
    BY <1>13, <2>1, <2>2
  <2> QED BY <2>3 DEF Entries
<1>15. ASSUME NEW m \in box_f, Kept(list, open, b, f, m) PROVE Kept(new, pend, b, f, m)
  <2>1. CASE \E j \in 1..L : old[j] = m
    <3>1. PICK j \in 1..L : old[j] = m
      BY <2>1
    <3>2. j \in 1..(L + M) /\ united[j] = m
      BY <1>10, <3>1
    <3>3. ASSUME NEW k \in 1..(L + M) PROVE united[k] > m \/ \E i \in 1..k : united[i] = m
      <4>1. CASE k <= L
        <5>1. k \in 1..L /\ \A i \in 1..k : i \in 1..L
          BY <4>1
        <5>2. old[k] > m \/ \E i \in 1..k : old[i] = m
          BY <1>2, <1>15, <5>1 DEF Kept
        <5> QED BY <1>10, <5>1, <5>2
      <4>2. CASE k > L
        <5>1. j \in 1..k
          BY <4>2
        <5> QED BY <3>2, <5>1
      <4> QED BY <4>1, <4>2
    <3> QED BY <1>8, <1>10, <3>2, <3>3 DEF Kept
  <2>2. CASE ~ \E j \in 1..L : old[j] = m
    <3>1. Count(box_f, m) >= L
      BY <1>2, <1>3, <1>15, <2>2 DEF Kept
    <3>2. ASSUME NEW k \in 1..(L + M) PROVE united[k] > m \/ \E i \in 1..k : united[i] = m
      <4>1. CASE k <= L
        <5>1. k \in 1..L /\ \A i \in 1..k : i \in 1..L
          BY <4>1
        <5>2. old[k] > m \/ \E i \in 1..k : old[i] = m
          BY <1>2, <1>15, <5>1 DEF Kept
        <5> QED BY <1>10, <5>1, <5>2
      <4>2. CASE k > L /\ k <= Count(box_f, m)
        <5>1. PICK i \in 1..M : k = L + i
          <6>1. k - L \in 1..M /\ k = L + (k - L)
            BY <4>2
          <6> QED BY <6>1
        <5> QED BY <1>3, <1>5, <1>7, <1>10, <4>2, <5>1
      <4>3. CASE k > L /\ k > Count(box_f, m)
        <5>1. PICK n \in Nat : n = Count(box_f, m)
          BY <1>12
        <5>2. PICK i \in 1..M : n = L + i - 1 /\ L + i <= k
          <6>1. n - L + 1 \in 1..M /\ n = L + (n - L + 1) - 1 /\ L + (n - L + 1) <= k
            BY <3>1, <4>3, <5>1
          <6> QED BY <6>1
        <5>3. batch[i] = m
          BY <1>5, <1>7, <5>1, <5>2
        <5>4. united[L + i] = m
          BY <1>10, <5>3
        <5>5. L + i \in 1..k
          BY <3>1, <5>2
        <5> QED BY <5>4, <5>5
      <4> QED BY <1>12, <4>1, <4>2, <4>3
    <3>3. \/ \E j \in 1..(L + M) : united[j] = m
          \/ f \in pend /\ Count(box_f, m) >= L + M
      <4>1. PICK n \in Nat : n = Count(box_f, m)
        BY <1>12
      <4>2. CASE n < L + M
        <5>1. PICK i \in 1..M : n = L + i - 1
          <6>1. n - L + 1 \in 1..M /\ n = L + (n - L + 1) - 1
            BY <3>1, <4>1, <4>2
          <6> QED BY <6>1
        <5>2. batch[i] = m
          BY <1>5, <1>7, <4>1, <5>1
        <5>3. united[L + i] = m /\ L + i \in 1..(L + M)
          BY <1>10, <5>2
        <5> QED BY <5>3
      <4>3. CASE n >= L + M
        BY <1>0, <1>12, <4>1, <4>3
      <4> QED BY <4>2, <4>3
    <3> QED BY <1>3, <1>8, <1>10, <3>2, <3>3 DEF Kept
  <2> QED BY <2>1, <2>2
<1>16. ASSUME NEW g \in F, g # f, NEW m, Kept(list, open, b, g, m) PROVE Kept(new, pend, b, g, m)
  BY <1>0, <1>16 DEF Kept
<1>17. ASSUME NEW k \in Nat \ {0}, NEW x
       PROVE  At(new, pend, b, f, k, x) <=> At(list, open, b, f, k, x)
  <2>1. CASE k <= L
    <3>1. k \in 1..L /\ k <= L + M
      BY <2>1
    <3> QED BY <1>0, <1>2, <1>8, <1>10, <2>1, <3>1 DEF At
  <2>2. CASE k > L /\ k <= L + M
    <3>1. PICK i \in 1..M : k = L + i
      <4>1. k - L \in 1..M /\ k = L + (k - L)
        BY <2>2
      <4> QED BY <4>1
    <3>2. At(new, pend, b, f, k, x) <=> batch[i] = x
      BY <1>2, <1>8, <1>10, <2>2, <3>1 DEF At
    <3>3. At(list, open, b, f, k, x) <=> x \in box_f /\ Count(box_f, x) + 1 = k
      BY <1>0, <1>2, <1>3, <2>2 DEF At
    <3>4. batch[i] \in box_f /\ Count(box_f, batch[i]) = L + i - 1
      <4>1. \A j \in 1..Len(batch) : Count(box_f, batch[j]) = L + j - 1
        BY <1>0, <1>3, <1>4, Batches
      <4> QED BY <1>5, <1>7, <4>1
    <3>5. x \in box_f /\ Count(box_f, x) + 1 = k => batch[i] = x
      <4> SUFFICES ASSUME x \in box_f, Count(box_f, x) + 1 = k PROVE batch[i] = x
        OBVIOUS
      <4>1. Count(box_f, x) \in Nat
        BY <1>12
      <4>2. Count(box_f, x) = L + i - 1
        BY <3>1, <4>1
      <4> QED BY <1>5, <1>7, <4>2
    <3>6. batch[i] = x => x \in box_f /\ Count(box_f, x) + 1 = k
      BY <3>1, <3>4
    <3> QED BY <3>2, <3>3, <3>5, <3>6
  <2>3. CASE k > L + M
    <3>1. f \notin pend => ~(x \in box_f /\ Count(box_f, x) + 1 = k)
      BY <1>12, <2>3
    <3>2. ~(k <= L) /\ ~(k <= L + M)
      BY <2>3
    <3> QED BY <1>0, <1>2, <1>3, <1>8, <1>10, <3>1, <3>2 DEF At
  <2> QED BY <2>1, <2>2, <2>3
<1>18. ASSUME NEW c \in Nat, NEW x
       PROVE  Placed(F, new, pend, b, c, x) <=> Placed(F, list, open, b, c, x)
  <2>1. \A g \in F, k \in 1..c : g # f => (At(new, pend, b, g, k, x) <=> At(list, open, b, g, k, x))
    BY <1>0 DEF At
  <2>2. \A k \in 1..c : k \in Nat \ {0}
    OBVIOUS
  <2>3. \A g \in F, k \in 1..c : At(new, pend, b, g, k, x) <=> At(list, open, b, g, k, x)
    BY <1>17, <2>1, <2>2
  <2> QED BY <2>3 DEF Placed
<1>19. \A g \in F : \A m \in b[g] : Kept(list, open, b, g, m) => Kept(new, pend, b, g, m)
  BY <1>3, <1>15, <1>16
<1> QED BY <1>11, <1>14, <1>18, <1>19 DEF SamePlaces

LEMMA AtPlace ==
  ASSUME NEW F, NEW list, NEW open, NEW b, FoldersOK(F, list, b), NEW f \in F, NEW k \in Nat \ {0},
         NEW x, At(list, open, b, f, k, x)
  PROVE  /\ x \in Nat
         /\ \A m \in Nat : m < x => Prior(list, open, b, f, k, m)
         /\ \A m \in Nat : x <= m => ~Prior(list, open, b, f, k, m)
         /\ \A y : At(list, open, b, f, k, y) => y = x
<1>1. PICK L \in Nat : L = Len(list[f])
  BY DEF FoldersOK
<1>2. PICK B : B = b[f] /\ B \in SUBSET Nat /\ IsFiniteSet(B)
  BY DEF FoldersOK
<1>3. list[f] \in Seq(Nat)
  BY DEF FoldersOK
<1>4. CASE k <= L
  <2>1. list[f][k] = x /\ x \in Nat
    BY <1>1, <1>3, <1>4 DEF At
  <2> QED BY <1>1, <1>4, <2>1 DEF At, Prior
<1>5. CASE ~(k <= L)
  <2>1. f \in open /\ x \in B /\ Count(B, x) + 1 = k
    BY <1>1, <1>2, <1>5 DEF At
  <2>2. /\ Count(B, x) \in Nat /\ \A m \in Nat : Count(B, m) \in Nat
        /\ \A m \in Nat : m < x => Count(B, x) < Count(B, m)
        /\ \A m \in Nat : x <= m => Count(B, m) <= Count(B, x)
        /\ \A y \in B : Count(B, y) = Count(B, x) => y = x
    BY <1>2, <2>1, Newers
  <2>3. \A m \in Nat : Prior(list, open, b, f, k, m) <=> k <= Count(B, m)
    BY <1>1, <1>2, <1>5, <2>1 DEF Prior
  <2>4. \A y : At(list, open, b, f, k, y) => y \in B /\ Count(B, y) + 1 = k
    BY <1>1, <1>2, <1>5 DEF At
  <2>5. \A y : At(list, open, b, f, k, y) => Count(B, y) \in Nat
    BY <1>2, <2>4, Newers
  <2> QED BY <1>2, <2>1, <2>2, <2>3, <2>4, <2>5
<1> QED BY <1>4, <1>5

(* So many messages with a place make so many more places for what is older *)
(* than they are.                                                           *)
LEMMA MoreEntries ==
  ASSUME NEW F, NEW list, NEW open, NEW b, FoldersOK(F, list, b), NEW c \in Nat,
         NEW m \in Nat, NEW x \in Nat, m <= x, NEW Q, IsFiniteSet(Q),
         \A q \in Q : Placed(F, list, open, b, c, q) /\ m < q /\ q <= x
  PROVE  /\ Cardinality(Entries(F, list, open, b, c, x)) + Cardinality(Q)
              <= Cardinality(Entries(F, list, open, b, c, m))
         /\ Cardinality(Q) \in Nat
         /\ Cardinality(Entries(F, list, open, b, c, x)) \in Nat
         /\ Cardinality(Entries(F, list, open, b, c, m)) \in Nat
<1>1. PICK old, all : /\ old = Entries(F, list, open, b, c, x)
                      /\ all = Entries(F, list, open, b, c, m)
  OBVIOUS
<1>2. IsFiniteSet(F)
  BY DEF FoldersOK
<1>3. /\ old \in SUBSET all /\ IsFiniteSet(all) /\ IsFiniteSet(old)
      /\ Cardinality(all) \in Nat /\ Cardinality(old) \in Nat
  BY <1>1, <1>2, EntriesGrow, EntriesFinite
<1> DEFINE g == [q \in Q |-> CHOOSE h \in F \X (1..c) : At(list, open, b, h[1], h[2], q)]
<1>4. ASSUME NEW q \in Q
      PROVE  /\ g[q] \in F \X (1..c) /\ g[q] \in all \ old
             /\ At(list, open, b, g[q][1], g[q][2], q)
  <2>1. PICK f \in F, k \in 1..c : At(list, open, b, f, k, q)
    BY DEF Placed
  <2>2. \E h \in F \X (1..c) : At(list, open, b, h[1], h[2], q)
    <3>1. <<f, k>> \in F \X (1..c)
      OBVIOUS
    <3> QED BY <2>1, <3>1
  <2>3. g[q] \in F \X (1..c) /\ At(list, open, b, g[q][1], g[q][2], q)
    BY <2>2
  <2> HIDE DEF g
  <2>4. PICK a \in F, d \in 1..c : g[q] = <<a, d>>
    BY <2>3
  <2>5. At(list, open, b, a, d, q) /\ d \in Nat \ {0}
    BY <2>3, <2>4
  <2>6. q \in Nat /\ Prior(list, open, b, a, d, m) /\ ~Prior(list, open, b, a, d, x)
    BY <2>5, AtPlace
  <2>7. <<a, d>> \in all /\ <<a, d>> \notin old
    BY <1>1, <2>6, EntryShape
  <2> QED BY <2>3, <2>4, <2>7
<1>5. g \in [Q -> all \ old]
  BY <1>4
<1>6. ASSUME NEW q \in Q, NEW r \in Q, g[q] = g[r] PROVE q = r
  <2> HIDE DEF g
  <2>1. PICK a \in F, d \in 1..c : g[q] = <<a, d>>
    BY <1>4
  <2>2. g[q][1] = a /\ g[q][2] = d /\ g[r][1] = a /\ g[r][2] = d /\ d \in Nat \ {0}
    BY <1>6, <2>1
  <2>3. At(list, open, b, a, d, q) /\ At(list, open, b, a, d, r)
    BY <1>4, <2>2
  <2> QED BY <2>2, <2>3, AtPlace
<1> HIDE DEF g
<1>7. g \in Injection(Q, all \ old)
  BY <1>5, <1>6 DEF Injection, IsInjective
<1>8. IsFiniteSet(all \ old) /\ Cardinality(all \ old) = Cardinality(all) - Cardinality(old)
  <2>1. IsFiniteSet(all \ old) /\ Cardinality(all \ old) = Cardinality(all) - Cardinality(all \cap old)
    BY <1>3, FS_Difference
  <2>2. all \cap old = old
    BY <1>3
  <2> QED BY <2>1, <2>2
<1>9. Cardinality(Q) <= Cardinality(all \ old)
  BY <1>7, <1>8, FS_Injection
<1>10. Cardinality(Q) \in Nat
  BY Sized
<1> QED BY <1>1, <1>3, <1>8, <1>9, <1>10

(* A folder that has something newer at each place fills them all.          *)
LEMMA FullEntries ==
  ASSUME NEW F, IsFiniteSet(F), NEW list, NEW open, NEW b, NEW c \in Nat, NEW m, NEW f \in F,
         \A k \in 1..c : Prior(list, open, b, f, k, m)
  PROVE  c <= Cardinality(Entries(F, list, open, b, c, m))
<1>1. PICK all : all = Entries(F, list, open, b, c, m)
  OBVIOUS
<1>2. IsFiniteSet(all) /\ Cardinality(all) \in Nat
  BY <1>1, EntriesFinite
<1> DEFINE g == [k \in 1..c |-> <<f, k>>]
<1>3. \A k \in 1..c : <<f, k>> \in all
  BY <1>1, EntryShape
<1>4. g \in [1..c -> all] /\ \A i, j \in 1..c : g[i] = g[j] => i = j
  BY <1>3
<1> HIDE DEF g
<1>5. g \in Injection(1..c, all)
  BY <1>4 DEF Injection, IsInjective
<1>6. IsFiniteSet(1..c) /\ Cardinality(1..c) = c
  <2>1. IsFiniteSet(1..c) /\ Cardinality(1..c) = IF 1 <= c THEN c - 1 + 1 ELSE 0
    BY FS_Interval
  <2> QED BY <2>1
<1>7. Cardinality(1..c) <= Cardinality(all)
  BY <1>2, <1>5, FS_Injection
<1> QED BY <1>1, <1>6, <1>7

(* Before anything was given, what is to come is what is newer.             *)
LEMMA StartEntries ==
  ASSUME NEW F, NEW list, NEW open, NEW b, FoldersOK(F, list, b), \A f \in F : Len(list[f]) = 0,
         \A f, g \in F : f # g => b[f] \cap b[g] = {}, NEW post, IsFiniteSet(post),
         \A f \in F : b[f] \subseteq post, NEW c \in Nat, NEW m \in Nat
  PROVE  /\ Cardinality(Entries(F, list, open, b, c, m)) <= Count(post, m)
         /\ Cardinality(Entries(F, list, open, b, c, m)) \in Nat /\ Count(post, m) \in Nat
<1>1. PICK all : all = Entries(F, list, open, b, c, m)
  OBVIOUS
<1>2. IsFiniteSet(all) /\ Cardinality(all) \in Nat
  BY <1>1, EntriesFinite DEF FoldersOK
<1>3. IsFiniteSet(Newer(post, m)) /\ Count(post, m) \in Nat
  BY Subsets DEF Newer, Count
<1> DEFINE At1(h, x) == x \in b[h[1]] /\ Count(b[h[1]], x) + 1 = h[2]
<1> DEFINE g == [h \in all |-> CHOOSE x \in Newer(post, m) : At1(h, x)]
<1>4. ASSUME NEW h \in all
      PROVE  g[h] \in Newer(post, m) /\ At1(h, g[h])
  <2>1. h[1] \in F /\ h[2] \in 1..c /\ Prior(list, open, b, h[1], h[2], m)
    BY <1>1, EntryShape
  <2>2. PICK k \in Nat \ {0} : k = h[2]
    BY <2>1
  <2>3. PICK B : B = b[h[1]] /\ B \in SUBSET Nat /\ IsFiniteSet(B) /\ B \subseteq post
    BY <2>1 DEF FoldersOK
  <2>4. k <= Count(B, m)
    <3>1. ~(k <= Len(list[h[1]]))
      BY <2>1
    <3> QED BY <2>1, <2>2, <2>3, <3>1 DEF Prior
  <2>5. /\ Count(B, m) \in Nat /\ Count(B, m) <= Cardinality(B) /\ Cardinality(B) \in Nat
    BY <2>3, Newers, Sized
  <2>6. k \in 1..Cardinality(B)
    BY <2>4, <2>5
  <2>7. PICK x : x = Paging!Listing(B)[k]
    OBVIOUS
  <2>8. x \in B /\ Count(B, x) = k - 1 /\ x > m
    <3>1. /\ Paging!Listing(B) \in Seq(B) /\ Len(Paging!Listing(B)) = Cardinality(B)
          /\ Count(B, Paging!Listing(B)[k]) = k - 1
          /\ Paging!Listing(B)[k] > m
      BY <2>3, <2>4, <2>6, ListingOf
    <3>2. Paging!Listing(B)[k] \in B
      BY <2>6, <3>1
    <3> QED BY <2>7, <3>1, <3>2
  <2>9. x \in Newer(post, m) /\ At1(h, x)
    BY <2>2, <2>3, <2>8 DEF Newer
  <2>10. \E y \in Newer(post, m) : At1(h, y)
    BY <2>9
  <2> HIDE DEF At1
  <2> QED BY <2>10
<1>5. g \in [all -> Newer(post, m)]
  BY <1>4
<1>6. ASSUME NEW h \in all, NEW j \in all, g[h] = g[j] PROVE h = j
  <2> HIDE DEF g
  <2>1. /\ g[h] \in b[h[1]] /\ g[h] \in b[j[1]]
        /\ Count(b[h[1]], g[h]) + 1 = h[2] /\ Count(b[j[1]], g[h]) + 1 = j[2]
    BY <1>4, <1>6
  <2>2. h[1] \in F /\ j[1] \in F /\ h = <<h[1], h[2]>> /\ j = <<j[1], j[2]>>
    BY <1>1, EntryShape
  <2>3. h[1] = j[1]
    BY <2>1, <2>2
  <2> QED BY <2>1, <2>2, <2>3
<1> HIDE DEF g
<1>7. g \in Injection(all, Newer(post, m))
  BY <1>5, <1>6 DEF Injection, IsInjective
<1>8. Cardinality(all) <= Count(post, m)
  BY <1>3, <1>7, FS_Injection DEF Count
<1> QED BY <1>1, <1>2, <1>3, <1>8

(* Hidden are the messages that changes keep from the page; what is newer   *)
(* in the folders and hidden exceeds what is newer in the boxes by no more  *)
(* than there were changes.                                                 *)
Reach(F, list, open, b, c, post, U, n, covert) ==
  /\ covert \in SUBSET U /\ Cardinality(covert) <= n
  /\ \A m \in U : Cardinality(Entries(F, list, open, b, c, m)) + Count(covert, m) <= Count(post, m) + n

LEMMA ReachRemoval ==
  ASSUME NEW F, NEW list, NEW open, NEW b, FoldersOK(F, list, b), NEW a, FoldersOK(F, list, a),
         NEW c \in Nat, NEW post, IsFiniteSet(post), NEW rest, IsFiniteSet(rest),
         NEW U \in SUBSET Nat, IsFiniteSet(U), NEW n \in Nat, NEW B,
         Reach(F, list, open, b, c, post, U, n, B),
         NEW V \in SUBSET U, \A m \in V : Count(post, m) <= Count(rest, m) + 1,
         NEW T \in SUBSET (V \ B), \A x, y \in T : x = y,
         \A m \in V : Cardinality(Entries(F, list, open, a, c, m)) <= Cardinality(Entries(F, list, open, b, c, m)),
         \A t \in T, m \in V : m < t =>
           Cardinality(Entries(F, list, open, a, c, m)) + 1 <= Cardinality(Entries(F, list, open, b, c, m))
  PROVE  Reach(F, list, open, a, c, rest, V, n + 1, (B \cap V) \cup T)
<1>1. PICK C : C = (B \cap V) \cup T
  OBVIOUS
<1>2. IsFiniteSet(B) /\ IsFiniteSet(T) /\ B \in SUBSET Nat
  BY Subsets DEF Reach
<1>3. Cardinality(C) <= n + 1 /\ C \in SUBSET V
  <2>1. Cardinality(C) <= Cardinality(B) + 1 /\ Cardinality(C) \in Nat /\ Cardinality(B) \in Nat
    <3>1. C \in SUBSET (B \cup T)
      BY <1>1
    <3> QED BY <1>2, <3>1, PlusOne
  <2> QED BY <1>1, <2>1 DEF Reach
<1>4. ASSUME NEW m \in V
      PROVE  Cardinality(Entries(F, list, open, a, c, m)) + Count(C, m) <= Count(rest, m) + (n + 1)
  <2>1. PICK e, d : /\ e = Cardinality(Entries(F, list, open, b, c, m))
                    /\ d = Cardinality(Entries(F, list, open, a, c, m))
    OBVIOUS
  <2>2. e \in Nat /\ d \in Nat /\ d <= e
    BY <2>1, EntriesFinite DEF FoldersOK
  <2>3. e + Count(B, m) <= Count(post, m) + n /\ Count(post, m) <= Count(rest, m) + 1
    BY <2>1 DEF Reach
  <2>4. Count(post, m) \in Nat /\ Count(rest, m) \in Nat /\ Count(B, m) \in Nat /\ IsFiniteSet(Newer(B, m))
    BY <1>2, Subsets DEF Count, Newer
  <2>5. CASE \E t \in T : m < t
    <3>1. d + 1 <= e
      BY <2>1, <2>5
    <3>2. Newer(C, m) \in SUBSET (Newer(B, m) \cup T)
      BY <1>1 DEF Newer
    <3>3. Count(C, m) <= Count(B, m) + 1 /\ Count(C, m) \in Nat
      BY <1>2, <2>4, <3>2, PlusOne DEF Count
    <3> QED BY <2>1, <2>2, <2>3, <2>4, <3>1, <3>3
  <2>6. CASE ~ \E t \in T : m < t
    <3>0. \A t \in T : ~(t > m)
      BY <2>6
    <3>1. Newer(C, m) \in SUBSET Newer(B, m)
      BY <1>1, <3>0 DEF Newer
    <3>3. Count(C, m) <= Count(B, m) /\ Count(C, m) \in Nat
      BY <2>4, <3>1, Subsets DEF Count
    <3> QED BY <2>1, <2>2, <2>3, <2>4, <3>3
  <2> QED BY <2>5, <2>6
<1> QED BY <1>1, <1>3, <1>4 DEF Reach

KeptAll(F, list, open, b, S) == \A f \in F : \A m \in S : m \in b[f] => Kept(list, open, b, f, m)

(* A removal may hide one message: the one that was to come next, or the    *)
(* one whose place is the first of the page.                                *)
Lost(list, open, b, f, z, m) ==
  m < z /\ f \in open /\ m \in b[f] /\ Count(b[f], m) = Len(list[f])
Drops(list, open, b, f, z, m) == m < z /\ f \in open /\ Count(b[f], m) > Len(list[f])

LEMMA KeptRemoval ==
  ASSUME NEW F, NEW list, NEW open, NEW b, FoldersOK(F, list, b),
         NEW f \in F, NEW z \in b[f], NEW a, Goes(F, b, f, z, a),
         NEW g \in F, NEW m \in a[g], Kept(list, open, b, g, m), ~Kept(list, open, a, g, m)
  PROVE  Lost(list, open, b, f, z, m)
<1>0. a[f] = b[f] \ {z} /\ \A h \in F : h # f => a[h] = b[h]
  BY DEF Goes
<1>1. g = f
  <2>1. g # f => a[g] = b[g]
    BY <1>0
  <2> QED BY <2>1 DEF Kept
<1>2. PICK B : B = b[f] /\ B \in SUBSET Nat /\ IsFiniteSet(B)
  BY DEF FoldersOK
<1>3. PICK L \in Nat : L = Len(list[f])
  BY DEF FoldersOK
<1>4. PICK A : A = B \ {z} /\ A = a[f]
  BY <1>0, <1>2
<1>5. m \in B /\ m \in Nat /\ z \in B /\ z \in Nat /\ m # z
  BY <1>1, <1>2, <1>4
<1>6. /\ z > m => Count(A, m) = Count(B, m) - 1
      /\ ~(z > m) => Count(A, m) = Count(B, m)
      /\ Count(B, m) \in Nat
  <2>1. Count(B, m) \in Nat
    BY <1>2, <1>5, Newers
  <2>2. /\ z > m => Count(B \ {z}, m) = Count(B, m) - 1
        /\ ~(z > m) => Count(B \ {z}, m) = Count(B, m)
    BY <1>2, <1>5, CountWithout
  <2> QED BY <1>4, <2>1, <2>2
<1>7. f \in open /\ Count(B, m) >= L /\ ~(Count(A, m) >= L)
  BY <1>1, <1>2, <1>3, <1>4 DEF Kept
<1> QED BY <1>2, <1>3, <1>5, <1>6, <1>7 DEF Lost

(* What the folders have given and will give.                               *)
Found(F, list, open, b, c) == {x \in Nat : Placed(F, list, open, b, c, x)}

LEMMA FoundFinite ==
  ASSUME NEW F, NEW list, NEW open, NEW b, FoldersOK(F, list, b), NEW c \in Nat
  PROVE  /\ IsFiniteSet(Found(F, list, open, b, c)) /\ Found(F, list, open, b, c) \in SUBSET Nat
         /\ \A m : /\ IsFiniteSet(Newer(Found(F, list, open, b, c), m))
                   /\ Count(Found(F, list, open, b, c), m) \in Nat
<1>1. PICK S : S = Found(F, list, open, b, c)
  OBVIOUS
<1> DEFINE g == [x \in S |-> CHOOSE h \in F \X (1..c) : At(list, open, b, h[1], h[2], x)]
<1>2. ASSUME NEW x \in S PROVE g[x] \in F \X (1..c) /\ At(list, open, b, g[x][1], g[x][2], x)
  <2>1. PICK f \in F, k \in 1..c : At(list, open, b, f, k, x)
    BY <1>1 DEF Found, Placed
  <2>2. \E h \in F \X (1..c) : At(list, open, b, h[1], h[2], x)
    <3>1. <<f, k>> \in F \X (1..c)
      OBVIOUS
    <3> QED BY <2>1, <3>1
  <2> QED BY <2>2
<1>3. g \in [S -> F \X (1..c)]
  BY <1>2
<1>4. ASSUME NEW x \in S, NEW y \in S, g[x] = g[y] PROVE x = y
  <2> HIDE DEF g
  <2>1. PICK f \in F, k \in 1..c : g[x] = <<f, k>>
    BY <1>2
  <2>2. g[x][1] = f /\ g[x][2] = k /\ g[y][1] = f /\ g[y][2] = k /\ k \in Nat \ {0}
    BY <1>4, <2>1
  <2>3. At(list, open, b, f, k, x) /\ At(list, open, b, f, k, y)
    BY <1>2, <2>2
  <2> QED BY <2>2, <2>3, AtPlace
<1> HIDE DEF g
<1>5. g \in Injection(S, F \X (1..c))
  BY <1>3, <1>4 DEF Injection, IsInjective
<1>6. IsFiniteSet(F) /\ IsFiniteSet(1..c)
  BY FS_Interval DEF FoldersOK
<1>7. IsFiniteSet(F \X (1..c))
  BY <1>6, FS_Product
<1>8. IsFiniteSet(S)
  BY <1>5, <1>7, FS_Injection
<1>9. S \in SUBSET Nat
  BY <1>1 DEF Found
<1> QED BY <1>1, <1>8, <1>9, Newers, Subsets DEF Newer, Count

(* A readable message has its place: within the cap unless so many are      *)
(* ahead of it.                                                             *)
LEMMA Fits ==
  ASSUME NEW F, NEW list, NEW open, NEW b, FoldersOK(F, list, b), NEW c \in Nat,
         NEW g \in F, NEW m \in b[g], Kept(list, open, b, g, m),
         Cardinality(Entries(F, list, open, b, c, m)) < c
  PROVE  Placed(F, list, open, b, c, m)
<1> SUFFICES ASSUME ~Placed(F, list, open, b, c, m) PROVE FALSE
  OBVIOUS
<1>1. PICK B : B = b[g] /\ B \in SUBSET Nat /\ IsFiniteSet(B) /\ m \in B /\ m \in Nat
  BY DEF FoldersOK
<1>2. PICK L \in Nat : L = Len(list[g])
  BY DEF FoldersOK
<1>3. Count(B, m) \in Nat
  BY <1>1, Newers
<1>4. \A k \in 1..c : ~At(list, open, b, g, k, m)
  BY DEF Placed
<1>5. \A k \in 1..c : k <= L => list[g][k] # m
  BY <1>2, <1>4 DEF At
<1>6. ASSUME NEW k \in 1..c PROVE Prior(list, open, b, g, k, m)
  <2>1. CASE k <= L
    <3>1. k \in 1..L /\ \A j \in 1..k : j \in 1..c /\ j <= L
      BY <2>1
    <3>2. list[g][k] > m
      BY <1>2, <1>5, <3>1 DEF Kept
    <3> QED BY <1>2, <2>1, <3>2 DEF Prior
  <2>2. CASE ~(k <= L)
    <3>1. \A j \in 1..L : j \in 1..c /\ j <= L
      BY <2>2
    <3>2. g \in open /\ Count(B, m) >= L
      BY <1>1, <1>2, <1>5, <3>1 DEF Kept
    <3>3. PICK n \in Nat : n = Count(B, m) + 1
      BY <1>3
    <3>4. ~(n <= L)
      BY <1>3, <3>2, <3>3
    <3>5. At(list, open, b, g, n, m)
      BY <1>1, <1>2, <3>2, <3>3, <3>4 DEF At
    <3>6. ~(n \in 1..c)
      BY <1>4, <3>5
    <3>7. k <= Count(B, m)
      BY <1>3, <3>3, <3>6
    <3> QED BY <1>1, <1>2, <2>2, <3>2, <3>7 DEF Prior
  <2> QED BY <2>1, <2>2
<1>7. c <= Cardinality(Entries(F, list, open, b, c, m))
  BY <1>6, FullEntries DEF FoldersOK
<1>8. Cardinality(Entries(F, list, open, b, c, m)) \in Nat
  BY EntriesFinite DEF FoldersOK
<1> QED BY <1>7, <1>8

LEMMA FitsAll ==
  ASSUME NEW F, NEW list, NEW open, NEW b, FoldersOK(F, list, b), NEW c \in Nat,
         NEW g \in F, NEW m \in b[g], Kept(list, open, b, g, m),
         Len(list[g]) <= c, Cardinality(b[g]) <= c
  PROVE  Placed(F, list, open, b, c, m)
<1>1. PICK B : B = b[g] /\ B \in SUBSET Nat /\ IsFiniteSet(B) /\ m \in B /\ m \in Nat
  BY DEF FoldersOK
<1>2. PICK L \in Nat : L = Len(list[g])
  BY DEF FoldersOK
<1>3. Count(B, m) \in Nat /\ Count(B, m) < Cardinality(B) /\ Cardinality(B) \in Nat /\ Cardinality(B) <= c
  BY <1>1, Newers, Sized
<1>4. CASE \E j \in 1..L : list[g][j] = m
  <2>1. PICK j \in 1..L : list[g][j] = m
    BY <1>4
  <2>2. j \in 1..c
    BY <1>2
  <2>3. At(list, open, b, g, j, m)
    BY <1>2, <2>1 DEF At
  <2> QED BY <2>2, <2>3 DEF Placed
<1>5. CASE ~ \E j \in 1..L : list[g][j] = m
  <2>1. g \in open /\ Count(B, m) >= L
    BY <1>1, <1>2, <1>5 DEF Kept
  <2>2. PICK n \in Nat : n = Count(B, m) + 1
    BY <1>3
  <2>3. ~(n <= L) /\ n \in 1..c
    BY <1>3, <2>1, <2>2
  <2>4. At(list, open, b, g, n, m)
    BY <1>1, <1>2, <2>1, <2>2, <2>3 DEF At
  <2> QED BY <2>3, <2>4 DEF Placed
<1> QED BY <1>4, <1>5

DropsOK(F, list, open, b, f, z, o, S, e, d) ==
  /\ \A m \in S : e[m] \in Nat /\ d[m] \in Nat
  /\ \A m \in S : d[m] >= e[m] \/ (d[m] + 1 = e[m] /\ Drops(list, open, b, f, z, m))
  /\ \A g \in F : \A x, y \in S :
       /\ x \in b[g] /\ Kept(list, open, b, g, x)
       /\ y < x /\ d[y] < e[y] /\ (e[x] = o \/ Lost(list, open, b, f, z, x))
       => e[x] < e[y]

EntriesAre(e, F, list, open, b, c, S) == \A m \in S : e[m] = Cardinality(Entries(F, list, open, b, c, m))
FoundAre(e, F, list, open, b, c, S) == \A m \in S : e[m] = Count(Found(F, list, open, b, c), m)
Sizes(F, list, b, c) == \A g \in F : Len(list[g]) <= c /\ Cardinality(b[g]) <= c

LEMMA EntriesDrop ==
  ASSUME NEW F, NEW list, NEW open, NEW b, FoldersOK(F, list, b), NEW c \in Nat, NEW o \in Nat, o < c,
         NEW f \in F, NEW z \in b[f], NEW a, Goes(F, b, f, z, a),
         NEW e, NEW d, NEW S \in SUBSET Nat,
         EntriesAre(e, F, list, open, b, c, S), EntriesAre(d, F, list, open, a, c, S)
  PROVE  DropsOK(F, list, open, b, f, z, o, S, e, d)
<1>0. /\ \A m \in S : e[m] = Cardinality(Entries(F, list, open, b, c, m))
      /\ \A m \in S : d[m] = Cardinality(Entries(F, list, open, a, c, m))
  BY DEF EntriesAre
<1>1. ASSUME NEW m \in S
      PROVE  /\ e[m] \in Nat /\ d[m] \in Nat
             /\ d[m] >= e[m] \/ (d[m] + 1 = e[m] /\ Shifted(list, open, b, f, z, c, m))
  <2>1. PICK old, new, p : /\ old = Entries(F, list, open, b, c, m)
                           /\ new = Entries(F, list, open, a, c, m)
                           /\ p = <<f, Count(b[f], m)>>
    OBVIOUS
  <2>0. m \in Nat
    OBVIOUS
  <2>a. /\ Shifted(list, open, b, f, z, c, m) =>
             Loses(Entries(F, list, open, b, c, m), Entries(F, list, open, a, c, m), <<f, Count(b[f], m)>>)
        /\ ~Shifted(list, open, b, f, z, c, m) =>
             Entries(F, list, open, a, c, m) = Entries(F, list, open, b, c, m)
    BY <2>0, EntriesRemoval
  <2>2. /\ Shifted(list, open, b, f, z, c, m) => p \in old /\ new = old \ {p}
        /\ ~Shifted(list, open, b, f, z, c, m) => new = old
    BY <2>1, <2>a DEF Loses
  <2>3. IsFiniteSet(old) /\ Cardinality(old) \in Nat
    BY <2>1, EntriesFinite DEF FoldersOK
  <2>4. e[m] = Cardinality(old) /\ d[m] = Cardinality(new)
    BY <1>0, <2>1
  <2>5. CASE Shifted(list, open, b, f, z, c, m)
    <3>1. Cardinality(new) = Cardinality(old) - 1 /\ IsFiniteSet(new)
      BY <2>2, <2>3, <2>5, FS_RemoveElement
    <3>2. Cardinality(new) \in Nat
      BY <3>1, Sized
    <3> QED BY <2>3, <2>4, <2>5, <3>1, <3>2
  <2>6. CASE ~Shifted(list, open, b, f, z, c, m)
    BY <2>2, <2>3, <2>4, <2>6
  <2> QED BY <2>5, <2>6
<1>2. \A m \in S : d[m] >= e[m] \/ (d[m] + 1 = e[m] /\ Drops(list, open, b, f, z, m))
  BY <1>1 DEF Shifted, Drops
<1>3. ASSUME NEW g \in F, NEW x \in S, NEW y \in S, x \in b[g], Kept(list, open, b, g, x),
             y < x, d[y] < e[y], e[x] = o \/ Lost(list, open, b, f, z, x)
      PROVE  e[x] < e[y]
  <2>1. x \in Nat /\ y \in Nat /\ e[x] \in Nat /\ e[y] \in Nat
    BY <1>1
  <2>2. Placed(F, list, open, b, c, x)
    <3>1. CASE e[x] = o
      BY <1>0, <1>3, <3>1, Fits
    <3>2. CASE Lost(list, open, b, f, z, x)
      <4>1. PICK B : B = b[f] /\ B \in SUBSET Nat /\ IsFiniteSet(B)
        BY DEF FoldersOK
      <4>2. PICK L \in Nat : L = Len(list[f])
        BY DEF FoldersOK
      <4>3. x \in B /\ Count(B, x) = L /\ f \in open
        BY <3>2, <4>1, <4>2 DEF Lost
      <4>4. Shifted(list, open, b, f, z, c, y)
        BY <1>1, <1>3
      <4>5. Count(B, y) > L /\ Count(B, y) <= c /\ Count(B, y) \in Nat
        BY <2>1, <4>1, <4>2, <4>4, Newers DEF Shifted
      <4>6. L + 1 \in 1..c /\ ~(L + 1 <= L)
        BY <4>5
      <4>7. At(list, open, b, f, L + 1, x)
        BY <4>1, <4>2, <4>3, <4>6 DEF At
      <4> QED BY <4>6, <4>7 DEF Placed
    <3> QED BY <1>3, <3>1, <3>2
  <2>3. IsFiniteSet({x}) /\ Cardinality({x}) = 1
    BY FS_Singleton
  <2>4. \A q \in {x} : Placed(F, list, open, b, c, q) /\ y < q /\ q <= x
    BY <1>3, <2>1, <2>2
  <2>5. Cardinality(Entries(F, list, open, b, c, x)) + Cardinality({x})
          <= Cardinality(Entries(F, list, open, b, c, y))
    <3>1. y <= x
      BY <1>3, <2>1
    <3> QED BY <2>1, <2>3, <2>4, <3>1, MoreEntries
  <2>6. e[x] + 1 <= e[y]
    BY <1>0, <2>3, <2>5
  <2> QED BY <2>1, <2>6
<1> QED BY <1>1, <1>2, <1>3 DEF DropsOK

LEMMA FoundDrop ==
  ASSUME NEW F, NEW list, NEW open, NEW b, FoldersOK(F, list, b), NEW c \in Nat,
         Sizes(F, list, b, c), NEW o,
         NEW f \in F, NEW z \in b[f], NEW a, Goes(F, b, f, z, a),
         NEW e, NEW d, NEW S \in SUBSET Nat,
         FoundAre(e, F, list, open, b, c, S), FoundAre(d, F, list, open, a, c, S)
  PROVE  DropsOK(F, list, open, b, f, z, o, S, e, d)
<1>0. /\ \A m \in S : e[m] = Count(Found(F, list, open, b, c), m)
      /\ \A m \in S : d[m] = Count(Found(F, list, open, a, c), m)
      /\ a[f] = b[f] \ {z} /\ \A g \in F : g # f => a[g] = b[g]
  BY DEF FoundAre, Goes
<1>1. PICK B : B = b[f] /\ B \in SUBSET Nat /\ IsFiniteSet(B) /\ z \in B /\ z \in Nat
  BY DEF FoldersOK
<1>2. PICK L \in Nat : L = Len(list[f])
  BY DEF FoldersOK
<1>3. PICK A : A = a[f] /\ A = B \ {z} /\ A \in SUBSET Nat /\ IsFiniteSet(A)
  BY <1>0, <1>1, CountWithout
<1>4. FoldersOK(F, list, a)
  BY <1>0, <1>3 DEF FoldersOK
<1>5. PICK old, new : old = Found(F, list, open, b, c) /\ new = Found(F, list, open, a, c)
  OBVIOUS
<1>6. /\ IsFiniteSet(old) /\ old \in SUBSET Nat
      /\ \A m : IsFiniteSet(Newer(old, m)) /\ Count(old, m) \in Nat
      /\ \A m : IsFiniteSet(Newer(new, m)) /\ Count(new, m) \in Nat
  BY <1>4, <1>5, FoundFinite
<1>7. ASSUME NEW x \in old \ new
      PROVE  f \in open /\ x \in B /\ Count(B, x) >= L /\ (x = z \/ (x < z /\ Count(B, x) = L))
  <2>1. PICK g \in F, k \in 1..c : At(list, open, b, g, k, x)
    BY <1>5 DEF Found, Placed
  <2>2. x \in Nat /\ ~ \E h \in F, j \in 1..c : At(list, open, a, h, j, x)
    BY <1>5 DEF Found, Placed
  <2>3. ~At(list, open, a, g, k, x)
    BY <2>2
  <2>4. g = f
    <3>1. g # f => a[g] = b[g]
      BY <1>0
    <3> QED BY <2>1, <2>3, <3>1 DEF At
  <2>5. ~(k <= L)
    BY <1>2, <2>1, <2>3, <2>4 DEF At
  <2>6. f \in open /\ x \in B /\ Count(B, x) + 1 = k /\ Count(B, x) \in Nat
    <3>1. f \in open /\ x \in B /\ Count(B, x) + 1 = k
      BY <1>1, <1>2, <2>1, <2>4, <2>5 DEF At
    <3> QED BY <1>1, <3>1, Newers
  <2>7. ASSUME x # z PROVE x < z /\ Count(B, x) = L
    <3>1. x \in A
      BY <1>3, <2>6, <2>7
    <3>2. /\ z > x => Count(A, x) = Count(B, x) - 1
          /\ ~(z > x) => Count(A, x) = Count(B, x)
      <4>1. /\ z > x => Count(B \ {z}, x) = Count(B, x) - 1
            /\ ~(z > x) => Count(B \ {z}, x) = Count(B, x)
        BY <1>1, CountWithout
      <4> QED BY <1>3, <4>1
    <3>3. PICK n \in Nat : n = Count(A, x)
      BY <1>3, Newers
    <3>4. n + 1 <= k /\ n + 1 \in 1..c
      BY <2>6, <3>2, <3>3
    <3>5. ~At(list, open, a, f, n + 1, x)
      BY <2>2, <3>4
    <3>6. n + 1 <= L
      BY <1>2, <1>3, <2>6, <3>1, <3>3, <3>5 DEF At
    <3> QED BY <1>1, <2>2, <2>5, <2>6, <3>2, <3>3, <3>6
  <2> QED BY <2>5, <2>6, <2>7
<1>8. \A x, y \in old \ new : x = y
  <2> SUFFICES ASSUME NEW x \in old \ new, NEW y \in old \ new PROVE x = y
    OBVIOUS
  <2>1. /\ x \in B /\ y \in B /\ x \in Nat /\ y \in Nat /\ Count(B, x) \in Nat /\ Count(B, y) \in Nat
        /\ Count(B, x) >= L /\ (x = z \/ (x < z /\ Count(B, x) = L))
        /\ Count(B, y) >= L /\ (y = z \/ (y < z /\ Count(B, y) = L))
    BY <1>1, <1>7, Newers
  <2>2. /\ Count(B, x) = Count(B, y) => x = y
        /\ x < y => Count(B, y) < Count(B, x)
        /\ y < x => Count(B, x) < Count(B, y)
    <3>1. /\ \A u \in B, m \in Nat : m < u => Count(B, u) < Count(B, m)
          /\ \A u, v \in B : Count(B, u) = Count(B, v) => u = v
      BY <1>1, Newers
    <3> QED BY <2>1, <3>1
  <2> QED BY <1>1, <2>1, <2>2
<1>9. ASSUME NEW m \in S PROVE d[m] >= e[m] \/ (d[m] + 1 = e[m] /\ Drops(list, open, b, f, z, m))
  <2>1. e[m] = Count(old, m) /\ d[m] = Count(new, m) /\ m \in Nat
    BY <1>0, <1>5
  <2>2. CASE Newer(old, m) \in SUBSET Newer(new, m)
    <3>1. Count(old, m) <= Count(new, m)
      BY <1>6, <2>2, Subsets DEF Count
    <3> QED BY <1>6, <2>1, <3>1
  <2>3. CASE ~(Newer(old, m) \in SUBSET Newer(new, m))
    <3>1. PICK v \in old \ new : v > m
      BY <2>3 DEF Newer
    <3>2. f \in open /\ v \in B /\ Count(B, v) >= L /\ v <= z /\ v \in Nat
      BY <1>1, <1>7
    <3>3. Count(B, v) < Count(B, m) /\ Count(B, m) \in Nat /\ Count(B, v) \in Nat
      BY <1>1, <2>1, <3>1, <3>2, Newers
    <3>a. m < z /\ Count(B, m) > L
      BY <1>1, <2>1, <3>1, <3>2, <3>3
    <3>4. Drops(list, open, b, f, z, m)
      BY <1>1, <1>2, <3>2, <3>a DEF Drops
    <3>5. Newer(old, m) \in SUBSET (Newer(new, m) \cup (old \ new))
      BY DEF Newer
    <3>6. IsFiniteSet(old \ new)
      BY <1>6, Subsets
    <3>7. Count(old, m) <= Count(new, m) + 1
      BY <1>6, <1>8, <3>5, <3>6, PlusOne DEF Count
    <3> QED BY <1>6, <2>1, <3>4, <3>7
  <2> QED BY <2>2, <2>3
<1>10. ASSUME NEW g \in F, NEW x \in S, NEW y \in S, x \in b[g], Kept(list, open, b, g, x), y < x
       PROVE  e[x] < e[y]
  <2>1. Placed(F, list, open, b, c, x)
    BY <1>10, FitsAll DEF Sizes
  <2>2. x \in old
    BY <1>5, <2>1 DEF Found
  <2>3. Count(old, x) < Count(old, y)
    BY <1>6, <1>10, <2>2, Newers
  <2> QED BY <1>0, <1>5, <2>3
<1> QED BY <1>0, <1>5, <1>6, <1>9, <1>10 DEF DropsOK

(* Several folders: what hides messages, and how many are ahead of the      *)
(* others.  A thread counts the messages (sets), a whole-mailbox search the *)
(* places within its cap.                                                   *)
Rank(sets, F, list, open, b, c, m) ==
  IF sets THEN Count(Found(F, list, open, b, c), m) ELSE Cardinality(Entries(F, list, open, b, c, m))
Setting(sets, F, list, b, c, cap, post, U, o) ==
  /\ FoldersOK(F, list, b) /\ c \in Nat /\ cap \in Nat /\ o \in Nat
  /\ Sizes(F, list, b, c)
  /\ IsFiniteSet(post) /\ U \in SUBSET Nat /\ IsFiniteSet(U)
  /\ \A m \in U : \E g \in F : m \in b[g]
  /\ IF sets THEN cap = c ELSE o < cap
Hides(sets, F, list, open, b, c, cap, post, U, n, o, covert) ==
  /\ Reach(F, list, open, b, c, post, U, n, covert)
  /\ KeptAll(F, list, open, b, U \ covert)
  /\ \A m \in U \ covert : o <= Rank(sets, F, list, open, b, cap, m)
Multi(sets, F, list, open, b, c, cap, post, U, n, o) ==
  \E covert : Hides(sets, F, list, open, b, c, cap, post, U, n, o, covert)

LEMMA MultiGoes ==
  ASSUME NEW sets \in BOOLEAN, NEW F, NEW list, NEW open, NEW b, NEW c, NEW cap, NEW post, NEW U, NEW o,
         Setting(sets, F, list, b, c, cap, post, U, o),
         NEW n \in Nat, Multi(sets, F, list, open, b, c, cap, post, U, n, o),
         NEW f \in F, NEW z \in b[f], NEW a, Goes(F, b, f, z, a),
         NEW rest, IsFiniteSet(rest),
         NEW V \in SUBSET U, \A m \in V : Count(post, m) <= Count(rest, m) + 1
  PROVE  Multi(sets, F, list, open, a, c, cap, rest, V, n + 1, o)
<1>a. /\ FoldersOK(F, list, b) /\ c \in Nat /\ cap \in Nat /\ o \in Nat
      /\ Sizes(F, list, b, c)
      /\ IsFiniteSet(post) /\ U \in SUBSET Nat /\ IsFiniteSet(U) /\ V \in SUBSET Nat
      /\ \A m \in U : \E g \in F : m \in b[g]
      /\ sets => cap = c
      /\ ~sets => o < cap
  BY DEF Setting
<1>b. PICK B : Hides(sets, F, list, open, b, c, cap, post, U, n, o, B)
  BY DEF Multi
<1>c. /\ Reach(F, list, open, b, c, post, U, n, B)
      /\ KeptAll(F, list, open, b, U \ B)
      /\ \A m \in U \ B : o <= Rank(sets, F, list, open, b, cap, m)
  BY <1>b DEF Hides
<1>d. PICK e : e = [m \in V |-> Rank(sets, F, list, open, b, cap, m)]
  OBVIOUS
<1>e. PICK d : d = [m \in V |-> Rank(sets, F, list, open, a, cap, m)]
  OBVIOUS
<1>f. /\ \A m \in V : e[m] = Rank(sets, F, list, open, b, cap, m)
      /\ \A m \in V : d[m] = Rank(sets, F, list, open, a, cap, m)
  BY <1>d, <1>e
<1>g. DropsOK(F, list, open, b, f, z, o, V, e, d)
  <2>1. CASE sets
    <3>1. FoundAre(e, F, list, open, b, c, V) /\ FoundAre(d, F, list, open, a, c, V)
      BY <1>a, <1>f, <2>1 DEF Rank, FoundAre
    <3> QED BY <1>a, <3>1, FoundDrop
  <2>2. CASE ~sets
    <3>1. EntriesAre(e, F, list, open, b, cap, V) /\ EntriesAre(d, F, list, open, a, cap, V)
      BY <1>f, <2>2 DEF Rank, EntriesAre
    <3> QED BY <1>a, <2>2, <3>1, EntriesDrop
  <2> QED BY <2>1, <2>2
<1>h. /\ \A m \in V : e[m] \in Nat /\ d[m] \in Nat
      /\ \A m \in V : d[m] >= e[m] \/ (d[m] + 1 = e[m] /\ Drops(list, open, b, f, z, m))
      /\ \A g \in F : \A x, y \in V :
           /\ x \in b[g] /\ Kept(list, open, b, g, x)
           /\ y < x /\ d[y] < e[y] /\ (e[x] = o \/ Lost(list, open, b, f, z, x))
           => e[x] < e[y]
  BY <1>g DEF DropsOK
<1>i. \A x \in V \ B, y \in V : y < x /\ d[y] < e[y] /\ (e[x] = o \/ Lost(list, open, b, f, z, x)) => e[x] < e[y]
  <2> SUFFICES ASSUME NEW x \in V \ B, NEW y \in V, y < x /\ d[y] < e[y],
                      e[x] = o \/ Lost(list, open, b, f, z, x)
               PROVE  e[x] < e[y]
    OBVIOUS
  <2>1. PICK g \in F : x \in b[g]
    BY <1>a
  <2>2. Kept(list, open, b, g, x)
    BY <1>c, <2>1 DEF KeptAll
  <2> QED BY <1>h, <2>1, <2>2
<1>j. \A m \in V \ B : o <= e[m]
  BY <1>c, <1>f
<1>k. a[f] = b[f] \ {z} /\ \A g \in F : g # f => a[g] = b[g]
  BY DEF Goes
<1> DEFINE T == {m \in V \ B : d[m] < o \/ \E g \in F : m \in a[g] /\ ~Kept(list, open, a, g, m)}
<1>1. PICK box_f : box_f = b[f] /\ box_f \in SUBSET Nat /\ IsFiniteSet(box_f) /\ z \in box_f
  BY <1>a DEF FoldersOK
<1>2. PICK L \in Nat : L = Len(list[f])
  BY <1>a DEF FoldersOK
<1>3. /\ \A m \in Nat : Count(box_f, m) \in Nat /\ Count(box_f, m) <= Cardinality(box_f)
      /\ \A m, x \in Nat : m <= x => Count(box_f, x) <= Count(box_f, m)
      /\ \A x \in box_f, m \in Nat : m < x => Count(box_f, x) < Count(box_f, m)
      /\ \A x, y \in box_f : Count(box_f, x) = Count(box_f, y) => x = y
      /\ Cardinality(box_f) \in Nat /\ Cardinality(box_f) <= c
  <2>1. Cardinality(box_f) <= c
    BY <1>1, <1>a DEF Sizes
  <2> QED BY <1>1, <2>1, Newers, Sized
<1>4. ASSUME NEW t \in T
      PROVE  \/ Lost(list, open, b, f, z, t)
             \/ e[t] = o /\ d[t] < e[t] /\ Drops(list, open, b, f, z, t)
  <2>1. CASE d[t] < o
    <3>1. e[t] \in Nat /\ d[t] \in Nat /\ o <= e[t]
      BY <1>h, <1>j
    <3>2. d[t] >= e[t] \/ (d[t] + 1 = e[t] /\ Drops(list, open, b, f, z, t))
      BY <1>h
    <3> QED BY <1>a, <2>1, <3>1, <3>2
  <2>2. CASE \E g \in F : t \in a[g] /\ ~Kept(list, open, a, g, t)
    <3>1. PICK g \in F : t \in a[g] /\ ~Kept(list, open, a, g, t)
      BY <2>2
    <3>2. t \in b[g]
      BY <1>k, <3>1
    <3>3. Kept(list, open, b, g, t)
      BY <1>c, <3>2 DEF KeptAll
    <3> QED BY <1>a, <3>1, <3>3, KeptRemoval
  <2> QED BY <2>1, <2>2
<1>5. ASSUME NEW t \in T
      PROVE  t \in Nat /\ t < z /\ f \in open /\ Count(box_f, t) >= L /\ Count(box_f, t) \in Nat
  <2>1. t \in Nat /\ Count(box_f, t) \in Nat
    BY <1>3, <1>a
  <2>2. CASE Lost(list, open, b, f, z, t)
    BY <1>1, <1>2, <2>1, <2>2 DEF Lost
  <2>3. CASE Drops(list, open, b, f, z, t)
    BY <1>1, <1>2, <2>1, <2>3 DEF Drops
  <2> QED BY <1>4, <2>2, <2>3
<1>6. ASSUME NEW x \in T, NEW y \in T, y < x PROVE FALSE
  <2>0. x \in V \ B /\ y \in V \ B /\ x \in Nat /\ y \in Nat
    BY <1>a
  <2>1. Lost(list, open, b, f, z, y) => y \in box_f /\ Count(box_f, y) = L
    BY <1>1, <1>2 DEF Lost
  <2>2. Drops(list, open, b, f, z, x) => Count(box_f, x) > L
    BY <1>1, <1>2 DEF Drops
  <2>3. Lost(list, open, b, f, z, x) => x \in box_f /\ Count(box_f, x) = L
    BY <1>1, <1>2 DEF Lost
  <2>4. Count(box_f, x) \in Nat /\ Count(box_f, y) \in Nat /\ Count(box_f, x) <= Count(box_f, y)
    BY <1>3, <1>6, <2>0
  <2>5. CASE Lost(list, open, b, f, z, y)
    <3>1. ~Drops(list, open, b, f, z, x)
      BY <2>1, <2>2, <2>4, <2>5
    <3>2. Lost(list, open, b, f, z, x)
      BY <1>4, <3>1
    <3>3. x = y
      BY <1>3, <2>1, <2>3, <2>5, <3>2
    <3> QED BY <1>6, <2>0, <3>3
  <2>6. CASE e[y] = o /\ d[y] < e[y]
    <3>1. e[x] = o \/ Lost(list, open, b, f, z, x)
      BY <1>4
    <3>2. e[x] < e[y]
      BY <1>6, <1>i, <2>0, <2>6, <3>1
    <3>3. o <= e[x] /\ e[x] \in Nat /\ e[y] \in Nat
      BY <1>h, <1>j, <2>0
    <3> QED BY <2>6, <3>2, <3>3
  <2> QED BY <1>4, <2>5, <2>6
<1>7. \A x, y \in T : x = y
  <2> SUFFICES ASSUME NEW x \in T, NEW y \in T PROVE x = y
    OBVIOUS
  <2>1. ~(x < y) /\ ~(y < x) /\ x \in Nat /\ y \in Nat
    BY <1>6, <1>a
  <2> QED BY <2>1
<1>8. FoldersOK(F, list, a)
  <2>1. IsFiniteSet(a[f]) /\ a[f] \in SUBSET Nat
    BY <1>1, <1>k, CountWithout
  <2> QED BY <1>a, <1>k, <2>1 DEF FoldersOK
<1>9. ASSUME NEW m \in V
      PROVE  /\ Cardinality(Entries(F, list, open, a, c, m)) <= Cardinality(Entries(F, list, open, b, c, m))
             /\ \A t \in T : m < t =>
                  Cardinality(Entries(F, list, open, a, c, m)) + 1 <= Cardinality(Entries(F, list, open, b, c, m))
  <2>0. m \in Nat
    BY <1>a
  <2>1. PICK old, new, p : /\ old = Entries(F, list, open, b, c, m)
                           /\ new = Entries(F, list, open, a, c, m)
                           /\ p = <<f, Count(b[f], m)>>
    OBVIOUS
  <2>a. /\ Shifted(list, open, b, f, z, c, m) =>
             Loses(Entries(F, list, open, b, c, m), Entries(F, list, open, a, c, m), <<f, Count(b[f], m)>>)
        /\ ~Shifted(list, open, b, f, z, c, m) =>
             Entries(F, list, open, a, c, m) = Entries(F, list, open, b, c, m)
    BY <1>a, <2>0, EntriesRemoval
  <2>2. /\ Shifted(list, open, b, f, z, c, m) => p \in old /\ new = old \ {p}
        /\ ~Shifted(list, open, b, f, z, c, m) => new = old
    BY <2>1, <2>a DEF Loses
  <2>3. IsFiniteSet(old) /\ Cardinality(old) \in Nat
    BY <1>a, <2>1, EntriesFinite DEF FoldersOK
  <2>4. new \in SUBSET old
    BY <2>2
  <2>5. Cardinality(new) <= Cardinality(old)
    BY <2>3, <2>4, Subsets
  <2>6. ASSUME NEW t \in T, m < t PROVE Cardinality(new) + 1 <= Cardinality(old)
    <3>0. t \in Nat /\ t < z /\ f \in open /\ Count(box_f, t) >= L /\ Count(box_f, t) \in Nat
      BY <1>5
    <3>a. z \in Nat
      BY <1>1
    <3>1. Count(box_f, m) \in Nat /\ Count(box_f, m) <= c
      BY <1>a, <1>3, <2>0
    <3>2. Count(box_f, m) > L
      <4>1. CASE Lost(list, open, b, f, z, t)
        <5>1. t \in box_f
          BY <1>1, <4>1 DEF Lost
        <5>2. Count(box_f, t) < Count(box_f, m)
          BY <1>3, <2>0, <2>6, <5>1
        <5> QED BY <3>0, <3>1, <5>2
      <4>2. CASE Drops(list, open, b, f, z, t)
        <5>1. Count(box_f, t) > L
          BY <1>1, <1>2, <4>2 DEF Drops
        <5>2. Count(box_f, t) <= Count(box_f, m)
          BY <1>3, <2>0, <2>6, <3>0
        <5> QED BY <3>0, <3>1, <5>1, <5>2
      <4> QED BY <1>4, <4>1, <4>2
    <3>3. m < z
      BY <2>0, <2>6, <3>0, <3>a
    <3>4. Shifted(list, open, b, f, z, c, m)
      BY <1>1, <1>2, <3>0, <3>1, <3>2, <3>3 DEF Shifted
    <3>5. p \in old /\ new = old \ {p}
      BY <2>2, <3>4
    <3>6. Cardinality(new) = Cardinality(old) - 1
      BY <2>3, <3>5, FS_RemoveElement
    <3> QED BY <2>3, <3>6
  <2> QED BY <2>1, <2>5, <2>6
<1>10. T \in SUBSET (V \ B)
  OBVIOUS
<1>11. /\ \A m \in V \ B : m \notin T => o <= d[m]
       /\ \A m \in V \ B : m \notin T => \A g \in F : m \in a[g] => Kept(list, open, a, g, m)
  <2>1. \A m \in V \ B : m \notin T => ~(d[m] < o) /\ \A g \in F : m \in a[g] => Kept(list, open, a, g, m)
    OBVIOUS
  <2>2. \A m \in V : d[m] \in Nat
    BY <1>h
  <2> QED BY <1>a, <2>1, <2>2
<1> HIDE DEF T
<1>12. PICK C : C = (B \cap V) \cup T
  OBVIOUS
<1>13. Reach(F, list, open, a, c, rest, V, n + 1, (B \cap V) \cup T)
  BY <1>a, <1>c, <1>7, <1>8, <1>9, <1>10, ReachRemoval
<1>14. \A m \in V \ C : m \in V \ B /\ m \notin T
  BY <1>12
<1>15. KeptAll(F, list, open, a, V \ C)
  BY <1>11, <1>14 DEF KeptAll
<1>16. \A m \in V \ C : o <= Rank(sets, F, list, open, a, cap, m)
  BY <1>11, <1>14, <1>f
<1>17. Reach(F, list, open, a, c, rest, V, n + 1, C)
  BY <1>12, <1>13
<1>18. Hides(sets, F, list, open, a, c, cap, rest, V, n + 1, o, C)
  BY <1>15, <1>16, <1>17 DEF Hides
<1> QED BY <1>18 DEF Multi

LEMMA MultiComes ==
  ASSUME NEW sets \in BOOLEAN, NEW F, NEW list, NEW open, NEW b, NEW c, NEW cap, NEW post, NEW U, NEW o,
         Setting(sets, F, list, b, c, cap, post, U, o),
         NEW n \in Nat, Multi(sets, F, list, open, b, c, cap, post, U, n, o),
         NEW f \in F, NEW z \in Nat, z \notin b[f], z \notin U,
         NEW a, Comes(F, b, f, z, a), Cardinality(a[f]) <= c,
         NEW rest, IsFiniteSet(rest),
         \A m \in U : /\ Count(post, m) <= Count(rest, m)
                      /\ m < z => Count(post, m) + 1 <= Count(rest, m)
  PROVE  Multi(sets, F, list, open, a, c, cap, rest, U, n, o)
<1>1. /\ FoldersOK(F, list, b) /\ c \in Nat /\ cap \in Nat /\ o \in Nat
      /\ IsFiniteSet(post) /\ U \in SUBSET Nat /\ IsFiniteSet(U)
      /\ \A m \in U : \E g \in F : m \in b[g]
      /\ sets => cap = c
      /\ ~sets => o < cap
  BY DEF Setting
<1>2. PICK B : Hides(sets, F, list, open, b, c, cap, post, U, n, o, B)
  BY DEF Multi
<1>3. /\ Reach(F, list, open, b, c, post, U, n, B)
      /\ KeptAll(F, list, open, b, U \ B)
      /\ \A m \in U \ B : o <= Rank(sets, F, list, open, b, cap, m)
  BY <1>2 DEF Hides
<1>0. a[f] = b[f] \cup {z} /\ \A g \in F : g # f => a[g] = b[g]
  BY DEF Comes
<1>4. PICK S : S = b[f] /\ S \in SUBSET Nat /\ IsFiniteSet(S) /\ z \notin S
  BY <1>1 DEF FoldersOK
<1>5. PICK A : A = a[f] /\ A = S \cup {z} /\ IsFiniteSet(A) /\ A \in SUBSET Nat
  BY <1>0, <1>4, CountWith
<1>6. FoldersOK(F, list, a)
  BY <1>0, <1>1, <1>5 DEF FoldersOK
<1>7. PICK L \in Nat : L = Len(list[f])
  BY <1>1 DEF FoldersOK
<1>8. \A m \in Nat : Count(A, m) \in Nat /\ Count(S, m) \in Nat /\ Count(A, m) >= Count(S, m)
  <2> SUFFICES ASSUME NEW m \in Nat
               PROVE  Count(A, m) \in Nat /\ Count(S, m) \in Nat /\ Count(A, m) >= Count(S, m)
    OBVIOUS
  <2>1. /\ z > m => Count(S \cup {z}, m) = Count(S, m) + 1
        /\ ~(z > m) => Count(S \cup {z}, m) = Count(S, m)
    BY <1>4, CountWith
  <2>2. Count(S, m) \in Nat
    BY <1>4, Newers
  <2>3. Count(A, m) \in Nat
    BY <1>5, Newers
  <2> QED BY <1>5, <2>1, <2>2, <2>3
<1>9. ASSUME NEW m \in U
      PROVE  Cardinality(Entries(F, list, open, a, c, m)) + Count(B, m) <= Count(rest, m) + n
  <2>0. m \in Nat
    BY <1>1
  <2>1. PICK old, new, p : /\ old = Entries(F, list, open, b, c, m)
                           /\ new = Entries(F, list, open, a, c, m)
                           /\ p = <<f, Count(b[f], m) + 1>>
    OBVIOUS
  <2>a. /\ Gains(Entries(F, list, open, b, c, m), Entries(F, list, open, a, c, m), <<f, Count(b[f], m) + 1>>)
        /\ m >= z => Entries(F, list, open, a, c, m) = Entries(F, list, open, b, c, m)
    BY <1>1, <2>0, EntriesArrival
  <2>2. new \in SUBSET (old \cup {p}) /\ (m >= z => new = old)
    BY <2>1, <2>a DEF Gains
  <2>3. IsFiniteSet(old) /\ Cardinality(old) \in Nat /\ IsFiniteSet(new) /\ Cardinality(new) \in Nat
    BY <1>1, <2>1, EntriesFinite DEF FoldersOK
  <2>4. IsFiniteSet({p}) /\ \A x, y \in {p} : x = y
    BY FS_Singleton
  <2>5. Cardinality(new) <= Cardinality(old) + 1
    BY <2>2, <2>3, <2>4, PlusOne
  <2>6. Cardinality(old) + Count(B, m) <= Count(post, m) + n
    BY <1>3, <2>1 DEF Reach
  <2>7. Count(post, m) \in Nat /\ Count(rest, m) \in Nat /\ Count(B, m) \in Nat
    <3>1. B \in SUBSET U /\ IsFiniteSet(B)
      BY <1>1, <1>3, Subsets DEF Reach
    <3> QED BY <1>1, <3>1, Subsets DEF Count, Newer
  <2>8. Count(post, m) <= Count(rest, m) /\ (m < z => Count(post, m) + 1 <= Count(rest, m))
    OBVIOUS
  <2> QED BY <2>0, <2>1, <2>2, <2>3, <2>5, <2>6, <2>7, <2>8
<1>10. Reach(F, list, open, a, c, rest, U, n, B)
  BY <1>3, <1>9 DEF Reach
<1>11. KeptAll(F, list, open, a, U \ B)
  <2> SUFFICES ASSUME NEW g \in F, NEW m \in U \ B, m \in a[g] PROVE Kept(list, open, a, g, m)
    BY DEF KeptAll
  <2>1. m \in b[g] /\ m \in Nat
    <3>1. g # f => a[g] = b[g]
      BY <1>0
    <3> QED BY <1>1, <1>4, <1>5, <3>1
  <2>2. Kept(list, open, b, g, m)
    BY <1>3, <2>1 DEF KeptAll
  <2>3. CASE g = f
    <3>1. Count(S, m) >= L => Count(A, m) >= L
      BY <1>8, <2>1
    <3> QED BY <1>4, <1>5, <1>7, <2>2, <2>3, <3>1 DEF Kept
  <2>4. CASE g # f
    <3>1. a[g] = b[g]
      BY <1>0, <2>4
    <3> QED BY <2>2, <3>1 DEF Kept
  <2> QED BY <2>3, <2>4
<1>12. ASSUME NEW m \in U \ B PROVE o <= Rank(sets, F, list, open, a, cap, m)
  <2>0. m \in Nat
    BY <1>1
  <2>1. o <= Rank(sets, F, list, open, b, cap, m)
    BY <1>3
  <2>2. CASE ~sets
    <3>1. PICK old, new : old = Entries(F, list, open, b, cap, m) /\ new = Entries(F, list, open, a, cap, m)
      OBVIOUS
    <3>2. old \in SUBSET new
      BY <1>1, <2>0, <3>1, EntriesArrival DEF Gains
    <3>3. IsFiniteSet(new) /\ Cardinality(new) \in Nat
      BY <1>1, <3>1, EntriesFinite DEF FoldersOK
    <3>4. Cardinality(old) <= Cardinality(new) /\ Cardinality(old) \in Nat
      BY <3>2, <3>3, Subsets
    <3> QED BY <1>1, <2>1, <2>2, <3>1, <3>3, <3>4 DEF Rank
  <2>3. CASE sets
    <3>1. PICK old, new : old = Found(F, list, open, b, c) /\ new = Found(F, list, open, a, c)
      OBVIOUS
    <3>2. old \in SUBSET new
      <4> SUFFICES ASSUME NEW x \in Nat, NEW g \in F, NEW k \in 1..c, At(list, open, b, g, k, x)
                   PROVE  Placed(F, list, open, a, c, x)
        BY <3>1 DEF Found, Placed
      <4>1. CASE g # f \/ k <= L
        <5>1. g # f => a[g] = b[g]
          BY <1>0
        <5>2. At(list, open, a, g, k, x)
          BY <1>7, <4>1, <5>1 DEF At
        <5> QED BY <5>2 DEF Placed
      <4>2. CASE g = f /\ ~(k <= L)
        <5>1. f \in open /\ x \in S /\ Count(S, x) + 1 = k
          BY <1>4, <1>7, <4>2 DEF At
        <5>2. PICK j \in Nat : j = Count(A, x) + 1
          BY <1>8
        <5>3. x \in A /\ j >= k
          <6>1. Count(A, x) >= Count(S, x) /\ Count(A, x) \in Nat /\ Count(S, x) \in Nat
            BY <1>8
          <6> QED BY <1>5, <5>1, <5>2, <6>1
        <5>a. Count(A, x) < Cardinality(A) /\ Cardinality(A) <= c /\ Cardinality(A) \in Nat
          BY <1>5, <5>3, Newers, Sized
        <5>4. j \in 1..c /\ ~(j <= L)
          BY <1>1, <1>8, <4>2, <5>2, <5>3, <5>a
        <5>5. At(list, open, a, f, j, x)
          BY <1>5, <1>7, <5>1, <5>2, <5>3, <5>4 DEF At
        <5> QED BY <5>4, <5>5 DEF Placed
      <4> QED BY <4>1, <4>2
    <3>3. /\ IsFiniteSet(Newer(new, m)) /\ Count(new, m) \in Nat /\ Count(old, m) \in Nat
      BY <1>1, <1>6, <3>1, FoundFinite
    <3>4. Newer(old, m) \in SUBSET Newer(new, m)
      BY <3>2 DEF Newer
    <3>5. Count(old, m) <= Count(new, m)
      BY <3>3, <3>4, Subsets DEF Count
    <3> QED BY <1>1, <2>1, <2>3, <3>1, <3>3, <3>5 DEF Rank
  <2> QED BY <2>2, <2>3
<1> QED BY <1>10, <1>11, <1>12 DEF Multi, Hides

LEMMA MultiMore ==
  ASSUME NEW sets, NEW F, NEW list, NEW open, NEW b, NEW c, NEW cap, NEW post, NEW U, NEW o,
         Setting(sets, F, list, b, c, cap, post, U, o), NEW n \in Nat, NEW l \in Nat, n <= l,
         Multi(sets, F, list, open, b, c, cap, post, U, n, o)
  PROVE  Multi(sets, F, list, open, b, c, cap, post, U, l, o)
<1>1. PICK B : Hides(sets, F, list, open, b, c, cap, post, U, n, o, B)
  BY DEF Multi
<1>2. /\ FoldersOK(F, list, b) /\ c \in Nat /\ IsFiniteSet(post) /\ IsFiniteSet(U) /\ B \in SUBSET U
  BY <1>1 DEF Setting, Hides, Reach
<1>3. IsFiniteSet(B) /\ Cardinality(B) \in Nat
  BY <1>2, Subsets
<1>4. Cardinality(B) <= l
  BY <1>1, <1>3 DEF Hides, Reach
<1>5. ASSUME NEW m \in U
      PROVE  Cardinality(Entries(F, list, open, b, c, m)) + Count(B, m) <= Count(post, m) + l
  <2>1. Cardinality(Entries(F, list, open, b, c, m)) + Count(B, m) <= Count(post, m) + n
    BY <1>1 DEF Hides, Reach
  <2>2. Count(post, m) \in Nat /\ Count(B, m) \in Nat
    BY <1>2, <1>3, Subsets DEF Count, Newer
  <2>3. Cardinality(Entries(F, list, open, b, c, m)) \in Nat
    BY <1>2, EntriesFinite DEF FoldersOK
  <2> QED BY <2>1, <2>2, <2>3
<1> QED BY <1>1, <1>2, <1>4, <1>5 DEF Multi, Hides, Reach
LEMMA MultiSlice ==
  ASSUME NEW sets \in BOOLEAN, NEW F, NEW list, NEW open, NEW b, NEW c, NEW cap, NEW post, NEW U, NEW o,
         Setting(sets, F, list, b, c, cap, post, U, o),
         NEW n, Multi(sets, F, list, open, b, c, cap, post, U, n, o),
         NEW f \in F, NEW w, NEW new, NEW pend, Reads(F, list, open, b, f, w, new, pend)
  PROVE  Multi(sets, F, new, pend, b, c, cap, post, U, n, o)
<1>1. /\ FoldersOK(F, list, b) /\ c \in Nat /\ cap \in Nat /\ U \in SUBSET Nat
      /\ \A m \in U : \E g \in F : m \in b[g]
  BY DEF Setting
<1>2. PICK B : Hides(sets, F, list, open, b, c, cap, post, U, n, o, B)
  BY DEF Multi
<1>3. /\ Reach(F, list, open, b, c, post, U, n, B)
      /\ KeptAll(F, list, open, b, U \ B)
      /\ \A m \in U \ B : o <= Rank(sets, F, list, open, b, cap, m)
  BY <1>2 DEF Hides
<1>4. /\ \A d, m \in Nat : Entries(F, new, pend, b, d, m) = Entries(F, list, open, b, d, m)
      /\ \A d \in Nat : \A x : Placed(F, new, pend, b, d, x) <=> Placed(F, list, open, b, d, x)
      /\ \A g \in F : \A m \in b[g] : Kept(list, open, b, g, m) => Kept(new, pend, b, g, m)
  <2>1. SamePlaces(F, list, open, b, new, pend)
    BY <1>1, EntriesSlice
  <2> QED BY <2>1 DEF SamePlaces
<1>5. Found(F, new, pend, b, cap) = Found(F, list, open, b, cap)
  BY <1>1, <1>4 DEF Found
<1>6. \A m \in U : Rank(sets, F, new, pend, b, cap, m) = Rank(sets, F, list, open, b, cap, m)
  BY <1>1, <1>4, <1>5 DEF Rank
<1>7. Reach(F, new, pend, b, c, post, U, n, B)
  BY <1>1, <1>3, <1>4 DEF Reach
<1>8. KeptAll(F, new, pend, b, U \ B)
  BY <1>3, <1>4 DEF KeptAll
<1> QED BY <1>3, <1>6, <1>7, <1>8 DEF Multi, Hides

Nothing(F, list, open, b, post) ==
  /\ \A f \in F : Len(list[f]) = 0 /\ f \in open
  /\ \A f, g \in F : f # g => b[f] \cap b[g] = {}
  /\ \A f \in F : b[f] \subseteq post
  /\ \A x \in post : \E f \in F : x \in b[f]

LEMMA MultiStarts ==
  ASSUME NEW sets \in BOOLEAN, NEW F, NEW list, NEW open, NEW b, NEW c, NEW cap, NEW post, NEW U, NEW o,
         Setting(sets, F, list, b, c, cap, post, U, o), Nothing(F, list, open, b, post),
         NEW top \in Nat, \A x \in post : x <= top, U \subseteq post,
         NEW n \in Nat, Cardinality(Behind(post, U, o)) <= n
  PROVE  Multi(sets, F, list, open, b, c, cap, post, U, n, o)
<1>1. /\ FoldersOK(F, list, b) /\ c \in Nat /\ cap \in Nat /\ o \in Nat
      /\ Sizes(F, list, b, c)
      /\ IsFiniteSet(post) /\ U \in SUBSET Nat /\ IsFiniteSet(U)
      /\ sets => cap = c
      /\ ~sets => o < cap
  BY DEF Setting
<1>2. /\ \A f \in F : Len(list[f]) = 0 /\ f \in open
      /\ \A f, g \in F : f # g => b[f] \cap b[g] = {}
      /\ \A f \in F : b[f] \subseteq post
      /\ \A x \in post : \E f \in F : x \in b[f]
  BY DEF Nothing
<1>3. PICK B : B = Behind(post, U, o)
  OBVIOUS
<1>4. /\ B \in SUBSET U /\ IsFiniteSet(B) /\ Cardinality(B) \in Nat /\ Cardinality(B) <= n
      /\ \A m \in U : m \in B <=> Count(post, m) < o
  <2>1. B \in SUBSET U
    BY <1>3 DEF Behind
  <2> QED BY <1>1, <1>3, <2>1, Subsets DEF Behind
<1>5. post \in SUBSET Nat
  BY <1>1, <1>2 DEF FoldersOK
<1>6. \A m \in Nat : Count(post, m) \in Nat /\ IsFiniteSet(Newer(post, m))
  BY <1>1, <1>5, Newers
<1>7. ASSUME NEW m \in U
      PROVE  Cardinality(Entries(F, list, open, b, c, m)) + Count(B, m) <= Count(post, m) + n
  <2>1. m \in Nat /\ \A f \in F : Len(list[f]) = 0
    BY <1>1, <1>2
  <2>2. /\ Cardinality(Entries(F, list, open, b, c, m)) <= Count(post, m)
        /\ Cardinality(Entries(F, list, open, b, c, m)) \in Nat /\ Count(post, m) \in Nat
    <3>1. /\ FoldersOK(F, list, b) /\ \A f \in F : Len(list[f]) = 0
          /\ \A f, g \in F : f # g => b[f] \cap b[g] = {}
          /\ IsFiniteSet(post) /\ \A f \in F : b[f] \subseteq post
          /\ c \in Nat /\ m \in Nat
      BY <1>1, <1>2, <2>1
    <3> QED BY <3>1, StartEntries
  <2>3. Newer(B, m) \in SUBSET B
    BY DEF Newer
  <2>4. Count(B, m) \in Nat /\ Count(B, m) <= Cardinality(B)
    BY <1>4, <2>3, Subsets DEF Count
  <2> QED BY <1>4, <2>2, <2>4
<1>8. Reach(F, list, open, b, c, post, U, n, B)
  BY <1>4, <1>7 DEF Reach
<1>9. KeptAll(F, list, open, b, U \ B)
  <2> SUFFICES ASSUME NEW g \in F, NEW m \in U \ B, m \in b[g] PROVE Kept(list, open, b, g, m)
    BY DEF KeptAll
  <2>1. Len(list[g]) = 0 /\ g \in open
    BY <1>2
  <2>2. Count(b[g], m) \in Nat
    BY <1>1, Newers DEF FoldersOK
  <2> QED BY <2>1, <2>2 DEF Kept
<1>10. ASSUME NEW x \in post, NEW d \in Nat
       PROVE  \/ Placed(F, list, open, b, d, x)
              \/ \E f \in F : x \in b[f] /\ Count(b[f], x) >= d
  <2>1. PICK f \in F : x \in b[f]
    BY <1>2
  <2>2. PICK k \in Nat : k = Count(b[f], x) + 1
    BY <1>1, <2>1, Newers DEF FoldersOK
  <2>3. At(list, open, b, f, k, x)
    <3>1. Count(b[f], x) \in Nat /\ Len(list[f]) = 0 /\ f \in open
      BY <1>1, <1>2, Newers DEF FoldersOK
    <3>2. ~(k <= Len(list[f]))
      BY <2>2, <3>1
    <3> QED BY <2>1, <2>2, <3>1, <3>2 DEF At
  <2>4. Count(b[f], x) \in Nat
    BY <1>1, Newers DEF FoldersOK
  <2>5. CASE k <= d
    <3>1. k \in 1..d
      BY <2>2, <2>4, <2>5
    <3> QED BY <2>3, <3>1 DEF Placed
  <2>6. CASE k > d
    <3>1. Count(b[f], x) >= d
      BY <2>2, <2>4, <2>6
    <3> QED BY <2>1, <3>1
  <2> QED BY <2>2, <2>5, <2>6
<1>11. ASSUME NEW m \in U \ B PROVE o <= Rank(sets, F, list, open, b, cap, m)
  <2>0. m \in Nat /\ o <= Count(post, m) /\ m <= top
    BY <1>1, <1>4, <1>6
  <2>1. CASE sets
    <3>1. PICK S : S = Found(F, list, open, b, c)
      OBVIOUS
    <3>2. \A x \in post : x \in S
      <4> SUFFICES ASSUME NEW x \in post PROVE x \in S
        OBVIOUS
      <4>1. \A f \in F : x \in b[f] => Count(b[f], x) < Cardinality(b[f]) /\ Count(b[f], x) \in Nat
        BY <1>1, Newers DEF FoldersOK
      <4>2. \A f \in F : Cardinality(b[f]) \in Nat /\ Cardinality(b[f]) <= c
        BY <1>1, Sized DEF FoldersOK, Sizes
      <4>3. ~ \E f \in F : x \in b[f] /\ Count(b[f], x) >= c
        BY <1>1, <4>1, <4>2
      <4>4. Placed(F, list, open, b, c, x)
        BY <1>1, <1>10, <4>3
      <4> QED BY <1>5, <3>1, <4>4 DEF Found
    <3>3. Newer(post, m) \in SUBSET Newer(S, m)
      BY <3>2 DEF Newer
    <3>4. IsFiniteSet(Newer(S, m)) /\ Count(S, m) \in Nat
      BY <1>1, <3>1, FoundFinite
    <3>5. Count(post, m) <= Count(S, m)
      BY <3>3, <3>4, Subsets DEF Count
    <3> QED BY <1>1, <1>6, <2>0, <2>1, <3>1, <3>4, <3>5 DEF Rank
  <2>2. CASE ~sets
    <3>0. o < cap
      BY <1>1, <2>2
    <3>1. CASE \A x \in Newer(post, m) : Placed(F, list, open, b, cap, x)
      <4>1. PICK Q : Q = Newer(post, m)
        OBVIOUS
      <4>2. IsFiniteSet(Q) /\ \A q \in Q : Placed(F, list, open, b, cap, q) /\ m < q /\ q <= top
        BY <1>5, <1>6, <2>0, <3>1, <4>1 DEF Newer
      <4>3. /\ Cardinality(Entries(F, list, open, b, cap, top)) + Cardinality(Q)
                 <= Cardinality(Entries(F, list, open, b, cap, m))
            /\ Cardinality(Q) \in Nat
            /\ Cardinality(Entries(F, list, open, b, cap, top)) \in Nat
            /\ Cardinality(Entries(F, list, open, b, cap, m)) \in Nat
        BY <1>1, <2>0, <4>2, MoreEntries
      <4>4. Cardinality(Q) = Count(post, m)
        BY <4>1 DEF Count
      <4> QED BY <1>1, <2>0, <2>2, <4>3, <4>4 DEF Rank
    <3>2. CASE ~ \A x \in Newer(post, m) : Placed(F, list, open, b, cap, x)
      <4>1. PICK x \in post : x > m /\ ~Placed(F, list, open, b, cap, x)
        BY <3>2 DEF Newer
      <4>2. PICK f \in F : x \in b[f] /\ Count(b[f], x) >= cap
        BY <1>1, <1>10, <4>1
      <4>3. Count(b[f], x) < Count(b[f], m) /\ Count(b[f], m) \in Nat /\ Count(b[f], x) \in Nat
        <5>1. b[f] \in SUBSET Nat /\ IsFiniteSet(b[f])
          BY <1>1 DEF FoldersOK
        <5>2. x \in Nat /\ m < x
          BY <1>5, <2>0, <4>1
        <5> QED BY <2>0, <4>2, <5>1, <5>2, Newers
      <4>4. \A k \in 1..cap : Prior(list, open, b, f, k, m)
        <5> SUFFICES ASSUME NEW k \in 1..cap PROVE Prior(list, open, b, f, k, m)
          OBVIOUS
        <5>1. ~(k <= Len(list[f])) /\ f \in open
          BY <1>2
        <5>2. k <= Count(b[f], m)
          BY <1>1, <4>2, <4>3
        <5> QED BY <5>1, <5>2 DEF Prior
      <4>5. cap <= Cardinality(Entries(F, list, open, b, cap, m))
        BY <1>1, <4>4, FullEntries DEF FoldersOK
      <4>6. Cardinality(Entries(F, list, open, b, cap, m)) \in Nat
        BY <1>1, EntriesFinite DEF FoldersOK
      <4> QED BY <1>1, <2>2, <3>0, <4>5, <4>6 DEF Rank
    <3> QED BY <3>1, <3>2
  <2> QED BY <2>1, <2>2
<1> QED BY <1>8, <1>9, <1>11 DEF Multi, Hides

(* Of these messages everyone has so many entries ahead.                    *)
Past(next, S, F, list, open, b, c) == \A m \in S : next <= Cardinality(Entries(F, list, open, b, c, m))

(* The border: when everything else is behind so many, changes account for  *)
(* all that the next page does not reach.                                   *)
LEMMA MultiEnds ==
  ASSUME NEW sets \in BOOLEAN, NEW F, NEW list, NEW open, NEW b, NEW c, NEW cap, NEW post, NEW U, NEW o,
         Setting(sets, F, list, b, c, cap, post, U, o), post \in SUBSET Nat,
         NEW n \in Nat, NEW B, Hides(sets, F, list, open, b, c, cap, post, U, n, o, B),
         NEW V \in SUBSET U, NEW next \in Nat,
         Past(next, V \ B, F, list, open, b, c)
  PROVE  Cardinality(Behind(post, V, next)) <= n
<1>a. \A m \in V \ B : next <= Cardinality(Entries(F, list, open, b, c, m))
  BY DEF Past
<1>1. /\ FoldersOK(F, list, b) /\ c \in Nat /\ Sizes(F, list, b, c)
      /\ IsFiniteSet(post) /\ U \in SUBSET Nat /\ IsFiniteSet(U)
      /\ \A m \in U : \E g \in F : m \in b[g]
  BY DEF Setting
<1>2. /\ B \in SUBSET U /\ Cardinality(B) <= n
      /\ \A m \in U : Cardinality(Entries(F, list, open, b, c, m)) + Count(B, m) <= Count(post, m) + n
      /\ KeptAll(F, list, open, b, U \ B)
  BY DEF Hides, Reach
<1>3. PICK S : S = Behind(post, V, next)
  OBVIOUS
<1>4. /\ S \in SUBSET V /\ S \in SUBSET Nat /\ IsFiniteSet(S)
      /\ \A m \in S : Count(post, m) < next
  <2>1. S \in SUBSET V /\ S \in SUBSET U
    BY <1>3 DEF Behind
  <2> QED BY <1>1, <1>3, <2>1, Subsets DEF Behind
<1>5. IsFiniteSet(B) /\ B \in SUBSET Nat /\ Cardinality(B) \in Nat
  BY <1>1, <1>2, Subsets
<1> DEFINE D == S \ B
<1>6. D \in SUBSET Nat /\ IsFiniteSet(D) /\ D \in SUBSET S
  BY <1>4, Subsets
<1>7. PICK s \in Nat : s = Cardinality(S)
  BY <1>4, Sized
<1>8. CASE D = {}
  <2>1. S \in SUBSET B
    BY <1>8
  <2> QED BY <1>2, <1>3, <1>5, <1>7, <2>1, Subsets
<1>9. CASE D # {}
  <2>1. PICK x \in D : \A y \in D : y <= x
    <3>1. Cardinality(D) \in Nat /\ Cardinality(D) # 0
      BY <1>6, <1>9, FS_CardinalityType, FS_EmptySet
    <3>2. /\ Paging!Listing(D) \in Seq(D) /\ Len(Paging!Listing(D)) = Cardinality(D)
          /\ Count(D, Paging!Listing(D)[1]) = 0
      <4>1. 1 \in 1..Cardinality(D)
        BY <3>1
      <4> QED BY <1>6, <4>1, ListingOf
    <3>3. PICK x : x = Paging!Listing(D)[1]
      OBVIOUS
    <3>4. x \in D /\ Count(D, x) = 0
      BY <3>1, <3>2, <3>3
    <3>5. \A y \in D : ~(y > x)
      <4> SUFFICES ASSUME NEW y \in D, x < y PROVE FALSE
        BY <1>6, <3>4
      <4>1. Count(D, y) < Count(D, x) /\ Count(D, y) \in Nat
        BY <1>6, <3>4, Newers
      <4> QED BY <3>4, <4>1
    <3> HIDE DEF D
    <3>6. \A y \in D : y <= x
      BY <1>6, <3>4, <3>5
    <3> QED BY <3>4, <3>6
  <2>2. PICK m \in S : Count(S, m) + 1 = s
    <3>0. S # {}
      BY <1>6, <1>9
    <3>1. s # 0
      BY <1>4, <1>7, <3>0, FS_EmptySet
    <3>2. /\ Paging!Listing(S) \in Seq(S) /\ Len(Paging!Listing(S)) = s
          /\ Count(S, Paging!Listing(S)[s]) = s - 1
      <4>1. s \in 1..Cardinality(S)
        BY <1>7, <3>1
      <4> QED BY <1>4, <1>7, <4>1, ListingOf
    <3>3. Paging!Listing(S)[s] \in S
      BY <3>1, <3>2
    <3> QED BY <3>2, <3>3
  <2>3. m \in Nat /\ x \in Nat /\ m \in U /\ x \in U \ B /\ x \in V \ B
    BY <1>4, <1>6
  <2>4. m <= x
    <3> SUFFICES ASSUME x < m PROVE FALSE
      BY <2>3
    <3>1. x \in S /\ x \notin Newer(S, m) /\ m \notin Newer(S, m) /\ x # m
      BY <1>6, <2>3 DEF Newer
    <3>2. Newer(S, m) \in SUBSET ((S \ {m}) \ {x})
      BY <3>1 DEF Newer
    <3>3. /\ IsFiniteSet(S \ {m}) /\ Cardinality(S \ {m}) = s - 1
      BY <1>4, <1>7, FS_RemoveElement
    <3>4. /\ IsFiniteSet((S \ {m}) \ {x}) /\ Cardinality((S \ {m}) \ {x}) = s - 1 - 1
      BY <3>1, <3>3, FS_RemoveElement
    <3>5. Count(S, m) <= s - 1 - 1 /\ Count(S, m) \in Nat
      BY <3>2, <3>4, Subsets DEF Count
    <3> QED BY <1>7, <2>2, <3>5
  <2>5. PICK Q : Q = {q \in D : q > m}
    OBVIOUS
  <2>6. IsFiniteSet(Q) /\ \A q \in Q : Placed(F, list, open, b, c, q) /\ m < q /\ q <= x
    <3>1. Q \in SUBSET D
      BY <2>5
    <3>2. ASSUME NEW q \in Q PROVE Placed(F, list, open, b, c, q) /\ m < q /\ q <= x
      <4>1. q \in U \ B /\ q \in D /\ m < q /\ q <= x
        BY <1>4, <1>6, <2>1, <2>3, <2>5
      <4>2. PICK g \in F : q \in b[g]
        BY <1>1, <4>1
      <4>3. Kept(list, open, b, g, q)
        BY <1>2, <4>1, <4>2 DEF KeptAll
      <4>4. Len(list[g]) <= c /\ Cardinality(b[g]) <= c
        BY <1>1 DEF Sizes
      <4> QED BY <1>1, <4>1, <4>2, <4>3, <4>4, FitsAll
    <3> QED BY <1>6, <3>1, <3>2, Subsets
  <2>7. /\ Cardinality(Entries(F, list, open, b, c, x)) + Cardinality(Q)
             <= Cardinality(Entries(F, list, open, b, c, m))
        /\ Cardinality(Q) \in Nat
        /\ Cardinality(Entries(F, list, open, b, c, x)) \in Nat
        /\ Cardinality(Entries(F, list, open, b, c, m)) \in Nat
    BY <1>1, <2>3, <2>4, <2>6, MoreEntries
  <2>8. next <= Cardinality(Entries(F, list, open, b, c, x))
    BY <1>a, <2>3
  <2>9. Newer(S, m) \in SUBSET (Q \cup Newer(B, m))
    BY <2>5 DEF Newer
  <2>10. IsFiniteSet(Newer(B, m)) /\ Count(B, m) \in Nat
    BY <1>5, Newers
  <2>11. Count(S, m) <= Cardinality(Q) + Count(B, m) /\ Count(S, m) \in Nat
    BY <2>6, <2>9, <2>10, Spanned DEF Count
  <2>12. Cardinality(Entries(F, list, open, b, c, m)) + Count(B, m) <= Count(post, m) + n
    BY <1>2, <2>3
  <2>13. Count(post, m) < next /\ Count(post, m) \in Nat
    <3>1. Count(post, m) \in Nat
      BY <1>1, Newers
    <3> QED BY <1>4, <3>1
  <2> QED BY <1>3, <1>7, <2>2, <2>7, <2>8, <2>10, <2>11, <2>12, <2>13
<1> QED BY <1>8, <1>9

-----------------------------------------------------------------------------
(* SearchPaging: the walk's own state, and how far it is at every moment.   *)
Modes == Paging!V4 \cup Paging!V5 \cup {"read"}
WalkRecord == [state : {"ask", "busy", "over"}, mode : Modes, scope : Seq(Paging!Folders),
               limit : Nat \ {0}, offset : Nat \cup {-1}, seen : Seq(Nat), sure : BOOLEAN,
               changed : BOOLEAN, slack : Nat, stayed : SUBSET Nat]
Post(b, w) == UNION {b[f] : f \in Paging!Range(w.scope)}
WalkOK(b, w) ==
  /\ w \in WalkRecord
  /\ Len(w.scope) > 0 /\ Paging!IsInjective(w.scope)
  /\ w.mode \in {"read", "cached", "folder"} => Len(w.scope) = 1
  /\ w.state # "over" => w.offset \in Nat
  /\ w.stayed \subseteq Post(b, w)
  /\ w.mode = "exact" => w.stayed \cap Loose = {}

BoxesOK(b, last) ==
  /\ last \in 0..MaxMsg
  /\ DOMAIN b = Paging!Folders
  /\ \A f \in Paging!Folders : b[f] \in SUBSET (1..last)
  /\ \A f, g \in Paging!Folders : f # g => b[f] \cap b[g] = {}

PartOK(w, p) ==
  /\ p \in [phase : {"count", "slice", "done", "failed"}, total : Nat \cup {-1}, items : Seq(Nat)]
  /\ Len(p.items) <= Paging!Budget(w)
  /\ p.phase = "count" => p.items = << >> /\ p.total = -1
  /\ p.total \in Nat \/ p.phase = "count" => Paging!CountsFirst(w.mode)
  /\ p.phase = "failed" => w.mode \in Paging!V4 \cup {"all"}
PartsOK(w, p) ==
  IF w.state = "busy" THEN DOMAIN p = Paging!Range(w.scope) /\ \A f \in DOMAIN p : PartOK(w, p[f])
  ELSE p = << >>

(* What has been there all the time and is not seen yet; a client that was  *)
(* told of no gap, in a search whose offset counts one list.                *)
Several(w) == w.mode \in {"all", "thread"}
Absent(w) == w.stayed \ Paging!Range(w.seen)
Honest(w) == w.sure /\ (w.mode \in Paging!V4 => Len(w.scope) = 1)

(* Before a request: all but slack of it is behind the offset.              *)
Border(b, w) == Cardinality(Behind(Post(b, w), Absent(w), w.offset)) <= w.slack

(* During a request, by what the folders have given (ListOf) and which of   *)
(* them go on (OpenOf).                                                     *)
ListOf(p) == [f \in DOMAIN p |-> p[f].items]
OpenOf(w, p) == {f \in DOMAIN p : ~(p[f].phase = "done" /\ Len(p[f].items) < Paging!Budget(w))}
Longest(w) == Paging!Budget(w) + MaxMsg
Cap(w) == IF w.mode = "thread" THEN Longest(w) ELSE w.offset + w.limit
AloneBusy(b, w, p) ==
  AloneOK(b[w.scope[1]], Absent(w), w.offset, w.slack, p[w.scope[1]], Paging!Budget(w))
SeveralBusy(b, w, p) ==
  \/ \E f \in DOMAIN p : p[f].phase = "failed"
  \/ Multi(w.mode = "thread", DOMAIN p, ListOf(p), OpenOf(w, p), b, Longest(w), Cap(w),
           Post(b, w), Absent(w), w.slack, w.offset)
Progress(b, w, p) ==
  Honest(w) =>
    /\ w.state \in {"ask", "busy"} => Border(b, w)
    /\ w.state = "busy" => IF Several(w) THEN SeveralBusy(b, w, p) ELSE AloneBusy(b, w, p)
Ended(w) == w.state = "over" /\ Honest(w) => Cardinality(Absent(w)) <= w.slack

PagingInv ==
  /\ WalkOK(matches, walk) /\ BoxesOK(matches, newest) /\ PartsOK(walk, parts)
  /\ Progress(matches, walk, parts) /\ Ended(walk)

LEMMA WalkFields ==
  ASSUME NEW b, NEW w, WalkOK(b, w)
  PROVE  /\ w.state \in {"ask", "busy", "over"} /\ w.mode \in Modes /\ w.scope \in Seq(Paging!Folders)
         /\ w.limit \in Nat /\ w.limit > 0 /\ w.offset \in Nat \cup {-1} /\ w.seen \in Seq(Nat)
         /\ w.sure \in BOOLEAN /\ w.slack \in Nat /\ w.stayed \in SUBSET Nat
         /\ Len(w.scope) \in Nat /\ Len(w.scope) > 0
         /\ w.state # "over" => w.offset \in Nat
         /\ Absent(w) \in SUBSET Nat /\ Absent(w) \subseteq Post(b, w)
BY DEF WalkOK, WalkRecord, Absent

LEMMA Scope ==
  ASSUME NEW b, NEW w, WalkOK(b, w)
  PROVE  /\ \A f \in Paging!Range(w.scope) : f \in Paging!Folders
         /\ IsFiniteSet(Paging!Range(w.scope))
         /\ w.scope[1] \in Paging!Range(w.scope)
         /\ Len(w.scope) = 1 => Paging!Range(w.scope) = {w.scope[1]} /\ Post(b, w) = b[w.scope[1]]
<1>1. PICK s : s = w.scope /\ s \in Seq(Paging!Folders) /\ Len(s) \in Nat /\ Len(s) > 0
  BY WalkFields
<1>2. Paging!Range(s) = {s[i] : i \in 1..Len(s)}
  BY <1>1 DEF Paging!Range
<1>3. \A i \in 1..Len(s) : s[i] \in Paging!Folders
  BY <1>1
<1>4. IsFiniteSet(Paging!Range(s))
  <2>1. IsFiniteSet(1..Len(s))
    BY <1>1, FS_Interval
  <2> DEFINE g == [i \in 1..Len(s) |-> s[i]]
  <2>2. g \in Surjection(1..Len(s), Paging!Range(s))
    <3>1. g \in [1..Len(s) -> Paging!Range(s)]
      BY <1>2
    <3>2. \A x \in Paging!Range(s) : \E i \in 1..Len(s) : g[i] = x
      BY <1>2
    <3> QED BY <3>1, <3>2 DEF Surjection
  <2> QED BY <2>1, <2>2, FS_Surjection
<1>5. 1 \in 1..Len(s)
  BY <1>1
<1>6. ASSUME Len(s) = 1 PROVE Paging!Range(s) = {s[1]} /\ Post(b, w) = b[s[1]]
  <2>1. 1..Len(s) = {1}
    BY <1>6
  <2>2. Paging!Range(s) = {s[1]}
    BY <1>2, <2>1
  <2> QED BY <1>1, <2>2 DEF Post
<1> QED BY <1>1, <1>2, <1>3, <1>4, <1>5, <1>6

LEMMA Boxed ==
  ASSUME MaxMsg \in Nat, NEW b, NEW last, BoxesOK(b, last), NEW w, WalkOK(b, w)
  PROVE  /\ last \in Nat /\ last <= MaxMsg
         /\ \A f \in Paging!Folders :
              /\ b[f] \in SUBSET Nat /\ IsFiniteSet(b[f]) /\ Cardinality(b[f]) \in Nat
              /\ Cardinality(b[f]) <= MaxMsg
         /\ Post(b, w) \in SUBSET Nat /\ IsFiniteSet(Post(b, w)) /\ IsFiniteSet(Absent(w))
         /\ \A x \in Post(b, w) : x <= last
         /\ \A f \in Paging!Range(w.scope) : b[f] \subseteq Post(b, w)
         /\ \A x \in Post(b, w) : \E f \in Paging!Range(w.scope) : x \in b[f]
<1>1. last \in Nat /\ last <= MaxMsg
  BY DEF BoxesOK
<1>2. IsFiniteSet(1..last) /\ Cardinality(1..last) = last
  <2>1. IsFiniteSet(1..last) /\ Cardinality(1..last) = IF 1 <= last THEN last - 1 + 1 ELSE 0
    BY <1>1, FS_Interval
  <2> QED BY <1>1, <2>1
<1>3. \A f \in Paging!Folders : b[f] \in SUBSET (1..last)
  BY DEF BoxesOK
<1>4. ASSUME NEW f \in Paging!Folders
      PROVE  /\ b[f] \in SUBSET Nat /\ IsFiniteSet(b[f]) /\ Cardinality(b[f]) \in Nat
             /\ Cardinality(b[f]) <= MaxMsg
  <2>1. IsFiniteSet(b[f]) /\ Cardinality(b[f]) \in Nat /\ Cardinality(b[f]) <= Cardinality(1..last)
    BY <1>2, <1>3, Subsets
  <2>2. \A x \in 1..last : x \in Nat
    OBVIOUS
  <2> QED BY <1>1, <1>2, <1>3, <2>1, <2>2
<1>5. \A f \in Paging!Range(w.scope) : f \in Paging!Folders
  BY Scope
<1>6. /\ Post(b, w) \in SUBSET (1..last)
      /\ \A f \in Paging!Range(w.scope) : b[f] \subseteq Post(b, w)
      /\ \A x \in Post(b, w) : \E f \in Paging!Range(w.scope) : x \in b[f]
  BY <1>3, <1>5 DEF Post
<1>7. IsFiniteSet(Post(b, w))
  BY <1>2, <1>6, Subsets
<1>8. IsFiniteSet(Absent(w))
  BY <1>7, WalkFields, Subsets
<1>9. \A x \in Post(b, w) : x \in Nat /\ x <= last
  BY <1>1, <1>6
<1> QED BY <1>1, <1>4, <1>6, <1>7, <1>8, <1>9

LEMMA Budgets ==
  ASSUME MaxMsg \in Nat, NEW b, NEW w, WalkOK(b, w), w.state # "over"
  PROVE  /\ Paging!Budget(w) \in Nat
         /\ ~Several(w) /\ w.mode # "folder" /\ Len(w.scope) = 1 => Paging!Budget(w) = w.limit
         /\ w.mode = "folder" => Paging!Budget(w) = w.limit + 1
         /\ w.mode = "all" => Paging!Budget(w) = w.offset + w.limit + 1
         /\ w.mode = "thread" => Paging!Budget(w) = MaxMsg
<1>1. PICK limit, offset, n : /\ limit = w.limit /\ limit \in Nat
                              /\ offset = w.offset /\ offset \in Nat
                              /\ n = Len(w.scope) /\ n \in Nat /\ n > 0
  BY WalkFields
<1>2. limit \div n \in Nat
  BY <1>1
<1>3. w.mode \in Modes
  BY WalkFields
<1>4. CASE w.mode = "advanced"
  <2>1. Paging!Budget(w) = IF n > 1 THEN limit \div n ELSE limit
    BY <1>1, <1>4 DEF Paging!Budget
  <2>2. Paging!Budget(w) \in Nat
    BY <1>1, <1>2, <2>1
  <2>3. n = 1 => Paging!Budget(w) = limit
    BY <1>1, <2>1
  <2> QED BY <1>1, <1>4, <2>2, <2>3
<1>5. CASE w.mode = "folder"
  <2>1. Paging!Budget(w) = limit + 1
    BY <1>1, <1>5 DEF Paging!Budget
  <2> QED BY <1>1, <1>5, <2>1
<1>6. CASE w.mode = "all"
  <2>1. Paging!Budget(w) = offset + limit + 1
    BY <1>1, <1>6 DEF Paging!Budget
  <2> QED BY <1>1, <1>6, <2>1 DEF Several
<1>7. CASE w.mode = "thread"
  <2>1. Paging!Budget(w) = MaxMsg
    BY <1>7 DEF Paging!Budget
  <2> QED BY <1>7, <2>1 DEF Several
<1>8. CASE w.mode \notin {"advanced", "folder", "all", "thread"}
  <2>1. Paging!Budget(w) = limit
    BY <1>1, <1>8 DEF Paging!Budget
  <2> QED BY <1>1, <1>8, <2>1
<1> QED BY <1>4, <1>5, <1>6, <1>7, <1>8
LEMMA SettingOf ==
  ASSUME MaxMsg \in Nat, NEW b, NEW last, BoxesOK(b, last), NEW w, WalkOK(b, w), w.state = "busy",
         Several(w), NEW p, PartsOK(w, p)
  PROVE  Setting(w.mode = "thread", DOMAIN p, ListOf(p), b, Longest(w), Cap(w), Post(b, w), Absent(w), w.offset)
<1>1. /\ w.offset \in Nat /\ w.limit \in Nat /\ w.limit > 0
      /\ Absent(w) \in SUBSET Nat /\ Absent(w) \subseteq Post(b, w)
  BY WalkFields
<1>2. Paging!Budget(w) \in Nat
  BY Budgets
<1>3. DOMAIN p = Paging!Range(w.scope) /\ \A f \in DOMAIN p : PartOK(w, p[f])
  BY DEF PartsOK
<1>4. /\ \A f \in DOMAIN p : f \in Paging!Folders
      /\ IsFiniteSet(DOMAIN p)
  BY <1>3, Scope
<1>5. /\ \A f \in Paging!Folders :
           /\ b[f] \in SUBSET Nat /\ IsFiniteSet(b[f]) /\ Cardinality(b[f]) \in Nat
           /\ Cardinality(b[f]) <= MaxMsg
      /\ IsFiniteSet(Post(b, w)) /\ IsFiniteSet(Absent(w))
      /\ \A x \in Post(b, w) : \E f \in DOMAIN p : x \in b[f]
  BY <1>3, Boxed
<1>6. \A f \in DOMAIN p : /\ ListOf(p)[f] \in Seq(Nat) /\ Len(ListOf(p)[f]) \in Nat
                          /\ Len(ListOf(p)[f]) <= Paging!Budget(w)
  BY <1>3 DEF PartOK, ListOf
<1>7. FoldersOK(DOMAIN p, ListOf(p), b)
  BY <1>4, <1>5, <1>6 DEF FoldersOK
<1>8. Longest(w) = Paging!Budget(w) + MaxMsg /\ Longest(w) \in Nat
  BY <1>2 DEF Longest
<1>9. Sizes(DOMAIN p, ListOf(p), b, Longest(w))
  <2> SUFFICES ASSUME NEW f \in DOMAIN p
               PROVE  Len(ListOf(p)[f]) <= Longest(w) /\ Cardinality(b[f]) <= Longest(w)
    BY DEF Sizes
  <2>1. Len(ListOf(p)[f]) \in Nat /\ Len(ListOf(p)[f]) <= Paging!Budget(w)
    BY <1>6
  <2>2. Cardinality(b[f]) \in Nat /\ Cardinality(b[f]) <= MaxMsg
    BY <1>4, <1>5
  <2> QED BY <1>2, <1>8, <2>1, <2>2
<1>10. Cap(w) \in Nat /\ IF w.mode = "thread" THEN Cap(w) = Longest(w) ELSE w.offset < Cap(w)
  BY <1>1, <1>8 DEF Cap
<1>11. \A m \in Absent(w) : \E g \in DOMAIN p : m \in b[g]
  BY <1>1, <1>5
<1> QED BY <1>1, <1>5, <1>7, <1>8, <1>9, <1>10, <1>11 DEF Setting

(* What a change in the mailbox leaves alone of the walk.                   *)
SameWalk(w, v) ==
  /\ v.state = w.state /\ v.mode = w.mode /\ v.scope = w.scope /\ v.limit = w.limit
  /\ v.offset = w.offset /\ v.seen = w.seen /\ v.sure = w.sure
LEMMA SameWalks ==
  ASSUME NEW w, NEW v, SameWalk(w, v)
  PROVE  /\ Paging!Budget(v) = Paging!Budget(w) /\ Longest(v) = Longest(w) /\ Cap(v) = Cap(w)
         /\ \A b : Post(b, v) = Post(b, w)
         /\ \A p : OpenOf(v, p) = OpenOf(w, p)
         /\ \A p : PartsOK(w, p) => PartsOK(v, p)
         /\ Several(v) <=> Several(w)
         /\ Honest(v) <=> Honest(w)
<1>1. Paging!Budget(v) = Paging!Budget(w)
  BY DEF SameWalk, Paging!Budget
<1>2. Longest(v) = Longest(w) /\ Cap(v) = Cap(w)
  BY <1>1 DEF SameWalk, Longest, Cap
<1>3. \A p : OpenOf(v, p) = OpenOf(w, p)
  BY <1>1 DEF OpenOf
<1>4. \A p : PartOK(w, p) => PartOK(v, p)
  BY <1>1 DEF SameWalk, PartOK
<1>5. \A p : PartsOK(w, p) => PartsOK(v, p)
  BY <1>4 DEF SameWalk, PartsOK
<1> QED BY <1>1, <1>2, <1>3, <1>5 DEF SameWalk, Post, Several, Honest

LEMMA BehindSize ==
  ASSUME NEW b, NEW U, IsFiniteSet(U), NEW o
  PROVE  IsFiniteSet(Behind(b, U, o)) /\ Cardinality(Behind(b, U, o)) \in Nat
<1>1. Behind(b, U, o) \in SUBSET U
  BY DEF Behind
<1> QED BY <1>1, Subsets

LEMMA BehindArrival ==
  ASSUME NEW b \in SUBSET Nat, IsFiniteSet(b), NEW U \in SUBSET b, NEW x, x \notin b, NEW o \in Nat
  PROVE  Cardinality(Behind(b \cup {x}, U, o)) <= Cardinality(Behind(b, U, o))
<1>1. \A c : Passed(c, U, o, 0, << >>) = Behind(c, U, o)
  BY DEF Passed, Behind
<1>2. Cardinality(Passed(b \cup {x}, U, o, 0, << >>)) <= Cardinality(Passed(b, U, o, 0, << >>))
  BY PassedArrival
<1> QED BY <1>1, <1>2

LEMMA BehindRemoval ==
  ASSUME NEW b \in SUBSET Nat, IsFiniteSet(b), NEW U \in SUBSET b, NEW x \in b,
         NEW V \in SUBSET (U \ {x}), NEW o \in Nat
  PROVE  Cardinality(Behind(b \ {x}, V, o)) <= Cardinality(Behind(b, U, o)) + 1
<1>1. \A c, T : Passed(c, T, o, 0, << >>) = Behind(c, T, o)
  BY DEF Passed, Behind
<1>2. Cardinality(Passed(b \ {x}, V, o, 0, << >>)) <= Cardinality(Passed(b, U, o, 0, << >>)) + 1
  BY PassedRemoval
<1> QED BY <1>1, <1>2

(* A message comes into a folder of the walk: it arrives, or it moves.      *)
LEMMA WalkGains ==
  ASSUME MaxMsg \in Nat, NEW b, NEW last, BoxesOK(b, last), NEW w, WalkOK(b, w), NEW p, PartsOK(w, p),
         Progress(b, w, p), w.state \in {"ask", "busy"},
         NEW f \in Paging!Range(w.scope), NEW z \in Nat, z \notin Post(b, w),
         NEW a, NEW after, BoxesOK(a, after), Comes(Paging!Folders, b, f, z, a),
         NEW v \in WalkRecord, SameWalk(w, v), v.stayed = w.stayed,
         \/ v.slack = w.slack + 1
         \/ v.slack = w.slack /\ ~(w.state = "busy" /\ Paging!CountsFirst(w.mode) /\ Len(w.scope) = 1)
  PROVE  WalkOK(a, v) /\ PartsOK(v, p) /\ Progress(a, v, p)
<1>1. /\ f \in Paging!Folders
      /\ \A g \in Paging!Folders : b[g] \in SUBSET Nat /\ IsFiniteSet(b[g])
      /\ Post(b, w) \in SUBSET Nat /\ IsFiniteSet(Post(b, w)) /\ IsFiniteSet(Absent(w))
      /\ \A g \in Paging!Range(w.scope) : g \in Paging!Folders
  BY Boxed, Scope
<1>3. a[f] = b[f] \cup {z} /\ \A g \in Paging!Folders : g # f => a[g] = b[g]
  BY DEF Comes
<1>4. BoxesOK(a, after)
  OBVIOUS
<1>5. Post(a, v) = Post(b, w) \cup {z} /\ z \notin Post(b, w)
  <2>1. \A g \in Paging!Range(w.scope) : g # f => a[g] = b[g]
    BY <1>1, <1>3
  <2>2. Post(a, v) = Post(b, w) \cup {z}
    BY <1>3, <2>1 DEF Post, SameWalk
  <2> QED BY <2>2
<1>6. WalkOK(a, v)
  BY <1>5 DEF WalkOK, SameWalk
<1>7. PartsOK(v, p)
  BY SameWalks
<1>8. Absent(v) = Absent(w) /\ Absent(w) \in SUBSET Post(b, w) /\ Absent(w) \in SUBSET Nat
  BY WalkFields DEF Absent, SameWalk
<1>9. w.slack \in Nat /\ v.slack \in Nat /\ w.offset \in Nat /\ v.slack >= w.slack
  <2>1. w.slack \in Nat /\ w.offset \in Nat
    BY WalkFields
  <2> QED BY <2>1
<1>10. ASSUME Border(b, w) PROVE Border(a, v)
  <2>1. Cardinality(Behind(Post(b, w) \cup {z}, Absent(w), w.offset)) <= Cardinality(Behind(Post(b, w), Absent(w), w.offset))
    BY <1>1, <1>5, <1>8, <1>9, BehindArrival
  <2>2. Cardinality(Behind(Post(b, w), Absent(w), w.offset)) \in Nat
    BY <1>1, BehindSize
  <2>3. Cardinality(Behind(Post(b, w) \cup {z}, Absent(w), w.offset)) \in Nat
    BY <1>1, BehindSize
  <2>4. v.offset = w.offset
    BY DEF SameWalk
  <2> QED BY <1>5, <1>8, <1>9, <1>10, <2>1, <2>2, <2>3, <2>4 DEF Border
<1>11. ASSUME w.state = "busy", ~Several(w), Honest(w), AloneBusy(b, w, p) PROVE AloneBusy(a, v, p)
  <2>1. Len(w.scope) = 1
    <3>1. w.mode \in Modes
      BY WalkFields
    <3> QED BY <1>11, <3>1 DEF Honest, Several, WalkOK, Modes, Paging!V4, Paging!V5
  <2>2. Paging!Range(w.scope) = {w.scope[1]} /\ Post(b, w) = b[w.scope[1]] /\ f = w.scope[1]
    BY <2>1, Scope
  <2>3. PICK q : q = p[f] /\ PartOK(w, q)
    BY <1>11, <2>2 DEF PartsOK
  <2>4. q.items \in Seq(Nat) /\ (q.total \in Nat => Paging!CountsFirst(w.mode))
    BY <2>3 DEF PartOK
  <2>5. v.slack = w.slack + 1 \/ (v.slack = w.slack /\ q.total \notin Nat)
    BY <1>11, <2>1, <2>4
  <2>6. AloneOK(b[f], Absent(w), w.offset, w.slack, q, Paging!Budget(w))
    BY <1>11, <2>2, <2>3 DEF AloneBusy
  <2>7. PICK S : S = b[f] /\ S \in SUBSET Nat /\ IsFiniteSet(S) /\ Absent(w) \in SUBSET S /\ z \notin S
    BY <1>1, <1>5, <1>8, <2>2
  <2>8. AloneOK(S \cup {z}, Absent(w), w.offset, v.slack, q, Paging!Budget(w))
    BY <1>9, <2>4, <2>5, <2>6, <2>7, AloneArrival
  <2>9. a[f] = S \cup {z} /\ v.scope[1] = f /\ v.offset = w.offset /\ Paging!Budget(v) = Paging!Budget(w)
    BY <1>3, <2>2, <2>7, SameWalks DEF SameWalk
  <2> QED BY <1>8, <2>3, <2>8, <2>9 DEF AloneBusy
<1>12. ASSUME w.state = "busy", Several(w), SeveralBusy(b, w, p) PROVE SeveralBusy(a, v, p)
  <2>1. CASE \E g \in DOMAIN p : p[g].phase = "failed"
    BY <2>1 DEF SeveralBusy
  <2>2. CASE ~ \E g \in DOMAIN p : p[g].phase = "failed"
    <3>1. Multi(w.mode = "thread", DOMAIN p, ListOf(p), OpenOf(w, p), b, Longest(w), Cap(w),
                Post(b, w), Absent(w), w.slack, w.offset)
      BY <1>12, <2>2 DEF SeveralBusy
    <3>2. Setting(w.mode = "thread", DOMAIN p, ListOf(p), b, Longest(w), Cap(w), Post(b, w), Absent(w), w.offset)
      BY <1>12, SettingOf
    <3>3. DOMAIN p = Paging!Range(w.scope)
      BY <1>12 DEF PartsOK
    <3>4. f \in DOMAIN p /\ z \notin b[f] /\ z \notin Absent(w)
      BY <1>5, <1>8, <3>3 DEF Post
    <3>5. Comes(DOMAIN p, b, f, z, a)
      BY <1>1, <1>3, <3>3 DEF Comes
    <3>6. Cardinality(a[f]) <= Longest(w)
      <4>1. Cardinality(a[f]) \in Nat /\ Cardinality(a[f]) <= MaxMsg
        BY <1>1, <1>4, <1>6, Boxed
      <4>2. Paging!Budget(w) \in Nat
        BY <1>12, Budgets
      <4> QED BY <4>1, <4>2 DEF Longest
    <3>7. IsFiniteSet(Post(a, v))
      BY <1>1, <1>5, FS_AddElement
    <3>8. \A m \in Absent(w) : /\ Count(Post(b, w), m) <= Count(Post(a, v), m)
                               /\ m < z => Count(Post(b, w), m) + 1 <= Count(Post(a, v), m)
      <4> SUFFICES ASSUME NEW m \in Absent(w)
                   PROVE  /\ Count(Post(b, w), m) <= Count(Post(a, v), m)
                          /\ m < z => Count(Post(b, w), m) + 1 <= Count(Post(a, v), m)
        OBVIOUS
      <4>1. /\ z > m => Count(Post(b, w) \cup {z}, m) = Count(Post(b, w), m) + 1
            /\ ~(z > m) => Count(Post(b, w) \cup {z}, m) = Count(Post(b, w), m)
        BY <1>1, <1>5, CountWith
      <4>2. Count(Post(b, w), m) \in Nat /\ m \in Nat
        BY <1>1, <1>8, Newers
      <4> QED BY <1>5, <4>1, <4>2
    <3>9. Multi(w.mode = "thread", DOMAIN p, ListOf(p), OpenOf(w, p), a, Longest(w), Cap(w),
                Post(a, v), Absent(w), w.slack, w.offset)
      <4>1. (w.mode = "thread") \in BOOLEAN
        OBVIOUS
      <4> QED BY <1>9, <3>1, <3>2, <3>4, <3>5, <3>6, <3>7, <3>8, <4>1, MultiComes
    <3>10. Multi(w.mode = "thread", DOMAIN p, ListOf(p), OpenOf(w, p), a, Longest(w), Cap(w),
                 Post(a, v), Absent(w), v.slack, w.offset)
      <4>1. v.state = "busy" /\ Several(v)
        BY <1>12, SameWalks DEF SameWalk
      <4>2. Setting(v.mode = "thread", DOMAIN p, ListOf(p), a, Longest(v), Cap(v), Post(a, v), Absent(v), v.offset)
        BY <1>4, <1>6, <1>7, <4>1, SettingOf
      <4>3. Setting(w.mode = "thread", DOMAIN p, ListOf(p), a, Longest(w), Cap(w), Post(a, v), Absent(w), w.offset)
        BY <1>8, <4>2, SameWalks DEF SameWalk
      <4> QED BY <1>9, <3>9, <4>3, MultiMore
    <3> QED BY <1>8, <3>10, SameWalks DEF SeveralBusy, SameWalk
  <2> QED BY <2>1, <2>2
<1>13. Progress(a, v, p)
  BY <1>10, <1>11, <1>12, SameWalks DEF Progress, SameWalk
<1> QED BY <1>6, <1>7, <1>13
LEMMA BoxesArrive ==
  ASSUME MaxMsg \in Nat, NEW b, NEW last, BoxesOK(b, last), last < MaxMsg,
         NEW f \in Paging!Folders, NEW a, DOMAIN a = DOMAIN b, Comes(Paging!Folders, b, f, last + 1, a)
  PROVE  BoxesOK(a, last + 1) /\ last + 1 \in Nat /\ \A g \in Paging!Folders : last + 1 \notin b[g]
<1>1. last \in Nat
  BY DEF BoxesOK
<1>2. PICK z \in Nat : z = last + 1
  BY <1>1
<1>3. a[f] = b[f] \cup {z} /\ \A g \in Paging!Folders : g # f => a[g] = b[g]
  BY <1>2 DEF Comes
<1>4. z \in 0..MaxMsg
  BY <1>1, <1>2 DEF BoxesOK
<1>5. \A g \in Paging!Folders : b[g] \in SUBSET (1..last)
  BY DEF BoxesOK
<1>6. \A x \in 1..last : x \in 1..z /\ x # z
  BY <1>1, <1>2
<1>7. z \in 1..z
  BY <1>1, <1>2
<1>8. \A g \in Paging!Folders : a[g] \in SUBSET (1..z)
  BY <1>3, <1>5, <1>6, <1>7
<1>9. \A g \in Paging!Folders : z \notin b[g]
  BY <1>5, <1>6
<1>10. \A g, h \in Paging!Folders : g # h => a[g] \cap a[h] = {}
  <2> SUFFICES ASSUME NEW g \in Paging!Folders, NEW h \in Paging!Folders, g # h, NEW x, x \in a[g], x \in a[h]
               PROVE  FALSE
    OBVIOUS
  <2>1. b[g] \cap b[h] = {}
    BY DEF BoxesOK
  <2> QED BY <1>3, <1>9, <2>1
<1>11. DOMAIN a = Paging!Folders
  BY DEF BoxesOK
<1>12. BoxesOK(a, z)
  BY <1>4, <1>8, <1>10, <1>11 DEF BoxesOK
<1> QED BY <1>2, <1>9, <1>12

LEMMA BoxesLose ==
  ASSUME NEW b, NEW last, BoxesOK(b, last), NEW f \in Paging!Folders, NEW z \in b[f],
         NEW a, DOMAIN a = DOMAIN b, Goes(Paging!Folders, b, f, z, a)
  PROVE  BoxesOK(a, last) /\ \A g \in Paging!Folders : z \notin a[g]
<1>1. a[f] = b[f] \ {z} /\ \A g \in Paging!Folders : g # f => a[g] = b[g]
  BY DEF Goes
<1>2. \A g \in Paging!Folders : g # f => b[f] \cap b[g] = {}
  BY DEF BoxesOK
<1>3. \A g \in Paging!Folders : z \notin a[g]
  BY <1>1, <1>2
<1>4. \A g \in Paging!Folders : a[g] \in SUBSET b[g]
  BY <1>1
<1>5. \A g \in Paging!Folders : a[g] \in SUBSET (1..last)
  BY <1>4 DEF BoxesOK
<1>6. \A g, h \in Paging!Folders : g # h => a[g] \cap a[h] = {}
  <2> SUFFICES ASSUME NEW g \in Paging!Folders, NEW h \in Paging!Folders, g # h PROVE a[g] \cap a[h] = {}
    OBVIOUS
  <2>1. b[g] \cap b[h] = {}
    BY DEF BoxesOK
  <2> QED BY <1>4, <2>1
<1> QED BY <1>3, <1>5, <1>6 DEF BoxesOK

LEMMA BoxesGain ==
  ASSUME NEW b, NEW last, BoxesOK(b, last), NEW f \in Paging!Folders, NEW z \in 1..last,
         \A g \in Paging!Folders : z \notin b[g],
         NEW a, DOMAIN a = DOMAIN b, Comes(Paging!Folders, b, f, z, a)
  PROVE  BoxesOK(a, last)
<1>1. a[f] = b[f] \cup {z} /\ \A g \in Paging!Folders : g # f => a[g] = b[g]
  BY DEF Comes
<1>2. \A g \in Paging!Folders : b[g] \in SUBSET (1..last)
  BY DEF BoxesOK
<1>3. \A g \in Paging!Folders : a[g] \in SUBSET (1..last)
  BY <1>1, <1>2
<1>4. \A g, h \in Paging!Folders : g # h => a[g] \cap a[h] = {}
  <2> SUFFICES ASSUME NEW g \in Paging!Folders, NEW h \in Paging!Folders, g # h, NEW x, x \in a[g], x \in a[h]
               PROVE  FALSE
    OBVIOUS
  <2>1. b[g] \cap b[h] = {}
    BY DEF BoxesOK
  <2> QED BY <1>1, <2>1
<1> QED BY <1>3, <1>4 DEF BoxesOK

(* A message leaves a folder of the walk.                                   *)
LEMMA WalkLoses ==
  ASSUME MaxMsg \in Nat, NEW b, NEW last, BoxesOK(b, last), NEW w, WalkOK(b, w), NEW p, PartsOK(w, p),
         Progress(b, w, p), w.state \in {"ask", "busy"},
         NEW f \in Paging!Range(w.scope), NEW z \in b[f],
         NEW a, DOMAIN a = DOMAIN b, Goes(Paging!Folders, b, f, z, a),
         NEW v \in WalkRecord, SameWalk(w, v), v.stayed = w.stayed \ {z}, v.slack = w.slack + 1
  PROVE  WalkOK(a, v) /\ BoxesOK(a, last) /\ PartsOK(v, p) /\ Progress(a, v, p)
<1>1. /\ f \in Paging!Folders
      /\ \A g \in Paging!Folders : b[g] \in SUBSET Nat /\ IsFiniteSet(b[g])
      /\ Post(b, w) \in SUBSET Nat /\ IsFiniteSet(Post(b, w)) /\ IsFiniteSet(Absent(w))
      /\ \A g \in Paging!Range(w.scope) : g \in Paging!Folders /\ b[g] \subseteq Post(b, w)
  BY Boxed, Scope
<1>2. z \in Nat /\ z \in Post(b, w)
  BY <1>1
<1>3. a[f] = b[f] \ {z} /\ \A g \in Paging!Folders : g # f => a[g] = b[g]
  BY DEF Goes
<1>4. BoxesOK(a, last) /\ \A g \in Paging!Folders : z \notin a[g]
  BY <1>1, BoxesLose
<1>5. Post(a, v) = Post(b, w) \ {z}
  <2>1. \A g \in Paging!Range(w.scope) : a[g] = b[g] \ {z}
    <3> SUFFICES ASSUME NEW g \in Paging!Range(w.scope) PROVE a[g] = b[g] \ {z}
      OBVIOUS
    <3>1. CASE g = f
      BY <1>3, <3>1
    <3>2. CASE g # f
      BY <1>1, <1>3, <1>4, <3>2
    <3> QED BY <3>1, <3>2
  <2>2. Post(a, v) = UNION {a[g] : g \in Paging!Range(w.scope)}
    BY DEF Post, SameWalk
  <2> QED BY <2>1, <2>2 DEF Post
<1>6. WalkOK(a, v)
  BY <1>5 DEF WalkOK, SameWalk
<1>7. PartsOK(v, p)
  BY SameWalks
<1>8. /\ Absent(v) = Absent(w) \ {z} /\ Absent(w) \in SUBSET Post(b, w) /\ Absent(w) \in SUBSET Nat
      /\ Absent(v) \in SUBSET (Absent(w) \ {z})
  BY WalkFields DEF Absent, SameWalk
<1>9. w.slack \in Nat /\ v.slack \in Nat /\ w.offset \in Nat /\ v.slack = w.slack + 1
  <2>1. w.slack \in Nat /\ w.offset \in Nat
    BY WalkFields
  <2> QED BY <2>1
<1>10. ASSUME Border(b, w) PROVE Border(a, v)
  <2>1. Cardinality(Behind(Post(b, w) \ {z}, Absent(v), w.offset)) <= Cardinality(Behind(Post(b, w), Absent(w), w.offset)) + 1
    BY <1>1, <1>2, <1>8, <1>9, BehindRemoval
  <2>2. Cardinality(Behind(Post(b, w), Absent(w), w.offset)) \in Nat
    BY <1>1, BehindSize
  <2>3. Cardinality(Behind(Post(b, w) \ {z}, Absent(v), w.offset)) \in Nat
    <3>1. IsFiniteSet(Absent(v))
      BY <1>1, <1>8, Subsets
    <3> QED BY <3>1, BehindSize
  <2>4. v.offset = w.offset
    BY DEF SameWalk
  <2> QED BY <1>5, <1>9, <1>10, <2>1, <2>2, <2>3, <2>4 DEF Border
<1>11. ASSUME w.state = "busy", ~Several(w), Honest(w), AloneBusy(b, w, p) PROVE AloneBusy(a, v, p)
  <2>1. Len(w.scope) = 1
    <3>1. w.mode \in Modes
      BY WalkFields
    <3> QED BY <1>11, <3>1 DEF Honest, Several, WalkOK, Modes, Paging!V4, Paging!V5
  <2>2. Paging!Range(w.scope) = {w.scope[1]} /\ Post(b, w) = b[w.scope[1]] /\ f = w.scope[1]
    BY <2>1, Scope
  <2>3. PICK q : q = p[f] /\ PartOK(w, q)
    BY <1>11, <2>2 DEF PartsOK
  <2>4. q.items \in Seq(Nat)
    BY <2>3 DEF PartOK
  <2>6. AloneOK(b[f], Absent(w), w.offset, w.slack, q, Paging!Budget(w))
    BY <1>11, <2>2, <2>3 DEF AloneBusy
  <2>7. PICK S : S = b[f] /\ S \in SUBSET Nat /\ IsFiniteSet(S) /\ Absent(w) \in SUBSET S /\ z \in S
    BY <1>1, <1>8, <2>2
  <2>8. AloneOK(S \ {z}, Absent(v), w.offset, w.slack + 1, q, Paging!Budget(w))
    BY <1>8, <1>9, <2>4, <2>6, <2>7, AloneRemoval
  <2>9. a[f] = S \ {z} /\ v.scope[1] = f /\ v.offset = w.offset /\ Paging!Budget(v) = Paging!Budget(w)
    BY <1>3, <2>2, <2>7, SameWalks DEF SameWalk
  <2> QED BY <1>9, <2>3, <2>8, <2>9 DEF AloneBusy
<1>12. ASSUME w.state = "busy", Several(w), SeveralBusy(b, w, p) PROVE SeveralBusy(a, v, p)
  <2>1. CASE \E g \in DOMAIN p : p[g].phase = "failed"
    BY <2>1 DEF SeveralBusy
  <2>2. CASE ~ \E g \in DOMAIN p : p[g].phase = "failed"
    <3>1. Multi(w.mode = "thread", DOMAIN p, ListOf(p), OpenOf(w, p), b, Longest(w), Cap(w),
                Post(b, w), Absent(w), w.slack, w.offset)
      BY <1>12, <2>2 DEF SeveralBusy
    <3>2. Setting(w.mode = "thread", DOMAIN p, ListOf(p), b, Longest(w), Cap(w), Post(b, w), Absent(w), w.offset)
      BY <1>12, SettingOf
    <3>3. DOMAIN p = Paging!Range(w.scope)
      BY <1>12 DEF PartsOK
    <3>5. f \in DOMAIN p /\ Goes(DOMAIN p, b, f, z, a)
      BY <1>1, <1>3, <3>3 DEF Goes
    <3>7. IsFiniteSet(Post(a, v))
      BY <1>1, <1>5, FS_RemoveElement
    <3>8. \A m \in Absent(v) : Count(Post(b, w), m) <= Count(Post(a, v), m) + 1
      <4> SUFFICES ASSUME NEW m \in Absent(v)
                   PROVE  Count(Post(b, w), m) <= Count(Post(a, v), m) + 1
        OBVIOUS
      <4>1. /\ z > m => Count(Post(b, w) \ {z}, m) = Count(Post(b, w), m) - 1
            /\ ~(z > m) => Count(Post(b, w) \ {z}, m) = Count(Post(b, w), m)
        BY <1>1, <1>2, CountWithout
      <4>2. Count(Post(b, w), m) \in Nat
        BY <1>1, <1>8, Newers
      <4> QED BY <1>5, <4>1, <4>2
    <3>9. Multi(w.mode = "thread", DOMAIN p, ListOf(p), OpenOf(w, p), a, Longest(w), Cap(w),
                Post(a, v), Absent(v), w.slack + 1, w.offset)
      <4>1. (w.mode = "thread") \in BOOLEAN
        OBVIOUS
      <4>2. Absent(v) \in SUBSET Absent(w)
        BY <1>8
      <4> QED BY <1>9, <3>1, <3>2, <3>5, <3>7, <3>8, <4>1, <4>2, MultiGoes
    <3> QED BY <1>9, <3>9, SameWalks DEF SeveralBusy, SameWalk
  <2> QED BY <2>1, <2>2
<1>13. Progress(a, v, p)
  BY <1>10, <1>11, <1>12, SameWalks DEF Progress, SameWalk
<1> QED BY <1>4, <1>6, <1>7, <1>13

Shift(b, f, g, z, a) == a = [b EXCEPT ![f] = @ \ {z}, ![g] = IF g = f THEN @ \ {z} ELSE @ \cup {z}]

(* A message is deleted (g = f) or moves to another folder of the walk.     *)
LEMMA WalkGoes ==
  ASSUME MaxMsg \in Nat, NEW b, NEW last, BoxesOK(b, last), NEW w, WalkOK(b, w), NEW p, PartsOK(w, p),
         Progress(b, w, p), w.state \in {"ask", "busy"},
         NEW f \in Paging!Range(w.scope), NEW z \in b[f], NEW g \in Paging!Range(w.scope),
         NEW v \in WalkRecord, SameWalk(w, v), v.stayed = w.stayed \ {z}, v.slack = w.slack + 1,
         NEW a, Shift(b, f, g, z, a)
  PROVE  WalkOK(a, v) /\ BoxesOK(a, last) /\ PartsOK(v, p) /\ Progress(a, v, p)
<1>1. f \in Paging!Folders /\ g \in Paging!Folders /\ DOMAIN b = Paging!Folders
  BY Scope DEF BoxesOK
<1>2. PICK r : r = [b EXCEPT ![f] = @ \ {z}]
  OBVIOUS
<1>3. Goes(Paging!Folders, b, f, z, r) /\ DOMAIN r = DOMAIN b
  BY <1>1, <1>2 DEF Goes
<1>4. WalkOK(r, v) /\ BoxesOK(r, last) /\ PartsOK(v, p) /\ Progress(r, v, p)
  BY <1>3, WalkLoses
<1>5. CASE g = f
  <2>1. a = r
    BY <1>1, <1>2, <1>5 DEF Shift
  <2> QED BY <1>4, <2>1
<1>6. CASE g # f
  <2>1. Comes(Paging!Folders, r, g, z, a) /\ DOMAIN a = DOMAIN r
    BY <1>1, <1>2, <1>6 DEF Comes, Shift
  <2>2. \A h \in Paging!Folders : z \notin r[h]
    BY <1>1, <1>3, BoxesLose
  <2>3. z \in 1..last /\ z \in Nat
    <3>1. z \in 1..last
      BY <1>1 DEF BoxesOK
    <3> QED BY <3>1
  <2>4. BoxesOK(a, last)
    BY <1>1, <1>4, <2>1, <2>2, <2>3, BoxesGain
  <2>5. z \notin Post(r, v)
    <3>1. \A h \in Paging!Range(v.scope) : z \notin r[h]
      BY <1>4, <2>2, Scope
    <3> QED BY <3>1 DEF Post
  <2>6. Len(v.scope) # 1
    BY <1>6, Scope DEF SameWalk
  <2>7. SameWalk(v, v) /\ v.state \in {"ask", "busy"} /\ g \in Paging!Range(v.scope)
    BY DEF SameWalk
  <2>8. WalkOK(a, v) /\ PartsOK(v, p) /\ Progress(a, v, p)
    BY <1>4, <2>1, <2>3, <2>4, <2>5, <2>6, <2>7, WalkGains
  <2> QED BY <2>4, <2>8
<1> QED BY <1>5, <1>6

-----------------------------------------------------------------------------
(* SearchPaging: a request and its calls.                                   *)
LEMMA Alone ==
  ASSUME NEW b, NEW w, WalkOK(b, w), Honest(w), ~Several(w)
  PROVE  Len(w.scope) = 1 /\ w.scope[1] \in Paging!Folders /\ w.scope[1] \in Paging!Range(w.scope)
         /\ Paging!Range(w.scope) = {w.scope[1]} /\ Post(b, w) = b[w.scope[1]]
<1>1. w.mode \in Modes
  BY WalkFields
<1>2. Len(w.scope) = 1
  BY <1>1 DEF Honest, Several, WalkOK, Modes, Paging!V4, Paging!V5
<1> QED BY <1>2, Scope

Begun(w, q) ==
  /\ q \in [phase : {"count", "slice", "done"}, total : {-1}, items : {<< >>}]
  /\ q.phase = "count" => Paging!CountsFirst(w.mode)
  /\ q.phase = "done" => ~(0 < Paging!Budget(w))

LEMMA NewParts ==
  ASSUME MaxMsg \in Nat, NEW b, NEW w, WalkOK(b, w), w.state # "over"
  PROVE  Begun(w, Paging!NewPart(w)) /\ Begun(w, Paging!Settled(w, Paging!NewPart(w)))
<1>1. PICK n \in Nat : n = Paging!Budget(w)
  BY Budgets
<1>2. PICK q : q = Paging!NewPart(w)
  OBVIOUS
<1>3. /\ q \in [phase : {"count", "slice"}, total : {-1}, items : {<< >>}]
      /\ q.phase = "count" => Paging!CountsFirst(w.mode)
  BY <1>2 DEF Paging!NewPart, Paging!None
<1>4. Len(q.items) = 0
  BY <1>3
<1>5. Begun(w, q)
  BY <1>3 DEF Begun
<1>6. CASE q.phase = "slice" /\ 0 >= n
  <2>1. Paging!Settled(w, q) = [q EXCEPT !.phase = "done"]
    BY <1>1, <1>4, <1>6 DEF Paging!Settled
  <2> QED BY <1>1, <1>2, <1>3, <1>5, <1>6, <2>1 DEF Begun
<1>7. CASE ~(q.phase = "slice" /\ 0 >= n)
  <2>1. Paging!Settled(w, q) = q
    BY <1>1, <1>4, <1>7 DEF Paging!Settled
  <2> QED BY <1>2, <1>5, <2>1
<1> QED BY <1>6, <1>7

LEMMA FreshPart ==
  ASSUME NEW w, Paging!Budget(w) \in Nat, NEW q, Begun(w, q)
  PROVE  PartOK(w, q) /\ q.items = << >> /\ q.total = -1 /\ q.phase # "failed"
         /\ (q.phase # "done" \/ ~(0 < Paging!Budget(w)))
<1>1. << >> \in Seq(Nat) /\ Len(<< >>) = 0
  OBVIOUS
<1>2. PICK none : none = << >> /\ none \in Seq(Nat) /\ Len(none) = 0
  BY <1>1
<1>3. /\ q \in [phase : {"count", "slice", "done"}, total : {-1}, items : {none}]
      /\ q.phase = "count" => Paging!CountsFirst(w.mode)
      /\ q.phase = "done" => ~(0 < Paging!Budget(w))
  BY <1>2 DEF Begun
<1>4. /\ q.items = none /\ q.total = -1 /\ q.phase \in {"count", "slice", "done"}
      /\ q \in [phase : {"count", "slice", "done", "failed"}, total : Nat \cup {-1}, items : Seq(Nat)]
  BY <1>2, <1>3
<1>5. PartOK(w, q)
  BY <1>2, <1>3, <1>4 DEF PartOK
<1> QED BY <1>2, <1>3, <1>4, <1>5

LEMMA Starting ==
  ASSUME MaxMsg \in Nat, NEW b, NEW last, BoxesOK(b, last), NEW w, WalkOK(b, w), w.state = "busy",
         Honest(w) => Border(b, w), NEW p, DOMAIN p = Paging!Range(w.scope),
         \A f \in DOMAIN p : Begun(w, p[f])
  PROVE  PartsOK(w, p) /\ Progress(b, w, p)
<1>1. Paging!Budget(w) \in Nat
  BY Budgets
<1>2. \A f \in DOMAIN p :
        /\ PartOK(w, p[f]) /\ p[f].items = << >> /\ p[f].total = -1 /\ p[f].phase # "failed"
        /\ (p[f].phase # "done" \/ ~(0 < Paging!Budget(w)))
  BY <1>1, FreshPart
<1>3. PartsOK(w, p)
  BY <1>2 DEF PartsOK
<1>4. /\ w.offset \in Nat /\ w.slack \in Nat /\ Absent(w) \in SUBSET Nat /\ Absent(w) \in SUBSET Post(b, w)
      /\ IsFiniteSet(Post(b, w)) /\ Post(b, w) \in SUBSET Nat
  BY WalkFields, Boxed
<1>5. ASSUME Honest(w), ~Several(w) PROVE AloneBusy(b, w, p)
  <2>1. PICK f : f = w.scope[1] /\ f \in DOMAIN p /\ Post(b, w) = b[f]
    BY <1>5, Alone
  <2>2. Cardinality(Behind(b[f], Absent(w), w.offset)) <= w.slack
    BY <1>5, <2>1 DEF Border
  <2>3. p[f].total \in Nat => p[f].total = Cardinality(b[f])
    BY <1>2, <2>1
  <2>4. AloneOK(b[f], Absent(w), w.offset, w.slack, p[f], Paging!Budget(w))
    BY <1>2, <1>4, <2>1, <2>2, <2>3, AloneStarts
  <2> QED BY <2>1, <2>4 DEF AloneBusy
<1>6. ASSUME Honest(w), Several(w) PROVE SeveralBusy(b, w, p)
  <2>1. PICK s : s = (w.mode = "thread") /\ s \in BOOLEAN
    OBVIOUS
  <2>2. Setting(w.mode = "thread", DOMAIN p, ListOf(p), b, Longest(w), Cap(w), Post(b, w), Absent(w), w.offset)
    BY <1>3, <1>6, SettingOf
  <2>3. \A f \in DOMAIN p : ListOf(p)[f] = << >> /\ Len(ListOf(p)[f]) = 0 /\ f \in OpenOf(w, p)
    <3> SUFFICES ASSUME NEW f \in DOMAIN p
                 PROVE  ListOf(p)[f] = << >> /\ Len(ListOf(p)[f]) = 0 /\ f \in OpenOf(w, p)
      OBVIOUS
    <3>1. ListOf(p)[f] = p[f].items
      BY DEF ListOf
    <3>2. p[f].items = << >> /\ Len(p[f].items) = 0
      BY <1>2
    <3> QED BY <1>2, <3>1, <3>2 DEF OpenOf
  <2>4. Nothing(DOMAIN p, ListOf(p), OpenOf(w, p), b, Post(b, w))
    <3>1. \A f, g \in DOMAIN p : f # g => b[f] \cap b[g] = {}
      BY Scope DEF BoxesOK
    <3>2. /\ \A f \in DOMAIN p : b[f] \subseteq Post(b, w)
          /\ \A x \in Post(b, w) : \E f \in DOMAIN p : x \in b[f]
      BY Boxed
    <3> QED BY <2>3, <3>1, <3>2 DEF Nothing
  <2>5. last \in Nat /\ \A x \in Post(b, w) : x <= last
    BY Boxed
  <2>6. Cardinality(Behind(Post(b, w), Absent(w), w.offset)) <= w.slack
    BY <1>6 DEF Border
  <2>7. Multi(s, DOMAIN p, ListOf(p), OpenOf(w, p), b, Longest(w), Cap(w),
              Post(b, w), Absent(w), w.slack, w.offset)
    BY <1>4, <2>1, <2>2, <2>4, <2>5, <2>6, MultiStarts
  <2> QED BY <2>1, <2>7 DEF SeveralBusy
<1> QED BY <1>3, <1>5, <1>6 DEF Progress

LEMMA Mode == ASSUME NEW w, NEW v, v.mode = w.mode, v.scope = w.scope, v.limit = w.limit, v.offset = w.offset
              PROVE  /\ Paging!Budget(v) = Paging!Budget(w)
                     /\ \A q : Begun(w, q) => Begun(v, q)
                     /\ \A b : Post(b, v) = Post(b, w)
<1>1. Paging!Budget(v) = Paging!Budget(w)
  BY DEF Paging!Budget
<1> QED BY <1>1 DEF Begun, Post

LEMMA AskStep == ASSUME Paging!ConstantsOK, PagingInv, Paging!Ask PROVE PagingInv'
<1>1. /\ walk.state = "ask" /\ walk' = [walk EXCEPT !.state = "busy"]
      /\ parts' = [f \in Paging!Range(walk.scope) |-> Paging!Settled(walk, Paging!NewPart(walk))]
      /\ matches' = matches /\ newest' = newest
  BY DEF Paging!Ask
<1>2. WalkOK(matches, walk) /\ BoxesOK(matches, newest) /\ Progress(matches, walk, parts) /\ MaxMsg \in Nat
  BY DEF PagingInv, Paging!ConstantsOK
<1>3. PICK v : v = walk'
  OBVIOUS
<1>4. PICK w : w = walk /\ w \in WalkRecord
  BY <1>2 DEF WalkOK
<1>5. v = [w EXCEPT !.state = "busy"]
  BY <1>1, <1>3, <1>4
<1>6. /\ v \in WalkRecord /\ v.state = "busy" /\ v.mode = w.mode /\ v.scope = w.scope /\ v.limit = w.limit
      /\ v.offset = w.offset /\ v.seen = w.seen /\ v.sure = w.sure /\ v.slack = w.slack /\ v.stayed = w.stayed
  BY <1>4, <1>5 DEF WalkRecord
<1>7. WalkOK(matches, v)
  BY <1>1, <1>2, <1>4, <1>6, Mode DEF WalkOK
<1>8. Honest(v) => Border(matches, v)
  <2>1. Honest(v) => Honest(w)
    BY <1>6 DEF Honest
  <2>2. Honest(w) => Border(matches, w)
    BY <1>1, <1>2, <1>4 DEF Progress
  <2>3. Absent(v) = Absent(w) /\ Post(matches, v) = Post(matches, w)
    BY <1>6 DEF Absent, Post
  <2> QED BY <1>6, <2>1, <2>2, <2>3 DEF Border
<1>9. PICK p : p = parts'
  OBVIOUS
<1>10. DOMAIN p = Paging!Range(v.scope) /\ \A f \in DOMAIN p : Begun(v, p[f])
  <2>1. Begun(w, Paging!Settled(w, Paging!NewPart(w)))
    BY <1>1, <1>2, <1>4, NewParts
  <2> QED BY <1>1, <1>4, <1>6, <1>9, <2>1, Mode
<1>11. PartsOK(v, p) /\ Progress(matches, v, p)
  BY <1>2, <1>6, <1>7, <1>8, <1>10, Starting
<1>12. Ended(v)
  BY <1>6 DEF Ended
<1> QED BY <1>1, <1>2, <1>3, <1>7, <1>9, <1>11, <1>12 DEF PagingInv

(* One folder's part changes: the others and the walk stay.                 *)
LEMMA OnePart ==
  ASSUME Paging!ConstantsOK, PagingInv, walk.state = "busy", matches' = matches, newest' = newest, walk' = walk,
         NEW f \in DOMAIN parts, NEW r, PartOK(walk, r), parts' = [parts EXCEPT ![f] = r],
         ASSUME PartsOK(walk, parts'), Honest(walk), Border(matches, walk)
         PROVE  IF Several(walk) THEN SeveralBusy(matches, walk, parts') ELSE AloneBusy(matches, walk, parts')
  PROVE  PagingInv'
<1>1. /\ WalkOK(matches, walk) /\ BoxesOK(matches, newest) /\ PartsOK(walk, parts)
      /\ Progress(matches, walk, parts) /\ Ended(walk)
  BY DEF PagingInv
<1>2. DOMAIN parts = Paging!Range(walk.scope) /\ \A g \in DOMAIN parts : PartOK(walk, parts[g])
  BY <1>1 DEF PartsOK
<1>3. PICK p : p = parts'
  OBVIOUS
<1>4. DOMAIN p = Paging!Range(walk.scope) /\ \A g \in DOMAIN p : PartOK(walk, p[g])
  BY <1>2, <1>3
<1>5. PartsOK(walk, p)
  BY <1>4 DEF PartsOK
<1>6. Honest(walk) => Border(matches, walk)
  BY <1>1 DEF Progress
<1>7. Progress(matches, walk, p)
  BY <1>3, <1>5, <1>6 DEF Progress
<1> QED BY <1>1, <1>3, <1>5, <1>7 DEF PagingInv

LEMMA BusyParts ==
  ASSUME MaxMsg \in Nat, NEW w, NEW b, WalkOK(b, w), w.state = "busy", NEW p, PartsOK(w, p), NEW f \in DOMAIN p
  PROVE  /\ DOMAIN p = Paging!Range(w.scope) /\ f \in Paging!Folders
         /\ p[f] \in [phase : {"count", "slice", "done", "failed"}, total : Nat \cup {-1}, items : Seq(Nat)]
         /\ PartOK(w, p[f]) /\ Paging!Budget(w) \in Nat
         /\ Len(p[f].items) \in Nat /\ Len(p[f].items) <= Paging!Budget(w)
         /\ Honest(w) /\ ~Several(w) => f = w.scope[1] /\ Post(b, w) = b[f]
<1>1. DOMAIN p = Paging!Range(w.scope) /\ PartOK(w, p[f])
  BY DEF PartsOK
<1>2. f \in Paging!Folders
  BY <1>1, Scope
<1>3. Paging!Budget(w) \in Nat
  BY Budgets
<1>4. p[f] \in [phase : {"count", "slice", "done", "failed"}, total : Nat \cup {-1}, items : Seq(Nat)]
  BY <1>1 DEF PartOK
<1>5. p[f].items \in Seq(Nat)
  BY <1>4
<1>6. Len(p[f].items) <= Paging!Budget(w)
  BY <1>1 DEF PartOK
<1>7. Honest(w) /\ ~Several(w) => f = w.scope[1] /\ Post(b, w) = b[f]
  BY <1>1, Alone
<1> QED BY <1>1, <1>2, <1>3, <1>4, <1>5, <1>6, <1>7

(* A loop that has nothing left to ask for is done.                         *)
LEMMA Settles ==
  ASSUME NEW w, Paging!Budget(w) \in Nat, NEW q, q.phase \in {"slice", "done"},
         q \in [phase : {"count", "slice", "done", "failed"}, total : Nat \cup {-1}, items : Seq(Nat)]
  PROVE  LET r == Paging!Settled(w, q) IN
         /\ r \in [phase : {"count", "slice", "done", "failed"}, total : Nat \cup {-1}, items : Seq(Nat)]
         /\ r.phase \in {"slice", "done"} /\ r.total = q.total /\ r.items = q.items
         /\ r.phase = "done" /\ Len(r.items) < Paging!Budget(w) => q.phase = "done"
<1>1. PICK n \in Nat : n = Paging!Budget(w)
  OBVIOUS
<1>2. Len(q.items) \in Nat
  OBVIOUS
<1>3. CASE q.phase = "slice" /\ Len(q.items) >= n
  <2>1. Paging!Settled(w, q) = [q EXCEPT !.phase = "done"]
    BY <1>1, <1>3 DEF Paging!Settled
  <2>2. PICK r : r = [q EXCEPT !.phase = "done"]
    OBVIOUS
  <2>3. r.items = q.items /\ r.total = q.total /\ r.phase = "done"
        /\ r \in [phase : {"count", "slice", "done", "failed"}, total : Nat \cup {-1}, items : Seq(Nat)]
    BY <2>2
  <2>4. ~(Len(r.items) < n)
    BY <1>2, <1>3, <2>3
  <2> QED BY <1>1, <2>1, <2>2, <2>3, <2>4
<1>4. CASE ~(q.phase = "slice" /\ Len(q.items) >= n)
  <2>1. Paging!Settled(w, q) = q
    BY <1>1, <1>4 DEF Paging!Settled
  <2>2. q.phase = "slice" => Len(q.items) < n
    BY <1>2, <1>4
  <2> QED BY <1>1, <2>1, <2>2
<1> QED BY <1>3, <1>4

LEMMA SameSets ==
  \A S : /\ Paging!Cardinality(S) = Cardinality(S)
         /\ \A R : Paging!Ranked(S, R) = Ranked(S, R)
<1>1. \A S : Paging!Cardinality(S) = Cardinality(S)
  BY DEF Paging!Cardinality, Cardinality
<1>2. \A S, R : Paging!Ranked(S, R) = Ranked(S, R)
  BY DEF Paging!Ranked, Ranked, Paging!Ahead, Ahead, Paging!Cardinality, Cardinality
<1> QED BY <1>1, <1>2

LEMMA CountStep ==
  ASSUME Paging!ConstantsOK, PagingInv, NEW f \in DOMAIN parts, Paging!CountMatches(f) PROVE PagingInv'
<1>1. PICK clear \in BOOLEAN :
        parts' = [parts EXCEPT ![f] =
            Paging!Settled(walk, [parts[f] EXCEPT !.phase = "slice",
                                                  !.total = IF clear THEN Cardinality(matches[f]) ELSE Paging!None])]
  BY SameSets DEF Paging!CountMatches
<1>2. /\ walk.state = "busy" /\ parts[f].phase = "count"
      /\ matches' = matches /\ newest' = newest /\ walk' = walk
  BY DEF Paging!CountMatches, Paging!Turn
<1>3. WalkOK(matches, walk) /\ BoxesOK(matches, newest) /\ PartsOK(walk, parts) /\ MaxMsg \in Nat
  BY DEF PagingInv, Paging!ConstantsOK
<1>4. PICK p : p = parts[f]
  OBVIOUS
<1>5. /\ f \in Paging!Folders /\ Paging!Budget(walk) \in Nat /\ PartOK(walk, p)
      /\ p \in [phase : {"count", "slice", "done", "failed"}, total : Nat \cup {-1}, items : Seq(Nat)]
  BY <1>2, <1>3, <1>4, BusyParts
<1>6. PICK total : /\ total \in Nat \cup {-1}
                   /\ total \in Nat => total = Cardinality(matches[f])
                   /\ total = IF clear THEN Cardinality(matches[f]) ELSE Paging!None
  <2>1. Cardinality(matches[f]) \in Nat
    BY <1>3, <1>5, Boxed
  <2> QED BY <2>1 DEF Paging!None
<1>7. PICK q : q = [p EXCEPT !.phase = "slice", !.total = total]
  OBVIOUS
<1>8. /\ q \in [phase : {"count", "slice", "done", "failed"}, total : Nat \cup {-1}, items : Seq(Nat)]
      /\ q.phase = "slice" /\ q.total = total /\ q.items = p.items
  <2>1. p = [phase |-> p.phase, total |-> p.total, items |-> p.items] /\ p.items \in Seq(Nat)
    BY <1>5
  <2>2. q = [phase |-> "slice", total |-> total, items |-> p.items]
    BY <1>7, <2>1
  <2>3. "slice" \in {"count", "slice", "done", "failed"} /\ total \in Nat \cup {-1} /\ p.items \in Seq(Nat)
    BY <1>6, <2>1
  <2> QED BY <2>2, <2>3
<1>9. p.items = << >> /\ Paging!CountsFirst(walk.mode) /\ Len(p.items) <= Paging!Budget(walk)
  BY <1>2, <1>4, <1>5 DEF PartOK
<1>10. PICK r : r = Paging!Settled(walk, q)
  OBVIOUS
<1>11. /\ r \in [phase : {"count", "slice", "done", "failed"}, total : Nat \cup {-1}, items : Seq(Nat)]
       /\ r.phase \in {"slice", "done"} /\ r.total = q.total /\ r.items = q.items
       /\ r.phase = "done" /\ Len(r.items) < Paging!Budget(walk) => q.phase = "done"
  BY <1>5, <1>8, <1>10, Settles
<1>12. PartOK(walk, r)
  BY <1>8, <1>9, <1>11 DEF PartOK
<1>13. parts' = [parts EXCEPT ![f] = r]
  BY <1>1, <1>4, <1>6, <1>7, <1>10
<1>14. ~Several(walk)
  BY <1>9 DEF Several, Paging!CountsFirst, Paging!V4
<1>15. ASSUME Honest(walk), Border(matches, walk) PROVE AloneBusy(matches, walk, parts')
  <2>1. f = walk.scope[1] /\ Post(matches, walk) = matches[f]
    BY <1>2, <1>3, <1>14, <1>15, BusyParts
  <2>2. /\ walk.offset \in Nat /\ walk.slack \in Nat /\ Absent(walk) \in SUBSET matches[f] /\ IsFiniteSet(matches[f])
    BY <1>2, <1>3, <1>5, <2>1, WalkFields, Boxed
  <2>3. Cardinality(Behind(matches[f], Absent(walk), walk.offset)) <= walk.slack
    BY <1>15, <2>1 DEF Border
  <2>4. r.items = << >> /\ (r.total \in Nat => r.total = Cardinality(matches[f]))
    BY <1>6, <1>8, <1>9, <1>11
  <2>5. r.phase # "done" \/ ~(0 < Paging!Budget(walk))
    <3>1. Len(r.items) = 0
      BY <2>4
    <3> QED BY <1>8, <1>11, <3>1
  <2>6. AloneOK(matches[f], Absent(walk), walk.offset, walk.slack, r, Paging!Budget(walk))
    BY <2>2, <2>3, <2>4, <2>5, AloneStarts
  <2>7. parts'[f] = r
    BY <1>13
  <2> QED BY <2>1, <2>6, <2>7 DEF AloneBusy
<1> QED BY <1>2, <1>12, <1>13, <1>14, <1>15, OnePart
LEMMA SliceStep ==
  ASSUME Paging!ConstantsOK, PagingInv, NEW f \in DOMAIN parts, Paging!Slice(f) PROVE PagingInv'
<1>1. /\ walk.state = "busy" /\ parts[f].phase = "slice"
      /\ matches' = matches /\ newest' = newest /\ walk' = walk
  BY DEF Paging!Slice, Paging!Turn
<1>2. WalkOK(matches, walk) /\ BoxesOK(matches, newest) /\ PartsOK(walk, parts) /\ MaxMsg \in Nat /\ Chunk \in Nat
  BY DEF PagingInv, Paging!ConstantsOK
<1>3. PICK p : p = parts[f]
  OBVIOUS
<1>4. PICK S : S = matches[f]
  OBVIOUS
<1>5. /\ f \in Paging!Folders /\ Paging!Budget(walk) \in Nat /\ PartOK(walk, p)
      /\ p \in [phase : {"count", "slice", "done", "failed"}, total : Nat \cup {-1}, items : Seq(Nat)]
      /\ Len(p.items) <= Paging!Budget(walk) /\ DOMAIN parts = Paging!Range(walk.scope)
  BY <1>1, <1>2, <1>3, BusyParts
<1>6. S \in SUBSET Nat /\ IsFiniteSet(S)
  BY <1>2, <1>4, <1>5, Boxed
<1>7. /\ walk.offset \in Nat /\ walk.slack \in Nat /\ walk.limit \in Nat /\ Absent(walk) \in SUBSET Post(matches, walk)
  BY <1>1, <1>2, WalkFields
<1>8. PICK n \in Nat : n = Len(p.items)
  BY <1>5
<1>9. PICK want \in Nat : /\ want = Paging!Least(Paging!ChunkOf(walk), Paging!Budget(walk) - n)
                          /\ want <= Paging!Budget(walk) - n
  <2>1. Paging!ChunkOf(walk) \in Nat
    BY <1>2, <1>7 DEF Paging!ChunkOf
  <2>2. Paging!Budget(walk) - n \in Nat
    BY <1>5, <1>8
  <2>3. PICK k \in Nat, l \in Nat : k = Paging!ChunkOf(walk) /\ l = Paging!Budget(walk) - n
    BY <2>1, <2>2
  <2>4. Paging!Least(k, l) = IF k < l THEN k ELSE l
    BY DEF Paging!Least
  <2>5. Paging!Least(k, l) \in Nat /\ Paging!Least(k, l) <= l
    BY <2>3, <2>4
  <2> QED BY <2>3, <2>5
<1>10. PICK origin \in Nat : origin = Paging!From(walk) + n
  <2>1. Paging!From(walk) \in Nat
    BY <1>7 DEF Paging!From
  <2> QED BY <2>1
<1>11. PICK batch : batch = Batch(S, origin, want)
  OBVIOUS
<1>12. /\ batch \in Seq(Nat) /\ Len(batch) \in Nat /\ Len(batch) <= want
  <2>1. batch \in Seq(S) /\ Len(batch) <= want
    BY <1>6, <1>11, Batches
  <2>2. batch \in Seq(Nat)
    BY <1>6, <2>1, Wider
  <2> QED BY <2>1, <2>2
<1>13. PICK taken : taken = p.items \o batch
  OBVIOUS
<1>14. taken \in Seq(Nat) /\ Len(taken) = n + Len(batch)
  <2>1. p.items \in Seq(Nat)
    BY <1>5
  <2> QED BY <1>8, <1>12, <1>13, <2>1, Joins
<1>15. PICK phase : phase = IF Len(batch) < want THEN "done" ELSE "slice"
  OBVIOUS
<1>16. PICK q : q = [phase |-> phase, total |-> p.total, items |-> taken]
  OBVIOUS
<1>17. PICK r : r = Paging!Settled(walk, q)
  OBVIOUS
<1>18. parts' = [parts EXCEPT ![f] = r]
  <2>1. batch = SubSeq(Paging!Listing(S), origin + 1, Paging!Least(origin + want, Cardinality(S)))
    BY <1>11 DEF Batch, Paging!Least
  <2>2. q = [p EXCEPT !.items = p.items \o batch,
                      !.phase = IF Len(batch) < want THEN "done" ELSE p.phase]
    <3>1. p = [phase |-> "slice", total |-> p.total, items |-> p.items]
      BY <1>1, <1>3, <1>5
    <3>2. phase = IF Len(batch) < want THEN "done" ELSE p.phase
      BY <1>1, <1>3, <1>15
    <3>3. q = [p EXCEPT !.items = taken, !.phase = phase]
      <4>1. PICK was, has, total : was = p.phase /\ has = p.items /\ total = p.total
        OBVIOUS
      <4>2. p = [phase |-> was, total |-> total, items |-> has]
        BY <1>5, <4>1
      <4>3. q = [phase |-> phase, total |-> total, items |-> taken]
        BY <1>16, <4>1
      <4>4. PICK q1 : q1 = [p EXCEPT !.items = taken]
        OBVIOUS
      <4>5. q1 = [phase |-> was, total |-> total, items |-> taken]
        BY <4>2, <4>4
      <4>6. [p EXCEPT !.items = taken, !.phase = phase] = [q1 EXCEPT !.phase = phase]
        BY <4>4
      <4>7. [q1 EXCEPT !.phase = phase] = q
        BY <4>3, <4>5
      <4> QED BY <4>6, <4>7
    <3> QED BY <1>13, <3>2, <3>3
  <2>3. LET p1 == parts[f]
            cursor1 == Paging!From(walk) + Len(p1.items)
            want1   == Paging!Least(Paging!ChunkOf(walk), Paging!Budget(walk) - Len(p1.items))
            batch1  == SubSeq(Paging!Listing(matches[f]), cursor1 + 1, Paging!Least(cursor1 + want1, Cardinality(matches[f])))
            q1      == [p1 EXCEPT !.items = p1.items \o batch1,
                                  !.phase = IF Len(batch1) < want1 THEN "done" ELSE p1.phase]
        IN parts' = [parts EXCEPT ![f] = Paging!Settled(walk, q1)]
    BY SameSets DEF Paging!Slice
  <2> QED BY <1>3, <1>4, <1>8, <1>9, <1>10, <1>17, <2>1, <2>2, <2>3
<1>19. /\ q \in [phase : {"count", "slice", "done", "failed"}, total : Nat \cup {-1}, items : Seq(Nat)]
       /\ q.phase \in {"slice", "done"} /\ q.total = p.total /\ q.items = taken
       /\ q.phase = "done" => Len(batch) < want
  BY <1>5, <1>14, <1>15, <1>16
<1>20. /\ r \in [phase : {"count", "slice", "done", "failed"}, total : Nat \cup {-1}, items : Seq(Nat)]
       /\ r.phase \in {"slice", "done"} /\ r.total = p.total /\ r.items = taken
       /\ r.phase = "done" /\ Len(r.items) < Paging!Budget(walk) => Len(batch) < want
  <2>1. /\ r \in [phase : {"count", "slice", "done", "failed"}, total : Nat \cup {-1}, items : Seq(Nat)]
        /\ r.phase \in {"slice", "done"} /\ r.total = q.total /\ r.items = q.items
        /\ r.phase = "done" /\ Len(r.items) < Paging!Budget(walk) => q.phase = "done"
    BY <1>5, <1>17, <1>19, Settles
  <2> QED BY <1>19, <2>1
<1>21. Len(taken) <= Paging!Budget(walk)
  BY <1>5, <1>8, <1>9, <1>12, <1>14
<1>22. PartOK(walk, r)
  <2>1. p.total \in Nat => Paging!CountsFirst(walk.mode)
    BY <1>5 DEF PartOK
  <2> QED BY <1>20, <1>21, <2>1 DEF PartOK
<1>23. ASSUME Honest(walk), ~Several(walk) PROVE AloneBusy(matches, walk, parts')
  <2>1. f = walk.scope[1] /\ Post(matches, walk) = matches[f]
    BY <1>1, <1>2, <1>23, BusyParts
  <2>2. AloneOK(S, Absent(walk), walk.offset, walk.slack, p, Paging!Budget(walk))
    BY <1>1, <1>3, <1>4, <1>23, <2>1 DEF PagingInv, Progress, AloneBusy
  <2>3. origin = walk.offset + n
    BY <1>10, <1>23 DEF Several, Paging!From
  <2>4. Joined(r.items, p.items, Batch(S, walk.offset + Len(p.items), want))
    BY <1>8, <1>11, <1>13, <1>20, <2>3 DEF Joined
  <2>5. r.phase = "done" /\ Len(r.items) < Paging!Budget(walk)
          => Len(Batch(S, walk.offset + Len(p.items), want)) < want
    BY <1>8, <1>11, <1>20, <2>3
  <2>6. p.items \in Seq(Nat) /\ Absent(walk) \in SUBSET S
    BY <1>4, <1>5, <1>7, <2>1
  <2>7. AloneOK(S, Absent(walk), walk.offset, walk.slack, r, Paging!Budget(walk))
    BY <1>5, <1>6, <1>7, <1>9, <1>20, <2>2, <2>4, <2>5, <2>6, AloneSlice
  <2>8. parts'[f] = r
    BY <1>18
  <2> QED BY <1>4, <2>1, <2>7, <2>8 DEF AloneBusy
<1>24. ASSUME Honest(walk), Several(walk), PartsOK(walk, parts') PROVE SeveralBusy(matches, walk, parts')
  <2>1. PICK new : new = parts'
    OBVIOUS
  <2>2. DOMAIN new = DOMAIN parts /\ new[f] = r /\ \A g \in DOMAIN parts : g # f => new[g] = parts[g]
    BY <1>18, <2>1
  <2>3. CASE \E g \in DOMAIN parts : parts[g].phase = "failed"
    BY <1>1, <2>1, <2>2, <2>3 DEF SeveralBusy
  <2>4. CASE ~ \E g \in DOMAIN parts : parts[g].phase = "failed"
    <3>1. Multi(walk.mode = "thread", DOMAIN parts, ListOf(parts), OpenOf(walk, parts), matches, Longest(walk), Cap(walk),
                Post(matches, walk), Absent(walk), walk.slack, walk.offset)
      BY <1>1, <1>24, <2>4 DEF PagingInv, Progress, SeveralBusy
    <3>2. Setting(walk.mode = "thread", DOMAIN parts, ListOf(parts), matches, Longest(walk), Cap(walk),
                  Post(matches, walk), Absent(walk), walk.offset)
      BY <1>1, <1>2, <1>24, SettingOf
    <3>3. origin = n
      BY <1>10, <1>24 DEF Several, Paging!From
    <3>4. Reads(DOMAIN parts, ListOf(parts), OpenOf(walk, parts), matches, f, want, ListOf(new), OpenOf(walk, new))
      <4>1. f \in OpenOf(walk, parts)
        BY <1>1 DEF OpenOf
      <4>2. ListOf(new)[f] = taken /\ ListOf(parts)[f] = p.items
        BY <1>3, <1>20, <2>2 DEF ListOf
      <4>3. Joined(ListOf(new)[f], ListOf(parts)[f], Batch(matches[f], Len(ListOf(parts)[f]), want))
        BY <1>4, <1>8, <1>11, <1>13, <3>3, <4>2 DEF Joined
      <4>4. f \in OpenOf(walk, new) \/ Len(batch) < want
        BY <1>20, <2>2 DEF OpenOf
      <4>5. \A g \in DOMAIN parts : g # f =>
              /\ ListOf(new)[g] = ListOf(parts)[g]
              /\ g \in OpenOf(walk, new) <=> g \in OpenOf(walk, parts)
        BY <2>2 DEF ListOf, OpenOf
      <4>6. f \in OpenOf(walk, new) \/ Len(Batch(matches[f], Len(ListOf(parts)[f]), want)) < want
        BY <1>4, <1>8, <1>11, <3>3, <4>2, <4>4
      <4> QED BY <4>1, <4>3, <4>5, <4>6 DEF Reads
    <3>5. PICK s : s = (walk.mode = "thread") /\ s \in BOOLEAN
      OBVIOUS
    <3>6. Multi(s, DOMAIN parts, ListOf(new), OpenOf(walk, new), matches, Longest(walk), Cap(walk),
                Post(matches, walk), Absent(walk), walk.slack, walk.offset)
      BY <3>1, <3>2, <3>4, <3>5, MultiSlice
    <3> QED BY <2>1, <2>2, <3>5, <3>6 DEF SeveralBusy
  <2> QED BY <2>3, <2>4
<1> QED BY <1>1, <1>18, <1>22, <1>23, <1>24, OnePart

(* A request that failed altogether is asked again.                          *)
LEMMA AsksAgain ==
  ASSUME Paging!ConstantsOK, PagingInv, walk.state = "busy", matches' = matches, newest' = newest,
         parts' = << >>, walk' = [walk EXCEPT !.state = "ask"]
  PROVE  PagingInv'
<1>1. WalkOK(matches, walk) /\ BoxesOK(matches, newest)
  BY DEF PagingInv
<1>2. PICK w : w = walk /\ w \in WalkRecord
  BY <1>1 DEF WalkOK
<1>3. PICK v : v = walk' /\ v = [w EXCEPT !.state = "ask"]
  BY <1>2
<1>4. /\ v \in WalkRecord /\ v.state = "ask" /\ v.mode = w.mode /\ v.scope = w.scope /\ v.limit = w.limit
      /\ v.offset = w.offset /\ v.seen = w.seen /\ v.sure = w.sure /\ v.slack = w.slack /\ v.stayed = w.stayed
  BY <1>2, <1>3 DEF WalkRecord
<1>5. Post(matches, v) = Post(matches, w) /\ Absent(v) = Absent(w)
  BY <1>4 DEF Post, Absent
<1>6. WalkOK(matches, v)
  BY <1>1, <1>2, <1>4, <1>5 DEF WalkOK
<1>7. Honest(v) => Border(matches, v)
  <2>1. Honest(v) => Honest(w)
    BY <1>4 DEF Honest
  <2>2. Honest(w) => Border(matches, w)
    BY <1>2 DEF PagingInv, Progress
  <2> QED BY <1>4, <1>5, <2>1, <2>2 DEF Border
<1>8. PartsOK(v, << >>)
  BY <1>4 DEF PartsOK
<1>9. Progress(matches, v, << >>)
  BY <1>4, <1>7 DEF Progress
<1>10. Ended(v)
  BY <1>4 DEF Ended
<1> QED BY <1>1, <1>3, <1>6, <1>8, <1>9, <1>10 DEF PagingInv

LEMMA FailStep ==
  ASSUME Paging!ConstantsOK, PagingInv, NEW f \in DOMAIN parts, Paging!SliceFails(f) PROVE PagingInv'
<1>1. /\ walk.state = "busy" /\ parts[f].phase = "slice"
      /\ matches' = matches /\ newest' = newest
  BY DEF Paging!SliceFails, Paging!Turn
<1>2. WalkOK(matches, walk) /\ BoxesOK(matches, newest) /\ PartsOK(walk, parts) /\ MaxMsg \in Nat
  BY DEF PagingInv, Paging!ConstantsOK
<1>3. PICK p : p = parts[f]
  OBVIOUS
<1>4. /\ Paging!Budget(walk) \in Nat /\ PartOK(walk, p) /\ DOMAIN parts = Paging!Range(walk.scope)
      /\ p \in [phase : {"count", "slice", "done", "failed"}, total : Nat \cup {-1}, items : Seq(Nat)]
  BY <1>1, <1>2, <1>3, BusyParts
<1>5. walk.mode \in Modes
  BY <1>2, WalkFields
<1>6. CASE walk.mode \in Paging!V4
  <2>1. parts' = [parts EXCEPT ![f].phase = "failed"] /\ walk' = walk
    BY <1>6 DEF Paging!SliceFails, Paging!V4
  <2>2. PICK r : r = [p EXCEPT !.phase = "failed"]
    OBVIOUS
  <2>3. parts' = [parts EXCEPT ![f] = r]
    BY <1>3, <2>1, <2>2
  <2>4. /\ r \in [phase : {"count", "slice", "done", "failed"}, total : Nat \cup {-1}, items : Seq(Nat)]
        /\ r.phase = "failed" /\ r.total = p.total /\ r.items = p.items
    BY <1>4, <2>2
  <2>5. PartOK(walk, r)
    BY <1>4, <1>6, <2>4 DEF PartOK
  <2>6. ~Several(walk)
    BY <1>6 DEF Several, Paging!V4
  <2>7. ASSUME Honest(walk) PROVE AloneBusy(matches, walk, parts')
    <3>1. f = walk.scope[1]
      BY <1>1, <1>2, <2>6, <2>7, BusyParts
    <3>2. AloneOK(matches[f], Absent(walk), walk.offset, walk.slack, p, Paging!Budget(walk))
      BY <1>1, <1>3, <2>6, <2>7, <3>1 DEF PagingInv, Progress, AloneBusy
    <3>3. AloneOK(matches[f], Absent(walk), walk.offset, walk.slack, r, Paging!Budget(walk))
      BY <2>4, <3>2 DEF AloneOK
    <3>4. parts'[f] = r
      BY <2>3
    <3> QED BY <3>1, <3>3, <3>4 DEF AloneBusy
  <2> QED BY <1>1, <2>1, <2>3, <2>5, <2>6, <2>7, OnePart
<1>7. CASE walk.mode = "all"
  <2>1. parts' = [parts EXCEPT ![f] = [@ EXCEPT !.phase = "failed", !.items = <<>>]] /\ walk' = walk
    BY <1>7 DEF Paging!SliceFails, Paging!V4
  <2>2. PICK none : none = << >> /\ none \in Seq(Nat) /\ Len(none) = 0
    <3>1. << >> \in Seq(Nat) /\ Len(<< >>) = 0
      OBVIOUS
    <3> QED BY <3>1
  <2>3. PICK r : r = [p EXCEPT !.phase = "failed", !.items = none]
    OBVIOUS
  <2>4. parts' = [parts EXCEPT ![f] = r]
    BY <1>3, <2>1, <2>2, <2>3
  <2>5. /\ r \in [phase : {"count", "slice", "done", "failed"}, total : Nat \cup {-1}, items : Seq(Nat)]
        /\ r.phase = "failed" /\ r.total = p.total /\ r.items = none
    BY <1>4, <2>2, <2>3
  <2>6. PartOK(walk, r)
    BY <1>4, <1>7, <2>2, <2>5 DEF PartOK
  <2>7. Several(walk)
    BY <1>7 DEF Several
  <2>8. SeveralBusy(matches, walk, parts')
    BY <2>4, <2>5 DEF SeveralBusy
  <2> QED BY <1>1, <2>1, <2>4, <2>6, <2>7, <2>8, OnePart
<1>8. CASE walk.mode = "cached"
  <2>1. walk' = [walk EXCEPT !.mode = "folder"] /\ parts' = [parts EXCEPT ![f] = Paging!NewPart(walk')]
    BY <1>8 DEF Paging!SliceFails, Paging!V4
  <2>2. PICK w : w = walk /\ w \in WalkRecord
    BY <1>2 DEF WalkOK
  <2>3. PICK v : v = walk' /\ v = [w EXCEPT !.mode = "folder"]
    BY <2>1, <2>2
  <2>4. "folder" \in Modes
    BY DEF Modes, Paging!V5
  <2>5. /\ v \in WalkRecord /\ v.state = w.state /\ v.mode = "folder" /\ v.scope = w.scope /\ v.limit = w.limit
        /\ v.offset = w.offset /\ v.seen = w.seen /\ v.sure = w.sure /\ v.slack = w.slack /\ v.stayed = w.stayed
    BY <2>2, <2>3, <2>4 DEF WalkRecord
  <2>6. /\ Post(matches, v) = Post(matches, w) /\ Absent(v) = Absent(w)
    BY <2>5 DEF Post, Absent
  <2>7. WalkOK(matches, v)
    BY <1>2, <1>8, <2>2, <2>5, <2>6 DEF WalkOK
  <2>8. Honest(v) => Border(matches, v)
    <3>1. Honest(v) => Honest(w)
      BY <1>8, <2>2, <2>5 DEF Honest, Paging!V4
    <3>2. Honest(w) => Border(matches, w)
      BY <1>1, <2>2 DEF PagingInv, Progress
    <3> QED BY <2>5, <2>6, <3>1, <3>2 DEF Border
  <2>9. PICK q : q = parts'
    OBVIOUS
  <2>10. DOMAIN q = Paging!Range(v.scope) /\ \A g \in DOMAIN q : Begun(v, q[g])
    <3>1. Begun(v, Paging!NewPart(v))
      BY <1>1, <1>2, <2>2, <2>5, <2>7, NewParts
    <3>2. Len(walk.scope) = 1
      BY <1>2, <1>8 DEF WalkOK
    <3>3. DOMAIN parts = {walk.scope[1]}
      BY <1>2, <1>4, <3>2, Scope
    <3>4. q[f] = Paging!NewPart(v) /\ DOMAIN q = {f} /\ DOMAIN q = DOMAIN parts
      BY <2>1, <2>3, <2>9, <3>3
    <3> QED BY <1>4, <2>2, <2>5, <3>1, <3>4
  <2>11. PartsOK(v, q) /\ Progress(matches, v, q)
    BY <1>1, <1>2, <2>2, <2>5, <2>7, <2>8, <2>10, Starting
  <2>12. Ended(v)
    BY <1>1, <2>2, <2>5 DEF Ended
  <2> QED BY <1>1, <1>2, <2>3, <2>7, <2>9, <2>11, <2>12 DEF PagingInv
<1>9. CASE walk.mode \notin Paging!V4 /\ walk.mode # "all" /\ walk.mode # "cached"
  <2>1. parts' = <<>> /\ walk' = [walk EXCEPT !.state = "ask"]
    BY <1>9 DEF Paging!SliceFails
  <2> QED BY <1>1, <2>1, AsksAgain
<1> QED BY <1>6, <1>7, <1>8, <1>9

-----------------------------------------------------------------------------
(* SearchPaging: what a page is cut from.                                   *)
Cut(s, i, j) == SubSeq(s, i + 1, j)
Fills(s, i, j, t) == \A k \in 1..Len(s) : i < k /\ k <= j => s[k] \in Paging!Range(t)

LEMMA Cuts ==
  ASSUME NEW S, NEW s \in Seq(S), NEW i \in Nat, NEW j \in Nat, j <= Len(s)
  PROVE  /\ Cut(s, i, j) \in Seq(S)
         /\ Len(Cut(s, i, j)) = IF i < j THEN j - i ELSE 0
         /\ Fills(s, i, j, Cut(s, i, j))
<1>1. PICK m \in Nat : m = i + 1 /\ m >= 1
  OBVIOUS
<1>3. CASE i < j
  <2>1. m \in 1..Len(s) /\ j \in m..Len(s)
    BY <1>1, <1>3
  <2>2. /\ SubSeq(s, m, j) \in Seq(S) /\ Len(SubSeq(s, m, j)) = j - m + 1
        /\ \A k \in 1..(j - m + 1) : SubSeq(s, m, j)[k] = s[m + k - 1]
    BY <1>1, <1>3, <2>1, SubSeqProperties
  <2>3. j - m + 1 = j - i
    BY <1>1
  <2>4. ASSUME NEW k \in 1..Len(s), i < k, k <= j
        PROVE  \E l \in 1..Len(SubSeq(s, m, j)) : SubSeq(s, m, j)[l] = s[k]
    <3>1. k - i \in 1..(j - m + 1) /\ m + (k - i) - 1 = k
      BY <1>1, <2>4
    <3> QED BY <2>2, <3>1
  <2>5. Cut(s, i, j) = SubSeq(s, m, j)
    BY <1>1 DEF Cut
  <2>6. DOMAIN SubSeq(s, m, j) = 1..Len(SubSeq(s, m, j))
    BY <2>2
  <2> QED BY <1>3, <2>2, <2>3, <2>4, <2>5, <2>6 DEF Paging!Range, Fills
<1>4. CASE ~(i < j)
  <2>1. m > j
    BY <1>1, <1>4
  <2>2. SubSeq(s, m, j) = << >>
    BY <1>1, <2>1, SubSeqEmpty
  <2>3. << >> \in Seq(S) /\ Len(<< >>) = 0
    OBVIOUS
  <2>4. Cut(s, i, j) = << >>
    BY <1>1, <2>2 DEF Cut
  <2>5. \A k \in 1..Len(s) : ~(i < k /\ k <= j)
    BY <1>4
  <2> QED BY <1>4, <2>3, <2>4, <2>5 DEF Fills
<1> QED BY <1>3, <1>4

LEMMA Fronts ==
  ASSUME NEW S, NEW s \in Seq(S), NEW n \in Nat
  PROVE  /\ Paging!Upto(s, n) \in Seq(S) /\ Len(Paging!Upto(s, n)) \in Nat
         /\ Len(Paging!Upto(s, n)) <= n /\ Len(Paging!Upto(s, n)) <= Len(s)
         /\ \A k \in 1..Len(s) : k <= n => s[k] \in Paging!Range(Paging!Upto(s, n))
<1>1. PICK m \in Nat : m = Len(s)
  OBVIOUS
<1>2. PICK j \in Nat : j = (IF n < m THEN n ELSE m) /\ j <= m /\ j <= n
  BY <1>1
<1>3. Paging!Upto(s, n) = Cut(s, 0, j)
  BY <1>1, <1>2 DEF Paging!Upto, Paging!Least, Cut
<1>4. PICK t : t = Cut(s, 0, j)
  OBVIOUS
<1>5. /\ t \in Seq(S) /\ Len(t) = IF 0 < j THEN j - 0 ELSE 0
      /\ Fills(s, 0, j, t)
  BY <1>1, <1>2, <1>4, Cuts
<1>6. Len(t) = j
  BY <1>2, <1>5
<1>7. ASSUME NEW k \in 1..m, k <= n PROVE s[k] \in Paging!Range(t)
  <2>1. 0 < k /\ k <= j
    BY <1>1, <1>2, <1>7
  <2> QED BY <1>1, <1>5, <2>1 DEF Fills
<1> QED BY <1>1, <1>2, <1>3, <1>4, <1>5, <1>6, <1>7

LEMMA Gives ==
  ASSUME Paging!ConstantsOK, PagingInv, walk.state = "busy", NEW n \in Nat
  PROVE  /\ IsFiniteSet(Paging!Given(walk, n))
         /\ \A h \in Paging!Given(walk, n) :
              /\ h = <<h[1], h[2]>> /\ h[1] \in 1..Len(walk.scope) /\ h[2] \in 1..n
              /\ h[1] \in Nat /\ h[2] \in Nat /\ walk.scope[h[1]] \in DOMAIN parts
              /\ h[2] \in 1..Len(parts[walk.scope[h[1]]].items)
              /\ Paging!Item(walk, h) \in Nat
         /\ \A i \in 1..Len(walk.scope), k \in 1..n : k <= Len(parts[walk.scope[i]].items) =>
              /\ <<i, k>> \in Paging!Given(walk, n)
              /\ Paging!Item(walk, <<i, k>>) = parts[walk.scope[i]].items[k]
<1>1. WalkOK(matches, walk) /\ PartsOK(walk, parts) /\ MaxMsg \in Nat
  BY DEF PagingInv, Paging!ConstantsOK
<1>2. PICK N \in Nat : N = Len(walk.scope)
  BY <1>1, WalkFields
<1>3. \A i \in 1..N : walk.scope[i] \in DOMAIN parts
  <2>1. walk.scope \in Seq(Paging!Folders)
    BY <1>1, WalkFields
  <2>2. DOMAIN parts = Paging!Range(walk.scope)
    BY <1>1 DEF PartsOK
  <2> QED BY <1>2, <2>1, <2>2 DEF Paging!Range
<1>4. \A f \in DOMAIN parts : parts[f].items \in Seq(Nat)
  BY <1>1 DEF PartsOK, PartOK
<1>5. Paging!Given(walk, n) = {h \in (1..N) \X (1..n) : h[2] <= Len(parts[walk.scope[h[1]]].items)}
  BY <1>2 DEF Paging!Given
<1>6. IsFiniteSet(Paging!Given(walk, n))
  <2>1. IsFiniteSet(1..N) /\ IsFiniteSet(1..n)
    BY FS_Interval
  <2>2. IsFiniteSet((1..N) \X (1..n))
    BY <2>1, FS_Product
  <2>3. Paging!Given(walk, n) \in SUBSET ((1..N) \X (1..n))
    BY <1>5
  <2> QED BY <2>2, <2>3, Subsets
<1>7. ASSUME NEW h \in Paging!Given(walk, n)
      PROVE  /\ h = <<h[1], h[2]>> /\ h[1] \in 1..N /\ h[2] \in 1..n
             /\ h[1] \in Nat /\ h[2] \in Nat /\ walk.scope[h[1]] \in DOMAIN parts
             /\ h[2] \in 1..Len(parts[walk.scope[h[1]]].items)
             /\ Paging!Item(walk, h) \in Nat
  <2>1. h = <<h[1], h[2]>> /\ h[1] \in 1..N /\ h[2] \in 1..n /\ h[2] <= Len(parts[walk.scope[h[1]]].items)
    BY <1>5
  <2>2. PICK taken : taken = parts[walk.scope[h[1]]].items /\ taken \in Seq(Nat)
    BY <1>3, <1>4, <2>1
  <2>3. h[2] \in 1..Len(taken)
    BY <2>1, <2>2
  <2>4. taken[h[2]] \in Nat
    <3>1. \A k \in 1..Len(taken) : taken[k] \in Nat
      BY <2>2
    <3> QED BY <2>3, <3>1
  <2> QED BY <1>3, <2>1, <2>2, <2>3, <2>4 DEF Paging!Item
<1>8. ASSUME NEW i \in 1..N, NEW k \in 1..n, k <= Len(parts[walk.scope[i]].items)
      PROVE  /\ <<i, k>> \in Paging!Given(walk, n)
             /\ Paging!Item(walk, <<i, k>>) = parts[walk.scope[i]].items[k]
  BY <1>5, <1>8 DEF Paging!Item
<1> QED BY <1>2, <1>6, <1>7, <1>8

(* Places(H): pairs of numbers.                                             *)
LEMMA FoldersOrder ==
  ASSUME NEW H, \A h \in H : h = <<h[1], h[2]>> /\ h[1] \in Nat /\ h[2] \in Nat
  PROVE  /\ \A x, y : <<x, y>> \in Paging!FolderByFolder(H) <=>
              x \in H /\ y \in H /\ (x[1] < y[1] \/ (x[1] = y[1] /\ x[2] < y[2]))
         /\ Orders(Paging!FolderByFolder(H), H)
<1>1. \A x, y : <<x, y>> \in Paging!FolderByFolder(H) <=>
        x \in H /\ y \in H /\ (x[1] < y[1] \/ (x[1] = y[1] /\ x[2] < y[2]))
  BY DEF Paging!FolderByFolder
<1>2. \A x \in H : <<x, x>> \notin Paging!FolderByFolder(H)
  BY <1>1
<1>3. ASSUME NEW x \in H, NEW y \in H, x # y
      PROVE  <<x, y>> \in Paging!FolderByFolder(H) \/ <<y, x>> \in Paging!FolderByFolder(H)
  <2>1. x = <<x[1], x[2]>> /\ y = <<y[1], y[2]>> /\ x[1] \in Nat /\ x[2] \in Nat /\ y[1] \in Nat /\ y[2] \in Nat
    OBVIOUS
  <2>2. x[1] # y[1] \/ x[2] # y[2]
    BY <1>3, <2>1
  <2> QED BY <1>1, <2>1, <2>2
<1>4. ASSUME NEW x \in H, NEW y \in H, NEW z \in H,
             <<x, y>> \in Paging!FolderByFolder(H), <<y, z>> \in Paging!FolderByFolder(H)
      PROVE  <<x, z>> \in Paging!FolderByFolder(H)
  <2>1. /\ x[1] < y[1] \/ (x[1] = y[1] /\ x[2] < y[2])
        /\ y[1] < z[1] \/ (y[1] = z[1] /\ y[2] < z[2])
    BY <1>1, <1>4
  <2>2. x[1] \in Nat /\ x[2] \in Nat /\ y[1] \in Nat /\ y[2] \in Nat /\ z[1] \in Nat /\ z[2] \in Nat
    OBVIOUS
  <2> QED BY <1>1, <2>1, <2>2
<1> QED BY <1>1, <1>2, <1>3, <1>4 DEF Orders

LEMMA NewestOrder ==
  ASSUME NEW w, NEW H, \A h \in H : /\ h = <<h[1], h[2]>> /\ h[1] \in Nat /\ h[2] \in Nat
                                    /\ Paging!Item(w, h) \in Nat
  PROVE  /\ \A x, y : <<x, y>> \in Paging!NewestFirst(w, H) <=>
              /\ x \in H /\ y \in H
              /\ \/ Paging!Item(w, x) > Paging!Item(w, y)
                 \/ Paging!Item(w, x) = Paging!Item(w, y) /\ <<x, y>> \in Paging!FolderByFolder(H)
         /\ Orders(Paging!NewestFirst(w, H), H)
<1>1. \A x, y : <<x, y>> \in Paging!NewestFirst(w, H) <=>
        /\ x \in H /\ y \in H
        /\ \/ Paging!Item(w, x) > Paging!Item(w, y)
           \/ Paging!Item(w, x) = Paging!Item(w, y) /\ <<x, y>> \in Paging!FolderByFolder(H)
  BY DEF Paging!NewestFirst
<1>2. PICK R : R = Paging!FolderByFolder(H) /\ Orders(R, H)
  BY FoldersOrder
<1>3. ASSUME NEW x \in H PROVE <<x, x>> \notin Paging!NewestFirst(w, H)
  <2>1. <<x, x>> \notin R
    BY <1>2 DEF Orders
  <2>2. ~(Paging!Item(w, x) > Paging!Item(w, x))
    OBVIOUS
  <2> QED BY <1>1, <1>2, <2>1, <2>2
<1>4. ASSUME NEW x \in H, NEW y \in H, x # y
      PROVE  <<x, y>> \in Paging!NewestFirst(w, H) \/ <<y, x>> \in Paging!NewestFirst(w, H)
  <2>1. <<x, y>> \in R \/ <<y, x>> \in R
    BY <1>2, <1>4 DEF Orders
  <2>2. Paging!Item(w, x) \in Nat /\ Paging!Item(w, y) \in Nat
    OBVIOUS
  <2> QED BY <1>1, <1>2, <2>1, <2>2
<1>5. ASSUME NEW x \in H, NEW y \in H, NEW z \in H,
             <<x, y>> \in Paging!NewestFirst(w, H), <<y, z>> \in Paging!NewestFirst(w, H)
      PROVE  <<x, z>> \in Paging!NewestFirst(w, H)
  <2>1. PICK a, b, c \in Nat : a = Paging!Item(w, x) /\ b = Paging!Item(w, y) /\ c = Paging!Item(w, z)
    OBVIOUS
  <2>2. /\ a > b \/ (a = b /\ <<x, y>> \in R)
        /\ b > c \/ (b = c /\ <<y, z>> \in R)
    BY <1>1, <1>2, <1>5, <2>1
  <2>3. a > c \/ (a = c /\ <<x, z>> \in R)
    BY <1>2, <2>1, <2>2 DEF Orders
  <2> QED BY <1>1, <1>2, <2>1, <2>3
<1> QED BY <1>1, <1>3, <1>4, <1>5 DEF Orders
LEMMA Lowest ==
  ASSUME NEW S \in SUBSET Nat, NEW n \in S
  PROVE  \E m \in S : \A k \in S : m <= k
<1>1. \E x \in S : \A y \in S : ~(<<y, x>> \in Smaller)
  BY SmallerIsWellFounded, WFMin
<1>2. PICK x \in S : \A y \in S : ~(<<y, x>> \in Smaller)
  BY <1>1
<1>3. ASSUME NEW y \in S PROVE x <= y
  <2>1. x \in Nat /\ y \in Nat
    OBVIOUS
  <2>2. ~(y < x)
    BY <1>2, <2>1 DEF Smaller
  <2> QED BY <2>1, <2>2
<1> QED BY <1>3

(* Every hit of H is in the list.                                           *)
HasAll(list, w, H) == \A h \in H : \E i \in 1..Cardinality(H) : list[i] = Paging!Item(w, h)

LEMMA ListedOf ==
  ASSUME NEW w, NEW H, IsFiniteSet(H), NEW order, Orders(order, H), \A h \in H : Paging!Item(w, h) \in Nat
  PROVE  /\ Paging!Listed(w, H, order) \in Seq(Nat) /\ Cardinality(H) \in Nat
         /\ Len(Paging!Listed(w, H, order)) = Cardinality(H)
         /\ \A i \in 1..Cardinality(H) : Paging!Listed(w, H, order)[i] = Paging!Item(w, Ranked(H, order)[i])
         /\ Lists(Ranked(H, order), Cardinality(H), H, order)
         /\ HasAll(Paging!Listed(w, H, order), w, H)
<1>1. PICK at, n : at = Ranked(H, order) /\ n = Cardinality(H)
  OBVIOUS
<1>2. n \in Nat /\ Lists(at, n, H, order) /\ DOMAIN at = 1..n
  BY <1>1, RankedLists
<1>3. /\ \A k \in 1..n : at[k] \in H
      /\ \A x \in H : \E k \in 1..n : at[k] = x
  BY <1>2 DEF Lists
<1>4. PICK L : L = Paging!Listed(w, H, order)
  OBVIOUS
<1>5. L = [i \in 1..n |-> Paging!Item(w, at[i])]
  BY <1>1, <1>2, <1>4, SameSets DEF Paging!Listed
<1>6. L \in [1..n -> Nat]
  BY <1>3, <1>5
<1>7. L \in Seq(Nat) /\ Len(L) = n
  BY <1>2, <1>6
<1> QED BY <1>1, <1>2, <1>3, <1>4, <1>5, <1>7 DEF HasAll

(* In a sorted list a message comes after so many as are newer.             *)
LEMMA SortedPlace ==
  ASSUME NEW w, NEW H, IsFiniteSet(H),
         \A h \in H : h = <<h[1], h[2]>> /\ h[1] \in Nat /\ h[2] \in Nat /\ Paging!Item(w, h) \in Nat,
         NEW m \in Nat, NEW x \in H, Paging!Item(w, x) = m
  PROVE  LET G == {h \in H : Paging!Item(w, h) > m}
             L == Paging!Sorted(w, H)
         IN Cardinality(G) \in Nat /\ Cardinality(G) + 1 \in 1..Len(L) /\ L[Cardinality(G) + 1] = m
<1>1. PICK R : R = Paging!NewestFirst(w, H)
  OBVIOUS
<1>2. /\ Orders(R, H)
      /\ \A y, z : <<y, z>> \in R => Paging!Item(w, y) > Paging!Item(w, z) \/ Paging!Item(w, y) = Paging!Item(w, z)
  BY <1>1, NewestOrder
<1>3. PICK at, n, L : at = Ranked(H, R) /\ n = Cardinality(H) /\ L = Paging!Sorted(w, H)
  OBVIOUS
<1>4. /\ n \in Nat /\ L \in Seq(Nat) /\ Len(L) = n /\ Lists(at, n, H, R)
      /\ \A i \in 1..n : L[i] = Paging!Item(w, at[i])
  <2>1. \A h \in H : Paging!Item(w, h) \in Nat
    OBVIOUS
  <2>2. L = Paging!Listed(w, H, R)
    BY <1>1, <1>3 DEF Paging!Sorted
  <2>3. /\ Paging!Listed(w, H, R) \in Seq(Nat) /\ Cardinality(H) \in Nat
        /\ Len(Paging!Listed(w, H, R)) = Cardinality(H)
        /\ \A i \in 1..Cardinality(H) : Paging!Listed(w, H, R)[i] = Paging!Item(w, Ranked(H, R)[i])
        /\ Lists(Ranked(H, R), Cardinality(H), H, R)
    <3>1. Orders(R, H)
      BY <1>2
    <3> QED BY <2>1, <3>1, ListedOf
  <2> QED BY <1>3, <2>2, <2>3
<1>5. /\ \A k \in 1..n : at[k] \in H
      /\ \A y \in H : \E k \in 1..n : at[k] = y
      /\ \A i, j \in 1..n : <<at[i], at[j]>> \in R <=> i < j
  BY <1>4 DEF Lists
<1>6. PICK l \in 1..n : at[l] = x
  BY <1>5
<1>7. PICK S : S = {i \in 1..n : ~(Paging!Item(w, at[i]) > m)}
  OBVIOUS
<1>8. S \in SUBSET Nat /\ l \in S
  <2>1. ~(Paging!Item(w, at[l]) > m)
    BY <1>6
  <2> QED BY <1>7, <2>1
<1>9. PICK j \in S : \A k \in S : j <= k
  BY <1>8, Lowest
<1>10. j \in 1..n /\ ~(Paging!Item(w, at[j]) > m) /\ j <= l /\ j \in Nat
  BY <1>7, <1>8, <1>9
<1>11. ASSUME NEW i \in 1..n, i < j PROVE Paging!Item(w, at[i]) > m
  <2>1. i \notin S
    BY <1>9, <1>10, <1>11
  <2> QED BY <1>7, <2>1
<1>12. ASSUME NEW i \in 1..n, j < i PROVE Paging!Item(w, at[i]) <= Paging!Item(w, at[j])
  <2>1. <<at[j], at[i]>> \in R
    BY <1>5, <1>10, <1>12
  <2>2. Paging!Item(w, at[j]) \in Nat /\ Paging!Item(w, at[i]) \in Nat
    BY <1>5, <1>10
  <2> QED BY <1>2, <2>1, <2>2
<1>13. Paging!Item(w, at[j]) = m
  <2>1. Paging!Item(w, at[j]) \in Nat
    BY <1>5, <1>10
  <2>2. CASE j = l
    BY <1>6, <2>2
  <2>3. CASE j < l
    <3>1. m <= Paging!Item(w, at[j])
      BY <1>6, <1>12, <2>3
    <3> QED BY <1>10, <2>1, <3>1
  <2> QED BY <1>10, <2>2, <2>3
<1>14. PICK G : G = {h \in H : Paging!Item(w, h) > m}
  OBVIOUS
<1>15. PICK d \in Nat : d = j - 1
  BY <1>10
<1>a. \A i \in 1..d : i \in 1..n /\ i < j
  <2> SUFFICES ASSUME NEW i \in 1..d PROVE i \in 1..n /\ i < j
    OBVIOUS
  <2> QED BY <1>4, <1>10, <1>15
<1>16. \A i \in 1..d : at[i] \in G
  BY <1>5, <1>a, <1>11, <1>14
<1>17. ASSUME NEW h \in G PROVE \E i \in 1..d : at[i] = h
  <2>1. h \in H /\ Paging!Item(w, h) > m
    BY <1>14
  <2>2. PICK i \in 1..n : at[i] = h
    BY <1>5, <2>1
  <2>3. ~(j < i) /\ i # j
    <3>1. Paging!Item(w, h) \in Nat
      BY <2>1
    <3> QED BY <1>12, <1>13, <2>1, <2>2, <3>1
  <2>4. i \in 1..d
    BY <1>10, <1>15, <2>2, <2>3
  <2> QED BY <2>2, <2>4
<1>18. Lists(at, d, G, R)
  <2>1. \A i, k \in 1..d : <<at[i], at[k]>> \in R <=> i < k
    BY <1>5, <1>a
  <2> QED BY <1>16, <1>17, <2>1 DEF Lists
<1>19. Cardinality(G) = d
  BY <1>18, Ranks
<1> QED BY <1>3, <1>4, <1>10, <1>13, <1>14, <1>15, <1>19

LEMMA HitsAlone ==
  ASSUME Paging!ConstantsOK, PagingInv, walk.state = "busy", Len(walk.scope) = 1, NEW taken,
         taken = parts[walk.scope[1]].items
  PROVE  /\ taken \in Seq(Nat) /\ Paging!Hits(walk) \in Seq(Nat)
         /\ Len(Paging!Hits(walk)) = Len(taken)
         /\ \A i \in 1..Len(taken) : Paging!Hits(walk)[i] = taken[i]
<1>1. WalkOK(matches, walk) /\ PartsOK(walk, parts) /\ MaxMsg \in Nat
  BY DEF PagingInv, Paging!ConstantsOK
<1>2. PICK f : f = walk.scope[1] /\ f \in DOMAIN parts
  BY <1>1, Scope DEF PartsOK
<1>3. taken \in Seq(Nat) /\ Len(taken) \in Nat /\ Len(taken) <= Paging!Budget(walk) /\ Paging!Budget(walk) \in Nat
  <2>1. /\ parts[f] \in [phase : {"count", "slice", "done", "failed"}, total : Nat \cup {-1}, items : Seq(Nat)]
        /\ Paging!Budget(walk) \in Nat /\ Len(parts[f].items) \in Nat /\ Len(parts[f].items) <= Paging!Budget(walk)
    BY <1>1, <1>2, BusyParts
  <2> QED BY <1>2, <2>1
<1>4. PICK n \in Nat : n = Paging!Budget(walk)
  BY <1>3
<1>5. PICK m \in Nat : m = Len(taken) /\ m <= n
  BY <1>3, <1>4
<1>6. PICK H : H = Paging!Given(walk, n)
  OBVIOUS
<1>7. /\ \A h \in H : /\ h = <<h[1], h[2]>> /\ h[1] \in 1..1 /\ h[2] \in 1..n
                      /\ h[1] \in Nat /\ h[2] \in Nat
                      /\ h[2] \in 1..Len(parts[walk.scope[h[1]]].items)
                      /\ Paging!Item(walk, h) \in Nat
      /\ IsFiniteSet(H)
      /\ \A i \in 1..1, k \in 1..n : k <= Len(parts[walk.scope[i]].items) =>
              /\ <<i, k>> \in H
              /\ Paging!Item(walk, <<i, k>>) = parts[walk.scope[i]].items[k]
  BY <1>6, Gives
<1>8. \A h \in H : h = <<1, h[2]>> /\ h[2] \in 1..m
  <2> SUFFICES ASSUME NEW h \in H PROVE h = <<1, h[2]>> /\ h[2] \in 1..m
    OBVIOUS
  <2>1. h[1] = 1
    BY <1>7
  <2> QED BY <1>5, <1>7, <2>1
<1>9. \A k \in 1..m : <<1, k>> \in H /\ Paging!Item(walk, <<1, k>>) = taken[k]
  <2> SUFFICES ASSUME NEW k \in 1..m PROVE <<1, k>> \in H /\ Paging!Item(walk, <<1, k>>) = taken[k]
    OBVIOUS
  <2>1. k \in 1..n /\ 1 \in 1..1 /\ k <= Len(parts[walk.scope[1]].items)
    BY <1>4, <1>5
  <2> QED BY <1>7, <2>1
<1>10. PICK R : R = Paging!FolderByFolder(H)
  OBVIOUS
<1>11. /\ Orders(R, H)
       /\ \A x, y : <<x, y>> \in R <=> x \in H /\ y \in H /\ (x[1] < y[1] \/ (x[1] = y[1] /\ x[2] < y[2]))
  BY <1>7, <1>10, FoldersOrder
<1>12. PICK list : list = [k \in 1..m |-> <<1, k>>]
  OBVIOUS
<1>13. Lists(list, m, H, R)
  <2>1. \A k \in 1..m : list[k] = <<1, k>> /\ list[k] \in H /\ list[k][1] = 1 /\ list[k][2] = k
    BY <1>9, <1>12
  <2>2. \A h \in H : \E k \in 1..m : list[k] = h
    BY <1>8, <2>1
  <2>3. \A i, j \in 1..m : <<list[i], list[j]>> \in R <=> i < j
    BY <1>11, <2>1
  <2> QED BY <2>1, <2>2, <2>3 DEF Lists
<1>14. Cardinality(H) = m /\ Ranked(H, R) = [k \in 1..m |-> list[k]]
  BY <1>13, Ranks
<1>15. /\ Paging!Listed(walk, H, R) \in Seq(Nat)
       /\ Len(Paging!Listed(walk, H, R)) = m
       /\ \A i \in 1..m : Paging!Listed(walk, H, R)[i] = Paging!Item(walk, Ranked(H, R)[i])
  BY <1>7, <1>11, <1>14, ListedOf
<1>16. Paging!Hits(walk) = Paging!Listed(walk, H, R)
  BY <1>4, <1>6, <1>10 DEF Paging!Hits
<1>17. \A i \in 1..m : Paging!Listed(walk, H, R)[i] = taken[i]
  BY <1>9, <1>12, <1>14, <1>15
<1> QED BY <1>3, <1>5, <1>15, <1>16, <1>17

-----------------------------------------------------------------------------
(* SearchPaging: the answers.                                               *)
AnswerType(a) == a.page \in Seq(Nat) /\ a.sure \in BOOLEAN /\ a.next \in Nat \cup {-1}
Remaining(w, a) == Absent(w) \ Paging!Range(a.page)
AnswerOK(b, w, a) ==
  /\ AnswerType(a)
  /\ Honest(w) /\ a.sure =>
       /\ a.next \in Nat => Cardinality(Behind(Post(b, w), Remaining(w, a), a.next)) <= w.slack
       /\ a.next \notin Nat => Cardinality(Remaining(w, a)) <= w.slack

LEMMA CountedType ==
  ASSUME Paging!ConstantsOK, PagingInv, walk.state = "busy", NEW hits \in Seq(Nat)
  PROVE  AnswerType(Paging!CountedPage(walk, hits))
<1>1. walk.offset \in Nat /\ walk.limit \in Nat
  BY WalkFields DEF PagingInv
<1>2. PICK page : page = Paging!Upto(hits, walk.limit) /\ page \in Seq(Nat) /\ Len(page) \in Nat
  BY <1>1, Fronts
<1>3. PICK total, clear : /\ clear = (\A f \in DOMAIN parts : parts[f].total # Paging!None)
                          /\ total = Paging!Cardinality(UNION {{f} \X (1..parts[f].total) : f \in DOMAIN parts})
  OBVIOUS
<1>4. Paging!CountedPage(walk, hits) =
        [page |-> page, sure |-> clear, next |-> IF clear THEN Paging!Onward(walk, page, total) ELSE Paging!None]
  BY <1>2, <1>3 DEF Paging!CountedPage
<1>5. Paging!Onward(walk, page, total) \in Nat \cup {-1}
  BY <1>1, <1>2 DEF Paging!Onward, Paging!None
<1>6. PICK next : /\ next = IF clear THEN Paging!Onward(walk, page, total) ELSE Paging!None
                  /\ next \in Nat \cup {-1}
  BY <1>5 DEF Paging!None
<1>7. clear \in BOOLEAN
  BY <1>3
<1>8. Paging!CountedPage(walk, hits) = [page |-> page, sure |-> clear, next |-> next]
  BY <1>4, <1>6
<1> QED BY <1>2, <1>6, <1>7, <1>8 DEF AnswerType

(* One folder's first k items, all on the page but for what nobody wants,   *)
(* and where to go on.                                                      *)
Shows(w, p, k, a) ==
  /\ \A m \in Absent(w), i \in 1..k : p.items[i] = m => m \in Paging!Range(a.page)
  /\ a.next \in Nat => a.next <= w.offset + k
  /\ \/ a.next \in Nat
     \/ p.total \in Nat /\ p.total <= w.offset + k
     \/ p.phase = "done" /\ k = Len(p.items) /\ k < Paging!Budget(w)

LEMMA AloneAnswer ==
  ASSUME Paging!ConstantsOK, PagingInv, walk.state = "busy", Honest(walk), ~Several(walk),
         NEW p, p = parts[walk.scope[1]], NEW k \in 0..Len(p.items),
         NEW a, AnswerType(a), a.sure, Shows(walk, p, k, a)
  PROVE  AnswerOK(matches, walk, a)
<1>1. WalkOK(matches, walk) /\ BoxesOK(matches, newest) /\ PartsOK(walk, parts) /\ MaxMsg \in Nat
  BY DEF PagingInv, Paging!ConstantsOK
<1>2. PICK f : f = walk.scope[1] /\ f \in DOMAIN parts /\ f \in Paging!Folders /\ Post(matches, walk) = matches[f]
  BY <1>1, Alone DEF PartsOK
<1>3. /\ p \in [phase : {"count", "slice", "done", "failed"}, total : Nat \cup {-1}, items : Seq(Nat)]
      /\ Paging!Budget(walk) \in Nat
  BY <1>1, <1>2, BusyParts
<1>4. AloneOK(matches[f], Absent(walk), walk.offset, walk.slack, p, Paging!Budget(walk))
  BY <1>2 DEF PagingInv, Progress, AloneBusy
<1>5. /\ walk.offset \in Nat /\ walk.slack \in Nat /\ matches[f] \in SUBSET Nat /\ IsFiniteSet(matches[f])
      /\ Absent(walk) \in SUBSET matches[f]
  BY <1>1, <1>2, WalkFields, Boxed
<1>6. PICK V : V = Remaining(walk, a) /\ V \in SUBSET Absent(walk)
  BY DEF Remaining
<1>7. Lacks(V, p.items, k)
  BY <1>6 DEF Remaining, Lacks, Shows
<1>8. p.items \in Seq(Nat) /\ Paging!Budget(walk) \in Nat
  BY <1>3
<1>a. /\ walk.offset \in Nat /\ walk.slack \in Nat /\ matches[f] \in SUBSET Nat /\ IsFiniteSet(matches[f])
      /\ Absent(walk) \in SUBSET matches[f] /\ V \in SUBSET Absent(walk)
      /\ AloneOK(matches[f], Absent(walk), walk.offset, walk.slack, p, Paging!Budget(walk))
  BY <1>4, <1>5, <1>6
<1>9. PICK next : next = a.next
  OBVIOUS
<1>10. /\ next \in Nat /\ next <= walk.offset + k => Cardinality(Behind(matches[f], V, next)) <= walk.slack
       /\ p.total \in Nat /\ p.total <= walk.offset + k => Cardinality(V) <= walk.slack
       /\ p.phase = "done" /\ k = Len(p.items) /\ k < Paging!Budget(walk) => Cardinality(V) <= walk.slack
  <2>1. PICK S, U, o, n, wanted, q, j : /\ S = matches[f] /\ U = Absent(walk) /\ o = walk.offset /\ n = walk.slack
                                        /\ wanted = Paging!Budget(walk) /\ q = p /\ j = k
    OBVIOUS
  <2>2. /\ S \in SUBSET Nat /\ IsFiniteSet(S) /\ U \in SUBSET S /\ o \in Nat /\ n \in Nat /\ wanted \in Nat
        /\ V \in SUBSET U /\ AloneOK(S, U, o, n, q, wanted)
        /\ q.items \in Seq(Nat) /\ Lacks(V, q.items, j) /\ j \in 0..Len(q.items)
    BY <1>7, <1>8, <1>a, <2>1
  <2>3. /\ \A d \in Nat : d <= o + j => Cardinality(Behind(S, V, d)) <= n
        /\ q.total \in Nat /\ q.total <= o + j => Cardinality(V) <= n
        /\ q.phase = "done" /\ j = Len(q.items) /\ j < wanted => Cardinality(V) <= n
    BY <2>2, AloneEnds
  <2> QED BY <2>1, <2>3
<1> QED BY <1>2, <1>6, <1>9, <1>10 DEF AnswerOK, Shows

LEMMA CountedAlone ==
  ASSUME Paging!ConstantsOK, PagingInv, walk.state = "busy", Honest(walk), ~Several(walk), walk.mode # "folder",
         NEW hits \in Seq(Nat), NEW p, p = parts[walk.scope[1]], Len(hits) <= Len(p.items),
         \A m \in Absent(walk), i \in 1..Len(p.items) : p.items[i] = m => \E j \in 1..Len(hits) : hits[j] = m
  PROVE  AnswerOK(matches, walk, Paging!CountedPage(walk, hits))
<1>1. WalkOK(matches, walk) /\ PartsOK(walk, parts) /\ MaxMsg \in Nat
  BY DEF PagingInv, Paging!ConstantsOK
<1>2. PICK f : f = walk.scope[1] /\ f \in DOMAIN parts /\ DOMAIN parts = {f} /\ Len(walk.scope) = 1
  BY <1>1, Alone DEF PartsOK
<1>3. /\ p \in [phase : {"count", "slice", "done", "failed"}, total : Nat \cup {-1}, items : Seq(Nat)]
      /\ Len(p.items) \in Nat /\ Len(p.items) <= Paging!Budget(walk) /\ Paging!Budget(walk) = walk.limit
  BY <1>1, <1>2, BusyParts, Budgets
<1>4. walk.offset \in Nat /\ walk.limit \in Nat
  BY <1>1, WalkFields
<1>5. PICK a : a = Paging!CountedPage(walk, hits) /\ AnswerType(a)
  BY CountedType
<1>6. PICK page : /\ page = Paging!Upto(hits, walk.limit) /\ page \in Seq(Nat) /\ Len(page) \in Nat
                  /\ Len(page) <= Len(hits)
                  /\ \A k \in 1..Len(hits) : k <= walk.limit => hits[k] \in Paging!Range(page)
  BY <1>4, Fronts
<1>7. PICK clear, total : /\ clear = (\A g \in DOMAIN parts : parts[g].total # Paging!None)
                          /\ total = Paging!Cardinality(UNION {{g} \X (1..parts[g].total) : g \in DOMAIN parts})
  OBVIOUS
<1>8. /\ a.page = page /\ a.sure = clear
      /\ a.next = IF clear THEN Paging!Onward(walk, page, total) ELSE Paging!None
  BY <1>5, <1>6, <1>7 DEF Paging!CountedPage
<1>9. SUFFICES ASSUME a.sure PROVE AnswerOK(matches, walk, a)
  BY <1>5 DEF AnswerOK
<1>10. p.total \in Nat
  BY <1>2, <1>3, <1>7, <1>8, <1>9 DEF Paging!None
<1>11. total = p.total
  <2>1. UNION {{g} \X (1..parts[g].total) : g \in DOMAIN parts} = {f} \X (1..p.total)
    BY <1>2
  <2>2. PICK t \in Nat : t = p.total
    BY <1>10
  <2>3. IsFiniteSet(1..t) /\ Cardinality(1..t) = IF 1 <= t THEN t - 1 + 1 ELSE 0
    BY FS_Interval
  <2>4. Cardinality(1..t) = t
    BY <2>3
  <2>5. IsFiniteSet({f}) /\ Cardinality({f}) = 1
    BY FS_Singleton
  <2>6. Cardinality({f} \X (1..t)) = t
    <3>1. PICK list : list = [k \in 1..t |-> <<f, k>>]
      OBVIOUS
    <3>2. list \in Bijection(1..t, {f} \X (1..t))
      <4>1. list \in [1..t -> {f} \X (1..t)]
        BY <3>1
      <4>2. \A i, j \in 1..t : list[i] = list[j] => i = j
        BY <3>1
      <4>3. ASSUME NEW x \in {f} \X (1..t) PROVE \E i \in 1..t : list[i] = x
        <5>1. x = <<f, x[2]>> /\ x[2] \in 1..t
          OBVIOUS
        <5>2. list[x[2]] = <<f, x[2]>>
          BY <3>1, <5>1
        <5> QED BY <5>1, <5>2
      <4> QED BY <4>1, <4>2, <4>3 DEF Bijection, Injection, Surjection, IsInjective
    <3>3. Cardinality(1..t) = Cardinality({f} \X (1..t))
      BY <2>3, <3>2, FS_Bijection DEF ExistsBijection
    <3> QED BY <2>4, <3>3
  <2> QED BY <1>7, <2>1, <2>2, <2>6, SameSets
<1>12. PICK k \in Nat : k = Len(p.items)
  BY <1>3
<1>13. PICK n, t, o \in Nat : n = Len(page) /\ t = p.total /\ o = walk.offset /\ n <= k
  <2>1. Len(hits) \in Nat
    OBVIOUS
  <2> QED BY <1>4, <1>6, <1>10, <1>12, <2>1
<1>14. a.next = IF o + n < t THEN o + n ELSE -1
  BY <1>8, <1>9, <1>11, <1>13 DEF Paging!Onward, Paging!None
<1>15. ASSUME NEW m \in Absent(walk), NEW i \in 1..k, p.items[i] = m PROVE m \in Paging!Range(a.page)
  <2>1. PICK j \in 1..Len(hits) : hits[j] = m
    BY <1>12, <1>15
  <2>2. j <= walk.limit
    <3>1. Len(hits) \in Nat
      OBVIOUS
    <3> QED BY <1>3, <1>4, <1>12, <3>1
  <2> QED BY <1>6, <1>8, <2>1, <2>2
<1>16. a.next \in Nat => a.next <= walk.offset + k
  BY <1>13, <1>14
<1>17. a.next \in Nat \/ (p.total \in Nat /\ p.total <= walk.offset + k)
  BY <1>13, <1>14
<1>18. k \in 0..Len(p.items)
  BY <1>12
<1>19. Shows(walk, p, k, a)
  BY <1>15, <1>16, <1>17 DEF Shows
<1> QED BY <1>5, <1>9, <1>18, <1>19, AloneAnswer
LEMMA HitsOf ==
  ASSUME Paging!ConstantsOK, PagingInv, walk.state = "busy", NEW n \in Nat,
         NEW H \in SUBSET Paging!Given(walk, n)
  PROVE  /\ IsFiniteSet(H) /\ Cardinality(H) \in Nat
         /\ Paging!Sorted(walk, H) \in Seq(Nat) /\ Len(Paging!Sorted(walk, H)) = Cardinality(H)
         /\ \A h \in H : \E i \in 1..Cardinality(H) : Paging!Sorted(walk, H)[i] = Paging!Item(walk, h)
         /\ Paging!Listed(walk, H, Paging!FolderByFolder(H)) \in Seq(Nat)
<1>1. \A h \in H : h = <<h[1], h[2]>> /\ h[1] \in Nat /\ h[2] \in Nat /\ Paging!Item(walk, h) \in Nat
  BY Gives
<1>2. IsFiniteSet(H)
  BY Gives, Subsets
<1>3. PICK R : R = Paging!NewestFirst(walk, H)
  OBVIOUS
<1>4. PICK Q : Q = Paging!FolderByFolder(H)
  OBVIOUS
<1>5. /\ Orders(R, H) /\ Orders(Q, H)
      /\ \A h \in H : Paging!Item(walk, h) \in Nat
  <2>1. Orders(R, H)
    BY <1>1, <1>3, NewestOrder
  <2>2. Orders(Q, H)
    BY <1>1, <1>4, FoldersOrder
  <2> QED BY <1>1, <2>1, <2>2
<1>6. /\ Paging!Listed(walk, H, R) \in Seq(Nat) /\ Cardinality(H) \in Nat
      /\ Len(Paging!Listed(walk, H, R)) = Cardinality(H)
      /\ \A h \in H : \E i \in 1..Cardinality(H) : Paging!Listed(walk, H, R)[i] = Paging!Item(walk, h)
  <2>1. PICK w : w = walk
    OBVIOUS
  <2>2. IsFiniteSet(H) /\ Orders(R, H) /\ \A h \in H : Paging!Item(w, h) \in Nat
    BY <1>2, <1>5, <2>1
  <2>3. /\ Paging!Listed(w, H, R) \in Seq(Nat) /\ Cardinality(H) \in Nat
        /\ Len(Paging!Listed(w, H, R)) = Cardinality(H)
    BY <2>2, ListedOf
  <2>4. HasAll(Paging!Listed(w, H, R), w, H)
    BY <2>2, ListedOf
  <2> QED BY <2>1, <2>3, <2>4 DEF HasAll
<1>7. Paging!Listed(walk, H, Q) \in Seq(Nat)
  BY <1>2, <1>5, ListedOf
<1>8. Paging!Sorted(walk, H) = Paging!Listed(walk, H, R)
  BY <1>3 DEF Paging!Sorted
<1> QED BY <1>2, <1>4, <1>6, <1>7, <1>8

LEMMA HitsType ==
  ASSUME Paging!ConstantsOK, PagingInv, walk.state = "busy"
  PROVE  Paging!Hits(walk) \in Seq(Nat) /\ Paging!Budget(walk) \in Nat
         /\ Paging!Given(walk, Paging!Budget(walk)) \in SUBSET Paging!Given(walk, Paging!Budget(walk))
<1>1. Paging!Budget(walk) \in Nat
  BY Budgets DEF PagingInv, Paging!ConstantsOK
<1>2. PICK n \in Nat : n = Paging!Budget(walk)
  BY <1>1
<1>3. PICK H : H = Paging!Given(walk, n)
  OBVIOUS
<1>4. Paging!Listed(walk, H, Paging!FolderByFolder(H)) \in Seq(Nat)
  BY <1>3, HitsOf
<1>5. Paging!Hits(walk) = Paging!Listed(walk, H, Paging!FolderByFolder(H))
  BY <1>2, <1>3 DEF Paging!Hits
<1> QED BY <1>1, <1>4, <1>5

(* The counted searches of one folder.                                      *)
LEMMA AnswersQuick ==
  ASSUME Paging!ConstantsOK, PagingInv, walk.state = "busy"
  PROVE  /\ walk.mode # "folder" /\ ~Several(walk) => AnswerOK(matches, walk, Paging!CountedPage(walk, Paging!Hits(walk)))
         /\ Paging!CountedPage(walk, Paging!Hits(walk)).sure \in BOOLEAN
<1>1. PICK hits \in Seq(Nat) : hits = Paging!Hits(walk)
  BY HitsType
<1>2. AnswerType(Paging!CountedPage(walk, hits))
  BY CountedType
<1>3. ASSUME walk.mode # "folder", ~Several(walk), Honest(walk)
      PROVE  AnswerOK(matches, walk, Paging!CountedPage(walk, hits))
  <2>1. Len(walk.scope) = 1
    BY <1>3, Alone DEF PagingInv
  <2>2. PICK p : p = parts[walk.scope[1]]
    OBVIOUS
  <2>3. PICK taken : taken = p.items
    OBVIOUS
  <2>4. taken \in Seq(Nat) /\ Len(hits) = Len(taken) /\ \A i \in 1..Len(taken) : hits[i] = taken[i]
    BY <1>1, <2>1, <2>2, <2>3, HitsAlone
  <2>5. \A m \in Absent(walk), i \in 1..Len(p.items) : p.items[i] = m => \E j \in 1..Len(hits) : hits[j] = m
    BY <2>3, <2>4
  <2>6. Len(hits) <= Len(p.items)
    BY <2>3, <2>4
  <2> QED BY <1>3, <2>2, <2>5, <2>6, CountedAlone
<1>4. ~Honest(walk) => AnswerOK(matches, walk, Paging!CountedPage(walk, hits))
  BY <1>2 DEF AnswerOK
<1> QED BY <1>1, <1>2, <1>3, <1>4 DEF AnswerType

LEMMA AnswersFullText ==
  ASSUME Paging!ConstantsOK, PagingInv, walk.state = "busy", walk.mode \in {"full_text", "exact"}
  PROVE  AnswerOK(matches, walk, Paging!SearchFullText(walk))
<1>1. PICK n \in Nat : n = Paging!Budget(walk)
  BY HitsType
<1>2. PICK H : H = {h \in Paging!Given(walk, n) : walk.mode = "exact" => Paging!Item(walk, h) \notin Loose}
  OBVIOUS
<1>3. PICK hits : hits = Paging!Sorted(walk, H)
  OBVIOUS
<1>4. /\ IsFiniteSet(H) /\ Cardinality(H) \in Nat /\ hits \in Seq(Nat) /\ Len(hits) = Cardinality(H)
      /\ \A h \in H : \E i \in 1..Cardinality(H) : hits[i] = Paging!Item(walk, h)
  BY <1>2, <1>3, HitsOf
<1>5. Paging!SearchFullText(walk) = Paging!CountedPage(walk, hits)
  BY <1>1, <1>2, <1>3 DEF Paging!SearchFullText
<1>6. AnswerType(Paging!CountedPage(walk, hits))
  BY <1>4, CountedType
<1>7. ASSUME Honest(walk) PROVE AnswerOK(matches, walk, Paging!CountedPage(walk, hits))
  <2>1. ~Several(walk) /\ walk.mode # "folder"
    BY DEF Several
  <2>2. WalkOK(matches, walk) /\ PartsOK(walk, parts) /\ MaxMsg \in Nat
    BY DEF PagingInv, Paging!ConstantsOK
  <2>3. PICK f : f = walk.scope[1] /\ f \in DOMAIN parts /\ Len(walk.scope) = 1
    BY <1>7, <2>1, <2>2, Alone DEF PartsOK
  <2>4. PICK p : p = parts[walk.scope[1]]
    OBVIOUS
  <2>5. PICK taken : taken = p.items /\ taken \in Seq(Nat) /\ Len(taken) \in Nat /\ Len(taken) <= n
    <3>1. /\ parts[f] \in [phase : {"count", "slice", "done", "failed"}, total : Nat \cup {-1}, items : Seq(Nat)]
          /\ Len(parts[f].items) <= Paging!Budget(walk)
      BY <2>2, <2>3, BusyParts
    <3> QED BY <1>1, <2>3, <2>4, <3>1
  <2>6. ASSUME NEW m \in Absent(walk), NEW i \in 1..Len(taken), taken[i] = m
        PROVE  \E j \in 1..Len(hits) : hits[j] = m
    <3>1. 1 \in 1..Len(walk.scope) /\ i \in 1..n /\ i <= Len(parts[walk.scope[1]].items)
      BY <2>3, <2>4, <2>5
    <3>2. <<1, i>> \in Paging!Given(walk, n) /\ Paging!Item(walk, <<1, i>>) = m
      BY <2>4, <2>5, <2>6, <3>1, Gives
    <3>3. walk.mode = "exact" => m \notin Loose
      BY <2>2 DEF WalkOK, Absent
    <3>4. <<1, i>> \in H
      BY <1>2, <3>2, <3>3
    <3> QED BY <1>4, <3>2, <3>4
  <2>7. Len(hits) <= Len(taken)
    <3>1. PICK h0 : h0 = [h \in H |-> h[2]]
      OBVIOUS
    <3>2. \A h \in H : h = <<1, h[2]>> /\ h[2] \in 1..Len(taken)
      <4> SUFFICES ASSUME NEW h \in H PROVE h = <<1, h[2]>> /\ h[2] \in 1..Len(taken)
        OBVIOUS
      <4>1. /\ h = <<h[1], h[2]>> /\ h[1] \in 1..Len(walk.scope)
            /\ h[2] \in 1..Len(parts[walk.scope[h[1]]].items)
        BY <1>2, Gives
      <4>2. h[1] = 1
        BY <2>3, <4>1
      <4> QED BY <2>4, <2>5, <4>1, <4>2
    <3>3. h0 \in Injection(H, 1..Len(taken))
      <4>1. h0 \in [H -> 1..Len(taken)]
        BY <3>1, <3>2
      <4>2. \A x, y \in H : h0[x] = h0[y] => x = y
        BY <3>1, <3>2
      <4> QED BY <4>1, <4>2 DEF Injection, IsInjective
    <3>4. IsFiniteSet(1..Len(taken)) /\ Cardinality(1..Len(taken)) = Len(taken)
      <4>1. PICK k \in Nat : k = Len(taken)
        BY <2>5
      <4>2. IsFiniteSet(1..k) /\ Cardinality(1..k) = IF 1 <= k THEN k - 1 + 1 ELSE 0
        BY FS_Interval
      <4>3. Cardinality(1..k) = k
        BY <4>2
      <4> QED BY <4>1, <4>2, <4>3
    <3>5. Cardinality(H) <= Cardinality(1..Len(taken))
      BY <3>3, <3>4, FS_Injection DEF ExistsInjection
    <3> QED BY <1>4, <3>4, <3>5
  <2> QED BY <1>4, <1>7, <2>1, <2>4, <2>5, <2>6, <2>7, CountedAlone
<1>8. ~Honest(walk) => AnswerOK(matches, walk, Paging!CountedPage(walk, hits))
  BY <1>6 DEF AnswerOK
<1> QED BY <1>5, <1>7, <1>8

LEMMA DonePart ==
  ASSUME Paging!ConstantsOK, PagingInv, walk.state = "busy", Paging!Answered, walk.mode \in {"read", "folder"}
  PROVE  /\ Len(walk.scope) = 1 /\ ~Several(walk) /\ parts[walk.scope[1]].phase = "done"
         /\ walk.limit \in Nat /\ walk.offset \in Nat
         /\ Paging!Budget(walk) = IF walk.mode = "read" THEN walk.limit ELSE walk.limit + 1
<1>1. WalkOK(matches, walk) /\ PartsOK(walk, parts) /\ MaxMsg \in Nat
  BY DEF PagingInv, Paging!ConstantsOK
<1>2. Len(walk.scope) = 1
  BY <1>1 DEF WalkOK
<1>3. ~Several(walk)
  BY DEF Several
<1>4. PICK f : f = walk.scope[1] /\ f \in DOMAIN parts
  BY <1>1, Scope DEF PartsOK
<1>5. parts[f].phase \in {"done", "failed"}
  BY <1>4 DEF Paging!Answered
<1>6. PartOK(walk, parts[f])
  BY <1>1, <1>4, BusyParts
<1>7. parts[f].phase # "failed"
  BY <1>6 DEF PartOK, Paging!V4
<1>8. walk.limit \in Nat /\ walk.offset \in Nat
  BY <1>1, WalkFields
<1>9. Paging!Budget(walk) = IF walk.mode = "read" THEN walk.limit ELSE walk.limit + 1
  BY <1>1, <1>2, <1>3, Budgets
<1> QED BY <1>2, <1>3, <1>4, <1>5, <1>7, <1>8, <1>9

LEMMA AnswersRead ==
  ASSUME Paging!ConstantsOK, PagingInv, walk.state = "busy", Paging!Answered, walk.mode = "read"
  PROVE  AnswerOK(matches, walk, Paging!ReadEmails(walk))
<1>1. /\ Len(walk.scope) = 1 /\ ~Several(walk) /\ parts[walk.scope[1]].phase = "done"
      /\ walk.limit \in Nat /\ Paging!Budget(walk) = walk.limit
  BY DonePart
<1>2. PICK p, taken, hits : p = parts[walk.scope[1]] /\ taken = p.items /\ hits = Paging!Hits(walk)
  OBVIOUS
<1>3. /\ taken \in Seq(Nat) /\ hits \in Seq(Nat) /\ Len(hits) = Len(taken)
      /\ \A i \in 1..Len(taken) : hits[i] = taken[i]
  BY <1>1, <1>2, HitsAlone
<1>4. PICK a : a = Paging!ReadEmails(walk)
  OBVIOUS
<1>s. PICK sure \in BOOLEAN : sure <=> Len(hits) < walk.limit
  OBVIOUS
<1>5. a = [page |-> hits, sure |-> sure, next |-> -1]
  BY <1>2, <1>4, <1>s DEF Paging!ReadEmails, Paging!None
<1>6. AnswerType(a)
  BY <1>3, <1>5 DEF AnswerType
<1>7. ASSUME Honest(walk), a.sure PROVE AnswerOK(matches, walk, a)
  <2>1. PICK k \in Nat : k = Len(taken) /\ k < Paging!Budget(walk)
    <3>1. sure
      BY <1>5, <1>7
    <3> QED BY <1>1, <1>3, <1>s, <3>1
  <2>2. \A i \in 1..k : taken[i] \in Paging!Range(a.page)
    BY <1>3, <1>5, <2>1 DEF Paging!Range
  <2>3. Shows(walk, p, k, a)
    BY <1>1, <1>2, <1>5, <2>1, <2>2 DEF Shows
  <2>4. k \in 0..Len(p.items)
    BY <1>2, <2>1
  <2> QED BY <1>1, <1>2, <1>6, <1>7, <2>3, <2>4, AloneAnswer
<1> QED BY <1>4, <1>6, <1>7 DEF AnswerOK

LEMMA AnswersFolder ==
  ASSUME Paging!ConstantsOK, PagingInv, walk.state = "busy", Paging!Answered, walk.mode = "folder"
  PROVE  AnswerOK(matches, walk, Paging!Paginate(walk))
<1>1. /\ Len(walk.scope) = 1 /\ ~Several(walk) /\ parts[walk.scope[1]].phase = "done"
      /\ walk.limit \in Nat /\ walk.offset \in Nat /\ Paging!Budget(walk) = walk.limit + 1
  BY DonePart
<1>2. PICK p, taken, hits : p = parts[walk.scope[1]] /\ taken = p.items /\ hits = Paging!Hits(walk)
  OBVIOUS
<1>3. /\ taken \in Seq(Nat) /\ hits \in Seq(Nat) /\ Len(hits) = Len(taken)
      /\ \A i \in 1..Len(taken) : hits[i] = taken[i]
  BY <1>1, <1>2, HitsAlone
<1>4. PICK a, page : a = Paging!Paginate(walk) /\ page = Paging!Upto(hits, walk.limit)
  OBVIOUS
<1>5. /\ page \in Seq(Nat)
      /\ \A k \in 1..Len(hits) : k <= walk.limit => hits[k] \in Paging!Range(page)
  BY <1>1, <1>3, <1>4, Fronts
<1>6. PICK l, k \in Nat : l = walk.limit /\ k = IF Len(taken) > l THEN l ELSE Len(taken)
  BY <1>1, <1>3
<1>7. a = [page |-> page, sure |-> TRUE, next |-> IF Len(taken) > l THEN walk.offset + l ELSE -1]
  BY <1>2, <1>3, <1>4, <1>6 DEF Paging!Paginate, Paging!None
<1>8. PICK next : /\ next = (IF Len(taken) > l THEN walk.offset + l ELSE -1)
                  /\ next \in Nat \cup {-1}
  BY <1>1, <1>6
<1>9. a.page = page /\ a.sure = TRUE /\ a.next = next
  BY <1>7, <1>8
<1>10. AnswerType(a)
  BY <1>5, <1>8, <1>9 DEF AnswerType
<1>11. ASSUME Honest(walk) PROVE AnswerOK(matches, walk, a)
  <2>1. \A i \in 1..k : taken[i] \in Paging!Range(page)
    <3> SUFFICES ASSUME NEW i \in 1..k PROVE taken[i] \in Paging!Range(page)
      OBVIOUS
    <3>1. i \in 1..Len(taken) /\ i <= walk.limit
      BY <1>3, <1>6
    <3> QED BY <1>3, <1>5, <3>1
  <2>2. k \in 0..Len(p.items)
    BY <1>2, <1>3, <1>6
  <2>3. a.next \in Nat => a.next <= walk.offset + k
    BY <1>1, <1>6, <1>8, <1>9
  <2>4. a.next \in Nat \/ (p.phase = "done" /\ k = Len(p.items) /\ k < Paging!Budget(walk))
    <3>1. CASE Len(taken) > l
      BY <1>1, <1>6, <1>8, <1>9, <3>1
    <3>2. CASE ~(Len(taken) > l)
      BY <1>1, <1>2, <1>3, <1>6, <3>2
    <3> QED BY <3>1, <3>2
  <2>5. Shows(walk, p, k, a)
    BY <1>2, <1>9, <2>1, <2>3, <2>4 DEF Shows
  <2> QED BY <1>1, <1>2, <1>9, <1>10, <1>11, <2>2, <2>5, AloneAnswer
<1> QED BY <1>4, <1>10, <1>11 DEF AnswerOK

LEMMA AnswersAdvanced ==
  ASSUME Paging!ConstantsOK, PagingInv, walk.state = "busy", walk.mode = "advanced"
  PROVE  AnswerOK(matches, walk, Paging!SearchAdvanced(walk))
<1>1. ~Several(walk)
  BY DEF Several
<1>2. CASE Len(walk.scope) > 1
  <2>1. PICK n \in Nat : n = Paging!Budget(walk)
    BY HitsType
  <2>2. PICK hits : hits = Paging!Sorted(walk, Paging!Given(walk, n))
    OBVIOUS
  <2>3. hits \in Seq(Nat)
    BY <2>2, HitsOf
  <2>4. Paging!SearchAdvanced(walk) = Paging!CountedPage(walk, hits)
    BY <1>2, <2>1, <2>2 DEF Paging!SearchAdvanced
  <2>5. AnswerType(Paging!CountedPage(walk, hits))
    BY <2>3, CountedType
  <2>6. ~Honest(walk)
    <3>1. PICK k \in Nat : k = Len(walk.scope)
      BY WalkFields DEF PagingInv
    <3>2. walk.mode \in Paging!V4
      BY DEF Paging!V4
    <3>3. Len(walk.scope) # 1
      <4>1. k > 1
        BY <1>2, <3>1
      <4>2. k # 1
        BY <4>1
      <4> QED BY <3>1, <4>2
    <3> QED BY <3>2, <3>3, Zenon DEF Honest
  <2> QED BY <2>4, <2>5, <2>6 DEF AnswerOK
<1>3. CASE ~(Len(walk.scope) > 1)
  <2>1. Paging!SearchAdvanced(walk) = Paging!CountedPage(walk, Paging!Hits(walk))
    BY <1>3 DEF Paging!SearchAdvanced
  <2> QED BY <1>1, <2>1, AnswersQuick
<1> QED BY <1>2, <1>3

(* get_thread's window [lo:hi], from the newest on.                         *)
LEMMA Window ==
  ASSUME NEW posts \in Seq(Nat), NEW o \in Nat, NEW l \in Nat, l > 0
  PROVE  LET hi == Paging!Most(0, Len(posts) - o)
             lo == Paging!Most(0, hi - l)
             page == SubSeq(posts, Len(posts) - hi + 1, Len(posts) - lo)
             next == IF lo > 0 THEN o + Len(page) ELSE -1
         IN /\ page \in Seq(Nat)
            /\ \A k \in 1..Len(posts) : o < k /\ k <= o + l => posts[k] \in Paging!Range(page)
            /\ next = IF o + l < Len(posts) THEN o + l ELSE -1
<1>1. PICK n \in Nat : n = Len(posts)
  OBVIOUS
<1>a. n > o => n - o \in Nat
  BY <1>1
<1>b. n > o + l => n - o - l \in Nat
  BY <1>1
<1>2. PICK hi \in Nat : /\ n > o => hi = n - o
                        /\ ~(n > o) => hi = 0
  BY <1>a
<1>3. hi = Paging!Most(0, n - o)
  BY <1>1, <1>2 DEF Paging!Most
<1>4. PICK lo \in Nat : /\ n > o + l => lo = n - o - l
                        /\ ~(n > o + l) => lo = 0
  BY <1>b
<1>5. lo = Paging!Most(0, hi - l)
  BY <1>2, <1>4 DEF Paging!Most
<1>6. PICK i, j \in Nat : i = n - hi /\ j = n - lo /\ j <= n
  BY <1>2, <1>4
<1>7. PICK page : page = Cut(posts, i, j)
  OBVIOUS
<1>c. j <= Len(posts)
  BY <1>1, <1>6
<1>8. /\ page \in Seq(Nat) /\ Len(page) = IF i < j THEN j - i ELSE 0
      /\ Fills(posts, i, j, page)
  <2>1. PICK s, S : s = posts /\ S = Nat
    OBVIOUS
  <2>2. s \in Seq(S) /\ j <= Len(s)
    BY <1>c, <2>1
  <2>3. /\ Cut(s, i, j) \in Seq(S) /\ Len(Cut(s, i, j)) = IF i < j THEN j - i ELSE 0
        /\ Fills(s, i, j, Cut(s, i, j))
    BY <2>2, Cuts
  <2> QED BY <1>7, <2>1, <2>3
<1>9. ASSUME NEW k \in 1..n, o < k, k <= o + l PROVE posts[k] \in Paging!Range(page)
  <2>1. i < k /\ k <= j
    BY <1>2, <1>4, <1>6, <1>9
  <2> QED BY <1>1, <1>8, <2>1 DEF Fills
<1>10. lo > 0 <=> o + l < n
  BY <1>4
<1>11. lo > 0 => o + Len(page) = o + l
  <2>1. lo > 0 => i = o /\ j = o + l
    BY <1>2, <1>4, <1>6
  <2> QED BY <1>8, <2>1
<1>12. page = SubSeq(posts, n - hi + 1, n - lo)
  BY <1>6, <1>7 DEF Cut
<1> QED BY <1>1, <1>3, <1>5, <1>8, <1>9, <1>10, <1>11, <1>12

LEMMA ThreadFound ==
  ASSUME Paging!ConstantsOK, PagingInv, walk.state = "busy", Paging!Answered, walk.mode = "thread"
  PROVE  UNION {Paging!Range(parts[f].items) : f \in DOMAIN parts} =
           Found(DOMAIN parts, ListOf(parts), OpenOf(walk, parts), matches, Longest(walk))
<1>1. WalkOK(matches, walk) /\ BoxesOK(matches, newest) /\ PartsOK(walk, parts) /\ MaxMsg \in Nat
  BY DEF PagingInv, Paging!ConstantsOK
<1>2. PICK F, list, open, c : /\ F = DOMAIN parts /\ list = ListOf(parts) /\ open = OpenOf(walk, parts)
                              /\ c = Longest(walk)
  OBVIOUS
<1>3. Paging!Budget(walk) = MaxMsg /\ c = MaxMsg + MaxMsg
  BY <1>1, <1>2, Budgets DEF Longest
<1>4. \A f \in F : /\ list[f] \in Seq(Nat) /\ Len(list[f]) \in Nat /\ Len(list[f]) <= MaxMsg
                   /\ list[f] = parts[f].items
                   /\ matches[f] \in SUBSET Nat /\ IsFiniteSet(matches[f]) /\ Cardinality(matches[f]) <= MaxMsg
  <2> SUFFICES ASSUME NEW f \in F
               PROVE  /\ list[f] \in Seq(Nat) /\ Len(list[f]) \in Nat /\ Len(list[f]) <= MaxMsg
                      /\ list[f] = parts[f].items
                      /\ matches[f] \in SUBSET Nat /\ IsFiniteSet(matches[f]) /\ Cardinality(matches[f]) <= MaxMsg
    OBVIOUS
  <2>1. list[f] = parts[f].items
    BY <1>2 DEF ListOf
  <2>2. f \in DOMAIN parts
    BY <1>2
  <2>3. /\ f \in Paging!Folders
        /\ parts[f] \in [phase : {"count", "slice", "done", "failed"}, total : Nat \cup {-1}, items : Seq(Nat)]
        /\ Len(parts[f].items) \in Nat /\ Len(parts[f].items) <= Paging!Budget(walk)
    BY <1>1, <2>2, BusyParts
  <2>4. parts[f].items \in Seq(Nat)
    BY <2>3
  <2>5. matches[f] \in SUBSET Nat /\ IsFiniteSet(matches[f]) /\ Cardinality(matches[f]) <= MaxMsg
    BY <1>1, <2>3, Boxed
  <2> QED BY <1>3, <2>1, <2>3, <2>4, <2>5
<1>5. \A f \in open : f \in F /\ ~(Len(list[f]) < MaxMsg)
  <2> SUFFICES ASSUME NEW f \in open PROVE f \in F /\ ~(Len(list[f]) < MaxMsg)
    OBVIOUS
  <2>1. f \in F /\ ~(parts[f].phase = "done" /\ Len(parts[f].items) < Paging!Budget(walk))
    BY <1>2 DEF OpenOf
  <2>2. parts[f].phase \in {"done", "failed"}
    BY <1>2, <2>1 DEF Paging!Answered
  <2>3. PartOK(walk, parts[f])
    BY <1>1, <1>2, <2>1, BusyParts
  <2>4. parts[f].phase # "failed"
    BY <2>3 DEF PartOK, Paging!V4
  <2> QED BY <1>3, <1>4, <2>1, <2>2, <2>4
<1>6. ASSUME NEW x, NEW f \in F, x \in Paging!Range(parts[f].items) PROVE x \in Found(F, list, open, matches, c)
  <2>1. PICK k \in 1..Len(list[f]) : list[f][k] = x
    BY <1>4, <1>6 DEF Paging!Range
  <2>2. k \in 1..c /\ k <= Len(list[f])
    BY <1>1, <1>3, <1>4
  <2>3. x \in Nat
    <3>1. \A d \in 1..Len(list[f]) : list[f][d] \in Nat
      BY <1>4
    <3> QED BY <2>1, <3>1
  <2>4. At(list, open, matches, f, k, x)
    BY <2>1, <2>2 DEF At
  <2> QED BY <2>2, <2>3, <2>4 DEF Found, Placed
<1>7. ASSUME NEW x \in Found(F, list, open, matches, c) PROVE \E f \in F : x \in Paging!Range(parts[f].items)
  <2>1. PICK f \in F, k \in 1..c : At(list, open, matches, f, k, x)
    BY DEF Found, Placed
  <2>2. CASE k <= Len(list[f])
    <3>1. list[f][k] = x
      BY <2>1, <2>2 DEF At
    <3>2. PICK n \in Nat : n = Len(list[f]) /\ DOMAIN list[f] = 1..n
      BY <1>4
    <3>3. c \in Nat
      BY <1>1, <1>3
    <3>4. k \in DOMAIN list[f]
      BY <2>2, <3>2, <3>3
    <3> QED BY <1>4, <3>1, <3>4 DEF Paging!Range
  <2>3. CASE ~(k <= Len(list[f]))
    <3>1. f \in open /\ x \in matches[f] /\ Count(matches[f], x) + 1 = k
      BY <2>1, <2>3 DEF At
    <3>2. Count(matches[f], x) < Cardinality(matches[f]) /\ Count(matches[f], x) \in Nat
      BY <1>4, <3>1, Newers
    <3>3. PICK n, d, t \in Nat : n = Len(list[f]) /\ d = Count(matches[f], x) /\ t = Cardinality(matches[f])
      BY <1>4, <3>2, Sized
    <3>4. ~(n < MaxMsg) /\ t <= MaxMsg /\ d < t /\ d + 1 = k /\ ~(k <= n)
      BY <1>4, <1>5, <2>3, <3>1, <3>2, <3>3
    <3> QED BY <1>1, <3>3, <3>4
  <2> QED BY <2>2, <2>3
<1> QED BY <1>2, <1>6, <1>7

(* The newest of what was found.                                            *)
LEMMA Newest ==
  ASSUME NEW K \in SUBSET Nat, IsFiniteSet(K), NEW m \in K
  PROVE  \E x \in Nat : m <= x /\ \A q \in K : q <= x
<1>1. PICK list : list = Paging!Listing(K)
  OBVIOUS
<1>2. PICK n : n = Cardinality(K)
  OBVIOUS
<1>3. /\ n \in Nat /\ list \in Seq(K) /\ Len(list) = n
      /\ \A q \in K : /\ Count(K, q) + 1 \in 1..n /\ list[Count(K, q) + 1] = q
      /\ \A k \in 1..n, q \in Nat : list[k] > q <=> k <= Count(K, q)
  BY <1>1, <1>2, ListingOf
<1>4. \A q \in K : Count(K, q) \in Nat
  BY Newers
<1>5. 1 \in 1..n
  <2>1. Count(K, m) + 1 \in 1..n /\ Count(K, m) \in Nat
    BY <1>3, <1>4
  <2> QED BY <1>3, <2>1
<1>a. PICK x : x = list[1]
  OBVIOUS
<1>b. x \in K /\ x \in Nat
  <2>1. \A d \in 1..Len(list) : list[d] \in K
    BY <1>3
  <2>2. 1 \in 1..Len(list)
    BY <1>3, <1>5
  <2> QED BY <1>a, <2>1, <2>2
<1>6. x \in Nat /\ x = list[1]
  BY <1>a, <1>b
<1>7. ASSUME NEW q \in K PROVE q <= x /\ q \in Nat
  <2>1. CASE Count(K, q) = 0
    BY <1>3, <1>6, <2>1
  <2>2. CASE Count(K, q) # 0
    <3>1. 1 <= Count(K, q)
      BY <1>4, <2>2
    <3>2. list[1] > q
      BY <1>3, <1>5, <3>1
    <3> QED BY <1>6, <3>2
  <2> QED BY <2>1, <2>2
<1> QED BY <1>6, <1>7

(* What was found and is newer than one comes before it in some folder.     *)
LEMMA FoundEntries ==
  ASSUME NEW F, NEW list, NEW open, NEW b, FoldersOK(F, list, b), NEW c \in Nat,
         NEW m \in Found(F, list, open, b, c)
  PROVE  /\ Count(Found(F, list, open, b, c), m) <= Cardinality(Entries(F, list, open, b, c, m))
         /\ Count(Found(F, list, open, b, c), m) \in Nat
         /\ Cardinality(Entries(F, list, open, b, c, m)) \in Nat
<1>1. PICK K : K = Found(F, list, open, b, c)
  OBVIOUS
<1>2. IsFiniteSet(K) /\ K \in SUBSET Nat /\ IsFiniteSet(Newer(K, m))
  BY <1>1, FoundFinite
<1>3. m \in K /\ m \in Nat
  BY <1>1, <1>2
<1>4. PICK x \in Nat : m <= x /\ \A q \in K : q <= x
  BY <1>2, <1>3, Newest
<1>5. PICK Q : Q = Newer(K, m)
  OBVIOUS
<1>6. \A q \in Q : Placed(F, list, open, b, c, q) /\ m < q /\ q <= x
  <2> SUFFICES ASSUME NEW q \in Q PROVE Placed(F, list, open, b, c, q) /\ m < q /\ q <= x
    OBVIOUS
  <2>1. q \in K /\ q > m
    BY <1>5 DEF Newer
  <2>2. q \in Nat
    BY <1>2, <2>1
  <2> QED BY <1>1, <1>3, <1>4, <2>1, <2>2 DEF Found
<1>7. IsFiniteSet(Q)
  BY <1>2, <1>5
<1>8. /\ Cardinality(Entries(F, list, open, b, c, x)) + Cardinality(Q)
           <= Cardinality(Entries(F, list, open, b, c, m))
      /\ Cardinality(Q) \in Nat
      /\ Cardinality(Entries(F, list, open, b, c, x)) \in Nat
      /\ Cardinality(Entries(F, list, open, b, c, m)) \in Nat
  BY <1>3, <1>4, <1>6, <1>7, MoreEntries
<1>9. Count(K, m) = Cardinality(Q)
  BY <1>5 DEF Count
<1> QED BY <1>1, <1>8, <1>9

(* A thread's page from o on: whoever is kept is on it, or behind o + l.    *)
LEMMA ThreadKept ==
  ASSUME NEW F, NEW list, NEW open, NEW b, NEW c, NEW post, NEW U, NEW o,
         Setting(TRUE, F, list, b, c, c, post, U, o), NEW n \in Nat, NEW B,
         Hides(TRUE, F, list, open, b, c, c, post, U, n, o, B), NEW m \in U \ B
  PROVE  m \in Found(F, list, open, b, c) /\ o <= Count(Found(F, list, open, b, c), m)
<1>1. /\ FoldersOK(F, list, b) /\ c \in Nat /\ Sizes(F, list, b, c) /\ U \in SUBSET Nat
  BY DEF Setting
<1>2. PICK g \in F : m \in b[g]
  BY DEF Setting
<1>3. Kept(list, open, b, g, m)
  BY <1>2 DEF Hides, KeptAll
<1>4. Len(list[g]) <= c /\ Cardinality(b[g]) <= c
  BY <1>1, <1>2 DEF Sizes
<1>5. Placed(F, list, open, b, c, m)
  BY <1>1, <1>2, <1>3, <1>4, FitsAll
<1>6. m \in Nat
  BY <1>1
<1>7. o <= Rank(TRUE, F, list, open, b, c, m)
  BY DEF Hides
<1> QED BY <1>5, <1>6, <1>7 DEF Found, Rank

LEMMA AnswersThread ==
  ASSUME Paging!ConstantsOK, PagingInv, walk.state = "busy", Paging!Answered, walk.mode = "thread"
  PROVE  AnswerOK(matches, walk, Paging!GetThread(walk))
<1>1. /\ WalkOK(matches, walk) /\ BoxesOK(matches, newest) /\ PartsOK(walk, parts) /\ MaxMsg \in Nat
      /\ Progress(matches, walk, parts) /\ Several(walk)
  BY DEF PagingInv, Paging!ConstantsOK, Several
<1>2. PICK F, list, open, c, post, U : /\ F = DOMAIN parts /\ list = ListOf(parts) /\ open = OpenOf(walk, parts)
                                       /\ c = Longest(walk) /\ post = Post(matches, walk) /\ U = Absent(walk)
  OBVIOUS
<1>3. PICK o \in Nat, l \in Nat, n \in Nat : o = walk.offset /\ l = walk.limit /\ n = walk.slack /\ l > 0
  BY <1>1, WalkFields
<1>4. PICK sets : sets = (walk.mode = "thread") /\ sets = TRUE
  OBVIOUS
<1>5. Cap(walk) = c
  BY <1>2 DEF Cap
<1>6. Setting(TRUE, F, list, matches, c, c, post, U, o)
  <2>1. Setting(walk.mode = "thread", DOMAIN parts, ListOf(parts), matches, Longest(walk), Cap(walk),
                Post(matches, walk), Absent(walk), walk.offset)
    BY <1>1, SettingOf
  <2> QED BY <1>2, <1>3, <1>4, <1>5, <2>1
<1>7. PICK K : K = UNION {Paging!Range(parts[f].items) : f \in DOMAIN parts}
  OBVIOUS
<1>8. K = Found(F, list, open, matches, c)
  BY <1>2, <1>7, ThreadFound
<1>9. FoldersOK(F, list, matches) /\ c \in Nat /\ U \in SUBSET Nat
  BY <1>6 DEF Setting
<1>10. IsFiniteSet(K) /\ K \in SUBSET Nat
  BY <1>8, <1>9, FoundFinite
<1>11. PICK posts, N : posts = Paging!Listing(K) /\ N = Cardinality(K)
  OBVIOUS
<1>12. /\ posts \in Seq(K) /\ Len(posts) = N /\ N \in Nat
       /\ \A m \in K : Count(K, m) + 1 \in 1..N /\ posts[Count(K, m) + 1] = m
  BY <1>10, <1>11, ListingOf
<1>13. posts \in Seq(Nat)
  BY <1>10, <1>12, Wider
<1>14. PICK hi, lo : hi = Paging!Most(0, Len(posts) - o) /\ lo = Paging!Most(0, hi - l)
  OBVIOUS
<1>15. PICK page : page = SubSeq(posts, Len(posts) - hi + 1, Len(posts) - lo)
  OBVIOUS
<1>16. PICK next : next = IF lo > 0 THEN o + Len(page) ELSE -1
  OBVIOUS
<1>17. /\ page \in Seq(Nat)
       /\ \A k \in 1..Len(posts) : o < k /\ k <= o + l => posts[k] \in Paging!Range(page)
       /\ next = IF o + l < Len(posts) THEN o + l ELSE -1
  BY <1>3, <1>13, <1>14, <1>15, <1>16, Window
<1>18. PICK a : a = Paging!GetThread(walk)
  OBVIOUS
<1>19. a = [page |-> page, sure |-> TRUE, next |-> next]
  BY <1>3, <1>7, <1>11, <1>14, <1>15, <1>16, <1>18 DEF Paging!GetThread, Paging!None
<1>20. next \in Nat \cup {-1}
  BY <1>17
<1>21. AnswerType(a)
  BY <1>17, <1>19, <1>20 DEF AnswerType
<1>22. ASSUME Honest(walk)
       PROVE  /\ next \in Nat => Cardinality(Behind(post, Remaining(walk, a), next)) <= n
              /\ next \notin Nat => Cardinality(Remaining(walk, a)) <= n
  <2>1. \A f \in DOMAIN parts : parts[f].phase # "failed"
    <3> SUFFICES ASSUME NEW f \in DOMAIN parts PROVE parts[f].phase # "failed"
      OBVIOUS
    <3>1. PartOK(walk, parts[f])
      BY <1>1, BusyParts
    <3> QED BY <3>1 DEF PartOK, Paging!V4
  <2>2. Multi(TRUE, F, list, open, matches, c, c, post, U, n, o)
    <3>1. SeveralBusy(matches, walk, parts)
      BY <1>1, <1>22 DEF Progress
    <3>2. Multi(walk.mode = "thread", DOMAIN parts, ListOf(parts), OpenOf(walk, parts), matches, Longest(walk),
                Cap(walk), Post(matches, walk), Absent(walk), walk.slack, walk.offset)
      BY <2>1, <3>1 DEF SeveralBusy
    <3> QED BY <1>2, <1>3, <1>4, <1>5, <3>2
  <2>3. PICK B : Hides(TRUE, F, list, open, matches, c, c, post, U, n, o, B)
    BY <2>2 DEF Multi
  <2>4. PICK V : V = Remaining(walk, a)
    OBVIOUS
  <2>5. V \in SUBSET U /\ \A m \in V : m \notin Paging!Range(page)
    BY <1>2, <1>19, <2>4 DEF Remaining
  <2>6. ASSUME NEW m \in V \ B
        PROVE  /\ o + l <= Count(K, m) /\ Count(K, m) < N /\ Count(K, m) \in Nat
               /\ Count(K, m) <= Cardinality(Entries(F, list, open, matches, c, m))
               /\ Cardinality(Entries(F, list, open, matches, c, m)) \in Nat
    <3>1. m \in U \ B
      BY <2>5
    <3>2. m \in Found(F, list, open, matches, c) /\ o <= Count(Found(F, list, open, matches, c), m)
      BY <1>6, <2>3, <3>1, ThreadKept
    <3>3. /\ Count(K, m) <= Cardinality(Entries(F, list, open, matches, c, m)) /\ Count(K, m) \in Nat
          /\ Cardinality(Entries(F, list, open, matches, c, m)) \in Nat
      BY <1>8, <1>9, <3>2, FoundEntries
    <3>4. PICK k \in Nat : k = Count(K, m) /\ o <= k
      BY <1>8, <3>2, <3>3
    <3>5. k + 1 \in 1..N /\ posts[k + 1] = m
      BY <1>8, <1>12, <3>2, <3>4
    <3>6. ~(k + 1 <= o + l)
      <4>1. m \notin Paging!Range(page)
        BY <2>5
      <4>2. k + 1 \in 1..Len(posts) /\ o < k + 1
        BY <1>3, <1>12, <3>4, <3>5
      <4> QED BY <1>17, <3>5, <4>1, <4>2
    <3>7. o + l <= k /\ k < N
      BY <1>3, <1>12, <3>4, <3>5, <3>6
    <3> QED BY <3>3, <3>4, <3>7
  <2>7. CASE o + l < N
    <3>1. next = o + l /\ next \in Nat
      BY <1>3, <1>12, <1>17, <2>7
    <3>2. \A m \in V \ B : next <= Cardinality(Entries(F, list, open, matches, c, m))
      <4> SUFFICES ASSUME NEW m \in V \ B PROVE next <= Cardinality(Entries(F, list, open, matches, c, m))
        OBVIOUS
      <4> QED BY <2>6, <3>1
    <3>3. post \in SUBSET Nat
      BY <1>1, <1>2, Boxed
    <3>4. Cardinality(Behind(post, V, next)) <= n
      <4>1. PICK t \in BOOLEAN, d \in Nat : t = TRUE /\ d = next
        BY <3>1
      <4>2. /\ Setting(t, F, list, matches, c, c, post, U, o) /\ Hides(t, F, list, open, matches, c, c, post, U, n, o, B)
            /\ V \in SUBSET U /\ post \in SUBSET Nat
            /\ Past(d, V \ B, F, list, open, matches, c)
        BY <1>6, <2>3, <2>5, <3>2, <3>3, <4>1 DEF Past
      <4>3. Cardinality(Behind(post, V, d)) <= n
        BY <4>2, MultiEnds
      <4> QED BY <4>1, <4>3
    <3> QED BY <2>4, <3>1, <3>4
  <2>8. CASE ~(o + l < N)
    <3>1. next \notin Nat
      BY <1>12, <1>17, <2>8
    <3>2. V \in SUBSET B
      <4> SUFFICES ASSUME NEW m \in V, m \notin B PROVE FALSE
        OBVIOUS
      <4>1. PICK k \in Nat : k = Count(K, m) /\ o + l <= k /\ k < N
        BY <2>6
      <4> QED BY <1>3, <1>12, <2>8, <4>1
    <3>3. B \in SUBSET U /\ Cardinality(B) <= n
      BY <2>3 DEF Hides, Reach
    <3>4. IsFiniteSet(U)
      BY <1>6 DEF Setting
    <3>5. IsFiniteSet(B) /\ Cardinality(B) \in Nat
      BY <3>3, <3>4, Subsets
    <3>6. Cardinality(V) <= Cardinality(B) /\ Cardinality(V) \in Nat
      BY <3>2, <3>5, Subsets
    <3> QED BY <2>4, <3>1, <3>3, <3>5, <3>6
  <2> QED BY <2>7, <2>8
<1> QED BY <1>2, <1>3, <1>18, <1>19, <1>21, <1>22 DEF AnswerOK

(* The hits newer than a message, as places in the folders.                 *)
LEMMA GivenEntries ==
  ASSUME Paging!ConstantsOK, PagingInv, walk.state = "busy", NEW n \in Nat, NEW m \in Nat,
         NEW open, \A f \in open : f \in DOMAIN parts => n <= Len(parts[f].items)
  PROVE  LET G == {h \in Paging!Given(walk, n) : Paging!Item(walk, h) > m}
             E == Entries(DOMAIN parts, ListOf(parts), open, matches, n, m)
         IN Cardinality(E) = Cardinality(G) /\ Cardinality(G) \in Nat
<1>1. WalkOK(matches, walk) /\ PartsOK(walk, parts) /\ MaxMsg \in Nat
  BY DEF PagingInv, Paging!ConstantsOK
<1>2. PICK F, list, scope, N : /\ F = DOMAIN parts /\ list = ListOf(parts) /\ scope = walk.scope
                               /\ N = Len(scope)
  OBVIOUS
<1>3. /\ scope \in Seq(Paging!Folders) /\ N \in Nat /\ Paging!IsInjective(scope)
      /\ F = Paging!Range(scope)
  BY <1>1, <1>2, WalkFields DEF WalkOK, PartsOK
<1>4. DOMAIN scope = 1..N
  BY <1>2, <1>3
<1>5. \A f \in F : list[f] = parts[f].items /\ Len(list[f]) \in Nat
  <2> SUFFICES ASSUME NEW f \in F PROVE list[f] = parts[f].items /\ Len(list[f]) \in Nat
    OBVIOUS
  <2>1. list[f] = parts[f].items
    BY <1>2 DEF ListOf
  <2>2. Len(parts[f].items) \in Nat
    BY <1>1, <1>2, BusyParts
  <2> QED BY <2>1, <2>2
<1>6. PICK E : E = Entries(F, list, open, matches, n, m)
  OBVIOUS
<1>7. /\ \A f \in F, k \in 1..n : <<f, k>> \in E <=> Prior(list, open, matches, f, k, m)
      /\ \A h \in E : h[1] \in F /\ h[2] \in 1..n /\ h = <<h[1], h[2]>> /\ Prior(list, open, matches, h[1], h[2], m)
  BY <1>6, EntryShape
<1>8. PICK G : G = {h \in Paging!Given(walk, n) : Paging!Item(walk, h) > m}
  OBVIOUS
<1>9. /\ IsFiniteSet(Paging!Given(walk, n))
      /\ \A h \in Paging!Given(walk, n) :
           /\ h = <<h[1], h[2]>> /\ h[1] \in 1..N /\ h[2] \in 1..n /\ scope[h[1]] \in F
           /\ h[2] \in 1..Len(list[scope[h[1]]])
  <2>1. /\ IsFiniteSet(Paging!Given(walk, n))
        /\ \A h \in Paging!Given(walk, n) :
             /\ h = <<h[1], h[2]>> /\ h[1] \in 1..Len(walk.scope) /\ h[2] \in 1..n
             /\ walk.scope[h[1]] \in DOMAIN parts
             /\ h[2] \in 1..Len(parts[walk.scope[h[1]]].items)
    BY Gives
  <2> QED BY <1>2, <1>5, <2>1
<1>10. \A i \in 1..N, k \in 1..n : k <= Len(list[scope[i]]) /\ scope[i] \in F =>
         /\ <<i, k>> \in Paging!Given(walk, n) /\ Paging!Item(walk, <<i, k>>) = list[scope[i]][k]
  BY <1>2, <1>5, Gives
<1>11. PICK e : e = [h \in G |-> <<scope[h[1]], h[2]>>]
  OBVIOUS
<1>12. ASSUME NEW h \in G PROVE e[h] \in E
  <2>1. /\ h = <<h[1], h[2]>> /\ h[1] \in 1..N /\ h[2] \in 1..n /\ scope[h[1]] \in F
        /\ h[2] \in 1..Len(list[scope[h[1]]]) /\ Paging!Item(walk, h) > m
    BY <1>8, <1>9
  <2>2. PICK i \in 1..N, k \in 1..n : i = h[1] /\ k = h[2]
    BY <2>1
  <2>3. h = <<i, k>> /\ scope[i] \in F /\ k <= Len(list[scope[i]])
    BY <1>5, <2>1, <2>2
  <2>4. list[scope[i]][k] > m
    BY <1>10, <2>1, <2>3
  <2>5. Prior(list, open, matches, scope[i], k, m)
    BY <2>3, <2>4 DEF Prior
  <2>6. e[h] = <<scope[i], k>>
    BY <1>11, <2>2
  <2> QED BY <1>7, <2>3, <2>5, <2>6
<1>13. ASSUME NEW x \in G, NEW y \in G, e[x] = e[y] PROVE x = y
  <2>1. /\ x = <<x[1], x[2]>> /\ x[1] \in 1..N
        /\ y = <<y[1], y[2]>> /\ y[1] \in 1..N
    BY <1>8, <1>9
  <2>2. e[x] = <<scope[x[1]], x[2]>> /\ e[y] = <<scope[y[1]], y[2]>>
    BY <1>11
  <2>3. scope[x[1]] = scope[y[1]] /\ x[2] = y[2]
    <3>1. PICK f, g, i, j : f = scope[x[1]] /\ g = scope[y[1]] /\ i = x[2] /\ j = y[2]
      OBVIOUS
    <3>2. <<f, i>> = <<g, j>>
      BY <1>13, <2>2, <3>1
    <3>3. f = g /\ i = j
      BY <3>2
    <3> QED BY <3>1, <3>3
  <2>4. x[1] = y[1]
    BY <1>3, <1>4, <2>1, <2>3 DEF Paging!IsInjective
  <2> QED BY <2>1, <2>3, <2>4
<1>14. ASSUME NEW h \in E PROVE \E x \in G : e[x] = h
  <2>1. PICK f \in F, k \in 1..n : h = <<f, k>> /\ Prior(list, open, matches, f, k, m)
    BY <1>7
  <2>2. PICK i \in 1..N : scope[i] = f
    BY <1>3, <1>4 DEF Paging!Range
  <2>3. k <= Len(list[f])
    <3> SUFFICES ASSUME ~(k <= Len(list[f])) PROVE FALSE
      OBVIOUS
    <3>1. f \in open
      BY <2>1 DEF Prior
    <3>2. n <= Len(list[f])
      BY <1>2, <1>5, <3>1
    <3>3. PICK d \in Nat : d = Len(list[f])
      BY <1>5
    <3> QED BY <3>2, <3>3
  <2>4. list[f][k] > m
    BY <2>1, <2>3 DEF Prior
  <2>5. <<i, k>> \in Paging!Given(walk, n) /\ Paging!Item(walk, <<i, k>>) = list[f][k]
    BY <1>10, <2>2, <2>3
  <2>6. <<i, k>> \in G
    BY <1>8, <2>4, <2>5
  <2>7. e[<<i, k>>] = <<scope[i], k>>
    BY <1>11, <2>6
  <2> QED BY <2>1, <2>2, <2>6, <2>7
<1>15. e \in Bijection(G, E)
  <2>1. e \in [G -> E]
    BY <1>11, <1>12
  <2>2. \A x, y \in G : e[x] = e[y] => x = y
    BY <1>13
  <2> QED BY <1>14, <2>1, <2>2 DEF Bijection, Injection, Surjection, IsInjective
<1>16. IsFiniteSet(G) /\ Cardinality(G) \in Nat
  BY <1>8, <1>9, Subsets
<1>17. Cardinality(G) = Cardinality(E)
  BY <1>15, <1>16, FS_Bijection DEF ExistsBijection
<1> QED BY <1>2, <1>6, <1>8, <1>16, <1>17

(* A page of the whole mailbox: whoever is kept is on it, or past its end,  *)
(* and then there is more.                                                  *)
OnOrPast(m, hits, o, W, open) ==
  \/ \E k \in 1..Len(hits) : hits[k] = m /\ o < k /\ k <= W
  \/ /\ W <= Cardinality(Entries(DOMAIN parts, ListOf(parts), open, matches, W, m))
     /\ Len(hits) > W \/ \E f \in DOMAIN parts : Len(parts[f].items) > W

LEMMA AllKept ==
  ASSUME Paging!ConstantsOK, PagingInv, walk.state = "busy", Paging!Answered, walk.mode = "all",
         NEW open, open = OpenOf(walk, parts), Paging!Failed = {},
         NEW o \in Nat, NEW W \in Nat, o = walk.offset, W = walk.offset + walk.limit,
         NEW hits, hits = Paging!Sorted(walk, Paging!Given(walk, W)),
         NEW g \in DOMAIN parts, NEW m \in Nat, Kept(ListOf(parts), open, matches, g, m),
         o <= Cardinality(Entries(DOMAIN parts, ListOf(parts), open, matches, W, m))
  PROVE  OnOrPast(m, hits, o, W, open)
<1>1. WalkOK(matches, walk) /\ BoxesOK(matches, newest) /\ PartsOK(walk, parts) /\ MaxMsg \in Nat
  BY DEF PagingInv, Paging!ConstantsOK
<1>2. PICK F, list, scope, N : /\ F = DOMAIN parts /\ list = ListOf(parts) /\ scope = walk.scope
                               /\ N = Len(scope)
  OBVIOUS
<1>3. IsFiniteSet(F) /\ F = Paging!Range(scope) /\ scope \in Seq(Paging!Folders) /\ N \in Nat
  BY <1>1, <1>2, Scope, WalkFields DEF PartsOK
<1>4. \A f \in F : list[f] = parts[f].items /\ Len(list[f]) \in Nat /\ list[f] \in Seq(Nat)
  <2> SUFFICES ASSUME NEW f \in F PROVE list[f] = parts[f].items /\ Len(list[f]) \in Nat /\ list[f] \in Seq(Nat)
    OBVIOUS
  <2>1. list[f] = parts[f].items
    BY <1>2 DEF ListOf
  <2>2. /\ parts[f] \in [phase : {"count", "slice", "done", "failed"}, total : Nat \cup {-1}, items : Seq(Nat)]
        /\ Len(parts[f].items) \in Nat
    BY <1>1, <1>2, BusyParts
  <2> QED BY <2>1, <2>2
<1>5. Paging!Budget(walk) = W + 1
  <2>1. Paging!Budget(walk) = walk.offset + walk.limit + 1
    BY <1>1, Budgets
  <2> QED BY <2>1
<1>6. \A f \in open : f \in F /\ Len(list[f]) > W
  <2> SUFFICES ASSUME NEW f \in open PROVE f \in F /\ Len(list[f]) > W
    OBVIOUS
  <2>1. f \in F /\ ~(parts[f].phase = "done" /\ Len(parts[f].items) < Paging!Budget(walk))
    BY <1>2 DEF OpenOf
  <2>2. parts[f].phase = "done"
    BY <1>2, <2>1 DEF Paging!Answered, Paging!Failed
  <2>3. PICK d \in Nat : d = Len(list[f])
    BY <1>4, <2>1
  <2>4. ~(d < W + 1)
    BY <1>4, <1>5, <2>1, <2>2, <2>3
  <2> QED BY <2>1, <2>3, <2>4
<1>7. PICK G, E : /\ G = {h \in Paging!Given(walk, W) : Paging!Item(walk, h) > m}
                  /\ E = Entries(F, list, open, matches, W, m)
  OBVIOUS
<1>8. Cardinality(E) = Cardinality(G) /\ Cardinality(G) \in Nat
  <2>1. \A f \in open : f \in DOMAIN parts => W <= Len(parts[f].items)
    BY <1>4, <1>6
  <2> QED BY <1>2, <1>7, <2>1, GivenEntries
<1>9. PICK d \in Nat : d = Cardinality(G) /\ o <= d
  BY <1>2, <1>7, <1>8
<1>10. CASE \E j \in 1..Len(list[g]) : list[g][j] = m /\ j <= W
  <2>1. PICK j \in 1..Len(list[g]) : list[g][j] = m /\ j <= W
    BY <1>10
  <2>2. PICK i \in 1..N : scope[i] = g
    <3>1. g \in Paging!Range(scope)
      BY <1>2, <1>3
    <3>2. DOMAIN scope = 1..N
      BY <1>2, <1>3
    <3> QED BY <3>1, <3>2 DEF Paging!Range
  <2>3. j \in 1..W /\ i \in 1..Len(walk.scope) /\ j <= Len(parts[walk.scope[i]].items)
        /\ parts[walk.scope[i]].items = list[g]
    BY <1>2, <1>4, <2>1, <2>2
  <2>4. /\ <<i, j>> \in Paging!Given(walk, W)
        /\ Paging!Item(walk, <<i, j>>) = parts[walk.scope[i]].items[j]
    BY <2>3, Gives
  <2>5. PICK H : H = Paging!Given(walk, W)
    OBVIOUS
  <2>6. /\ IsFiniteSet(H)
        /\ \A h \in H : h = <<h[1], h[2]>> /\ h[1] \in Nat /\ h[2] \in Nat /\ Paging!Item(walk, h) \in Nat
    BY <2>5, Gives
  <2>7. PICK x \in H : Paging!Item(walk, x) = m
    BY <2>1, <2>3, <2>4, <2>5
  <2>8. PICK w, L : w = walk /\ L = Paging!Sorted(w, H)
    OBVIOUS
  <2>9. LET Q == {h \in H : Paging!Item(w, h) > m} IN
        Cardinality(Q) \in Nat /\ Cardinality(Q) + 1 \in 1..Len(L) /\ L[Cardinality(Q) + 1] = m
    <3>1. /\ \A h \in H : h = <<h[1], h[2]>> /\ h[1] \in Nat /\ h[2] \in Nat /\ Paging!Item(w, h) \in Nat
          /\ Paging!Item(w, x) = m
      BY <2>6, <2>7, <2>8
    <3> QED BY <2>6, <2>8, <3>1, SortedPlace
  <2>10. d + 1 \in 1..Len(hits) /\ hits[d + 1] = m
    BY <1>7, <1>9, <2>5, <2>8, <2>9
  <2>11. CASE d + 1 <= W
    <3>1. o < d + 1
      BY <1>9
    <3> QED BY <2>10, <2>11, <3>1 DEF OnOrPast
  <2>12. CASE ~(d + 1 <= W)
    <3>1. W <= d /\ Len(hits) > W
      BY <2>10, <2>12
    <3> QED BY <1>2, <1>7, <1>8, <1>9, <3>1 DEF OnOrPast
  <2> QED BY <2>11, <2>12
<1>11. CASE ~(\E j \in 1..Len(list[g]) : list[g][j] = m /\ j <= W)
  <2>1. PICK n \in Nat : n = Len(list[g])
    BY <1>2, <1>4
  <2>2. /\ \A k \in 1..n : list[g][k] > m \/ \E j \in 1..k : list[g][j] = m
        /\ (\E j \in 1..n : list[g][j] = m) \/ g \in open
    BY <1>2, <2>1 DEF Kept
  <2>3. n > W
    <3>1. CASE \E j \in 1..n : list[g][j] = m
      <4>1. PICK j \in 1..n : list[g][j] = m
        BY <3>1
      <4>2. ~(j <= W)
        BY <1>11, <2>1, <4>1
      <4> QED BY <4>2
    <3>2. CASE g \in open
      BY <1>6, <2>1, <3>2
    <3> QED BY <2>2, <3>1, <3>2
  <2>4. ASSUME NEW k \in 1..W PROVE Prior(list, open, matches, g, k, m)
    <3>1. k \in 1..n /\ k <= n
      BY <2>3
    <3>2. ASSUME NEW j \in 1..k, list[g][j] = m PROVE FALSE
      <4>1. j \in 1..n /\ j <= W
        BY <2>3
      <4> QED BY <1>11, <2>1, <3>2, <4>1
    <3>3. list[g][k] > m
      BY <2>2, <3>1, <3>2
    <3> QED BY <2>1, <3>1, <3>3 DEF Prior
  <2>5. W <= Cardinality(Entries(F, list, open, matches, W, m))
    BY <1>2, <1>3, <2>4, FullEntries
  <2>6. Len(parts[g].items) > W
    BY <1>2, <1>4, <2>1, <2>3
  <2> QED BY <1>2, <2>5, <2>6 DEF OnOrPast
<1> QED BY <1>10, <1>11

LEMMA AnswersAll ==
  ASSUME Paging!ConstantsOK, PagingInv, walk.state = "busy", Paging!Answered, walk.mode = "all"
  PROVE  AnswerOK(matches, walk, Paging!SearchAllFolders(walk))
<1>1. /\ WalkOK(matches, walk) /\ BoxesOK(matches, newest) /\ PartsOK(walk, parts) /\ MaxMsg \in Nat
      /\ Progress(matches, walk, parts) /\ Several(walk)
  BY DEF PagingInv, Paging!ConstantsOK, Several
<1>2. PICK F, list, open, c, post, U : /\ F = DOMAIN parts /\ list = ListOf(parts) /\ open = OpenOf(walk, parts)
                                       /\ c = Longest(walk) /\ post = Post(matches, walk) /\ U = Absent(walk)
  OBVIOUS
<1>3. PICK o \in Nat, l \in Nat, n \in Nat : o = walk.offset /\ l = walk.limit /\ n = walk.slack /\ l > 0
  BY <1>1, WalkFields
<1>4. PICK W \in Nat : W = o + l
  BY <1>3
<1>5. Paging!Budget(walk) = W + 1 /\ c = W + 1 + MaxMsg /\ Cap(walk) = W
  <2>1. Paging!Budget(walk) = walk.offset + walk.limit + 1
    BY <1>1, Budgets
  <2> QED BY <1>2, <1>3, <1>4, <2>1 DEF Longest, Cap
<1>6. PICK sets \in BOOLEAN : sets = (walk.mode = "thread") /\ sets = FALSE
  OBVIOUS
<1>7. Setting(sets, F, list, matches, c, W, post, U, o)
  <2>1. Setting(walk.mode = "thread", DOMAIN parts, ListOf(parts), matches, Longest(walk), Cap(walk),
                Post(matches, walk), Absent(walk), walk.offset)
    BY <1>1, SettingOf
  <2> QED BY <1>2, <1>3, <1>5, <1>6, <2>1
<1>8. FoldersOK(F, list, matches) /\ c \in Nat /\ U \in SUBSET Nat /\ IsFiniteSet(U)
      /\ \A m \in U : \E g \in F : m \in matches[g]
  BY <1>7 DEF Setting
<1>9. PICK hits : hits = Paging!Sorted(walk, Paging!Given(walk, W))
  OBVIOUS
<1>10. hits \in Seq(Nat) /\ Len(hits) \in Nat
  BY <1>9, HitsOf
<1>11. PICK N \in Nat, j \in Nat : N = Len(hits) /\ j = Paging!Least(W, N) /\ j <= N /\ (N <= W => j = N)
                                   /\ (W <= N => j = W)
  BY <1>10 DEF Paging!Least
<1>12. PICK page : page = Cut(hits, o, j)
  OBVIOUS
<1>13. page \in Seq(Nat) /\ Fills(hits, o, j, page)
  <2>1. PICK s, S : s = hits /\ S = Nat
    OBVIOUS
  <2>2. s \in Seq(S) /\ j <= Len(s)
    BY <1>10, <1>11, <2>1
  <2>3. Cut(s, o, j) \in Seq(S) /\ Fills(s, o, j, Cut(s, o, j))
    BY <2>2, Cuts
  <2> QED BY <1>12, <2>1, <2>3
<1>14. PICK more, sure \in BOOLEAN : /\ more = ((\E f \in DOMAIN parts : Len(parts[f].items) > W) \/ N > W)
                                     /\ sure = (Paging!Failed = {})
  OBVIOUS
<1>15. PICK a : a = Paging!SearchAllFolders(walk)
  OBVIOUS
<1>16. a = [page |-> page, sure |-> sure, next |-> IF more THEN W ELSE -1]
  BY <1>3, <1>4, <1>9, <1>11, <1>12, <1>14, <1>15 DEF Paging!SearchAllFolders, Paging!None, Cut
<1>17. PICK next : next = (IF more THEN W ELSE -1) /\ next \in Nat \cup {-1}
  OBVIOUS
<1>18. AnswerType(a)
  BY <1>13, <1>14, <1>16, <1>17 DEF AnswerType
<1>19. ASSUME Honest(walk), a.sure
       PROVE  /\ next \in Nat => Cardinality(Behind(post, Remaining(walk, a), next)) <= n
              /\ next \notin Nat => Cardinality(Remaining(walk, a)) <= n
  <2>1. Paging!Failed = {}
    BY <1>14, <1>16, <1>19
  <2>2. Multi(sets, F, list, open, matches, c, W, post, U, n, o)
    <3>1. SeveralBusy(matches, walk, parts)
      BY <1>1, <1>19 DEF Progress
    <3>2. \A f \in DOMAIN parts : parts[f].phase # "failed"
      BY <2>1 DEF Paging!Failed
    <3>3. Multi(walk.mode = "thread", DOMAIN parts, ListOf(parts), OpenOf(walk, parts), matches, Longest(walk),
                Cap(walk), Post(matches, walk), Absent(walk), walk.slack, walk.offset)
      BY <3>1, <3>2 DEF SeveralBusy
    <3> QED BY <1>2, <1>3, <1>5, <1>6, <3>3
  <2>3. PICK B : Hides(sets, F, list, open, matches, c, W, post, U, n, o, B)
    BY <2>2 DEF Multi
  <2>4. PICK V : V = Remaining(walk, a)
    OBVIOUS
  <2>5. V \in SUBSET U /\ \A m \in V : m \notin Paging!Range(page)
    BY <1>2, <1>16, <2>4 DEF Remaining
  <2>6. ASSUME NEW m \in V \ B
        PROVE  more /\ W <= Cardinality(Entries(F, list, open, matches, c, m))
    <3>1. m \in U \ B /\ m \in Nat
      BY <1>8, <2>5
    <3>2. PICK g \in F : m \in matches[g]
      BY <1>8, <3>1
    <3>3. Kept(list, open, matches, g, m)
      BY <2>3, <3>1, <3>2 DEF Hides, KeptAll
    <3>4. o <= Cardinality(Entries(F, list, open, matches, W, m))
      BY <1>6, <2>3, <3>1 DEF Hides, Rank
    <3>5. \/ \E k \in 1..Len(hits) : hits[k] = m /\ o < k /\ k <= W
          \/ /\ W <= Cardinality(Entries(F, list, open, matches, W, m))
             /\ Len(hits) > W \/ \E f \in DOMAIN parts : Len(parts[f].items) > W
      <4>1. /\ open = OpenOf(walk, parts) /\ o = walk.offset /\ W = walk.offset + walk.limit
            /\ hits = Paging!Sorted(walk, Paging!Given(walk, W))
            /\ g \in DOMAIN parts /\ m \in Nat /\ Kept(ListOf(parts), open, matches, g, m)
            /\ o <= Cardinality(Entries(DOMAIN parts, ListOf(parts), open, matches, W, m))
        BY <1>2, <1>3, <1>4, <1>9, <3>1, <3>2, <3>3, <3>4
      <4>2. OnOrPast(m, hits, o, W, open)
        BY <2>1, <4>1, AllKept
      <4> QED BY <1>2, <4>2 DEF OnOrPast
    <3>6. ~(\E k \in 1..Len(hits) : hits[k] = m /\ o < k /\ k <= W)
      <4> SUFFICES ASSUME NEW k \in 1..Len(hits), hits[k] = m, o < k, k <= W PROVE FALSE
        OBVIOUS
      <4>1. k \in Nat /\ k <= N
        BY <1>11
      <4>2. k <= j
        BY <1>11, <4>1
      <4>3. hits[k] \in Paging!Range(page)
        BY <1>13, <4>2 DEF Fills
      <4> QED BY <2>5, <4>3
    <3>7. W <= Cardinality(Entries(F, list, open, matches, W, m)) /\ more
      BY <1>11, <1>14, <3>5, <3>6
    <3>8. Cardinality(Entries(F, list, open, matches, W, m)) <= Cardinality(Entries(F, list, open, matches, c, m))
      <4>1. W <= c
        BY <1>1, <1>5
      <4>2. Entries(F, list, open, matches, W, m) \in SUBSET Entries(F, list, open, matches, c, m)
        BY <1>8, <3>1, <4>1, EntriesGrow
      <4>3. IsFiniteSet(Entries(F, list, open, matches, c, m))
        BY <1>8, EntriesFinite DEF FoldersOK
      <4> QED BY <4>2, <4>3, Subsets
    <3>9. /\ Cardinality(Entries(F, list, open, matches, c, m)) \in Nat
          /\ Cardinality(Entries(F, list, open, matches, W, m)) \in Nat
      BY <1>8, EntriesFinite DEF FoldersOK
    <3> QED BY <3>7, <3>8, <3>9
  <2>7. CASE more
    <3>1. next = W
      BY <1>17, <2>7
    <3>2. post \in SUBSET Nat
      BY <1>1, <1>2, Boxed
    <3>3. Past(W, V \ B, F, list, open, matches, c)
      BY <2>6 DEF Past
    <3>4. Cardinality(Behind(post, V, W)) <= n
      BY <1>7, <2>3, <2>5, <3>2, <3>3, MultiEnds
    <3> QED BY <2>4, <3>1, <3>4
  <2>8. CASE ~more
    <3>1. next \notin Nat
      BY <1>17, <2>8
    <3>2. V \in SUBSET B
      BY <2>6, <2>8
    <3>3. B \in SUBSET U /\ Cardinality(B) <= n
      BY <2>3 DEF Hides, Reach
    <3>4. IsFiniteSet(B) /\ Cardinality(B) \in Nat
      BY <1>8, <3>3, Subsets
    <3>5. Cardinality(V) <= Cardinality(B) /\ Cardinality(V) \in Nat
      BY <3>2, <3>4, Subsets
    <3> QED BY <2>4, <3>1, <3>3, <3>4, <3>5
  <2> QED BY <2>7, <2>8
<1>20. a.next = next
  BY <1>16, <1>17
<1> QED BY <1>2, <1>3, <1>15, <1>18, <1>19, <1>20 DEF AnswerOK

LEMMA Answers ==
  ASSUME Paging!ConstantsOK, PagingInv, walk.state = "busy", Paging!Answered
  PROVE  AnswerOK(matches, walk, Paging!Answer(walk))
<1>1. WalkOK(matches, walk) /\ walk.mode \in Modes
  BY WalkFields DEF PagingInv
<1>2. CASE walk.mode = "quick"
  <2>1. Paging!Answer(walk) = Paging!CountedPage(walk, Paging!Hits(walk))
    BY <1>2 DEF Paging!Answer, Paging!SearchQuick
  <2>2. ~Several(walk) /\ walk.mode # "folder"
    BY <1>2 DEF Several
  <2> QED BY <2>1, <2>2, AnswersQuick
<1>3. CASE walk.mode = "advanced"
  <2>1. Paging!Answer(walk) = Paging!SearchAdvanced(walk)
    BY <1>3 DEF Paging!Answer
  <2> QED BY <1>3, <2>1, AnswersAdvanced
<1>4. CASE walk.mode \in {"full_text", "exact"}
  <2>1. Paging!Answer(walk) = Paging!SearchFullText(walk)
    BY <1>4 DEF Paging!Answer
  <2> QED BY <1>4, <2>1, AnswersFullText
<1>5. CASE walk.mode = "read"
  <2>1. Paging!Answer(walk) = Paging!ReadEmails(walk)
    BY <1>5 DEF Paging!Answer
  <2> QED BY <1>5, <2>1, AnswersRead
<1>6. CASE walk.mode = "thread"
  <2>1. Paging!Answer(walk) = Paging!GetThread(walk)
    BY <1>6 DEF Paging!Answer
  <2> QED BY <1>6, <2>1, AnswersThread
<1>7. CASE walk.mode = "cached"
  <2>1. Paging!Answer(walk) = Paging!SearchMessages(walk)
    BY <1>7 DEF Paging!Answer
  <2>2. Paging!SearchMessages(walk) = Paging!CountedPage(walk, Paging!Hits(walk))
    BY <1>7 DEF Paging!SearchMessages, Paging!SearchMirror
  <2>3. ~Several(walk) /\ walk.mode # "folder"
    BY <1>7 DEF Several
  <2> QED BY <2>1, <2>2, <2>3, AnswersQuick
<1>8. CASE walk.mode = "folder"
  <2>1. Paging!Answer(walk) = Paging!SearchMessages(walk)
    BY <1>8 DEF Paging!Answer
  <2>2. Paging!SearchMessages(walk) = Paging!Paginate(walk)
    BY <1>8 DEF Paging!SearchMessages
  <2> QED BY <1>8, <2>1, <2>2, AnswersFolder
<1>9. CASE walk.mode = "all"
  <2>1. Paging!Answer(walk) = Paging!SearchMessages(walk)
    BY <1>9 DEF Paging!Answer
  <2>2. Paging!SearchMessages(walk) = Paging!SearchAllFolders(walk)
    BY <1>9 DEF Paging!SearchMessages
  <2> QED BY <1>9, <2>1, <2>2, AnswersAll
<1> QED BY <1>1, <1>2, <1>3, <1>4, <1>5, <1>6, <1>7, <1>8, <1>9 DEF Modes, Paging!V4, Paging!V5

LEMMA RangeJoins ==
  ASSUME NEW s \in Seq(Nat), NEW t \in Seq(Nat)
  PROVE  s \o t \in Seq(Nat) /\ Paging!Range(s \o t) = Paging!Range(s) \cup Paging!Range(t)
<1>1. PICK u, i, j : u = s \o t /\ i = Len(s) /\ j = Len(t)
  OBVIOUS
<1>2. /\ u \in Seq(Nat) /\ Len(u) = i + j /\ i \in Nat /\ j \in Nat
      /\ \A k \in 1..i : u[k] = s[k]
      /\ \A k \in 1..j : u[i + k] = t[k]
  BY <1>1, Joins
<1>3. DOMAIN u = 1..(i + j) /\ DOMAIN s = 1..i /\ DOMAIN t = 1..j
  BY <1>1, <1>2
<1>4. ASSUME NEW x \in Paging!Range(u) PROVE x \in Paging!Range(s) \cup Paging!Range(t)
  <2>1. PICK k \in 1..(i + j) : x = u[k]
    BY <1>3 DEF Paging!Range
  <2>2. CASE k <= i
    <3>1. k \in 1..i
      BY <1>2, <2>2
    <3> QED BY <1>2, <1>3, <2>1, <3>1 DEF Paging!Range
  <2>3. CASE ~(k <= i)
    <3>1. PICK d \in 1..j : k = i + d
      <4>1. k - i \in 1..j /\ k = i + (k - i)
        BY <1>2, <2>3
      <4> QED BY <4>1
    <3> QED BY <1>2, <1>3, <2>1, <3>1 DEF Paging!Range
  <2> QED BY <2>2, <2>3
<1>5. ASSUME NEW x \in Paging!Range(s) PROVE x \in Paging!Range(u)
  <2>1. PICK k \in 1..i : x = s[k]
    BY <1>3 DEF Paging!Range
  <2>2. k \in DOMAIN u /\ u[k] = x
    BY <1>2, <1>3, <2>1
  <2> QED BY <2>2 DEF Paging!Range
<1>6. ASSUME NEW x \in Paging!Range(t) PROVE x \in Paging!Range(u)
  <2>1. PICK k \in 1..j : x = t[k]
    BY <1>3 DEF Paging!Range
  <2>2. i + k \in DOMAIN u /\ u[i + k] = x
    BY <1>2, <1>3, <2>1
  <2> QED BY <2>2 DEF Paging!Range
<1> QED BY <1>1, <1>2, <1>4, <1>5, <1>6

LEMMA ReplyStep == ASSUME Paging!ConstantsOK, PagingInv, Paging!Reply PROVE PagingInv'
<1>1. /\ walk.state = "busy" /\ Paging!Answered /\ parts' = << >> /\ matches' = matches /\ newest' = newest
  BY DEF Paging!Reply
<1>2. WalkOK(matches, walk) /\ BoxesOK(matches, newest) /\ MaxMsg \in Nat
  BY DEF PagingInv, Paging!ConstantsOK
<1>3. PICK a : a = Paging!Answer(walk)
  OBVIOUS
<1>4. AnswerOK(matches, walk, a)
  BY <1>1, <1>3, Answers
<1>5. CASE walk.mode = "all" /\ Paging!Failed = DOMAIN parts
  <2>1. walk' = [walk EXCEPT !.state = "ask"]
    BY <1>5 DEF Paging!Reply
  <2> QED BY <1>1, <2>1, AsksAgain
<1>6. CASE ~(walk.mode = "all" /\ Paging!Failed = DOMAIN parts)
  <2>1. walk' = [walk EXCEPT !.seen = @ \o a.page, !.sure = @ /\ a.sure, !.offset = a.next,
                             !.state = IF a.next = -1 THEN "over" ELSE "ask"]
    BY <1>3, <1>6 DEF Paging!Reply, Paging!None
  <2>2. PICK w : w = walk /\ w \in WalkRecord
    BY <1>2 DEF WalkOK
  <2>3. w.seen \in Seq(Nat) /\ w.sure \in BOOLEAN /\ w.slack \in Nat
    BY <2>2 DEF WalkRecord
  <2>4. a.page \in Seq(Nat) /\ a.sure \in BOOLEAN /\ a.next \in Nat \cup {-1}
    BY <1>4 DEF AnswerOK, AnswerType
  <2>5. PICK seen : seen = w.seen \o a.page /\ seen \in Seq(Nat)
                    /\ Paging!Range(seen) = Paging!Range(w.seen) \cup Paging!Range(a.page)
    BY <2>3, <2>4, RangeJoins
  <2>6. PICK sure \in BOOLEAN : sure = (w.sure /\ a.sure)
    BY <2>3, <2>4
  <2>7. PICK stage \in {"ask", "over"} : /\ stage = IF a.next = -1 THEN "over" ELSE "ask"
    OBVIOUS
  <2>8. PICK next \in Nat \cup {-1} : next = a.next
    BY <2>4
  <2>9. PICK v : v = walk'
    OBVIOUS
  <2>10. v = [w EXCEPT !.seen = seen, !.sure = sure, !.offset = next, !.state = stage]
    BY <2>1, <2>2, <2>5, <2>6, <2>7, <2>8, <2>9
  <2>11. /\ v \in WalkRecord /\ v.state = stage /\ v.mode = w.mode /\ v.scope = w.scope /\ v.limit = w.limit
         /\ v.offset = next /\ v.seen = seen /\ v.sure = sure /\ v.slack = w.slack /\ v.stayed = w.stayed
    BY <2>2, <2>5, <2>10 DEF WalkRecord
  <2>12. Post(matches, v) = Post(matches, w) /\ Absent(v) = Remaining(w, a)
    BY <2>5, <2>11 DEF Post, Absent, Remaining
  <2>13. stage # "over" => next \in Nat
    BY <2>7, <2>8
  <2>14. WalkOK(matches, v)
    BY <1>2, <2>2, <2>11, <2>12, <2>13 DEF WalkOK
  <2>15. Honest(v) => Honest(w) /\ a.sure
    BY <2>6, <2>11 DEF Honest
  <2>16. Honest(v) =>
           /\ next \in Nat => Cardinality(Behind(Post(matches, v), Absent(v), next)) <= v.slack
           /\ next \notin Nat => Cardinality(Absent(v)) <= v.slack
    BY <1>4, <2>2, <2>8, <2>11, <2>12, <2>15 DEF AnswerOK
  <2>17. Honest(v) /\ stage = "ask" => Border(matches, v)
    BY <2>11, <2>13, <2>16 DEF Border
  <2>18. PartsOK(v, << >>) /\ Progress(matches, v, << >>)
    BY <2>7, <2>11, <2>17 DEF PartsOK, Progress
  <2>19. Ended(v)
    BY <2>7, <2>8, <2>11, <2>16 DEF Ended
  <2> QED BY <1>1, <1>2, <2>9, <2>14, <2>18, <2>19 DEF PagingInv
<1> QED BY <1>5, <1>6

LEMMA ArriveStep ==
  ASSUME Paging!ConstantsOK, PagingInv, NEW f \in Paging!Range(walk.scope), Paging!Arrive(f) PROVE PagingInv'
<1>1. /\ walk.state \in {"ask", "busy"} /\ newest < MaxMsg /\ newest' = newest + 1 /\ parts' = parts
      /\ matches' = [matches EXCEPT ![f] = @ \cup {newest + 1}]
      /\ walk' = [walk EXCEPT !.changed = TRUE, !.slack = IF Paging!CountIsOut THEN @ + 1 ELSE @]
  BY DEF Paging!Arrive, Paging!Walking
<1>2. /\ WalkOK(matches, walk) /\ BoxesOK(matches, newest) /\ PartsOK(walk, parts) /\ MaxMsg \in Nat
      /\ Progress(matches, walk, parts)
  BY DEF PagingInv, Paging!ConstantsOK
<1>3. PICK w : w = walk /\ w \in WalkRecord
  BY <1>2 DEF WalkOK
<1>4. w.slack \in Nat
  BY <1>3 DEF WalkRecord
<1>5. PICK slack \in Nat : slack = IF Paging!CountIsOut THEN w.slack + 1 ELSE w.slack
  BY <1>4
<1>6. PICK v : v = walk'
  OBVIOUS
<1>7. v = [w EXCEPT !.changed = TRUE, !.slack = slack]
  BY <1>1, <1>3, <1>5, <1>6
<1>8. /\ v \in WalkRecord /\ v.state = w.state /\ v.mode = w.mode /\ v.scope = w.scope /\ v.limit = w.limit
      /\ v.offset = w.offset /\ v.seen = w.seen /\ v.sure = w.sure /\ v.slack = slack /\ v.stayed = w.stayed
  BY <1>3, <1>7 DEF WalkRecord
<1>9. SameWalk(w, v)
  BY <1>8 DEF SameWalk
<1>10. f \in Paging!Folders
  BY <1>2, Scope
<1>11. PICK z, a : z = newest + 1 /\ a = matches'
  OBVIOUS
<1>12. DOMAIN a = DOMAIN matches /\ Comes(Paging!Folders, matches, f, z, a)
  <2>1. DOMAIN matches = Paging!Folders
    BY <1>2 DEF BoxesOK
  <2> QED BY <1>1, <1>10, <1>11, <2>1 DEF Comes
<1>13. BoxesOK(a, z) /\ z \in Nat /\ \A g \in Paging!Folders : z \notin matches[g]
  BY <1>1, <1>2, <1>10, <1>11, <1>12, BoxesArrive
<1>14. z \notin Post(matches, w)
  <2>1. \A g \in Paging!Range(walk.scope) : g \in Paging!Folders
    BY <1>2, Scope
  <2> QED BY <1>3, <1>13, <2>1 DEF Post
<1>15. \/ v.slack = w.slack + 1
       \/ v.slack = w.slack /\ ~(w.state = "busy" /\ Paging!CountsFirst(w.mode) /\ Len(w.scope) = 1)
  BY <1>3, <1>5, <1>8 DEF Paging!CountIsOut
<1>16. WalkOK(a, v) /\ PartsOK(v, parts) /\ Progress(a, v, parts)
  <2>1. PICK b, last, p : b = matches /\ last = newest /\ p = parts
    OBVIOUS
  <2>2. /\ BoxesOK(b, last) /\ WalkOK(b, w) /\ PartsOK(w, p) /\ Progress(b, w, p)
        /\ w.state \in {"ask", "busy"} /\ f \in Paging!Range(w.scope) /\ z \notin Post(b, w)
        /\ Comes(Paging!Folders, b, f, z, a)
    BY <1>1, <1>2, <1>3, <1>12, <1>14, <2>1
  <2>3. WalkOK(a, v) /\ PartsOK(v, p) /\ Progress(a, v, p)
    BY <1>2, <1>8, <1>9, <1>13, <1>15, <2>2, WalkGains
  <2> QED BY <2>1, <2>3
<1>17. Ended(v)
  BY <1>1, <1>3, <1>8 DEF Ended
<1> QED BY <1>1, <1>6, <1>11, <1>13, <1>16, <1>17 DEF PagingInv

LEMMA GoStep ==
  ASSUME Paging!ConstantsOK, PagingInv, NEW f \in Paging!Range(walk.scope), NEW z, Paging!Go(f, z) PROVE PagingInv'
<1>1. PICK g \in Paging!Range(walk.scope) :
        matches' = [matches EXCEPT ![f] = @ \ {z}, ![g] = IF g = f THEN @ \ {z} ELSE @ \cup {z}]
  BY DEF Paging!Go
<1>2. /\ walk.state \in {"ask", "busy"} /\ newest' = newest /\ parts' = parts /\ z \in matches[f]
      /\ walk' = [walk EXCEPT !.changed = TRUE, !.slack = @ + 1, !.stayed = @ \ {z}]
  BY DEF Paging!Go, Paging!Walking
<1>3. /\ WalkOK(matches, walk) /\ BoxesOK(matches, newest) /\ PartsOK(walk, parts) /\ MaxMsg \in Nat
      /\ Progress(matches, walk, parts)
  BY DEF PagingInv, Paging!ConstantsOK
<1>4. PICK w : w = walk /\ w \in WalkRecord
  BY <1>3 DEF WalkOK
<1>5. w.slack \in Nat /\ w.stayed \in SUBSET Nat
  BY <1>4 DEF WalkRecord
<1>6. PICK slack \in Nat, stayed \in SUBSET Nat : slack = w.slack + 1 /\ stayed = w.stayed \ {z}
  <2>1. w.slack + 1 \in Nat /\ w.stayed \ {z} \in SUBSET Nat
    BY <1>5
  <2> QED BY <2>1
<1>7. PICK v : v = walk'
  OBVIOUS
<1>8. v = [w EXCEPT !.changed = TRUE, !.slack = slack, !.stayed = stayed]
  BY <1>2, <1>4, <1>6, <1>7
<1>9. /\ v \in WalkRecord /\ v.state = w.state /\ v.mode = w.mode /\ v.scope = w.scope /\ v.limit = w.limit
      /\ v.offset = w.offset /\ v.seen = w.seen /\ v.sure = w.sure /\ v.slack = slack /\ v.stayed = stayed
  BY <1>4, <1>8 DEF WalkRecord
<1>10. SameWalk(w, v)
  BY <1>9 DEF SameWalk
<1>11. PICK a : a = matches'
  OBVIOUS
<1>12. WalkOK(a, v) /\ BoxesOK(a, newest) /\ PartsOK(v, parts) /\ Progress(a, v, parts)
  <2>1. PICK b, last, p : b = matches /\ last = newest /\ p = parts
    OBVIOUS
  <2>2. /\ BoxesOK(b, last) /\ WalkOK(b, w) /\ PartsOK(w, p) /\ Progress(b, w, p)
        /\ w.state \in {"ask", "busy"} /\ f \in Paging!Range(w.scope) /\ g \in Paging!Range(w.scope)
        /\ z \in b[f]
        /\ Shift(b, f, g, z, a)
    BY <1>1, <1>2, <1>3, <1>4, <1>11, <2>1 DEF Shift
  <2>3. v \in WalkRecord /\ MaxMsg \in Nat /\ v.stayed = w.stayed \ {z} /\ v.slack = w.slack + 1
    BY <1>3, <1>6, <1>9
  <2>4. WalkOK(a, v) /\ BoxesOK(a, last) /\ PartsOK(v, p) /\ Progress(a, v, p)
    BY <1>10, <2>2, <2>3, WalkGoes
  <2> QED BY <2>1, <2>4
<1>13. Ended(v)
  BY <1>2, <1>4, <1>9 DEF Ended
<1> QED BY <1>2, <1>7, <1>11, <1>12, <1>13 DEF PagingInv

All(b, scope) == UNION {b[f] : f \in Paging!Range(scope)}

LEMMA Begins == ASSUME Paging!ConstantsOK, Paging!Init PROVE PagingInv
<1>1. PICK u \in Walks, limit \in Limits, at \in [1..Start -> Paging!Folders] :
        /\ Paging!Range(at) \subseteq Paging!Range(u[2])
        /\ matches = [f \in Paging!Folders |-> {m \in 1..Start : at[m] = f}]
        /\ walk = [state |-> "ask", mode |-> u[1], scope |-> u[2], limit |-> limit,
                   offset |-> 0, seen |-> <<>>, sure |-> TRUE, changed |-> FALSE,
                   slack |-> 0, stayed |-> Paging!Wanted(u[1], u[2], matches)]
  BY DEF Paging!Init
<1>2. newest = Start /\ parts = << >>
  BY DEF Paging!Init
<1>3. /\ u[1] \in Modes /\ u[2] \in Seq(Paging!Folders) /\ u[2] # << >> /\ Paging!IsInjective(u[2])
      /\ u[1] \in {"read", "cached", "folder"} => Len(u[2]) = 1
      /\ limit \in Nat \ {0} /\ MaxMsg \in Nat /\ Start \in 0..MaxMsg
  BY DEF Paging!ConstantsOK, Modes
<1>4. PICK mode, scope : mode = u[1] /\ scope = u[2]
  OBVIOUS
<1>5. PICK stayed : stayed = Paging!Wanted(mode, scope, matches)
  OBVIOUS
<1>6. PICK none : none = << >> /\ none \in Seq(Nat) /\ Len(none) = 0 /\ DOMAIN none = {}
  <2>1. << >> \in Seq(Nat) /\ Len(<< >>) = 0 /\ DOMAIN << >> = {}
    OBVIOUS
  <2> QED BY <2>1
<1>7. BoxesOK(matches, newest)
  <2>1. DOMAIN matches = Paging!Folders
    BY <1>1
  <2>2. \A f \in Paging!Folders : matches[f] = {m \in 1..Start : at[m] = f}
    BY <1>1
  <2>3. \A f, g \in Paging!Folders : f # g => matches[f] \cap matches[g] = {}
    BY <2>2
  <2> QED BY <1>2, <1>3, <2>1, <2>2, <2>3 DEF BoxesOK
<1>8. stayed \subseteq All(matches, scope) /\ (mode = "exact" => stayed \cap Loose = {})
  <2>1. ASSUME NEW x \in Paging!Wanted(mode, scope, matches) PROVE x \in All(matches, scope)
    BY DEF Paging!Wanted, All
  <2>2. ASSUME NEW x \in Paging!Wanted(mode, scope, matches), mode = "exact" PROVE x \notin Loose
    BY <2>2 DEF Paging!Wanted
  <2> QED BY <1>5, <2>1, <2>2
<1>9. stayed \in SUBSET Nat
  <2>1. \A f \in Paging!Range(scope) : f \in Paging!Folders
    BY <1>3, <1>4 DEF Paging!Range
  <2>2. \A f \in Paging!Folders : matches[f] \in SUBSET Nat
    BY <1>3, <1>7 DEF BoxesOK
  <2> QED BY <1>8, <2>1, <2>2 DEF All
<1>10. walk = [state |-> "ask", mode |-> mode, scope |-> scope, limit |-> limit, offset |-> 0, seen |-> none,
               sure |-> TRUE, changed |-> FALSE, slack |-> 0, stayed |-> stayed]
  BY <1>1, <1>4, <1>5, <1>6
<1>11. walk \in WalkRecord
  BY <1>3, <1>4, <1>6, <1>9, <1>10 DEF WalkRecord
<1>12. Len(scope) > 0
  BY <1>3, <1>4
<1>13. Post(matches, walk) = All(matches, scope)
  BY <1>10 DEF Post, All
<1>14. WalkOK(matches, walk)
  BY <1>3, <1>4, <1>8, <1>10, <1>11, <1>12, <1>13 DEF WalkOK
<1>15. PartsOK(walk, parts)
  BY <1>2, <1>10 DEF PartsOK
<1>16. Border(matches, walk)
  <2>1. PICK post, U : post = Post(matches, walk) /\ U = Absent(walk)
    OBVIOUS
  <2>2. IsFiniteSet(post) /\ post \in SUBSET Nat
    BY <1>3, <1>7, <1>14, <2>1, Boxed
  <2>3. \A m : Count(post, m) \in Nat
    BY <2>2, Newers
  <2>4. Behind(post, U, 0) = {}
    BY <2>3 DEF Behind
  <2>5. Cardinality(Behind(post, U, 0)) = 0
    BY <2>4, FS_EmptySet
  <2> QED BY <1>10, <2>1, <2>5 DEF Border
<1>17. Progress(matches, walk, parts) /\ Ended(walk)
  BY <1>10, <1>16 DEF Progress, Ended
<1> QED BY <1>7, <1>14, <1>15, <1>17 DEF PagingInv

LEMMA PagingSteps == ASSUME Paging!ConstantsOK, PagingInv, [Paging!Next]_Paging!vars PROVE PagingInv'
<1>1. CASE Paging!Serve
  BY <1>1, AskStep, ReplyStep, CountStep, SliceStep, FailStep DEF Paging!Serve
<1>2. ASSUME NEW f \in Paging!Range(walk.scope), Paging!Arrive(f) PROVE PagingInv'
  BY <1>2, ArriveStep
<1>3. ASSUME NEW f \in Paging!Range(walk.scope), NEW m \in Paging!Msgs, Paging!Go(f, m) PROVE PagingInv'
  BY <1>3, GoStep
<1>4. CASE UNCHANGED Paging!vars
  <2>1. matches' = matches /\ newest' = newest /\ walk' = walk /\ parts' = parts
    BY <1>4 DEF Paging!vars
  <2> QED BY <2>1 DEF PagingInv
<1> QED BY <1>1, <1>2, <1>3, <1>4 DEF Paging!Next

LEMMA PagingInvShows == ASSUME Paging!ConstantsOK, PagingInv PROVE Paging!MissesNeedChanges
<1>1. SUFFICES ASSUME walk.state = "over", walk.sure, Paging!OneFolderOrV5
               PROVE  Cardinality(Paging!Missed) <= walk.slack
  BY SameSets DEF Paging!MissesNeedChanges
<1>2. Honest(walk)
  BY <1>1 DEF Honest, Paging!OneFolderOrV5
<1>3. Paging!Missed = Absent(walk)
  BY DEF Paging!Missed, Absent
<1> QED BY <1>1, <1>2, <1>3 DEF PagingInv, Ended

(* A client that follows next_offset to the end, and was told of no gap,    *)
(* has seen every message that was there all the time, but for at most one  *)
(* per message that went or moved meanwhile, or arrived between a count and *)
(* its rows: in read_emails, in the v4 searches of one folder, and in       *)
(* search_messages and get_thread of v5 (email_tools.py:1060-1911,          *)
(* mail_read.py:353-800, gateway/client.py:201-229).                        *)
THEOREM MissesNeedChangesHolds == PagingSpec => []MissesNeedChanges
<1>1. Paging!Init => PagingInv
  BY WalksAssumption, Begins
<1>2. PagingInv /\ [Paging!Next]_Paging!vars => PagingInv'
  BY WalksAssumption, PagingSteps
<1>3. PagingInv => MissesNeedChanges
  BY WalksAssumption, PagingInvShows DEF MissesNeedChanges
<1> QED BY <1>1, <1>2, <1>3, PTL DEF PagingSpec, Paging!Spec
=============================================================================
