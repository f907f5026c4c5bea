----------------------------- MODULE MirrorSync -----------------------------
(***************************************************************************)
(* The local mirror of one mail folder: the delta sync                     *)
(* (v5/ewsmcp/cache/sync.py), the store's transactions                     *)
(* (v5/ewsmcp/cache/store.py) and the write-through of the write tools     *)
(* (v5/ewsmcp/tools/writes.py), while other clients change the mailbox.    *)
(*                                                                         *)
(* Exchange answers SyncFolderItems in pages: what changed of some items   *)
(* since a state, and the state after the page.  A state is a function     *)
(* from items to the last change of each that it covers, 0 for an item it  *)
(* does not know.  An id that is gone never comes back.  `cat' stands for  *)
(* all of a message but its read flag: Exchange reports the two apart.     *)
(***************************************************************************)
EXTENDS Naturals, FiniteSets

CONSTANTS
  Items,       (* EWS ids of the folder's messages                         *)
  Cats,        (* contents of a message                                    *)
  Tools,       (* concurrent tool calls, one message each                  *)
  PageSize,    (* changes in a page of the stream                          *)
  SavesFail,   (* may Exchange refuse a tool's save?                       *)
  MaxChanges, MaxFaults,   (* bounds of the checked instances              *)
  NoRow, NoJob

ASSUME PageAssumption == PageSize \in Nat \ {0}
ASSUME SavesAssumption == SavesFail \in BOOLEAN

Row == [read : BOOLEAN, cat : Cats]
ASSUME CatsAssumption == Cats # {}
ASSUME RowAssumption == NoRow \notin Row

VARIABLES
  box,         (* Exchange: the messages and when they changed             *)
  changes,     (* number of changes of the mailbox, its clock              *)
  aged,        (* messages received before the mirror's window             *)
  rows,        (* table messages                                           *)
  token,       (* table sync_state: the saved state                        *)
  cycle,       (* the sync cycle, its stream's state and what it collected *)
  job,         (* tool calls whose work at Exchange is done                *)
  faults,      (* failed cycles, lost patches and restarts so far          *)
  touched,     (* history: messages whose content a tool has patched       *)
  interrupted  (* history: messages stored by a cycle that then failed     *)

mailbox == <<box, changes, aged>>
history == <<touched, interrupted>>
vars == <<mailbox, rows, token, cycle, job, faults, history>>

States == [Items -> Nat]
Unseen == [i \in Items |-> 0]
NoRows == [i \in Items |-> NoRow]
NoFlags == [i \in Items |-> "none"]

(* The cycle between two rounds: its lists are locals of the call           *)
Idle == [pc |-> "idle", seen |-> Unseen, up |-> NoRows, del |-> {}, flags |-> NoFlags]

New == [here |-> FALSE, at |-> 0, edit |-> 0, read |-> FALSE, cat |-> CHOOSE c \in Cats : TRUE]

Init ==
  /\ box = [i \in Items |-> New]
  /\ changes = 0 /\ aged = {}
  /\ rows = NoRows /\ token = Unseen
  /\ cycle = Idle
  /\ job = [t \in Tools |-> NoJob]
  /\ faults = 0
  /\ touched = {} /\ interrupted = {}

-----------------------------------------------------------------------------
(* The mailbox *)

Change(i, message) ==
  /\ changes < MaxChanges /\ changes' = changes + 1
  /\ box' = [box EXCEPT ![i] = message]
  /\ UNCHANGED aged

Arrived == [New EXCEPT !.here = TRUE, !.at = changes + 1, !.edit = changes + 1]
Marked(i, read) == [box[i] EXCEPT !.read = read, !.at = changes + 1]
Categorized(i, cat) ==
  [box[i] EXCEPT !.cat = cat, !.at = changes + 1, !.edit = changes + 1]
Removed(i) == [box[i] EXCEPT !.here = FALSE, !.at = changes + 1]

(* Somebody else at work in the mailbox *)
Outlook(i) ==
  /\ \/ box[i].at = 0 /\ Change(i, Arrived)
     \/ box[i].here /\ Change(i, Marked(i, ~box[i].read))
     \/ box[i].here /\ \E cat \in Cats \ {box[i].cat} : Change(i, Categorized(i, cat))
     \/ box[i].here /\ Change(i, Removed(i))
  /\ UNCHANGED <<rows, token, cycle, job, faults, history>>

(* Time passes: the message leaves the window                               *)
AgeOut(i) ==
  /\ box[i].here /\ i \notin aged
  /\ aged' = aged \union {i}
  /\ UNCHANGED <<box, changes, rows, token, cycle, job, faults, history>>

-----------------------------------------------------------------------------
(* The sync cycle *)

Pending(s) ==
  {i \in Items : IF box[i].here THEN box[i].at > s[i] ELSE s[i] # 0}

StartCycle ==
  /\ cycle.pc = "idle"
  /\ cycle' = [Idle EXCEPT !.pc = "fetch", !.seen = token]
  /\ UNCHANGED <<mailbox, rows, token, job, faults, history>>

(* What a page reports, sorted into the cycle's lists; contents of messages *)
(* outside the window are skipped, read flags and deletions are not         *)
Upserts(page) ==
  {i \in page : box[i].here /\ (cycle.seen[i] = 0 \/ box[i].edit > cycle.seen[i])}
(* row_from_message *)
RowOf(i) == [read |-> box[i].read, cat |-> box[i].cat]

Deletes(page) == {i \in page : ~box[i].here}
FlagChanges(page) == page \ (Upserts(page) \union Deletes(page))

Collected(page, last) ==
  [pc |-> IF last THEN "upsert" ELSE "fetch",
   seen |-> [i \in Items |-> IF i \notin page THEN cycle.seen[i]
                             ELSE IF box[i].here THEN box[i].at ELSE 0],
   up |-> [i \in Items |-> IF i \in Upserts(page) \ aged
                           THEN RowOf(i) ELSE cycle.up[i]],
   del |-> cycle.del \union Deletes(page),
   flags |-> [i \in Items |-> IF i \in FlagChanges(page)
                              THEN (IF box[i].read THEN "read" ELSE "unread")
                              ELSE cycle.flags[i]]]

Page(page) ==
  LET pending == Pending(cycle.seen) IN
  /\ page \subseteq pending
  /\ Cardinality(page) = PageSize \/ page = pending
  /\ Cardinality(page) <= PageSize

(* Mutant: the state is saved with the page, before what it covers is       *)
FetchPageSaving(page) ==
  /\ cycle.pc = "fetch" /\ Page(page)
  /\ cycle' = Collected(page, page = Pending(cycle.seen))
  /\ token' = cycle'.seen
  /\ UNCHANGED <<mailbox, rows, job, faults, history>>

FetchPage(page) ==
  /\ cycle.pc = "fetch" /\ Page(page)
  /\ cycle' = Collected(page, page = Pending(cycle.seen))
  /\ UNCHANGED <<mailbox, rows, token, job, faults, history>>

(* upsert_messages, one transaction                                         *)
Upsert ==
  /\ cycle.pc = "upsert"
  /\ rows' = [i \in Items |-> IF cycle.up[i] = NoRow THEN rows[i] ELSE cycle.up[i]]
  /\ cycle' = [cycle EXCEPT !.pc = "delete"]
  /\ UNCHANGED <<mailbox, token, job, faults, history>>

(* Mutant: a message the cycle has stored is not deleted by it              *)
GoneUnlessStored == {i \in cycle.del : cycle.up[i] = NoRow}
Gone == cycle.del

(* delete_messages_by_id, one transaction                                   *)
Delete ==
  /\ cycle.pc = "delete"
  /\ rows' = [i \in Items |-> IF i \in Gone THEN NoRow ELSE rows[i]]
  /\ cycle' = [cycle EXCEPT !.pc = "flags"]
  /\ UNCHANGED <<mailbox, token, job, faults, history>>

SetRead(i, read) ==
  IF rows[i] = NoRow THEN rows ELSE [rows EXCEPT ![i].read = read]

(* set_read_flag, a transaction for each message                            *)
SetFlag(i) ==
  /\ cycle.pc = "flags" /\ cycle.flags[i] # "none"
  /\ rows' = SetRead(i, cycle.flags[i] = "read")
  /\ cycle' = [cycle EXCEPT !.flags[i] = "none"]
  /\ UNCHANGED <<mailbox, token, job, faults, history>>

(* set_sync_state *)
SaveToken ==
  /\ cycle.pc = "flags" /\ cycle.flags = NoFlags
  /\ token' = cycle.seen
  /\ cycle' = Idle
  /\ UNCHANGED <<mailbox, rows, job, faults, history>>

Fault == faults < MaxFaults /\ faults' = faults + 1

Stored == IF cycle.pc \in {"delete", "flags"}
          THEN {i \in Items : cycle.up[i] # NoRow} ELSE {}

(* Mutant: the exception ends the loop                                      *)
CycleFailsForGood ==
  /\ cycle.pc # "idle" /\ Fault
  /\ cycle' = [Idle EXCEPT !.pc = "dead"]
  /\ interrupted' = interrupted \union Stored
  /\ UNCHANGED <<mailbox, rows, token, job, touched>>

(* Exchange or the store fails: the loop logs it and tries again later      *)
CycleFails ==
  /\ cycle.pc # "idle" /\ Fault
  /\ cycle' = Idle
  /\ interrupted' = interrupted \union Stored
  /\ UNCHANGED <<mailbox, rows, token, job, touched>>

-----------------------------------------------------------------------------
(* The write tools: work at Exchange on the pool, then, back on the event  *)
(* loop, the write-through to the mirror                                   *)

Patch(t, kind, i, val) == job' = [job EXCEPT ![t] = [kind |-> kind, item |-> i, val |-> val]]

(* update_messages: categories are noted for the mirror before the save, so *)
(* that a refused save patches them too; read flags only of what was saved. *)
UpdateMessage(t, i) ==
  /\ job[t] = NoJob /\ box[i].here
  /\ \/ \E read \in BOOLEAN :
          /\ Change(i, Marked(i, read))
          /\ Patch(t, "read", i, read)
     \/ \E cat \in Cats :
          /\ Change(i, Categorized(i, cat))
          /\ Patch(t, "categories", i, cat)
     \/ \E cat \in Cats :
          /\ SavesFail /\ Patch(t, "categories", i, cat)
          /\ UNCHANGED mailbox
  /\ UNCHANGED <<rows, token, cycle, faults, history>>

(* move_messages, delete_messages: the id is gone                           *)
RemoveMessage(t, i) ==
  /\ job[t] = NoJob /\ box[i].here
  /\ Change(i, Removed(i))
  /\ Patch(t, "tombstone", i, TRUE)
  /\ UNCHANGED <<rows, token, cycle, faults, history>>

(* _write_through, one transaction; a patch of a missing row does nothing   *)
WriteThrough(t) ==
  /\ job[t] # NoJob
  /\ LET j == job[t]
         i == j.item
     IN
     /\ rows' = CASE j.kind = "read"      -> SetRead(i, j.val)
                  [] j.kind = "tombstone" -> [rows EXCEPT ![i] = NoRow]
                  [] OTHER -> IF rows[i] = NoRow THEN rows
                              ELSE [rows EXCEPT ![i].cat = j.val]
     /\ touched' = IF j.kind = "categories" THEN touched \union {i} ELSE touched
  /\ job' = [job EXCEPT ![t] = NoJob]
  /\ UNCHANGED <<mailbox, token, cycle, faults, interrupted>>

(* The store refuses the patch: logged and swallowed                        *)
WriteThroughFails(t) ==
  /\ job[t] # NoJob /\ Fault
  /\ job' = [job EXCEPT ![t] = NoJob]
  /\ UNCHANGED <<mailbox, rows, token, cycle, history>>

(* The process restarts; with EWS_CACHE_PURGE_ON_BOOT the mirror is emptied *)
Purge == rows' = NoRows /\ token' = Unseen

Restart ==
  /\ Fault
  /\ cycle' = Idle
  /\ job' = [t \in Tools |-> NoJob]
  /\ interrupted' = interrupted \union Stored
  /\ \/ Purge
     \/ UNCHANGED <<rows, token>>
  /\ UNCHANGED <<mailbox, touched>>

Next ==
  \/ \E i \in Items : Outlook(i) \/ AgeOut(i)
  \/ StartCycle \/ Upsert \/ Delete \/ SaveToken \/ CycleFails
  \/ \E page \in SUBSET Items : FetchPage(page)
  \/ \E i \in Items : SetFlag(i)
  \/ \E t \in Tools, i \in Items : UpdateMessage(t, i) \/ RemoveMessage(t, i)
  \/ \E t \in Tools : WriteThrough(t) \/ WriteThroughFails(t)
  \/ Restart

Sync ==
  \/ StartCycle \/ Upsert \/ Delete \/ SaveToken
  \/ \E page \in SUBSET Items : FetchPage(page)
  \/ \E i \in Items : SetFlag(i)

(* The loop goes on after every failure, its sleep ends, and so do the      *)
(* gateway's requests, at the latest with their timeout.  Nothing is        *)
(* assumed of the tool calls.                                               *)
Spec == Init /\ [][Next]_vars /\ WF_vars(Sync)

-----------------------------------------------------------------------------
(* Properties *)

Message == [here : BOOLEAN, at : 0..changes, edit : 0..changes, read : BOOLEAN, cat : Cats]

Patching(j) ==
  /\ j.item \in Items
  /\ \/ j.kind = "read" /\ j.val \in BOOLEAN
     \/ j.kind = "categories" /\ j.val \in Cats
     \/ j.kind = "tombstone" /\ ~box[j.item].here

(* No state covers a change that has not happened, the stream is never      *)
(* behind the saved state except for what is gone, and the cycle's lists    *)
(* are empty between two rounds.  A tombstone is for a message that is gone.*)
TypeOK ==
  /\ changes \in Nat /\ faults \in Nat
  /\ box \in [Items -> Message] /\ aged \subseteq Items
  /\ rows \in [Items -> Row \union {NoRow}]
  /\ token \in [Items -> 0..changes]
  /\ cycle \in [pc : {"idle", "fetch", "upsert", "delete", "flags"},
                 seen : [Items -> 0..changes], up : [Items -> Row \union {NoRow}],
                 del : SUBSET Items, flags : [Items -> {"none", "read", "unread"}]]
  /\ cycle.pc = "idle" => cycle = Idle
  /\ cycle.pc # "idle" => \A i \in Items :
       cycle.seen[i] >= token[i] \/ (~box[i].here /\ cycle.seen[i] = 0)
  /\ \A t \in Tools : job[t] # NoJob => Patching(job[t])
  /\ touched \subseteq Items /\ interrupted \subseteq Items

(* What the saved state covers is in the mirror: the latest content of a    *)
(* message in the window, unless a tool has patched it, over every failure, *)
(* restart and page boundary (sync.py:212-235, store.py:240-294).           *)
CoveredIsMirrored ==
  \A i \in Items :
    /\ box[i].here /\ token[i] # 0 /\ token[i] >= box[i].edit
    /\ i \notin aged \union touched
    => rows[i] # NoRow /\ rows[i].cat = box[i].cat

(* A row of a message that is gone waits for its deletion to be reported;   *)
(* only a cycle that stored it and failed before it saved its state leaves  *)
(* one that no later cycle removes.                                         *)
GhostsAreInterrupted ==
  \A i \in Items :
    ~box[i].here /\ rows[i] # NoRow =>
      \/ token[i] # 0
      \/ i \in interrupted \union Stored

(* If the mailbox stays quiet the saved state covers all of it in the end,  *)
(* whatever failed before.                                                  *)
CatchesUp == <>[](Pending(token) = {})
=============================================================================
