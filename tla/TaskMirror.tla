----------------------------- MODULE TaskMirror -----------------------------
(***************************************************************************)
(* The tasks of v5: update_task (v5/ewsmcp/tools/tasks.py) with what it    *)
(* writes through to the mirror, and the slow lane of the sync engine      *)
(* (v5/ewsmcp/cache/sync.py), in a thread of its own, while other clients  *)
(* change the tasks too.                                                   *)
(*                                                                         *)
(* As for messages (MirrorSync), a sync state is a function from tasks to  *)
(* the last change of each that it covers, 0 for a task it does not know;  *)
(* an id that is gone never comes back.  The tasks are few: the stream is  *)
(* one page.  complete() of the library saves every field as it was read.  *)
(***************************************************************************)
EXTENDS Naturals

CONSTANTS Tasks, Dues, Workers,
          MaxCalls, MaxChanges, MaxFailures,   (* bounds *)
          Free, None

VARIABLES
  tasks,       (* Exchange: due date, completion and last change of each    *)
  changes,     (* number of changes at Exchange, its clock                  *)
  table,       (* table tasks                                               *)
  synced,      (* sync_state of item:tasks                                  *)
  round,       (* the slow lane, and its upserts, deletes and new state     *)
  call,        (* update_task, between two requests                         *)
  calls, failures,
  touched,     (* history: tasks whose row a call has written although a    *)
               (* round had written it since the call began                 *)
  interrupted  (* history: tasks stored by a round that then failed         *)

history == <<touched, interrupted>>
vars == <<tasks, changes, table, synced, round, call, calls, failures, history>>

(* What the constants have to be: what stands for no row is none.           *)
ConstantsOK == Dues # {} /\ None \notin [due : Dues, done : BOOLEAN]

NotYet == [here |-> FALSE, at |-> 0, due |-> CHOOSE d \in Dues : TRUE, done |-> FALSE]
RowOf(k) == [due |-> tasks[k].due, done |-> tasks[k].done]
Resting == [pc |-> "rests", up |-> [k \in Tasks |-> None], del |-> {}, seen |-> [k \in Tasks |-> 0]]

Init ==
  /\ tasks = [k \in Tasks |-> NotYet] /\ changes = 0
  /\ table = [k \in Tasks |-> None]
  /\ synced = [k \in Tasks |-> 0] /\ round = Resting
  /\ call = [c \in Workers |-> Free] /\ calls = 0 /\ failures = 0
  /\ touched = {} /\ interrupted = {}

Changed(k, task) ==
  /\ changes' = changes + 1
  /\ tasks' = [tasks EXCEPT ![k] = [task EXCEPT !.at = changes + 1]]

(* Another client adds, changes or removes a task.                          *)
OtherClient(k) ==
  /\ changes < MaxChanges
  /\ \/ tasks[k].at = 0 /\ Changed(k, [tasks[k] EXCEPT !.here = TRUE])
     \/ tasks[k].here /\ \E d \in Dues, done \in BOOLEAN :
          Changed(k, [tasks[k] EXCEPT !.due = d, !.done = done])
     \/ tasks[k].here /\ Changed(k, [tasks[k] EXCEPT !.here = FALSE])
  /\ UNCHANGED <<table, synced, round, call, calls, failures, history>>

-----------------------------------------------------------------------------
(* update_task *)

Ends(c) == call' = [call EXCEPT ![c] = Free]
Goes(c, pc) == call' = [call EXCEPT ![c].pc = pc]
AfterSave(c) == IF call[c].complete THEN "complete" ELSE "look"
Fails == failures < MaxFailures /\ failures' = failures + 1

(* The task is fetched, or the call ends with an error.                     *)
UpdateTask(c, k, due, complete) ==
  /\ call[c] = Free /\ calls < MaxCalls /\ calls' = calls + 1
  /\ tasks[k].here
  /\ call' = [call EXCEPT ![c] =
       [pc |-> IF due # None THEN "save" ELSE IF complete THEN "complete" ELSE "look", of |-> k, due |-> due,
        complete |-> complete, read |-> RowOf(k), row |-> None, overtaken |-> FALSE]]
  /\ UNCHANGED <<tasks, changes, table, synced, round, failures, history>>

(* save(update_fields=["due_date"])                                         *)
SaveDue(c) ==
  /\ call[c] # Free /\ call[c].pc = "save"
  /\ LET k == call[c].of IN
     IF tasks[k].here
     THEN Changed(k, [tasks[k] EXCEPT !.due = call[c].due]) /\ Goes(c, AfterSave(c))
     ELSE Ends(c) /\ UNCHANGED <<tasks, changes>>
  /\ UNCHANGED <<table, synced, round, calls, failures, history>>

Complete(c) ==
  /\ call[c] # Free /\ call[c].pc = "complete"
  /\ LET k == call[c].of
         due == IF call[c].due # None THEN call[c].due ELSE call[c].read.due IN
     IF tasks[k].here
     THEN Changed(k, [tasks[k] EXCEPT !.due = due, !.done = TRUE]) /\ Goes(c, "look")
     ELSE Ends(c) /\ UNCHANGED <<tasks, changes>>
  /\ UNCHANGED <<table, synced, round, calls, failures, history>>

(* A request fails, or the write-through, which is only logged.             *)
CallFails(c) ==
  /\ call[c] # Free
  /\ Fails /\ Ends(c)
  /\ UNCHANGED <<tasks, changes, table, synced, round, calls, history>>

(* Mutant: a row is written for a task the mirror does not have             *)
KeepsEvenUnknown(k) == TRUE
Keeps(k) == table[k] # None

(* The row is read, and completed with what the call has set,               *)
LookUp(c) ==
  /\ call[c] # Free /\ call[c].pc = "look"
  /\ LET k == call[c].of IN
     IF Keeps(k)
     THEN call' = [call EXCEPT ![c].pc = "patch", ![c].row =
            [due |-> IF call[c].due # None THEN call[c].due
                     ELSE IF table[k] # None THEN table[k].due ELSE call[c].read.due,
             done |-> call[c].complete \/ call[c].read.done]]
     ELSE Ends(c)
  /\ UNCHANGED <<tasks, changes, table, synced, round, calls, failures, history>>

(* and written in another transaction.                                      *)
WriteThrough(c) ==
  /\ call[c] # Free /\ call[c].pc = "patch"
  /\ table' = [table EXCEPT ![call[c].of] = call[c].row]
  /\ touched' = IF call[c].overtaken THEN touched \cup {call[c].of} ELSE touched
  /\ Ends(c)
  /\ UNCHANGED <<tasks, changes, synced, round, calls, failures, interrupted>>

-----------------------------------------------------------------------------
(* The slow lane: the stream, two transactions and the new state.           *)

Pending == {k \in Tasks : IF tasks[k].here THEN tasks[k].at > synced[k] ELSE synced[k] # 0}

SyncItems ==
  /\ round.pc = "rests"
  /\ round' = [pc |-> "upsert",
               up |-> [k \in Tasks |-> IF k \in Pending /\ tasks[k].here THEN RowOf(k) ELSE None],
               del |-> {k \in Pending : ~tasks[k].here},
               seen |-> [k \in Tasks |-> IF tasks[k].here THEN tasks[k].at ELSE 0]]
  /\ UNCHANGED <<tasks, changes, table, synced, call, calls, failures, history>>

Stored == {k \in Tasks : round.up[k] # None}
Written(S) ==
  /\ touched' = touched \ S
  /\ call' = [c \in Workers |-> IF call[c] # Free /\ call[c].of \in S
                                THEN [call[c] EXCEPT !.overtaken = TRUE] ELSE call[c]]
UpsertTasks ==
  /\ round.pc = "upsert"
  /\ table' = [k \in Tasks |-> IF k \in Stored THEN round.up[k] ELSE table[k]]
  /\ Written(Stored)
  /\ round' = [round EXCEPT !.pc = "delete"]
  /\ UNCHANGED <<tasks, changes, synced, calls, failures, interrupted>>
DeleteTasks ==
  /\ round.pc = "delete"
  /\ table' = [k \in Tasks |-> IF k \in round.del THEN None ELSE table[k]]
  /\ Written(round.del)
  /\ round' = [round EXCEPT !.pc = "state"]
  /\ UNCHANGED <<tasks, changes, synced, calls, failures, interrupted>>
SetSyncState ==
  /\ round.pc = "state"
  /\ synced' = round.seen
  /\ interrupted' = interrupted \ (Stored \cup round.del)
  /\ round' = Resting
  /\ UNCHANGED <<tasks, changes, table, call, calls, failures, touched>>

(* An exception is swallowed until the next round; a restart loses the      *)
(* calls as well.                                                           *)
Interrupted == interrupted' = IF round.pc \in {"delete", "state"} THEN interrupted \cup Stored ELSE interrupted
RoundFails ==
  /\ round.pc # "rests" /\ Fails
  /\ round' = Resting /\ Interrupted
  /\ UNCHANGED <<tasks, changes, table, synced, call, calls, touched>>
Restart ==
  /\ Fails
  /\ round' = Resting /\ Interrupted
  /\ call' = [c \in Workers |-> Free]
  /\ UNCHANGED <<tasks, changes, table, synced, calls, touched>>

Next ==
  \/ \E k \in Tasks : OtherClient(k)
  \/ \E c \in Workers, k \in Tasks, due \in Dues \cup {None}, complete \in BOOLEAN :
       UpdateTask(c, k, due, complete)
  \/ \E c \in Workers : SaveDue(c) \/ Complete(c) \/ CallFails(c) \/ LookUp(c) \/ WriteThrough(c)
  \/ SyncItems \/ UpsertTasks \/ DeleteTasks \/ SetSyncState \/ RoundFails \/ Restart
Spec == Init /\ [][Next]_vars

-----------------------------------------------------------------------------
(* Properties *)

(* "The slow sync lane repairs anything missed" (tasks.py:124), as far as   *)
(* it is true: once the saved state covers all changes and no call is under *)
(* way, the mirror has the tasks that there are, as they are.  Only a row   *)
(* that a call wrote after a round had written it since the call began may  *)
(* differ, or be of a task that is gone; and a task that a failed round     *)
(* stored, and that went before the next one, keeps its row.                *)
LaneRepairs ==
  round.pc = "rests" /\ Pending = {} /\ (\A c \in Workers : call[c] = Free) =>
    \A k \in Tasks \ touched :
      IF tasks[k].here THEN table[k] = RowOf(k)
      ELSE table[k] = None \/ k \in interrupted
=============================================================================
