----------------------------- MODULE Connection -----------------------------
(***************************************************************************)
(* The connection manager (v5/ewsmcp/gateway/connection.py) over the       *)
(* gateway's cached session (v5/ewsmcp/gateway/client.py): a warmup loop   *)
(* that tries until Exchange answers, and a heartbeat that probes the warm *)
(* connection and hands over to a new warmup loop when a probe fails.      *)
(*                                                                         *)
(* Both loops are coroutines.  What they ask of Exchange runs on a thread, *)
(* which a cancelled coroutine leaves behind.  A session that died in an   *)
(* outage may stay wedged when Exchange is back: exchangelib caches it     *)
(* until reset() drops it.  Delays are left out: a sleep ends, because the *)
(* backoff is capped.                                                      *)
(***************************************************************************)
EXTENDS Naturals, FiniteSets

CONSTANTS
  ResetEvery,  (* _RESET_EVERY_N_FAILURES                                  *)
  MaxOutages   (* bound of the checked instances                           *)

ASSUME ResetAssumption == ResetEvery \in Nat \ {0}

VARIABLES
  beats,       (* heartbeat_seconds > 0, fixed at start                    *)
  reachable,   (* Exchange answers                                         *)
  wedged,      (* the cached session fails although Exchange would answer  *)
  outages,     (* outages so far                                           *)
  state,       (* _state                                                   *)
  failures,    (* _attempts, modulo ResetEvery                             *)
  pc,          (* where the coroutine of each loop is                      *)
  thread,      (* what the thread of each loop does, or what it answered   *)
  fired,       (* _on_warm_fired                                           *)
  sync,        (* the sync engine on_warm starts, if there is a mirror     *)
  stopped      (* _stopped                                                 *)

exchange == <<reachable, wedged, outages>>
vars == <<beats, exchange, state, failures, pc, thread, fired, sync, stopped>>

Loops == {"warmup", "heartbeat"}
Running(l) == pc[l] # "none"
Answers == reachable /\ ~wedged

(* start() *)
Init ==
  /\ beats \in BOOLEAN
  /\ reachable \in BOOLEAN /\ wedged = FALSE /\ outages = 0
  /\ state = "connecting" /\ failures = 0
  /\ pc = [warmup |-> "created", heartbeat |-> "none"]
  /\ thread = [l \in Loops |-> "idle"]
  /\ fired = FALSE /\ sync \in {"disabled", "none"} /\ stopped = FALSE

-----------------------------------------------------------------------------
(* The threads *)

(* test_connection, or a probe: a failure is counted where it happens       *)
Ask(l) ==
  /\ thread[l] = "ask"
  /\ thread' = [thread EXCEPT ![l] = IF Answers THEN "yes" ELSE "no"]
  /\ failures' = IF Answers THEN failures ELSE (failures + 1) % ResetEvery
  /\ UNCHANGED <<beats, exchange, state, pc, fired, sync, stopped>>

(* reset: the cached account and exchangelib's protocol cache are dropped   *)
Reset ==
  /\ thread["warmup"] = "reset"
  /\ thread' = [thread EXCEPT !["warmup"] = "yes"]
  /\ wedged' = FALSE
  /\ UNCHANGED <<beats, reachable, outages, state, failures, pc, fired, sync, stopped>>

(* A coroutine goes on to `at', with a thread at work                       *)
Goto(l, at, work) ==
  /\ pc' = [pc EXCEPT ![l] = at]
  /\ thread' = [thread EXCEPT ![l] = work]
  /\ UNCHANGED <<beats, exchange, failures, stopped>>

-----------------------------------------------------------------------------
(* The warmup loop *)

WarmupTry ==
  /\ pc["warmup"] \in {"created", "sleep"}
  /\ Goto("warmup", "ask", "ask")
  /\ UNCHANGED <<state, fired, sync>>

(* _fire_on_warm, once per process: the engine starts, or its start fails   *)
FireOnWarm ==
  /\ fired' = TRUE
  /\ IF ~fired /\ sync = "none" THEN sync' \in {"running", "failed"}
     ELSE UNCHANGED sync

(* Mutant: the heartbeat is armed by the first connection only              *)
StartHeartbeatOnce == beats /\ ~fired
StartHeartbeat == beats

Connected ==
  /\ pc["warmup"] = "ask" /\ thread["warmup"] = "yes"
  /\ state' = "warm"
  /\ FireOnWarm
  /\ pc' = [warmup |-> "none",
            heartbeat |-> IF StartHeartbeat THEN "created" ELSE pc["heartbeat"]]
  /\ thread' = [thread EXCEPT !["warmup"] = "idle"]
  /\ UNCHANGED <<beats, exchange, failures, stopped>>

(* Mutant: the session is never dropped                                     *)
ResetDueNever == FALSE
ResetDue == failures = 0

(* Every ResetEvery-th failure drops the session before the loop sleeps     *)
Refused ==
  /\ pc["warmup"] = "ask" /\ thread["warmup"] = "no"
  /\ \/ ResetDue /\ Goto("warmup", "reset", "reset")
     \/ ~ResetDue /\ Goto("warmup", "sleep", "idle")
  /\ UNCHANGED <<state, fired, sync>>

AfterReset ==
  /\ pc["warmup"] = "reset" /\ thread["warmup"] = "yes"
  /\ Goto("warmup", "sleep", "idle")
  /\ UNCHANGED <<state, fired, sync>>

-----------------------------------------------------------------------------
(* The heartbeat *)

HeartbeatBegin ==
  /\ pc["heartbeat"] = "created"
  /\ Goto("heartbeat", "sleep", "idle")
  /\ UNCHANGED <<state, fired, sync>>

HeartbeatProbe ==
  /\ pc["heartbeat"] = "sleep"
  /\ Goto("heartbeat", "ask", "ask")
  /\ UNCHANGED <<state, fired, sync>>

StillWarm ==
  /\ pc["heartbeat"] = "ask" /\ thread["heartbeat"] = "yes"
  /\ state' = "warm"
  /\ Goto("heartbeat", "sleep", "idle")
  /\ UNCHANGED <<fired, sync>>

(* Mutant: the heartbeat goes on beside the warmup loop it has created      *)
HandOverStaying == [warmup |-> "created", heartbeat |-> "sleep"]
HandOver == [warmup |-> "created", heartbeat |-> "none"]

Degraded ==
  /\ pc["heartbeat"] = "ask" /\ thread["heartbeat"] = "no"
  /\ state' = "degraded"
  /\ pc' = HandOver
  /\ thread' = [thread EXCEPT !["heartbeat"] = "idle"]
  /\ UNCHANGED <<beats, exchange, failures, fired, sync, stopped>>

-----------------------------------------------------------------------------
(* stop(): the loop that runs is cancelled at its await, its thread is not. *)
(* Both tasks are known to stop(), so no loop ever finds `_stopped' set.    *)
Stop ==
  /\ ~stopped /\ stopped' = TRUE
  /\ pc' = [l \in Loops |-> "none"]
  /\ UNCHANGED <<beats, exchange, state, failures, thread, fired, sync>>

Outage ==
  /\ reachable /\ outages < MaxOutages
  /\ reachable' = FALSE /\ outages' = outages + 1
  /\ wedged' \in {wedged, TRUE}
  /\ UNCHANGED <<beats, state, failures, pc, thread, fired, sync, stopped>>

Return ==
  /\ ~reachable /\ reachable' = TRUE
  /\ UNCHANGED <<beats, wedged, outages, state, failures, pc, thread, fired, sync, stopped>>

Warmup == WarmupTry \/ Connected \/ Refused \/ AfterReset
Beat == HeartbeatBegin \/ HeartbeatProbe \/ StillWarm \/ Degraded

Next ==
  \/ WarmupTry \/ Connected \/ Refused \/ AfterReset
  \/ HeartbeatBegin \/ HeartbeatProbe \/ StillWarm \/ Degraded
  \/ \E l \in Loops : Ask(l)
  \/ Reset \/ Stop \/ Outage \/ Return

(* The event loop runs what is ready, sleeps end, and a request to Exchange *)
(* ends at the latest with its timeout.  Nothing is assumed of Exchange,    *)
(* nor that anybody stops the manager.                                      *)
Fairness ==
  /\ WF_vars(Warmup) /\ WF_vars(Beat)
  /\ \A l \in Loops : WF_vars(Ask(l))
  /\ WF_vars(Reset)

Spec == Init /\ [][Next]_vars /\ Fairness

-----------------------------------------------------------------------------
(* Properties *)

(* A coroutine waits for its own thread and for nothing else: a loop that   *)
(* is not waiting has no thread at work, unless it was cancelled.           *)
TypeOK ==
  /\ beats \in BOOLEAN /\ fired \in BOOLEAN /\ stopped \in BOOLEAN
  /\ reachable \in BOOLEAN /\ wedged \in BOOLEAN /\ outages \in Nat
  /\ state \in {"connecting", "warm", "degraded"}
  /\ failures \in 0..ResetEvery - 1
  /\ pc \in [Loops -> {"none", "created", "ask", "reset", "sleep"}]
  /\ thread \in [Loops -> {"idle", "ask", "reset", "yes", "no"}]
  /\ sync \in {"disabled", "none", "running", "failed"}
  /\ \A l \in Loops :
       CASE pc[l] = "ask"   -> thread[l] \in {"ask", "yes", "no"}
         [] pc[l] = "reset" -> thread[l] \in {"reset", "yes"}
         [] OTHER           -> thread[l] = "idle" \/ stopped

(* A live manager is watched by exactly one of its loops, or by none once   *)
(* it is warm and has no heartbeat; a stopped one runs none, whatever its   *)
(* threads still do (connection.py:108-146, 164-188).              *)
OneLoop ==
  /\ stopped => \A l \in Loops : ~Running(l)
  /\ ~stopped =>
       \/ Running("warmup") /\ ~Running("heartbeat")
       \/ Running("heartbeat") /\ ~Running("warmup") /\ beats /\ fired
       \/ ~beats /\ state = "warm" /\ \A l \in Loops : ~Running(l)

(* If Exchange is back for good the manager ends up warm and stays so, even *)
(* over a wedged session, and the mirror's engine has been started.         *)
Recovers ==
  <>[](reachable /\ ~stopped)
    => <>[](state = "warm" /\ sync # "none")

(* An outage that lasts is noticed, and not only the first one: /readyz and *)
(* get_server_status do not say warm for ever.                              *)
NoticesOutage ==
  beats /\ <>[](~reachable /\ ~stopped) => <>[](state # "warm")
=============================================================================
