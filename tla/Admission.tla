------------------------------ MODULE Admission ------------------------------
(***************************************************************************)
(* What the v4 server promises of the calls it lets in, without the deque  *)
(* and without the three states of the circuit breaker: a call over MCP is *)
(* taken if fewer than RequestsPerMinute were taken in the window up to    *)
(* now, and a taken call is run unless the last FailureThreshold results   *)
(* were all failures of the connection, the newest less than ResetTimeout  *)
(* ago.  ToolServer implements it.                                         *)
(***************************************************************************)
EXTENDS Naturals, Sequences

CONSTANTS
  Calls,             (* slots for calls that are being served              *)
  RequestsPerMinute, (* the cap of the rate limiter                        *)
  WindowSeconds,     (* its window                                         *)
  FailureThreshold,  (* failures in a row that open the circuit            *)
  ResetTimeout       (* how long it stays open                             *)

VARIABLES
  now,       (* time.time()                                                *)
  taken,     (* when each call that passed the rate limiter was taken      *)
  failures,  (* results since the last success that count as failures      *)
  failed,    (* when the newest of them came                               *)
  status     (* what is being done about each call                         *)

avars == <<now, taken, failures, failed, status>>

(* Fewer than the cap were taken from now - WindowSeconds on                *)
Room ==
  Len(taken) >= RequestsPerMinute =>
    taken[Len(taken) - RequestsPerMinute + 1] + WindowSeconds < now
Tripped == failures >= FailureThreshold /\ now < failed + ResetTimeout

Verdict == IF Tripped THEN "refused" ELSE "runs"

Init ==
  /\ now = 0 /\ taken = <<>> /\ failures = 0 /\ failed = 0
  /\ status = [k \in Calls |-> "idle"]

Becomes(k, s) == status' = [status EXCEPT ![k] = s]

(* Over MCP, rate limited *)
Take(k) ==
  /\ status[k] = "idle" /\ Room
  /\ taken' = Append(taken, now)
  /\ \/ Becomes(k, "unknown")
     \/ Becomes(k, Verdict)
  /\ UNCHANGED <<now, failures, failed>>

Limit(k) ==
  /\ status[k] = "idle" /\ ~Room
  /\ Becomes(k, "limited")
  /\ UNCHANGED <<now, taken, failures, failed>>

(* Over REST, past the rate limiter *)
TakeRest(k) ==
  /\ status[k] = "idle"
  /\ Becomes(k, Verdict)
  /\ UNCHANGED <<now, taken, failures, failed>>

Success == failures' = 0 /\ failed' = failed
Failure == failures' = failures + 1 /\ failed' = now
Neither == UNCHANGED <<failures, failed>>

Finish(k) ==
  /\ status[k] = "runs"
  /\ Success \/ Failure \/ Neither
  /\ Becomes(k, "done")
  /\ UNCHANGED <<now, taken>>

(* Calls are answered, or dropped with their connection *)
Leave(ks) ==
  /\ status' = [k \in Calls |-> IF k \in ks THEN "idle" ELSE status[k]]
  /\ UNCHANGED <<now, taken, failures, failed>>

Pass == now' = now + 1 /\ UNCHANGED <<taken, failures, failed, status>>

Next ==
  \/ \E k \in Calls : Take(k) \/ Limit(k) \/ TakeRest(k) \/ Finish(k)
  \/ \E ks \in SUBSET Calls : Leave(ks)
  \/ Pass

Spec == Init /\ [][Next]_avars

=============================================================================
