----------------------------- MODULE ToolServer -----------------------------
(***************************************************************************)
(* The v4 server (src/main.py) as it serves calls: the rate limiter and    *)
(* the circuit breaker in front of the tools, the progress ticker of a     *)
(* call, and the SSE connections on which two writers, the MCP SDK and the *)
(* keepalive loop, take turns.                                             *)
(*                                                                         *)
(* Everything runs on one event loop: a step is what happens between two   *)
(* awaits.  The MCP SDK, uvicorn and the client are external.              *)
(***************************************************************************)
EXTENDS Naturals, Sequences, FiniteSets

CONSTANTS
  Calls,             (* slots for calls that are being served              *)
  Conns,             (* slots for SSE connections                          *)
  Keys, ApiKey,      (* what clients present, mcp_api_key                  *)
  NoKey,             (* no key                                             *)
  RequestsPerMinute, WindowSeconds,
  FailureThreshold, ResetTimeout,
  MaxTries,          (* attempts at the first connection                   *)
  MaxNow, MaxTaken   (* bounds of the checked instances                    *)

ASSUME ServerAssumption ==
  /\ RequestsPerMinute \in Nat \ {0} /\ WindowSeconds \in Nat
  /\ FailureThreshold \in Nat \ {0} /\ ResetTimeout \in Nat \ {0}
  /\ MaxTries \in Nat \ {0} /\ MaxNow \in Nat /\ MaxTaken \in Nat

VARIABLES
  boot,              (* how far run() has come                             *)
  now,               (* time.time(), in seconds                            *)
  taken,             (* RateLimiter: when each allowed call was made       *)
  dropped,           (* and how many have left self.requests at the left   *)
  state, failure_count, last_failure_time,        (* CircuitBreaker        *)
  status,            (* of each call                                       *)
  via,               (* the connection it came by, or "rest"               *)
  ticker,            (* its progress ticker                                *)
  conn,              (* of each SSE connection: what its handler does      *)
  writing, queued,   (* who is in send, and who waits for send_lock        *)
  active             (* _ACTIVE_SSE                                        *)

limiter == <<taken, dropped>>
breaker == <<state, failure_count, last_failure_time>>
call == <<status, via, ticker>>
stream == <<conn, writing, queued, active>>
vars == <<boot, now, limiter, breaker, call, stream>>

Writers == {"sdk", "keepalive"}
Running(k) == status[k] = "runs"
Answered(k) == status[k] \in {"limited", "unknown", "refused", "done"}
Serving(c) == conn[c].at = "serves"

NoConn == [at |-> "none", peer |-> FALSE, headers |-> FALSE, keepalive |-> "none"]

Init ==
  /\ boot = [at |-> "connects", tries |-> 0]
  /\ now = 0 /\ taken = <<>> /\ dropped = 0
  /\ state = "closed" /\ failure_count = 0 /\ last_failure_time = 0
  /\ status = [k \in Calls |-> "idle"]
  /\ via = [k \in Calls |-> "rest"]
  /\ ticker = [k \in Calls |-> "none"]
  /\ conn = [c \in Conns |-> NoConn]
  /\ writing = [c \in Conns |-> {}] /\ queued = [c \in Conns |-> {}]
  /\ active = 0

-----------------------------------------------------------------------------
(* An attempt at _create_account that fails is made again                   *)
Retried ==
  IF boot.tries + 1 < MaxTries
    THEN [boot EXCEPT !.tries = @ + 1] ELSE [boot EXCEPT !.at = "stopped"]

(* run: without an account the server does not start                        *)
run ==
  /\ boot.at = "connects"
  /\ boot' \in {[at |-> "serves", tries |-> 0], Retried}
  /\ UNCHANGED <<now, limiter, breaker, call, stream>>

Authorized(key) == ApiKey = NoKey \/ key = ApiKey
Routed == boot.at = "serves" /\ \E key \in Keys \cup {NoKey} : Authorized(key)

(* app collects the body of a request for /api/tools/ until a message says  *)
(* that nothing more comes.  A client that leaves before makes receive()    *)
(* return http.disconnect, at once and every time: the loop never suspends  *)
(* again, and nothing else runs on the event loop.                          *)
Spins == boot.at = "spins"
BodyCut ==
  /\ Routed
  /\ boot' = [boot EXCEPT !.at = "spins"]
  /\ UNCHANGED <<now, limiter, breaker, call, stream>>

-----------------------------------------------------------------------------
(* RateLimiter *)

(* Requests from before the window are popped at the left                   *)
Old(i) == taken[i] + WindowSeconds < now
Popped(d) ==
  /\ d \in dropped..Len(taken)
  /\ \A i \in dropped + 1..d : Old(i)
  /\ d < Len(taken) => ~Old(d + 1)

is_allowed(d) == Len(taken) - d < RequestsPerMinute

(* CircuitBreaker.check: an open circuit lets a call through after the      *)
(* timeout, a half open one every call                                      *)
Probes == state = "open" /\ now - last_failure_time >= ResetTimeout
Passes == state # "open" \/ Probes
check ==
  /\ state' = IF Probes THEN "half_open" ELSE state
  /\ UNCHANGED <<failure_count, last_failure_time>>

record_success ==
  /\ state' = "closed" /\ failure_count' = 0
  /\ UNCHANGED last_failure_time

(* Mutant: a probe that fails does not start the timeout anew               *)
record_failure_ProbeForgotten ==
  /\ failure_count' = failure_count + 1
  /\ last_failure_time' = IF state = "half_open" THEN last_failure_time ELSE now
  /\ state' = IF state = "half_open" \/ failure_count' >= FailureThreshold
                THEN "open" ELSE state

record_failure ==
  /\ failure_count' = failure_count + 1
  /\ last_failure_time' = now
  /\ state' = IF state = "half_open" \/ failure_count' >= FailureThreshold
                THEN "open" ELSE state

-----------------------------------------------------------------------------
(* Calls *)

Answer(k, s) == status' = [status EXCEPT ![k] = s]

(* safe_execute up to the tool's first await; over MCP with a ticker if the *)
(* client gave a progress token                                             *)
Execute(k, tick) ==
  IF Passes
    THEN /\ check /\ Answer(k, "runs")
         /\ ticker' = [ticker EXCEPT ![k] = tick]
    ELSE /\ Answer(k, "refused") /\ UNCHANGED <<breaker, ticker>>

(* call_tool: the rate limiter, the name, then the tool                     *)
Limit(k, d) ==
  /\ ~is_allowed(d)
  /\ Answer(k, "limited") /\ UNCHANGED <<taken, breaker, ticker>>

Take(k, d) ==
  /\ is_allowed(d) /\ Len(taken) < MaxTaken
  /\ taken' = Append(taken, now)
  /\ \/ Answer(k, "unknown") /\ UNCHANGED <<breaker, ticker>>
     \/ \E tick \in {"none", "sleeps"} : Execute(k, tick)

CallTool(k, c) ==
  /\ Routed /\ status[k] = "idle" /\ Serving(c) /\ conn[c].headers /\ conn[c].peer
  /\ via' = [via EXCEPT ![k] = c]
  /\ \E d \in dropped..Len(taken) :
       Popped(d) /\ dropped' = d /\ (Limit(k, d) \/ Take(k, d))
  /\ UNCHANGED <<boot, now, stream>>

(* handle_rest_request, which knows no rate limit, once the body is there:  *)
(* while app collects it nothing that the others see has changed            *)
RestCall(k) ==
  /\ Routed /\ status[k] = "idle"
  /\ via' = [via EXCEPT ![k] = "rest"]
  /\ Execute(k, "none")
  /\ UNCHANGED <<boot, now, limiter, stream>>

(* Mutant: the ticker is told to stop, and awaited                          *)
Finish_Awaits(k) ==
  /\ Running(k) /\ ticker[k] # "sends"
  /\ record_success \/ record_failure \/ UNCHANGED breaker
  /\ Answer(k, "done")
  /\ ticker' = [ticker EXCEPT ![k] = "none"]
  /\ UNCHANGED <<boot, now, limiter, via, stream>>

(* Mutant: the ticker is left to find out by itself                         *)
Finish_Leaves(k) ==
  /\ Running(k)
  /\ record_success \/ record_failure \/ UNCHANGED breaker
  /\ Answer(k, "done")
  /\ UNCHANGED <<boot, now, limiter, via, ticker, stream>>

(* The tool returns or raises.  A ValidationError and a ToolExecutionError  *)
(* that does not speak of the connection count neither way; a tool that     *)
(* does not ask Exchange, or wraps another's failure, counts as a success.  *)
(* call_tool cancels the ticker before it answers.                          *)
Finish(k) ==
  /\ Running(k)
  /\ record_success \/ record_failure \/ UNCHANGED breaker
  /\ Answer(k, "done")
  /\ ticker' = [ticker EXCEPT ![k] = "none"]
  /\ UNCHANGED <<boot, now, limiter, via, stream>>

Leave(k) ==
  /\ Answered(k)
  /\ Answer(k, "idle") /\ via' = [via EXCEPT ![k] = "rest"]
  /\ UNCHANGED <<boot, now, limiter, breaker, ticker, stream>>

-----------------------------------------------------------------------------
(* _ticker: the notification goes into the stream of the session, which a   *)
(* peer that does not read keeps full                                       *)
Sleeps(k) ==
  /\ ticker[k] = "sleeps"
  /\ ticker' = [ticker EXCEPT ![k] = "sends"]
  /\ UNCHANGED <<boot, now, limiter, breaker, status, via, stream>>

Notified(k) ==
  /\ ticker[k] = "sends"
  /\ \/ ticker' = [ticker EXCEPT ![k] = "sleeps"]
     \/ ticker' = [ticker EXCEPT ![k] = "none"]
  /\ UNCHANGED <<boot, now, limiter, breaker, status, via, stream>>

-----------------------------------------------------------------------------
(* handle_sse and its two tasks *)

(* wrapped_send waits for the lock, in turn                                 *)
Send(c, w) ==
  IF writing[c] = {}
    THEN /\ writing' = [writing EXCEPT ![c] = {w}]
         /\ UNCHANGED queued
    ELSE /\ queued' = [queued EXCEPT ![c] = @ \cup {w}]
         /\ UNCHANGED writing

(* and passes it on                                                         *)
Release(c, w) ==
  /\ writing' = [writing EXCEPT ![c] = IF @ = {w} THEN queued[c] ELSE @ \ {w}]
  /\ queued' = [queued EXCEPT ![c] = {}]

OnStream == UNCHANGED <<boot, now, limiter, breaker, call>>

handle_sse(c) ==
  /\ Routed /\ conn[c].at = "none"
  /\ active' = active + 1
  /\ \E k \in {"none", "waits"} :     (* sse_keepalive_enabled *)
       conn' = [conn EXCEPT ![c] =
                  [at |-> "serves", peer |-> TRUE, headers |-> FALSE, keepalive |-> k]]
  /\ UNCHANGED <<writing, queued>> /\ OnStream

(* The SDK sends the start of the response, then events                     *)
SdkSends(c) ==
  /\ Serving(c) /\ "sdk" \notin writing[c] \cup queued[c]
  /\ Send(c, "sdk")
  /\ UNCHANGED <<conn, active>> /\ OnStream

SdkSent(c) ==
  /\ "sdk" \in writing[c]
  /\ Release(c, "sdk")
  /\ conn' = [conn EXCEPT ![c].headers = TRUE]
  /\ UNCHANGED active /\ OnStream

(* Mutant: the keepalive does not wait for the headers                      *)
HeadersSent_AtOnce(c) ==
  /\ conn[c].keepalive = "waits"
  /\ conn' = [conn EXCEPT ![c].keepalive = "sleeps"]
  /\ UNCHANGED <<writing, queued, active>> /\ OnStream

(* _keepalive_loop *)
HeadersSent(c) ==
  /\ conn[c].keepalive = "waits" /\ conn[c].headers
  /\ conn' = [conn EXCEPT ![c].keepalive = "sleeps"]
  /\ UNCHANGED <<writing, queued, active>> /\ OnStream

(* A tick is skipped while the lock is held                                 *)
KeepaliveTick(c) ==
  /\ conn[c].keepalive = "sleeps" /\ writing[c] = {}
  /\ conn' = [conn EXCEPT ![c].keepalive = "writes"]
  /\ Send(c, "keepalive")
  /\ UNCHANGED active /\ OnStream

(* A frame that fails, for whatever reason, is the last one                 *)
KeepaliveSent(c) ==
  /\ "keepalive" \in writing[c]
  /\ Release(c, "keepalive")
  /\ \E k \in {"sleeps", "none"} : conn' = [conn EXCEPT ![c].keepalive = k]
  /\ UNCHANGED active /\ OnStream

PeerLeaves(c) ==
  /\ Serving(c) /\ conn[c].peer
  /\ conn' = [conn EXCEPT ![c].peer = FALSE]
  /\ UNCHANGED <<writing, queued, active>> /\ OnStream

(* The MCP task ends: when the SDK sees that the peer is gone, or in an     *)
(* error.  The calls it was serving are cancelled, which is no result for   *)
(* the breaker, and so is the keepalive, wherever it is.                    *)
McpEnds(c) ==
  LET cut == {k \in Calls : via[k] = c /\ status[k] # "idle"}
  IN  /\ Serving(c)
      /\ conn' = [conn EXCEPT ![c].at = "ends", ![c].keepalive = "none"]
      /\ writing' = [writing EXCEPT ![c] = {}] /\ queued' = [queued EXCEPT ![c] = {}]
      /\ status' = [k \in Calls |-> IF k \in cut THEN "idle" ELSE status[k]]
      /\ ticker' = [k \in Calls |-> IF k \in cut THEN "none" ELSE ticker[k]]
      /\ via' = [k \in Calls |-> IF k \in cut THEN "rest" ELSE via[k]]
      /\ UNCHANGED <<boot, now, limiter, breaker, active>>

OneLess == IF active > 0 THEN active - 1 ELSE 0
HandlerEnds(c) ==
  /\ conn[c].at = "ends"
  /\ conn' = [conn EXCEPT ![c] = NoConn]
  /\ active' = OneLess
  /\ UNCHANGED <<writing, queued>> /\ OnStream

Pass ==
  /\ boot.at = "serves" /\ now < MaxNow /\ now' = now + 1
  /\ UNCHANGED <<boot, limiter, breaker, call, stream>>

-----------------------------------------------------------------------------
Next ==
  /\ ~Spins
  /\ \/ run \/ BodyCut \/ Pass
     \/ \E k \in Calls :
          \/ RestCall(k) \/ Finish(k) \/ Leave(k) \/ Sleeps(k) \/ Notified(k)
          \/ \E c \in Conns : CallTool(k, c)
     \/ \E c \in Conns :
          \/ handle_sse(c) \/ SdkSends(c) \/ SdkSent(c)
          \/ HeadersSent(c) \/ KeepaliveTick(c) \/ KeepaliveSent(c)
          \/ PeerLeaves(c) \/ McpEnds(c) \/ HandlerEnds(c)

(* Exchange answers or times out, cancelled tasks end, and the SDK notices  *)
(* that a peer has gone, as long as the event loop turns.  Nothing is       *)
(* assumed of a peer that stays, not even that it reads.                    *)
Fairness ==
  /\ \A k \in Calls : WF_vars(~Spins /\ Finish(k)) /\ WF_vars(~Spins /\ Leave(k))
  /\ \A c \in Conns :
       /\ WF_vars(~Spins /\ ~conn[c].peer /\ McpEnds(c))
       /\ WF_vars(~Spins /\ HandlerEnds(c))

Spec == Init /\ [][Next]_vars /\ Fairness

-----------------------------------------------------------------------------
TypeOK ==
  /\ boot \in [at : {"connects", "serves", "spins", "stopped"}, tries : Nat]
  /\ now \in Nat /\ taken \in Seq(Nat) /\ dropped \in 0..Len(taken)
  /\ state \in {"closed", "open", "half_open"}
  /\ failure_count \in Nat /\ last_failure_time \in Nat
  /\ status \in [Calls -> {"idle", "limited", "unknown", "refused", "runs", "done"}]
  /\ ticker \in [Calls -> {"none", "sleeps", "sends"}]
  /\ conn \in [Conns -> [at : {"none", "serves", "ends"}, peer : BOOLEAN,
                         headers : BOOLEAN,
                         keepalive : {"none", "waits", "sleeps", "writes"}]]
  /\ writing \in [Conns -> SUBSET Writers] /\ queued \in [Conns -> SUBSET Writers]
  /\ active \in Nat

(* Of any RequestsPerMinute + 1 calls the rate limiter let through, the     *)
(* last came more than a window after the first: whatever it has dropped    *)
(* from its deque meanwhile.                                                *)
RateCap ==
  \A i \in 1..Len(taken) :
    i + RequestsPerMinute <= Len(taken) =>
      taken[i] + WindowSeconds < taken[i + RequestsPerMinute]

(* The deque and the three states of the breaker decide as Admission does,  *)
(* which looks at the calls and at their results only, although calls       *)
(* overlap: results arrive late, and after the timeout every call probes.   *)
Promise == INSTANCE Admission WITH failures <- failure_count, failed <- last_failure_time
Admits == Promise!Spec

(* On one connection, one writer is in send at a time, and the keepalive is *)
(* not one of them before the headers are out.                              *)
CleanStream ==
  \A c \in Conns :
    /\ Cardinality(writing[c]) <= 1
    /\ "keepalive" \in writing[c] => conn[c].headers

(* No task outlives what it was started for: a ticker its call and the      *)
(* call's connection, a keepalive the MCP task; and /health counts the      *)
(* handlers that are there.                                                 *)
NothingOutlives ==
  /\ \A k \in Calls : ticker[k] # "none" => Running(k) /\ via[k] \in Conns /\ Serving(via[k])
  /\ \A c \in Conns :
       conn[c].keepalive # "none" \/ writing[c] \cup queued[c] # {} => Serving(c)
  /\ active = Cardinality({c \in Conns : conn[c].at # "none"})

(* A call is answered even if its progress notification hangs, and a        *)
(* connection whose peer is gone is given up even if a frame is on its way: *)
(* unless a REST client left before the end of its body, which stops the    *)
(* whole server.                                                            *)
NobodyHangs ==
  /\ \A k \in Calls : Running(k) ~> ~Running(k) \/ Spins
  /\ \A c \in Conns : Serving(c) /\ ~conn[c].peer ~> conn[c].at = "none" \/ Spins

=============================================================================
