-------------------------- MODULE ToolServer_proofs --------------------------
(***************************************************************************)
(* The rate limiter and the circuit breaker implement Admission, for every *)
(* cap, window, threshold and timeout; the writers of a connection take    *)
(* turns, and no task outlives what it was started for, for any number of  *)
(* calls and connections.                                                  *)
(*                                                                         *)
(* The invariant says of the deque that what has left it is old and that   *)
(* times are in order, and of the breaker's three states what they tell of *)
(* the results: closed is fewer failures than the threshold, half open is  *)
(* a timeout that has run out.  The invariant of the connections says that *)
(* nobody waits for a lock that is free, that one of the writers holds it  *)
(* and the other may wait, and that the keepalive has seen the headers.    *)
(***************************************************************************)
EXTENDS ToolServer, FiniteSetTheorems, TLAPS

Times ==
  /\ \A i \in 1..Len(taken) : taken[i] <= now
  /\ \A i, j \in 1..Len(taken) : i <= j => taken[i] <= taken[j]
  /\ \A i \in 1..dropped : Old(i)

States ==
  /\ last_failure_time <= now
  /\ state = "closed" <=> failure_count < FailureThreshold
  /\ state = "half_open" => now >= last_failure_time + ResetTimeout

IInv == TypeOK /\ Times /\ States /\ RateCap

USE ServerAssumption

-----------------------------------------------------------------------------
(* What is left in the deque is fewer than the cap exactly if fewer than    *)
(* the cap were taken in the window.                                        *)
LEMMA AllowedIsRoom ==
  ASSUME IInv, NEW d \in dropped..Len(taken), Popped(d)
  PROVE  is_allowed(d) <=> Promise!Room
<1> DEFINE n == Len(taken)
           i == n - RequestsPerMinute + 1
<1>0. n \in Nat /\ dropped \in Nat /\ d \in Nat /\ now \in Nat /\ \A j \in 1..n : taken[j] \in Nat
  BY DEF IInv, TypeOK
<1>1. ASSUME is_allowed(d), n >= RequestsPerMinute
      PROVE  taken[i] + WindowSeconds < now
  <2>1. i \in 1..d
    BY <1>0, <1>1 DEF is_allowed
  <2>2. Old(i)
    BY <1>0, <2>1 DEF Popped, IInv, Times
  <2> QED BY <2>2 DEF Old
<1>2. ASSUME ~is_allowed(d)
      PROVE  n >= RequestsPerMinute /\ ~(taken[i] + WindowSeconds < now)
  <2>1. n >= RequestsPerMinute /\ i \in d + 1..n /\ d < n
    BY <1>0, <1>2 DEF is_allowed
  <2>2. ~(taken[d + 1] + WindowSeconds < now)
    BY <2>1 DEF Popped, Old
  <2>3. taken[d + 1] <= taken[i]
    BY <1>0, <2>1 DEF IInv, Times
  <2>4. taken[d + 1] \in Nat /\ taken[i] \in Nat
    BY <1>0, <2>1
  <2> QED BY <1>0, <2>1, <2>2, <2>3, <2>4
<1> QED BY <1>1, <1>2 DEF Promise!Room

(* The breaker lets a call through exactly if Admission is not tripped.     *)
LEMMA PassesIsUntripped ==
  ASSUME IInv
  PROVE  Passes <=> ~Promise!Tripped
BY DEF IInv, TypeOK, States, Passes, Probes, Promise!Tripped

-----------------------------------------------------------------------------
(* TypeCorrect, step by step                                                *)

(* Nothing has been taken, nothing has failed                               *)
LEMMA InitInv == Init => IInv
<1> SUFFICES ASSUME Init PROVE IInv
  OBVIOUS
<1>1. TypeOK
  BY DEF Init, TypeOK, NoConn
<1>2. Times /\ States /\ RateCap
  BY DEF Init, Times, States, RateCap, Old
<1> QED BY <1>1, <1>2 DEF IInv

(* safe_execute up to the first await keeps what the breaker's states tell  *)
LEMMA ExecuteKeeps ==
  ASSUME IInv, NEW k \in Calls, NEW tick \in {"none", "sleeps"}, Execute(k, tick)
  PROVE  /\ state' \in {"closed", "open", "half_open"}
         /\ status' \in [Calls -> {"idle", "limited", "unknown", "refused", "runs", "done"}]
         /\ ticker' \in [Calls -> {"none", "sleeps", "sends"}]
         /\ UNCHANGED <<failure_count, last_failure_time>>
         /\ now' = now => States'
<1>1. /\ state' \in {"closed", "open", "half_open"}
      /\ UNCHANGED <<failure_count, last_failure_time>>
  BY DEF Execute, check, breaker, IInv, TypeOK
<1>2. /\ status' \in [Calls -> {"idle", "limited", "unknown", "refused", "runs", "done"}]
      /\ ticker' \in [Calls -> {"none", "sleeps", "sends"}]
  BY DEF Execute, Answer, IInv, TypeOK
<1>3. now' = now => States'
  BY <1>1 DEF Execute, check, breaker, Passes, Probes, States, IInv, TypeOK
<1> QED BY <1>1, <1>2, <1>3

(* What a step that lets no time pass and takes no call leaves as it was    *)
LEMMA QuietKeeps ==
  ASSUME IInv, UNCHANGED <<now, limiter>>
  PROVE  Times' /\ RateCap'
BY DEF IInv, Times, RateCap, Old, limiter

(* A call over MCP: what the limiter pops is old, and a call it takes       *)
(* leaves room for the cap in every window                                  *)
LEMMA CallToolInv ==
  ASSUME IInv, NEW k \in Calls, NEW c \in Conns, CallTool(k, c)
  PROVE  IInv'
<1> PICK d \in dropped..Len(taken) :
      Popped(d) /\ dropped' = d /\ (Limit(k, d) \/ Take(k, d))
  BY DEF CallTool
<1> DEFINE n == Len(taken)
           Kept == /\ state' \in {"closed", "open", "half_open"}
                   /\ status' \in [Calls -> {"idle", "limited", "unknown", "refused", "runs", "done"}]
                   /\ ticker' \in [Calls -> {"none", "sleeps", "sends"}]
                   /\ UNCHANGED <<failure_count, last_failure_time>>
                   /\ States'
<1>0. /\ n \in Nat /\ dropped \in Nat /\ d \in Nat /\ d <= n /\ now \in Nat /\ now' = now
      /\ \A j \in 1..n : taken[j] \in Nat
      /\ UNCHANGED <<boot, stream>>
  BY DEF IInv, TypeOK, CallTool
<1>1. \A i \in 1..d : Old(i)
  BY <1>0 DEF Popped, IInv, Times
<1>2. CASE Limit(k, d)
  <2>1. TypeOK'
    BY <1>0, <1>2 DEF IInv, TypeOK, Limit, Answer, breaker, stream
  <2>2. Times' /\ States' /\ RateCap'
    BY <1>0, <1>1, <1>2 DEF IInv, Times, States, RateCap, Old, Limit, breaker
  <2> QED BY <2>1, <2>2 DEF IInv
<1>3. CASE Take(k, d)
  <2>1. /\ taken' \in Seq(Nat) /\ Len(taken') = n + 1 /\ taken'[n + 1] = now
        /\ \A i \in 1..n : taken'[i] = taken[i]
    BY <1>0, <1>3 DEF Take, IInv, TypeOK
  <2>2. Kept
    <3>1. CASE Answer(k, "unknown") /\ UNCHANGED <<breaker, ticker>>
      BY <1>0, <3>1 DEF Answer, breaker, IInv, TypeOK, States
    <3>2. ASSUME NEW tick \in {"none", "sleeps"}, Execute(k, tick)
          PROVE  Kept
      BY <1>0, <3>2, ExecuteKeeps
    <3> QED BY <1>3, <3>1, <3>2 DEF Take
  <2>3. TypeOK'
    BY <1>0, <2>1, <2>2 DEF IInv, TypeOK, stream
  <2>4. Times'
    <3>1. \A i \in 1..n + 1 : taken'[i] <= now /\ taken'[i] \in Nat
      BY <1>0, <2>1 DEF IInv, Times
    <3>2. ASSUME NEW i \in 1..n + 1, NEW j \in 1..n + 1, i <= j
          PROVE  taken'[i] <= taken'[j]
      <4>1. CASE j = n + 1
        BY <2>1, <3>1, <4>1
      <4>2. CASE j # n + 1
        <5>1. i \in 1..n /\ j \in 1..n
          BY <1>0, <3>2, <4>2
        <5> QED BY <2>1, <3>2, <5>1 DEF IInv, Times
      <4> QED BY <4>1, <4>2
    <3>3. ASSUME NEW i \in 1..dropped'
          PROVE  Old(i)'
      <4>1. i \in 1..d /\ i \in 1..n
        BY <1>0
      <4>2. Old(i)
        BY <1>1, <4>1
      <4> QED BY <1>0, <2>1, <4>1, <4>2 DEF Old
    <3>4. Len(taken') = n + 1 /\ now' = now
      BY <1>0, <2>1
    <3>5. \A i \in 1..Len(taken') : taken'[i] <= now'
      BY <3>1, <3>4
    <3>6. \A i, j \in 1..Len(taken') : i <= j => taken'[i] <= taken'[j]
      BY <3>2, <3>4
    <3> QED BY <3>3, <3>5, <3>6 DEF Times
  <2>5. RateCap'
    <3> SUFFICES ASSUME NEW i \in 1..n + 1, i + RequestsPerMinute <= n + 1
                 PROVE  taken'[i] + WindowSeconds < taken'[i + RequestsPerMinute]
      BY <2>1 DEF RateCap
    <3>1. CASE i + RequestsPerMinute <= n
      <4>1. i \in 1..n /\ i + RequestsPerMinute \in 1..n
        BY <1>0, <3>1
      <4> QED BY <2>1, <3>1, <4>1 DEF IInv, RateCap
    <3>2. CASE i + RequestsPerMinute = n + 1
      <4>1. i \in 1..d
        BY <1>0, <1>3, <3>2 DEF Take, is_allowed
      <4>2. taken[i] + WindowSeconds < now
        BY <1>1, <4>1 DEF Old
      <4>3. taken'[i] = taken[i]
        BY <1>0, <2>1, <4>1
      <4>4. taken'[i + RequestsPerMinute] = now
        BY <2>1, <3>2
      <4> QED BY <4>2, <4>3, <4>4
    <3> QED BY <1>0, <3>1, <3>2
  <2> QED BY <2>2, <2>3, <2>4, <2>5 DEF IInv
<1> QED BY <1>2, <1>3

(* A call over REST knows the breaker only                                  *)
LEMMA RestCallInv ==
  ASSUME IInv, NEW k \in Calls, RestCall(k)
  PROVE  IInv'
<1>1. TypeOK' /\ States'
  BY ExecuteKeeps DEF RestCall, IInv, TypeOK, limiter, stream
<1>2. Times' /\ RateCap'
  BY QuietKeeps DEF RestCall
<1> QED BY <1>1, <1>2 DEF IInv

(* A result: the breaker's states tell of the failures so far               *)
LEMMA FinishInv ==
  ASSUME IInv, NEW k \in Calls, Finish(k)
  PROVE  IInv'
<1>1. /\ state' \in {"closed", "open", "half_open"}
      /\ failure_count' \in Nat /\ last_failure_time' \in Nat
      /\ States'
  BY DEF Finish, record_success, record_failure, breaker, IInv, TypeOK, States
<1>2. TypeOK'
  BY <1>1 DEF Finish, Answer, IInv, TypeOK, limiter, stream
<1>3. Times' /\ RateCap'
  BY QuietKeeps DEF Finish
<1> QED BY <1>1, <1>2, <1>3 DEF IInv

(* The other steps leave the limiter and the breaker as they are            *)
LEMMA QuietInv ==
  ASSUME IInv, TypeOK', UNCHANGED <<now, limiter, breaker>>
  PROVE  IInv'
<1>1. States'
  BY DEF IInv, States, breaker
<1> QED BY <1>1, QuietKeeps DEF IInv

(* What the two writers and the handler do to a connection                  *)
ConnType == [at : {"none", "serves", "ends"}, peer : BOOLEAN, headers : BOOLEAN,
             keepalive : {"none", "waits", "sleeps", "writes"}]

(* send_lock is held and awaited by writers                                 *)
LEMMA SendTypes ==
  ASSUME TypeOK, NEW c \in Conns, NEW w \in Writers, Send(c, w) \/ Release(c, w)
  PROVE  writing' \in [Conns -> SUBSET Writers] /\ queued' \in [Conns -> SUBSET Writers]
BY DEF TypeOK, Send, Release

StreamStep(c) ==
  \/ handle_sse(c) \/ SdkSends(c) \/ SdkSent(c)
  \/ HeadersSent(c) \/ KeepaliveTick(c) \/ KeepaliveSent(c)
  \/ PeerLeaves(c) \/ HandlerEnds(c)

(* What happens on a connection leaves the calls, the limiter and the       *)
(* breaker alone                                                            *)
LEMMA StreamTypes ==
  ASSUME IInv, NEW c \in Conns, StreamStep(c)
  PROVE  TypeOK' /\ OnStream
<1>0. TypeOK
  BY DEF IInv
<1>1. CASE handle_sse(c)
  BY <1>0, <1>1 DEF handle_sse, OnStream, TypeOK, limiter, breaker, call
<1>2. CASE SdkSends(c)
  <2>1. Send(c, "sdk") /\ "sdk" \in Writers
    BY <1>2 DEF SdkSends, Writers
  <2>2. writing' \in [Conns -> SUBSET Writers] /\ queued' \in [Conns -> SUBSET Writers]
    BY <1>0, <2>1, SendTypes
  <2> QED BY <1>0, <1>2, <2>2 DEF SdkSends, OnStream, TypeOK, limiter, breaker, call
<1>3. CASE SdkSent(c)
  <2>1. Release(c, "sdk") /\ "sdk" \in Writers
    BY <1>3 DEF SdkSent, Writers
  <2>2. writing' \in [Conns -> SUBSET Writers] /\ queued' \in [Conns -> SUBSET Writers]
    BY <1>0, <2>1, SendTypes
  <2> QED BY <1>0, <1>3, <2>2 DEF SdkSent, OnStream, TypeOK, limiter, breaker, call
<1>4. CASE HeadersSent(c)
  BY <1>0, <1>4 DEF HeadersSent, OnStream, TypeOK, limiter, breaker, call
<1>5. CASE KeepaliveTick(c)
  <2>1. Send(c, "keepalive") /\ "keepalive" \in Writers
    BY <1>5 DEF KeepaliveTick, Writers
  <2>2. writing' \in [Conns -> SUBSET Writers] /\ queued' \in [Conns -> SUBSET Writers]
    BY <1>0, <2>1, SendTypes
  <2> QED BY <1>0, <1>5, <2>2 DEF KeepaliveTick, OnStream, TypeOK, limiter, breaker, call
<1>6. CASE KeepaliveSent(c)
  <2>1. Release(c, "keepalive") /\ "keepalive" \in Writers
    BY <1>6 DEF KeepaliveSent, Writers
  <2>2. writing' \in [Conns -> SUBSET Writers] /\ queued' \in [Conns -> SUBSET Writers]
    BY <1>0, <2>1, SendTypes
  <2>3. conn' \in [Conns -> ConnType]
    <3>1. PICK k \in {"sleeps", "none"} : conn' = [conn EXCEPT ![c].keepalive = k]
      BY <1>6 DEF KeepaliveSent
    <3> QED BY <1>0, <3>1 DEF TypeOK, ConnType
  <2> QED BY <1>0, <1>6, <2>2, <2>3 DEF KeepaliveSent, OnStream, TypeOK, ConnType,
                                      limiter, breaker, call
<1>7. CASE PeerLeaves(c)
  BY <1>0, <1>7 DEF PeerLeaves, OnStream, TypeOK, limiter, breaker, call
<1>8. CASE HandlerEnds(c)
  BY <1>0, <1>8 DEF HandlerEnds, OneLess, OnStream, TypeOK, limiter, breaker, call, NoConn
<1> QED BY <1>1, <1>2, <1>3, <1>4, <1>5, <1>6, <1>7, <1>8 DEF StreamStep

(* Every step keeps the invariant                                           *)
LEMMA NextInv == IInv /\ [Next]_vars => IInv'
<1> SUFFICES ASSUME IInv, [Next]_vars PROVE IInv'
  OBVIOUS
<1>1. CASE run
  <2>1. TypeOK'
    <3>1. boot' \in [at : {"connects", "serves", "spins", "stopped"}, tries : Nat]
      <4>1. boot.tries \in Nat /\ boot.tries + 1 \in Nat
        BY DEF IInv, TypeOK
      <4>2. CASE boot' = [at |-> "serves", tries |-> 0]
        BY <4>2
      <4>3. CASE boot' = [boot EXCEPT !.tries = @ + 1]
        BY <4>1, <4>3 DEF IInv, TypeOK
      <4>4. CASE boot' = [boot EXCEPT !.at = "stopped"]
        BY <4>4 DEF IInv, TypeOK
      <4> QED BY <1>1, <4>2, <4>3, <4>4 DEF run, Retried
    <3> QED BY <1>1, <3>1 DEF run, IInv, TypeOK, limiter, breaker, call, stream
  <2> QED BY <1>1, <2>1, QuietInv DEF run
<1>2. CASE Pass
  <2>1. TypeOK'
    BY <1>2 DEF Pass, IInv, TypeOK, limiter, breaker, call, stream
  <2>2. Times' /\ States' /\ RateCap'
    BY <1>2 DEF Pass, IInv, TypeOK, Times, States, RateCap, Old, limiter, breaker
  <2> QED BY <2>1, <2>2 DEF IInv
<1>3. ASSUME NEW k \in Calls, Leave(k) \/ Sleeps(k) \/ Notified(k)
      PROVE  IInv'
  <2>1. TypeOK' /\ UNCHANGED <<now, limiter, breaker>>
    BY <1>3 DEF Leave, Sleeps, Notified, Answer, IInv, TypeOK, limiter, breaker, stream
  <2> QED BY <2>1, QuietInv
<1>4. ASSUME NEW c \in Conns, StreamStep(c)
      PROVE  IInv'
  BY <1>4, StreamTypes, QuietInv DEF OnStream
<1>5. ASSUME NEW c \in Conns, McpEnds(c)
      PROVE  IInv'
  <2>1. TypeOK' /\ UNCHANGED <<now, limiter, breaker>>
    <3>1. conn' \in [Conns -> ConnType]
      BY <1>5 DEF McpEnds, IInv, TypeOK, ConnType
    <3>2. /\ writing' \in [Conns -> SUBSET Writers] /\ queued' \in [Conns -> SUBSET Writers]
          /\ ticker' \in [Calls -> {"none", "sleeps", "sends"}]
          /\ status' \in [Calls -> {"idle", "limited", "unknown", "refused", "runs", "done"}]
      BY <1>5 DEF McpEnds, IInv, TypeOK
    <3>3. UNCHANGED <<boot, now, limiter, breaker, active>>
      BY <1>5 DEF McpEnds
    <3> QED BY <3>1, <3>2, <3>3 DEF IInv, TypeOK, ConnType, limiter, breaker
  <2> QED BY <2>1, QuietInv
<1>6. CASE UNCHANGED vars
  <2>1. TypeOK' /\ UNCHANGED <<now, limiter, breaker>>
    BY <1>6 DEF vars, IInv, TypeOK, limiter, breaker, call, stream
  <2> QED BY <2>1, QuietInv
<1>7. CASE BodyCut
  <2>1. TypeOK' /\ UNCHANGED <<now, limiter, breaker>>
    BY <1>7 DEF BodyCut, IInv, TypeOK, limiter, breaker, call, stream
  <2> QED BY <2>1, QuietInv
<1> QED BY <1>1, <1>2, <1>3, <1>4, <1>5, <1>6, <1>7, CallToolInv, RestCallInv, FinishInv
        DEF Next, StreamStep

(* The invariant of the limiter and the breaker holds                       *)
LEMMA InductiveInv == Spec => []IInv
BY InitInv, NextInv, PTL DEF Spec

(* Every variable has its type.                                             *)
THEOREM TypeCorrect == Spec => []TypeOK
<1>1. IInv => TypeOK
  BY DEF IInv
<1> QED BY <1>1, InductiveInv, PTL

(* However the calls come, RateLimiter lets no more than its cap through in *)
(* any window.                                                              *)
THEOREM CapHolds == Spec => []RateCap
<1>1. IInv => RateCap
  BY DEF IInv
<1> QED BY <1>1, InductiveInv, PTL

-----------------------------------------------------------------------------
(* The refinement, step by step                                             *)

(* The breaker answers what Admission answers                               *)
LEMMA ExecuteVerdict ==
  ASSUME IInv, NEW k \in Calls, NEW tick \in {"none", "sleeps"}, Execute(k, tick)
  PROVE  /\ Promise!Becomes(k, Promise!Verdict)
         /\ UNCHANGED <<failure_count, last_failure_time>>
<1>1. Passes <=> ~Promise!Tripped
  BY PassesIsUntripped
<1> QED BY <1>1 DEF Execute, check, breaker, Answer, Promise!Becomes, Promise!Verdict

(* A call over MCP is Admission's Limit or Take                             *)
LEMMA CallToolRefines ==
  ASSUME IInv, NEW k \in Calls, NEW c \in Conns, CallTool(k, c)
  PROVE  Promise!Next
<1> PICK d \in dropped..Len(taken) :
      Popped(d) /\ dropped' = d /\ (Limit(k, d) \/ Take(k, d))
  BY DEF CallTool
<1>1. is_allowed(d) <=> Promise!Room
  BY AllowedIsRoom
<1>2. status[k] = "idle" /\ now' = now
  BY DEF CallTool
<1>3. CASE Limit(k, d)
  <2>1. Promise!Limit(k)
    BY <1>1, <1>2, <1>3 DEF Limit, Answer, breaker, Promise!Limit, Promise!Becomes
  <2> QED BY <2>1 DEF Promise!Next
<1>4. CASE Take(k, d)
  <2>1. CASE Answer(k, "unknown") /\ UNCHANGED <<breaker, ticker>>
    <3>1. Promise!Take(k)
      BY <1>1, <1>2, <1>4, <2>1 DEF Take, Answer, breaker, Promise!Take, Promise!Becomes
    <3> QED BY <3>1 DEF Promise!Next
  <2>2. ASSUME NEW tick \in {"none", "sleeps"}, Execute(k, tick)
        PROVE  Promise!Next
    <3>1. Promise!Take(k)
      BY <1>1, <1>2, <1>4, <2>2, ExecuteVerdict DEF Take, Promise!Take
    <3> QED BY <3>1 DEF Promise!Next
  <2> QED BY <1>4, <2>1, <2>2 DEF Take
<1> QED BY <1>3, <1>4

(* A result is Admission's Finish                                           *)
LEMMA FinishRefines ==
  ASSUME IInv, NEW k \in Calls, Finish(k)
  PROVE  Promise!Next
<1>1. Promise!Finish(k)
  BY DEF Finish, record_success, record_failure, breaker, limiter, Answer, Running,
         Promise!Finish, Promise!Success, Promise!Failure, Promise!Neither, Promise!Becomes
<1> QED BY <1>1 DEF Promise!Next

(* A call is answered, or goes with its connection                          *)
LEMMA LeaveRefines ==
  ASSUME IInv, (\E k \in Calls : Leave(k)) \/ (\E c \in Conns : McpEnds(c))
  PROVE  Promise!Next
<1>0. status \in [Calls -> {"idle", "limited", "unknown", "refused", "runs", "done"}]
  BY DEF IInv, TypeOK
<1>1. ASSUME NEW k \in Calls, Leave(k)
      PROVE  Promise!Next
  <2>1. Promise!Leave({k})
    BY <1>0, <1>1 DEF Leave, Answer, limiter, breaker, Promise!Leave
  <2> QED BY <2>1 DEF Promise!Next
<1>2. ASSUME NEW c \in Conns, McpEnds(c)
      PROVE  Promise!Next
  <2> DEFINE cut == {k \in Calls : via[k] = c /\ status[k] # "idle"}
  <2>1. Promise!Leave(cut)
    BY <1>2 DEF McpEnds, limiter, breaker, Promise!Leave
  <2> QED BY <2>1 DEF Promise!Next
<1> QED BY <1>1, <1>2

(* Every step is a step of Admission, or none                               *)
LEMMA NextRefines == IInv /\ [Next]_vars => [Promise!Next]_(Promise!avars)
<1> SUFFICES ASSUME IInv, [Next]_vars PROVE [Promise!Next]_(Promise!avars)
  OBVIOUS
<1>1. ASSUME NEW k \in Calls, RestCall(k)
      PROVE  Promise!Next
  <2>1. Promise!TakeRest(k)
    BY <1>1, ExecuteVerdict DEF RestCall, limiter, Promise!TakeRest
  <2> QED BY <2>1 DEF Promise!Next
<1>2. CASE Pass
  <2>1. Promise!Pass
    BY <1>2 DEF Pass, limiter, breaker, call, Promise!Pass
  <2> QED BY <2>1 DEF Promise!Next
<1>3. CASE \/ run \/ BodyCut \/ UNCHANGED vars
           \/ \E k \in Calls : Sleeps(k) \/ Notified(k)
  BY <1>3 DEF run, BodyCut, Sleeps, Notified, vars, limiter, breaker, call, Promise!avars
<1>4. ASSUME NEW c \in Conns, StreamStep(c)
      PROVE  UNCHANGED Promise!avars
  BY <1>4, StreamTypes DEF OnStream, limiter, breaker, call, Promise!avars
<1> QED BY <1>1, <1>2, <1>3, <1>4, CallToolRefines, FinishRefines, LeaveRefines
        DEF Next, StreamStep

(* RateLimiter's deque and CircuitBreaker's states decide as Admission does *)
(* on the calls taken and the results returned alone.                       *)
THEOREM Implements == Spec => Admits
<1>1. Init => Promise!Init
  BY DEF Init, Promise!Init
<1> QED BY <1>1, InductiveInv, NextRefines, PTL DEF Spec, Admits, Promise!Spec

-----------------------------------------------------------------------------
(* Connections and their tasks                                              *)

(* The lock of a connection: one writer holds it, and one who waits for it  *)
(* is another.  The keepalive only comes after the headers.                 *)
LockHeld(c) ==
  /\ writing[c] \in {{}, {"sdk"}, {"keepalive"}}
  /\ writing[c] = {} => queued[c] = {}
  /\ writing[c] \cap queued[c] = {}

AfterHeaders(c) ==
  "keepalive" \in writing[c] \cup queued[c] \/ conn[c].keepalive \in {"sleeps", "writes"}
    => conn[c].headers

TasksServe(c) == conn[c].keepalive # "none" \/ writing[c] \cup queued[c] # {} => Serving(c)

StreamOK(c) == LockHeld(c) /\ AfterHeaders(c) /\ TasksServe(c)

TickerOK(k) == ticker[k] # "none" => Running(k) /\ via[k] \in Conns /\ Serving(via[k])

Live == {c \in Conns : conn[c].at # "none"}

SInv ==
  /\ via \in [Calls -> Conns \cup {"rest"}]
  /\ \A c \in Conns : StreamOK(c)
  /\ \A k \in Calls : TickerOK(k)
  /\ IsFiniteSet(Live) /\ active = Cardinality(Live)

(* No connection and no call: nothing is there to outlive                   *)
LEMMA InitStreams == Init => SInv
<1> SUFFICES ASSUME Init PROVE SInv
  OBVIOUS
<1>1. \A c \in Conns : StreamOK(c)
  BY DEF Init, NoConn, StreamOK, LockHeld, AfterHeaders, TasksServe
<1>2. Live = {}
  BY DEF Init, NoConn, Live
<1> QED BY <1>1, <1>2, FS_EmptySet DEF Init, SInv, TickerOK

(* A step of one connection that keeps its handler and its lock in order    *)
(* keeps everything else: tickers look at whether the connection serves.    *)
LEMMA OneStream ==
  ASSUME IInv, SInv, NEW c \in Conns, OnStream, active' = active,
         NEW new \in ConnType, conn' = [conn EXCEPT ![c] = new],
         new.at = conn[c].at,
         \A d \in Conns \ {c} : writing'[d] = writing[d] /\ queued'[d] = queued[d],
         StreamOK(c)'
  PROVE  SInv'
<1>0. conn \in [Conns -> ConnType] /\ conn' \in [Conns -> ConnType]
  BY DEF IInv, TypeOK, ConnType
<1>1. \A d \in Conns \ {c} : StreamOK(d)'
  BY <1>0 DEF SInv, StreamOK, LockHeld, AfterHeaders, TasksServe, Serving
<1>2. \A d \in Conns : conn'[d].at = conn[d].at
  BY <1>0
<1>3. \A k \in Calls : TickerOK(k)'
  BY <1>2 DEF SInv, TickerOK, OnStream, call, Running, Serving
<1>4. Live' = Live
  BY <1>2 DEF Live
<1> QED BY <1>1, <1>3, <1>4 DEF SInv, OnStream, call

(* A writer that asks for the lock and does not have or await it            *)
LEMMA SendOrdered ==
  ASSUME IInv, SInv, NEW c \in Conns, NEW w \in Writers, Send(c, w),
         w \notin writing[c] \cup queued[c]
  PROVE  /\ LockHeld(c)'
         /\ writing'[c] \cup queued'[c] = writing[c] \cup queued[c] \cup {w}
         /\ \A d \in Conns \ {c} : writing'[d] = writing[d] /\ queued'[d] = queued[d]
<1>0. /\ writing \in [Conns -> SUBSET Writers] /\ queued \in [Conns -> SUBSET Writers]
      /\ LockHeld(c)
  BY DEF IInv, TypeOK, SInv, StreamOK
<1>1. CASE writing[c] = {}
  BY <1>0, <1>1 DEF Send, LockHeld, Writers
<1>2. CASE writing[c] # {}
  BY <1>0, <1>2 DEF Send, LockHeld, Writers
<1> QED BY <1>1, <1>2

(* A writer that gives the lock to the one who waits                        *)
LEMMA ReleaseOrdered ==
  ASSUME IInv, SInv, NEW c \in Conns, NEW w \in Writers, Release(c, w), w \in writing[c]
  PROVE  /\ LockHeld(c)'
         /\ writing'[c] \cup queued'[c] \subseteq writing[c] \cup queued[c]
         /\ w \notin writing'[c] \cup queued'[c]
         /\ \A d \in Conns \ {c} : writing'[d] = writing[d] /\ queued'[d] = queued[d]
<1>0. /\ writing \in [Conns -> SUBSET Writers] /\ queued \in [Conns -> SUBSET Writers]
      /\ LockHeld(c)
  BY DEF IInv, TypeOK, SInv, StreamOK
<1>1. writing[c] = {w} /\ queued[c] \subseteq Writers \ {w}
  BY <1>0 DEF LockHeld
<1>2. writing'[c] = queued[c] /\ queued'[c] = {}
  BY <1>0, <1>1 DEF Release
<1>3. queued[c] \in {{}, {"sdk"}, {"keepalive"}}
  BY <1>1 DEF Writers
<1>4. \A d \in Conns \ {c} : writing'[d] = writing[d] /\ queued'[d] = queued[d]
  BY <1>0 DEF Release
<1> QED BY <1>1, <1>2, <1>3, <1>4 DEF LockHeld

(* What the two writers and the client do to a connection that is there     *)
LEMMA WritersKeep ==
  ASSUME IInv, SInv, NEW c \in Conns,
         \/ SdkSends(c) \/ SdkSent(c) \/ HeadersSent(c)
         \/ KeepaliveTick(c) \/ KeepaliveSent(c) \/ PeerLeaves(c)
  PROVE  SInv'
<1>0. conn \in [Conns -> ConnType] /\ conn[c] \in ConnType /\ StreamOK(c)
  BY DEF IInv, TypeOK, ConnType, SInv
<1>1. CASE SdkSends(c)
  <2>1. Send(c, "sdk") /\ "sdk" \in Writers /\ Serving(c) /\ "sdk" \notin writing[c] \cup queued[c]
        /\ OnStream /\ UNCHANGED <<conn, active>>
    BY <1>1 DEF SdkSends, Writers
  <2>2. /\ LockHeld(c)'
        /\ writing'[c] \cup queued'[c] = writing[c] \cup queued[c] \cup {"sdk"}
        /\ \A d \in Conns \ {c} : writing'[d] = writing[d] /\ queued'[d] = queued[d]
    BY <2>1, SendOrdered
  <2>3. StreamOK(c)'
    BY <1>0, <2>1, <2>2 DEF StreamOK, AfterHeaders, TasksServe, Serving
  <2>4. conn' = [conn EXCEPT ![c] = conn[c]]
    BY <1>0, <2>1
  <2> QED BY <1>0, <2>1, <2>2, <2>3, <2>4, OneStream
<1>2. CASE SdkSent(c)
  <2> DEFINE new == [conn[c] EXCEPT !.headers = TRUE]
  <2>1. Release(c, "sdk") /\ "sdk" \in Writers /\ "sdk" \in writing[c]
        /\ OnStream /\ active' = active /\ conn' = [conn EXCEPT ![c] = new]
    BY <1>0, <1>2 DEF SdkSent, Writers
  <2>2. /\ LockHeld(c)'
        /\ writing'[c] \cup queued'[c] \subseteq writing[c] \cup queued[c]
        /\ \A d \in Conns \ {c} : writing'[d] = writing[d] /\ queued'[d] = queued[d]
    BY <2>1, ReleaseOrdered
  <2>3. /\ new \in ConnType /\ new.at = conn[c].at /\ new.headers
        /\ new.keepalive = conn[c].keepalive /\ conn'[c] = new
    BY <1>0, <2>1 DEF ConnType
  <2> HIDE DEF new
  <2>4. StreamOK(c)'
    BY <1>0, <2>1, <2>2, <2>3 DEF StreamOK, AfterHeaders, TasksServe, Serving
  <2> QED BY <2>1, <2>2, <2>3, <2>4, OneStream
<1>3. CASE HeadersSent(c)
  <2> DEFINE new == [conn[c] EXCEPT !.keepalive = "sleeps"]
  <2>1. OnStream /\ UNCHANGED <<writing, queued, active>> /\ conn' = [conn EXCEPT ![c] = new]
        /\ conn[c].headers /\ conn[c].keepalive = "waits"
    BY <1>0, <1>3 DEF HeadersSent
  <2>2. /\ new \in ConnType /\ new.at = conn[c].at /\ new.headers = conn[c].headers
        /\ conn'[c] = new
    BY <1>0, <2>1 DEF ConnType
  <2> HIDE DEF new
  <2>3. StreamOK(c)'
    BY <1>0, <2>1, <2>2 DEF StreamOK, LockHeld, AfterHeaders, TasksServe, Serving
  <2> QED BY <2>1, <2>2, <2>3, OneStream
<1>4. CASE KeepaliveTick(c)
  <2> DEFINE new == [conn[c] EXCEPT !.keepalive = "writes"]
  <2>1. Send(c, "keepalive") /\ "keepalive" \in Writers /\ writing[c] = {}
        /\ conn[c].keepalive = "sleeps" /\ OnStream /\ active' = active
        /\ conn' = [conn EXCEPT ![c] = new]
    BY <1>0, <1>4 DEF KeepaliveTick, Writers
  <2>2. queued[c] = {} /\ conn[c].headers /\ Serving(c)
    BY <1>0, <2>1 DEF StreamOK, LockHeld, AfterHeaders, TasksServe
  <2>3. /\ LockHeld(c)'
        /\ \A d \in Conns \ {c} : writing'[d] = writing[d] /\ queued'[d] = queued[d]
    BY <2>1, <2>2, SendOrdered
  <2>4. /\ new \in ConnType /\ new.at = conn[c].at /\ new.headers = conn[c].headers
        /\ conn'[c] = new
    BY <1>0, <2>1 DEF ConnType
  <2> HIDE DEF new
  <2>5. StreamOK(c)'
    BY <1>0, <2>1, <2>2, <2>3, <2>4 DEF StreamOK, AfterHeaders, TasksServe, Serving
  <2> QED BY <2>1, <2>3, <2>4, <2>5, OneStream
<1>5. CASE KeepaliveSent(c)
  <2>0. PICK k \in {"sleeps", "none"} : conn' = [conn EXCEPT ![c].keepalive = k]
    BY <1>5 DEF KeepaliveSent
  <2> DEFINE new == [conn[c] EXCEPT !.keepalive = k]
  <2>1. Release(c, "keepalive") /\ "keepalive" \in Writers /\ "keepalive" \in writing[c]
        /\ OnStream /\ active' = active /\ conn' = [conn EXCEPT ![c] = new]
    BY <1>0, <1>5, <2>0 DEF KeepaliveSent, Writers
  <2>2. Serving(c) /\ conn[c].headers
    BY <1>0, <2>1 DEF StreamOK, AfterHeaders, TasksServe
  <2>3. /\ LockHeld(c)'
        /\ \A d \in Conns \ {c} : writing'[d] = writing[d] /\ queued'[d] = queued[d]
    BY <2>1, ReleaseOrdered
  <2>4. /\ new \in ConnType /\ new.at = conn[c].at /\ new.headers = conn[c].headers
        /\ conn'[c] = new
    BY <1>0, <2>1 DEF ConnType
  <2> HIDE DEF new
  <2>5. StreamOK(c)'
    BY <2>2, <2>3, <2>4 DEF StreamOK, AfterHeaders, TasksServe, Serving
  <2> QED BY <2>1, <2>3, <2>4, <2>5, OneStream
<1>6. CASE PeerLeaves(c)
  <2> DEFINE new == [conn[c] EXCEPT !.peer = FALSE]
  <2>1. OnStream /\ UNCHANGED <<writing, queued, active>> /\ conn' = [conn EXCEPT ![c] = new]
    BY <1>0, <1>6 DEF PeerLeaves
  <2>2. /\ new \in ConnType /\ new.at = conn[c].at /\ new.headers = conn[c].headers
        /\ new.keepalive = conn[c].keepalive /\ conn'[c] = new
    BY <1>0, <2>1 DEF ConnType
  <2> HIDE DEF new
  <2>3. StreamOK(c)'
    BY <1>0, <2>1, <2>2 DEF StreamOK, LockHeld, AfterHeaders, TasksServe, Serving
  <2> QED BY <2>1, <2>2, <2>3, OneStream
<1> QED BY <1>1, <1>2, <1>3, <1>4, <1>5, <1>6

(* A handler comes: no task and no call is waiting for it                   *)
LEMMA ArrivalKeeps ==
  ASSUME IInv, SInv, NEW c \in Conns, handle_sse(c)
  PROVE  SInv'
<1>0. conn \in [Conns -> ConnType] /\ StreamOK(c) /\ conn[c].at = "none"
  BY DEF IInv, TypeOK, ConnType, SInv, handle_sse
<1>1. PICK k \in {"none", "waits"} : conn' = [conn EXCEPT ![c] =
        [at |-> "serves", peer |-> TRUE, headers |-> FALSE, keepalive |-> k]]
  BY DEF handle_sse
<1>2. /\ conn'[c].at = "serves" /\ conn'[c].keepalive \notin {"sleeps", "writes"}
      /\ \A d \in Conns \ {c} : conn'[d] = conn[d]
  BY <1>0, <1>1
<1>3. writing[c] = {} /\ queued[c] = {}
  BY <1>0 DEF StreamOK, TasksServe, Serving
<1>4. \A d \in Conns : StreamOK(d)'
  BY <1>2, <1>3 DEF handle_sse, SInv, StreamOK, LockHeld, AfterHeaders, TasksServe, Serving
<1>5. \A j \in Calls : TickerOK(j)'
  BY <1>0, <1>2 DEF handle_sse, OnStream, call, SInv, TickerOK, Running, Serving
<1>6. Live' = Live \cup {c} /\ c \notin Live
  BY <1>0, <1>2 DEF Live
<1>7. IsFiniteSet(Live') /\ active' = Cardinality(Live')
  BY <1>6, FS_AddElement DEF SInv, handle_sse
<1> QED BY <1>4, <1>5, <1>7 DEF SInv, handle_sse, OnStream, call

(* The MCP task ends, and takes the keepalive and the connection's calls    *)
(* along                                                                    *)
LEMMA EndKeeps ==
  ASSUME IInv, SInv, NEW c \in Conns, McpEnds(c)
  PROVE  SInv'
<1>0. /\ conn \in [Conns -> ConnType] /\ conn[c].at = "serves"
      /\ writing \in [Conns -> SUBSET Writers] /\ queued \in [Conns -> SUBSET Writers]
      /\ ticker \in [Calls -> {"none", "sleeps", "sends"}]
  BY DEF IInv, TypeOK, ConnType, SInv, McpEnds, Serving
<1>1. /\ conn'[c].at = "ends" /\ conn'[c].keepalive = "none"
      /\ \A d \in Conns \ {c} : conn'[d] = conn[d]
      /\ writing'[c] = {} /\ queued'[c] = {}
      /\ \A d \in Conns \ {c} : writing'[d] = writing[d] /\ queued'[d] = queued[d]
  BY <1>0 DEF McpEnds, ConnType
<1>2. \A d \in Conns : StreamOK(d)'
  BY <1>1 DEF SInv, StreamOK, LockHeld, AfterHeaders, TasksServe, Serving
<1>3. ASSUME NEW k \in Calls PROVE TickerOK(k)'
  <2>1. CASE via[k] = c /\ status[k] # "idle"
    BY <2>1 DEF McpEnds, TickerOK
  <2>2. CASE ~(via[k] = c /\ status[k] # "idle")
    <3>1. ticker'[k] = ticker[k] /\ status'[k] = status[k] /\ via'[k] = via[k]
      BY <2>2 DEF McpEnds
    <3> QED BY <1>1, <2>2, <3>1 DEF SInv, TickerOK, Running, Serving
  <2> QED BY <2>1, <2>2
<1>4. Live' = Live
  BY <1>0, <1>1 DEF Live
<1>5. via' \in [Calls -> Conns \cup {"rest"}]
  BY DEF McpEnds, SInv
<1> QED BY <1>2, <1>3, <1>4, <1>5 DEF SInv, McpEnds

(* A handler ends: it was counted                                           *)
LEMMA DepartureKeeps ==
  ASSUME IInv, SInv, NEW c \in Conns, HandlerEnds(c)
  PROVE  SInv'
<1>0. conn \in [Conns -> ConnType] /\ StreamOK(c) /\ conn[c].at = "ends"
  BY DEF IInv, TypeOK, ConnType, SInv, HandlerEnds
<1>1. conn'[c] = NoConn /\ \A d \in Conns \ {c} : conn'[d] = conn[d]
  BY <1>0 DEF HandlerEnds
<1>2. writing[c] = {} /\ queued[c] = {}
  BY <1>0 DEF StreamOK, TasksServe, Serving
<1>3. \A d \in Conns : StreamOK(d)'
  BY <1>1, <1>2 DEF HandlerEnds, NoConn, SInv, StreamOK, LockHeld, AfterHeaders, TasksServe, Serving
<1>4. \A j \in Calls : TickerOK(j)'
  BY <1>0, <1>1 DEF HandlerEnds, OnStream, call, SInv, TickerOK, Running, Serving
<1>5. Live' = Live \ {c} /\ c \in Live
  BY <1>0, <1>1 DEF Live, NoConn
<1>6. IsFiniteSet(Live') /\ Cardinality(Live') = active - 1 /\ active \in Nat /\ active - 1 \in Nat
  <2>1. IsFiniteSet(Live) /\ active = Cardinality(Live) /\ active \in Nat
    BY FS_CardinalityType DEF SInv
  <2>2. IsFiniteSet(Live') /\ Cardinality(Live') = active - 1
    BY <1>5, <2>1, FS_RemoveElement
  <2>3. Cardinality(Live') \in Nat
    BY <2>2, FS_CardinalityType
  <2> QED BY <2>1, <2>2, <2>3
<1>7. active' = Cardinality(Live')
  BY <1>6 DEF HandlerEnds, OneLess
<1> QED BY <1>3, <1>4, <1>6, <1>7 DEF SInv, HandlerEnds, OnStream, call

(* What calls do leaves the connections alone; a ticker starts with its     *)
(* call, on a connection that serves                                        *)
LEMMA CallsKeep ==
  ASSUME IInv, SInv, NEW k \in Calls,
         \/ RestCall(k) \/ Finish(k) \/ Leave(k) \/ Sleeps(k) \/ Notified(k)
         \/ \E c \in Conns : CallTool(k, c)
  PROVE  SInv'
<1>0. /\ status \in [Calls -> {"idle", "limited", "unknown", "refused", "runs", "done"}]
      /\ ticker \in [Calls -> {"none", "sleeps", "sends"}]
      /\ via \in [Calls -> Conns \cup {"rest"}]
      /\ \A j \in Calls : TickerOK(j)
  BY DEF IInv, TypeOK, SInv
<1>1. UNCHANGED stream
  BY DEF RestCall, Finish, Leave, Sleeps, Notified, CallTool
<1>2. ASSUME via' \in [Calls -> Conns \cup {"rest"}], TickerOK(k)',
             \A j \in Calls \ {k} :
               ticker'[j] = ticker[j] /\ status'[j] = status[j] /\ via'[j] = via[j]
      PROVE  SInv'
  <2>1. \A j \in Calls : TickerOK(j)'
    BY <1>0, <1>1, <1>2 DEF TickerOK, Running, Serving, stream
  <2>2. (\A c \in Conns : StreamOK(c))' /\ Live' = Live
    BY <1>1 DEF SInv, stream, StreamOK, LockHeld, AfterHeaders, TasksServe, Serving, Live
  <2> QED BY <1>1, <1>2, <2>1, <2>2 DEF SInv, stream
<1>3. ASSUME NEW tick, Execute(k, tick), status[k] = "idle"
      PROVE  /\ \A j \in Calls \ {k} : ticker'[j] = ticker[j] /\ status'[j] = status[j]
             /\ \/ ticker'[k] = tick /\ status'[k] = "runs"
                \/ ticker'[k] = "none"
  BY <1>0, <1>3 DEF Execute, Answer, TickerOK, Running
<1>4. CASE RestCall(k)
  <2>1. /\ status[k] = "idle" /\ via' = [via EXCEPT ![k] = "rest"] /\ Execute(k, "none")
    BY <1>4 DEF RestCall
  <2>2. TickerOK(k)'
    BY <1>3, <2>1 DEF TickerOK
  <2> QED BY <1>0, <1>2, <1>3, <2>1, <2>2
<1>5. ASSUME NEW c \in Conns, CallTool(k, c)
      PROVE  SInv'
  <2>1. /\ status[k] = "idle" /\ via' = [via EXCEPT ![k] = c] /\ Serving(c)
    BY <1>5 DEF CallTool
  <2>2. PICK d : Limit(k, d) \/ Take(k, d)
    BY <1>5 DEF CallTool
  <2>3. /\ \A j \in Calls \ {k} : ticker'[j] = ticker[j] /\ status'[j] = status[j]
        /\ \/ ticker'[k] \in {"none", "sleeps"} /\ status'[k] = "runs"
           \/ ticker'[k] = "none"
    <3>1. CASE \E s : Answer(k, s) /\ UNCHANGED ticker
      BY <1>0, <2>1, <3>1 DEF Answer, TickerOK, Running
    <3>2. CASE \E tick \in {"none", "sleeps"} : Execute(k, tick)
      BY <1>3, <2>1, <3>2
    <3> QED BY <2>2, <3>1, <3>2 DEF Limit, Take
  <2>4. Serving(c)'
    BY <1>1, <2>1 DEF Serving, stream
  <2>5. via' \in [Calls -> Conns \cup {"rest"}] /\ via'[k] = c
        /\ \A j \in Calls \ {k} : via'[j] = via[j]
    BY <1>0, <2>1
  <2>6. TickerOK(k)'
    BY <2>3, <2>4, <2>5 DEF TickerOK, Running, Serving
  <2> QED BY <1>2, <2>3, <2>5, <2>6
<1>6. CASE Finish(k) \/ Leave(k) \/ Sleeps(k) \/ Notified(k)
  <2>1. /\ via' \in [Calls -> Conns \cup {"rest"}]
        /\ \A j \in Calls \ {k} :
             ticker'[j] = ticker[j] /\ status'[j] = status[j] /\ via'[j] = via[j]
    BY <1>0, <1>6 DEF Finish, Leave, Sleeps, Notified, Answer
  <2>2. TickerOK(k)'
    <3>1. CASE Finish(k)
      BY <1>0, <3>1 DEF Finish, TickerOK
    <3>2. CASE Leave(k)
      BY <1>0, <3>2 DEF Leave, Answered, Answer, TickerOK, Running
    <3>3. CASE Sleeps(k) \/ Notified(k)
      BY <1>0, <1>1, <3>3 DEF Sleeps, Notified, TickerOK, Running, Serving, stream
    <3> QED BY <1>6, <3>1, <3>2, <3>3
  <2> QED BY <1>2, <2>1, <2>2
<1> QED BY <1>4, <1>5, <1>6

(* Every step keeps the connections and their tasks in order                *)
LEMMA NextStreams == IInv /\ SInv /\ [Next]_vars => SInv'
<1> SUFFICES ASSUME IInv, SInv, [Next]_vars PROVE SInv'
  OBVIOUS
<1>1. CASE run \/ BodyCut \/ Pass \/ UNCHANGED vars
  <2>1. UNCHANGED <<status, via, ticker, conn, writing, queued, active>>
    BY <1>1 DEF run, BodyCut, Pass, vars, call, stream
  <2>2. Live' = Live /\ (\A c \in Conns : StreamOK(c))' /\ (\A k \in Calls : TickerOK(k))'
    BY <2>1 DEF SInv, StreamOK, LockHeld, AfterHeaders, TasksServe, TickerOK, Running, Serving, Live
  <2> QED BY <2>1, <2>2 DEF SInv
<1> QED BY <1>1, WritersKeep, ArrivalKeeps, EndKeeps, DepartureKeeps, CallsKeep DEF Next

(* The invariant of the connections holds                                   *)
LEMMA StreamsInv == Spec => []SInv
BY InitStreams, NextStreams, InductiveInv, PTL DEF Spec

(* The SDK and the keepalive loop take turns in send, and no frame of the   *)
(* keepalive comes before the response has started (wrapped_send, send_lock *)
(* and headers_sent of handle_sse).                                         *)
THEOREM StreamsAreClean == Spec => []CleanStream
<1>1. SInv => CleanStream
  <2> SUFFICES ASSUME SInv, NEW c \in Conns
               PROVE  /\ Cardinality(writing[c]) <= 1
                      /\ "keepalive" \in writing[c] => conn[c].headers
    BY DEF CleanStream
  <2>1. writing[c] \in {{}, {"sdk"}, {"keepalive"}}
    BY DEF SInv, StreamOK, LockHeld
  <2>2. Cardinality({}) = 0 /\ Cardinality({"sdk"}) = 1 /\ Cardinality({"keepalive"}) = 1
    BY FS_EmptySet, FS_Singleton
  <2>3. Cardinality(writing[c]) <= 1
    BY <2>1, <2>2
  <2> QED BY <2>3 DEF SInv, StreamOK, AfterHeaders
<1> QED BY <1>1, StreamsInv, PTL

(* No ticker outlives its call or its connection, no keepalive the MCP      *)
(* task, and _ACTIVE_SSE counts the handlers that are there: its clamp at   *)
(* zero never bites.                                                        *)
THEOREM TasksEnd == Spec => []NothingOutlives
<1>1. SInv => NothingOutlives
  BY DEF SInv, NothingOutlives, TickerOK, StreamOK, TasksServe, Live
<1> QED BY <1>1, StreamsInv, PTL
=============================================================================
