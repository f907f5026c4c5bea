------------------------------ MODULE SendGate ------------------------------
(***************************************************************************)
(* The dispatcher's gate chain (v5/ewsmcp/tools/base.py), the confirm      *)
(* tokens (v5/ewsmcp/confirm.py) and the handlers it guards                *)
(* (v5/ewsmcp/tools/writes.py): send_draft with its idempotency receipts,  *)
(* the tools without a preview hook, and the draft edits that race them.   *)
(*                                                                         *)
(* A request is a coroutine on one event loop.  What it does between two   *)
(* awaits is one action; the only awaits are the two gateway calls, whose  *)
(* work runs on the thread pool: the preview's fetch and the handler's     *)
(* request to Exchange.  A call a guard refuses changes nothing modelled   *)
(* here and is a stuttering step.                                          *)
(*                                                                         *)
(* `now' counts half seconds: a token's expiry is compared once with the   *)
(* truncated and once with the exact clock.                                *)
(***************************************************************************)
EXTENDS Integers, Sequences, FiniteSets

CONSTANTS
  Requests,    (* concurrent requests                                      *)
  Drafts,      (* items of the Drafts folder                               *)
  Items,       (* the drafts and events a call may name                    *)
  Keys,        (* idempotency keys                                         *)
  Bodies,      (* draft contents: [text, rcpt, file, bytes]                *)
  Blocked,     (* recipients the allow/deny lists refuse                   *)
  Calls,       (* the calls clients make: [tool, h, key, body]             *)
  Switch,      (* the values SEND_ENABLED may have                         *)
  Ttl,         (* confirm_ttl_seconds                                      *)
  Cap,         (* ews_max_sends_per_hour, 0 for none                       *)
  Window,      (* the cap's hour, in half seconds                          *)
  IdemTtl,     (* _IDEMPOTENCY_TTL_S, in half seconds                      *)
  IdemMax,     (* _IDEMPOTENCY_MAX                                         *)
  Threshold,   (* circuit_failure_threshold                                *)
  OpenFor,     (* circuit_open_seconds, in half seconds                    *)
  Faults,      (* may a request to Exchange fail?                          *)
  MaxNow, MaxCalls, MaxEdits,   (* bounds of the checked instances         *)
  NoKey, NoBody, NoCall, NoToken, NoReceipt, NoSeen

VARIABLES
  sendEnabled, (* settings.send_enabled, fixed at start                    *)
  now,         (* time.time(), in half seconds                             *)
  draft,       (* Exchange: content, version and presence of each draft    *)
  job,         (* the requests: where each one is and what it holds        *)
  consumed,    (* _CONSUMED                                                *)
  sendTimes,   (* _SEND_TIMES                                              *)
  receipts,    (* _IDEMPOTENT_SENDS                                        *)
  failures,    (* ctx._circuit_failures                                    *)
  openUntil,   (* ctx._circuit_open_until                                  *)
  calls,       (* number of calls made (bounds the instance)               *)
  shown,       (* history: tokens returned with a preview                  *)
  uses,        (* history: instants at which each shown token was accepted *)
  rated,       (* history: instants at which the rate guard let a call on  *)
  log          (* history: what Exchange carried out, in order             *)

server == <<consumed, sendTimes, receipts, failures, openUntil>>
history == <<shown, uses, rated, log>>
vars == <<sendEnabled, now, draft, job, server, calls, history>>

-----------------------------------------------------------------------------
(* Data *)

Forms == {"alias", "raw"}
Handles == [item : Items, form : Forms]
Tools == {"send_draft", "respond_to_event", "cancel_event", "create_event",
          "update_draft", "delete_draft"}

(* ToolSpec.side_effect_class.  create_event stands for a call with          *)
(* send_invitations, respond_to_event for set_oof too.                       *)
SideEffect(tool) ==
  CASE tool \in {"send_draft", "respond_to_event"} -> "send"
    [] tool = "cancel_event"                       -> "destructive"
    [] OTHER                                       -> "write"

HasPreview(tool) == tool = "send_draft"
NeedsDraft(tool) == tool \in {"send_draft", "update_draft", "delete_draft"}
Confirmed == {"send_draft", "respond_to_event", "cancel_event", "create_event"}

(* Calls name drafts where the tool wants one, and an update has a body.    *)
ASSUME CallsAssumption ==
  /\ Calls \subseteq [tool : Tools, h : Handles, key : Keys \union {NoKey},
                      body : Bodies \union {NoBody}]
  /\ \A c \in Calls : /\ NeedsDraft(c.tool) => c.h.item \in Drafts
                      /\ c.tool = "update_draft" => c.body \in Bodies

(* Durations and counts of the settings                                     *)
ASSUME SettingsAssumption ==
  /\ Switch \subseteq BOOLEAN
  /\ {Ttl, Cap, Window, IdemTtl, OpenFor} \subseteq Nat
  /\ Threshold \in Int

Sec(t) == t \div 2                     \* int(time.time())

(* What content_hash covers of a draft: attachments count by name and size, *)
(* never by their bytes.                                                    *)
ContentHash(b) == [text |-> b.text, rcpt |-> b.rcpt, file |-> b.file]
NoHash == [text |-> NoBody, rcpt |-> NoBody, file |-> NoBody]

(* The payload make_token signs: action, target and content.  Without a     *)
(* preview hook the caller's literal arguments are hashed.  Two mints of    *)
(* the same payload in one second are the same token.                       *)
TokenFor(c, seen, exp) ==
  [tool |-> c.tool, h |-> c.h, exp |-> exp,
   hash |-> IF HasPreview(c.tool) THEN ContentHash(seen.body) ELSE NoHash]

Resolve(h) == [h EXCEPT !.form = "raw"]

Idle == [pc |-> "idle", call |-> NoCall, tok |-> NoToken, seen |-> NoSeen]
Finish(r) == job' = [job EXCEPT ![r] = Idle]
Goto(r, pc, c, tok, seen) ==
  job' = [job EXCEPT ![r] = [pc |-> pc, call |-> c, tok |-> tok, seen |-> seen]]
Reach(r, pc, seen) == Goto(r, pc, job[r].call, job[r].tok, seen)

-----------------------------------------------------------------------------
(* The stores the gates consult *)

(* _idempotency_get: a receipt past its TTL is dropped before the lookup.   *)
Fresh(k) == IF receipts[k] # NoReceipt /\ now - receipts[k].ts > IdemTtl
            THEN NoReceipt ELSE receipts[k]
FreshReceipts == [k \in Keys |-> Fresh(k)]
Prior(c) == IF c.key = NoKey THEN NoReceipt ELSE Fresh(c.key)

(* _idempotency_put: at the cap the oldest receipt makes room.              *)
PutReceipt(k, receipt) ==
  LET held == {x \in Keys : receipts[x] # NoReceipt}
      full == Cardinality(held) >= IdemMax
      oldest == CHOOSE x \in held : \A y \in held : receipts[x].ts <= receipts[y].ts
  IN  [x \in Keys |-> IF x = k THEN receipt
                      ELSE IF full /\ x = oldest THEN NoReceipt
                      ELSE receipts[x]]

(* Mutant: nothing waives the token                                         *)
ConfirmNeededAlways(c) == c.tool \in Confirmed

(* _send_confirm_needed compares the receipt with the id as the caller      *)
(* spelled it; the other tools' `confirm' is constant for these calls.      *)
ConfirmNeeded(c) ==
  /\ c.tool \in Confirmed
  /\ ~(c.tool = "send_draft" /\ Prior(c) # NoReceipt /\ Prior(c).h = c.h)

(* Mutants: the token binds the target or the content, but not both         *)
VerifiedTarget(tok, c, seen) ==
  tok.exp >= Sec(now) /\ tok.tool = c.tool /\ tok.h = c.h
VerifiedContent(tok, c, seen) ==
  tok.exp >= Sec(now) /\ tok.hash = TokenFor(c, seen, tok.exp).hash

(* verify_token: the expiry check truncates the clock to seconds.           *)
Verified(tok, c, seen) ==
  /\ tok.exp >= Sec(now)
  /\ tok = TokenFor(c, seen, tok.exp)

(* Mutant: records dropped in the last second of their token                *)
UnexpiredEarly == {tok \in consumed : tok.exp > Sec(now)}

(* consume_token first drops the records whose expiry instant has passed.   *)
Unexpired == {tok \in consumed : 2 * tok.exp >= now}

(* What popping from the left leaves of _SEND_TIMES, while the oldest is    *)
(* more than `age' ago                                                      *)
Kept(age) ==
  LET n == CHOOSE n \in 0..Len(sendTimes) :
             /\ \A i \in 1..n : now - sendTimes[i] > age
             /\ n < Len(sendTimes) => now - sendTimes[n + 1] <= age
  IN  SubSeq(sendTimes, n + 1, Len(sendTimes))

(* Mutant: a send exactly one window ago no longer counts                   *)
RecentSendsShort == Kept(Window - 1)

(* _rate_guard's eviction                                                   *)
RecentSends == Kept(Window)

-----------------------------------------------------------------------------
(* From the gates to the handler's first await: one step of the event loop *)

(* _resolve_ids and the handler up to its gateway call.  send_draft answers *)
(* a known key from its receipt; create_event re-checks the kill-switch.    *)
Enter(r, c, tok, seen) ==
  LET prior == IF c.tool = "send_draft" THEN Prior(c) ELSE NoReceipt IN
  /\ receipts' = IF c.tool = "send_draft" /\ c.key # NoKey
                 THEN FreshReceipts ELSE receipts
  /\ \/ /\ prior # NoReceipt
        /\ failures' = IF prior.h = Resolve(c.h) THEN 0 ELSE failures
        /\ Finish(r)
     \/ /\ prior = NoReceipt
        /\ c.tool = "create_event" /\ ~sendEnabled
        /\ Finish(r) /\ UNCHANGED failures
     \/ /\ prior = NoReceipt
        /\ c.tool = "create_event" => sendEnabled
        /\ Goto(r, "work", c, tok, seen) /\ UNCHANGED failures

(* _rate_guard, for class send: the slot is taken before the handler runs.  *)
RateGuard(r, c, tok, seen) ==
  IF SideEffect(c.tool) # "send" \/ Cap = 0
  THEN Enter(r, c, tok, seen) /\ UNCHANGED <<sendTimes, rated>>
  ELSE \/ /\ Len(RecentSends) >= Cap
          /\ sendTimes' = RecentSends
          /\ Finish(r)
          /\ UNCHANGED <<receipts, failures, rated>>
       \/ /\ Len(RecentSends) < Cap
          /\ sendTimes' = Append(RecentSends, now)
          /\ rated' = Append(rated, now)
          /\ Enter(r, c, tok, seen)

(* _confirm_gate after the preview, if the tool has one.                    *)
Mint(r, c, seen) ==
  /\ shown' = shown \union {TokenFor(c, seen, Sec(now) + Ttl)}
  /\ Finish(r)
  /\ UNCHANGED <<consumed, sendTimes, receipts, failures, uses, rated>>

RejectToken(r, tok, c, seen) ==
  /\ \/ ~Verified(tok, c, seen) /\ UNCHANGED consumed
     \/ Verified(tok, c, seen) /\ tok \in Unexpired /\ consumed' = Unexpired
  /\ Finish(r)
  /\ UNCHANGED <<sendTimes, receipts, failures, shown, uses, rated>>

AcceptToken(r, tok, c, seen) ==
  /\ Verified(tok, c, seen)
  /\ tok \notin Unexpired
  /\ consumed' = Unexpired \union {tok}
  /\ uses' = Append(uses, [tok |-> tok, at |-> now])
  /\ RateGuard(r, c, tok, seen)
  /\ UNCHANGED shown

ConfirmGate(r, c, tok, seen) ==
  IF tok = NoToken THEN Mint(r, c, seen)
  ELSE RejectToken(r, tok, c, seen) \/ AcceptToken(r, tok, c, seen)

-----------------------------------------------------------------------------
(* Actions *)

(* The gates before the first await: kill-switch, circuit, recipient guard  *)
(* on the arguments.  The server runs the full tier over a connection that  *)
(* has been warm once, so the tier and the cold gate let every call on.     *)
Admitted(c) ==
  /\ SideEffect(c.tool) = "send" => sendEnabled
  /\ openUntil <= now
  /\ c.body # NoBody => c.body.rcpt \notin Blocked

Call(r, c) ==
  /\ job[r].pc = "idle"
  /\ calls < MaxCalls
  /\ calls' = calls + 1
  /\ Admitted(c)

(* dispatch of a tool with a preview hook: suspended in the preview's fetch *)
StartPreview(r, c, tok) ==
  /\ Call(r, c)
  /\ ConfirmNeeded(c) /\ HasPreview(c.tool)
  /\ Goto(r, "preview", c, tok, NoSeen)
  /\ receipts' = IF c.key = NoKey THEN receipts ELSE FreshReceipts
  /\ UNCHANGED <<sendEnabled, now, draft, consumed, sendTimes, failures, openUntil, history>>

(* dispatch of a confirmed tool without one: the gate runs at once          *)
ConfirmLiteral(r, c, tok) ==
  /\ Call(r, c)
  /\ ConfirmNeeded(c) /\ ~HasPreview(c.tool)
  /\ ConfirmGate(r, c, tok, NoSeen)
  /\ UNCHANGED <<sendEnabled, now, draft, openUntil, log>>

(* dispatch without the gate: a write, or an idempotent replay              *)
StartUngated(r, c) ==
  /\ Call(r, c)
  /\ ~ConfirmNeeded(c)
  /\ RateGuard(r, c, NoToken, NoSeen)
  /\ UNCHANGED <<sendEnabled, now, draft, consumed, openUntil, shown, uses, log>>

(* A request that fails upstream, of any gateway call *)
CountFailure ==
  LET tripped == failures + 1 >= Threshold IN
  /\ failures' = IF tripped THEN 0 ELSE failures + 1
  /\ openUntil' = IF tripped THEN now + OpenFor ELSE openUntil

(* _send_draft_preview's work on the pool; an item that left Drafts is an   *)
(* error of the caller and does not count for the circuit.                  *)
FetchPreview(r) ==
  /\ job[r].pc = "preview"
  /\ LET d == draft[job[r].call.h.item] IN
     \/ d.there /\ Reach(r, "gate", d)
     \/ ~d.there /\ Reach(r, "refused", NoSeen)
     \/ Faults /\ Reach(r, "failed", NoSeen)
  /\ UNCHANGED <<sendEnabled, now, draft, server, calls, history>>

(* the coroutine resumes after the preview: the draft's real recipients     *)
(* pass the guard, then the token                                           *)
ResumeGate(r) ==
  /\ job[r].pc = "gate"
  /\ LET j == job[r] IN
     \/ /\ j.seen.body.rcpt \in Blocked
        /\ Finish(r)
        /\ UNCHANGED <<server, history>>
     \/ /\ j.seen.body.rcpt \notin Blocked
        /\ ConfirmGate(r, j.call, j.tok, j.seen)
        /\ UNCHANGED <<openUntil, log>>
  /\ UNCHANGED <<sendEnabled, now, draft, calls>>

(* The handler's work on the pool.  SendItem moves the draft to Sent, an    *)
(* update saves it under a new change key, a delete moves it to trash.      *)
Edited(d, b) == [body |-> b, ver |-> d.ver + 1, there |-> d.there]
After(c, d) ==
  CASE c.tool = "update_draft" -> Edited(d, c.body)
    [] c.tool \in {"send_draft", "delete_draft"} -> [d EXCEPT !.there = FALSE]

Work(r) ==
  /\ job[r].pc = "work"
  /\ LET c == job[r].call
         d == IF NeedsDraft(c.tool) THEN draft[c.h.item] ELSE NoSeen
         ready == NeedsDraft(c.tool) => d.there
     IN
     \/ /\ ready
        /\ draft' = IF NeedsDraft(c.tool)
                    THEN [draft EXCEPT ![c.h.item] = After(c, @)] ELSE draft
        /\ log' = Append(log, [call |-> c, tok |-> job[r].tok,
                               seen |-> job[r].seen, got |-> d])
        /\ \/ Reach(r, "done", job[r].seen)
           \/ Faults /\ Reach(r, "failed", job[r].seen)
     \/ /\ ~ready
        /\ Reach(r, "refused", job[r].seen)
        /\ UNCHANGED <<draft, log>>
     \/ /\ Faults
        /\ Reach(r, "failed", job[r].seen)
        /\ UNCHANGED <<draft, log>>
  /\ UNCHANGED <<sendEnabled, now, server, calls, shown, uses, rated>>

(* _idempotency_put, by a send with a key, under the resolved id            *)
StoreReceipt(c) ==
  receipts' = IF c.tool = "send_draft" /\ c.key # NoKey
              THEN PutReceipt(c.key, [h |-> Resolve(c.h), ts |-> now])
              ELSE receipts

(* The coroutine resumes: a success clears the circuit's failure count      *)
ResumeDone(r) ==
  /\ job[r].pc = "done"
  /\ failures' = 0
  /\ StoreReceipt(job[r].call)
  /\ Finish(r)
  /\ UNCHANGED <<sendEnabled, now, draft, consumed, sendTimes, openUntil, calls, history>>

ResumeRefused(r) ==
  /\ job[r].pc = "refused"
  /\ Finish(r)
  /\ UNCHANGED <<sendEnabled, now, draft, server, calls, history>>

(* Mutant: the key is marked as used although the send failed               *)
ResumeFailedStoring(r) ==
  /\ job[r].pc = "failed"
  /\ CountFailure
  /\ StoreReceipt(job[r].call)
  /\ Finish(r)
  /\ UNCHANGED <<sendEnabled, now, draft, consumed, sendTimes, calls, history>>

ResumeFailed(r) ==
  /\ job[r].pc = "failed"
  /\ CountFailure
  /\ Finish(r)
  /\ UNCHANGED <<sendEnabled, now, draft, consumed, sendTimes, receipts, calls, history>>

(* Somebody edits the draft in Outlook *)
OutlookEdit(d, b) ==
  /\ draft[d].there /\ draft[d].ver < MaxEdits /\ draft[d].body # b
  /\ draft' = [draft EXCEPT ![d] = Edited(@, b)]
  /\ UNCHANGED <<sendEnabled, now, job, server, calls, history>>

Tick ==
  /\ now < MaxNow
  /\ now' = now + 1
  /\ UNCHANGED <<sendEnabled, draft, job, server, calls, history>>

Init ==
  /\ sendEnabled \in Switch
  /\ now = 0
  /\ \E body \in [Drafts -> Bodies] :
       draft = [d \in Drafts |-> [body |-> body[d], ver |-> 0, there |-> TRUE]]
  /\ job = [r \in Requests |-> Idle]
  /\ consumed = {} /\ sendTimes = << >>
  /\ receipts = [k \in Keys |-> NoReceipt]
  /\ failures = 0 /\ openUntil = 0 /\ calls = 0
  /\ shown = {} /\ uses = << >> /\ rated = << >> /\ log = << >>

Next ==
  \/ \E r \in Requests, c \in Calls, tok \in shown \union {NoToken} :
       StartPreview(r, c, tok) \/ ConfirmLiteral(r, c, tok)
  \/ \E r \in Requests, c \in Calls : StartUngated(r, c)
  \/ \E r \in Requests : FetchPreview(r) \/ ResumeGate(r)
  \/ \E r \in Requests : Work(r)
  \/ \E r \in Requests : ResumeDone(r) \/ ResumeRefused(r) \/ ResumeFailed(r)
  \/ \E d \in Drafts, b \in Bodies : OutlookEdit(d, b)
  \/ Tick

Spec == Init /\ [][Next]_vars

-----------------------------------------------------------------------------
(* Properties *)

Versions == [body : Bodies, ver : Nat, there : BOOLEAN]
Jobs == [pc : {"idle", "preview", "gate", "work", "done", "refused", "failed"},
         call : Calls \union {NoCall}, tok : shown \union {NoToken},
         seen : Versions \union {NoSeen}]

(* The stores and the requests hold what their names say; the circuit's     *)
(* failure count stays below the threshold that clears it.                  *)
TypeOK ==
  /\ sendEnabled \in BOOLEAN /\ now \in Nat
  /\ draft \in [Drafts -> Versions]
  /\ job \in [Requests -> Jobs]
  /\ consumed \subseteq shown
  /\ sendTimes \in Seq(0..now) /\ (Cap > 0 => Len(sendTimes) <= Cap)
  /\ receipts \in [Keys -> [h : Handles, ts : 0..now] \union {NoReceipt}]
  /\ failures \in Nat /\ (failures > 0 => failures < Threshold)
  /\ openUntil \in 0..now + OpenFor

Sent(e) == e.call.tool = "send_draft"

(* Nothing irreversible happens at Exchange unless the call carried a token *)
(* that a preview of this very call minted, the replay path included.       *)
NothingIrreversibleUngated ==
  \A i \in DOMAIN log :
    log[i].call.tool \in Confirmed =>
      /\ log[i].tok \in shown
      /\ log[i].tok = TokenFor(log[i].call, log[i].seen, log[i].tok.exp)

(* A draft leaves with content that differs from its preview, or to a       *)
(* blocked recipient, only if it was edited after phase 2's refetch: the    *)
(* refetch leaves no other way (base.py:169-238, writes.py:796-818).        *)
DriftOnlyAfterRefetch ==
  \A i \in DOMAIN log :
    /\ Sent(log[i])
    /\ \/ ContentHash(log[i].got.body) # log[i].tok.hash
       \/ log[i].got.body.rcpt \in Blocked
    => log[i].got.ver > log[i].seen.ver

(* Until the instant it expires a token is accepted once, and it is never   *)
(* accepted a second or more after that instant.                            *)
SingleUseUntilExpiry ==
  \A j \in DOMAIN uses :
    /\ uses[j].at < 2 * (uses[j].tok.exp + 1)
    /\ \A i \in 1..j - 1 :
         uses[i].tok = uses[j].tok => uses[j].at > 2 * uses[j].tok.exp

(* Any Cap + 1 calls the rate guard lets on span more than the window, and  *)
(* no call of class send reaches Exchange without a slot of its own.        *)
RateCapHolds ==
  Cap > 0 =>
    /\ \A i \in DOMAIN rated :
         i + Cap \in DOMAIN rated => rated[i + Cap] - rated[i] > Window
    /\ Cardinality({i \in DOMAIN log : SideEffect(log[i].call.tool) = "send"})
         <= Len(rated)

(* A receipt vouches for a send Exchange carried out, of that draft under   *)
(* that key: a failed send is never replayed as a success.                  *)
ReceiptsAreTruthful ==
  \A k \in Keys : receipts[k] # NoReceipt =>
    \E i \in DOMAIN log :
      /\ Sent(log[i]) /\ log[i].call.key = k
      /\ Resolve(log[i].call.h) = receipts[k].h

(* With SEND_ENABLED off nothing leaves but a meeting's cancellation, which *)
(* is of class destructive and asks no one (writes.py:1178-1186).           *)
KillSwitchHolds ==
  ~sendEnabled => \A i \in DOMAIN log :
    log[i].call.tool \in {"cancel_event", "update_draft", "delete_draft"}

IsReplay(c) == Prior(c) # NoReceipt /\ Prior(c).h = Resolve(c.h)

(* A retry that spells the draft by its raw id is answered from the receipt *)
(* and neither asks for a token nor reaches Exchange.                       *)
RawReplayAnswered ==
  [][\A r \in Requests :
       job[r].pc = "idle" /\ job'[r].pc # "idle" =>
         ~(job'[r].call.h.form = "raw" /\ job'[r].call.tool = "send_draft"
           /\ IsReplay(job'[r].call))]_vars
=============================================================================
