---------------------------- MODULE UserContexts ----------------------------
(***************************************************************************)
(* Multi-user mode of v5 (v5/ewsmcp/multiuser.py, http.py): each request   *)
(* carries its own Exchange credentials, and a bounded cache holds one     *)
(* Context per user, with its gateway and its aliases.  A context leaves   *)
(* the cache when it is idle, when the cache is full, or when a request    *)
(* brings another password, and calls may still hold it then.              *)
(*                                                                         *)
(* The calls are those of the tool pack rules (tools/rules.py).  Exchange, *)
(* the users and the thread pool of the library are external.  A call over *)
(* MCP is one over REST whose body has come at once.                       *)
(***************************************************************************)
EXTENDS Naturals, Sequences, FiniteSets, SequencesExt, MemoryAliaser, InboxRules

CONSTANTS
  Users, Secrets,    (* lowercased addresses, passwords                    *)
  Presents, Missing, (* the headers requests carry, Missing where none     *)
  Lower,             (* the user each spelling of an address means         *)
  Calls,             (* slots for requests                                 *)
  MaxCachedUsers,
  PoolSize,          (* ews_max_concurrency                                *)
  InitRules, InitPassword,     (* of each user                             *)
  Requests,          (* the arguments of create_rule and update_rule       *)
  Folder, Path,      (* a folder's id, and its path                        *)
  FirstNew,          (* above the ids of InitRules                         *)
  MaxContexts, MaxCalls        (* bounds of the checked instances          *)

ASSUME HeadersAssumption ==
  \A p \in Presents : p[1] # Missing => Lower[p[1]] \in Users
ASSUME CacheAssumption == MaxCachedUsers \in Nat \ {0}
ASSUME PasswordAssumption == InitPassword \in [Users -> Secrets]

(* What the predicates can be, as arguments and as Exchange holds them      *)
Given == [Keys -> {"none", "falsy", "truthy"}]

IsRule(r) ==
  /\ r = [id |-> r.id, name |-> r.name, is_enabled |-> r.is_enabled,
          conditions |-> r.conditions, move |-> r.move, read |-> r.read, foreign |-> r.foreign]
  /\ r.conditions \in Given /\ r.read \in BOOLEAN /\ r.foreign \subseteq Places

IsRequest(q) ==
  /\ q = [name |-> q.name, is_enabled |-> q.is_enabled, conditions |-> q.conditions,
          move |-> q.move, read |-> q.read]
  /\ q.conditions \in Given

ASSUME RulesAssumption ==
  /\ InitRules = [u \in Users |-> InitRules[u]]
  /\ \A u \in Users : IsFiniteSet(InitRules[u]) /\ \A r \in InitRules[u] : IsRule(r)
  /\ Requests # {} /\ \A q \in Requests : IsRequest(q)

VARIABLES
  entries,           (* the contexts in the cache, least recently used first *)
  contexts,          (* every Context ever built                           *)
  calls,             (* the request each slot serves                       *)
  issued,            (* confirm tokens not consumed, by what they bind     *)
  rules,             (* Exchange: the rules of each user                   *)
  password,          (* Exchange: the password of each user                *)
  valid,             (* the passwords each user has had                    *)
  shown,             (* what each user has been told an alias names        *)
  arrived            (* how many requests have come                        *)

vars == <<entries, contexts, calls, issued, rules, password, valid, shown, arrived>>
exchange == <<rules, password, valid>>

RuleId(n) == [kind |-> "rule", n |-> n]
NoRule == [kind |-> "rule", n |-> 0]
NoRequest == CHOOSE r \in Requests : TRUE
Idle == [pc |-> "idle"]

Init ==
  /\ arrived = 0
  /\ entries = <<>> /\ contexts = <<>>
  /\ calls = [c \in Calls |-> Idle]
  /\ issued = {} /\ shown = {}
  /\ rules = InitRules
  /\ password = InitPassword
  /\ valid = [u \in Users |-> {password[u]}]

-----------------------------------------------------------------------------
(* UserContextCache                                                        *)

(* Mutant: every instance counts from the same number                      *)
_build_SameBlock(u, s) ==
  [user |-> u, secret |-> s, open |-> TRUE, session |-> FALSE,
   queue |-> <<>>, aliaser |-> NewAliaser(1)]

(* A block drawn at random is one no instance has had: see README          *)
_build(u, s) ==
  [user |-> u, secret |-> s, open |-> TRUE, session |-> FALSE,
   queue |-> <<>>, aliaser |-> NewAliaser(Len(contexts) + 1)]

(* gateway.close: the pool takes no more, and what is queued is cancelled  *)
close(cs, closed) ==
  [x \in DOMAIN cs |->
     IF x \in closed THEN [cs[x] EXCEPT !.open = FALSE, !.queue = <<>>] ELSE cs[x]]

(* Mutant: the queue is dropped, and those who wait for it are not told    *)
Cancelled_Untold(closed) == calls

Cancelled(closed) ==
  [c \in Calls |->
     IF calls[c].pc = "queued" /\ calls[c].ctx \in closed THEN Idle ELSE calls[c]]

(* The entries are in the order of their last use, and those not used for  *)
(* IDLE_EVICT_SECONDS are the first of them                                *)
_evict_idle(stale) == SubSeq(entries, stale + 1, Len(entries))

(* Mutant: the context of a user serves whoever names that user            *)
SameHash_Any(x, s) == TRUE

(* Whether the cached context serves a request with this password          *)
SameHash(x, s) == contexts[x].secret = s

Oldest(es) == IF Len(es) > MaxCachedUsers THEN Tail(es) ELSE es

(* get: the context it answers, and the cache afterwards                   *)
get(u, s, stale) ==
  LET kept == _evict_idle(stale)
      own == {i \in DOMAIN kept : contexts[kept[i]].user = u}
      others == IF own = {} THEN kept ELSE RemoveAt(kept, CHOOSE i \in own : TRUE)
      hits == {kept[i] : i \in {k \in own : SameHash(kept[k], s)}}
      x == IF hits = {} THEN Len(contexts) + 1 ELSE CHOOSE h \in hits : TRUE
  IN  [ctx |-> x, entries |-> Oldest(Append(others, x))]

Open == {x \in DOMAIN contexts : contexts[x].open}

(* Mutant: the context used least recently leaves the cache and stays open *)
Dropped_OldestOpen(es) == Open \ Range(SubSeq(entries, 1, 1) \o es)

(* The contexts get closes                                                 *)
Dropped(es) == Open \ Range(es)

-----------------------------------------------------------------------------
(* A request                                                               *)

ShownTo(u, kind) == {w.alias : w \in {v \in shown : v.user = u /\ v.alias.kind = kind}}

(* A folder is named by the request's own path or by alias                 *)
Arguments(u) ==
  UNION {{[r EXCEPT !.move = f] : f \in {r.move} \cup ShownTo(u, "f")} : r \in Requests}

(* What the caller asks for: rules by the aliases it has been told         *)
Asked(u) ==
  [tool : {"list_rules"}, target : {NoRule}, req : {NoRequest}]
  \cup [tool : {"preview_delete", "delete_rule"}, target : ShownTo(u, "r"), req : {NoRequest}]
  \cup [tool : {"create_rule"}, target : {NoRule}, req : Arguments(u)]
  \cup [tool : {"update_rule"}, target : ShownTo(u, "r"), req : Arguments(u)]

Free == {c \in Calls : calls[c].pc = "idle"}

(* What _require makes of the headers; a request without them is refused   *)
Credentials ==
  {[user |-> Lower[p[1]], secret |-> p[2]] : p \in {q \in Presents : q[1] # Missing /\ q[2] # Missing}}

(* build_app: the context is taken from the cache before the body is read  *)
Arrive(c) ==
  /\ Free # {} /\ c = CHOOSE d \in Free : TRUE
  /\ arrived < MaxCalls
  /\ \E who \in Credentials, stale \in 0..Len(entries) : \E a \in Asked(who.user) :
       LET g == get(who.user, who.secret, stale)
           built == IF g.ctx > Len(contexts) THEN <<_build(who.user, who.secret)>> ELSE <<>>
           closed == Dropped(g.entries)
       IN  /\ g.ctx <= MaxContexts
           /\ entries' = g.entries
           /\ contexts' = close(contexts, closed) \o built
           /\ calls' = [Cancelled(closed) EXCEPT ![c] =
                [pc |-> "body", user |-> who.user, secret |-> who.secret, ctx |-> g.ctx,
                 tool |-> a.tool, target |-> a.target, req |-> a.req, rows |-> <<>>, no |-> arrived + 1]]
  /\ arrived' = arrived + 1
  /\ UNCHANGED <<issued, exchange, shown>>

(* _read_json_body: the client disconnects, or the body is none            *)
GivesUp(c) ==
  /\ calls[c].pc = "body"
  /\ calls' = [calls EXCEPT ![c] = Idle]
  /\ UNCHANGED <<entries, contexts, issued, exchange, shown, arrived>>

-----------------------------------------------------------------------------
(* dispatch, up to the pool                                                *)

aliaser(c) == contexts[calls[c].ctx].aliaser
Token(c) == [user |-> calls[c].user, alias |-> calls[c].target]

Become(c, pc) == [calls EXCEPT ![c].pc = pc]
Ended(c) == [calls EXCEPT ![c] = Idle]

(* _confirm_gate without a token: a preview, whatever the alias names      *)
Preview(c) ==
  /\ calls[c].pc = "body" /\ calls[c].tool = "preview_delete"
  /\ issued' = issued \cup {Token(c)}
  /\ calls' = Ended(c)
  /\ UNCHANGED <<entries, contexts, exchange, shown, arrived>>

Confirmed(c) == calls[c].tool = "delete_rule" => Token(c) \in issued
ByAlias(c) == calls[c].tool \in {"update_rule", "delete_rule"}
Known(c) == ByAlias(c) => resolve(aliaser(c), calls[c].target) # Unknown
WellFormed(c) == calls[c].tool \in {"create_rule", "update_rule"} => HasActions(calls[c].req)

(* A verified token is consumed, also when the call then fails             *)
Consumed(c) == issued \ (IF calls[c].tool = "delete_rule" THEN {Token(c)} ELSE {})

(* dispatch ends with an error before the pool: no token, an unknown       *)
(* alias, no action, or the pool of a closed gateway                       *)
Refuse(c) ==
  /\ calls[c].pc = "body" /\ calls[c].tool # "preview_delete"
  /\ ~(Confirmed(c) /\ Known(c) /\ WellFormed(c) /\ contexts[calls[c].ctx].open)
  /\ issued' = Consumed(c)
  /\ calls' = Ended(c)
  /\ UNCHANGED <<entries, contexts, exchange, shown, arrived>>

(* rule_id is resolved here; move_to_folder is no id key, and is not       *)
Submit(c) ==
  LET k == calls[c]
  IN  /\ k.pc = "body" /\ k.tool # "preview_delete"
      /\ Confirmed(c) /\ Known(c) /\ WellFormed(c) /\ contexts[k.ctx].open
      /\ issued' = Consumed(c)
      /\ calls' = [calls EXCEPT ![c].pc = "queued",
                                ![c].rows = <<resolve(aliaser(c), k.target)>>]
      /\ contexts' = [contexts EXCEPT ![k.ctx].queue = Append(@, c)]
      /\ UNCHANGED <<entries, exchange, shown, arrived>>

-----------------------------------------------------------------------------
(* gateway.call: the work of the tool on a thread of the pool              *)

Working(x) == {c \in Calls : calls[c].pc \in {"runs", "finds"} /\ calls[c].ctx = x}

Begin(c) ==
  LET x == calls[c].ctx
  IN  /\ calls[c].pc = "queued"
      /\ contexts[x].queue # <<>> /\ Head(contexts[x].queue) = c
      /\ Cardinality(Working(x)) < PoolSize
      /\ contexts' = [contexts EXCEPT ![x].queue = Tail(@)]
      /\ calls' = Become(c, "runs")
      /\ UNCHANGED <<entries, issued, exchange, shown, arrived>>

(* Exchange serves a session it has accepted, or the user's password       *)
Accepted(x) == contexts[x].session \/ contexts[x].secret = password[contexts[x].user]

Mailbox(c) == contexts[calls[c].ctx].user
Target(c) == calls[c].rows[1]
Held(c) == {r \in rules[Mailbox(c)] : r.id = Target(c)}

(* resolve_folder: the alias is looked up now, then the id or the path     *)
resolve_folder(c) ==
  IF calls[c].req.move = NoFolder THEN NoFolder
  ELSE IF resolve(aliaser(c), calls[c].req.move) \in {Folder, Path} THEN Folder
  ELSE Unknown

(* The work fails: Exchange refuses or does not answer, the folder or the  *)
(* rule is not found, the session is closed                                *)
Fail(c) ==
  /\ calls[c].pc \in {"runs", "finds"}
  /\ calls' = Ended(c)
  /\ UNCHANGED <<entries, contexts, issued, exchange, shown, arrived>>

Works(c, tool) ==
  LET x == calls[c].ctx
  IN  /\ calls[c].pc = "runs" /\ calls[c].tool = tool
      /\ Accepted(x)
      /\ contexts' = [contexts EXCEPT ![x].session = TRUE]
      /\ UNCHANGED <<entries, issued, password, valid, shown, arrived>>

Answers(c, rows) == calls' = [calls EXCEPT ![c].pc = "answers", ![c].rows = rows]

ListRules(c) ==
  /\ Works(c, "list_rules")
  /\ \E order \in SetToSeqs(rules[Mailbox(c)]) :
       Answers(c, [i \in DOMAIN order |-> parse_rule_element(order[i])])
  /\ UNCHANGED rules

(* UpdateInboxRules answers no id: the next request looks for the rule     *)
CreateRule(c) ==
  LET u == Mailbox(c)
      id == RuleId(FirstNew + calls[c].no)
  IN  /\ Works(c, "create_rule")
      /\ resolve_folder(c) # Unknown
      /\ rules' = [rules EXCEPT ![u] = @ \cup {build_rule_element(id, calls[c].req, resolve_folder(c))}]
      /\ calls' = Become(c, "finds")

Alike(c) == {r \in rules[Mailbox(c)] : r.name = calls[c].req.name}

(* _create_rule takes the first rule of that name and priority             *)
FindRule(c) ==
  /\ calls[c].pc = "finds"
  /\ \/ \E r \in Alike(c) : Answers(c, <<parse_rule_element(r)>>)
     \/ Alike(c) = {} /\ Answers(c, <<EchoedRow(NoRule, calls[c].req)>>)
  /\ UNCHANGED <<entries, contexts, issued, exchange, shown, arrived>>

(* SetRuleOperation replaces the rule as a whole                           *)
UpdateRule(c) ==
  LET u == Mailbox(c)
  IN  /\ Works(c, "update_rule")
      /\ resolve_folder(c) # Unknown /\ Held(c) # {}
      /\ rules' = [rules EXCEPT ![u] =
           (@ \ Held(c)) \cup {build_rule_element(Target(c), calls[c].req, resolve_folder(c))}]
      /\ Answers(c, <<EchoedRow(Target(c), calls[c].req)>>)

DeleteRule(c) ==
  LET u == Mailbox(c)
  IN  /\ Works(c, "delete_rule")
      /\ Held(c) # {}
      /\ rules' = [rules EXCEPT ![u] = @ \ Held(c)]
      /\ Answers(c, <<>>)

-----------------------------------------------------------------------------
(* Back on the event loop: _alias_rule, row by row                         *)

Named(acc, id, kind) ==
  LET a == alias_for(acc.aliaser, id, kind)
  IN  [aliaser |-> a, told |-> acc.told \cup {[alias |-> a.by_id[id], id |-> id]}]

_alias_rule(acc, row) ==
  LET one == IF row.move = NoFolder THEN acc ELSE Named(acc, row.move, "f")
  IN  IF row.rule_id = NoRule THEN one ELSE Named(one, row.rule_id, "r")

(* After each of the rows                                                  *)
Aliased(a, rows) ==
  LET after[i \in 0..Len(rows)] ==
        IF i = 0 THEN [aliaser |-> a, told |-> {}] ELSE _alias_rule(after[i - 1], rows[i])
  IN  after

(* The rows get their aliases from the context the call has held all along *)
Answer(c) ==
  LET k == calls[c]
      done == Aliased(aliaser(c), k.rows)[Len(k.rows)]
  IN  /\ k.pc = "answers"
      /\ calls' = Ended(c)
      /\ contexts' = [contexts EXCEPT ![k.ctx].aliaser = done.aliaser]
      /\ shown' = shown \cup {[user |-> k.user, alias |-> w.alias, id |-> w.id] : w \in done.told}
      /\ UNCHANGED <<entries, issued, exchange, arrived>>

-----------------------------------------------------------------------------
(* A user gets another password                                            *)
NewPassword(u) ==
  /\ \E s \in Secrets \ valid[u] :
       /\ [user |-> u, secret |-> s] \in Credentials
       /\ password' = [password EXCEPT ![u] = s]
       /\ valid' = [valid EXCEPT ![u] = @ \cup {s}]
  /\ UNCHANGED <<entries, contexts, calls, issued, rules, shown, arrived>>

Work(c) ==
  Fail(c) \/ ListRules(c) \/ CreateRule(c) \/ FindRule(c) \/ UpdateRule(c) \/ DeleteRule(c)

Next ==
  \/ \E u \in Users : NewPassword(u)
  \/ \E c \in Calls :
       \/ Arrive(c) \/ GivesUp(c)
       \/ Preview(c) \/ Refuse(c) \/ Submit(c)
       \/ Begin(c) \/ Work(c) \/ Answer(c)

Spec == Init /\ [][Next]_vars

-----------------------------------------------------------------------------
(* Properties                                                              *)

Does(c, tool) ==
  /\ calls[c].pc = "runs" /\ calls'[c].pc = "answers"
  /\ calls[c].tool = tool
Updates(c) == Does(c, "update_rule")
Deletes(c) == Does(c, "delete_rule")

(* An update or a delete reaches only what its caller has always been told *)
(* the alias names, whatever became of the context that told it: contexts  *)
(* are evicted and built anew between a list, a preview and the call.      *)
HitsWhatWasShown ==
  [][\A c \in Calls :
       Updates(c) \/ Deletes(c) =>
         \A w \in shown : w.user = calls[c].user /\ w.alias = calls[c].target
           => w.id = Target(c)]_vars

(* where no context gives more aliases of one kind than its block has, so  *)
(* that it does not go on in the block of another                          *)
WithinBlocks ==
  \A x \in DOMAIN contexts : \A kind \in AliasKinds :
    contexts[x].aliaser.counters[kind] <= (x + 1) * BlockSize

(* Exchange serves a call from the mailbox of its user only, and only when *)
(* the password the call itself brought is or was that user's: a context   *)
(* in the cache must not lend its session to a request that cannot log in. *)
ServedAsOneself ==
  \A c \in Calls : calls[c].pc \in {"finds", "answers"} =>
    /\ calls[c].secret \in valid[calls[c].user]
    /\ Mailbox(c) = calls[c].user

(* Thread pools do not pile up: a context is open only while it is cached, *)
(* the cache keeps its bound, and no user is in it twice.                  *)
Released ==
  /\ Open = Range(entries)
  /\ Len(entries) <= MaxCachedUsers
  /\ \A i, j \in DOMAIN entries :
       contexts[entries[i]].user = contexts[entries[j]].user => i = j

(* A rule that Exchange holds survives being listed and updated with what   *)
(* the row says, if the row names no unsupported field (gateway/rules.py:   *)
(* 258-269, 359-383; tools/rules.py:150-176).  Two kinds of rules are       *)
(* excepted, against the docstring (rules.py:16-19): the row of a rule with *)
(* Exceptions does not tell of them, and an update drops them; a list that  *)
(* comes out empty (311, 314) is in the row and is dropped too (217).       *)
ToldInFull(r) ==
  "exceptions" \notin r.foreign /\ \A k \in TableKeys : r.conditions[k] # "falsy"

Echoes(c, r) ==
  LET row == parse_rule_element(r)
      req == calls[c].req
  IN  /\ ~row.unsupported
      /\ row.name = req.name /\ row.is_enabled = req.is_enabled
      /\ row.conditions = req.conditions /\ row.read = req.read
      /\ row.move = resolve_folder(c)

EchoKeeps ==
  [][\A c \in Calls :
       Updates(c) =>
         \A r \in Held(c) : Echoes(c, r) /\ ToldInFull(r) => r \in rules'[Mailbox(c)]]_vars

(* Nobody waits for a pool that will not serve: a call that waits is in    *)
(* the queue of an open pool, whoever closes contexts meanwhile.           *)
NoneStranded ==
  \A c \in Calls : calls[c].pc = "queued" =>
    LET x == contexts[calls[c].ctx] IN x.open /\ c \in Range(x.queue)
=============================================================================
