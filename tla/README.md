# ews-mcp in TLA+

A verification project for **ews-mcp**, MCP servers that let a language model
work in an Exchange mailbox. The repository holds two of them: **v5**
(`v5/ewsmcp/`) and the server it replaces, here **v4** (`src/`). The project is
TLA+ modules translated from the code of both, TLC runs on small instances, and
TLAPS proofs that hold for every value of the constants. Paths below are
relative to the repository's root; the repository's own claims are quoted from
`v5/README.md`, `v5/DESIGN.md`, `v5/docs/`, `docs/`, docstrings and comments.

    tlc -workers 2 -config MCSendGate_drafts.cfg MCSendGate      # a run
    tlapm SendGate_proofs.tla                                    # a proof module

`PROJECT.json` lists the runs, the code each definition stands for, the mutants
(one plausible bug per property, which the property's run must find), the
findings, the hazards and the theorems.

## 1. The system

Both servers are one asyncio event loop plus a thread pool. A request runs alone
between two awaits; at each await another request, a background task or another
mail client may do anything. They differ in what they await: v5 asks Exchange
through the pool (`gateway/client.py`, `EWSGateway.call`), most tools of v4 ask
it on the event loop itself, so that what interleaves with such a tool is another
process over the same mailbox or store, and other clients.

v5:

| Component | State | Operations | Interacts with |
|---|---|---|---|
| Dispatcher and gates (`tools/base.py`) | `_circuit_failures`, `_circuit_open_until`, `_SEND_TIMES` | `dispatch`: kill-switch, circuit, id resolution, recipient guard, `_confirm_gate`, rate cap, handler, error mapping | every tool; confirm tokens; audit |
| Confirm tokens (`confirm.py`) | secret, `_CONSUMED` | `make_token`, `verify_token`, `consume_token` | `_confirm_gate` |
| Write tools (`tools/writes.py`) | `_IDEMPOTENT_SENDS` | drafts, send, events, bulk updates, moves, deletes | gateway, aliaser, mirror (write-through) |
| Alias store (`ids.py`) | SQLite tables `aliases`, `counters`; in multi-user mode two maps in memory | `alias_for`, `alias_many`, `resolve`, `rebind` | every result and argument with an id |
| Connection manager (`gateway/connection.py`, `gateway/client.py`) | `_state`, `_attempts`, the two tasks, cached account | `start`, `_warmup_loop`, `_heartbeat_loop`, `reset`, `stop` | gateway; starts the sync engine once |
| Mirror and delta sync (`cache/`) | SQLite mirror, sync tokens, watermarks | `_sync_mail_folders`, `_sync_slow_lane`, write-through, `purge` | gateway pool; read and write tools |
| Tasks (`tools/tasks.py`) | none | create, update, complete | gateway, mirror |
| Audit log (`audit.py`, `v5/scripts/verify_audit_chain.py`) | `_seq`, `_prev`, `chain.state`, a file a day | `record`, resuming in `__init__`, `verify` | dispatcher |
| Multi-user cache (`multiuser.py`, `http.py`) | contexts per user, LRU with idle time | `get`, eviction, build, deferred close | HTTP transport; gateways; aliases |
| Inbox rules (`gateway/rules.py`, `tools/rules.py`) | none | rules over SOAP, read-modify-write | gateway, aliases |
| Searches, people and DTOs (`tools/mail_read.py`, `tools/calendar_people.py`, `dto.py`, ...) | none | queries, paging, merging, free slots | mirror or Exchange |
| Configuration and entry points | settings | start, transports, decoding | all |

v4:

| Component | State | Operations | Interacts with |
|---|---|---|---|
| Server, middleware, streams (`src/main.py`, `src/middleware/`, `src/openapi_adapter.py`) | rate limiter's deque, circuit breaker, `_ACTIVE_SSE`, locks of the streams | calls over SSE and REST, progress ticker, keepalive, start and stop | all tools |
| Memory store (`src/memory/`) | one SQLite table, rows with a size and an expiry | `set`, `get`, `list`, `delete`, `consume`, pruning | approvals, commitments, rules, policies |
| Approvals, commitments (`src/tools/approval_tools.py`, `commitment_tools.py`, `memory_tools.py`) | rows of the store | submit, list, approve, reject, execute; track, resolve | memory store; the tool that is executed |
| Mail, attachment, folder tools (`src/tools/email_tools*.py`, `attachment_tools.py`, `folder_tools.py`) | none | reply, forward, draft, move, copy, delete, attach | Exchange |
| Calendar, task, contact, rule, OOF tools | rules and policy in the store | create, update, delete, respond; `rule_evaluate` | Exchange, memory store |
| Searches (`src/tools/email_tools.py`) | none | read and search with `next_offset` | Exchange |
| Caches and semantic search (`src/cache/`, `src/ai/`, `src/tools/ai_tools.py`) | vectors, bodies, `embeddings.json` | search, warmup, import | embedding provider, Exchange |
| People (`src/services/person_service.py`, `src/adapters/`) | two caches of the directory | `find_person` | Exchange |

What is hard here, and what makes each component correct:

- **Gates.** The confirmation of a send is spread over two client calls and three
  gateway calls, with edits of the draft, retries, expiring receipts and tokens
  and a second request in between. Correct: nothing irreversible happens without
  a token shown for exactly that call and content; a token works once; retries
  are answered and never lied to; rate cap and kill-switch hold.
- **Alias store.** Readers without a lock, one writer, failures in the middle of
  a page, moves that change an item's id. Correct: a handle never comes to name
  another item, and no item loses all its handles.
- **Connection manager.** Two coroutines that create each other, threads that a
  cancellation leaves behind, a session that stays broken after the outage.
  Correct: one loop at a time; it recovers; it notices.
- **Mirror.** A paged stream applied in four kinds of transactions, racing write
  tools, crashes between row and token; a slow lane for tasks with the same race.
  Correct: what the token covers is in the mirror; deleted messages go away; the
  mirror catches up.
- **Audit.** Hash chain in memory, in a file and in a state file, with swallowed
  failures, crashes between the writes and days that change. Correct: what the
  verifier accepts is whole, a swallowed failure shows, an intact log verifies.
- **Multi-user cache.** Eviction of a context somebody still uses, passwords that
  change under it, aliases of evicted contexts. Correct: a call is served on a
  session of its own user and password, an old handle is never taken for a new
  one, and no context is leaked or leaves a call waiting.
- **Approvals.** Two processes over one table, consume and store in separate
  transactions, a cap that pushes out rows whatever they are. Correct: every
  submitted action is somewhere, and is executed at most once and only approved.
- **v4 tools.** Find, fetch and change are separate requests on items that other
  clients move, edit and delete; an update saves every field it read. Correct:
  nothing is destroyed unasked, nothing goes out with half its files, nothing is
  taken back silently, rules fire on the message as it was read. (The code keeps
  each of the first three with exceptions: section 4.)
- **Paging.** Offsets into a list that changes between two requests, totals
  counted before the rows, several folders merged. Correct: a walk ends and
  misses only what a change can excuse.
- **v4 server.** Overlapping calls under a breaker and a limiter that see results
  late; two writers on one stream whose peer stalls or leaves. Correct: the
  limits hold, streams stay well formed, nothing outlives its call, and a peer that
  stalls holds up nobody else.
- **Caches.** Vectors of several models and three stores, an import at each start,
  bodies without an expiry, a directory remembered by two keys. Correct: a cache
  changes no answer, or only for as long as it says.

## 2. The modules

| Module | Models | Run | Proofs |
|---|---|---|---|
| `SendGate` | v5's gates, tokens, receipts, circuit, the handlers they guard, the drafts at Exchange | `MCSendGate`: `drafts`, `clock` | `SendGate_proofs` |
| `AliasStore`, implementing `AliasRegistry` | `IdAliaser` and its SQLite transactions | `MCAliasStore`: `alias`, `bulk` | `AliasStore_proofs` |
| `Connection` | `ConnectionManager` with `EWSGateway.reset` and `test_connection` | `MCConnection`: `connection`; in `Tools` | `Tools_proofs` |
| `MirrorSync` | `_sync_mail_folders`, the store's message transactions, write-through, purge, restart | `MCMirrorSync`: `mirror` | `MirrorSync_proofs` |
| `AuditChain` | `AuditLog` and the verifier of its files | `AuditChain`: `audit` | `AuditChain_proofs` |
| `UserContexts`, extending `MemoryAliaser` and `InboxRules` | v5's multi-user mode with the calls of the pack `rules` | `MCUserContexts`: `users` | `UserContexts_proofs` |
| `Approvals`, extending `MemoryStore` | v4's approvals and what shares their table | `MCApprovals`: `approvals` | `Approvals_proofs` |
| `SearchPaging`, under the names of `MailWalks` | walks through mail by `next_offset`, of both servers | `MCSearchPaging`: `paging` | `MirrorSync_proofs` |
| `ToolServer`, implementing `Admission` | v4's limiter, breaker, tickers, SSE connections | `MCToolServer`: `server` | `ToolServer_proofs` |
| `Tools` | the parts below and `Connection`, side by side | `MCTools`: `tools` | `Tools_proofs` |
| `MailTools` | v4's tools that change mail and folders | in `Tools` | `Tools_proofs` |
| `ItemTools`, extending `RuleEngine` | v4's updates of other items, rules, OOF | in `Tools` | `Tools_proofs` |
| `SemanticSearch`, extending `SqliteCache` | v4's caches of vectors and bodies | in `Tools` | `Tools_proofs` |
| `MeetingTimes` | the searches for free times of both servers | in `Tools` | `Tools_proofs` |
| `PersonSearch` | v4's `find_person` | in `Tools` | `Tools_proofs` |
| `TaskMirror` | v5's `update_task` against the slow lane | in `Tools` | `Tools_proofs` |
| `Ranking`, which `SemanticSearch`, `PersonSearch` and `SearchPaging` extend | what a sort makes of a set | | `Tools_proofs`, `MirrorSync_proofs` |

`Admission` and `AliasRegistry` are abstract specifications. `AliasRegistry` is
what the aliaser promises its callers: a set of names that is read, and that
changes at once and only so that no alias has two items, no number is used again
and no item is left without a name. In `AliasStore` the same names are rows and
counters in a committed and a working copy, under readers without a lock and a
writer that may fail or die; the refinement mapping takes the names of the
committed rows, the numbers the committed counters have reached, and what callers
were given. TLC checks it as `ImplementsRegistry`, TLAPS proves it.
`Admission` is what the limiter and the breaker
promise, in terms of when calls were taken and what the last results were.
`ToolServer` contains the deque and the breaker's three states and is shown to
implement it by a refinement mapping (`failures` and `failed` of the
abstract one are the breaker's `failure_count` and `last_failure_time`; the
deque and the three states have no counterpart in it); TLC checks that as the
property `Admits`, TLAPS proves it.

### SendGate

A request is a coroutine; `job[r]` is its program counter (`pc`), call, presented
token and the version of the draft it has fetched. What lies between two awaits
is one action:

| `pc` | Code | Actions that leave it |
|---|---|---|
| `idle` | a client calls `dispatch` (`base.py:241-345`) | `Call`: `StartPreview`, `ConfirmLiteral` or `StartUngated` |
| `preview` | the preview's `work` on the pool (`writes.py:796-818`) | `FetchPreview` |
| `gate` | back on the loop in `_confirm_gate` (`base.py:181-238`) | `ResumeGate`: mint, reject, or accept and `Enter` the handler |
| `work` | the handler's `work` at Exchange | `Work`, which carries it out, refuses, or fails before or after its effect |
| `done`, `refused`, `failed` | the rest of `dispatch` (`base.py:345-369`) | `ResumeDone`, `ResumeRefused`, `ResumeFailed` |

A call that a guard refuses at once changes nothing and is a stuttering step, so
the guards (`Admitted`, `Enter`, `RateGuard`) are conjuncts. `consumed`,
`sendTimes`, `receipts`, `failures` and `openUntil` are the module-level stores;
they keep everything the code keeps across an await. `now` counts half seconds,
because the code compares a token's integer expiry once with the truncated and
once with the exact clock. A token is its payload (tool, target, content hash,
expiry): the HMAC is taken to be unforgeable, so a client presents only tokens
it was shown. A content hash covers an attachment by name and size, as the
code's does. `shown`, `uses`, `rated` and `log` are histories for the
properties. Six kinds of call stand
for the write tools: `send_draft` (with a preview), `respond_to_event` (`set_oof`
runs the same path), `cancel_event` and `create_event` with invitations
(confirmed on their literal arguments), and `update_draft` and `delete_draft`,
which need no confirmation and race the send.

### AliasStore

`db` is what readers see, `work` the writer's private copy from `BEGIN IMMEDIATE`
to `COMMIT`, `writer` the holder of the lock. `alias_for` has its fast path
(`FastRead`), waits for the lock (`StartCall`, `Begin`), looks up again and mints;
`alias_many` does that for a page in one transaction; `rebind` deletes the
duplicate row and updates the old one. `Fail` is a storage error at any point,
with each operation's own answer, and `Crash` the loss of everything uncommitted.
`Owner` maps ids to the items they identify, so that "the same item" survives a
move. `issued` records every name a caller was given.

### Connection

`pc` is where each of the two coroutines stands and `thread` what its thread in
the pool does; the two are separate because cancelling a coroutine does not stop
its thread. `failures` is `_attempts` modulo the ladder's period. `wedged` is the
case `EWSGateway.reset`'s docstring describes: the session cached by exchangelib
keeps failing although Exchange is back. Whether there is a heartbeat and whether
there is a mirror are chosen at the start. Delays are left out: the backoff is
capped, so every sleep ends.

### MirrorSync

`box` is the mailbox; each message has the time of its last change and of its
last change of content, because Exchange reports read flags apart. A sync state
is a function from items to the change it covers. `cycle` holds the locals of
`_sync_mail_folders`: the stream's state and the three lists; each page, each of
the three transactions and the save of the token is a step, between which tools,
other clients, failures and restarts happen. A tool call is one message and one
field: its work at Exchange (`UpdateMessage`, `RemoveMessage`) and, separately,
its write-through (`WriteThrough`, `WriteThroughFails`). An id that is gone never
comes back, as in Exchange, where a moved message gets a new one. `touched` and
`interrupted` are histories of the two things the store cannot know about.

### AuditChain

`mem` is the head in memory (`_prev`, `_seq`), `log` the lines of all files in the
order in which the verifier reads them, `state` the file `chain.state`. A call is
its number. SHA-256 is taken to be free of collisions, so that a digest is what
was hashed: the sequence of the records from `GENESIS` on. `record` runs under a
lock, one call at a time; `step` says how far it is: the record is linked
(`Link`), appended (`AppendLine`), and the head saved, for which `write_text`
first empties the file (`Truncate`) and then writes it (`WriteState`). The
exceptions that `record` swallows are `LinkFails`, `AppendFails` (nothing is
written, or half a line, to which the next one is appended) and `SaveFails`.
`Restart` ends the process at any point and resumes as `__init__` does. `NextDay`
changes the file. A record whose texts hold a line separator (U+2028, U+2029,
U+0085) is one line to `record` and several to the verifier (the cause `split`).
`Damage` is what `tests/test_audit_persistence.py` does to the files, and what a
full disk or a clean-up does: it loses the last line or a day's file, or changes a
record. `Accepts` is the verifier; it takes the head it expects from the line
before (`Before`), as the code does, which goes on from each record's own digest.
`skipped`, `hidden` and `causes` are histories: the calls that are linked but not
written, the calls of which nothing was left, and the mishaps after which a break
is legitimate.

### UserContexts, MemoryAliaser, InboxRules

A request brings a user and a password (`Presents`: spellings of an address,
wrong and changed passwords, no header). `Arrive` is the look-up in
`UserContextCache.get` (`multiuser.py:86-140`): a hit that moves the entry to the
end, another password, the eviction of idle entries (a prefix of the cache, which
is in the order of last use) and of the least recent one, and a new
context whose aliaser starts at a block of its own. Then the call goes through
confirmation (`Preview`, `Refuse`, `Submit`), waits for one of its context's
`PoolSize` threads (`queued`), works at Exchange in one request after the other
(`ListRules`, `CreateRule`, `FindRule`, `UpdateRule`, `DeleteRule`, `Fail`) and
takes its aliases from the context it has held all along (`Answer`). Closing a
context cancels what is queued and lets what runs end, as `shutdown` of the pool
does. `MemoryAliaser` is the LRU of aliases; `InboxRules` is what the SOAP layer
makes of a rule's arguments and what a row says of a rule. `shown` records what
each user has been told an alias names.

### Approvals, MemoryStore

`MemoryStore` has the table and its statements: an operator gives the tables a
method may leave, because rows with one `updated_at` are pushed out in any order.
A worker of `Approvals` is a call in a server process, and processes share the
file: `approve` consumes the pending row (`Decide`) and stores the decided one
(`Approve`), `execute_approved_action` consumes the decided row (`Claim`) and runs
the tool (`ExecuteApproved`), and a process may die between the two (`Crash`), or
the second of them fail (`ApproveFails`). `memory_*` and the commitments share the
store and push rows out by the same cap; `memory_get`, which reads every
namespace, deletes what has expired in a second transaction (`MemoryGet`,
`Evict`). The histories `submitted`, `approved`, `rejected`, `ran`, `unrun`,
`died`, `failed`, `pruned` and `expired` say where an action may have gone.

### SearchPaging

A message is the number of its arrival, a folder the set of its matches. A
request (`Ask`) is a count (`CountMatches`) and slices (`Slice`, `SliceFails`) for
each folder, in the order and with the budgets of its mode, and an answer
(`Reply`) with the `next_offset` the client follows. Between any two calls mail
arrives, goes, or moves to another folder of the search. A page is cut from the
hits: the pairs of a folder and a place in what it has given, in the order the
code puts them in (`FolderByFolder`, `NewestFirst`). The modes are `quick`,
`read`, `advanced`, `full_text` and `exact` (with `exact_phrase`) of v4, and
`folder`, `cached`, `all` and `thread` of v5.

### ToolServer, Admission

`boot` is how far `run()` has come, and that its event loop spins: a client that
leaves before the end of a REST body keeps `app` in a loop that never suspends
(`BodyCut`), and no other step is taken. A call (`status`) comes over MCP, where the
limiter counts it, or over REST, where it does not; the breaker lets it run, and
its result comes whenever Exchange answers. `ticker` is its progress task, which
writes to the call's connection. `conn` is an SSE connection with its MCP task,
its keepalive and its peer; `writing` and `queued` are who is in `send` and who
waits for `send_lock`: a write to a peer that has stopped reading does not return.

### MailTools

A call is `Look` (find the item), `Fetch` (one attachment at a time, where the
tool copies them), and one action named after the tool that changes Exchange.
Every move and copy gives a new id, and an id that is gone does not come back.
Other clients receive, move, detach and destroy in between. A request may be
carried out not at all, once or twice (`Repeats`: exchangelib's fault tolerance
repeats a request whose answer was lost). `asked` records which messages somebody
asked to destroy, `untrashed` which went with a folder that has no `move_to_trash`,
`made` what was sent or drafted with which files, and whether its copy was cut
short by an exception the code swallows (`cut`).

### ItemTools, RuleEngine

An update reads an item (`Begin` in the action of the tool) and saves it in a
later request, with all fields as they were read or only some (`update_fields`),
as the code of each tool does; other clients set fields in between. `intent` holds
what each field was last set to on purpose, `raced` the fields a save took back; a
set of the out-of-office settings makes them anew, without a window unless it is
given (`Sets`). `rule_evaluate` runs rule after rule and action after action on
the message in memory (`NextRule`, `ApplyAction`), each action a request that may
fail; `RuleEngine` says when a rule matches, what a pass over all rules comes to
(`Outcome`) and what a dry run reports (`WouldFire`).

### SqliteCache, SemanticSearch

A vector is the text it stands for and the model that computed it: that a row
keeps it in single precision is left out, so what is said of answers holds if
no two scores are within that rounding. A search
awaits the provider for its query and for the texts that neither the dict nor
the SQLite table has (`Search`, `QueryEmbedded`, `BatchEmbedded`, `ProviderFails`),
the warmup once a batch (`Collect`, `WarmBatch`, `LastBatch`). Whichever tool
opens the SQLite file first imports `embeddings.json` into it under the current
model's name. `Restart` ends the process at any point and may change the model.
A search reads the newest `3 * EmbedCap` messages of its folder, drops those of
automated senders and embeds the newest `EmbedCap` of the rest; `Best` says the
same of the mailbox as it was when the search read it, without a cache, and
`AsUncached` compares the two. Sorted lists are `Ranked`: at place `k` is the
element that `k - 1` others precede.

### MeetingTimes, PersonSearch, TaskMirror

`MeetingTimes` walks the cursor of v4's `find_meeting_times` over free/busy
intervals and the grid of v5's `check_availability` over meetings, one candidate a
step; calendars, hidden calendars and arguments are chosen at the start. Both
cursors are times on the wall, the meetings are in time as it passes (`Real`), and
in some requests the clock is changed in the range; v4 takes the distance of two
times on the wall for an index into intervals that passed, v5 compares its
candidates with the meetings themselves. `PersonSearch` runs `find_person` request
by request: the directory by exact name, prefix, contacts folder, domain and
similarity, each only when the one before gave too little, then contacts and two
scans of mail, merged by address; the spelling's cache and the negative cache of
the lower-cased query age with `Tick`. Some people (`Odd`) write from what is no
e-mail address, at which the whole scan of mail comes to nothing. `TaskMirror` is
`update_task` (save, complete, look its row up, write it back) against the slow
lane's three transactions; `touched` are the tasks whose row a call wrote although
a round had written it since that call began.

### Tools

The six last parts have nothing to do with each other, nor with the safety of
the connection manager below them. `Tools` puts the seven side by side (`Mail`,
`Item`, `Caches`, `Times`, `People`, `Lane`, `Manager`), so that one run checks
them and one specification has the theorems about them: `part` says which of
them a behaviour is about, the variables of the others are `Off`, and every step
is a step of that part. The liveness of the connection manager is checked by its
own run.

## 3. The runs

| Run | Question | Bounds, and why they are enough |
|---|---|---|
| `drafts` | Is anything sent ungated, or with other content than shown? Are receipts truthful and raw retries answered? | Two requests, one draft, three bodies (one to a blocked recipient), both spellings of the id, one key, four calls, one Outlook edit, failing requests, a clock tick. Four calls are preview, confirm, retry and one racing edit. |
| `clock` | Is a token used once? Does the rate cap hold? | Two keyed drafts, three literal-argument tools, a cap of one in a one-second window, a TTL of one second, six half-second ticks, four calls: the expiry second, the window's edge and a second window. |
| `alias` | Do handles stay true and alive? Do transactions look like one set of names? | Two callers, four ids of two items, one kind; pages of two; counters to 3. Two callers suffice for the lock; an item with three ids moves twice. |
| `bulk` | Is what `alias_many` returns real? (It is not: section 4.) | As `alias`, just large enough. |
| `connection` | Recovery, notice | Ladder of 3 as in the code, two outages: the second one finds the re-armed heartbeat. |
| `mirror` | Covered is mirrored, ghosts, catching up | Two messages, two contents, pages of one change, three changes, one fault: three changes let a message arrive, be collected, and go before the stream ends. |
| `audit` | Is a log that verifies whole? Do swallowed failures show? Does an intact log verify? | Five calls, three days, three faults, each a failure, a crash or a damage: a record lost, its successor, a crash that forks and a chain that starts again all fit. |
| `users` | Is everybody served as themselves? Does an alias reach only what it was shown for? Are contexts closed and calls not stranded? Does an echoed row keep the rule? | Two users and a cache for one, so that each evicts the other; one thread, two calls at once, so that one waits; three calls and three contexts: list, evict and rebuild, update by the old alias. |
| `approvals` | Is every action in one place? Is it run once and approved? Does what was answered hold? | Two approvals and two workers, so that each race has its two sides and a cap of two sizes pushes one out; a TTL of one and two ticks, so that a row expires before and after its answer; one crash. |
| `paging` | What may a walk miss, and does it end? | Three messages at first, up to five, pages of two in slices of one, two changes and one failure: more than one page, more than one slice, an arrival and a removal. Each tool walks one folder, the whole-mailbox search and threads two. |
| `server` | Are streams well formed, do limiter and breaker keep their promise, does anything outlive its call, or wait for a peer that stalls? | Two overlapping calls, one connection, a cap of two in a one-second window, a threshold of two, three calls taken: the circuit opens, half opens and closes while a call from before is still out. |
| `tools` | Seven parts: what may be lost, what goes out, what an update takes back, which rules fire, whether caches change an answer, which slots and people are shown, what the slow lane repairs, how many loops watch the connection | Given in `MCTools.cfg` and `MCTools.tla`: two calls each (three rules for one evaluation), one or two changes by others, one failure or restart, for the searches for free times every calendar of up to three meetings and a clock that is put on or back in the night of the range or not at all, for `find_person` three people, one of them with an address that is none, and for the mirrored tasks a single due date, so that what a row gets wrong is whether the task is done or there at all (the theorem `LaneRepairsHolds` has any dates). |

Deadlock is not checked: the bounds stop the instances, and a manager that has
been stopped, or has no heartbeat and is warm, has nothing to do.

**Fairness.** `SendGate`, `AliasStore`, `AuditChain`, `UserContexts`, `Approvals`
and `Tools` state safety only; a request may be abandoned at any point.
`Connection` assumes weak fairness of each coroutine (the event loop runs
what is ready, and sleeps end) and of what the threads do (exchangelib's requests
have timeouts); nothing is assumed of Exchange, of `stop`, or of how outages end,
and the two liveness properties say "if Exchange is back for good" and "if the
outage lasts". `MirrorSync` assumes weak fairness of the sync loop's next step,
and nothing of tools, other clients or failures; `CatchesUp` speaks of a mailbox
that changes, and of a sync that fails, only finitely often, which the bounds
`MaxChanges` and `MaxFaults` make every behaviour of the instance be.
`SearchPaging` assumes that a call to Exchange returns or fails and that the
client asks on while it is given a `next_offset`; nothing is assumed of the
mailbox. `ToolServer` assumes that Exchange answers or times out (`Finish`), that
an answered call leaves (`Leave`), that the MCP SDK notices a peer that is gone
(`McpEnds` when there is none) and that a handler whose task has ended goes on
(`HandlerEnds`), all of it while the event loop turns (`~Spins`); it does not assume
that a peer reads.

**Assumptions about what is outside.** The HMAC of tokens is unforgeable and
SHA-256 free of collisions. A random base block of `MemoryAliaser` is one no
earlier instance drew, and an instance gives out fewer aliases than a block has.
A call over MCP to the multi-user server is a REST call whose body has arrived.
An Exchange id that is gone does not come back.

**What they show.** Nothing irreversible reaches Exchange without a token shown
for that call and content; a draft drifts from its token only after phase 2's
own refetch; a token is not accepted twice before it expires; no window has more
sends than the cap; receipts never claim a send that did not happen, and a retry
by raw id is always answered. Handles name one item for ever, also across evicted
contexts. The connection manager recovers and keeps watching. The saved sync
state never covers what the mirror lacks, and the slow lane repairs every task
but those a call wrote late. An audit log that verifies against its head holds
exactly the records of its last chain, and every call except the last ones of a
process's life and those that could not be encoded; without a mishap it always
verifies. A user is served on no session but their own. An approval is executed
once at most, and is always somewhere. A walk misses only what a removal shifted.
v4's limiter and breaker decide as their abstract promise; its streams stay well
formed, and a peer or notification that stalls holds up no call. Its deletions of
mails are recoverable and its forwards complete, its updates lose only what a race
takes back, its slots are free, its searches hide nobody for longer than they say
and its caches change no answer: each of these with the exceptions that section 4
lists and the property names.

## 4. Findings

One is a run that TLC refutes:

| Run | Kind | What the run shows |
|---|---|---|
| `bulk` | code | `alias_many` returns aliases of a transaction it has rolled back; they are later minted for other items. Today's callers ignore the result. |

The others were met while modelling. The models contain them; a property that
would be false because of one names the exception in its statement. That the
exception is needed was checked by leaving it out: TLC then finds the property
violated (`DroppedWindow`, `Steady` and the time of the change in `MeetingTimes`,
`Odd` in `PeopleAreRight`, `untrashed`, `cut`, the places `failed` and `expired`,
`Spins`, `ToldInFull`, the record in `AcceptedIsWhole`, the cause `split`).

v5:

- A draft is verified in one gateway call and sent in another: an edit between
  them leaves under the old token (`v5/ewsmcp/tools/writes.py:860`), although
  `v5/README.md:237-239` and `DESIGN.md:79-82` say that an edit after the preview
  kills it. `DriftOnlyAfterRefetch` says that there is no other way.
- A retry that names the draft by its alias is asked for a fresh token, since its
  spelling is compared with the stored raw id (`writes.py:833`, `DESIGN.md:83-85`).
- A write-through may overwrite a newer row after the sync state that covers it
  was saved (`writes.py:470`), and categories of an update whose save failed are
  patched into the mirror all the same (`writes.py:460`); no later cycle repairs
  either (comment `writes.py:72-75`). The same holds of tasks (`tasks.py:124`, "the
  slow sync lane repairs anything missed"): a row written after a round wrote it
  stays, also for a task that has been removed.
- Read flags are applied after all upserts of a cycle (`cache/sync.py:232`), so
  that an older one may win.
- A process that dies while `chain.state` is missing or truncated makes the next
  one start again at `GENESIS` (`audit.py:67`, against its comment at lines 6-8):
  what was logged before may then be cut off unnoticed.
- An audit log that has been emptied verifies, although `chain.state` names a head:
  the verifier looks at it only if there is a record
  (`v5/scripts/verify_audit_chain.py:64`, against its docstring's "truncated tails",
  line 12). `AcceptedIsWhole` is about logs with a record.
- A U+2028, U+2029 or U+0085 in a caller's text makes an intact log fail to verify:
  it is written as it is (`audit.py:66`) and read with `splitlines`
  (`verify_audit_chain.py:35`). `IntactVerifies` excepts it as a cause of a break.
- What a rule's row says of it is not all: an `Exceptions` element is neither
  shown nor listed as unsupported (`v5/ewsmcp/gateway/rules.py:369-372`), and an
  update drops it, against the docstring at 16-19; a list that comes out empty is
  not written back (`217`, `311-314`). `EchoKeeps` excepts the rules that have
  one.
- `create_rule` and `update_rule`, when they do not find their rule again, mint an
  alias of an alias (`tools/rules.py:92`, `172`); the search by name and priority
  may answer a twin's id; `mark_as_read=False` alone passes as "at least one
  action".
- `check_availability` compares times of day only: a slot of a day or more that
  begins and ends in working hours passes, although the docstring says "inside
  those hours of a single day" (`tools/calendar_people.py:86`, `98`).
  `SlotsAreRight` excepts slots of a day and more with `hours_only`.
- `EWSGateway.close` is for good, but a job that was just picked up can build the
  account again; closing a context cancels queued calls with `CancelledError`.

v4:

- `consume` does not look at `expires_at` (`src/memory/store.py:405`): an expired
  approval can be approved and executed, against `src/tools/approval_tools.py:14`
  and `239-240`. `memory_get` of an approval's key, which is a reserved namespace
  only for writers, deletes an expired one, decided or not
  (`src/memory/store.py:334`, `src/tools/memory_tools.py:116`); a `set` that fails
  after the pending row was consumed loses the approval (`approval_tools.py:189`).
  `Accounted` counts both as places, `AnswersHold` excepts the first.
  `execute_approved_action` always records a success, and lists are cut at their
  limit before they are filtered by status, which hides pending rows.
- `rule_evaluate` applies all matching rules, where its docstring says "at most 1
  rule's worth of actions".
- The default of `manage_folder`'s deletion destroys a folder that has no
  `move_to_trash`, with all that is in it (`src/tools/folder_tools.py:597-602`);
  exchangelib gives that method to items. `Recoverable` excepts what was in it.
- An `AttributeError` or `TypeError` while attachments are copied ends the copying
  and not the call (`src/tools/email_tools.py:631-633`): the mail goes out with some
  of its files. `AllOrNothing` then only says that it has no others.
- Setting the out-of-office settings drops their start and end unless both are given
  again (`src/tools/oof_tools.py:216`), although the comment at 177 says "preserve
  any field the caller omitted". `Intended` excepts the window.
- `find_meeting_times` takes the distance of two times on the wall for an index into
  the free/busy string (`src/tools/calendar_tools.py:987`): after a change of the
  clock in the range slots are looked up an hour off, busy ones suggested and free
  ones passed over. `SlotsAreRight` speaks of slots before the change, and of
  completeness in ranges without one.
- A sender whose address `EmailStr` refuses (an X.500 name) makes `find_person` lose
  everybody it found in mails, and the answer does not say that the scan failed
  (`src/services/person_service.py:606-608`). `PeopleAreRight` excepts such scans.
- A REST client that leaves before the end of its body stops the whole server:
  `receive()` answers `http.disconnect` at once, again and again, and the loop waits
  for a body (`src/main.py:1336-1341`). `NobodyHangs` excepts a server that spins.
- The cache file keeps vectors in single precision
  (`src/cache/sqlite_cache.py:163-168`), the search that pays for one uses it in
  double: scores nearer to each other than that rounding may change places between
  two calls. The models have one vector for both.
- `manage_folder`'s deletion by name always answers "Folder not found" (its import
  fails; `docs/legacy/API.md:458`). A reply copies all attachments, though the
  comment says inline only; `forward_email` skips embedded mails; moves and soft
  deletions answer the id that has just died. `delete_appointment` looks at
  required attendees only; `create_appointment` saves with `SEND_TO_NONE`.
- With `exact_phrase` a total counts what the phrase drops, and a walk by
  `next_offset` never ends; searches of several folders skip and loop
  (`src/tools/email_tools.py:1696`, against its schema at 1191); with fewer results
  than folders the budget is 0.
- The breaker's "one probe request" is every call that waits; REST calls pass by
  the rate limiter.
- `find_meeting_times` does not verify slots off its grid (comment
  `src/tools/calendar_tools.py:972-974`), accepts ends up to `latest_hour:59`, and
  lets slots across midnight pass the check of the hours.
- `embeddings.json` is imported at each start under the current model's name
  (its docstring says once, and renamed); warmup vectors do not reach SQLite if
  the cache was opened first; Markdown bodies do not expire; the table for
  attachment texts is never used.
- The directory's cache key ignores `max_results` and the mailbox, and holds empty
  and failed searches for an hour in spite of the one-minute negative cache ("We
  NEVER return 0 results when people exist", `src/adapters/gal_adapter.py:65`);
  `find_person` ignores `target_mailbox`.

## 5. The proofs

The theorems hold for every value of the constants that the named assumptions
allow; TLC evaluates each assumption on the instances.

`SendGate_proofs` proves `Gated`, `Drift`, `Truthful` and `KillSwitch`, for any
sets of requests, drafts and bodies, any settings and unbounded time, from
`CallsAssumption` (a call that needs a draft names one, an update has a body).
None of the four properties is inductive:
that a send is covered by a token depends on what the request checked two awaits
earlier. The invariant `IInv` therefore says, besides shapes, what a request at
each `pc` has behind it (`JobOK`: a request at `work` holds a shown token for its
call and for the version it saw, and that version is still the draft's unless
the draft has a higher one), and the same of every entry of the log (`EntryOK`).
A request's part survives the others' steps because tokens are never unshown,
the log only grows and content never changes without a new version; that
argument is made once (`Onward` and its lemmas) and cited by every action.

On top of that it proves `TypeOK`, `SingleUse`, `RateCap` and `RawReplay`, from
`SettingsAssumption` (times and caps are natural numbers, the threshold an
integer). A token's uses are counted by a history that the code does not have;
what the code has is `consumed`, from which expired tokens are dropped when
somebody looks. `TokensOK` ties the two together: a token used and not yet
expired is in `consumed`, and one that is neither is at its first use. For the
cap, `_send_times` must be the end of the record `rated` of all slots
(`SlotsOK`): what has been dropped from it is older than the window, so that
enough slots in one window would all still be in it. A receipt found under a raw
id is one that was stored under it, because a key is never overwritten by another
draft's.

`AliasStore_proofs` proves `TypeCorrect`, `Constraints`, `Naming`, `Survival` and
`Implements`, from `OwnerAssumption` (an id identifies one item for ever),
`PagesAssumption` and `NoneAssumption`. The invariant behind `Naming` says that
both the committed tables and the working copy agree with every name issued so
far, that counters are at or above every alias minted, and that the working copy
only adds to the committed store what its transaction will return. `Implements`
has two kinds of steps that are not stutters: a lookup without the lock (`Answer`)
and a commit (`Update`). What a commit publishes was done in many steps and looked
at the tables of its beginning, so `TxInv` says throughout that it could still be
done at once: new names are numbered above the committed counters, and what will
be returned is in the working copy. The last is not kept by a rebind in general,
which may delete a row looked up before it in the same transaction; it is by this
code, because a transaction that rebinds does nothing else (`OneMove`). Rollbacks
and crashes are stutters.

`MirrorSync_proofs` proves `TypeOK`, `CoveredIsMirrored` and
`GhostsAreInterrupted`, for any messages, tools, failures and page size, from
`CatsAssumption` and `RowAssumption` (there is a content; "no row" is not a row).
`CoveredIsMirrored` alone is not inductive, because saving the state makes true
at once what it took a whole cycle to bring about. `ItemOK` therefore follows
each message through the cycle: what the stream's state covers is in the list of
upserts until that list is written and in the table from then on; what is in the
list of deletions is gone for good; a message the saved state knows and the
stream no longer does is in that list. Nothing depends on what other messages
do, so the invariant is one formula for each message.

The same module proves `MissesNeedChanges` of `SearchPaging`, for any folders, pages
and slices of any size, and any number of messages, changes and failures, from
`WalksAssumption` (a search lists each folder once; `read_emails`, the mirror and a
search of one folder have one; a page has room for a message). `MailWalks` gives the
variables of `SearchPaging` names that `MirrorSync` does not use, so that one module
can extend both. The property speaks of the end of a walk; `PagingInv` says at every
moment how many of the messages that stayed and are not seen yet (`Absent`) changes
may have hidden:

- Before a request, all but `slack` of them are at the offset or behind it
  (`Border`): so many others are newer than they are.
- During a request of one folder (`AloneOK`), of the first `k` places from the
  offset on all but `slack` are in what the folder has given, for every `k` it has
  come to; where a count comes first the difference between the total and the
  folder as it is now is part of the sum, because an arrival after the count
  makes the last page look like the end.
- During a request of several folders (`Multi`), there is a set of at most `slack`
  messages that changes hide (`Hides`). Every other one has its place in its own
  folder's list, given or still to come (`Kept`), and at least `offset` places of
  the merged list are ahead of it; what is ahead of it, with the hidden ones, is
  no more than what is newer in the folders and one per change. A slice changes
  no place (`SamePlaces`), so that the order in which the folders answer, which is
  free, is in no case of the proof. A removal hides at most the message that takes
  the place of the last one given, or the one whose place is the first of the
  page. For the mailbox what counts is places, up to the `offset + limit` that each
  folder delivers; for a thread it is messages, since a message that moves may be
  found in two folders (`Rank`).

At the answer, the lemmas under `what a page is cut from` say where a message is
in a sorted list: behind exactly those that are newer (`Ranked` is a list in the
order, by the lemmas under `Rankings`, which `Tools_proofs` has too). What is not on
the page is then behind its end, and when there is no next page there is nothing
behind it. A whole-mailbox
search with a folder that failed is no longer held to the promise (`sure`), and a
request that fails altogether leaves the border as it was.

`AuditChain_proofs` proves `TypeOK`, `GapsShow`, `IntactVerifies` and
`AcceptedIsWhole`, for any number of calls, days and faults, from
`ValuesAssumption` (the marks of a missing, an empty and a broken file are no
heads or records); the freedom from collisions is built into `HashOf`.
`AcceptedIsWhole` needs only the types: it follows from the verifier's checks,
along the chain, by taking the first record whose digest is not that of the
records so far. The other two need to know what the head in memory stands for
(`LinksOK`): the record in the last line, or one that has been skipped, and then
no later line can follow what is in the log, so that the break stays (`GapsOK`);
that the saved head is never one of a skipped record (`StateOK`); and that
without a mishap the next record goes on where the log ends (`IntactOK`).

`ToolServer_proofs` proves `TypeOK`, `RateCap` (no window of `WindowSeconds` holds
more than `RequestsPerMinute` calls) and that `ToolServer` implements `Admission`,
for every cap, window, threshold and timeout and any calls and connections, from
`ServerAssumption` (the cap, the threshold and the timeout are positive). The
deque is `taken` without its first `dropped` elements; the invariant says that
what was dropped is older than the window, that times are in order, that the
breaker is closed exactly while there are fewer failures than the threshold, and
half open only when the timeout has run out. With it each step of the limiter maps
to a step of `Admission` whose guard looks at the calls alone, and each result
that comes late, whatever state it finds, to the abstract count of failures.

The streams have an invariant of their own (`SInv`), from which `CleanStream` and
`NothingOutlives` follow: nobody waits for a lock that is free; of the two writers
of a connection one may be in `send` and the other in the queue, each only in the
states of the connection in which its task runs; the keepalive has seen the
headers; a ticker belongs to a call that runs on a connection that is open, and
`Live` counts the calls exactly.

`Approvals_proofs` proves `TypeOK`, `Accounted`, `OnceAndApproved` and
`AnswersHold`, for any number of approvals, workers and processes, any cap and
any sizes, from `ApprovalsAssumption`, `KeyAssumption` (the keys are those of the
four kinds) and `NullAssumption` (no row is not a row, no job is not a job). An
approval moves from a row to a worker's hands to another row, and the moves are
separate transactions in separate processes. The invariant follows one approval:
it is in exactly one place (`Placed`), the place tells the status of its row
(`RowsAgree`), and whether a person has approved it shows in where it can be
(`Answered`). The one step that touches other approvals is the cap, which pushes
rows out: those are then in the place `pruned` and in no other; a row that
`memory_get` deletes is in `expired`, and one whose second half failed in `failed`.

`UserContexts_proofs` proves `ServedAsOneself`, `Released`, `NoneStranded`,
`EchoKeeps` and `HitsWhatWasShown`, for any users, passwords, requests and rules
and any size of cache and pool, from `HeadersAssumption` (a header that is there
names a user), `CacheAssumption` (the cache holds at least one context, as the
code's `max` sees to), `PasswordAssumption` and `RulesAssumption` (what a rule and
a request are). The invariant says of a call that it holds a context of its own
user and password, however often the cache has let go of that context since; of a
session that its password was right when Exchange last looked; and of the cache
that it holds each user once and exactly the contexts that are open. `GetAnswers`
and `ContextsGrow` say once what a request that arrives does to the cache and to
the contexts, which is what makes the other steps' cases short. `EchoKeeps` is a
fact about the SOAP layer's tables alone.

`HitsWhatWasShown`, which rule an alias names, is proved under the hypothesis
`[]WithinBlocks`: no context ever gives more aliases of one kind than its block
has (1000 in the code). The code does not prevent that: the numbers then go on
into a block that another context of the user may have drawn, and one alias can
name two rules.
It needs `AliaserAssumption` (the maps hold at least one entry; a block has a
size) and that a user has finitely many rules. Its invariant, `AInv`, says that
whatever the maps of an aliaser hold has been told to its user, that a context
has numbered only within its block, and of a call that it has been told what it is
about to use; blocks do not meet (`Blocks`), so a number that is told anew has
never been told. That an eviction from one map leaves no entry in the other that
disagrees is `NamedKeeps`; that it holds for a list of rows is by induction over
the rows (`AliasedEach`), with the least number that is not in a set (`Induction`)
where a theorem that takes the statement as a parameter cannot be used.

`Tools_proofs` is about the seven parts of `Tools`, from `PartsAssumption`,
which is the `ConstantsOK` of six of them and that the reset ladder has at
least one rung. Each has its own invariant, about its own variables; `ToolsInv`
is the seven together, and a step of one part is none of the others
(`ToolsSteps`).

- `MailTools`: `TypeOK`, `Recoverable` and `AllOrNothing`, from `ConstantsOK` (the
  standard folders are not the user's, and the marks are marks). Every operation
  is `Created`: some copies of an item, perhaps in place of old ones. The lemma
  `CreatedKeeps` is that this loses no message if every old item carried the
  message of the new ones; the tree of folders (`FoldersKeep`) is the other
  half, because a folder that goes takes those below it along.
- `ItemTools`: `Intended` and `RulesFireAsRead`, from `ConstantsOK` (an item says of
  which kind it is and nobody sets that; a mail has what a match looks at; a
  rule has a list of actions). What an update will write of what it has read is
  as intended or has been raced (`UpdateOK`); that another client's change in
  between is raced in exactly the fields the update will take back is the case
  that needs the kind. An evaluation is somewhere in its list of rules
  (`Reached`): what it has in memory and what it has fired is what the rules so
  far, and so many actions of the current one, make of the message as it was
  read, whatever Exchange has answered. That the dry run names the same rules
  is shown for one beginning of the list after the other: the message has
  changed only in what the rules before write, and an independent rule does not
  look at that (`ActedEach`, `OutcomesEach`).
- `TaskMirror`: `LaneRepairs`, from `ConstantsOK` ("no row" is not a row). `TaskOK`
  is the analogue of `ItemOK` above. What is new is the write-through, which reads
  a row in one transaction and writes it in another (`LaneCallOK`): as long as no
  round has written over a call and its task is still covered by the saved
  state, the call has changed nothing, so that the row in its hands is the one in
  the table.
- `SemanticSearch`: `VectorsKept` and `AsUncached`, from `ConstantsOK` ("no vector"
  is not a vector nor a text, there are finitely many messages, numbered by age,
  and a similarity is a number). For `VectorsKept`: what was imported has its
  row, rows are only added, and a search waits for nothing it found a row for
  (`WaitOK`), although others may have added it since; the warmup has at least
  what the file has (`WarmOK`), so that it may replace the file. For
  `AsUncached`, `AnswersInv` says that every row and every vector a search holds
  is the one the current model gives for its text (until a foreign file has been
  imported), that the file's vectors are each of its own text, whichever model
  computed them, that the documents of a waiting search are those of the mailbox
  as it read it (`DocsOK`), and that a cached body is one the message had,
  untrimmed. What is left is that the answer of `embed_batch` and
  `search_similar` is `Best` (`SearchAnswers`): vectors found and vectors paid for
  are back in the documents' order after the sort, and the first so many in the
  order of their scores are the messages that so many others precede.
- `PersonSearch`: `PeopleAreRight`, from `ConstantsOK` (people are numbered and
  finitely many, the caches live for whole times). `PeopleInv` says of each of the
  two caches, and of each list a waiting search holds, since when it may be
  wrong: who is in it was there at most `CacheTtl` before it runs out
  (`Present`), and whom the query names exactly is in it unless they joined, a
  request failed or a limit cut within that time (`Covers`). The negative cache
  and the spelling's cache fill each other, so that what a list covers reaches
  `NegativeTtl` further back than the list does: that is where the sum of both
  lives in `Before` comes from. A merge keeps all people and has nobody twice
  (`Merges`, `MergedEach`), ranking and cutting lose only what the limit says
  (`RankedLists`).
- Both rest on the lemmas under `Rankings`: a strict order on a finite set has exactly
  one element that `k` others precede, for every `k` below its size, so that the
  `CHOOSE` of `Ranked` has a value, and a list that follows the order is the
  ranking.
- `MeetingTimes`: `SlotsAreRight`, for any lengths of interval, hour, day and grid,
  any attendees and meetings, from `ConstantsOK` (an hour and a day are whole
  intervals, a meeting lasts, a search steps past what it suggests, and an hour is
  one of the day). The property speaks of a search that has ended; `TimesInv`
  says the same of the times before the cursor, so that each step has to show
  that what it passes is near a slot or not possible. `AvailableIsFree` and
  `FreeIsAvailable` connect the free/busy strings, looked up by index, with the
  meetings; `NightIsClosed` is that what is skipped until the next morning is
  outside working hours; `HoursOfOneDay` that v5's comparison of times of day
  means the working hours of one day. The lemmas before them (`DivMod`, ...) are
  the arithmetic of quotients and multiples that this takes.
- `Connection`: `TypeOK` and `OneLoop`. The two are inductive only together: that
  a new loop starts where none is left depends on no thread answering for a
  coroutine that is not waiting, which `TypeOK` says.

Only model-checked are the liveness properties `Recovers`, `NoticesOutage`,
`CatchesUp`, `WalkEnds` and `NobodyHangs`: the prover handles neither fairness nor
`ENABLED`. Every safety property that a run checks has a theorem.

`KillSwitchHolds`, `ConstraintsHold`, `HandlesSurvive`, `RateCap` and the type
invariants with a theorem are proved and in no run.

## 6. What is left out, and the plan

Left out of the modelled components: the audit call of `dispatch` and
`mint_token` from outside a gate; the tiers and the cold gate (constant in a
full-tier server that has been warm); the gateway's folder cache and pool
size in single-user mode; `resolve`, which only reads; restarts of the server in
`SendGate`; events, folders, signatures and the semantic index in the mirror;
update calls with both fields and several ids at once, which run the same steps
one after the other; in `AuditChain` a clock that goes back and two servers over
one data directory; the gates of `SendGate` in `UserContexts`, beyond the token;
in v4 the extraction of commitments from text, names, bodies and recipients of
mails, the fields of a person, and the wording of every answer.

Not modelled at all: formatting, parsing, SOAP and OpenAPI schemas, which keep no
state; settings and process start, which are straight-line code; v4's briefing
and thread services, which rank and format what a search finds; classification
and summaries, which are calls to a language model; the scripts of v5.

Hazards of the code that are listed here and not in `PROJECT.json`, because no
property covers them or another one listed there is of the same kind:

- two concurrent sends of different drafts under one idempotency key both pass
  the look-up (`v5/ewsmcp/tools/writes.py:841`); a restart loses consumed tokens
  and receipts while a configured secret keeps tokens valid (`confirm.py:37`);
- two moves of one item may rebind out of order (`writes.py:498`); an alias of an
  alias is minted by a fallback (`tools/rules.py:174`);
- a sync engine whose start fails is never started again
  (`gateway/connection.py:223`); `reset` closes the protocol under calls that use
  the account (`gateway/client.py:94`);
- an update of a message outside the window is skipped and its old row stays
  (`cache/sync.py:221`); a change delivered twice counts a signature twice
  (`cache/store.py:258`); a semantic search reads rows and watermark in two reads
  (`tools/mail_read.py:347`);
- the chain's torn state file (`audit.py:65`);
- v4's search of several folders shares one offset (`src/tools/email_tools.py:1696`),
  and its limiter keeps a deque whose eviction is one comparison
  (`src/middleware/rate_limiter.py:34`, where the theorem `CapHolds` covers it).

To come, most important first:

1. A restart action in `SendGate`, which loses the stores and keeps the tokens
   valid, and what then remains of `SingleUse`.
2. In `SearchPaging`, what v4's search of several folders with one offset may miss,
   of which `MissesNeedChanges` promises nothing.
