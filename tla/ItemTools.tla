----------------------------- MODULE ItemTools -----------------------------
(***************************************************************************)
(* The v4 tools that change appointments, tasks, contacts, the properties  *)
(* of a mail and the out-of-office settings (src/tools/calendar_tools.py,  *)
(* task_tools.py, contact_tools.py, oof_tools.py, update_email), and the   *)
(* two engines that apply stored rules to a mail (rule_tools.py,           *)
(* oof_policy_tools.py), on a mailbox that other clients change too.       *)
(*                                                                         *)
(* Every one of them reads an item in one request and changes it in later  *)
(* ones, and nothing locks the item in between.  save() without            *)
(* update_fields writes every field as it was read, save(update_fields=..) *)
(* only those.  The settings are an item of their own.  A tool blocks the  *)
(* event loop, so that one call is under way at a time.                    *)
(***************************************************************************)
EXTENDS RuleEngine, FiniteSets, Functions

CONSTANTS
  Originals,   (* what the mailbox may hold at first: sets of items         *)
  Edits,       (* kind -> what an update may ask to set, as records         *)
  News,        (* kind -> what a creation may ask to set, as records        *)
  Touches,     (* kind -> what another client may set, as records           *)
  RuleBook,    (* the rules a user may store                                *)
  Policies,    (* the sequences of forward rules a user may store           *)
  MaxItems, MaxCalls, MaxTouches, MaxRules, MaxDrafts,   (* bounds          *)
  Idle         (* no call under way                                         *)

VARIABLES
  items,      (* Exchange: ids of the items there are, to the items         *)
  drafts,     (* Exchange: the forward drafts, in order                     *)
  sent,       (* Exchange: responses and cancellations that went out        *)
  rules,      (* memory store: the rules, in the order of created_at        *)
  policy,     (* memory store: the forward rules of the OOF policy          *)
  ledger,     (* memory store: the commitments tracked by rules             *)
  call,       (* the call under way                                         *)
  answer,     (* what the last call answered                                *)
  calls, touches,   (* numbers of calls and of changes by other clients     *)
  intent,     (* history: what each field was last set to on purpose        *)
  raced       (* history: fields somebody else set while a call was about   *)
              (* to write what it had read before                           *)

vars == <<items, drafts, sent, rules, policy, ledger, call, answer, calls, touches, intent, raced>>

Ids == 1..MaxItems
Kinds == {"mail", "task", "contact", "appointment", "oof"}
Live == DOMAIN items
Is(id, kind) == id \in Live /\ items[id].kind = kind
Settable(kind) == UNION {DOMAIN e : e \in Edits[kind] \union Touches[kind]}

(* What the constants have to be: an item says of which kind it is, and     *)
(* nobody sets that; a mail has what the rules look at, the settings have a *)
(* window, or <<>> for none, and a rule has a list of actions.              *)
ConstantsOK ==
  /\ \A o \in Originals : "kind" \in DOMAIN o /\ o.kind \in Kinds
  /\ \A o \in Originals : o.kind = "mail" => MessageFields \subseteq DOMAIN o
  /\ \A o \in Originals : o.kind = "oof" => "window" \in DOMAIN o
  /\ \A r \in RuleBook : r.actions \in Seq(Range(r.actions))
  /\ \A kind \in Kinds : \A e \in Edits[kind] \union Touches[kind] : "kind" \notin DOMAIN e
  /\ \A kind \in {"task", "contact", "appointment"} : \A e \in News[kind] : "kind" \notin DOMAIN e

(* What complete_task sets.                                                 *)
Completion == [percent |-> 100, status |-> "Completed", complete |-> TRUE]

Init ==
  /\ items \in [{1} -> Originals]
  /\ intent = items
  /\ drafts = <<>> /\ sent = {} /\ ledger = {}
  /\ rules = <<>> /\ policy \in Policies
  /\ call = Idle /\ answer = Idle
  /\ calls = 0 /\ touches = 0 /\ raced = {}

-----------------------------------------------------------------------------
(* What the handlers are made of *)

Stored == <<rules, policy, ledger>>
Mailbox == <<items, drafts, sent, intent, raced>>

Begin(c) ==
  /\ call = Idle /\ calls < MaxCalls
  /\ calls' = calls + 1
  /\ call' = c
  /\ UNCHANGED <<touches, answer>>
End(a) ==
  /\ answer' = a
  /\ call' = Idle
  /\ UNCHANGED <<calls, touches>>

(* What save(update_fields=...) and move() make of an item.                 *)
Merged(now, args) ==
  [f \in DOMAIN args \union DOMAIN now |-> IF f \in DOMAIN args THEN args[f] ELSE now[f]]

(* The write of a call: the item becomes new, and what was asked for is     *)
(* from now on what the fields should hold.                                 *)
Put(id, new, asked) ==
  /\ items' = [items EXCEPT ![id] = new]
  /\ intent' = [intent EXCEPT ![id] = Merged(@, asked)]
  /\ raced' = raced \ {<<id, f>> : f \in DOMAIN asked}
Vanish(id) ==
  /\ items' = Restrict(items, Live \ {id})
  /\ intent' = Restrict(intent, Live \ {id})
  /\ raced' = {r \in raced : r[1] # id}

(* account.<folder>.get(id=...): the whole item, or an error.               *)
Fetch(tool, kind, id, args) ==
  /\ Is(id, kind)
  /\ Begin([tool |-> tool, id |-> id, seen |-> items[id], args |-> args])
  /\ UNCHANGED <<Mailbox, Stored>>

(* Mutant: the replies are defaults unless they are given, as before issue  *)
(* #121                                                                     *)
OverwrittenByDefaults(seen, args) ==
  Merged([f \in DOMAIN seen |-> IF f \in {"internal", "external"} THEN "" ELSE seen[f]], args)

(* What save() makes of the item: the arguments, and for every field that   *)
(* has none the value that was read.                                        *)
Overwritten(seen, args) == Merged(seen, args)

(* What a call sets: its arguments, and of the out-of-office settings the   *)
(* window too: they are made anew, and have none if it is not given         *)
(* (oof_tools.py:216).                                                      *)
Window(args) == IF "window" \in DOMAIN args THEN args.window ELSE <<>>
Sets(c) == IF c.seen.kind = "oof" THEN Merged(c.args, [window |-> Window(c.args)]) ELSE c.args

-----------------------------------------------------------------------------
(* The tools that read, change and save *)

UpdateEmail == \E id \in Ids, args \in Edits["mail"] : Fetch("update", "mail", id, args)
UpdateTask == \E id \in Ids, args \in Edits["task"] : Fetch("update", "task", id, args)
CompleteTask == \E id \in Ids : Fetch("update", "task", id, Completion)
UpdateContact == \E id \in Ids, args \in Edits["contact"] : Fetch("update", "contact", id, args)
UpdateAppointment ==
  \E id \in Ids, args \in Edits["appointment"] : Fetch("update", "appointment", id, args)

(* oof_settings(action="set"): state is required, and a schedule has an end *)
(* after its start.                                                         *)
SetSettings ==
  \E id \in Ids, args \in Edits["oof"] :
    /\ "state" \in DOMAIN args
    /\ args.state = "Scheduled" => Window(args) # <<>>
    /\ Window(args) # <<>> => Window(args)[1] < Window(args)[2]
    /\ Fetch("update", "oof", id, args)

Save ==
  /\ call # Idle /\ call.tool = "update"
  /\ call.id \in Live
  /\ Put(call.id, Overwritten(call.seen, Sets(call)), call.args)
  /\ End([ok |-> TRUE])
  /\ UNCHANGED <<drafts, sent, Stored>>

(* Any request may fail, and fails on an item that has gone.                *)
Fail ==
  /\ call # Idle /\ call.tool \in {"update", "delete", "respond"}
  /\ End([ok |-> FALSE])
  /\ UNCHANGED <<Mailbox, Stored>>

-----------------------------------------------------------------------------
(* The tools that create and delete *)

Blank(kind) ==
  CASE kind = "task"    -> [kind |-> "task", text |-> "", percent |-> 0,
                            status |-> "NotStarted", complete |-> FALSE]
    [] kind = "contact" -> [kind |-> "contact", name |-> "", emails |-> {}, phones |-> {}]
    [] kind = "appointment" -> [kind |-> "appointment", text |-> "", start |-> 0, end |-> 0,
                                required |-> {}, optional |-> {}]

(* One request.  What the call leaves out is not set.                       *)
Create(kind) ==
  \E id \in Ids \ Live, args \in News[kind] :
    /\ call = Idle /\ calls < MaxCalls
    /\ calls' = calls + 1
    /\ items' = Merged(items, [i \in {id} |-> Merged(Blank(kind), args)])
    /\ intent' = Merged(intent, [i \in {id} |-> Merged(Blank(kind), args)])
    /\ answer' = [ok |-> TRUE]
    /\ UNCHANGED <<drafts, sent, call, touches, raced, Stored>>
CreateTask == Create("task")
CreateContact == Create("contact")
CreateAppointment == Create("appointment")

DeleteTask == \E id \in Ids : Fetch("delete", "task", id, <<>>)
DeleteContact == \E id \in Ids : Fetch("delete", "contact", id, <<>>)
DeleteAppointment ==
  \E id \in Ids, cancel \in BOOLEAN :
    Fetch("delete", "appointment", id, [send_cancellation |-> cancel])

(* cancel() tells everybody on the item; only required attendees, as they   *)
(* were read, make it a meeting to cancel.                                  *)
Cancelled(c) ==
  /\ "send_cancellation" \in DOMAIN c.args /\ c.args.send_cancellation
  /\ c.seen.required # {}
Delete ==
  /\ call # Idle /\ call.tool = "delete" /\ call.id \in Live
  /\ sent' = IF Cancelled(call)
             THEN sent \union {[what |-> "cancelled", id |-> call.id, to |-> p] :
                               p \in items[call.id].required \union items[call.id].optional}
             ELSE sent
  /\ Vanish(call.id)
  /\ End([ok |-> TRUE])
  /\ UNCHANGED <<drafts, Stored>>

(* accept, tentatively_accept, decline: Exchange takes a declined meeting   *)
(* out of the calendar.                                                     *)
Responses == {"Accept", "Tentative", "Decline"}
RespondToMeeting ==
  \E id \in Ids, r \in Responses : Fetch("respond", "appointment", id, [response |-> r])
Respond ==
  /\ call # Idle /\ call.tool = "respond" /\ call.id \in Live
  /\ sent' = sent \union {[what |-> call.args.response, id |-> call.id, to |-> "organizer"]}
  /\ IF call.args.response = "Decline" THEN Vanish(call.id)
     ELSE UNCHANGED <<items, intent, raced>>
  /\ End([ok |-> TRUE])
  /\ UNCHANGED <<drafts, Stored>>

-----------------------------------------------------------------------------
(* Rules *)

(* rule_create refuses a rule that is not valid; a new rule is the newest.  *)
RuleCreate ==
  \E r \in RuleBook :
    /\ call = Idle /\ Len(rules) < MaxRules
    /\ \A i \in DOMAIN rules : rules[i].name # r.name
    /\ ValidMatch(r.match) /\ ValidActions(r.actions)
    /\ rules' = Append(rules, r)
    /\ UNCHANGED <<Mailbox, policy, ledger, call, answer, calls, touches>>
RuleDelete ==
  \E i \in DOMAIN rules :
    /\ call = Idle /\ calls < MaxCalls
    /\ calls' = calls + 1
    /\ rules' = RemoveAt(rules, i)
    /\ UNCHANGED <<Mailbox, policy, ledger, call, answer, touches>>

(* RuleRepo.list(enabled_only=True): oldest first.                          *)
Enabled(stored) == Picked(stored, {i \in DOMAIN stored : stored[i].enabled})

(* rule_simulate, and evaluate_rules_on_message with dry_run: one look, no  *)
(* change.                                                                  *)
Simulate ==
  \E id \in Ids :
    /\ call = Idle /\ calls < MaxCalls /\ Is(id, "mail")
    /\ calls' = calls + 1
    /\ answer' = [would_fire |-> WouldFire(Enabled(rules), items[id])]
    /\ UNCHANGED <<Mailbox, Stored, call, touches>>

(* evaluate_rules_on_message: the message and the rules are read once.      *)
Evaluate ==
  \E id \in Ids :
    /\ Is(id, "mail")
    /\ Begin([tool |-> "evaluate", id |-> id, first |-> items[id], seen |-> items[id],
              todo |-> Enabled(rules), actions |-> <<>>, fired |-> <<>>])
    /\ UNCHANGED <<Mailbox, Stored>>

Evaluating == call # Idle /\ call.tool = "evaluate"

NextRule ==
  /\ Evaluating /\ call.actions = <<>> /\ call.todo # <<>>
  /\ LET r == Head(call.todo)
     IN call' = IF Match(r.match, call.seen)
                THEN [call EXCEPT !.todo = Tail(@), !.actions = r.actions,
                                  !.fired = Append(@, r.name)]
                ELSE [call EXCEPT !.todo = Tail(@)]
  /\ UNCHANGED <<Mailbox, Stored, answer, calls, touches>>

(* Mutant: the message in memory stays as it was read                       *)
ActAtExchange(action) == call' = [call EXCEPT !.actions = Tail(@)]

(* One action.  The message in memory is changed first and stays changed    *)
(* when the request fails; the failure is noted and the loop goes on.       *)
Act(action) == call' = [call EXCEPT !.actions = Tail(@), !.seen = InMemory(action, @)]
Written(action, message) == [f \in Saved(action) |-> message[f]]
ApplyAction ==
  /\ Evaluating /\ call.actions # <<>>
  /\ LET a == Head(call.actions)
     IN /\ Act(a)
        /\ \/ /\ Applicable(a) /\ call.id \in Live /\ Saved(a) # {}
              /\ LET asked == Written(a, InMemory(a, call.seen))
                 IN Put(call.id, Merged(items[call.id], asked), asked)
              /\ UNCHANGED <<drafts, sent, ledger>>
           \/ /\ Applicable(a) /\ a.type = "track_commitment"
              /\ ledger' = ledger \union {a.description}
              /\ UNCHANGED Mailbox
           \/ /\ Applicable(a) /\ call.id \in Live /\ a.type = "move_to_folder"
              /\ Put(call.id, Merged(items[call.id], [folder |-> a.destination]),
                     [folder |-> a.destination])
              /\ UNCHANGED <<drafts, sent, ledger>>
           \/ UNCHANGED <<Mailbox, ledger>>
  /\ UNCHANGED <<rules, policy, answer, calls, touches>>

EvaluateDone ==
  /\ Evaluating /\ call.actions = <<>> /\ call.todo = <<>>
  /\ End([first |-> call.first, rules |-> Enabled(rules), fired |-> call.fired])
  /\ UNCHANGED <<Mailbox, Stored>>

-----------------------------------------------------------------------------
(* The OOF policy *)

ConfigurePolicy ==
  \E p \in Policies :
    /\ call = Idle /\ calls < MaxCalls
    /\ calls' = calls + 1
    /\ \A i \in DOMAIN p : ValidMatch(p[i].match)
    /\ policy' = p
    /\ UNCHANGED <<Mailbox, rules, ledger, call, answer, touches>>

(* apply_oof_policy: the rules that match the message as it was read.       *)
Forwards(stored, message) ==
  Picked(stored, {i \in DOMAIN stored : Match(stored[i].match, message)})
ApplyPolicy ==
  \E id \in Ids :
    /\ policy # <<>> /\ Is(id, "mail")
    /\ Begin([tool |-> "oof", id |-> id, seen |-> items[id],
              todo |-> Forwards(policy, items[id])])
    /\ UNCHANGED <<Mailbox, Stored>>

(* One draft for a rule, by create_forward_draft, which looks for the       *)
(* message again; a failure is noted and the loop goes on.                  *)
ForwardDraft ==
  /\ call # Idle /\ call.tool = "oof" /\ call.todo # <<>>
  /\ Len(drafts) < MaxDrafts
  /\ \/ /\ call.id \in Live
        /\ drafts' = Append(drafts, [of |-> call.id, to |-> Head(call.todo).to])
     \/ drafts' = drafts
  /\ call' = [call EXCEPT !.todo = Tail(@)]
  /\ UNCHANGED <<items, sent, intent, raced, Stored, answer, calls, touches>>
ApplyPolicyDone ==
  /\ call # Idle /\ call.tool = "oof" /\ call.todo = <<>>
  /\ End([ok |-> TRUE])
  /\ UNCHANGED <<Mailbox, Stored>>

-----------------------------------------------------------------------------
(* Other clients *)

(* What the call under way will write as it read it.                        *)
AtRisk(c) ==
  IF c = Idle THEN {}
  ELSE IF c.tool = "update" THEN Settable(c.seen.kind) \ DOMAIN Sets(c)
  ELSE {}

OutlookEdits ==
  /\ touches < MaxTouches
  /\ touches' = touches + 1
  /\ \E id \in Live : \E e \in Touches[items[id].kind] :
       /\ items' = [items EXCEPT ![id] = Merged(@, e)]
       /\ intent' = [intent EXCEPT ![id] = Merged(@, e)]
       /\ raced' = IF call # Idle /\ call.id = id
                   THEN raced \union {<<id, f>> : f \in DOMAIN e \cap AtRisk(call)}
                   ELSE raced \ {<<id, f>> : f \in DOMAIN e}
  /\ UNCHANGED <<drafts, sent, Stored, call, answer, calls>>
OutlookRemoves ==
  /\ touches < MaxTouches
  /\ touches' = touches + 1
  /\ \E id \in Live : items[id].kind # "oof" /\ Vanish(id)
  /\ UNCHANGED <<drafts, sent, Stored, call, answer, calls>>

Next ==
  \/ UpdateEmail \/ UpdateTask \/ CompleteTask \/ UpdateContact \/ UpdateAppointment
  \/ SetSettings \/ Save \/ Fail
  \/ CreateTask \/ CreateContact \/ CreateAppointment
  \/ DeleteTask \/ DeleteContact \/ DeleteAppointment \/ Delete
  \/ RespondToMeeting \/ Respond
  \/ RuleCreate \/ RuleDelete \/ Simulate \/ Evaluate \/ NextRule \/ ApplyAction \/ EvaluateDone
  \/ ConfigurePolicy \/ ApplyPolicy \/ ForwardDraft \/ ApplyPolicyDone
  \/ OutlookEdits \/ OutlookRemoves

Spec == Init /\ [][Next]_vars

-----------------------------------------------------------------------------
(* Properties *)

(* Items have the fields of their kind, a schedule of the out-of-office     *)
(* settings has a window, and only rules the engine can run are stored.     *)
TypeOK ==
  /\ Live \subseteq Ids
  /\ \A id \in Live :
       /\ items[id].kind \in Kinds
       /\ (items[id].kind = "oof" /\ items[id].state = "Scheduled") => items[id].window # <<>>
       /\ items[id].kind = "mail" => items[id].importance \in Importances
  /\ \A i \in DOMAIN rules : rules[i].actions # <<>> /\ DOMAIN rules[i].match \subseteq MatchKeys
  /\ \A d \in Range(drafts) : d.of \in Ids
  /\ DOMAIN intent = Live /\ raced \subseteq Ids \X UNION {Settable(k) : k \in Kinds}

(* Every field holds what somebody last set it to on purpose: a tool keeps  *)
(* what it was not asked to change (the replies of the out-of-office        *)
(* settings, the fields a rule does not name, ...).  There are two          *)
(* exceptions: what another client sets between the read and the save of an *)
(* update, which the save takes back; and the start and end of the          *)
(* out-of-office settings, which every set without them drops.              *)
DroppedWindow(id, f) == items[id].kind = "oof" /\ f = "window" /\ items[id].window = <<>>
Intended ==
  \A id \in Live : \A f \in DOMAIN items[id] :
    items[id][f] = intent[id][f] \/ <<id, f>> \in raced \/ DroppedWindow(id, f)

(* Which rules fire depends on the message as it was read and on the rules  *)
(* alone: neither a request that fails nor another client in between makes  *)
(* a rule fire or not fire, and each sees what the ones before it did.      *)
FiredAsRead ==
  (answer # Idle /\ "fired" \in DOMAIN answer) =>
    answer.fired = Outcome(answer.rules, answer.first).fired

(* A dry run, and rule_simulate, report exactly the rules an evaluation     *)
(* fires, unless one rule writes what a later one looks at.                 *)
DryRunPredicts ==
  \A id \in Live :
    items[id].kind = "mail" /\ Independent(Enabled(rules)) =>
      WouldFire(Enabled(rules), items[id]) = Outcome(Enabled(rules), items[id]).fired

RulesFireAsRead == FiredAsRead /\ DryRunPredicts
============================================================================
