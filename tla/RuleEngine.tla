---------------------------- MODULE RuleEngine ----------------------------
(***************************************************************************)
(* When a stored rule matches a message and what its actions do to it:     *)
(* _match_one and _apply_actions of src/tools/rule_tools.py, and the checks *)
(* of RuleRepo.  A rule is [name, match, actions, enabled]; its match is a  *)
(* record with some of the keys below.  The strings of a match stand for    *)
(* what they match: a pattern is the set of addresses it matches, whatever  *)
(* their case, and a needle is one of the words a text contains.            *)
(***************************************************************************)
EXTENDS Naturals, Sequences, SequencesExt

Importances == {"Low", "Normal", "High"}
MatchKeys == {"from", "to", "subject_contains", "body_contains", "has_attachment",
              "is_unread", "categories_any", "categories_all", "importance"}
(* What they look at                                                        *)
MessageFields == {"from", "to", "subject", "body", "attached", "read", "importance", "cats"}
ActionTypes == {"flag_importance", "categorize", "move_to_folder", "mark_read",
                "track_commitment", "notify_agent"}
MaxActions == 10

(* validate_match and validate_actions: rule_create looks at the type of    *)
(* an action and not at its parameters.                                     *)
ValidMatch(match) == DOMAIN match \subseteq MatchKeys
ValidActions(actions) ==
  /\ Len(actions) \in 1..MaxActions
  /\ \A i \in DOMAIN actions : actions[i].type \in ActionTypes

Holds(key, wanted, message) ==
  CASE key = "from"             -> message.from \in wanted
    [] key = "to"               -> message.to \cap wanted # {}
    [] key = "subject_contains" -> wanted \in message.subject
    [] key = "body_contains"    -> wanted \in message.body
    [] key = "has_attachment"   -> message.attached = wanted
    [] key = "is_unread"        -> message.read = ~wanted
    [] key = "importance"       -> message.importance = wanted
    [] key = "categories_any"   -> message.cats \cap wanted # {}
    [] key = "categories_all"   -> wanted \subseteq message.cats

Match(match, message) == \A key \in DOMAIN match : Holds(key, match[key], message)

(* The ValidationErrors of _apply_actions.                                  *)
Applicable(action) ==
  CASE action.type = "flag_importance"  -> action.importance \in Importances
    [] action.type = "categorize"       -> action.categories # {}
    [] action.type = "move_to_folder"   -> action.destination # ""
    [] action.type = "track_commitment" -> action.description # ""
    [] OTHER                            -> TRUE

(* What an action sets on the message in memory, before any request.        *)
InMemory(action, message) ==
  IF ~Applicable(action) THEN message
  ELSE CASE action.type = "flag_importance" -> [message EXCEPT !.importance = action.importance]
         [] action.type = "categorize"      -> [message EXCEPT !.cats = @ \union action.categories]
         [] action.type = "mark_read"       -> [message EXCEPT !.read = TRUE]
         [] OTHER                           -> message

(* message.save(update_fields=[...]): the fields an action writes.          *)
Saved(action) ==
  CASE action.type = "flag_importance" -> {"importance"}
    [] action.type = "categorize"      -> {"cats"}
    [] action.type = "mark_read"       -> {"read"}
    [] OTHER                           -> {}

-----------------------------------------------------------------------------
(* The elements of s at the positions I, in their order: of each beginning  *)
(* of s, and of s.                                                          *)
PickedUpTo(s, I) ==
  LET picked[i \in 0..Len(s)] ==
        IF i = 0 THEN <<>>
        ELSE IF i \in I THEN Append(picked[i - 1], s[i]) ELSE picked[i - 1]
  IN  picked
Picked(s, I) == PickedUpTo(s, I)[Len(s)]

(* The message after each of the actions                                    *)
Acted(actions, message) ==
  LET after[i \in 0..Len(actions)] ==
        IF i = 0 THEN message ELSE InMemory(actions[i], after[i - 1])
  IN  after

(* What the loop over the rules comes to, as a function of the message as   *)
(* it was read: the rules fire in their order, each on what the ones before *)
(* it have made of the message.                                             *)
Fire(rule, sofar) ==
  IF Match(rule.match, sofar.message)
  THEN [message |-> Acted(rule.actions, sofar.message)[Len(rule.actions)],
        fired   |-> Append(sofar.fired, rule.name)]
  ELSE sofar
Outcomes(rules, message) ==
  LET after[i \in 0..Len(rules)] ==
        IF i = 0 THEN [message |-> message, fired |-> <<>>] ELSE Fire(rules[i], after[i - 1])
  IN  after
Outcome(rules, message) == Outcomes(rules, message)[Len(rules)]

(* rule_simulate and a dry run: every rule on the message as it was read.   *)
WouldFire(rules, message) ==
  Picked([i \in DOMAIN rules |-> rules[i].name],
         {i \in DOMAIN rules : Match(rules[i].match, message)})

(* The fields a match looks at, and rules none of which writes what a later *)
(* one looks at.                                                            *)
LooksAt(match) ==
  {CASE key = "is_unread" -> "read"
     [] key = "importance" -> "importance"
     [] key \in {"categories_any", "categories_all"} -> "cats"
     [] OTHER -> "content" : key \in DOMAIN match}
Writes(rule) ==
  UNION {Saved(rule.actions[i]) : i \in {j \in DOMAIN rule.actions : Applicable(rule.actions[j])}}
Independent(rules) ==
  \A j \in DOMAIN rules : \A i \in 1..(j - 1) : Writes(rules[i]) \cap LooksAt(rules[j].match) = {}
============================================================================
