----------------------------- MODULE InboxRules -----------------------------
(***************************************************************************)
(* Inbox rules on the wire (v5/ewsmcp/gateway/rules.py) and in the rows of *)
(* the tools (v5/ewsmcp/tools/rules.py).  An argument is "none" when it is *)
(* not given, else "falsy" (False, an empty list, 0) or "truthy".  One     *)
(* predicate stands for those the table _CONDITION_FIELDS builds, one for  *)
(* the size range, which is built apart.  A predicate whose values this    *)
(* code does not read, a list without an address or a string in it, is     *)
(* "falsy" on the wire too.  What this code does not know is foreign, in   *)
(* the blocks of conditions and actions or as Exceptions, a third block.   *)
(* The name stands for display_name and priority.                          *)
(***************************************************************************)
LOCAL INSTANCE Naturals

CONSTANTS NoFolder

TableKeys == {"has_attachments"}
SizeKeys == {"min_size_bytes"}
Keys == TableKeys \cup SizeKeys

Places == {"blocks", "exceptions"}

(* The elements a predicate block gets: falsy values are left out          *)
build_predicate_block(keys, values) == {k \in keys : values[k] = "truthy"}

(* Mutant: 0 is taken for no bound                                         *)
build_size_range_NoZero(values) == {k \in SizeKeys : values[k] = "truthy"}

(* Of a size range 0 is a bound like any other                             *)
build_size_range(values) == {k \in SizeKeys : values[k] # "none"}

build_conditions(values) ==
  LET built == build_predicate_block(TableKeys, values) \cup build_size_range(values)
  IN  [k \in Keys |-> IF k \in built THEN values[k] ELSE "none"]

(* The rule an operation carries; folder is what move_to_folder resolved to *)
build_rule_element(id, req, folder) ==
  [id |-> id, name |-> req.name, is_enabled |-> req.is_enabled,
   conditions |-> build_conditions(req.conditions),
   move |-> folder, read |-> req.read = "truthy", foreign |-> {}]

(* What a row says of a rule Exchange holds: foreign elements are looked   *)
(* for in Conditions and in Actions, and nowhere else                      *)
parse_rule_element(rule) ==
  [rule_id |-> rule.id, name |-> rule.name, is_enabled |-> rule.is_enabled,
   conditions |-> rule.conditions, move |-> rule.move,
   read |-> IF rule.read THEN "truthy" ELSE "none",
   unsupported |-> "blocks" \in rule.foreign]

(* At least one action must be given; one that is False counts             *)
HasActions(req) == req.move # NoFolder \/ req.read # "none"

(* What update_rule, or create_rule when it does not find the new rule,    *)
(* answers from its own arguments                                          *)
EchoedRow(id, req) ==
  [rule_id |-> id, name |-> req.name, is_enabled |-> req.is_enabled,
   conditions |-> req.conditions, move |-> req.move, read |-> req.read,
   unsupported |-> FALSE]
=============================================================================
