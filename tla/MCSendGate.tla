----------------------------- MODULE MCSendGate -----------------------------
(***************************************************************************)
(* Instances of SendGate for TLC: two concurrent requests, one draft and   *)
(* one event, a body to a blocked recipient among the contents.            *)
(***************************************************************************)
EXTENDS SendGate, TLC

CONSTANTS d1, d2, e1, k1, k2

Body(text, rcpt) == [text |-> text, rcpt |-> rcpt, file |-> "f", bytes |-> 0]
MCBodies == {Body("a", "in"), Body("b", "in"), Body("b", "blocked")}
MCBlocked == {"blocked"}

On(item, tool, form, key, body) ==
  [tool |-> tool, h |-> [item |-> item, form |-> form], key |-> key, body |-> body]
OnDraft(tool, form, key, body) == On(d1, tool, form, key, body)
OnEvent(tool) == On(e1, tool, "alias", NoKey, NoBody)

(* The send flow: keyed and unkeyed sends, both spellings of the id         *)
DraftCalls ==
  {OnDraft("send_draft", "alias", k1, NoBody), OnDraft("send_draft", "raw", k1, NoBody),
   OnDraft("update_draft", "alias", NoKey, Body("b", "in")),
   OnDraft("update_draft", "alias", NoKey, Body("b", "blocked")),
   OnDraft("delete_draft", "alias", NoKey, NoBody)}

(* The tools whose tokens bind the caller's literal arguments               *)
LiteralCalls ==
  {OnEvent("respond_to_event"), OnEvent("cancel_event"), OnEvent("create_event")}

(* Two keyed drafts and the literal tools, over several seconds             *)
ClockCalls ==
  {On(d1, "send_draft", "raw", k1, NoBody), On(d2, "send_draft", "raw", k2, NoBody)}
    \union LiteralCalls
OneBody == {Body("a", "in")}

MCSymmetry == Permutations(Requests)
=============================================================================
