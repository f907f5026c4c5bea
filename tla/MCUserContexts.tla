--------------------------- MODULE MCUserContexts ---------------------------
(***************************************************************************)
(* An instance of UserContexts for TLC: two users and a cache for one, so  *)
(* that each takes the other's place; a pool of one thread.                *)
(***************************************************************************)
EXTENDS UserContexts, TLC

CONSTANTS ann, Ann, bob, s1, s2

(* One of the two brings a wrong password, which becomes the right one     *)
MCPresents == {<<ann, s1>>, <<Ann, s2>>, <<Ann, s1>>, <<bob, s1>>, <<bob, Missing>>, <<Missing, s1>>}
MCLower == (ann :> ann) @@ (Ann :> ann) @@ (bob :> bob)
MCPassword == [u \in Users |-> s1]

None == [kind |-> "folder", n |-> 0]
Archive == [kind |-> "folder", n |-> 1]
ArchivePath == [kind |-> "path", n |-> 1]

Conditions(table, size) == [has_attachments |-> table, min_size_bytes |-> size]

Rule(n, name, conditions, move, foreign) ==
  [id |-> RuleId(n), name |-> name, is_enabled |-> TRUE, conditions |-> conditions,
   move |-> move, read |-> TRUE, foreign |-> foreign]

(* One has two rules, of which one is more than this code shows or says it *)
(* does not show; the other has one that it says it cannot show            *)
MCRules == [u \in Users |-> IF u = bob THEN
  {Rule(1, "b", Conditions("falsy", "none"), None, {"blocks"})} ELSE
  {Rule(1, "a", Conditions("truthy", "falsy"), Archive, {}),
   Rule(2, "a", Conditions("truthy", "falsy"), Archive, {"exceptions"})}]

MCRequests ==
  {[name |-> "a", is_enabled |-> TRUE, conditions |-> Conditions("truthy", "falsy"),
    move |-> ArchivePath, read |-> "truthy"]}
=============================================================================
