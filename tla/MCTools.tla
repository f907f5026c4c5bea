------------------------------ MODULE MCTools ------------------------------
(***************************************************************************)
(* Tools for TLC: of each part a small instance.                           *)
(***************************************************************************)
EXTENDS Tools, TLC

CONSTANTS m1, m2

MCSymmetry == Permutations({m1, m2})

-----------------------------------------------------------------------------
(* ItemTools: one item of each kind, three rules that look at what the      *)
(* others change, one of them with an action that cannot be applied, and a  *)
(* rule with a key that does not exist.                                     *)
AMail == [kind |-> "mail", from |-> "boss", to |-> {"me"}, subject |-> {"report"}, body |-> {"draft"},
         attached |-> TRUE, read |-> FALSE, importance |-> "Normal", cats |-> {}, folder |-> "inbox"]
ATask == [kind |-> "task", text |-> "old", percent |-> 0, status |-> "NotStarted", complete |-> FALSE]
AContact == [kind |-> "contact", name |-> "old", emails |-> {"home", "work"}, phones |-> {"old"}]
AMeeting == [kind |-> "appointment", text |-> "old", start |-> 1, end |-> 2,
            required |-> {"ann"}, optional |-> {"bob"}]
AOof == [kind |-> "oof", state |-> "Disabled", internal |-> "old", external |-> "old",
        audience |-> "Known", window |-> <<>>]

MCOriginals ==
  {AMail, ATask, AContact, AMeeting, [AMeeting EXCEPT !.required = {}], AOof}

MCEdits ==
  [mail        |-> {<<>>, [read |-> TRUE], [cats |-> {"blue"}], [importance |-> "Low"]},
   task        |-> {<<>>, [text |-> "new"], [percent |-> 50]},
   contact     |-> {<<>>, [name |-> "new"], [emails |-> {"new"}]},
   appointment |-> {<<>>, [text |-> "new"], [start |-> 2, end |-> 3]},
   oof         |-> {<<>>, [state |-> "Enabled"], [state |-> "Disabled", internal |-> "new"],
                    [state |-> "Scheduled", window |-> <<1, 2>>], [state |-> "Scheduled"],
                    [state |-> "Scheduled", window |-> <<2, 1>>]}]
MCNews ==
  [task        |-> {[text |-> "new"]},
   contact     |-> {[name |-> "new", emails |-> {"new"}]},
   appointment |-> {[text |-> "new", start |-> 1, end |-> 2, required |-> {"ann"}]}]
MCTouches ==
  [mail        |-> {[read |-> TRUE], [cats |-> {"red"}], [importance |-> "High"]},
   task        |-> {[text |-> "theirs"], [percent |-> 100, status |-> "Completed", complete |-> TRUE]},
   contact     |-> {[emails |-> {"work"}], [phones |-> {}]},
   appointment |-> {[required |-> {"ann", "cid"}], [start |-> 3, end |-> 4]},
   oof         |-> {[internal |-> "theirs"], [state |-> "Disabled", window |-> <<>>]}]
ARule(name, match, actions) == [name |-> name, match |-> match, actions |-> actions, enabled |-> TRUE]
MCRuleBook ==
  {ARule("flag", [from |-> {"boss"}, is_unread |-> TRUE],
     <<[type |-> "flag_importance", importance |-> "High"], [type |-> "mark_read"]>>),
   ARule("file", [importance |-> "High", subject_contains |-> "report"],
     <<[type |-> "flag_importance", importance |-> "Urgent"],
       [type |-> "categorize", categories |-> {"blue"}],
       [type |-> "move_to_folder", destination |-> "reports"]>>),
   ARule("note", [importance |-> "High", has_attachment |-> TRUE],
     <<[type |-> "track_commitment", description |-> "read it"], [type |-> "notify_agent"]>>),
   [ARule("off", <<>>, <<[type |-> "mark_read"]>>) EXCEPT !.enabled = FALSE],
   ARule("none", <<>>, <<>>)}
MCPolicies == {<<>>, <<[match |-> [to |-> {"me"}, body_contains |-> "draft"], to |-> "deputy"],
                      [match |-> [categories_any |-> {"red"}, categories_all |-> {}], to |-> "other"]>>}
-----------------------------------------------------------------------------
(* SemanticSearch: up to three messages in a folder, two texts, a query.    *)
(* Both texts reach the threshold; vectors of two models have nothing to do *)
(* with each other.                                                         *)
CONSTANTS inbox, asks, fair, good
MCMessages == 1..3
MCFolderOf == [i \in MCMessages |-> inbox]
MCMailboxes == {<<good, None, good>>}
MCCosine(v, w) == IF v.by # w.by THEN IF w.of = fair THEN 9 ELSE 0
                  ELSE IF w.of = good THEN 8 ELSE 5
-----------------------------------------------------------------------------
(* MeetingTimes: two days of five hours of two intervals, which are the     *)
(* half hours of v5's grid; now and then the clock is changed by an hour in *)
(* the night between them.                                                  *)
Never == 99   (* the clock is not changed *)
MCRequests ==
  {[tool |-> "v4", start |-> s, end |-> e, duration |-> d, pause |-> p[1], apart |-> p[2],
    hours_only |-> only, earliest |-> 1, latest |-> 3, max |-> n, change |-> Never, shift |-> 0] :
     s \in {0, 6, 7}, e \in {20, 36}, d \in {2, 3, 6},
     p \in {<<1, TRUE>>, <<2, TRUE>>, <<1, FALSE>>}, only \in BOOLEAN, n \in {2, 9}}
  \cup
  {[tool |-> "v5", start |-> s, end |-> e, duration |-> d, pause |-> 0, apart |-> FALSE,
    hours_only |-> only, earliest |-> 1, latest |-> 3, max |-> 99, change |-> Never, shift |-> 0] :
     s \in {0, 7}, e \in {20, 36}, d \in {1, 3, 6, 21}, only \in BOOLEAN}
  \cup
  {[tool |-> tool, start |-> 0, end |-> 36, duration |-> 2, pause |-> 2, apart |-> tool = "v4",
    hours_only |-> only, earliest |-> 1, latest |-> 3, max |-> 99, change |-> 24, shift |-> by] :
     tool \in {"v4", "v5"}, by \in {4, -4}, only \in BOOLEAN}
MCMeetings == {<<5, 7>>, <<8, 12>>, <<13, 14>>, <<26, 30>>}
-----------------------------------------------------------------------------
(* PersonSearch: two people, a name one of them has and the other contains, *)
(* in two spellings, and a text both have the domain of; a third only       *)
(* writes, from an address that is none.                                    *)
CONSTANTS bob, dom
MCNameQueries == {<<bob, 1>>, <<bob, 2>>, <<dom, 1>>}
MCStarts == {<<{}, {2}>>, <<{1, 2}, {}>>}
MCFinds ==
  bob :> [exact |-> {1}, partial |-> {1, 2}, contains |-> {1, 2, 3}, domain |-> {}, fuzzy |-> {1, 2}] @@
  dom :> [exact |-> {}, partial |-> {}, contains |-> {1, 2, 3}, domain |-> {1, 2}, fuzzy |-> {}]
MCSources == {{"gal"}, {"gal", "contacts", "mail"}}
=============================================================================
