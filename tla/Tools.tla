------------------------------- MODULE Tools -------------------------------
(***************************************************************************)
(* Seven parts of the two servers, side by side.  Of v4: the tools that    *)
(* change mail and folders, those that change other items and apply rules, *)
(* the searches with their caches, and find_person.  Of v5: update_task    *)
(* and the mirrored tasks, and the connection manager below all tools.  Of *)
(* both: the searches for free times.  Their states have nothing to do     *)
(* with each other: part says, from the start, which one a behaviour is    *)
(* about, and the variables of the others are Off.  (Names that two parts  *)
(* use are one variable here.)                                             *)
(***************************************************************************)
EXTENDS Integers, Sequences, FiniteSets

CONSTANTS
  Parts,                                        (* the ones to be looked at *)
  Off, NoItem, NoJob, Unborn, Destroyed, NoCall, None,
  Callers, Workers,                             (* of Mail, People; Caches, Lane *)
  MaxCalls, MaxChanges, MaxFailures, MaxRestarts,   (* bounds               *)
  Msgs, Files, Custom, Repeats, MaxId, MaxOutlook,                  (* Mail *)
  Originals, Edits, News, Touches, RuleBook, Policies,
  MaxItems, MaxTouches, MaxRules, MaxDrafts,                        (* Item *)
  Texts, Queries, Models, Messages, Folders, FolderOf, Automated, Mailboxes,
  Limits, Threshold, Cosine(_, _), EmbedCap, BatchSize,           (* Caches *)
  Interval, Hour, Day, Grid, Attendees, Meetings, MaxMeetings,
  Requests,                                                        (* Times *)
  Persons, Names, NameQueries, Starts, Finds, Domains, Odd, Sources,
  NameLimits, CacheTtl, NegativeTtl, MaxTicks,                    (* People *)
  Tasks, Dues, MaxTaskChanges,                                      (* Lane *)
  ResetEvery, MaxOutages                                         (* Manager *)

VARIABLES
  part,
  items, calls, call, answer, changes, failures,             (* shared names *)
  parent, nextId, job, outlook, made, known, asked, untrashed,  (* MailTools *)
  drafts, sent, rules, policy, ledger, touches, intent, raced,  (* ItemTools *)
  rows, bodies, mail, json, model, opened, warm, restarts,
  versions, imported, paid, saved, foreign,                (* SemanticSearch *)
  request, calendar, hidden, cursor, found, done,          (* MeetingTimes   *)
  gal, contacts, mails, cached, negative, clock,
  joined, left, failed, short,                             (* PersonSearch   *)
  tasks, table, synced, round, touched, interrupted,       (* TaskMirror     *)
  beats, reachable, wedged, outages, state, pc, thread,
  fired, sync, stopped                                     (* Connection     *)

ofMail   == <<parent, nextId, job, outlook, made, known, asked, untrashed>>
ofItems  == <<drafts, sent, rules, policy, ledger, touches, intent, raced>>
ofSearch == <<rows, bodies, mail, json, model, opened, warm, restarts,
              versions, imported, paid, saved, foreign>>
ofTimes  == <<request, calendar, hidden, cursor, found, done>>
ofPeople == <<gal, contacts, mails, cached, negative, clock, joined, left, failed, short>>
ofTasks  == <<tasks, table, synced, round, touched, interrupted>>
ofManager == <<beats, reachable, wedged, outages, state, pc, thread, fired, sync, stopped>>
vars == <<part, items, calls, call, answer, changes, failures,
          ofMail, ofItems, ofSearch, ofTimes, ofPeople, ofTasks, ofManager>>

-----------------------------------------------------------------------------
Mail == INSTANCE MailTools WITH Workers <- Callers
Item == INSTANCE ItemTools WITH Idle <- NoCall
Caches == INSTANCE SemanticSearch WITH Items <- Messages
Times == INSTANCE MeetingTimes
People == INSTANCE PersonSearch WITH
  People <- Persons, Texts <- Names, Queries <- NameQueries, Limits <- NameLimits,
  Workers <- Callers
Lane == INSTANCE TaskMirror WITH Free <- NoCall, MaxChanges <- MaxTaskChanges
Manager == INSTANCE Connection

(* What the theorems about the parts assume of their constants              *)
ASSUME PartsAssumption ==
  /\ Mail!ConstantsOK /\ Item!ConstantsOK /\ Caches!ConstantsOK
  /\ Times!ConstantsOK /\ People!ConstantsOK /\ Lane!ConstantsOK
  /\ ResetEvery \in Nat \ {0}

-----------------------------------------------------------------------------
MailOff ==
  /\ parent = Off /\ nextId = Off /\ job = Off /\ outlook = Off
  /\ made = Off /\ known = Off /\ asked = Off /\ untrashed = Off
ItemsOff ==
  /\ drafts = Off /\ sent = Off /\ rules = Off /\ policy = Off
  /\ ledger = Off /\ touches = Off /\ intent = Off /\ raced = Off
SearchOff ==
  /\ rows = Off /\ bodies = Off /\ mail = Off /\ json = Off /\ model = Off
  /\ opened = Off /\ warm = Off /\ restarts = Off
  /\ versions = Off /\ imported = Off /\ paid = Off /\ saved = Off /\ foreign = Off
TimesOff ==
  /\ request = Off /\ calendar = Off /\ hidden = Off
  /\ cursor = Off /\ found = Off /\ done = Off
PeopleOff ==
  /\ gal = Off /\ contacts = Off /\ mails = Off /\ cached = Off /\ negative = Off
  /\ clock = Off /\ joined = Off /\ left = Off /\ failed = Off /\ short = Off
TasksOff ==
  /\ tasks = Off /\ table = Off /\ synced = Off
  /\ round = Off /\ touched = Off /\ interrupted = Off
ManagerOff ==
  /\ beats = Off /\ reachable = Off /\ wedged = Off /\ outages = Off /\ state = Off
  /\ pc = Off /\ thread = Off /\ fired = Off /\ sync = Off /\ stopped = Off
CountsOff == changes = Off /\ failures = Off

Init ==
  /\ part \in Parts
  /\ \/ /\ part = "mail" /\ Mail!Init
        /\ call = Off /\ answer = Off /\ CountsOff
        /\ ItemsOff /\ SearchOff /\ TimesOff /\ PeopleOff /\ TasksOff /\ ManagerOff
     \/ /\ part = "items" /\ Item!Init
        /\ CountsOff /\ MailOff /\ SearchOff /\ TimesOff /\ PeopleOff /\ TasksOff /\ ManagerOff
     \/ /\ part = "search" /\ Caches!Init
        /\ items = Off /\ MailOff /\ ItemsOff /\ TimesOff /\ PeopleOff /\ TasksOff /\ ManagerOff
     \/ /\ part = "times" /\ Times!Init
        /\ items = Off /\ calls = Off /\ call = Off /\ answer = Off /\ CountsOff
        /\ MailOff /\ ItemsOff /\ SearchOff /\ PeopleOff /\ TasksOff /\ ManagerOff
     \/ /\ part = "people" /\ People!Init
        /\ items = Off /\ MailOff /\ ItemsOff /\ SearchOff /\ TimesOff /\ TasksOff /\ ManagerOff
     \/ /\ part = "tasks" /\ Lane!Init
        /\ items = Off /\ answer = Off
        /\ MailOff /\ ItemsOff /\ SearchOff /\ TimesOff /\ PeopleOff /\ ManagerOff
     \/ /\ part = "manager" /\ Manager!Init
        /\ items = Off /\ calls = Off /\ call = Off /\ answer = Off /\ changes = Off
        /\ MailOff /\ ItemsOff /\ SearchOff /\ TimesOff /\ PeopleOff /\ TasksOff

MailStep   == /\ part = "mail" /\ Mail!Next
              /\ UNCHANGED <<part, call, answer, changes, failures,
                             ofItems, ofSearch, ofTimes, ofPeople, ofTasks, ofManager>>
ItemsStep  == /\ part = "items" /\ Item!Next
              /\ UNCHANGED <<part, changes, failures,
                             ofMail, ofSearch, ofTimes, ofPeople, ofTasks, ofManager>>
SearchStep == /\ part = "search" /\ Caches!Next
              /\ UNCHANGED <<part, items, ofMail, ofItems, ofTimes, ofPeople, ofTasks, ofManager>>
TimesStep  == /\ part = "times" /\ Times!Next
              /\ UNCHANGED <<part, items, calls, call, answer, changes, failures,
                             ofMail, ofItems, ofSearch, ofPeople, ofTasks, ofManager>>
PeopleStep == /\ part = "people" /\ People!Next
              /\ UNCHANGED <<part, items, ofMail, ofItems, ofSearch, ofTimes, ofTasks, ofManager>>
TasksStep  == /\ part = "tasks" /\ Lane!Next
              /\ UNCHANGED <<part, items, answer, ofMail, ofItems, ofSearch, ofTimes, ofPeople, ofManager>>
ManagerStep == /\ part = "manager" /\ Manager!Next
               /\ UNCHANGED <<part, items, calls, call, answer, changes,
                              ofMail, ofItems, ofSearch, ofTimes, ofPeople, ofTasks>>
Next == \/ MailStep \/ ItemsStep \/ SearchStep \/ TimesStep
        \/ PeopleStep \/ TasksStep \/ ManagerStep
Spec == Init /\ [][Next]_vars

-----------------------------------------------------------------------------
(* Properties: those of the parts, where each is explained, and the cases   *)
(* are named in which the code does not give it.                            *)

(* A message is destroyed by nobody who did not ask for that, and an item   *)
(* is never in a folder that is gone (delete_email, delete_folder, ...).    *)
Recoverable == part = "mail" => Mail!Recoverable

(* A reply or forward carries all the files the original had when it was    *)
(* found and no other message's (reply_email, forward_email, ...).          *)
AllOrNothing == part = "mail" => Mail!AllOrNothing

(* An update keeps what it was not asked to change (update_task, ...).      *)
Intended == part = "items" => Item!Intended

(* Which rules of rule_evaluate fire depends on the message as it was read, *)
(* and rule_simulate and dry runs report those that an evaluation fires.    *)
RulesFireAsRead == part = "items" => Item!RulesFireAsRead

(* semantic_search_emails and get_email_details answer what they would      *)
(* answer without the caches.                                               *)
AsUncached == part = "search" => Caches!AsUncached

(* No vector that was paid for is lost: not by the warmup's file, nor by    *)
(* its import into the cache (_save_cache, import_legacy_embeddings_json).  *)
VectorsKept == part = "search" => Caches!VectorsKept

(* find_meeting_times suggests what all are free for, one slot after the    *)
(* other, and leaves out none it could suggest; check_availability gives    *)
(* exactly the free slots of its grid.                                      *)
SlotsAreRight == part = "times" => Times!SlotsAreRight

(* find_person hides nobody but by a cache or a limit, shows nobody who is  *)
(* long gone, and counts everybody once.                                    *)
PeopleAreRight == part = "people" => People!PeopleAreRight

(* The slow lane brings the mirrored tasks back to what they are, but for   *)
(* a row that update_task wrote late (v5/ewsmcp/tools/tasks.py:124).        *)
LaneRepairs == part = "tasks" => Lane!LaneRepairs

(* A live connection manager is watched by one loop, or by none if it is    *)
(* warm without a heartbeat; a stopped one runs none (connection.py:108).   *)
OneLoop == part = "manager" => Manager!OneLoop
=============================================================================
