---------------------------- MODULE PersonSearch ----------------------------
(***************************************************************************)
(* find_person of the v4 server (src/services/person_service.py): people   *)
(* are looked for in the Global Address List, in four ways one after the   *)
(* other (src/adapters/gal_adapter.py), among the user's contacts and      *)
(* among the senders and recipients of mail, and merged by address.  What  *)
(* the directory gave is kept by spelling of the query for CacheTtl (src/  *)
(* adapters/cache_adapter.py); that it gave nothing is also kept by the    *)
(* query in lower case, for NegativeTtl.                                   *)
(*                                                                         *)
(* Every request to Exchange is a thread the search awaits; other searches *)
(* run and people come and go between any two.  A request that fails       *)
(* counts as one that finds nobody.  A person is a number, in the order in *)
(* which Exchange lists them; names, numbers and dates are left out, as    *)
(* are the bounds of 100 contacts, 2000 mails and 20 similar names.        *)
(***************************************************************************)
EXTENDS Ranking, Sequences

CONSTANTS
  People, Texts,
  Queries,     (* <<text, spelling>>                                        *)
  Starts,      (* <<directory, contacts>> at first                          *)
  Finds,       (* text -> way of searching -> the people it finds           *)
  Domains,     (* the texts with an @                                       *)
  Odd,         (* people who write from what is no e-mail address, as X.500 *)
  Sources,     (* what the calls search: sets of gal, contacts, mail        *)
  Limits,      (* max_results                                               *)
  CacheTtl, NegativeTtl,
  Workers, MaxTicks, MaxCalls, MaxChanges, MaxFailures, None

VARIABLES
  gal, contacts, (* Exchange: the directory, the contacts folder            *)
  mails,         (* Exchange: how many mails from and to each person        *)
  cached,        (* CacheAdapter: query -> what was found, until when       *)
  negative,      (* _NEGATIVE_CACHE: text -> until when                     *)
  clock,
  call, answer,
  calls, changes, failures,
  joined,        (* history: when each person last came into the directory  *)
  left,          (* history: when each person last left it or the contacts  *)
  failed, short  (* history: when a request to the directory last failed,   *)
                 (* and when a limit last cut what it gave                  *)

(* What the proofs assume of the constants                                  *)
ConstantsOK ==
  /\ People \subseteq Nat /\ IsFiniteSet(People)
  /\ \A q \in Queries : q \in Texts \X {r[2] : r \in Queries}
  /\ \A s \in Starts : s[1] \subseteq People /\ s[2] \subseteq People
  /\ Limits \subseteq Nat /\ Odd \subseteq People
  /\ CacheTtl \in Nat \ {0} /\ NegativeTtl \in Nat

exchange == <<gal, contacts, mails>>
caches == <<cached, negative>>
counts == <<calls, changes, failures>>
history == <<joined, left, failed, short>>
vars == <<exchange, caches, clock, call, answer, counts, history>>

Start == CacheTtl + NegativeTtl
Free == [pc |-> "free"]

Init ==
  /\ \E s \in Starts : gal = s[1] /\ contacts = s[2]
  /\ mails = [f \in {"inbox", "sent"} |-> [p \in People |-> IF p \in gal THEN 1 ELSE 0]]
  /\ cached = [q \in Queries |-> None]
  /\ negative = [t \in Texts |-> None]
  /\ clock = Start
  /\ call = [c \in Workers |-> Free] /\ answer = None
  /\ calls = 0 /\ changes = 0 /\ failures = 0
  /\ joined = [p \in People |-> 0] /\ left = [p \in People |-> 0]
  /\ failed = 0 /\ short = 0

-----------------------------------------------------------------------------
(* core/person.py.  A list of people stands for a dict by address.          *)

Priority == [gal |-> 100, contacts |-> 80, email_history |-> 60, fuzzy_match |-> 20]
source_priority(x) ==
  CHOOSE n \in {Priority[s] : s \in x.sources} : \A s \in x.sources : Priority[s] <= n

(* The stats are added up; the sources of both are kept.                    *)
merge_with(x, y) == [who |-> x.who, sources |-> x.sources \cup y.sources, mails |-> x.mails + y.mails]

From(S, source) ==
  LET there == InTurn(S)
  IN [i \in DOMAIN there |-> [who |-> there[i], sources |-> {source}, mails |-> 0]]

(* A person the list already has is merged, a new one gets the label.       *)
MergeOne(list, x, label) ==
  IF \E i \in DOMAIN list : list[i].who = x.who
  THEN [i \in DOMAIN list |-> IF list[i].who = x.who THEN merge_with(list[i], x) ELSE list[i]]
  ELSE Append(list, [x EXCEPT !.sources = @ \cup label])
MergedUpTo(list, new, label) ==
  LET after[i \in 0..Len(new)] ==
        IF i = 0 THEN list ELSE MergeOne(after[i - 1], new[i], label)
  IN  after
Merge(list, new, label) == MergedUpTo(list, new, label)[Len(new)]
_merge_results(list, new, strategy) ==
  Merge(list, new, {IF strategy = "fuzzy" THEN "fuzzy_match" ELSE "gal"})

(* Mutant: a list that is as long as the limit loses its last person        *)
CutShort(list, limit) == SubSeq(list, 1, IF Len(list) < limit THEN Len(list) ELSE limit - 1)
Cut(list, limit) == SubSeq(list, 1, IF Len(list) < limit THEN Len(list) ELSE limit)

-----------------------------------------------------------------------------
(* The ends of a search. *)

Score(x, text) ==
  source_priority(x)
    + (IF x.who \in Finds[text].exact THEN 100 ELSE IF x.who \in Finds[text].contains THEN 50 ELSE 0)
    + (IF x.mails < 50 THEN x.mails ELSE 50)
_rank_persons(list, text) ==
  LET at == Ranked(DOMAIN list, {p \in (DOMAIN list) \X (DOMAIN list) :
              \/ Score(list[p[1]], text) > Score(list[p[2]], text)
              \/ Score(list[p[1]], text) = Score(list[p[2]], text) /\ p[1] < p[2]})
  IN [k \in DOMAIN at |-> list[at[k]]]

Await(c, job) == /\ call' = [call EXCEPT ![c] = job]
                 /\ answer' = None
Answer(c, job) ==
  /\ call' = [call EXCEPT ![c] = Free]
  /\ answer' = [job EXCEPT !.found = Cut(_rank_persons(@, job.text), job.limit)]

(* The next source that was asked for, or the answer.                       *)
Onward(c, job, done) ==
  IF "contacts" \in job.sources \ done
    THEN Await(c, [job EXCEPT !.pc = "contacts"])
  ELSE IF "mail" \in job.sources \ done
    THEN Await(c, [job EXCEPT !.pc = "mail", !.inbox = None, !.sent = None])
  ELSE Answer(c, job)

(* What the directory gave goes into the cache, even if it is nothing.      *)
GalDone(c, job, found) ==
  /\ cached' = [cached EXCEPT ![<<job.text, job.spelling>>] =
                  [found |-> Cut(found, job.limit), until |-> clock + CacheTtl]]
  /\ short' = IF Len(found) > job.limit THEN clock ELSE short
  /\ Onward(c, [job EXCEPT !.found = Cut(found, job.limit)], {"gal"})

(* A request fails and has found nobody, or it has found them.              *)
Gives(found, result) ==
  \/ found = result /\ UNCHANGED <<failures, failed>>
  \/ /\ failures < MaxFailures /\ failures' = failures + 1
     /\ failed' = clock
     /\ found = <<>>

-----------------------------------------------------------------------------
(* The directory. *)

Valid(q) == cached[q] # None /\ clock < cached[q].until
(* get deletes what has expired.                                            *)
Dropped(q) == IF Valid(q) THEN cached ELSE [cached EXCEPT ![q] = None]

FindPerson(c, text, spelling, sources, limit) ==
  /\ call[c] = Free
  /\ calls < MaxCalls /\ calls' = calls + 1
  /\ LET q == <<text, spelling>>
         job == [pc |-> "negative", text |-> text, spelling |-> spelling, sources |-> sources,
                 limit |-> limit, found |-> <<>>, exact |-> None, partial |-> None,
                 folder |-> FALSE, inbox |-> None, sent |-> None, error |-> FALSE, began |-> clock]
     IN IF "gal" \notin sources THEN UNCHANGED cached /\ Onward(c, job, {})
        ELSE /\ cached' = Dropped(q)
             /\ IF Valid(q) THEN Onward(c, [job EXCEPT !.found = cached[q].found], {"gal"})
                ELSE Await(c, job)
  /\ UNCHANGED <<exchange, negative, clock, changes, failures, history>>

MissedLately(text) == negative[text] # None /\ clock < negative[text]

NegativeCheck(c) ==
  /\ call[c].pc = "negative"
  /\ IF MissedLately(call[c].text) THEN GalDone(c, call[c], <<>>) /\ UNCHANGED negative
     ELSE /\ negative' = [negative EXCEPT ![call[c].text] = None]
          /\ Await(c, [call[c] EXCEPT !.pc = "resolving"])
          /\ UNCHANGED <<cached, short>>
  /\ UNCHANGED <<exchange, clock, counts, joined, left, failed>>

Resolved(c, strategy) == From(gal \cap Finds[call[c].text][strategy], "gal")

(* Two threads at once: the exact one,                                      *)
SearchExact(c) ==
  /\ call[c].pc = "resolving" /\ call[c].exact = None
  /\ \E found \in {<<>>, Resolved(c, "exact")} :
       /\ Gives(found, Resolved(c, "exact"))
       /\ Await(c, [call[c] EXCEPT !.exact = found])
  /\ UNCHANGED <<exchange, caches, clock, calls, changes, joined, left, short>>

(* and the one with a wildcard, which goes on to the contacts if it finds   *)
(* nobody.                                                                  *)
SearchPartial(c) ==
  /\ call[c].pc = "resolving" /\ call[c].partial = None /\ ~call[c].folder
  /\ LET all == Resolved(c, "partial")
     IN \/ UNCHANGED <<failures, failed>> /\ IF all = <<>> THEN Await(c, [call[c] EXCEPT !.folder = TRUE])
                                             ELSE Await(c, [call[c] EXCEPT !.partial = all])
        \/ /\ failures < MaxFailures /\ failures' = failures + 1 /\ failed' = clock
           /\ Await(c, [call[c] EXCEPT !.partial = <<>>])
  /\ UNCHANGED <<exchange, caches, clock, calls, changes, joined, left, short>>

Listed(c) == From(contacts \cap Finds[call[c].text].contains, "contacts")
SearchContactsFolder(c) ==
  /\ call[c].pc = "resolving" /\ call[c].partial = None /\ call[c].folder
  /\ \E found \in {<<>>, Listed(c)} :
       /\ Gives(found, Listed(c))
       /\ Await(c, [call[c] EXCEPT !.partial = found])
  /\ UNCHANGED <<exchange, caches, clock, calls, changes, joined, left, short>>

(* What is done with the people found so far, after a strategy.             *)
Miss(found, text) ==
  negative' = IF found = <<>> THEN [negative EXCEPT ![text] = clock + NegativeTtl] ELSE negative
AfterDomain(c, found) ==
  IF found # <<>> THEN GalDone(c, call[c], found) /\ UNCHANGED negative
  ELSE Await(c, [call[c] EXCEPT !.pc = "fuzzy"]) /\ UNCHANGED <<caches, short>>

Gathered(c) ==
  /\ call[c].pc = "resolving" /\ call[c].exact # None /\ call[c].partial # None
  /\ LET exact == _merge_results(<<>>, call[c].exact, "exact")
         found == IF exact = <<>> THEN _merge_results(<<>>, call[c].partial, "partial") ELSE exact
     IN IF Len(found) < call[c].limit /\ call[c].text \in Domains
        THEN Await(c, [call[c] EXCEPT !.pc = "domain", !.found = found]) /\ UNCHANGED <<caches, short>>
        ELSE AfterDomain(c, found)
  /\ UNCHANGED <<exchange, clock, counts, joined, left, failed>>

SearchDomain(c) ==
  /\ call[c].pc = "domain"
  /\ \E more \in {<<>>, Resolved(c, "domain")} :
       /\ Gives(more, Resolved(c, "domain"))
       /\ AfterDomain(c, _merge_results(call[c].found, more, "domain"))
  /\ UNCHANGED <<exchange, clock, calls, changes, joined, left>>

SearchFuzzy(c) ==
  /\ call[c].pc = "fuzzy"
  /\ \E more \in {<<>>, Resolved(c, "fuzzy")} :
       /\ Gives(more, Resolved(c, "fuzzy"))
       /\ Miss(more, call[c].text)
       /\ GalDone(c, call[c], _merge_results(<<>>, more, "fuzzy"))
  /\ UNCHANGED <<exchange, clock, calls, changes, joined, left>>

-----------------------------------------------------------------------------
(* Contacts and mail. *)

Failing == failures < MaxFailures /\ failures' = failures + 1

SearchContacts(c) ==
  /\ call[c].pc = "contacts"
  /\ \/ /\ Onward(c, [call[c] EXCEPT !.found = Merge(@, Listed(c), {})], {"gal", "contacts"})
        /\ UNCHANGED failures
     \/ Failing /\ Onward(c, call[c], {"gal", "contacts"})
  /\ UNCHANGED <<exchange, caches, clock, calls, changes, history>>

(* Two threads at once; the people in both folders are counted together.    *)
(* EmailStr refuses the address of one, and all of them are lost: the last  *)
(* except returns an empty list, and no error code (person_service.py:606). *)
Counted(inbox, sent) == [p \in People |-> inbox[p] + sent[p]]
Writers(n) ==
  IF \E p \in Odd : n[p] > 0 THEN <<>> ELSE
  LET there == From({p \in People : n[p] > 0}, "email_history")
  IN [i \in DOMAIN there |-> [there[i] EXCEPT !.mails = n[there[i].who]]]

Scan(c, folder) ==
  /\ call[c].pc = "mail" /\ call[c][folder] = None
  /\ LET seen == [p \in People |-> IF p \in Finds[call[c].text].contains THEN mails[folder][p] ELSE 0]
         job  == [call[c] EXCEPT ![folder] = seen]
     IN IF job.inbox = None \/ job.sent = None THEN Await(c, job)
        ELSE Answer(c, [job EXCEPT !.found = Merge(@, Writers(Counted(job.inbox, job.sent)), {})])
  /\ UNCHANGED <<exchange, caches, clock, counts, history>>

(* One of them fails, or both take longer than the timeout.                 *)
ScanFails(c) ==
  /\ call[c].pc = "mail"
  /\ Failing
  /\ Answer(c, [call[c] EXCEPT !.error = TRUE])
  /\ UNCHANGED <<exchange, caches, clock, calls, changes, history>>

-----------------------------------------------------------------------------
(* The world. *)

Change == changes < MaxChanges /\ changes' = changes + 1 /\ answer' = None
Toggled(S, p) == IF p \in S THEN S \ {p} ELSE S \cup {p}
Leaves(S, p) == left' = IF p \in S THEN [left EXCEPT ![p] = clock] ELSE left

DirectoryChanges(p) ==
  /\ Change
  /\ gal' = Toggled(gal, p) /\ Leaves(gal, p)
  /\ joined' = [joined EXCEPT ![p] = clock]
  /\ UNCHANGED <<contacts, mails, caches, clock, call, calls, failures, failed, short>>
ContactsChange(p) ==
  /\ Change
  /\ contacts' = Toggled(contacts, p) /\ Leaves(contacts, p)
  /\ UNCHANGED <<gal, mails, caches, clock, call, calls, failures, joined, failed, short>>
MailComes(folder, p) ==
  /\ Change
  /\ mails' = [mails EXCEPT ![folder][p] = @ + 1]
  /\ UNCHANGED <<gal, contacts, caches, clock, call, calls, failures, history>>

(* A search is short against the lives of the caches: its requests time out *)
Tick ==
  /\ clock < Start + MaxTicks /\ clock' = clock + 1
  /\ \A c \in Workers : call[c] = Free
  /\ answer' = None
  /\ UNCHANGED <<exchange, caches, call, counts, history>>

Next ==
  \/ \E c \in Workers, q \in Queries, sources \in Sources, n \in Limits :
       FindPerson(c, q[1], q[2], sources, n)
  \/ \E c \in Workers :
       \/ NegativeCheck(c) \/ SearchExact(c) \/ SearchPartial(c) \/ SearchContactsFolder(c)
       \/ Gathered(c) \/ SearchDomain(c) \/ SearchFuzzy(c)
       \/ SearchContacts(c) \/ ScanFails(c) \/ \E f \in {"inbox", "sent"} : Scan(c, f)
  \/ \E p \in People : DirectoryChanges(p) \/ ContactsChange(p)
  \/ \E p \in People, f \in {"inbox", "sent"} : MailComes(f, p)
  \/ Tick
Spec == Init /\ [][Next]_vars

-----------------------------------------------------------------------------
(* Properties *)

Named == {answer.found[i].who : i \in DOMAIN answer.found}
Full == Len(answer.found) >= answer.limit

(* "We NEVER return 0 results when people exist" (gal_adapter.py:65), in    *)
(* the form in which it is true: who has been in the directory since before *)
(* anything in the caches was found is among the answers to an exact query, *)
(* unless a request to the directory has failed or a smaller limit has cut  *)
(* what it gave in that time.                                               *)
Before(t) == t + CacheTtl + NegativeTtl <= answer.began
NobodyHidden ==
  "gal" \in answer.sources /\ Before(failed) /\ Before(short) /\ ~Full =>
    \A p \in gal \cap Finds[answer.text].exact : Before(joined[p]) => p \in Named

(* Who is in the answer is still there, has written or been written to, or  *)
(* has left less than the life of the cache before the search.              *)
NobodyStale ==
  \A p \in Named : \/ p \in gal \cup contacts
                   \/ \E f \in {"inbox", "sent"} : mails[f][p] > 0
                   \/ answer.began < left[p] + CacheTtl

(* Nobody is twice in it, and whoever the two scans of this search saw is   *)
(* in it with the mails they saw, unless better ones fill it: mails are     *)
(* counted once, whatever earlier searches left in the caches, and an       *)
(* answer without them says that the scan failed.  The exception is a scan  *)
(* that saw an address that is none: then nobody is in it for their mails,  *)
(* and the answer does not say so.                                          *)
EachOnce ==
  /\ \A i, j \in DOMAIN answer.found : answer.found[i].who = answer.found[j].who => i = j
  /\ "mail" \in answer.sources /\ ~answer.error =>
       LET n == Counted(answer.inbox, answer.sent) IN
       (\A p \in Odd : n[p] = 0) =>
       /\ \A i \in DOMAIN answer.found : answer.found[i].mails = n[answer.found[i].who]
       /\ ~Full => \A p \in People : n[p] > 0 => p \in Named

PeopleAreRight == answer # None => NobodyHidden /\ NobodyStale /\ EachOnce
=============================================================================
