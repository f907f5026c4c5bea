---------------------------- MODULE SearchPaging ----------------------------
(* How a client pages through mail.  The v4 tools read_emails and          *)
(* search_emails (src/tools/email_tools.py: quick, advanced and            *)
(* full_text mode) count the matches, read them in slices and answer a     *)
(* next_offset; the v5 tools search_messages (one folder, the whole        *)
(* mailbox, or the mirror) and get_thread (v5/ewsmcp/tools/                *)
(* mail_read.py) look one item ahead instead, or cut a window out of what  *)
(* they have fetched.  Every request is one or more calls to Exchange, and *)
(* mail arrives, goes and moves between any two of them.                   *)
(*                                                                         *)
(* A message is the number of its arrival: a larger number is newer.  What *)
(* a query matches is left out: box holds the matches only, so a message   *)
(* that stops matching is one that goes.                                   *)
EXTENDS Integers, Sequences, Functions, Ranking

CONSTANTS Walks,        \* <<tool or mode, sequence of folders it searches>>
          Limits,       \* max_results, or limit
          Chunk,        \* the slice one FindItem asks for (50 in the code)
          Loose,        \* matches of Exchange that exact_phrase drops
          Start,        \* messages there when the walk begins
          MaxMsg,       \* bound: messages that ever exist
          MaxChanges,   \* bound: arrivals, removals and moves in a walk
          MaxFailures   \* bound: calls that fail in a walk

VARIABLES box,       \* the matches in each folder
          newest,    \* the last message that arrived
          walk,      \* the client's walk: what it asks for and what it has got
          parts,     \* the request in progress: what each folder has given
          changes, failures

vars == <<box, newest, walk, parts, changes, failures>>

None == -1
Folders == UNION {Range(w[2]) : w \in Walks}
Msgs == 1..MaxMsg
V4 == {"quick", "advanced", "full_text", "exact"}
V5 == {"cached", "folder", "all", "thread"}

(* A search lists each folder once; read_emails, the mirror and a search of *)
(* a folder have one.                                                       *)
ConstantsOK ==
  /\ \A w \in Walks :
       /\ w[1] \in V4 \cup V5 \cup {"read"}
       /\ w[2] \in Seq(Folders) \ {<<>>} /\ IsInjective(w[2])
       /\ w[1] \in {"read", "cached", "folder"} => Len(w[2]) = 1
  /\ Limits \subseteq Nat \ {0} /\ Chunk \in Nat
  /\ MaxMsg \in Nat /\ Start \in 0..MaxMsg

Least(a, b) == IF a < b THEN a ELSE b
Most(a, b) == IF a > b THEN a ELSE b

(* query.order_by('-datetime_received'): newest first. *)
Listing(S) == Ranked(S, {p \in S \X S : p[1] > p[2]})

-----------------------------------------------------------------------------
(* What one request asks of each folder. *)

(* query.count() and SELECT COUNT come before the rows. *)
CountsFirst(mode) == mode \in V4 \cup {"cached"}

From(w) == IF w.mode \in {"all", "thread"} THEN 0 ELSE w.offset

(* advanced shares max_results out among the folders, full_text gives each *)
(* folder all of it; paginate looks one item ahead, and for the whole       *)
(* mailbox every folder delivers its newest offset + limit hits.            *)
Budget(w) ==
  CASE w.mode = "advanced" -> IF Len(w.scope) > 1 THEN w.limit \div Len(w.scope) ELSE w.limit
    [] w.mode = "folder"   -> w.limit + 1
    [] w.mode = "all"      -> w.offset + w.limit + 1
    [] w.mode = "thread"   -> MaxMsg
    [] OTHER               -> w.limit

ChunkOf(w) == IF w.mode = "cached" THEN w.limit ELSE Chunk

NewPart(w) == [phase |-> IF CountsFirst(w.mode) THEN "count" ELSE "slice",
               total |-> None, items |-> <<>>]

(* A loop that has nothing left to ask for does not ask. *)
Settled(w, p) ==
  IF p.phase = "slice" /\ Len(p.items) >= Budget(w) THEN [p EXCEPT !.phase = "done"] ELSE p

(* The v4 searches and get_thread take the folders one after the other; the *)
(* whole-mailbox search has a thread for each.                              *)
Turn(f) ==
  /\ walk.state = "busy"
  /\ parts[f].phase \in {"count", "slice"}
  /\ walk.mode # "all" =>
       \A i, j \in 1..Len(walk.scope) :
         walk.scope[j] = f /\ i < j => parts[walk.scope[i]].phase \notin {"count", "slice"}

-----------------------------------------------------------------------------
(* One request. *)

Ask ==
  /\ walk.state = "ask"
  /\ walk' = [walk EXCEPT !.state = "busy"]
  /\ parts' = [f \in Range(walk.scope) |-> Settled(walk, NewPart(walk))]
  /\ UNCHANGED <<box, newest, changes, failures>>

(* A count that fails leaves the total unknown and the search goes on. *)
CountMatches(f) ==
  /\ Turn(f)
  /\ parts[f].phase = "count"
  /\ \E known \in BOOLEAN :
       /\ known \/ (failures < MaxFailures /\ walk.mode \in V4)
       /\ failures' = IF known THEN failures ELSE failures + 1
       /\ parts' = [parts EXCEPT ![f] =
            Settled(walk, [@ EXCEPT !.phase = "slice",
                                    !.total = IF known THEN Cardinality(box[f]) ELSE None])]
  /\ UNCHANGED <<box, newest, walk, changes>>

(* query[cursor:cursor + want]: an empty or a short batch ends the loop. *)
Slice(f) ==
  /\ Turn(f)
  /\ parts[f].phase = "slice"
  /\ LET p      == parts[f]
         cursor == From(walk) + Len(p.items)
         want   == Least(ChunkOf(walk), Budget(walk) - Len(p.items))
         batch  == SubSeq(Listing(box[f]), cursor + 1, Least(cursor + want, Cardinality(box[f])))
         q      == [p EXCEPT !.items = @ \o batch,
                             !.phase = IF Len(batch) < want THEN "done" ELSE @]
     IN \E r \in {Settled(walk, q)} : parts' = [parts EXCEPT ![f] = r]
  /\ UNCHANGED <<box, newest, walk, changes, failures>>

(* A failing call: a v4 search keeps what the folder has given and reports  *)
(* the error; a whole-mailbox search drops the folder and names it; the     *)
(* mirror falls back to Exchange; the others answer with the error.         *)
SliceFails(f) ==
  /\ Turn(f)
  /\ parts[f].phase = "slice"
  /\ failures < MaxFailures
  /\ failures' = failures + 1
  /\ CASE walk.mode \in V4 ->
            parts' = [parts EXCEPT ![f].phase = "failed"] /\ UNCHANGED walk
       [] walk.mode = "all" ->
            parts' = [parts EXCEPT ![f] = [@ EXCEPT !.phase = "failed", !.items = <<>>]]
            /\ UNCHANGED walk
       [] walk.mode = "cached" ->
            /\ walk' = [walk EXCEPT !.mode = "folder"]
            /\ parts' = [parts EXCEPT ![f] = NewPart(walk')]
       [] OTHER ->
            parts' = <<>> /\ walk' = [walk EXCEPT !.state = "ask"]
  /\ UNCHANGED <<box, newest, changes>>

-----------------------------------------------------------------------------
(* The answer: the page, the next offset (None: no more), and whether it    *)
(* owns up to a gap (a total or a folder it does not know).                 *)

Answered == \A f \in DOMAIN parts : parts[f].phase \in {"done", "failed"}
Failed == {f \in DOMAIN parts : parts[f].phase = "failed"}
Upto(s, n) == SubSeq(s, 1, Least(n, Len(s)))

(* A hit is the k-th one that the i-th folder has given, at most n of each. *)
Given(w, n) ==
  {h \in (1..Len(w.scope)) \X (1..n) : h[2] <= Len(parts[w.scope[h[1]]].items)}
Item(w, h) == parts[w.scope[h[1]]].items[h[2]]

FolderByFolder(H) ==
  {p \in H \X H : p[1][1] < p[2][1] \/ (p[1][1] = p[2][1] /\ p[1][2] < p[2][2])}
NewestFirst(w, H) ==
  {p \in H \X H : \/ Item(w, p[1]) > Item(w, p[2])
                  \/ Item(w, p[1]) = Item(w, p[2]) /\ p \in FolderByFolder(H)}
Listed(w, H, order) ==
  LET at == Ranked(H, order) IN [i \in DOMAIN at |-> Item(w, at[i])]

(* What the folders have given, one after the other, or sorted.             *)
Hits(w) == LET H == Given(w, Budget(w)) IN Listed(w, H, FolderByFolder(H))
Sorted(w, H) == Listed(w, H, NewestFirst(w, H))

(* Mutants: by the size asked for, and with the offset left out.            *)
OnwardByLimit(w, page, total) ==
  IF w.offset + Len(page) < total THEN w.offset + w.limit ELSE None
OnwardFromHere(w, page, total) ==
  IF Len(page) < total THEN w.offset + Len(page) ELSE None
Onward(w, page, total) ==
  IF w.offset + Len(page) < total THEN w.offset + Len(page) ELSE None

CountedPage(w, hits) ==
  LET page  == Upto(hits, w.limit)
      known == \A f \in DOMAIN parts : parts[f].total # None
      total == Cardinality(UNION {{f} \X (1..parts[f].total) : f \in DOMAIN parts})
  IN [page |-> page, sure |-> known,
      next |-> IF known THEN Onward(w, page, total) ELSE None]

SearchQuick(w)    == CountedPage(w, Hits(w))
SearchAdvanced(w) ==
  CountedPage(w, IF Len(w.scope) > 1 THEN Sorted(w, Given(w, Budget(w))) ELSE Hits(w))
SearchFullText(w) ==
  CountedPage(w, Sorted(w, {h \in Given(w, Budget(w)) : w.mode = "exact" => Item(w, h) \notin Loose}))
SearchMirror(w)   == CountedPage(w, Hits(w))

(* read_emails has no paging: it is whole when it is short. *)
ReadEmails(w) == [page |-> Hits(w), sure |-> Len(Hits(w)) < w.limit, next |-> None]

(* paginate *)
Paginate(w) ==
  [page |-> Upto(Hits(w), w.limit), sure |-> TRUE,
   next |-> IF Len(Hits(w)) > w.limit THEN w.offset + w.limit ELSE None]

(* paginate of each folder hides its lookahead item. *)
SearchAllFolders(w) ==
  LET wanted == w.offset + w.limit
      hits   == Sorted(w, Given(w, wanted))
      more   == \E f \in DOMAIN parts : Len(parts[f].items) > wanted
  IN [page |-> SubSeq(hits, w.offset + 1, Least(wanted, Len(hits))), sure |-> Failed = {},
      next |-> IF more \/ Len(hits) > wanted THEN wanted ELSE None]

(* The code lists the oldest first and cuts the window [lo:hi] from its end. *)
GetThread(w) ==
  LET found == Listing(UNION {Range(parts[f].items) : f \in DOMAIN parts})
      hi    == Most(0, Len(found) - w.offset)
      lo    == Most(0, hi - w.limit)
      page  == SubSeq(found, Len(found) - hi + 1, Len(found) - lo)
  IN [page |-> page, sure |-> TRUE,
      next |-> IF lo > 0 THEN w.offset + Len(page) ELSE None]

SearchMessages(w) ==
  CASE w.mode = "cached" -> SearchMirror(w)
    [] w.mode = "all"    -> SearchAllFolders(w)
    [] w.mode = "folder" -> Paginate(w)

Answer(w) ==
  CASE w.mode = "quick"                  -> SearchQuick(w)
    [] w.mode = "advanced"               -> SearchAdvanced(w)
    [] w.mode \in {"full_text", "exact"} -> SearchFullText(w)
    [] w.mode = "read"                   -> ReadEmails(w)
    [] w.mode = "thread"                 -> GetThread(w)
    [] OTHER                             -> SearchMessages(w)

(* A whole-mailbox search in which every folder fails raises: asked again. *)
Reply ==
  /\ walk.state = "busy"
  /\ Answered
  /\ \E a \in {Answer(walk)} :
     walk' = IF walk.mode = "all" /\ Failed = DOMAIN parts
             THEN [walk EXCEPT !.state = "ask"]
             ELSE [walk EXCEPT !.seen = @ \o a.page, !.sure = @ /\ a.sure,
                               !.offset = a.next,
                               !.state = IF a.next = None THEN "over" ELSE "ask"]
  /\ parts' = <<>>
  /\ UNCHANGED <<box, newest, changes, failures>>

-----------------------------------------------------------------------------
(* Meanwhile, in the mailbox. *)

Walking == walk.state \in {"ask", "busy"} /\ changes < MaxChanges

(* slack: what may hide a message from a walk by offsets.  A removal shifts *)
(* the later ones up, and an arrival between a count and its rows makes the *)
(* count one too small.                                                     *)
CountIsOut == walk.state = "busy" /\ CountsFirst(walk.mode)

Arrive(f) ==
  /\ Walking
  /\ newest < MaxMsg
  /\ newest' = newest + 1
  /\ box' = [box EXCEPT ![f] = @ \cup {newest'}]
  /\ changes' = changes + 1
  /\ walk' = [walk EXCEPT !.changed = TRUE, !.slack = IF CountIsOut THEN @ + 1 ELSE @]
  /\ UNCHANGED <<parts, failures>>

Go(f, m) ==
  /\ Walking
  /\ m \in box[f]
  /\ \E g \in Range(walk.scope) :      \* g = f: deleted, or no match any more
       box' = [box EXCEPT ![f] = @ \ {m}, ![g] = IF g = f THEN @ \ {m} ELSE @ \cup {m}]
  /\ changes' = changes + 1
  /\ walk' = [walk EXCEPT !.changed = TRUE, !.slack = @ + 1, !.stayed = @ \ {m}]
  /\ UNCHANGED <<newest, parts, failures>>

-----------------------------------------------------------------------------
Wanted(mode, scope, b) ==
  {m \in UNION {b[f] : f \in Range(scope)} : mode = "exact" => m \notin Loose}

Init ==
  /\ newest = Start
  /\ \E w \in Walks, limit \in Limits, at \in [1..Start -> Folders] :
       LET mode == w[1]  scope == w[2] IN
       /\ Range(at) \subseteq Range(scope)
       /\ box = [f \in Folders |-> {m \in 1..Start : at[m] = f}]
       /\ walk = [state |-> "ask", mode |-> mode, scope |-> scope, limit |-> limit,
                  offset |-> 0, seen |-> <<>>, sure |-> TRUE, changed |-> FALSE,
                  slack |-> 0, stayed |-> Wanted(mode, scope, box)]
  /\ parts = <<>>
  /\ changes = 0 /\ failures = 0

Serve == Ask \/ Reply \/ \E f \in DOMAIN parts : CountMatches(f) \/ Slice(f) \/ SliceFails(f)

Next ==
  \/ Serve
  \/ \E f \in Range(walk.scope) : Arrive(f) \/ \E m \in Msgs : Go(f, m)

(* Every call to Exchange returns or fails, and the client goes on while    *)
(* there is a next_offset.                                                  *)
Spec == Init /\ [][Next]_vars /\ WF_vars(Serve)

-----------------------------------------------------------------------------
TypeOK ==
  /\ box \in [Folders -> SUBSET Msgs]
  /\ \A f, g \in Folders : f # g => box[f] \cap box[g] = {}
  /\ newest \in Start..MaxMsg
  /\ walk.state \in {"ask", "busy", "over"}
  /\ walk.offset \in 0..2 * MaxMsg \cup {None}
  /\ Range(walk.seen) \subseteq 1..newest
  /\ walk.state # "busy" => parts = <<>>

Missed == walk.stayed \ Range(walk.seen)
OneFolderOrV5 == walk.mode \in V4 => Len(walk.scope) = 1

(* A client that follows next_offset to the end, and was told of no gap,    *)
(* has seen every message that was there all the time, except for at most   *)
(* one per message that went or moved meanwhile (and, where a count comes   *)
(* before the rows, per message that arrived between the two): with chunks, *)
(* failures and folders read one by one, nothing else is skipped.  For a v4 *)
(* search this is of one folder.                                            *)
MissesNeedChanges ==
  walk.state = "over" /\ walk.sure /\ OneFolderOrV5 => Cardinality(Missed) <= walk.slack

(* The walk comes to an end: no page sends the client back to where it is   *)
(* for ever, whatever fails or changes (finitely often) on the way.  With   *)
(* exact_phrase it may not end: the total counts what the phrase drops.     *)
WalkEnds == walk.mode # "exact" => <>(walk.state = "over")
=============================================================================
