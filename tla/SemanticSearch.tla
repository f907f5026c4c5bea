--------------------------- MODULE SemanticSearch ---------------------------
(***************************************************************************)
(* What the v4 server caches, and how it uses it: semantic_search_emails   *)
(* (src/tools/ai_tools.py) with its EmbeddingService (src/ai/), the warmup *)
(* that runs when the server starts (src/main.py), and the Markdown bodies *)
(* of get_email_details (src/tools/email_tools.py).                        *)
(*                                                                         *)
(* A search awaits the provider up to twice, for its query and for the     *)
(* texts it has no vector of; the warmup awaits it once a batch.  Between  *)
(* two awaits everything is one step of the event loop.  Other clients     *)
(* change the mailbox meanwhile, and the server may be started again, with *)
(* another model.  The warmup keeps its vectors in embeddings.json, the    *)
(* searches keep theirs in the cache file; opening that file, once in a    *)
(* process and by whichever tool comes first, copies the first into it.    *)
(***************************************************************************)
EXTENDS SqliteCache, Ranking, SequencesExt

CONSTANTS Folders,       (* in the order of EMBEDDING_WARMUP_FOLDERS        *)
          FolderOf,      (* Items -> Folders                                *)
          Automated,     (* items that exclude_automated leaves out         *)
          Queries, Limits, Threshold,
          Cosine(_, _),  (* of two vectors                                  *)
          EmbedCap,      (* _PER_CALL_EMBED_CAP = 50; three times as many are read *)
          BatchSize,     (* EMBEDDING_WARMUP_BATCH_SIZE                     *)
          Mailboxes,     (* what the mailbox may hold at first               *)
          Workers, MaxCalls, MaxChanges, MaxRestarts, MaxFailures   (* bounds *)

VARIABLES mail,      (* Exchange: the text of each message                  *)
          json,      (* embeddings.json                                     *)
          model,     (* AI_EMBEDDING_MODEL of this process                  *)
          opened,    (* EWSClient._sqlite_cache is set                      *)
          call,      (* the searches under way                              *)
          warm,      (* the warmup of this process                          *)
          answer,    (* what the last step answered, if it answered         *)
          calls, changes, restarts, failures,
          versions,  (* history: the texts a message has had                *)
          imported,  (* history: texts copied from the file by this process *)
          paid,      (* history: texts searches of this process had embedded *)
          saved,     (* history: texts whose vectors were ever in the file  *)
          foreign    (* history: vectors of another model were copied       *)

(* What the proofs assume of the constants                                  *)
ConstantsOK ==
  /\ None \notin Texts /\ None \notin Vector
  /\ Items \subseteq Nat /\ IsFiniteSet(Items)
  /\ Mailboxes \subseteq [Items -> Texts \union {None}]
  /\ Queries \subseteq Texts /\ Limits \subseteq Nat /\ EmbedCap \in Nat
  /\ Threshold \in Int /\ \A v, w \in Vector : Cosine(v, w) \in Int

counts == <<calls, changes, restarts, failures>>
history == <<versions, imported, paid, saved, foreign>>
vars == <<rows, bodies, mail, json, model, opened, call, warm, answer, counts, history>>

Free == [pc |-> "free"]
Booting == [pc |-> "collecting", attempt |-> 0]
Warmed == [pc |-> "done"]
Retries == 3     (* attempts = [5, 15, 45] *)

Init ==
  /\ CacheInit
  /\ mail \in Mailboxes
  /\ json = NoVectors
  /\ model \in Models
  /\ opened = FALSE
  /\ call = [c \in Workers |-> Free]
  /\ warm = Booting
  /\ answer = None
  /\ calls = 0 /\ changes = 0 /\ restarts = 0 /\ failures = 0
  /\ versions = [i \in Items |-> {mail[i]} \ {None}]
  /\ imported = {} /\ paid = {} /\ saved = {} /\ foreign = FALSE

Known(vectors) == {t \in Texts : vectors[t] # None}
Vec(t) == [of |-> t, by |-> model]

Fails == failures < MaxFailures /\ failures' = failures + 1
Works == failures' = failures

First(n, list) == SubSeq(list, 1, IF Len(list) < n THEN Len(list) ELSE n)
(* folder.all().order_by("-datetime_received")[:n]                          *)
Newest(f, n) ==
  LET there == {i \in Items : FolderOf[i] = f /\ mail[i] # None}
  IN First(n, Ranked(there, {p \in there \X there : p[1] > p[2]}))

-----------------------------------------------------------------------------
(* EWSClient.sqlite_cache: the attribute is set before the file is copied,  *)
(* so that a copy that fails is not tried again.                            *)
OpenCache ==
  IF opened THEN Works /\ UNCHANGED <<opened, rows, imported, foreign>>
  ELSE
    /\ opened' = TRUE
    /\ \/ /\ Works
          /\ rows' = import_legacy_embeddings_json(json, model)
          /\ imported' = Known(json)
          /\ foreign' = (foreign \/ \E t \in Known(json) : json[t].by # model)
       \/ Fails /\ UNCHANGED <<rows, imported, foreign>>

-----------------------------------------------------------------------------
(* EmbeddingService.  own is its dict, which a search starts empty.         *)

(* embed_batch's first two passes: its dict, then the cache file.           *)
Lookup(texts, own, table) ==
  [t \in Texts |-> IF own[t] = None /\ t \in texts THEN get_embedding(table, t, model) ELSE own[t]]
TextsOf(docs) == {docs[i].text : i \in DOMAIN docs}
Missing(s) == InTurn({i \in DOMAIN s.docs : s.own[s.docs[i].text] = None})

(* Mutant: as they were found                                               *)
AsFound(pairs) == [i \in DOMAIN pairs |-> pairs[i].vec]
(* embeddings.sort(key=lambda x: x[0])                                      *)
InOrder(pairs) ==
  LET sorted == Ranked(DOMAIN pairs, {p \in (DOMAIN pairs) \X (DOMAIN pairs) : pairs[p[1]].at < pairs[p[2]].at})
  IN [i \in DOMAIN sorted |-> pairs[sorted[i]].vec]

(* The vectors of the documents: the ones that were found come first, the   *)
(* ones the provider returns after them.                                    *)
embed_batch(s) ==
  LET missing == Missing(s)
      found   == InTurn({i \in DOMAIN s.docs : s.own[s.docs[i].text] # None})
      old     == [k \in DOMAIN found |-> [at |-> found[k], vec |-> s.own[s.docs[found[k]].text]]]
      new     == [k \in DOMAIN missing |-> [at |-> missing[k], vec |-> Vec(s.docs[missing[k]].text)]]
  IN InOrder(old \o new)

(* search_similar, and what the tool makes of it: three times as many hits  *)
(* as are wanted, then one for each message, then the ones wanted.          *)
search_similar(s, vectors) ==
  LET score == [i \in DOMAIN s.docs |-> Cosine(s.own[s.query], vectors[i])]
      hits  == {i \in DOMAIN s.docs : score[i] >= Threshold}
      page  == First(s.limit, Ranked(hits, {p \in hits \X hits :
                 score[p[1]] > score[p[2]] \/ (score[p[1]] = score[p[2]] /\ p[1] < p[2])}))
  IN [k \in DOMAIN page |-> s.docs[page[k]].id]

Answer(c, s, hits) ==
  /\ call' = [call EXCEPT ![c] = Free]
  /\ answer' = [tool |-> "search", query |-> s.query, limit |-> s.limit, box |-> s.box, hits |-> hits]
Await(c, s) ==
  /\ call' = [call EXCEPT ![c] = s]
  /\ answer' = None

(* What a search does when its query has a vector: it waits for the         *)
(* provider, or answers, if all vectors are there.                          *)
Proceed(c, s, table) ==
  LET t == [s EXCEPT !.pc = "batch", !.own = Lookup(TextsOf(s.docs), @, table)]
  IN IF Missing(t) = <<>> THEN Answer(c, t, search_similar(t, embed_batch(t))) ELSE Await(c, t)

-----------------------------------------------------------------------------
(* semantic_search_emails *)

Documents(f) ==
  LET newest == Newest(f, 3 * EmbedCap)
      wanted == First(EmbedCap, InTurn({k \in DOMAIN newest : newest[k] \notin Automated}))
  IN [k \in DOMAIN wanted |-> [id |-> newest[wanted[k]], text |-> mail[newest[wanted[k]]]]]

Search(c) ==
  /\ call[c] = Free
  /\ calls < MaxCalls /\ calls' = calls + 1
  /\ OpenCache
  /\ \E q \in Queries, f \in Folders, limit \in Limits :
       LET s == [pc |-> "query", query |-> q, limit |-> limit, docs |-> Documents(f),
                 box |-> [i \in {x \in Items : FolderOf[x] = f} |-> mail[i]],
                 own |-> [NoVectors EXCEPT ![q] = get_embedding(rows', q, model)]]
       IN IF s.docs = <<>> THEN Answer(c, s, <<>>)
          ELSE IF s.own[q] = None THEN Await(c, s)
          ELSE Proceed(c, s, rows')
  /\ UNCHANGED <<bodies, mail, json, model, warm, changes, restarts, versions, paid, saved>>

Paid(texts) == paid' = paid \union texts

(* put_embedding: a write that fails is logged, and the vector used.        *)
Keep(texts) ==
  \/ Works /\ rows' = put_embeddings([t \in Texts |-> IF t \in texts THEN Vec(t) ELSE None], model)
  \/ Fails /\ rows' = rows

QueryEmbedded(c) ==
  /\ call[c].pc = "query"
  /\ LET q == call[c].query IN
     /\ Keep({q})
     /\ Paid({q})
     /\ Proceed(c, [call[c] EXCEPT !.own[q] = Vec(q)], rows')
  /\ UNCHANGED <<bodies, mail, json, model, opened, warm, calls, changes, restarts, versions, imported, saved,
                 foreign>>

BatchEmbedded(c) ==
  /\ call[c].pc = "batch"
  /\ LET s == call[c]
         texts == {t \in TextsOf(s.docs) : s.own[t] = None}
     IN /\ Keep(texts)
        /\ Paid(texts)
        /\ Answer(c, s, search_similar(s, embed_batch(s)))
  /\ UNCHANGED <<bodies, mail, json, model, opened, warm, calls, changes, restarts, versions, imported, saved,
                 foreign>>

(* EmbeddingError: the answer says so, and nothing is kept.                 *)
ProviderFails(c) ==
  /\ call[c].pc \in {"query", "batch"}
  /\ Fails
  /\ Await(c, Free)
  /\ UNCHANGED <<rows, bodies, mail, json, model, opened, warm, calls, changes, restarts, history>>

-----------------------------------------------------------------------------
(* _run_embedding_warmup *)

Distinct(s) == SelectSeq([i \in DOMAIN s |-> i], LAMBDA i : \A j \in 1..(i - 1) : s[j] # s[i])
(* The texts of the folders that could be read, without repetitions.        *)
Collected(readable) ==
  LET all == FlattenSeq([k \in DOMAIN SetToSeq(readable) |->
               [j \in DOMAIN Newest(SetToSeq(readable)[k], Cardinality(Items)) |->
                  mail[Newest(SetToSeq(readable)[k], Cardinality(Items))[j]]]])
      once == Distinct(all)
  IN [k \in DOMAIN once |-> all[once[k]]]

(* EmbeddingService.__init__ without a cache file: _load_cache.             *)
load_cache == json

(* The folders are read in a thread; a collection that finds nothing is     *)
(* repeated, after a while, if a folder failed in a way that may pass.      *)
Collect ==
  /\ warm.pc = "collecting"
  /\ \E readable \in SUBSET Folders, transient \in BOOLEAN :
       /\ IF readable = Folders THEN Works ELSE Fails
       /\ LET texts == Collected(readable)
              own   == load_cache
              todo  == SelectSeq(texts, LAMBDA t : own[t] = None)
          IN warm' = IF texts # <<>>
                     THEN IF todo = <<>> THEN Warmed
                          ELSE [pc |-> "embedding", todo |-> todo, own |-> own]
                     ELSE IF readable # Folders /\ transient /\ warm.attempt < Retries
                     THEN [pc |-> "collecting", attempt |-> warm.attempt + 1]
                     ELSE Warmed
  /\ answer' = None
  /\ UNCHANGED <<rows, bodies, mail, json, model, opened, call, calls, changes, restarts, history>>

Embedded == [t \in Texts |->
  IF \E k \in 1..BatchSize : k <= Len(warm.todo) /\ warm.todo[k] = t THEN Vec(t) ELSE warm.own[t]]

(* One batch, which may fail as a whole and is left out then.               *)
WarmBatch ==
  /\ warm.pc = "embedding" /\ Len(warm.todo) > BatchSize
  /\ \E own \in {Embedded, warm.own} :
       /\ IF own = Embedded THEN Works ELSE Fails
       /\ warm' = [warm EXCEPT !.todo = SubSeq(@, BatchSize + 1, Len(@)), !.own = own]
  /\ answer' = None
  /\ UNCHANGED <<rows, bodies, mail, json, model, opened, call, calls, changes, restarts, history>>

(* Mutant: written in place, so that a write that fails leaves half a file  *)
NotSavedButTorn == NoVectors
(* _save_cache: the temporary file is removed and the old one stays.        *)
NotSaved == json

(* After the last batch everything is written at once.                      *)
WarmupEnds(file) ==
  /\ warm' = Warmed
  /\ json' = file
  /\ saved' = saved \union Known(file)
LastBatch ==
  /\ warm.pc = "embedding" /\ Len(warm.todo) <= BatchSize
  /\ \/ Works /\ WarmupEnds(Embedded)
     \/ Fails /\ \E file \in {warm.own, NotSaved} : WarmupEnds(file)
  /\ answer' = None
  /\ UNCHANGED <<rows, bodies, mail, model, opened, call, calls, changes, restarts, versions, imported, paid, foreign>>

-----------------------------------------------------------------------------
(* get_email_details: one step, for it awaits nothing.  What is kept is the *)
(* Markdown, before the quoted history is trimmed off.  A body that has no  *)
(* HTML is answered as text, one that cannot be converted too, untrimmed.   *)

Kept(text, trim) == [text |-> text, trimmed |-> FALSE]

GetEmailDetails(i, fmt, trim) ==
  /\ calls < MaxCalls /\ calls' = calls + 1
  /\ mail[i] # None
  /\ OpenCache
  /\ \E actual \in IF fmt = "markdown" /\ get_body(i) = None THEN {"markdown", "text", "text_fallback"}
                 ELSE {fmt} :
       LET kept == IF fmt = "markdown" /\ get_body(i) # None THEN get_body(i)
                   ELSE Kept(mail[i], trim)
       IN /\ bodies' = IF actual = "markdown" THEN put_body(i, kept) ELSE bodies
          /\ answer' = [tool |-> "details", id |-> i, asked |-> fmt, fmt |-> actual, trim |-> trim, now |-> mail[i],
                      text |-> IF actual = "markdown" THEN kept.text ELSE mail[i],
                      trimmed |-> (actual = "markdown" /\ kept.trimmed)
                                   \/ (trim /\ actual \in {"markdown", "text"})]
  /\ UNCHANGED <<mail, json, model, call, warm, changes, restarts, versions, paid, saved>>

-----------------------------------------------------------------------------
(* Other clients: a message arrives, is edited (a draft) or goes.           *)
Change(i, t) ==
  /\ changes < MaxChanges /\ changes' = changes + 1
  /\ mail[i] # t /\ (mail[i] = None => versions[i] = {})
  /\ mail' = [mail EXCEPT ![i] = t]
  /\ versions' = [versions EXCEPT ![i] = @ \union ({t} \ {None})]
  /\ answer' = None
  /\ UNCHANGED <<rows, bodies, json, model, opened, call, warm, calls, restarts, failures,
                 imported, paid, saved, foreign>>

(* The server ends, at any point, and starts again.                         *)
Restart(m) ==
  /\ restarts < MaxRestarts /\ restarts' = restarts + 1
  /\ model' = m
  /\ opened' = FALSE
  /\ call' = [c \in Workers |-> Free]
  /\ warm' = Booting
  /\ answer' = None
  /\ imported' = {} /\ paid' = {}
  /\ UNCHANGED <<rows, bodies, mail, json, calls, changes, failures, versions, saved, foreign>>

Next ==
  \/ \E c \in Workers : Search(c) \/ QueryEmbedded(c) \/ BatchEmbedded(c) \/ ProviderFails(c)
  \/ Collect \/ WarmBatch \/ LastBatch
  \/ \E i \in Items, fmt \in {"html", "text", "markdown"}, trim \in BOOLEAN :
       GetEmailDetails(i, fmt, trim)
  \/ \E i \in Items, t \in (Texts \ Queries) \union {None} : Change(i, t)
  \/ \E m \in Models : Restart(m)

Spec == Init /\ [][Next]_vars

-----------------------------------------------------------------------------
(* Properties *)

(* What a search without any cache answers: of the newest messages of the  *)
(* folder, three times as many as EmbedCap, the automated ones are left     *)
(* out, and of the first EmbedCap that remain come the limit best ones that *)
(* reach the threshold, best first and newest first among equals.           *)
NewestOf(S, n) == {i \in S : Cardinality({j \in S : j > i}) < n}
Best(box, q, limit) ==
  LET read   == NewestOf({i \in DOMAIN box : box[i] # None}, 3 * EmbedCap) \ Automated
      Score(i) == Cosine(Vec(q), Vec(box[i]))
      hits   == {i \in NewestOf(read, EmbedCap) : Score(i) >= Threshold}
      Rank(i) == Cardinality({j \in hits : Score(j) > Score(i) \/ (Score(j) = Score(i) /\ j > i)})
  IN [k \in 1..(IF Cardinality(hits) < limit THEN Cardinality(hits) ELSE limit) |->
        CHOOSE i \in hits : Rank(i) = k - 1]

(* The caches change what a call costs and not what it answers: whichever   *)
(* vectors come from the dict, the file and the provider, whatever other    *)
(* searches and the warmup do between its awaits, and after any restart.    *)
(* The one exception is a file whose vectors another model computed.  A     *)
(* body is the one the message has, or, in Markdown, one it had, trimmed if *)
(* this call asked for that, and not because an earlier one did.            *)
AsUncached ==
  answer # None =>
    /\ answer.tool = "search" /\ ~foreign =>
         answer.hits = Best(answer.box, answer.query, answer.limit)
    /\ answer.tool = "details" =>
         /\ answer.text \in versions[answer.id]
         /\ answer.fmt # "markdown" => answer.text = answer.now
         /\ answer.trimmed = (answer.trim /\ answer.fmt \in {"markdown", "text"})

(* Nothing that was paid for is lost: the vectors of embeddings.json        *)
(* outlive failed writes, failed batches and restarts in the middle of a    *)
(* warmup (_save_cache: "a crash mid-write cannot corrupt the cache"), and  *)
(* what was in the file when a process opened its cache is never embedded   *)
(* again by a search of that process.                                       *)
VectorsKept == saved \subseteq Known(json) /\ imported \intersect paid = {}
=============================================================================
