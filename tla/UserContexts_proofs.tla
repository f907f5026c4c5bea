------------------------- MODULE UserContexts_proofs -------------------------
(***************************************************************************)
(* What the cache of contexts guarantees for any number of users, of their *)
(* passwords and of requests at once, and any size of cache and pool: that *)
(* a call is served as the one who made it, that contexts in no cache are  *)
(* closed, that nobody waits for a closed one, and that an update with the *)
(* fields of a listed row changes nothing.                                 *)
(*                                                                         *)
(* The invariant says of a call that it holds a context of its own user    *)
(* and password, however often the cache has let go of that context since; *)
(* of a session, that its password was one of the user; and of the cache,  *)
(* that what it holds and what is open are the same.  A step of a call     *)
(* changes the call and its context (CallMoves, CallGoesOn).  A request    *)
(* that arrives may close contexts others hold: GetAnswers says what the   *)
(* cache answers, ContextsGrow what becomes of the contexts.               *)
(*                                                                         *)
(* Which rule an alias names has an invariant of its own, AInv: what the   *)
(* maps of an aliaser hold its user has been told, and each context gives  *)
(* only numbers of its own block.  An answer names one row after the other *)
(* (RowOK, by induction over the rows).                                    *)
(***************************************************************************)
EXTENDS UserContexts, SequenceTheorems, FiniteSetTheorems, WellFoundedInduction, TLAPS

(* What is left of a sequence without its first n elements                  *)
LEMMA Suffix ==
  ASSUME NEW S, NEW es \in Seq(S), NEW n \in 0..Len(es)
  PROVE  /\ SubSeq(es, n + 1, Len(es)) \in Seq(S)
         /\ Len(SubSeq(es, n + 1, Len(es))) = Len(es) - n
         /\ \A i \in 1..Len(es) - n : SubSeq(es, n + 1, Len(es))[i] = es[n + i]
OBVIOUS

(* What is left of a sequence without its k-th element                      *)
LEMMA RemovedAt ==
  ASSUME NEW S, NEW es \in Seq(S), NEW k \in 1..Len(es)
  PROVE  /\ RemoveAt(es, k) \in Seq(S)
         /\ Len(RemoveAt(es, k)) = Len(es) - 1
         /\ \A i \in 1..Len(es) - 1 : RemoveAt(es, k)[i] = IF i < k THEN es[i] ELSE es[i + 1]
<1> DEFINE front == SubSeq(es, 1, k - 1)
           back == SubSeq(es, k + 1, Len(es))
<1>1. PICK n \in Nat : n = Len(es) /\ k \in 1..n
  OBVIOUS
<1>2. /\ front \in Seq(S) /\ Len(front) = k - 1
      /\ \A i \in 1..k - 1 : front[i] = es[i]
  OBVIOUS
<1>3. /\ back \in Seq(S) /\ Len(back) = n - k
      /\ \A i \in 1..n - k : back[i] = es[k + i]
  BY <1>1, Suffix
<1> HIDE DEF front, back
<1>4. /\ front \o back \in Seq(S) /\ Len(front \o back) = Len(front) + Len(back)
      /\ \A i \in 1 .. Len(front) + Len(back) : (front \o back)[i] =
           IF i <= Len(front) THEN front[i] ELSE back[i - Len(front)]
  BY <1>2, <1>3, ConcatProperties
<1>5. Len(front \o back) = n - 1
  BY <1>1, <1>2, <1>3, <1>4
<1>6. ASSUME NEW i \in 1..n - 1
      PROVE  (front \o back)[i] = IF i < k THEN es[i] ELSE es[i + 1]
  <2>1. CASE i < k
    <3>1. i \in 1..k - 1 /\ i <= Len(front) /\ i \in 1 .. Len(front) + Len(back)
      BY <1>1, <1>2, <1>3, <2>1
    <3> QED BY <1>2, <1>4, <2>1, <3>1
  <2>2. CASE ~(i < k)
    <3>1. /\ ~(i <= Len(front)) /\ i \in 1 .. Len(front) + Len(back)
          /\ i - Len(front) \in 1..n - k /\ k + (i - Len(front)) = i + 1
      BY <1>1, <1>2, <1>3, <2>2
    <3> QED BY <1>3, <1>4, <2>2, <3>1
  <2> QED BY <2>1, <2>2
<1> QED BY <1>1, <1>4, <1>5, <1>6 DEF RemoveAt, front, back

(* A function on 1..n is a sequence                                         *)
LEMMA FunctionIsSeq == ASSUME NEW S, NEW n \in Nat, NEW f \in [1..n -> S] PROVE f \in Seq(S)
BY SeqDef

-----------------------------------------------------------------------------
(* The invariant                                                            *)

Acts == {"body", "queued", "runs", "finds", "answers"}

(* The record of a call and of a context, by its fields                     *)
AsCall(j) ==
  [pc |-> j.pc, user |-> j.user, secret |-> j.secret, ctx |-> j.ctx, tool |-> j.tool,
   target |-> j.target, req |-> j.req, rows |-> j.rows, no |-> j.no]

AsContext(k) ==
  [user |-> k.user, secret |-> k.secret, open |-> k.open, session |-> k.session,
   queue |-> k.queue, aliaser |-> k.aliaser]

IsContext(k) ==
  /\ k = AsContext(k)
  /\ k.user \in Users /\ k.open \in BOOLEAN /\ k.session \in BOOLEAN /\ k.queue \in Seq(Calls)

IsCall(j) == j = AsCall(j) /\ j.pc \in Acts /\ j.user \in Users /\ IsRequest(j.req)

(* The shapes of the state                                                  *)
Shapes ==
  /\ calls = [c \in Calls |-> calls[c]]
  /\ \A c \in Calls : calls[c] = Idle \/ IsCall(calls[c])
  /\ contexts \in Seq(Range(contexts))
  /\ \A x \in DOMAIN contexts : IsContext(contexts[x])
  /\ entries \in Seq(DOMAIN contexts)
  /\ password = [u \in Users |-> password[u]] /\ valid = [u \in Users |-> valid[u]]
  /\ rules = [u \in Users |-> rules[u]] /\ \A u \in Users : \A r \in rules[u] : IsRule(r)

(* A call holds the context of its user and password, and has its results   *)
(* from a session that has been accepted                                    *)
Fits(j) ==
  /\ j.ctx \in DOMAIN contexts
  /\ contexts[j.ctx].user = j.user /\ contexts[j.ctx].secret = j.secret
  /\ j.pc \in {"finds", "answers"} => contexts[j.ctx].session

(* A call that waits has an open pool to wait for                           *)
Waits(c, j) ==
  j.pc = "queued" => contexts[j.ctx].open /\ c \in Range(contexts[j.ctx].queue)

CallOK(c) == calls[c] # Idle => Fits(calls[c]) /\ Waits(c, calls[c])

(* What logged in had a password of its user                                *)
LoggedIn ==
  /\ \A u \in Users : password[u] \in valid[u]
  /\ \A x \in DOMAIN contexts :
       contexts[x].session => contexts[x].secret \in valid[contexts[x].user]

(* No user has two of the contexts                                          *)
OncePerUser(es) ==
  \A i, j \in DOMAIN es : contexts[es[i]].user = contexts[es[j]].user => i = j

IInv ==
  /\ Shapes /\ LoggedIn
  /\ \A c \in Calls : CallOK(c)
  /\ Open = Range(entries) /\ Len(entries) <= MaxCachedUsers /\ OncePerUser(entries)

-----------------------------------------------------------------------------
(* Steps that change one call and at most one context                       *)

CallIs(c, j) == calls' = [calls EXCEPT ![c] = j]
ContextIs(x, k) == contexts' = [contexts EXCEPT ![x] = k]

(* What a step may do to the context of a call                              *)
Kept(x, k) ==
  /\ IsContext(k)
  /\ k.user = contexts[x].user /\ k.secret = contexts[x].secret /\ k.open = contexts[x].open
  /\ contexts[x].session => k.session
  /\ k.session => k.secret \in valid[k.user]

(* A step that changes one context keeps what is said of the cache          *)
LEMMA ContextKept ==
  ASSUME IInv, NEW x \in DOMAIN contexts, NEW k, Kept(x, k),
         ContextIs(x, k), entries' = entries,
         valid' = valid, password' = password
  PROVE  /\ DOMAIN contexts' = DOMAIN contexts /\ contexts'[x] = k
         /\ \A y \in DOMAIN contexts \ {x} : contexts'[y] = contexts[y]
         /\ contexts' \in Seq(Range(contexts'))
         /\ entries' \in Seq(DOMAIN contexts')
         /\ \A y \in DOMAIN contexts' : IsContext(contexts'[y])
         /\ LoggedIn' /\ Open' = Range(entries') /\ OncePerUser(entries)'
<1>1. contexts \in Seq(Range(contexts)) /\ entries \in Seq(DOMAIN contexts)
  BY DEF IInv, Shapes
<1>2. PICK n \in Nat : n = Len(contexts) /\ DOMAIN contexts = 1..n
  BY <1>1
<1>3. /\ DOMAIN contexts' = DOMAIN contexts /\ contexts'[x] = k
      /\ \A y \in DOMAIN contexts \ {x} : contexts'[y] = contexts[y]
  BY <1>1 DEF ContextIs
<1>4. contexts' \in [1..n -> Range(contexts')]
  BY <1>1, <1>2, <1>3 DEF Range, ContextIs
<1>5. contexts' \in Seq(Range(contexts'))
  BY <1>4, FunctionIsSeq
<1>6. \A y \in DOMAIN contexts' :
        /\ IsContext(contexts'[y])
        /\ contexts'[y].user = contexts[y].user /\ contexts'[y].secret = contexts[y].secret
        /\ contexts'[y].open = contexts[y].open
        /\ contexts'[y].session => contexts'[y].secret \in valid[contexts'[y].user]
  BY <1>3 DEF IInv, Shapes, LoggedIn, Kept
<1>7. LoggedIn'
  BY <1>6 DEF IInv, LoggedIn
<1>8. Open' = Open
  BY <1>3, <1>6 DEF Open
<1>9. OncePerUser(entries)'
  <2>1. \A i \in DOMAIN entries : entries[i] \in DOMAIN contexts
    BY <1>1
  <2> QED BY <1>3, <1>6, <2>1 DEF IInv, OncePerUser
<1> QED BY <1>1, <1>3, <1>5, <1>6, <1>7, <1>8, <1>9 DEF IInv

(* The step of one call: the calls that wait for the same context stay in   *)
(* its queue                                                                *)
LEMMA CallMoves ==
  ASSUME IInv, NEW c \in Calls, NEW x \in DOMAIN contexts, NEW k, Kept(x, k),
         ContextIs(x, k),
         \A d \in Calls \ {c} : d \in Range(contexts[x].queue) => d \in Range(k.queue),
         NEW j, CallIs(c, j),
         j = Idle \/ (IsCall(j) /\ Fits(j)' /\ Waits(c, j)'),
         UNCHANGED <<entries, password, valid>>,
         rules' = [u \in Users |-> rules'[u]],
         \A u \in Users : \A r \in rules'[u] : IsRule(r)
  PROVE  IInv'
<1>1. /\ DOMAIN contexts' = DOMAIN contexts /\ contexts'[x] = k
      /\ \A y \in DOMAIN contexts \ {x} : contexts'[y] = contexts[y]
      /\ contexts' \in Seq(Range(contexts')) /\ entries' \in Seq(DOMAIN contexts')
      /\ \A y \in DOMAIN contexts' : IsContext(contexts'[y])
      /\ LoggedIn' /\ Open' = Range(entries') /\ OncePerUser(entries)'
  BY ContextKept
<1>2. /\ calls' = [d \in Calls |-> calls'[d]] /\ calls'[c] = j
      /\ \A d \in Calls \ {c} : calls'[d] = calls[d]
  BY DEF IInv, Shapes, CallIs
<1>3. \A d \in Calls : calls'[d] = Idle \/ IsCall(calls'[d])
  BY <1>2 DEF IInv, Shapes
<1>4. Shapes'
  BY <1>1, <1>2, <1>3 DEF IInv, Shapes
<1>5. ASSUME NEW d \in Calls PROVE CallOK(d)'
  <2>1. CASE d = c
    BY <1>2, <2>1 DEF CallOK
  <2>2. CASE d # c
    <3>1. calls'[d] = calls[d] /\ CallOK(d)
      BY <1>2, <2>2 DEF IInv
    <3>2. CASE calls[d] # Idle /\ calls[d].ctx = x
      BY <1>1, <2>2, <3>1, <3>2 DEF CallOK, Fits, Waits, Kept
    <3>3. CASE calls[d] # Idle /\ calls[d].ctx # x
      BY <1>1, <3>1, <3>3 DEF CallOK, Fits, Waits
    <3> QED BY <3>1, <3>2, <3>3 DEF CallOK
  <2> QED BY <2>1, <2>2
<1> QED BY <1>1, <1>4, <1>5 DEF IInv

(* and of a call that leaves its context alone                              *)
LEMMA CallAlone ==
  ASSUME IInv, NEW c \in Calls, NEW j, CallIs(c, j),
         j = Idle \/ (IsCall(j) /\ Fits(j) /\ Waits(c, j)),
         UNCHANGED <<entries, contexts, exchange>>
  PROVE  IInv'
<1>1. /\ calls' = [d \in Calls |-> calls'[d]] /\ calls'[c] = j
      /\ \A d \in Calls \ {c} : calls'[d] = calls[d]
  BY DEF IInv, Shapes, CallIs
<1>2. UNCHANGED <<rules, password, valid>>
  BY DEF exchange
<1>3. Shapes' /\ LoggedIn'
  BY <1>1, <1>2 DEF IInv, Shapes, LoggedIn
<1>4. ASSUME NEW d \in Calls PROVE CallOK(d)'
  <2>1. CASE d = c
    BY <1>1, <2>1 DEF CallOK, Fits, Waits
  <2>2. CASE d # c
    BY <1>1, <2>2 DEF IInv, CallOK, Fits, Waits
  <2> QED BY <2>1, <2>2
<1>5. Open' = Range(entries') /\ Len(entries') <= MaxCachedUsers /\ OncePerUser(entries)'
  BY DEF IInv, Open, OncePerUser
<1> QED BY <1>3, <1>4, <1>5 DEF IInv

-----------------------------------------------------------------------------
(* The steps of a call                                                      *)

(* What is known of a request that is being served                          *)
LEMMA Served ==
  ASSUME IInv, NEW c \in Calls, calls[c].pc # "idle"
  PROVE  /\ IsCall(calls[c]) /\ Fits(calls[c]) /\ Waits(c, calls[c])
         /\ calls[c].ctx \in DOMAIN contexts /\ IsContext(contexts[calls[c].ctx])
<1>1. calls[c] # Idle
  BY DEF Idle
<1> QED BY <1>1 DEF IInv, Shapes, CallOK, Fits

(* A request that is given up, refused or fails holds nothing               *)
LEMMA EndsKeep ==
  ASSUME IInv, NEW c \in Calls, GivesUp(c) \/ Preview(c) \/ Refuse(c) \/ Fail(c)
  PROVE  IInv'
<1> PICK j : j = Idle
  OBVIOUS
<1>1. CallIs(c, j) /\ UNCHANGED <<entries, contexts, exchange>>
  BY DEF GivesUp, Preview, Refuse, Fail, Ended, CallIs
<1> QED BY <1>1, CallAlone

(* The look for a new rule ends the call that created it                    *)
LEMMA FindKeeps ==
  ASSUME IInv, NEW c \in Calls, FindRule(c)
  PROVE  IInv'
<1>1. calls[c].pc = "finds" /\ UNCHANGED <<entries, contexts, exchange>>
  BY DEF FindRule
<1>2. PICK rows : calls' = [calls EXCEPT ![c] = [calls[c] EXCEPT !.pc = "answers", !.rows = rows]]
  BY DEF FindRule, Answers
<1>3. PICK j : j = [calls[c] EXCEPT !.pc = "answers", !.rows = rows]
  OBVIOUS
<1>4. IsCall(calls[c]) /\ Fits(calls[c])
  BY <1>1, Served
<1>5. /\ IsCall(j) /\ j.pc = "answers" /\ j.user = calls[c].user
      /\ j.secret = calls[c].secret /\ j.ctx = calls[c].ctx
  BY <1>3, <1>4 DEF IsCall, AsCall, Acts
<1>6. Fits(j) /\ Waits(c, j)
  BY <1>1, <1>4, <1>5 DEF Fits, Waits
<1>7. CallIs(c, j)
  BY <1>2, <1>3 DEF CallIs
<1> QED BY <1>1, <1>5, <1>6, <1>7, CallAlone

(* A call that goes on with the context it has                              *)
LEMMA CallGoesOn ==
  ASSUME IInv, NEW c \in Calls, calls[c].pc # "idle",
         NEW x, x = calls[c].ctx, NEW k, Kept(x, k), ContextIs(x, k),
         \A d \in Calls \ {c} : d \in Range(contexts[x].queue) => d \in Range(k.queue),
         NEW j, CallIs(c, j),
         IsCall(j), j.user = calls[c].user, j.secret = calls[c].secret, j.ctx = x,
         j.pc \in {"finds", "answers"} => k.session,
         j.pc = "queued" => k.open /\ c \in Range(k.queue),
         UNCHANGED <<entries, password, valid>>,
         rules' = [u \in Users |-> rules'[u]],
         \A u \in Users : \A r \in rules'[u] : IsRule(r)
  PROVE  IInv'
<1>1. Fits(calls[c]) /\ x \in DOMAIN contexts
  BY Served
<1>2. contexts'[x] = k /\ DOMAIN contexts' = DOMAIN contexts
  BY <1>1 DEF ContextIs
<1>3. Fits(j)' /\ Waits(c, j)'
  BY <1>1, <1>2 DEF Fits, Waits, Kept
<1> QED BY <1>1, <1>3, CallMoves

(* A call joins the queue of an open pool                                   *)
LEMMA SubmitKeeps ==
  ASSUME IInv, NEW c \in Calls, Submit(c)
  PROVE  IInv'
<1>1. /\ calls[c].pc = "body" /\ calls[c].pc # "idle"
      /\ UNCHANGED <<entries, rules, password, valid>>
  BY DEF Submit, exchange
<1>2. PICK x, q, k, j :
        /\ x = calls[c].ctx /\ q = Append(contexts[x].queue, c)
        /\ k = [contexts[x] EXCEPT !.queue = q]
        /\ j = [calls[c] EXCEPT !.pc = "queued", !.rows = <<resolve(aliaser(c), calls[c].target)>>]
  OBVIOUS
<1>3. IsCall(calls[c]) /\ x \in DOMAIN contexts /\ IsContext(contexts[x])
  BY <1>1, <1>2, Served
<1>4. contexts[x].open /\ ContextIs(x, k) /\ CallIs(c, j)
  BY <1>2 DEF Submit, CallIs, ContextIs
<1>5. /\ IsCall(j) /\ j.pc = "queued" /\ j.user = calls[c].user
      /\ j.secret = calls[c].secret /\ j.ctx = x
  BY <1>2, <1>3 DEF IsCall, AsCall, Acts
<1>6. q \in Seq(Calls) /\ c \in Range(q) /\ Range(contexts[x].queue) \subseteq Range(q)
  <2>1. PICK p \in Seq(Calls) : p = contexts[x].queue
    BY <1>3 DEF IsContext
  <2>2. /\ q \in Seq(Calls) /\ Len(q) = Len(p) + 1 /\ q[Len(p) + 1] = c
        /\ \A i \in 1..Len(p) : q[i] = p[i]
    BY <1>2, <2>1
  <2>3. DOMAIN p = 1..Len(p) /\ DOMAIN q = 1..Len(p) + 1 /\ Len(p) \in Nat
    BY <2>1, <2>2
  <2>4. c \in Range(q)
    BY <2>2, <2>3 DEF Range
  <2>5. \A i \in DOMAIN p : i \in DOMAIN q /\ q[i] = p[i]
    BY <2>2, <2>3
  <2> QED BY <2>1, <2>2, <2>4, <2>5 DEF Range
<1>7. /\ IsContext(k) /\ k.queue = q /\ k.session = contexts[x].session
      /\ k.user = contexts[x].user /\ k.secret = contexts[x].secret /\ k.open = contexts[x].open
  BY <1>2, <1>3, <1>6 DEF IsContext, AsContext
<1>8. Kept(x, k)
  BY <1>3, <1>7 DEF Kept, IInv, LoggedIn
<1>9. rules' = [u \in Users |-> rules'[u]] /\ \A u \in Users : \A r \in rules'[u] : IsRule(r)
  BY <1>1 DEF IInv, Shapes
<1> QED BY <1>1, <1>2, <1>4, <1>5, <1>6, <1>7, <1>8, <1>9, CallGoesOn

(* A thread takes the first call of its queue                               *)
LEMMA BeginKeeps ==
  ASSUME IInv, NEW c \in Calls, Begin(c)
  PROVE  IInv'
<1>1. /\ calls[c].pc = "queued" /\ calls[c].pc # "idle"
      /\ UNCHANGED <<entries, rules, password, valid>>
  BY DEF Begin, exchange
<1>2. PICK x, q, k, j :
        /\ x = calls[c].ctx /\ q = Tail(contexts[x].queue)
        /\ k = [contexts[x] EXCEPT !.queue = q] /\ j = [calls[c] EXCEPT !.pc = "runs"]
  OBVIOUS
<1>3. IsCall(calls[c]) /\ x \in DOMAIN contexts /\ IsContext(contexts[x])
  BY <1>1, <1>2, Served
<1>4. ContextIs(x, k) /\ CallIs(c, j)
  BY <1>2 DEF Begin, Become, CallIs, ContextIs
<1>5. /\ IsCall(j) /\ j.pc = "runs" /\ j.user = calls[c].user
      /\ j.secret = calls[c].secret /\ j.ctx = x
  BY <1>2, <1>3 DEF IsCall, AsCall, Acts
<1>6. q \in Seq(Calls) /\ \A d \in Range(contexts[x].queue) \ {c} : d \in Range(q)
  <2>1. PICK p \in Seq(Calls) : p = contexts[x].queue
    BY <1>3 DEF IsContext
  <2>2. p # <<>> /\ Head(p) = c /\ q = Tail(p)
    BY <1>2, <2>1 DEF Begin
  <2>3. /\ q \in Seq(Calls) /\ Len(q) = Len(p) - 1 /\ Len(p) \in Nat /\ p[1] = c
        /\ \A i \in 1..Len(q) : q[i] = p[i + 1]
        /\ DOMAIN p = 1..Len(p) /\ DOMAIN q = 1..Len(q)
    BY <2>1, <2>2
  <2>4. ASSUME NEW i \in 1..Len(p), p[i] # c
        PROVE  p[i] \in Range(q)
    <3>1. i - 1 \in DOMAIN q /\ q[i - 1] = p[i]
      <4>1. i - 1 \in 1..Len(q) /\ i - 1 + 1 = i
        BY <2>3, <2>4
      <4> QED BY <2>3, <4>1
    <3> QED BY <3>1 DEF Range
  <2> QED BY <2>1, <2>3, <2>4 DEF Range
<1>7. /\ IsContext(k) /\ k.queue = q /\ k.session = contexts[x].session
      /\ k.user = contexts[x].user /\ k.secret = contexts[x].secret /\ k.open = contexts[x].open
  BY <1>2, <1>3, <1>6 DEF IsContext, AsContext
<1>8. Kept(x, k)
  BY <1>3, <1>7 DEF Kept, IInv, LoggedIn
<1>9. rules' = [u \in Users |-> rules'[u]] /\ \A u \in Users : \A r \in rules'[u] : IsRule(r)
  BY <1>1 DEF IInv, Shapes
<1>10. \A d \in Calls \ {c} : d \in Range(contexts[x].queue) => d \in Range(k.queue)
  BY <1>6, <1>7
<1> QED BY <1>1, <1>2, <1>4, <1>5, <1>7, <1>8, <1>9, <1>10, CallGoesOn

(* The aliases of an answer are those of the context the call holds         *)
LEMMA AnswerKeeps ==
  ASSUME IInv, NEW c \in Calls, Answer(c)
  PROVE  IInv'
<1> PICK j : j = Idle
  OBVIOUS
<1>1. /\ calls[c].pc = "answers" /\ UNCHANGED <<entries, rules, password, valid>>
      /\ CallIs(c, j)
  BY DEF Answer, Ended, CallIs, exchange
<1>2. PICK x, a, k :
        /\ x = calls[c].ctx /\ k = [contexts[x] EXCEPT !.aliaser = a]
        /\ ContextIs(x, k)
  BY DEF Answer, ContextIs
<1>3. x \in DOMAIN contexts /\ IsContext(contexts[x])
  BY <1>1, <1>2, Served
<1>4. /\ IsContext(k) /\ k.queue = contexts[x].queue /\ k.session = contexts[x].session
      /\ k.user = contexts[x].user /\ k.secret = contexts[x].secret /\ k.open = contexts[x].open
  BY <1>2, <1>3 DEF IsContext, AsContext
<1>5. Kept(x, k)
  BY <1>3, <1>4 DEF Kept, IInv, LoggedIn
<1>6. rules' = [u \in Users |-> rules'[u]] /\ \A u \in Users : \A r \in rules'[u] : IsRule(r)
  BY <1>1 DEF IInv, Shapes
<1>7. \A d \in Calls \ {c} : d \in Range(contexts[x].queue) => d \in Range(k.queue)
  BY <1>4
<1> QED BY <1>1, <1>2, <1>3, <1>5, <1>6, <1>7, CallMoves

-----------------------------------------------------------------------------
(* The work of the tools                                                    *)

(* What is built from an argument is a rule as Exchange holds them          *)
LEMMA BuiltRule ==
  ASSUME NEW id, NEW req, IsRequest(req), NEW folder
  PROVE  IsRule(build_rule_element(id, req, folder))
<1>1. build_conditions(req.conditions) \in Given
  BY DEF IsRequest, Given, build_conditions, build_predicate_block, build_size_range,
         Keys, TableKeys, SizeKeys
<1> QED BY <1>1 DEF IsRule, build_rule_element

(* and what is built from the row of a rule without an empty list has its   *)
(* conditions                                                               *)
LEMMA BuiltAgain ==
  ASSUME NEW conditions \in Given, \A k \in TableKeys : conditions[k] # "falsy"
  PROVE  build_conditions(conditions) = conditions
BY DEF Given, build_conditions, build_predicate_block, build_size_range,
       Keys, TableKeys, SizeKeys

(* The tool has its answer: the session is one Exchange has accepted        *)
LEMMA WorkKeeps ==
  ASSUME IInv, NEW c \in Calls, NEW tool, Works(c, tool),
         NEW j, CallIs(c, j), IsCall(j), j.pc \in {"finds", "answers"},
         j.user = calls[c].user, j.secret = calls[c].secret, j.ctx = calls[c].ctx,
         rules' = [u \in Users |-> rules'[u]],
         \A u \in Users : \A r \in rules'[u] : IsRule(r)
  PROVE  IInv'
<1>1. PICK x, k : x = calls[c].ctx /\ k = [contexts[x] EXCEPT !.session = TRUE]
  OBVIOUS
<1>2. /\ calls[c].pc = "runs" /\ calls[c].pc # "idle" /\ Accepted(x) /\ ContextIs(x, k)
      /\ UNCHANGED <<entries, password, valid>>
  BY <1>1 DEF Works, ContextIs
<1>3. x \in DOMAIN contexts /\ IsContext(contexts[x])
  BY <1>1, <1>2, Served
<1>4. /\ IsContext(k) /\ k.queue = contexts[x].queue /\ k.session
      /\ k.user = contexts[x].user /\ k.secret = contexts[x].secret /\ k.open = contexts[x].open
  BY <1>1, <1>3 DEF IsContext, AsContext
<1>5. contexts[x].secret \in valid[contexts[x].user]
  BY <1>2, <1>3 DEF Accepted, IInv, LoggedIn, IsContext
<1>6. Kept(x, k)
  BY <1>4, <1>5 DEF Kept
<1>7. \A d \in Calls \ {c} : d \in Range(contexts[x].queue) => d \in Range(k.queue)
  BY <1>4
<1>8. j.pc # "queued" /\ j.ctx = x
  BY <1>1
<1> QED BY <1>1, <1>2, <1>4, <1>6, <1>7, <1>8, CallGoesOn

(* The mailbox of a call, and the rules in it                               *)
LEMMA OwnMailbox ==
  ASSUME IInv, NEW c \in Calls, calls[c].pc # "idle"
  PROVE  /\ Mailbox(c) = calls[c].user /\ Mailbox(c) \in Users /\ IsRequest(calls[c].req)
         /\ rules = [u \in Users |-> rules[u]]
         /\ \A u \in Users : \A r \in rules[u] : IsRule(r)
<1>1. IsCall(calls[c]) /\ Fits(calls[c])
  BY Served
<1> QED BY <1>1 DEF Mailbox, IsCall, Fits, IInv, Shapes

(* A tool that answers leaves the call with its user and its context        *)
LEMMA AnswersCall ==
  ASSUME IInv, NEW c \in Calls, calls[c].pc # "idle", NEW rows, Answers(c, rows)
  PROVE  \E j : /\ CallIs(c, j) /\ IsCall(j) /\ j.pc = "answers"
                /\ j.user = calls[c].user /\ j.secret = calls[c].secret /\ j.ctx = calls[c].ctx
<1>1. PICK j : j = [calls[c] EXCEPT !.pc = "answers", !.rows = rows]
  OBVIOUS
<1>2. IsCall(calls[c])
  BY Served
<1>3. /\ IsCall(j) /\ j.pc = "answers"
      /\ j.user = calls[c].user /\ j.secret = calls[c].secret /\ j.ctx = calls[c].ctx
  BY <1>1, <1>2 DEF IsCall, AsCall, Acts
<1>4. CallIs(c, j)
  BY <1>1 DEF Answers, CallIs
<1> QED BY <1>3, <1>4

(* The four tools, and the rules Exchange holds after them                  *)
LEMMA ToolsKeep ==
  ASSUME IInv, NEW c \in Calls,
         ListRules(c) \/ CreateRule(c) \/ UpdateRule(c) \/ DeleteRule(c)
  PROVE  IInv'
<1>0. calls[c].pc = "runs" /\ calls[c].pc # "idle"
  BY DEF ListRules, CreateRule, UpdateRule, DeleteRule, Works
<1>1. PICK u : u = Mailbox(c)
  OBVIOUS
<1>2. /\ u \in Users /\ IsRequest(calls[c].req)
      /\ rules = [v \in Users |-> rules[v]] /\ \A v \in Users : \A r \in rules[v] : IsRule(r)
  BY <1>0, <1>1, OwnMailbox
<1>3. CASE ListRules(c)
  <2>1. PICK rows : Answers(c, rows)
    BY <1>3 DEF ListRules
  <2>2. rules' = rules /\ Works(c, "list_rules")
    BY <1>3 DEF ListRules
  <2> QED BY <1>0, <1>2, <2>1, <2>2, AnswersCall, WorkKeeps
<1>4. CASE CreateRule(c)
  <2>1. PICK new : /\ IsRule(new) /\ rules' = [rules EXCEPT ![u] = @ \cup {new}]
    BY <1>1, <1>2, <1>4, BuiltRule DEF CreateRule
  <2>2. PICK j : j = [calls[c] EXCEPT !.pc = "finds"]
    OBVIOUS
  <2>3. IsCall(calls[c])
    BY <1>0, Served
  <2>4. /\ IsCall(j) /\ j.pc = "finds"
        /\ j.user = calls[c].user /\ j.secret = calls[c].secret /\ j.ctx = calls[c].ctx
    BY <2>2, <2>3 DEF IsCall, AsCall, Acts
  <2>5. CallIs(c, j) /\ Works(c, "create_rule")
    BY <1>4, <2>2 DEF CreateRule, Become, CallIs
  <2>6. rules' = [v \in Users |-> rules'[v]] /\ \A v \in Users : \A r \in rules'[v] : IsRule(r)
    BY <1>2, <2>1
  <2> QED BY <2>4, <2>5, <2>6, WorkKeeps
<1>5. CASE UpdateRule(c)
  <2>1. PICK new, rest : /\ IsRule(new) /\ rest \subseteq rules[u]
                         /\ rules' = [rules EXCEPT ![u] = rest \cup {new}]
    BY <1>1, <1>2, <1>5, BuiltRule DEF UpdateRule
  <2>2. PICK rows : Answers(c, rows)
    BY <1>5 DEF UpdateRule
  <2>3. Works(c, "update_rule")
    BY <1>5 DEF UpdateRule
  <2>4. rules' = [v \in Users |-> rules'[v]] /\ \A v \in Users : \A r \in rules'[v] : IsRule(r)
    BY <1>2, <2>1
  <2> QED BY <1>0, <2>2, <2>3, <2>4, AnswersCall, WorkKeeps
<1>6. CASE DeleteRule(c)
  <2>1. PICK rest : rest \subseteq rules[u] /\ rules' = [rules EXCEPT ![u] = rest]
    BY <1>1, <1>6 DEF DeleteRule
  <2>2. Answers(c, <<>>) /\ Works(c, "delete_rule")
    BY <1>6 DEF DeleteRule
  <2>3. rules' = [v \in Users |-> rules'[v]] /\ \A v \in Users : \A r \in rules'[v] : IsRule(r)
    BY <1>2, <2>1
  <2> QED BY <1>0, <2>2, <2>3, AnswersCall, WorkKeeps
<1> QED BY <1>3, <1>4, <1>5, <1>6

(* A user's new password is one of those the user has had                   *)
LEMMA PasswordKeeps ==
  ASSUME IInv, NEW u \in Users, NewPassword(u)
  PROVE  IInv'
<1>1. PICK s : /\ password' = [password EXCEPT ![u] = s]
               /\ valid' = [valid EXCEPT ![u] = @ \cup {s}]
  BY DEF NewPassword
<1>2. UNCHANGED <<entries, contexts, calls, rules>>
  BY DEF NewPassword
<1>3. /\ password' = [v \in Users |-> password'[v]] /\ valid' = [v \in Users |-> valid'[v]]
      /\ \A v \in Users : password'[v] \in valid'[v] /\ valid[v] \subseteq valid'[v]
  BY <1>1 DEF IInv, Shapes, LoggedIn
<1>4. Shapes'
  BY <1>2, <1>3 DEF IInv, Shapes
<1>5. LoggedIn'
  BY <1>2, <1>3 DEF IInv, Shapes, IsContext, LoggedIn
<1>6. \A c \in Calls : CallOK(c)'
  BY <1>2 DEF IInv, CallOK, Fits, Waits
<1>7. Open' = Range(entries') /\ Len(entries') <= MaxCachedUsers /\ OncePerUser(entries)'
  BY <1>2 DEF IInv, Open, OncePerUser
<1> QED BY <1>4, <1>5, <1>6, <1>7 DEF IInv

(* At the start nobody is served                                            *)
LEMMA InitInv == Init => IInv
<1> SUFFICES ASSUME Init PROVE IInv
  OBVIOUS
<1>1. contexts = <<>> /\ entries = <<>> /\ DOMAIN contexts = {} /\ DOMAIN entries = {} /\ Len(entries) = 0
  BY DEF Init
<1>2. /\ calls = [c \in Calls |-> calls[c]] /\ \A c \in Calls : calls[c] = Idle
  BY DEF Init
<1>3. /\ rules = [u \in Users |-> rules[u]] /\ \A u \in Users : \A r \in rules[u] : IsRule(r)
  BY RulesAssumption DEF Init
<1>4. /\ password = [u \in Users |-> password[u]] /\ valid = [u \in Users |-> valid[u]]
      /\ \A u \in Users : password[u] \in valid[u]
  BY PasswordAssumption DEF Init
<1>5. contexts \in Seq(Range(contexts)) /\ entries \in Seq(DOMAIN contexts)
  BY <1>1, EmptySeq
<1>6. Open = Range(entries) /\ OncePerUser(entries) /\ Len(entries) <= MaxCachedUsers
  BY <1>1, CacheAssumption DEF Open, Range, OncePerUser
<1> QED BY <1>1, <1>2, <1>3, <1>4, <1>5, <1>6 DEF IInv, Shapes, LoggedIn, CallOK

-----------------------------------------------------------------------------
(* A request arrives                                                        *)

(* The users of the entries, where x is to be the context of u              *)
Owner(x, u) == IF x \in DOMAIN contexts THEN contexts[x].user ELSE u

(* What a sequence of contexts keeps when some of them are left out         *)
PartOf(es) ==
  /\ es \in Seq(DOMAIN contexts) /\ Len(es) <= MaxCachedUsers
  /\ Range(es) \subseteq Range(entries) /\ OncePerUser(es)

(* Eviction of the idle entries leaves a part of the cache                  *)
LEMMA KeptEntries ==
  ASSUME IInv, NEW stale \in 0..Len(entries)
  PROVE  PartOf(_evict_idle(stale))
<1> DEFINE es == _evict_idle(stale)
<1>1. entries \in Seq(DOMAIN contexts) /\ Len(entries) \in Nat /\ DOMAIN entries = 1..Len(entries)
  BY DEF IInv, Shapes
<1>2. /\ es \in Seq(DOMAIN contexts) /\ Len(es) = Len(entries) - stale
      /\ \A i \in 1..Len(entries) - stale : es[i] = entries[stale + i]
  BY <1>1, Suffix DEF _evict_idle
<1> HIDE DEF es
<1>3. DOMAIN es = 1..Len(entries) - stale
  BY <1>2
<1>4. ASSUME NEW i \in DOMAIN es
      PROVE  stale + i \in DOMAIN entries /\ es[i] = entries[stale + i]
  BY <1>1, <1>2, <1>3
<1>5. Range(es) \subseteq Range(entries)
  BY <1>4 DEF Range
<1>6. ASSUME NEW i \in DOMAIN es, NEW j \in DOMAIN es, contexts[es[i]].user = contexts[es[j]].user
      PROVE  i = j
  <2>1. stale + i = stale + j
    BY <1>4, <1>6 DEF IInv, OncePerUser
  <2> QED BY <1>1, <1>3, <2>1
<1>7. Len(es) <= MaxCachedUsers
  BY <1>1, <1>2, CacheAssumption DEF IInv
<1> QED BY <1>2, <1>5, <1>6, <1>7 DEF PartOf, OncePerUser, es

(* The cache without one entry is without its user                          *)
LEMMA OthersKept ==
  ASSUME IInv, NEW es, PartOf(es), NEW k \in DOMAIN es
  PROVE  /\ PartOf(RemoveAt(es, k))
         /\ \A i \in DOMAIN RemoveAt(es, k) : contexts[RemoveAt(es, k)[i]].user # contexts[es[k]].user
<1>1. es \in Seq(DOMAIN contexts) /\ Len(es) \in Nat /\ DOMAIN es = 1..Len(es)
  BY DEF PartOf
<1> DEFINE fs == RemoveAt(es, k)
           At(i) == IF i < k THEN i ELSE i + 1
<1>2. /\ fs \in Seq(DOMAIN contexts) /\ Len(fs) = Len(es) - 1
      /\ \A i \in 1..Len(es) - 1 : fs[i] = IF i < k THEN es[i] ELSE es[i + 1]
  BY <1>1, RemovedAt
<1> HIDE DEF fs
<1>3. DOMAIN fs = 1..Len(es) - 1
  BY <1>2
<1>4. ASSUME NEW i \in DOMAIN fs
      PROVE  At(i) \in DOMAIN es /\ fs[i] = es[At(i)] /\ At(i) # k
  BY <1>1, <1>2, <1>3
<1>5. Range(fs) \subseteq Range(es)
  BY <1>4 DEF Range
<1>6. ASSUME NEW i \in DOMAIN fs, NEW j \in DOMAIN fs, contexts[fs[i]].user = contexts[fs[j]].user
      PROVE  i = j
  <2>1. At(i) = At(j)
    BY <1>4, <1>6 DEF PartOf, OncePerUser
  <2> QED BY <1>1, <1>3, <2>1
<1>7. \A i \in DOMAIN fs : contexts[fs[i]].user # contexts[es[k]].user
  BY <1>4 DEF PartOf, OncePerUser
<1>8. Len(fs) <= MaxCachedUsers
  BY <1>1, <1>2, CacheAssumption DEF PartOf
<1> QED BY <1>2, <1>5, <1>6, <1>7, <1>8 DEF PartOf, OncePerUser, fs

(* x is a context of u, one in the cache or the next to be built, and the   *)
(* entries es are those of other users                                      *)
Joins(es, x, u) ==
  /\ PartOf(es) /\ x \in 1..Len(contexts) + 1
  /\ \A i \in DOMAIN es : contexts[es[i]].user # u
  /\ x \in DOMAIN contexts => contexts[x].user = u

(* fs is a cache made of some of es and x, with no user in it twice         *)
Joined(fs, es, x, u) ==
  /\ fs \in Seq(1..Len(contexts) + 1) /\ Len(fs) <= MaxCachedUsers
  /\ Range(fs) \subseteq Range(es) \cup {x} /\ x \in Range(fs)
  /\ \A i, j \in DOMAIN fs : Owner(fs[i], u) = Owner(fs[j], u) => i = j

(* The cache with the context that is used last, within its bound           *)
LEMMA Bounded ==
  ASSUME IInv, NEW es, NEW x, NEW u, Joins(es, x, u)
  PROVE  Joined(Oldest(Append(es, x)), es, x, u)
<1> USE DEF Joins, Joined
<1> PICK fs : fs = Oldest(Append(es, x))
  OBVIOUS
<1>0. PICK n, S, as : n = Len(es) /\ S = 1..Len(contexts) + 1 /\ as = Append(es, x)
  OBVIOUS
<1>1. /\ Len(contexts) \in Nat /\ DOMAIN contexts = 1..Len(contexts)
      /\ es \in Seq(DOMAIN contexts) /\ n \in Nat /\ n <= MaxCachedUsers /\ DOMAIN es = 1..n
  BY <1>0 DEF IInv, Shapes, PartOf
<1>2. es \in Seq(S) /\ x \in S
  <2>1. DOMAIN contexts \subseteq S
    BY <1>0, <1>1
  <2> QED BY <1>0, <1>1, <2>1, SeqMonotonic
<1>3. /\ as \in Seq(S) /\ as # <<>> /\ Len(as) = n + 1 /\ as[n + 1] = x /\ \A i \in 1..n : as[i] = es[i]
  BY <1>0, <1>2, AppendProperties
<1>4. ASSUME NEW i \in 1..n + 1, NEW j \in 1..n + 1, Owner(as[i], u) = Owner(as[j], u)
      PROVE  i = j
  <2>1. Owner(as[n + 1], u) = u
    BY <1>3 DEF Owner
  <2>2. ASSUME NEW k \in 1..n PROVE Owner(as[k], u) = contexts[es[k]].user /\ contexts[es[k]].user # u
    <3>1. as[k] = es[k] /\ es[k] \in DOMAIN contexts
      BY <1>0, <1>1, <1>3, <2>2, ElementOfSeq
    <3> QED BY <1>1, <2>2, <3>1 DEF Owner
  <2>3. CASE i \in 1..n /\ j \in 1..n
    BY <1>1, <1>4, <2>2, <2>3 DEF PartOf, OncePerUser
  <2>4. CASE i = n + 1 /\ j \in 1..n
    BY <1>4, <2>1, <2>2, <2>4
  <2>5. CASE i \in 1..n /\ j = n + 1
    BY <1>4, <2>1, <2>2, <2>5
  <2> QED BY <1>1, <2>3, <2>4, <2>5
<1>5. CASE ~(n + 1 > MaxCachedUsers)
  <2>1. fs = as
    BY <1>0, <1>3, <1>5 DEF Oldest
  <2>2. DOMAIN as = 1..n + 1
    BY <1>3
  <2>3. \A i \in 1..n + 1 : i = n + 1 \/ i \in 1..n
    BY <1>1
  <2>4. Range(as) \subseteq Range(es) \cup {x} /\ x \in Range(as)
    <3>1. n + 1 \in DOMAIN as
      BY <1>1, <2>2
    <3>2. \A i \in DOMAIN as : as[i] = x \/ (i \in DOMAIN es /\ as[i] = es[i])
      BY <1>1, <1>3, <2>2, <2>3
    <3>3. as[n + 1] = x
      BY <1>3
    <3> QED BY <3>1, <3>2, <3>3 DEF Range
  <2>5. Len(as) <= MaxCachedUsers
    BY <1>1, <1>3, <1>5, CacheAssumption
  <2> QED BY <1>0, <1>3, <1>4, <2>1, <2>2, <2>4, <2>5
<1>6. CASE n + 1 > MaxCachedUsers
  <2>1. fs = Tail(as) /\ n >= 1 /\ n = MaxCachedUsers
    BY <1>0, <1>1, <1>3, <1>6, CacheAssumption DEF Oldest
  <2>0. n \in Nat
    BY <1>1
  <2>2. /\ fs \in Seq(S) /\ Len(fs) = n /\ \A i \in 1..n : fs[i] = as[i + 1]
    <3>1. as # <<>>
      BY <1>3
    <3>2. /\ Tail(as) \in Seq(S) /\ Len(Tail(as)) = Len(as) - 1
          /\ \A i \in 1..Len(Tail(as)) : Tail(as)[i] = as[i + 1]
      BY <1>3, <3>1, HeadTailProperties
    <3>3. Len(as) - 1 = n
      BY <1>3, <2>0
    <3> QED BY <2>1, <3>2, <3>3
  <2>3. DOMAIN fs = 1..n
    BY <2>2
  <2>4. Range(fs) \subseteq Range(es) \cup {x}
    <3>1. ASSUME NEW i \in 1..n PROVE fs[i] \in Range(es) \cup {x}
      <4>1. fs[i] = as[i + 1]
        BY <2>2
      <4>2. i + 1 \in 1..n \/ i + 1 = n + 1
        BY <1>1
      <4>3. CASE i + 1 \in 1..n
        <5>1. as[i + 1] = es[i + 1] /\ i + 1 \in DOMAIN es
          BY <1>1, <1>3, <4>3
        <5> QED BY <4>1, <5>1 DEF Range
      <4>4. CASE i + 1 = n + 1
        BY <1>3, <4>1, <4>4
      <4> QED BY <4>2, <4>3, <4>4
    <3> QED BY <2>3, <3>1 DEF Range
  <2>5. x \in Range(fs)
    <3>1. fs[n] = x /\ n \in DOMAIN fs
      <4>1. n \in 1..n
        BY <2>0, <2>1
      <4> QED BY <1>3, <2>2, <2>3, <4>1
    <3> QED BY <3>1 DEF Range
  <2>6. ASSUME NEW i \in 1..n, NEW j \in 1..n, Owner(fs[i], u) = Owner(fs[j], u)
        PROVE  i = j
    <3>0. i + 1 \in 1..n + 1 /\ j + 1 \in 1..n + 1
      BY <2>0
    <3>1. fs[i] = as[i + 1] /\ fs[j] = as[j + 1]
      BY <2>2
    <3>2. i + 1 = j + 1
      BY <1>4, <2>6, <3>0, <3>1
    <3> QED BY <2>0, <3>2
  <2> QED BY <1>0, <1>1, <2>1, <2>2, <2>3, <2>4, <2>5, <2>6
<1> QED BY <1>5, <1>6

(* get answers a context of the user and the password it was asked for, new *)
(* or from the cache, and leaves a cache that holds it                      *)
LEMMA GetAnswers ==
  ASSUME IInv, NEW u, NEW s, NEW stale \in 0..Len(entries), NEW g, g = get(u, s, stale)
  PROVE  /\ g.ctx \in 1..Len(contexts) + 1
         /\ g.ctx \in DOMAIN contexts =>
              /\ contexts[g.ctx].user = u /\ contexts[g.ctx].secret = s
              /\ g.ctx \in Range(entries)
         /\ g.entries \in Seq(1..Len(contexts) + 1) /\ Len(g.entries) <= MaxCachedUsers
         /\ Range(g.entries) \subseteq Range(entries) \cup {g.ctx} /\ g.ctx \in Range(g.entries)
         /\ \A i, j \in DOMAIN g.entries :
              Owner(g.entries[i], u) = Owner(g.entries[j], u) => i = j
<1>1. PICK kept : kept = _evict_idle(stale)
  OBVIOUS
<1>2. PICK own : own = {i \in DOMAIN kept : contexts[kept[i]].user = u}
  OBVIOUS
<1>3. PICK others : others = IF own = {} THEN kept ELSE RemoveAt(kept, CHOOSE i \in own : TRUE)
  OBVIOUS
<1>4. PICK hits : hits = {kept[i] : i \in {k \in own : SameHash(kept[k], s)}}
  OBVIOUS
<1>5. PICK x : x = IF hits = {} THEN Len(contexts) + 1 ELSE CHOOSE h \in hits : TRUE
  OBVIOUS
<1>6. g.ctx = x /\ g.entries = Oldest(Append(others, x))
  BY <1>1, <1>2, <1>3, <1>4, <1>5 DEF get
<1>7. PartOf(kept)
  BY <1>1, KeptEntries
<1>8. /\ kept \in Seq(DOMAIN contexts) /\ \A i \in DOMAIN kept : kept[i] \in DOMAIN contexts
      /\ Len(contexts) \in Nat /\ DOMAIN contexts = 1..Len(contexts)
  <2>1. kept \in Seq(DOMAIN contexts) /\ DOMAIN kept = 1..Len(kept)
    BY <1>7 DEF PartOf
  <2>2. Len(contexts) \in Nat /\ DOMAIN contexts = 1..Len(contexts)
    BY DEF IInv, Shapes
  <2> QED BY <2>1, <2>2, ElementOfSeq
<1>9. PartOf(others) /\ \A i \in DOMAIN others : contexts[others[i]].user # u
  <2>1. CASE own = {}
    BY <1>2, <1>3, <1>7, <2>1
  <2>2. CASE own # {}
    <3>1. PICK k \in own : others = RemoveAt(kept, k)
      BY <1>3, <2>2
    <3>2. k \in DOMAIN kept /\ contexts[kept[k]].user = u
      BY <1>2, <3>1
    <3> QED BY <1>7, <3>1, <3>2, OthersKept
  <2> QED BY <2>1, <2>2
<1>10. /\ x \in 1..Len(contexts) + 1
       /\ x \in DOMAIN contexts =>
            contexts[x].user = u /\ contexts[x].secret = s /\ x \in Range(kept)
  <2>1. CASE hits = {}
    <3>1. x = Len(contexts) + 1
      BY <1>5, <2>1
    <3> QED BY <1>8, <3>1
  <2>2. CASE hits # {}
    <3>1. x \in hits
      BY <1>5, <2>2
    <3>2. PICK i \in own : x = kept[i] /\ SameHash(kept[i], s)
      BY <1>4, <3>1
    <3>3. i \in DOMAIN kept /\ contexts[x].user = u /\ contexts[x].secret = s
      BY <1>2, <3>2 DEF SameHash
    <3>4. x \in DOMAIN contexts /\ x \in Range(kept)
      BY <1>8, <3>2, <3>3 DEF Range
    <3>5. x \in 1..Len(contexts) + 1
      BY <1>8, <3>4
    <3> QED BY <3>3, <3>4, <3>5
  <2> QED BY <2>1, <2>2
<1>11. /\ g.entries \in Seq(1..Len(contexts) + 1) /\ Len(g.entries) <= MaxCachedUsers
       /\ Range(g.entries) \subseteq Range(others) \cup {x} /\ x \in Range(g.entries)
       /\ \A i, j \in DOMAIN g.entries :
            Owner(g.entries[i], u) = Owner(g.entries[j], u) => i = j
  <2>1. Joins(others, x, u)
    BY <1>9, <1>10 DEF Joins
  <2>2. Joined(Oldest(Append(others, x)), others, x, u)
    BY <2>1, Bounded
  <2> QED BY <1>6, <2>2 DEF Joined
<1> QED BY <1>6, <1>7, <1>9, <1>10, <1>11 DEF PartOf

(* What a request asks for                                                  *)
LEMMA AskedRequest ==
  ASSUME NEW u, NEW a \in Asked(u)
  PROVE  IsRequest(a.req)
<1>1. IsRequest(NoRequest)
  BY RulesAssumption DEF NoRequest
<1>2. ASSUME NEW q \in Arguments(u) PROVE IsRequest(q)
  <2>1. PICK r \in Requests : \E f : q = [r EXCEPT !.move = f]
    BY <1>2 DEF Arguments
  <2>2. PICK f : q = [r EXCEPT !.move = f]
    BY <2>1
  <2>3. IsRequest(r)
    BY RulesAssumption
  <2> QED BY <2>2, <2>3 DEF IsRequest
<1>3. a.req \in {NoRequest} \cup Arguments(u)
  BY DEF Asked
<1> QED BY <1>1, <1>2, <1>3

(* A sequence is one of its own elements                                    *)
LEMMA SeqOfItsRange == ASSUME NEW S, NEW f \in Seq(S) PROVE f \in Seq(Range(f))
<1>1. PICK n \in Nat : f \in [1..n -> S]
  BY SeqDef
<1>2. f \in [1..n -> Range(f)]
  BY <1>1 DEF Range
<1> QED BY <1>1, <1>2, FunctionIsSeq

(* Numbers with the same range are the same                                 *)
LEMMA SameBound == ASSUME NEW m \in Nat, NEW n \in Nat, 1..m = 1..n PROVE m = n
<1>1. CASE m = 0
  BY <1>1
<1>2. CASE n = 0
  BY <1>2
<1>3. CASE m # 0 /\ n # 0
  <2>1. m \in 1..n /\ n \in 1..m
    BY <1>3
  <2> QED BY <2>1
<1> QED BY <1>1, <1>2, <1>3

(* A context whose gateway is closed                                        *)
Shut(k) == [k EXCEPT !.open = FALSE, !.queue = <<>>]

(* Closing a context leaves its user, its password and its session          *)
LEMMA ShutContext ==
  ASSUME NEW k, IsContext(k)
  PROVE  /\ IsContext(Shut(k)) /\ Shut(k).open = FALSE
         /\ Shut(k).user = k.user /\ Shut(k).secret = k.secret /\ Shut(k).session = k.session
<1>1. PICK l : l = [k EXCEPT !.open = FALSE]
  OBVIOUS
<1>2. /\ l = AsContext(l) /\ l.open = FALSE
      /\ l.user = k.user /\ l.secret = k.secret /\ l.session = k.session
  BY <1>1 DEF IsContext, AsContext
<1>3. PICK m : m = [l EXCEPT !.queue = <<>>]
  OBVIOUS
<1>4. /\ m = AsContext(m) /\ m.open = FALSE /\ m.queue = <<>>
      /\ m.user = k.user /\ m.secret = k.secret /\ m.session = k.session
  BY <1>2, <1>3 DEF AsContext
<1>5. m = Shut(k)
  BY <1>1, <1>3 DEF Shut
<1>6. <<>> \in Seq(Calls)
  OBVIOUS
<1> QED BY <1>4, <1>5, <1>6 DEF IsContext

(* The contexts after get answered x to a request of u with password s:     *)
(* those in closed are closed, and x is built if it was not there           *)
Built(x, u, s) == IF x > Len(contexts) THEN <<_build(u, s)>> ELSE <<>>

(* the contexts there were stay in place, and x is one of them or the last  *)
LEMMA ContextsGrow ==
  ASSUME IInv, NEW x \in 1..Len(contexts) + 1, NEW u, NEW s, NEW closed,
         contexts' = close(contexts, closed) \o Built(x, u, s)
  PROVE  /\ Len(contexts') \in Nat /\ contexts' \in Seq(Range(contexts'))
         /\ DOMAIN contexts' = DOMAIN contexts \cup {x}
         /\ \A y \in DOMAIN contexts :
              contexts'[y] = IF y \in closed THEN Shut(contexts[y]) ELSE contexts[y]
         /\ x \notin DOMAIN contexts => contexts'[x] = _build(u, s)
<1>1. PICK n \in Nat : n = Len(contexts) /\ DOMAIN contexts = 1..n
  BY DEF IInv, Shapes
<1>2. PICK old, b : old = close(contexts, closed) /\ b = _build(u, s)
  OBVIOUS
<1>3. /\ DOMAIN old = 1..n /\ old = [y \in 1..n |-> old[y]]
      /\ \A y \in 1..n : old[y] = IF y \in closed THEN Shut(contexts[y]) ELSE contexts[y]
  BY <1>1, <1>2 DEF close, Shut
<1>4. PICK S : S = Range(old) \cup {b}
  OBVIOUS
<1>5. old \in [1..n -> S]
  BY <1>3, <1>4 DEF Range
<1>6. old \in Seq(S) /\ Len(old) = n
  <2>1. old \in Seq(S)
    BY <1>5, FunctionIsSeq
  <2>2. Len(old) \in Nat /\ DOMAIN old = 1..Len(old)
    BY <2>1
  <2> QED BY <1>3, <2>1, <2>2, SameBound
<1>7. CASE x > n
  <2>1. contexts' = old \o <<b>> /\ x = n + 1
    BY <1>1, <1>2, <1>7 DEF Built
  <2>2. <<b>> \in Seq(S) /\ Len(<<b>>) = 1 /\ <<b>>[1] = b
    BY <1>4
  <2>3. /\ old \o <<b>> \in Seq(S) /\ Len(old \o <<b>>) = n + 1
        /\ \A i \in 1..n + 1 : (old \o <<b>>)[i] = IF i <= n THEN old[i] ELSE <<b>>[i - n]
    BY <1>6, <2>2, ConcatProperties
  <2>4. contexts' \in Seq(S) /\ Len(contexts') = n + 1
    BY <2>1, <2>3
  <2>5. DOMAIN contexts' = 1..n + 1
    BY <2>4
  <2>6. DOMAIN contexts' = DOMAIN contexts \cup {x} /\ x \notin DOMAIN contexts
    BY <1>1, <2>1, <2>5
  <2>7. ASSUME NEW y \in 1..n PROVE contexts'[y] = old[y]
    BY <2>1, <2>3
  <2>8. contexts'[x] = b
    <3>1. n + 1 \in 1..n + 1 /\ ~(n + 1 <= n) /\ n + 1 - n = 1
      OBVIOUS
    <3> QED BY <2>1, <2>2, <2>3, <3>1
  <2>9. contexts' \in Seq(Range(contexts'))
    BY <2>4, SeqOfItsRange
  <2>10. ASSUME NEW y \in DOMAIN contexts
         PROVE  contexts'[y] = IF y \in closed THEN Shut(contexts[y]) ELSE contexts[y]
    BY <1>1, <1>3, <2>7
  <2>11. Len(contexts') \in Nat
    BY <2>4
  <2> QED BY <1>2, <2>6, <2>8, <2>9, <2>10, <2>11
<1>8. CASE ~(x > n)
  <2>1. contexts' = old
    BY <1>1, <1>2, <1>6, <1>8, ConcatEmptySeq DEF Built
  <2>2. x \in 1..n
    BY <1>1, <1>8
  <2>3. old \in Seq(Range(old))
    BY <1>6, SeqOfItsRange
  <2> QED BY <1>1, <1>3, <1>6, <2>1, <2>2, <2>3
<1> QED BY <1>7, <1>8, <1>1

(* The call a request becomes, and the calls whose wait it ends             *)
Asks(j, x, u, s) ==
  /\ IsCall(j) /\ j.pc = "body" /\ j.user = u /\ j.secret = s /\ j.ctx = x
  /\ j.tool \in {"update_rule", "delete_rule"} => j.target.kind = "r"

Arrives(c, j, x, es, u, s, stale) ==
  /\ u \in Users /\ stale \in 0..Len(entries)
  /\ x = get(u, s, stale).ctx /\ es = get(u, s, stale).entries
  /\ Asks(j, x, u, s)
  /\ entries' = es
  /\ contexts' = close(contexts, Dropped(es)) \o Built(x, u, s)
  /\ calls' = [Cancelled(Dropped(es)) EXCEPT ![c] = j]

(* A request that arrives does so as somebody with an address in Lower      *)
LEMMA ArrivesAs ==
  ASSUME NEW c \in Calls, Arrive(c)
  PROVE  \E j, x, es, u, s, stale : Arrives(c, j, x, es, u, s, stale)
<1>0. PICK who \in Credentials, stale \in 0..Len(entries) : \E a \in Asked(who.user) :
        LET g == get(who.user, who.secret, stale)
            built == IF g.ctx > Len(contexts) THEN <<_build(who.user, who.secret)>> ELSE <<>>
            closed == Dropped(g.entries)
        IN  /\ entries' = g.entries
            /\ contexts' = close(contexts, closed) \o built
            /\ calls' = [Cancelled(closed) EXCEPT ![c] =
                 [pc |-> "body", user |-> who.user, secret |-> who.secret, ctx |-> g.ctx,
                  tool |-> a.tool, target |-> a.target, req |-> a.req, rows |-> <<>>, no |-> arrived + 1]]
  BY DEF Arrive
<1>1. PICK a \in Asked(who.user) :
        LET g == get(who.user, who.secret, stale)
            built == IF g.ctx > Len(contexts) THEN <<_build(who.user, who.secret)>> ELSE <<>>
            closed == Dropped(g.entries)
        IN  /\ entries' = g.entries
            /\ contexts' = close(contexts, closed) \o built
            /\ calls' = [Cancelled(closed) EXCEPT ![c] =
                 [pc |-> "body", user |-> who.user, secret |-> who.secret, ctx |-> g.ctx,
                  tool |-> a.tool, target |-> a.target, req |-> a.req, rows |-> <<>>, no |-> arrived + 1]]
  BY <1>0
<1>2. PICK u, s, x, es, j :
        /\ u = who.user /\ s = who.secret
        /\ x = get(u, s, stale).ctx /\ es = get(u, s, stale).entries
        /\ j = [pc |-> "body", user |-> u, secret |-> s, ctx |-> x, tool |-> a.tool,
                target |-> a.target, req |-> a.req, rows |-> <<>>, no |-> arrived + 1]
  OBVIOUS
<1>3. u \in Users
  BY <1>2, HeadersAssumption DEF Credentials
<1>4. IsRequest(a.req)
  BY AskedRequest
<1>5. a.tool \in {"update_rule", "delete_rule"} => a.target.kind = "r"
  BY DEF Asked, ShownTo
<1>6. Asks(j, x, u, s)
  BY <1>2, <1>3, <1>4, <1>5 DEF Asks, IsCall, AsCall, Acts
<1>7. /\ entries' = es
      /\ contexts' = close(contexts, Dropped(es)) \o Built(x, u, s)
      /\ calls' = [Cancelled(Dropped(es)) EXCEPT ![c] = j]
  BY <1>1, <1>2 DEF Built
<1>8. Arrives(c, j, x, es, u, s, stale)
  BY <1>2, <1>3, <1>6, <1>7 DEF Arrives
<1> QED BY <1>8

(* A request that arrives may build a context and close others              *)
LEMMA ArriveKeeps ==
  ASSUME IInv, NEW c \in Calls, Arrive(c)
  PROVE  IInv'
<1>1. PICK j, x, es, u, s, stale : Arrives(c, j, x, es, u, s, stale)
  BY ArrivesAs
<1>2. PICK closed : closed = Dropped(es)
  OBVIOUS
<1>3. /\ x \in 1..Len(contexts) + 1
      /\ x \in DOMAIN contexts =>
           contexts[x].user = u /\ contexts[x].secret = s /\ x \in Range(entries)
      /\ es \in Seq(1..Len(contexts) + 1) /\ Len(es) <= MaxCachedUsers
      /\ Range(es) \subseteq Range(entries) \cup {x} /\ x \in Range(es)
      /\ \A i, k \in DOMAIN es : Owner(es[i], u) = Owner(es[k], u) => i = k
  <2>1. PICK g : g = get(u, s, stale)
    OBVIOUS
  <2>2. x = g.ctx /\ es = g.entries /\ stale \in 0..Len(entries)
    BY <1>1, <2>1 DEF Arrives
  <2> QED BY <2>1, <2>2, GetAnswers
<1>4. /\ Len(contexts') \in Nat /\ contexts' \in Seq(Range(contexts'))
      /\ DOMAIN contexts' = DOMAIN contexts \cup {x}
      /\ \A y \in DOMAIN contexts :
           contexts'[y] = IF y \in closed THEN Shut(contexts[y]) ELSE contexts[y]
      /\ x \notin DOMAIN contexts => contexts'[x] = _build(u, s)
  <2>1. contexts' = close(contexts, closed) \o Built(x, u, s)
    BY <1>1, <1>2 DEF Arrives
  <2> QED BY <1>3, <2>1, ContextsGrow
<1>5. ASSUME NEW y \in DOMAIN contexts
      PROVE  /\ IsContext(contexts'[y])
             /\ contexts'[y].user = contexts[y].user /\ contexts'[y].secret = contexts[y].secret
             /\ contexts'[y].session = contexts[y].session
             /\ contexts'[y].open = (contexts[y].open /\ y \notin closed)
             /\ y \notin closed => contexts'[y] = contexts[y]
  <2>1. IsContext(contexts[y])
    BY DEF IInv, Shapes
  <2>2. CASE y \in closed
    <3>1. contexts'[y] = Shut(contexts[y])
      BY <1>4, <2>2
    <3>2. /\ IsContext(Shut(contexts[y]))
          /\ Shut(contexts[y]).user = contexts[y].user
          /\ Shut(contexts[y]).secret = contexts[y].secret
          /\ Shut(contexts[y]).session = contexts[y].session
          /\ Shut(contexts[y]).open = FALSE
      BY <2>1, ShutContext
    <3> QED BY <2>2, <3>1, <3>2
  <2>3. CASE y \notin closed
    <3>1. contexts'[y] = contexts[y] /\ contexts[y].open \in BOOLEAN
      BY <1>4, <2>1, <2>3 DEF IsContext
    <3> QED BY <2>1, <2>3, <3>1
  <2> QED BY <2>2, <2>3
<1>6. ASSUME x \notin DOMAIN contexts
      PROVE  /\ IsContext(contexts'[x]) /\ contexts'[x].user = u /\ contexts'[x].secret = s
             /\ contexts'[x].open /\ ~contexts'[x].session
  <2>1. contexts'[x] = _build(u, s) /\ u \in Users
    BY <1>1, <1>4, <1>6 DEF Arrives
  <2>2. <<>> \in Seq(Calls)
    OBVIOUS
  <2> QED BY <2>1, <2>2 DEF _build, IsContext, AsContext
<1>7. /\ x \in DOMAIN contexts' /\ contexts'[x].user = u /\ contexts'[x].secret = s
  BY <1>3, <1>4, <1>5, <1>6
<1>8. UNCHANGED <<rules, password, valid>> /\ entries' = es /\ IsCall(j) /\ j # Idle
      /\ j.pc = "body" /\ j.user = u /\ j.secret = s /\ j.ctx = x
      /\ calls' = [Cancelled(closed) EXCEPT ![c] = j]
  <2>1. UNCHANGED <<rules, password, valid>>
    BY DEF Arrive, exchange
  <2>2. /\ IsCall(j) /\ j.pc = "body" /\ j.user = u /\ j.secret = s /\ j.ctx = x
    BY <1>1 DEF Arrives, Asks
  <2>3. entries' = es /\ calls' = [Cancelled(closed) EXCEPT ![c] = j]
    BY <1>1, <1>2 DEF Arrives
  <2>4. j # Idle
    BY <2>2 DEF Idle
  <2> QED BY <2>1, <2>2, <2>3, <2>4
<1>9. Open' = Range(es)
  <2>0. Open = Range(entries)
    BY DEF IInv
  <2>1. ASSUME NEW y \in DOMAIN contexts
        PROVE  contexts'[y].open <=> y \in Range(es)
    <3>1. contexts[y].open <=> y \in Range(entries)
      BY <2>0 DEF Open
    <3>2. y \in Range(es) => contexts[y].open
      BY <1>3, <3>1
    <3>3. y \in closed <=> contexts[y].open /\ y \notin Range(es)
      BY <1>2 DEF Dropped, Open
    <3> QED BY <1>5, <3>2, <3>3
  <2>2. Range(es) \subseteq DOMAIN contexts \cup {x}
    BY <1>3, <2>0 DEF Open
  <2>3. Open' = {y \in DOMAIN contexts' : contexts'[y].open}
    BY DEF Open
  <2> QED BY <1>3, <1>4, <1>6, <2>1, <2>2, <2>3
<1>10. entries' \in Seq(DOMAIN contexts')
  <2>1. Range(es) \subseteq DOMAIN contexts'
    BY <1>9 DEF Open
  <2>2. es \in Seq(Range(es))
    BY <1>3, SeqOfItsRange
  <2> QED BY <1>8, <2>1, <2>2, SeqMonotonic
<1>11. OncePerUser(entries)'
  <2>1. ASSUME NEW i \in DOMAIN es
        PROVE  Owner(es[i], u) = contexts'[es[i]].user
    <3>1. es[i] \in DOMAIN contexts'
      BY <1>9 DEF Open, Range
    <3>2. es[i] \in DOMAIN contexts \/ (es[i] = x /\ x \notin DOMAIN contexts)
      BY <1>4, <3>1
    <3> QED BY <1>5, <1>6, <3>2 DEF Owner
  <2> QED BY <1>3, <1>8, <2>1 DEF OncePerUser
<1>12. LoggedIn'
  <2>1. ASSUME NEW y \in DOMAIN contexts', contexts'[y].session
        PROVE  contexts'[y].secret \in valid[contexts'[y].user]
    <3>1. y \in DOMAIN contexts
      BY <1>4, <1>6, <2>1
    <3> QED BY <1>5, <2>1, <3>1 DEF IInv, LoggedIn
  <2> QED BY <1>8, <2>1 DEF IInv, LoggedIn
<1>13. /\ calls' = [d \in Calls |-> calls'[d]] /\ calls'[c] = j
       /\ \A d \in Calls \ {c} : calls'[d] =
            IF calls[d].pc = "queued" /\ calls[d].ctx \in closed THEN Idle ELSE calls[d]
  BY <1>8 DEF Cancelled
<1>14. Shapes'
  <2>1. \A d \in Calls : calls'[d] = Idle \/ IsCall(calls'[d])
    BY <1>8, <1>13 DEF IInv, Shapes
  <2>2. \A y \in DOMAIN contexts' : IsContext(contexts'[y])
    BY <1>4, <1>5, <1>6
  <2> QED BY <1>4, <1>8, <1>10, <1>13, <2>1, <2>2 DEF IInv, Shapes
<1>15. ASSUME NEW d \in Calls PROVE CallOK(d)'
  <2>1. CASE d = c
    BY <1>7, <1>8, <1>13, <2>1 DEF CallOK, Fits, Waits
  <2>2. CASE d # c /\ calls'[d] = Idle
    BY <2>2 DEF CallOK
  <2>3. CASE d # c /\ calls'[d] # Idle
    <3>1. calls'[d] = calls[d] /\ ~(calls[d].pc = "queued" /\ calls[d].ctx \in closed)
      BY <1>13, <2>3
    <3>2. PICK k : k = calls[d] /\ k = calls'[d] /\ Fits(k) /\ Waits(d, k)
      BY <2>3, <3>1 DEF IInv, CallOK
    <3>3. PICK y \in DOMAIN contexts : y = k.ctx
      BY <3>2 DEF Fits
    <3>4. y \in DOMAIN contexts'
      BY <1>4
    <3>5. /\ contexts'[y].user = k.user /\ contexts'[y].secret = k.secret
          /\ k.pc \in {"finds", "answers"} => contexts'[y].session
      BY <1>5, <3>2, <3>3 DEF Fits
    <3>6. k.pc = "queued" => contexts'[y].open /\ d \in Range(contexts'[y].queue)
      BY <1>5, <3>1, <3>2, <3>3 DEF Waits
    <3> QED BY <3>2, <3>3, <3>4, <3>5, <3>6 DEF CallOK, Fits, Waits
  <2> QED BY <2>1, <2>2, <2>3
<1> QED BY <1>3, <1>8, <1>9, <1>11, <1>12, <1>14, <1>15 DEF IInv

-----------------------------------------------------------------------------
(* Every step                                                               *)

(* Every step keeps the invariant                                           *)
LEMMA NextInv == IInv /\ [Next]_vars => IInv'
<1> SUFFICES ASSUME IInv, [Next]_vars PROVE IInv'
  OBVIOUS
<1>1. CASE UNCHANGED vars
  BY <1>1 DEF vars, IInv, Shapes, LoggedIn, CallOK, Fits, Waits, Open, OncePerUser
<1>2. ASSUME NEW u \in Users, NewPassword(u) PROVE IInv'
  BY <1>2, PasswordKeeps
<1>3. ASSUME NEW c \in Calls, Arrive(c) PROVE IInv'
  BY <1>3, ArriveKeeps
<1>4. ASSUME NEW c \in Calls, GivesUp(c) \/ Preview(c) \/ Refuse(c) PROVE IInv'
  BY <1>4, EndsKeep
<1>5. ASSUME NEW c \in Calls, Submit(c) PROVE IInv'
  BY <1>5, SubmitKeeps
<1>6. ASSUME NEW c \in Calls, Begin(c) PROVE IInv'
  BY <1>6, BeginKeeps
<1>7. ASSUME NEW c \in Calls, Work(c) PROVE IInv'
  BY <1>7, EndsKeep, FindKeeps, ToolsKeep DEF Work
<1>8. ASSUME NEW c \in Calls, Answer(c) PROVE IInv'
  BY <1>8, AnswerKeeps
<1> QED BY <1>1, <1>2, <1>3, <1>4, <1>5, <1>6, <1>7, <1>8 DEF Next

(* The invariant holds in every state                                       *)
LEMMA InductiveInv == Spec => []IInv
BY InitInv, NextInv, PTL DEF Spec

(* Exchange serves a call from the mailbox of the user it came as, and only *)
(* if the password it brought is or was that user's.                        *)
THEOREM ServedHolds == Spec => []ServedAsOneself
<1>1. IInv => ServedAsOneself
  <2> SUFFICES ASSUME IInv, NEW c \in Calls, calls[c].pc \in {"finds", "answers"}
               PROVE  calls[c].secret \in valid[calls[c].user] /\ Mailbox(c) = calls[c].user
    BY DEF ServedAsOneself
  <2>1. Fits(calls[c]) /\ calls[c].ctx \in DOMAIN contexts
    BY Served
  <2> QED BY <2>1 DEF Fits, Mailbox, IInv, LoggedIn
<1> QED BY <1>1, InductiveInv, PTL

(* A context is open exactly while it is in the cache, the cache keeps its  *)
(* bound, and no user is in it twice.                                       *)
THEOREM ReleasedHolds == Spec => []Released
<1>1. IInv => Released
  BY DEF IInv, Released, OncePerUser
<1> QED BY <1>1, InductiveInv, PTL

(* A call that waits for a thread is in the queue of a pool that is open.   *)
THEOREM NoneStrandedHolds == Spec => []NoneStranded
<1>1. IInv => NoneStranded
  <2> SUFFICES ASSUME IInv, NEW c \in Calls, calls[c].pc = "queued"
               PROVE  /\ contexts[calls[c].ctx].open
                      /\ c \in Range(contexts[calls[c].ctx].queue)
    BY DEF NoneStranded
  <2>1. Waits(c, calls[c])
    BY Served
  <2> QED BY <2>1 DEF Waits
<1> QED BY <1>1, InductiveInv, PTL

-----------------------------------------------------------------------------
(* An update that repeats what the row says                                 *)

(* A step of one call leaves the others as they are, or ends them           *)
LEMMA OthersWait ==
  ASSUME IInv, NEW c \in Calls, NEW d \in Calls \ {c},
         \/ Arrive(d) \/ GivesUp(d) \/ Preview(d) \/ Refuse(d)
         \/ Submit(d) \/ Begin(d) \/ Work(d) \/ Answer(d)
  PROVE  calls'[c] = calls[c] \/ calls'[c] = Idle
<1>1. CASE Arrive(d)
  <2>1. PICK j, x, es, u, s, stale : Arrives(d, j, x, es, u, s, stale)
    BY <1>1, ArrivesAs
  <2>2. calls' = [Cancelled(Dropped(es)) EXCEPT ![d] = j]
    BY <2>1 DEF Arrives
  <2> QED BY <2>2 DEF Cancelled
<1>2. CASE GivesUp(d) \/ Preview(d) \/ Refuse(d) \/ Submit(d) \/ Begin(d) \/ Answer(d)
  <2>1. calls = [e \in Calls |-> calls[e]]
    BY DEF IInv, Shapes
  <2> QED BY <1>2, <2>1 DEF GivesUp, Preview, Refuse, Submit, Begin, Answer, Ended, Become
<1>3. CASE Work(d)
  <2>1. calls = [e \in Calls |-> calls[e]]
    BY DEF IInv, Shapes
  <2> QED BY <1>3, <2>1 DEF Work, Fail, ListRules, CreateRule, FindRule, UpdateRule, DeleteRule,
                            Answers, Ended, Become
<1> QED BY <1>1, <1>2, <1>3

(* An update is answered by UpdateRule alone                                *)
LEMMA UpdateSteps ==
  ASSUME IInv, [Next]_vars, NEW c \in Calls, Updates(c)
  PROVE  UpdateRule(c)
<1>1. /\ calls[c].pc = "runs" /\ calls[c].tool = "update_rule"
      /\ calls'[c].pc = "answers" /\ calls'[c] # Idle /\ calls'[c] # calls[c]
  BY DEF Updates, Does, Idle
<1>2. /\ calls' # calls
      /\ \E d \in Calls :
           \/ Arrive(d) \/ GivesUp(d) \/ Preview(d) \/ Refuse(d)
           \/ Submit(d) \/ Begin(d) \/ Work(d) \/ Answer(d)
  BY <1>1 DEF Next, vars, NewPassword
<1>3. \/ Arrive(c) \/ GivesUp(c) \/ Preview(c) \/ Refuse(c)
      \/ Submit(c) \/ Begin(c) \/ Work(c) \/ Answer(c)
  BY <1>1, <1>2, OthersWait
<1>4. ~Arrive(c)
  BY <1>1 DEF Arrive, Free, Idle
<1>5. ~GivesUp(c) /\ ~Preview(c) /\ ~Refuse(c) /\ ~Submit(c) /\ ~Begin(c) /\ ~Answer(c)
  BY <1>1 DEF GivesUp, Preview, Refuse, Submit, Begin, Answer
<1>6. calls = [e \in Calls |-> calls[e]]
  BY DEF IInv, Shapes
<1>7. ~Fail(c) /\ ~ListRules(c) /\ ~DeleteRule(c) /\ ~FindRule(c)
  BY <1>1, <1>6 DEF Fail, Ended, ListRules, DeleteRule, FindRule, Works
<1>8. ~CreateRule(c)
  BY <1>1 DEF CreateRule, Works
<1> QED BY <1>3, <1>4, <1>5, <1>7, <1>8 DEF Work

(* A rule listed and updated with what its row says is the same rule, where *)
(* the row has no field the tools do not support, the rule no Exceptions    *)
(* and no list that comes out empty.                                        *)
THEOREM EchoHolds == Spec => EchoKeeps
<1>1. ASSUME IInv, [Next]_vars, NEW c \in Calls, Updates(c), NEW r \in Held(c), Echoes(c, r),
             ToldInFull(r)
      PROVE  r \in rules'[Mailbox(c)]
  <2>1. PICK u, req, folder, new :
          /\ u = Mailbox(c) /\ req = calls[c].req /\ folder = resolve_folder(c)
          /\ new = build_rule_element(Target(c), req, folder)
    OBVIOUS
  <2>2. UpdateRule(c) /\ calls[c].pc # "idle"
    BY <1>1, UpdateSteps DEF Updates, Does
  <2>3. u \in Users /\ rules = [v \in Users |-> rules[v]] /\ \A q \in rules[u] : IsRule(q)
    BY <1>1, <2>1, <2>2, OwnMailbox
  <2>4. r \in rules[u] /\ r.id = Target(c) /\ IsRule(r)
    BY <2>1, <2>3 DEF Held
  <2>5. new \in rules'[u]
    <3>1. rules' = [rules EXCEPT ![u] = (@ \ Held(c)) \cup {new}]
      BY <2>1, <2>2 DEF UpdateRule
    <3> QED BY <2>3, <3>1
  <2>6. /\ r.foreign = {} /\ r.name = req.name /\ r.is_enabled = req.is_enabled
        /\ r.conditions = req.conditions /\ r.move = folder
        /\ req.read = IF r.read THEN "truthy" ELSE "none"
    BY <1>1, <2>1, <2>4 DEF Echoes, ToldInFull, parse_rule_element, IsRule, Places
  <2>7. build_conditions(req.conditions) = r.conditions
    BY <1>1, <2>4, <2>6, BuiltAgain DEF IsRule, ToldInFull
  <2>8. (req.read = "truthy") = r.read
    BY <2>4, <2>6 DEF IsRule
  <2>9. new = r
    BY <2>1, <2>4, <2>6, <2>7, <2>8 DEF build_rule_element, IsRule
  <2> QED BY <2>1, <2>5, <2>9
<1>2. IInv /\ [Next]_vars =>
        [\A c \in Calls : Updates(c) =>
           \A r \in Held(c) : Echoes(c, r) /\ ToldInFull(r) => r \in rules'[Mailbox(c)]]_vars
  BY <1>1
<1> QED BY <1>2, InductiveInv, PTL DEF Spec, EchoKeeps
-----------------------------------------------------------------------------
(* Induction without an operator as parameter: a set of numbers stands for  *)
(* the statement.                                                           *)

Smaller == {p \in Nat \X Nat : p[1] < p[2]}

(* No numbers get smaller for ever                                          *)
LEMMA SmallerIsWellFounded == IsWellFoundedOn(Smaller, Nat)
BY NatLessThanWellFounded DEF OpToRel, Smaller

(* What holds of 0, and of each number if of the one before, holds of all   *)
LEMMA Induction ==
  ASSUME NEW n \in Nat, NEW S, 0 \in S, \A i \in 1..n : i - 1 \in S => i \in S
  PROVE  \A i \in 0..n : i \in S
<1> DEFINE T == {i \in 0..n : i \notin S}
<1> SUFFICES ASSUME T # {} PROVE FALSE
  OBVIOUS
<1>1. T \subseteq Nat
  OBVIOUS
<1> HIDE DEF T
<1>2. \E x \in T : \A y \in T : ~(<<y, x>> \in Smaller)
  BY <1>1, SmallerIsWellFounded, WFMin
<1>3. PICK x \in T : \A y \in T : ~(<<y, x>> \in Smaller)
  BY <1>2
<1>4. x \in 1..n /\ x \notin S
  BY DEF T
<1>5. x - 1 \in T /\ x - 1 < x /\ x \in Nat /\ x - 1 \in Nat
  BY <1>4 DEF T
<1> QED BY <1>3, <1>5 DEF Smaller

-----------------------------------------------------------------------------
(* The maps of an aliaser                                                   *)

(* An alias an aliaser has given                                            *)
GivenBy(a, alias) ==
  alias.kind \in AliasKinds /\ alias.n \in Nat /\ alias.n <= a.counters[alias.kind]

(* The two maps agree, and have each alias once                             *)
AliaserOK(a) ==
  /\ a = [counters |-> a.counters, by_alias |-> a.by_alias, by_id |-> a.by_id]
  /\ a.counters \in [AliasKinds -> Nat] /\ a.by_alias \in Seq(Range(a.by_alias))
  /\ \A id \in DOMAIN a.by_id : GivenBy(a, a.by_id[id])
  /\ \A i \in DOMAIN a.by_alias :
       a.by_alias[i].id \in DOMAIN a.by_id /\ a.by_alias[i].alias = a.by_id[a.by_alias[i].id]
  /\ \A i, j \in DOMAIN a.by_alias : a.by_alias[i].alias = a.by_alias[j].alias => i = j

Once(es) == \A i, j \in DOMAIN es : es[i].alias = es[j].alias => i = j

(* An alias that is taken out is there no more, and the others are there    *)
LEMMA TakenOut ==
  ASSUME NEW S, NEW es \in Seq(S), Once(es), NEW alias
  PROVE  /\ Without(es, alias) \in Seq(S)
         /\ Once(Without(es, alias))
         /\ \A i \in DOMAIN Without(es, alias) :
              /\ Without(es, alias)[i].alias # alias
              /\ \E j \in DOMAIN es : Without(es, alias)[i] = es[j]
<1> DEFINE at == {i \in DOMAIN es : es[i].alias = alias}
<1>1. CASE at = {}
  BY <1>1 DEF Without
<1>2. CASE at # {}
  <2>1. PICK k : k = CHOOSE i \in at : TRUE
    OBVIOUS
  <2>2. k \in 1..Len(es) /\ es[k].alias = alias
    BY <1>2, <2>1
  <2>3. Without(es, alias) = RemoveAt(es, k)
    BY <1>2, <2>1 DEF Without
  <2>4. PICK f : f = RemoveAt(es, k)
    OBVIOUS
  <2>5. /\ f \in Seq(S) /\ Len(f) = Len(es) - 1
        /\ \A i \in 1..Len(es) - 1 : f[i] = IF i < k THEN es[i] ELSE es[i + 1]
    BY <2>2, <2>4, RemovedAt
  <2>6. /\ DOMAIN f = 1..Len(es) - 1 /\ Len(es) \in Nat /\ DOMAIN es = 1..Len(es)
    BY <2>5
  <2>7. ASSUME NEW i \in DOMAIN f
        PROVE  \E j \in DOMAIN es : /\ f[i] = es[j] /\ j # k
                                    /\ j = IF i < k THEN i ELSE i + 1
    BY <2>2, <2>5, <2>6
  <2>8. ASSUME NEW i \in DOMAIN f PROVE f[i].alias # alias
    BY <2>2, <2>6, <2>7 DEF Once
  <2>9. ASSUME NEW i \in DOMAIN f, NEW j \in DOMAIN f, f[i].alias = f[j].alias PROVE i = j
    <3>1. PICK m \in DOMAIN es : f[i] = es[m] /\ m = IF i < k THEN i ELSE i + 1
      BY <2>7
    <3>2. PICK n \in DOMAIN es : f[j] = es[n] /\ n = IF j < k THEN j ELSE j + 1
      BY <2>7
    <3>3. m = n
      BY <2>9, <3>1, <3>2 DEF Once
    <3> QED BY <2>2, <2>6, <3>1, <3>2, <3>3
  <2> QED BY <2>3, <2>4, <2>5, <2>7, <2>8, <2>9 DEF Once
<1> QED BY <1>1, <1>2

(* An alias that is seen again goes to the end                              *)
LEMMA SeenAgain ==
  ASSUME NEW a, AliaserOK(a), NEW id \in DOMAIN a.by_id, NEW b, b = Seen(a, id)
  PROVE  AliaserOK(b) /\ b.counters = a.counters /\ b.by_id = a.by_id
<1>1. PICK S, es, alias, last :
        /\ es = a.by_alias /\ alias = a.by_id[id] /\ last = [alias |-> alias, id |-> id]
        /\ S = Range(es) \cup {last}
  OBVIOUS
<1>2. PICK f : f = Without(es, alias)
  OBVIOUS
<1>3. es \in Seq(S) /\ Once(es)
  <2>1. es \in Seq(Range(es))
    BY <1>1 DEF AliaserOK
  <2>2. Range(es) \subseteq S
    BY <1>1
  <2>3. es \in Seq(S)
    BY <2>1, <2>2
  <2> QED BY <1>1, <2>3 DEF AliaserOK, Once
<1>4. /\ f \in Seq(S) /\ Once(f)
      /\ \A i \in DOMAIN f : f[i].alias # alias /\ \E j \in DOMAIN es : f[i] = es[j]
  BY <1>2, <1>3, TakenOut
<1>5. PICK g : g = Append(f, last)
  OBVIOUS
<1>6. /\ g \in Seq(S) /\ DOMAIN g = 1..Len(f) + 1 /\ DOMAIN f = 1..Len(f) /\ Len(f) \in Nat
      /\ \A i \in DOMAIN f : g[i] = f[i]
      /\ g[Len(f) + 1] = last
  BY <1>1, <1>4, <1>5
<1>7. b = [counters |-> a.counters, by_alias |-> g, by_id |-> a.by_id]
  BY <1>1, <1>2, <1>5 DEF AliaserOK, Seen
<1>8. ASSUME NEW i \in DOMAIN g
      PROVE  g[i].id \in DOMAIN a.by_id /\ g[i].alias = a.by_id[g[i].id]
  <2>1. CASE i \in DOMAIN f
    BY <1>1, <1>4, <1>6, <2>1 DEF AliaserOK
  <2>2. CASE i = Len(f) + 1
    BY <1>1, <1>6, <2>2
  <2> QED BY <1>6, <2>1, <2>2
<1>9. Once(g)
  <2>1. ASSUME NEW i \in DOMAIN g, NEW j \in DOMAIN g, g[i].alias = g[j].alias PROVE i = j
    <3>1. last.alias = alias
      BY <1>1
    <3> QED BY <1>4, <1>6, <2>1, <3>1 DEF Once
  <2> QED BY <2>1 DEF Once
<1>10. g \in Seq(Range(g))
  BY <1>6, SeqOfItsRange
<1> QED BY <1>7, <1>8, <1>9, <1>10 DEF AliaserOK, GivenBy, Once

(* The oldest alias goes, and its id with it                                *)
LEMMA TrimmedOK ==
  ASSUME NEW a, AliaserOK(a), NEW b, b = Trimmed(a)
  PROVE  /\ AliaserOK(b) /\ b.counters = a.counters
         /\ DOMAIN b.by_id \subseteq DOMAIN a.by_id
         /\ \A id \in DOMAIN b.by_id : b.by_id[id] = a.by_id[id]
         /\ \A id \in DOMAIN a.by_id \ DOMAIN b.by_id :
              Len(a.by_alias) > MaxEntries /\ id = Head(a.by_alias).id
<1>0. PICK es : es = a.by_alias /\ es \in Seq(Range(es)) /\ Len(es) \in Nat
  BY DEF AliaserOK
<1>1. CASE Len(es) <= MaxEntries
  BY <1>0, <1>1 DEF Trimmed
<1>2. CASE ~(Len(es) <= MaxEntries)
  <2>1. PICK f, m : f = Tail(es) /\ m = Restrict(a.by_id, DOMAIN a.by_id \ {Head(es).id})
    OBVIOUS
  <2>2. b = [counters |-> a.counters, by_alias |-> f, by_id |-> m]
    BY <1>0, <1>2, <2>1 DEF Trimmed, AliaserOK
  <2>3. es # <<>> /\ Len(es) > MaxEntries
    BY <1>0, <1>2, AliaserAssumption
  <2>4. /\ f \in Seq(Range(es)) /\ DOMAIN f = 1..Len(es) - 1 /\ DOMAIN es = 1..Len(es)
        /\ \A i \in DOMAIN f : f[i] = es[i + 1]
        /\ Head(es) = es[1]
    <3>1. PICK S : S = Range(es) /\ es \in Seq(S)
      BY <1>0
    <3>2. /\ f \in Seq(S) /\ Len(f) = Len(es) - 1 /\ DOMAIN es = 1..Len(es)
          /\ \A i \in 1..Len(f) : f[i] = es[i + 1]
          /\ Head(es) = es[1]
      BY <2>1, <2>3, <3>1
    <3> QED BY <3>1, <3>2
  <2>5. /\ DOMAIN m = DOMAIN a.by_id \ {es[1].id}
        /\ \A id \in DOMAIN m : m[id] = a.by_id[id]
    BY <2>1, <2>4 DEF Restrict
  <2>6. \A i, j \in DOMAIN es : es[i].alias = es[j].alias => i = j
    BY <1>0 DEF AliaserOK
  <2>7. \A i \in DOMAIN es : es[i].id \in DOMAIN a.by_id /\ es[i].alias = a.by_id[es[i].id]
    BY <1>0 DEF AliaserOK
  <2>8. ASSUME NEW i \in DOMAIN f
        PROVE  f[i].id \in DOMAIN m /\ f[i].alias = m[f[i].id]
    <3>1. i + 1 \in DOMAIN es /\ 1 \in DOMAIN es /\ i + 1 # 1 /\ f[i] = es[i + 1]
      BY <1>0, <2>4
    <3>2. es[i + 1].id # es[1].id
      BY <2>6, <2>7, <3>1
    <3> QED BY <2>5, <2>7, <3>1, <3>2
  <2>9. ASSUME NEW i \in DOMAIN f, NEW j \in DOMAIN f, f[i].alias = f[j].alias PROVE i = j
    <3>1. i + 1 \in DOMAIN es /\ j + 1 \in DOMAIN es
      BY <1>0, <2>4
    <3>2. i + 1 = j + 1
      BY <2>4, <2>6, <2>9, <3>1
    <3> QED BY <1>0, <2>4, <3>2
  <2>10. f \in Seq(Range(f))
    BY <2>4, SeqOfItsRange
  <2>11. \A id \in DOMAIN m : GivenBy(b, m[id])
    BY <2>2, <2>5 DEF AliaserOK, GivenBy
  <2>12. AliaserOK(b)
    BY <2>2, <2>8, <2>9, <2>10, <2>11 DEF AliaserOK
  <2> QED BY <1>0, <2>2, <2>3, <2>4, <2>5, <2>12
<1> QED BY <1>0, <1>1, <1>2

(* A new alias has the next number of its kind                              *)
LEMMA MintedNext ==
  ASSUME NEW a, AliaserOK(a), NEW id, id \notin DOMAIN a.by_id, NEW kind \in AliasKinds,
         NEW b, b = Minted(a, id, kind)
  PROVE  /\ AliaserOK(b) /\ b.counters = [a.counters EXCEPT ![kind] = @ + 1]
         /\ id \in DOMAIN b.by_id /\ b.by_id[id] = [kind |-> kind, n |-> a.counters[kind] + 1]
         /\ \A i \in DOMAIN b.by_id \ {id} : i \in DOMAIN a.by_id /\ b.by_id[i] = a.by_id[i]
<1>1. PICK es, alias, last, S :
        /\ es = a.by_alias /\ alias = [kind |-> kind, n |-> a.counters[kind] + 1]
        /\ last = [alias |-> alias, id |-> id] /\ S = Range(es) \cup {last}
  OBVIOUS
<1>2. PICK f, m, ctr, full :
        /\ f = Append(es, last)
        /\ m = [i \in DOMAIN a.by_id \cup {id} |-> IF i = id THEN alias ELSE a.by_id[i]]
        /\ ctr = [a.counters EXCEPT ![kind] = @ + 1]
        /\ full = [counters |-> ctr, by_alias |-> f, by_id |-> m]
  OBVIOUS
<1>3. b = Trimmed(full)
  <2>1. PICK one : one = [a EXCEPT !.counters[kind] = @ + 1]
    OBVIOUS
  <2>2. one = [counters |-> ctr, by_alias |-> es, by_id |-> a.by_id]
    BY <1>1, <1>2, <2>1 DEF AliaserOK
  <2>3. /\ Append(one.by_alias, last) = f
        /\ [i \in DOMAIN one.by_id \cup {id} |-> IF i = id THEN alias ELSE one.by_id[i]] = m
    BY <1>2, <2>2
  <2>4. [one EXCEPT !.by_alias = f, !.by_id = m] = full
    <3>1. PICK two : two = [one EXCEPT !.by_alias = f]
      OBVIOUS
    <3>2. two = [counters |-> ctr, by_alias |-> f, by_id |-> a.by_id]
      BY <2>2, <3>1
    <3>3. [two EXCEPT !.by_id = m] = [counters |-> ctr, by_alias |-> f, by_id |-> m]
      BY <3>2
    <3>4. [one EXCEPT !.by_alias = f, !.by_id = m] = [two EXCEPT !.by_id = m]
      BY <3>1
    <3> QED BY <1>2, <3>3, <3>4
  <2>5. [a EXCEPT !.counters[kind] = @ + 1, !.by_alias = f, !.by_id = m] = full
    BY <2>1, <2>4
  <2>6. Append(a.by_alias, last) = f
    BY <1>1, <1>2
  <2> QED BY <1>1, <1>2, <2>5, <2>6 DEF Minted
<1>4. /\ a.counters \in [AliasKinds -> Nat] /\ a.counters[kind] \in Nat
      /\ ctr \in [AliasKinds -> Nat] /\ \A k \in AliasKinds : a.counters[k] <= ctr[k]
      /\ ctr[kind] = a.counters[kind] + 1
  BY <1>2 DEF AliaserOK
<1>5. es \in Seq(S)
  <2>1. es \in Seq(Range(es))
    BY <1>1 DEF AliaserOK
  <2> QED BY <1>1, <2>1
<1>6. /\ f \in Seq(S) /\ DOMAIN f = 1..Len(es) + 1 /\ DOMAIN es = 1..Len(es) /\ Len(es) \in Nat
      /\ \A i \in DOMAIN es : f[i] = es[i]
      /\ f[Len(es) + 1] = last
  BY <1>1, <1>2, <1>5
<1>7. \A i \in DOMAIN a.by_id : GivenBy(a, a.by_id[i])
  BY DEF AliaserOK
<1>8. alias.kind = kind /\ alias.n = ctr[kind] /\ ~(alias.n <= a.counters[kind])
  BY <1>1, <1>4
<1>9. \A i \in DOMAIN m : GivenBy(full, m[i])
  BY <1>2, <1>4, <1>7, <1>8 DEF GivenBy
<1>10. \A i \in DOMAIN es : /\ es[i].id \in DOMAIN a.by_id /\ es[i].alias = a.by_id[es[i].id]
                            /\ es[i].alias # alias
  BY <1>1, <1>7, <1>8 DEF AliaserOK, GivenBy
<1>11. last.id = id /\ last.alias = alias
  BY <1>1
<1>12. ASSUME NEW i \in DOMAIN f PROVE f[i].id \in DOMAIN m /\ f[i].alias = m[f[i].id]
  <2>1. CASE i \in DOMAIN es
    BY <1>2, <1>6, <1>10, <2>1
  <2>2. CASE i = Len(es) + 1
    BY <1>2, <1>6, <1>11, <2>2
  <2> QED BY <1>6, <2>1, <2>2
<1>13. ASSUME NEW i \in DOMAIN f, NEW j \in DOMAIN f, f[i].alias = f[j].alias PROVE i = j
  BY <1>1, <1>6, <1>10, <1>11, <1>13 DEF AliaserOK
<1>14. f \in Seq(Range(f))
  BY <1>6, SeqOfItsRange
<1>15. AliaserOK(full)
  BY <1>2, <1>4, <1>9, <1>12, <1>13, <1>14 DEF AliaserOK
<1>16. full.by_id = m /\ full.by_alias = f /\ full.counters = ctr
  BY <1>2
<1>17. /\ AliaserOK(b) /\ b.counters = ctr
       /\ DOMAIN b.by_id \subseteq DOMAIN m
       /\ \A i \in DOMAIN b.by_id : b.by_id[i] = m[i]
       /\ \A i \in DOMAIN m \ DOMAIN b.by_id :
              Len(f) > MaxEntries /\ i = Head(f).id
  BY <1>3, <1>15, <1>16, TrimmedOK
<1>18. id \in DOMAIN b.by_id
  <2> SUFFICES ASSUME id \notin DOMAIN b.by_id PROVE FALSE
    OBVIOUS
  <2>1. Len(f) > MaxEntries /\ id = Head(f).id
    BY <1>2, <1>17
  <2>2. 1 \in DOMAIN es /\ Head(f) = es[1]
    BY <1>1, <1>2, <1>5, <1>6, <2>1, AliaserAssumption
  <2> QED BY <1>10, <2>1, <2>2
<1> QED BY <1>1, <1>2, <1>17, <1>18

(* The alias of id after alias_for, and the others the aliaser knows        *)
LEMMA AliasFor ==
  ASSUME NEW a, AliaserOK(a), NEW id, NEW kind \in AliasKinds, NEW b, b = alias_for(a, id, kind)
  PROVE  /\ AliaserOK(b) /\ id \in DOMAIN b.by_id
         /\ \A i \in DOMAIN b.by_id \ {id} : i \in DOMAIN a.by_id /\ b.by_id[i] = a.by_id[i]
         /\ \/ id \in DOMAIN a.by_id /\ b.by_id[id] = a.by_id[id] /\ b.counters = a.counters
            \/ /\ b.counters = [a.counters EXCEPT ![kind] = @ + 1]
               /\ b.by_id[id] = [kind |-> kind, n |-> a.counters[kind] + 1]
<1>1. CASE id \in DOMAIN a.by_id
  BY <1>1, SeenAgain DEF alias_for
<1>2. CASE id \notin DOMAIN a.by_id
  BY <1>2, MintedNext DEF alias_for
<1> QED BY <1>1, <1>2

-----------------------------------------------------------------------------
(* What an answer tells                                                     *)

(* What its user is told                                                    *)
Told(u, told) == {[user |-> u, alias |-> w.alias, id |-> w.id] : w \in told}

(* No user has been told that an alias names two things                     *)
Means(told) == \A v, w \in told : v.user = w.user /\ v.alias = w.alias => v.id = w.id

(* The numbers an aliaser has given are those of the block of its context;  *)
(* those it has not given yet nobody has been told                          *)
BlockStart(x) == x * BlockSize
BlockEnd(x) == (x + 1) * BlockSize

Within(a, x) == \A k \in AliasKinds : a.counters[k] <= BlockEnd(x)
Counts(a, x) ==
  /\ \A k \in AliasKinds : a.counters[k] >= BlockStart(x)
  /\ \A id \in DOMAIN a.by_id : a.by_id[id].n > BlockStart(x)
Fresh(a, x, told) ==
  \A w \in told : \A k \in AliasKinds :
    w.alias.kind = k => w.alias.n \in Nat /\ (w.alias.n <= a.counters[k] \/ w.alias.n > BlockEnd(x))

(* What an aliaser knows its user has been told                             *)
Knows(a, u, told) == \A id \in DOMAIN a.by_id : [user |-> u, alias |-> a.by_id[id], id |-> id] \in told

(* A row of an answer that began with the aliaser a                         *)
RowOK(acc, a, x, u, told) ==
  /\ AliaserOK(acc.aliaser) /\ Counts(acc.aliaser, x)
  /\ Knows(acc.aliaser, u, told \cup Told(u, acc.told))
  /\ \A k \in AliasKinds : a.counters[k] <= acc.aliaser.counters[k]
  /\ \A w \in acc.told : GivenBy(acc.aliaser, w.alias) /\ w.alias.n > BlockStart(x)
  /\ Within(acc.aliaser, x) => Means(told \cup Told(u, acc.told))

(* One more id is named: by the alias it has, or by the next number         *)
LEMMA NamedKeeps ==
  ASSUME NEW x \in Nat, NEW u, NEW told, NEW a, AliaserOK(a), Fresh(a, x, told),
         NEW acc, RowOK(acc, a, x, u, told), NEW id, NEW kind \in AliasKinds
  PROVE  RowOK(Named(acc, id, kind), a, x, u, told)
<1>1. PICK b, alias, new, all, more :
        /\ b = alias_for(acc.aliaser, id, kind) /\ alias = b.by_id[id]
        /\ new = [user |-> u, alias |-> alias, id |-> id]
        /\ all = told \cup Told(u, acc.told) /\ more = acc.told \cup {[alias |-> alias, id |-> id]}
  OBVIOUS
<1>2. PICK old : old = acc.aliaser
  OBVIOUS
<1>3. /\ AliaserOK(old) /\ Counts(old, x) /\ Knows(old, u, all)
      /\ \A k \in AliasKinds : a.counters[k] <= old.counters[k]
      /\ \A w \in acc.told : GivenBy(old, w.alias) /\ w.alias.n > BlockStart(x)
      /\ Within(old, x) => Means(all)
  BY <1>1, <1>2 DEF RowOK
<1>4. /\ AliaserOK(b) /\ id \in DOMAIN b.by_id
      /\ \A i \in DOMAIN b.by_id \ {id} : i \in DOMAIN old.by_id /\ b.by_id[i] = old.by_id[i]
      /\ \/ id \in DOMAIN old.by_id /\ alias = old.by_id[id] /\ b.counters = old.counters
         \/ /\ b.counters = [old.counters EXCEPT ![kind] = @ + 1]
            /\ alias = [kind |-> kind, n |-> old.counters[kind] + 1]
  <2>1. b = alias_for(old, id, kind) /\ AliaserOK(old)
    BY <1>1, <1>2, <1>3
  <2>2. /\ AliaserOK(b) /\ id \in DOMAIN b.by_id
        /\ \A i \in DOMAIN b.by_id \ {id} : i \in DOMAIN old.by_id /\ b.by_id[i] = old.by_id[i]
        /\ \/ id \in DOMAIN old.by_id /\ b.by_id[id] = old.by_id[id] /\ b.counters = old.counters
           \/ /\ b.counters = [old.counters EXCEPT ![kind] = @ + 1]
              /\ b.by_id[id] = [kind |-> kind, n |-> old.counters[kind] + 1]
    BY <2>1, AliasFor
  <2>3. alias = b.by_id[id]
    BY <1>1
  <2> QED BY <2>2, <2>3
<1>5. /\ old.counters \in [AliasKinds -> Nat] /\ b.counters \in [AliasKinds -> Nat]
      /\ a.counters \in [AliasKinds -> Nat]
      /\ BlockStart(x) \in Nat /\ BlockEnd(x) \in Nat
  BY <1>3, <1>4, AliaserAssumption DEF AliaserOK, BlockStart, BlockEnd
<1>6. \A k \in AliasKinds : old.counters[k] <= b.counters[k]
  BY <1>4, <1>5
<1>7. told \cup Told(u, more) = all \cup {new}
  <2>1. PICK one : one = [alias |-> alias, id |-> id] /\ more = acc.told \cup {one}
    BY <1>1
  <2>2. [user |-> u, alias |-> one.alias, id |-> one.id] = new
    BY <1>1, <2>1
  <2>3. Told(u, more) = Told(u, acc.told) \cup {new}
    BY <2>1, <2>2 DEF Told
  <2> QED BY <1>1, <2>3
<1>8. GivenBy(b, alias)
  BY <1>1, <1>4 DEF AliaserOK
<1>9. alias.n > BlockStart(x)
  <2>1. CASE id \in DOMAIN old.by_id /\ alias = old.by_id[id]
    BY <1>3, <2>1 DEF Counts
  <2>2. CASE alias = [kind |-> kind, n |-> old.counters[kind] + 1]
    BY <1>3, <1>5, <2>2 DEF Counts
  <2> QED BY <1>4, <2>1, <2>2
<1>10. Counts(b, x)
  <2>1. \A k \in AliasKinds : b.counters[k] >= BlockStart(x)
    BY <1>3, <1>5, <1>6 DEF Counts
  <2>2. \A i \in DOMAIN b.by_id : b.by_id[i].n > BlockStart(x)
    BY <1>1, <1>3, <1>4, <1>9 DEF Counts
  <2> QED BY <2>1, <2>2 DEF Counts
<1>11. Knows(b, u, all \cup {new})
  BY <1>1, <1>3, <1>4 DEF Knows
<1>12. \A k \in AliasKinds : a.counters[k] <= b.counters[k]
  BY <1>3, <1>5, <1>6
<1>13. ASSUME NEW w \in acc.told PROVE GivenBy(b, w.alias)
  BY <1>3, <1>5, <1>6 DEF GivenBy
<1>14. \A w \in more : GivenBy(b, w.alias) /\ w.alias.n > BlockStart(x)
  BY <1>1, <1>3, <1>8, <1>9, <1>13
<1>15. ASSUME Within(b, x) PROVE Means(all \cup {new})
  <2>1. Within(old, x)
    BY <1>5, <1>6, <1>15 DEF Within
  <2>2. Means(all)
    BY <1>3, <2>1
  <2>3. CASE id \in DOMAIN old.by_id /\ alias = old.by_id[id]
    <3>1. new \in all
      BY <1>1, <1>3, <2>3 DEF Knows
    <3>2. all \cup {new} = all
      BY <3>1
    <3> QED BY <2>2, <3>2
  <2>4. CASE alias = [kind |-> kind, n |-> old.counters[kind] + 1]
               /\ b.counters = [old.counters EXCEPT ![kind] = @ + 1]
    <3>1. /\ alias.kind = kind /\ alias.n = old.counters[kind] + 1
          /\ alias.n <= BlockEnd(x) /\ old.counters[kind] \in Nat
      BY <1>5, <1>15, <2>4 DEF Within
    <3>2. ASSUME NEW w \in told PROVE w.alias # alias
      BY <1>3, <1>5, <3>1 DEF Fresh
    <3>3. ASSUME NEW w \in acc.told PROVE w.alias # alias
      BY <1>3, <3>1 DEF GivenBy
    <3>4. \A w \in all : w.alias # alias
      BY <1>1, <3>2, <3>3 DEF Told
    <3> QED BY <1>1, <2>2, <3>4 DEF Means
  <2> QED BY <1>4, <2>3, <2>4
<1>16. PICK acc2 : acc2 = Named(acc, id, kind)
  OBVIOUS
<1>17. acc2.aliaser = b /\ acc2.told = more
  BY <1>1, <1>16 DEF Named
<1>18. RowOK(acc2, a, x, u, told)
  BY <1>4, <1>7, <1>10, <1>11, <1>12, <1>14, <1>15, <1>17 DEF RowOK
<1> QED BY <1>16, <1>18

(* A row names a folder and a rule, or one of them, or none                 *)
LEMMA RowKeeps ==
  ASSUME NEW x \in Nat, NEW u, NEW told, NEW a, AliaserOK(a), Fresh(a, x, told),
         NEW acc, RowOK(acc, a, x, u, told), NEW row
  PROVE  RowOK(_alias_rule(acc, row), a, x, u, told)
<1>1. "f" \in AliasKinds /\ "r" \in AliasKinds
  BY DEF AliasKinds
<1>2. PICK one : one = IF row.move = NoFolder THEN acc ELSE Named(acc, row.move, "f")
  OBVIOUS
<1>3. RowOK(one, a, x, u, told)
  BY <1>1, <1>2, NamedKeeps
<1>4. RowOK(Named(one, row.rule_id, "r"), a, x, u, told)
  BY <1>1, <1>3, NamedKeeps
<1> QED BY <1>2, <1>3, <1>4 DEF _alias_rule

(* Aliased is what its definition says                                      *)
LEMMA AliasedEach ==
  ASSUME NEW s, Len(s) \in Nat, NEW a
  PROVE  /\ Aliased(a, s)[0] = [aliaser |-> a, told |-> {}]
         /\ \A i \in 1..Len(s) : Aliased(a, s)[i] = _alias_rule(Aliased(a, s)[i - 1], s[i])
<1> DEFINE none == [aliaser |-> a, told |-> {}]
           Is(f, m) == f = [i \in 0..m |-> IF i = 0 THEN none ELSE _alias_rule(f[i - 1], s[i])]
<1>1. \E f : Is(f, Len(s))
  <2> DEFINE S == {m \in Nat : \E f : Is(f, m)}
  <2>1. 0 \in S
    <3>1. Is([i \in 0..0 |-> none], 0)
      OBVIOUS
    <3> QED BY <3>1
  <2>2. ASSUME NEW m \in 1..Len(s), m - 1 \in S PROVE m \in S
    <3>1. PICK f : Is(f, m - 1)
      BY <2>2
    <3>2. PICK g : g = [i \in 0..m |-> IF i < m THEN f[i] ELSE _alias_rule(f[i - 1], s[i])]
      OBVIOUS
    <3>3. \A i \in 0..(m - 1) : f[i] = IF i = 0 THEN none ELSE _alias_rule(f[i - 1], s[i])
      BY <3>1
    <3>4. ASSUME NEW i \in 0..m
          PROVE  g[i] = IF i = 0 THEN none ELSE _alias_rule(g[i - 1], s[i])
      <4>1. CASE i = 0
        <5>1. 0 \in 0..(m - 1) /\ 0 < m /\ 0 \in 0..m
          OBVIOUS
        <5>2. f[0] = none /\ g[0] = f[0]
          BY <3>2, <3>3, <5>1
        <5> QED BY <4>1, <5>2
      <4>2. CASE i \in 1..(m - 1)
        <5>1. g[i] = f[i] /\ g[i - 1] = f[i - 1] /\ i # 0 /\ i \in 0..(m - 1)
          BY <3>2, <4>2
        <5> QED BY <3>3, <5>1
      <4>3. CASE i = m
        <5>1. g[i - 1] = f[i - 1] /\ i # 0
          BY <3>2, <4>3
        <5> QED BY <3>2, <4>3, <5>1
      <4> QED BY <4>1, <4>2, <4>3
    <3>5. g = [i \in 0..m |-> IF i = 0 THEN none ELSE _alias_rule(g[i - 1], s[i])]
      BY <3>2, <3>4
    <3>6. \E h : Is(h, m)
      BY <3>5
    <3> QED BY <3>6
  <2> HIDE DEF S
  <2>3. \A m \in 0..Len(s) : m \in S
    BY <2>1, <2>2, Induction
  <2>4. Len(s) \in S
    BY <2>3
  <2> QED BY <2>4 DEF S
<1>2. Aliased(a, s) = CHOOSE f : Is(f, Len(s))
  BY DEF Aliased
<1>3. Is(Aliased(a, s), Len(s))
  <2> HIDE DEF Is
  <2> QED BY <1>1, <1>2
<1> DEFINE b == Aliased(a, s)
<1>4. 0 \in 0..Len(s) /\ \A i \in 1..Len(s) : i \in 0..Len(s) /\ i # 0
  OBVIOUS
<1>5. Is(b, Len(s))
  BY <1>3
<1> HIDE DEF b
<1>6. b[0] = none /\ \A i \in 1..Len(s) : b[i] = _alias_rule(b[i - 1], s[i])
  BY <1>4, <1>5
<1> QED BY <1>6 DEF b

(* After all the rows                                                       *)
LEMMA RowsKeep ==
  ASSUME NEW x \in Nat, NEW u, NEW told, Means(told),
         NEW a, AliaserOK(a), Counts(a, x), Knows(a, u, told), Fresh(a, x, told),
         NEW s, Len(s) \in Nat
  PROVE  RowOK(Aliased(a, s)[Len(s)], a, x, u, told)
<1> DEFINE S == {i \in 0..Len(s) : RowOK(Aliased(a, s)[i], a, x, u, told)}
<1>1. 0 \in S
  <2>1. PICK acc : acc = [aliaser |-> a, told |-> {}]
    OBVIOUS
  <2>2. acc.aliaser = a /\ acc.told = {} /\ told \cup Told(u, acc.told) = told
    BY <2>1 DEF Told
  <2>3. \A k \in AliasKinds : a.counters[k] <= a.counters[k]
    BY DEF AliaserOK
  <2>4. RowOK(acc, a, x, u, told)
    BY <2>2, <2>3 DEF RowOK
  <2>5. Aliased(a, s)[0] = acc /\ 0 \in 0..Len(s)
    BY <2>1, AliasedEach
  <2> QED BY <2>4, <2>5
<1>2. ASSUME NEW i \in 1..Len(s), i - 1 \in S PROVE i \in S
  <2>1. RowOK(Aliased(a, s)[i - 1], a, x, u, told)
    BY <1>2
  <2>2. RowOK(_alias_rule(Aliased(a, s)[i - 1], s[i]), a, x, u, told)
    BY <2>1, RowKeeps
  <2>3. Aliased(a, s)[i] = _alias_rule(Aliased(a, s)[i - 1], s[i]) 
    BY AliasedEach
  <2>4. i \in 0..Len(s)
    OBVIOUS
  <2> QED BY <2>2, <2>3, <2>4
<1> HIDE DEF S
<1>3. Len(s) \in S
  <2>1. \A i \in 0..Len(s) : i \in S
    BY <1>1, <1>2, Induction
  <2> QED BY <2>1
<1> QED BY <1>3 DEF S

(* The blocks of two contexts have no number in common                      *)
LEMMA Blocks ==
  ASSUME NEW x \in Nat, NEW y \in Nat, x < y
  PROVE  /\ BlockEnd(x) <= BlockStart(y)
         /\ BlockStart(x) \in Nat /\ BlockStart(y) \in Nat
         /\ BlockEnd(x) \in Nat /\ BlockEnd(y) \in Nat
<1>1. PICK d \in Nat : y = (x + 1) + d
  <2>1. y - (x + 1) \in Nat /\ y = (x + 1) + (y - (x + 1))
    OBVIOUS
  <2> QED BY <2>1
<1>2. /\ ((x + 1) + d) * BlockSize = (x + 1) * BlockSize + d * BlockSize
      /\ d * BlockSize \in Nat /\ (x + 1) * BlockSize \in Nat /\ x * BlockSize \in Nat
      /\ (y + 1) * BlockSize \in Nat
  BY AliaserAssumption
<1> QED BY <1>1, <1>2 DEF BlockStart, BlockEnd

-----------------------------------------------------------------------------
(* Which rule an alias names                                                *)

(* A call for a rule has the id its user has been told the alias names      *)
CallKnows(j) ==
  /\ j.tool \in {"update_rule", "delete_rule"} => j.target.kind = "r"
  /\ j.tool \in {"update_rule", "delete_rule"} /\ j.pc \in {"queued", "runs"} =>
       [user |-> j.user, alias |-> j.target, id |-> j.rows[1]] \in shown
  /\ j.pc = "answers" => Len(j.rows) \in Nat

(* An alias is of one context, which has given it                           *)
GivenBySome(w) ==
  \E x \in DOMAIN contexts : GivenBy(contexts[x].aliaser, w.alias) /\ w.alias.n > BlockStart(x)

AliasesOK(x) ==
  /\ AliaserOK(contexts[x].aliaser) /\ Counts(contexts[x].aliaser, x)
  /\ Knows(contexts[x].aliaser, contexts[x].user, shown)

AInv ==
  /\ \A u \in Users : IsFiniteSet(rules[u])
  /\ Means(shown) /\ \A w \in shown : GivenBySome(w)
  /\ \A x \in DOMAIN contexts : AliasesOK(x)
  /\ \A c \in Calls : calls[c] # Idle => CallKnows(calls[c])

(* At the start nobody has been told anything                               *)
LEMMA InitAliases == Init => AInv
<1> SUFFICES ASSUME Init PROVE AInv
  OBVIOUS
<1>1. /\ DOMAIN contexts = {} /\ shown = {} /\ rules = InitRules
      /\ \A c \in Calls : calls[c] = Idle
  BY DEF Init
<1>2. \A u \in Users : IsFiniteSet(rules[u])
  BY <1>1, RulesAssumption
<1> QED BY <1>1, <1>2 DEF AInv, Means

(* A step of one call that gives no alias                                   *)
LEMMA AliasesKept ==
  ASSUME IInv, AInv, NEW c \in Calls, NEW j, CallIs(c, j), j = Idle \/ CallKnows(j),
         DOMAIN contexts' = DOMAIN contexts, shown' = shown,
         \A x \in DOMAIN contexts : contexts'[x].aliaser = contexts[x].aliaser
                                    /\ contexts'[x].user = contexts[x].user,
         \A u \in Users : IsFiniteSet(rules'[u])
  PROVE  AInv'
<1>1. \A d \in Calls : calls'[d] = IF d = c THEN j ELSE calls[d]
  BY DEF CallIs, IInv, Shapes
<1>2. \A d \in Calls : calls'[d] # Idle => CallKnows(calls'[d])
  BY <1>1 DEF AInv
<1>3. \A d \in Calls : calls'[d] # Idle => CallKnows(calls[d])'
  BY <1>2 DEF CallKnows
<1>4. \A w \in shown' : GivenBySome(w)'
  BY DEF AInv, GivenBySome, GivenBy
<1>5. \A x \in DOMAIN contexts' : AliasesOK(x)'
  BY DEF AInv, AliasesOK
<1> QED BY <1>3, <1>4, <1>5 DEF AInv

(* One context changes in its queue or its session                          *)
LEMMA SameAliasers ==
  ASSUME IInv, NEW x \in DOMAIN contexts, NEW k, ContextIs(x, k),
         k.user = contexts[x].user, k.aliaser = contexts[x].aliaser
  PROVE  /\ DOMAIN contexts' = DOMAIN contexts
         /\ \A y \in DOMAIN contexts : contexts'[y].aliaser = contexts[y].aliaser
                                       /\ contexts'[y].user = contexts[y].user
<1>1. /\ DOMAIN contexts' = DOMAIN contexts
      /\ \A y \in DOMAIN contexts : contexts'[y] = IF y = x THEN k ELSE contexts[y]
  BY DEF ContextIs, IInv, Shapes
<1> QED BY <1>1

(* A request that is given up, refused or fails                             *)
LEMMA EndsAliases ==
  ASSUME IInv, AInv, NEW c \in Calls, GivesUp(c) \/ Preview(c) \/ Refuse(c) \/ Fail(c)
  PROVE  AInv'
<1> PICK j : j = Idle
  OBVIOUS
<1>1. CallIs(c, j) /\ UNCHANGED <<contexts, rules, shown>>
  BY DEF GivesUp, Preview, Refuse, Fail, Ended, CallIs, exchange
<1>2. \A u \in Users : IsFiniteSet(rules'[u])
  BY <1>1 DEF AInv
<1> QED BY <1>1, <1>2, AliasesKept

(* An alias that resolves has been told                                     *)
LEMMA Resolved ==
  ASSUME NEW a, AliaserOK(a), NEW u, Knows(a, u, shown), NEW alias, alias.kind = "r",
         resolve(a, alias) # Unknown
  PROVE  [user |-> u, alias |-> alias, id |-> resolve(a, alias)] \in shown
<1>1. IsAlias(alias)
  BY DEF IsAlias, AliasKinds
<1> DEFINE at == {i \in DOMAIN a.by_alias : a.by_alias[i].alias = alias}
<1>2. PICK i : i = CHOOSE j \in DOMAIN a.by_alias : a.by_alias[j].alias = alias
  OBVIOUS
<1>3. \E k \in DOMAIN a.by_alias : a.by_alias[k].alias = alias
  BY <1>1 DEF resolve
<1>4. i \in DOMAIN a.by_alias /\ a.by_alias[i].alias = alias
  BY <1>2, <1>3
<1>5. resolve(a, alias) = a.by_alias[i].id
  BY <1>1, <1>2, <1>3 DEF resolve
<1> QED BY <1>4, <1>5 DEF AliaserOK, Knows

(* A call that goes to the pool has looked its rule up: what it found its   *)
(* user had been told                                                       *)
LEMMA SubmitAliases ==
  ASSUME IInv, AInv, NEW c \in Calls, Submit(c)
  PROVE  AInv'
<1>1. /\ calls[c].pc = "body" /\ calls[c].pc # "idle" /\ calls[c] # Idle
      /\ Known(c) /\ UNCHANGED <<rules, shown>>
  BY DEF Submit, exchange, Idle
<1>2. PICK x, q, k, id, j :
        /\ x = calls[c].ctx /\ q = Append(contexts[x].queue, c)
        /\ k = [contexts[x] EXCEPT !.queue = q] /\ id = resolve(aliaser(c), calls[c].target)
        /\ j = [calls[c] EXCEPT !.pc = "queued", !.rows = <<id>>]
  OBVIOUS
<1>3. /\ IsCall(calls[c]) /\ x \in DOMAIN contexts /\ IsContext(contexts[x])
      /\ calls[c].user = contexts[x].user
  BY <1>1, <1>2, Served DEF Fits
<1>4. ContextIs(x, k) /\ CallIs(c, j)
  BY <1>2 DEF Submit, CallIs, ContextIs
<1>5. k.user = contexts[x].user /\ k.aliaser = contexts[x].aliaser
  BY <1>2, <1>3 DEF IsContext, AsContext
<1>6. /\ j.pc = "queued" /\ j.tool = calls[c].tool /\ j.user = calls[c].user
      /\ j.target = calls[c].target /\ j.rows = <<id>> /\ j.rows[1] = id
  BY <1>2, <1>3 DEF IsCall, AsCall
<1>7. CallKnows(calls[c])
  BY <1>1 DEF AInv
<1>8. ASSUME j.tool \in {"update_rule", "delete_rule"}
      PROVE  [user |-> j.user, alias |-> j.target, id |-> id] \in shown
  <2>1. AliaserOK(aliaser(c)) /\ Knows(aliaser(c), j.user, shown)
    BY <1>2, <1>3, <1>6 DEF AInv, AliasesOK, aliaser
  <2>2. j.target.kind = "r" /\ resolve(aliaser(c), j.target) # Unknown /\ id = resolve(aliaser(c), j.target)
    BY <1>1, <1>2, <1>6, <1>7, <1>8 DEF CallKnows, Known, ByAlias
  <2> QED BY <2>1, <2>2, Resolved
<1>9. CallKnows(j)
  BY <1>6, <1>7, <1>8 DEF CallKnows
<1>10. \A u \in Users : IsFiniteSet(rules'[u])
  BY <1>1 DEF AInv
<1>11. /\ DOMAIN contexts' = DOMAIN contexts
       /\ \A y \in DOMAIN contexts : contexts'[y].aliaser = contexts[y].aliaser
                                     /\ contexts'[y].user = contexts[y].user
  BY <1>3, <1>4, <1>5, SameAliasers
<1> QED BY <1>1, <1>4, <1>9, <1>10, <1>11, AliasesKept

(* A thread begins with what the call has looked up                         *)
LEMMA BeginAliases ==
  ASSUME IInv, AInv, NEW c \in Calls, Begin(c)
  PROVE  AInv'
<1>1. /\ calls[c].pc = "queued" /\ calls[c].pc # "idle" /\ calls[c] # Idle
      /\ UNCHANGED <<rules, shown>>
  BY DEF Begin, exchange, Idle
<1>2. PICK x, q, k, j :
        /\ x = calls[c].ctx /\ q = Tail(contexts[x].queue)
        /\ k = [contexts[x] EXCEPT !.queue = q] /\ j = [calls[c] EXCEPT !.pc = "runs"]
  OBVIOUS
<1>3. IsCall(calls[c]) /\ x \in DOMAIN contexts /\ IsContext(contexts[x])
  BY <1>1, <1>2, Served
<1>4. ContextIs(x, k) /\ CallIs(c, j)
  BY <1>2 DEF Begin, Become, CallIs, ContextIs
<1>5. k.user = contexts[x].user /\ k.aliaser = contexts[x].aliaser
  BY <1>2, <1>3 DEF IsContext, AsContext
<1>6. /\ j.pc = "runs" /\ j.tool = calls[c].tool /\ j.user = calls[c].user
      /\ j.target = calls[c].target /\ j.rows = calls[c].rows
  BY <1>2, <1>3 DEF IsCall, AsCall
<1>7. CallKnows(j)
  BY <1>1, <1>6 DEF AInv, CallKnows
<1>8. \A u \in Users : IsFiniteSet(rules'[u])
  BY <1>1 DEF AInv
<1>9. /\ DOMAIN contexts' = DOMAIN contexts
      /\ \A y \in DOMAIN contexts : contexts'[y].aliaser = contexts[y].aliaser
                                    /\ contexts'[y].user = contexts[y].user
  BY <1>3, <1>4, <1>5, SameAliasers
<1> QED BY <1>1, <1>4, <1>7, <1>8, <1>9, AliasesKept

(* The work of the tools: what Exchange holds stays finite, and what is     *)
(* listed of it a list                                                      *)
LEMMA WorkAliases ==
  ASSUME IInv, AInv, NEW c \in Calls, NEW tool, Works(c, tool), shown' = shown,
         NEW j, CallIs(c, j), CallKnows(j), \A u \in Users : IsFiniteSet(rules'[u])
  PROVE  AInv'
<1>1. PICK x, k : x = calls[c].ctx /\ k = [contexts[x] EXCEPT !.session = TRUE]
  OBVIOUS
<1>2. calls[c].pc # "idle" /\ ContextIs(x, k)
  BY <1>1 DEF Works, ContextIs
<1>3. x \in DOMAIN contexts /\ IsContext(contexts[x])
  BY <1>1, <1>2, Served
<1>4. k.user = contexts[x].user /\ k.aliaser = contexts[x].aliaser
  BY <1>1, <1>3 DEF IsContext, AsContext
<1>5. /\ DOMAIN contexts' = DOMAIN contexts
      /\ \A y \in DOMAIN contexts : contexts'[y].aliaser = contexts[y].aliaser
                                    /\ contexts'[y].user = contexts[y].user
  BY <1>2, <1>3, <1>4, SameAliasers
<1> QED BY <1>5, AliasesKept

(* A call that has its rows                                                 *)
LEMMA AnswersKnows ==
  ASSUME IInv, AInv, NEW c \in Calls, calls[c].pc # "idle",
         NEW rows, Len(rows) \in Nat, Answers(c, rows)
  PROVE  \E j : CallIs(c, j) /\ CallKnows(j)
<1>1. PICK j : j = [calls[c] EXCEPT !.pc = "answers", !.rows = rows]
  OBVIOUS
<1>2. IsCall(calls[c]) /\ calls[c] # Idle
  BY Served DEF Idle
<1>3. j.pc = "answers" /\ j.tool = calls[c].tool /\ j.target = calls[c].target /\ j.rows = rows
  BY <1>1, <1>2 DEF IsCall, AsCall
<1>4. CallKnows(j)
  BY <1>2, <1>3 DEF AInv, CallKnows
<1> QED BY <1>1, <1>4 DEF Answers, CallIs

(* What is listed of finitely many rules has a length                       *)
LEMMA OrderIsList ==
  ASSUME NEW S, IsFiniteSet(S), NEW order \in SetToSeqs(S), NEW rows, DOMAIN rows = DOMAIN order,
         rows = [i \in DOMAIN rows |-> rows[i]]
  PROVE  Len(rows) \in Nat
<1>1. PICK n \in Nat : order \in [1..n -> S]
  BY FS_CardinalityType DEF SetToSeqs
<1>2. DOMAIN rows = 1..n
  BY <1>1
<1>3. rows \in [1..n -> Range(rows)]
  BY <1>2 DEF Range
<1>4. rows \in Seq(Range(rows))
  BY <1>3, FunctionIsSeq
<1> QED BY <1>4

LEMMA ToolsAliases ==
  ASSUME IInv, AInv, NEW c \in Calls, Work(c)
  PROVE  AInv'
<1>1. PICK u : u = Mailbox(c)
  OBVIOUS
<1>2. /\ rules = [v \in Users |-> rules[v]] /\ \A v \in Users : IsFiniteSet(rules[v])
  BY DEF IInv, Shapes, AInv
<1>3. CASE Fail(c)
  BY <1>3, EndsAliases
<1>4. CASE ListRules(c)
  <2>0. calls[c].pc # "idle" /\ Works(c, "list_rules") /\ UNCHANGED <<rules, shown>>
    BY <1>4 DEF ListRules, Works
  <2>1. u \in Users
    BY <1>1, <2>0, OwnMailbox
  <2>2. PICK order \in SetToSeqs(rules[u]) :
          Answers(c, [i \in DOMAIN order |-> parse_rule_element(order[i])])
    BY <1>1, <1>4 DEF ListRules
  <2>3. PICK rows : rows = [i \in DOMAIN order |-> parse_rule_element(order[i])]
    OBVIOUS
  <2>4. IsFiniteSet(rules[u]) /\ DOMAIN rows = DOMAIN order /\ rows = [i \in DOMAIN rows |-> rows[i]]
    BY <1>2, <2>1, <2>3
  <2>5. Len(rows) \in Nat
    BY <2>4, OrderIsList
  <2>6. PICK j : CallIs(c, j) /\ CallKnows(j)
    BY <2>0, <2>2, <2>3, <2>5, AnswersKnows
  <2> QED BY <1>2, <2>0, <2>6, WorkAliases
<1>5. CASE CreateRule(c)
  <2>1. calls[c].pc = "runs" /\ calls[c].pc # "idle" /\ calls[c] # Idle
        /\ calls[c].tool = "create_rule" /\ Works(c, "create_rule") /\ shown' = shown
    BY <1>5 DEF CreateRule, Works, Idle
  <2>2. u \in Users
    BY <1>1, <2>1, OwnMailbox
  <2>3. PICK new : rules' = [rules EXCEPT ![u] = @ \cup {new}]
    BY <1>1, <1>5 DEF CreateRule
  <2>4. \A v \in Users : IsFiniteSet(rules'[v])
    <3>1. IsFiniteSet(rules[u] \cup {new})
      BY <1>2, <2>2, FS_AddElement
    <3> QED BY <1>2, <2>2, <2>3, <3>1
  <2>5. PICK j : j = [calls[c] EXCEPT !.pc = "finds"]
    OBVIOUS
  <2>6. IsCall(calls[c])
    BY <2>1, Served
  <2>7. j.pc = "finds" /\ j.tool = calls[c].tool /\ j.target = calls[c].target
    BY <2>5, <2>6 DEF IsCall, AsCall
  <2>8. CallKnows(j)
    BY <2>1, <2>7 DEF CallKnows
  <2>9. CallIs(c, j)
    BY <1>5, <2>5 DEF CreateRule, Become, CallIs
  <2> QED BY <2>1, <2>4, <2>8, <2>9, WorkAliases
<1>6. CASE FindRule(c)
  <2>1. calls[c].pc # "idle" /\ UNCHANGED <<contexts, rules, shown>>
    BY <1>6 DEF FindRule, exchange
  <2>2. PICK row : Answers(c, <<row>>)
    BY <1>6 DEF FindRule
  <2>3. Len(<<row>>) \in Nat
    OBVIOUS
  <2>4. PICK j : CallIs(c, j) /\ CallKnows(j)
    BY <2>1, <2>2, <2>3, AnswersKnows
  <2>5. \A v \in Users : IsFiniteSet(rules'[v])
    BY <1>2, <2>1
  <2> QED BY <2>1, <2>4, <2>5, AliasesKept
<1>7. CASE UpdateRule(c)
  <2>1. calls[c].pc # "idle" /\ Works(c, "update_rule") /\ shown' = shown
    BY <1>7 DEF UpdateRule, Works
  <2>2. u \in Users
    BY <1>1, <2>1, OwnMailbox
  <2>3. PICK held, new : rules' = [rules EXCEPT ![u] = (@ \ held) \cup {new}]
    BY <1>1, <1>7 DEF UpdateRule
  <2>4. \A v \in Users : IsFiniteSet(rules'[v])
    <3>1. IsFiniteSet(rules[u] \ held)
      BY <1>2, <2>2, FS_Subset
    <3>2. IsFiniteSet((rules[u] \ held) \cup {new})
      BY <3>1, FS_AddElement
    <3> QED BY <1>2, <2>2, <2>3, <3>2
  <2>5. PICK row : Answers(c, <<row>>)
    BY <1>7 DEF UpdateRule
  <2>6. Len(<<row>>) \in Nat
    OBVIOUS
  <2>7. PICK j : CallIs(c, j) /\ CallKnows(j)
    BY <2>1, <2>5, <2>6, AnswersKnows
  <2> QED BY <2>1, <2>4, <2>7, WorkAliases
<1>8. CASE DeleteRule(c)
  <2>1. calls[c].pc # "idle" /\ Works(c, "delete_rule") /\ shown' = shown
    BY <1>8 DEF DeleteRule, Works
  <2>2. u \in Users
    BY <1>1, <2>1, OwnMailbox
  <2>3. PICK held : rules' = [rules EXCEPT ![u] = @ \ held]
    BY <1>1, <1>8 DEF DeleteRule
  <2>4. \A v \in Users : IsFiniteSet(rules'[v])
    <3>1. IsFiniteSet(rules[u] \ held)
      BY <1>2, <2>2, FS_Subset
    <3> QED BY <1>2, <2>2, <2>3, <3>1
  <2>5. PICK rows : Answers(c, rows) /\ rows = <<>> /\ Len(rows) \in Nat
    BY <1>8 DEF DeleteRule
  <2>6. PICK j : CallIs(c, j) /\ CallKnows(j)
    BY <2>1, <2>5, AnswersKnows
  <2> QED BY <2>1, <2>4, <2>6, WorkAliases
<1> QED BY <1>3, <1>4, <1>5, <1>6, <1>7, <1>8 DEF Work

(* A new password changes no alias                                          *)
LEMMA PasswordAliases ==
  ASSUME IInv, AInv, NEW u \in Users, NewPassword(u)
  PROVE  AInv'
<1>1. UNCHANGED <<contexts, calls, rules, shown>>
  BY DEF NewPassword
<1> QED BY <1>1 DEF AInv, GivenBySome, AliasesOK, CallKnows

(* A number an aliaser has not given yet, nobody has been told              *)
LEMMA StillFresh ==
  ASSUME IInv, AInv, WithinBlocks, NEW x \in DOMAIN contexts
  PROVE  Fresh(contexts[x].aliaser, x, shown)
<1>1. \A y \in DOMAIN contexts : y \in Nat
  BY DEF IInv, Shapes
<1>2. ASSUME NEW w \in shown, NEW k \in AliasKinds, w.alias.kind = k
      PROVE  w.alias.n \in Nat /\ (w.alias.n <= contexts[x].aliaser.counters[k] \/ w.alias.n > BlockEnd(x))
  <2>1. PICK y \in DOMAIN contexts : GivenBy(contexts[y].aliaser, w.alias) /\ w.alias.n > BlockStart(y)
    BY DEF AInv, GivenBySome
  <2>2. PICK cx, cy, n : /\ cx = contexts[x].aliaser.counters[k]
                         /\ cy = contexts[y].aliaser.counters[k]
                         /\ n = w.alias.n
    OBVIOUS
  <2>3. /\ cx \in Nat /\ cy \in Nat /\ n \in Nat /\ n <= cy /\ n > BlockStart(y)
        /\ cx >= BlockStart(x) /\ cx <= BlockEnd(x) /\ cy <= BlockEnd(y)
    BY <1>2, <2>1, <2>2 DEF AInv, AliasesOK, AliaserOK, Counts, GivenBy, WithinBlocks, BlockEnd
  <2>4. BlockStart(x) \in Nat /\ BlockEnd(x) \in Nat /\ BlockStart(y) \in Nat /\ BlockEnd(y) \in Nat
    BY <1>1, AliaserAssumption DEF BlockStart, BlockEnd
  <2>5. CASE x = y
    BY <2>2, <2>3, <2>5
  <2>6. CASE y < x
    <3>1. BlockEnd(y) <= BlockStart(x)
      BY <1>1, <2>6, Blocks
    <3> QED BY <2>2, <2>3, <2>4, <3>1
  <2>7. CASE x < y
    <3>1. BlockEnd(x) <= BlockStart(y)
      BY <1>1, <2>7, Blocks
    <3> QED BY <2>2, <2>3, <2>4, <3>1
  <2> QED BY <1>1, <2>5, <2>6, <2>7
<1> QED BY <1>2 DEF Fresh

(* An answer gives aliases of one context, to its user                      *)
LEMMA AnswerAliases ==
  ASSUME IInv, AInv, WithinBlocks, WithinBlocks', NEW c \in Calls, Answer(c)
  PROVE  AInv'
<1>1. PICK x, a, s, acc, u, k :
        /\ x = calls[c].ctx /\ a = aliaser(c) /\ s = calls[c].rows
        /\ acc = Aliased(a, s)[Len(s)] /\ u = calls[c].user
        /\ k = [contexts[x] EXCEPT !.aliaser = acc.aliaser]
  OBVIOUS
<1>2. calls[c].pc = "answers" /\ calls[c].pc # "idle" /\ calls[c] # Idle
  BY DEF Answer, Idle
<1>3. /\ x \in DOMAIN contexts /\ IsContext(contexts[x]) /\ contexts[x].user = u
      /\ Len(s) \in Nat /\ a = contexts[x].aliaser /\ DOMAIN contexts \subseteq Nat
  BY <1>1, <1>2, Served DEF Fits, AInv, CallKnows, aliaser, IInv, Shapes
<1>4. /\ calls' = [calls EXCEPT ![c] = Idle] /\ contexts' = [contexts EXCEPT ![x] = k]
      /\ shown' = shown \cup Told(u, acc.told) /\ rules' = rules
  BY <1>1 DEF Answer, Ended, Told, exchange
<1>5. /\ DOMAIN contexts' = DOMAIN contexts
      /\ \A y \in DOMAIN contexts : contexts'[y] = IF y = x THEN k ELSE contexts[y]
  BY <1>4 DEF IInv, Shapes
<1>6. k.user = u /\ k.aliaser = acc.aliaser
  BY <1>1, <1>3 DEF IsContext, AsContext
<1>7. RowOK(acc, a, x, u, shown)
  <2>1. AliaserOK(a) /\ Counts(a, x) /\ Knows(a, u, shown) /\ Means(shown)
    BY <1>3 DEF AInv, AliasesOK
  <2>2. Fresh(a, x, shown)
    BY <1>3, StillFresh
  <2> QED BY <1>1, <1>3, <2>1, <2>2, RowsKeep
<1>8. Means(shown')
  <2>1. Within(acc.aliaser, x)
    BY <1>3, <1>5, <1>6 DEF WithinBlocks, Within, BlockEnd
  <2> QED BY <1>4, <1>7, <2>1 DEF RowOK
<1>9. ASSUME NEW w \in shown' PROVE GivenBySome(w)'
  <2>1. CASE w \in shown
    <3>1. PICK y \in DOMAIN contexts : GivenBy(contexts[y].aliaser, w.alias) /\ w.alias.n > BlockStart(y)
      BY <2>1 DEF AInv, GivenBySome
    <3>2. GivenBy(contexts'[y].aliaser, w.alias)
      <4>1. CASE y # x
        BY <1>5, <3>1, <4>1
      <4>2. CASE y = x
        <5>1. /\ a.counters \in [AliasKinds -> Nat] /\ acc.aliaser.counters \in [AliasKinds -> Nat]
              /\ \A kind \in AliasKinds : a.counters[kind] <= acc.aliaser.counters[kind]
          BY <1>3, <1>7 DEF RowOK, AInv, AliasesOK, AliaserOK
        <5>2. GivenBy(a, w.alias)
          BY <1>3, <3>1, <4>2
        <5>3. GivenBy(acc.aliaser, w.alias)
          BY <5>1, <5>2 DEF GivenBy
        <5> QED BY <1>5, <1>6, <3>1, <4>2, <5>3
      <4> QED BY <4>1, <4>2
    <3> QED BY <1>5, <3>1, <3>2 DEF GivenBySome
  <2>2. CASE w \in Told(u, acc.told)
    <3>1. PICK v \in acc.told : w.alias = v.alias
      BY <2>2 DEF Told
    <3>2. GivenBy(contexts'[x].aliaser, w.alias) /\ w.alias.n > BlockStart(x)
      BY <1>3, <1>5, <1>6, <1>7, <3>1 DEF RowOK
    <3> QED BY <1>3, <1>5, <3>2 DEF GivenBySome
  <2> QED BY <1>4, <2>1, <2>2
<1>10. ASSUME NEW y \in DOMAIN contexts' PROVE AliasesOK(y)'
  <2>1. CASE y = x
    <3>1. AliaserOK(acc.aliaser) /\ Counts(acc.aliaser, x) /\ Knows(acc.aliaser, u, shown')
      BY <1>4, <1>7 DEF RowOK
    <3> QED BY <1>3, <1>5, <1>6, <2>1, <3>1 DEF AliasesOK
  <2>2. CASE y # x
    <3>1. AliasesOK(y) /\ contexts'[y] = contexts[y] /\ shown \subseteq shown'
      BY <1>4, <1>5, <2>2 DEF AInv
    <3> QED BY <3>1 DEF AliasesOK, Knows
  <2> QED BY <2>1, <2>2
<1>11. ASSUME NEW d \in Calls, calls'[d] # Idle PROVE CallKnows(calls[d])' 
  <2>1. calls'[d] = calls[d] /\ shown \subseteq shown'
    BY <1>4, <1>11 DEF IInv, Shapes
  <2>2. CallKnows(calls[d])
    BY <1>11, <2>1 DEF AInv
  <2> QED BY <2>1, <2>2 DEF CallKnows
<1> QED BY <1>4, <1>8, <1>9, <1>10, <1>11 DEF AInv

(* A context that is built begins a block of its own                        *)
LEMMA NewBlock ==
  ASSUME NEW n \in Nat, NEW u
  PROVE  /\ AliaserOK(NewAliaser(n)) /\ Counts(NewAliaser(n), n)
         /\ Knows(NewAliaser(n), u, shown)
<1>1. PICK a, ctr : a = NewAliaser(n) /\ ctr = [k \in AliasKinds |-> n * BlockSize]
  OBVIOUS
<1>2. a = [counters |-> ctr, by_alias |-> <<>>, by_id |-> <<>>]
  BY <1>1 DEF NewAliaser
<1>3. n * BlockSize \in Nat
  BY AliaserAssumption
<1>4. /\ a.counters = ctr /\ a.by_alias = <<>> /\ a.by_id = <<>>
      /\ DOMAIN a.by_id = {} /\ DOMAIN a.by_alias = {}
  BY <1>2
<1>5. <<>> \in Seq(Range(<<>>))
  BY EmptySeq
<1>6. AliaserOK(a)
  BY <1>1, <1>2, <1>3, <1>4, <1>5 DEF AliaserOK
<1>7. Counts(a, n)
  BY <1>1, <1>3, <1>4 DEF Counts, BlockStart
<1> QED BY <1>1, <1>4, <1>6, <1>7 DEF Knows

(* A request that arrives keeps the aliasers there are, and may build one   *)
LEMMA ArriveAliases ==
  ASSUME IInv, AInv, NEW c \in Calls, Arrive(c)
  PROVE  AInv'
<1>1. PICK j, x, es, u, s, stale : Arrives(c, j, x, es, u, s, stale)
  BY ArrivesAs
<1>2. PICK closed : closed = Dropped(es)
  OBVIOUS
<1>3. rules' = rules /\ shown' = shown
  BY DEF Arrive, exchange
<1>4. PICK n \in Nat : n = Len(contexts) /\ DOMAIN contexts = 1..n
  BY DEF IInv, Shapes
<1>5. x \in 1..Len(contexts) + 1
  <2>1. PICK g : g = get(u, s, stale)
    OBVIOUS
  <2>2. x = g.ctx /\ stale \in 0..Len(entries)
    BY <1>1, <2>1 DEF Arrives
  <2> QED BY <2>1, <2>2, GetAnswers
<1>6. /\ Len(contexts') \in Nat /\ contexts' \in Seq(Range(contexts'))
      /\ DOMAIN contexts' = DOMAIN contexts \cup {x}
      /\ \A y \in DOMAIN contexts :
           contexts'[y] = IF y \in closed THEN Shut(contexts[y]) ELSE contexts[y]
      /\ x \notin DOMAIN contexts => contexts'[x] = _build(u, s)
  <2>1. contexts' = close(contexts, closed) \o Built(x, u, s)
    BY <1>1, <1>2 DEF Arrives
  <2> QED BY <1>5, <2>1, ContextsGrow
<1>7. ASSUME NEW y \in DOMAIN contexts
      PROVE  contexts'[y].aliaser = contexts[y].aliaser /\ contexts'[y].user = contexts[y].user
  <2>1. IsContext(contexts[y])
    BY DEF IInv, Shapes
  <2>2. Shut(contexts[y]).aliaser = contexts[y].aliaser /\ Shut(contexts[y]).user = contexts[y].user
    BY <2>1 DEF IsContext, AsContext, Shut
  <2> QED BY <1>6, <2>2
<1>8. ASSUME NEW y \in DOMAIN contexts' PROVE AliasesOK(y)'
  <2>1. CASE y \in DOMAIN contexts
    BY <1>3, <1>7, <2>1 DEF AInv, AliasesOK
  <2>2. CASE y \notin DOMAIN contexts
    <3>1. y = n + 1 /\ contexts'[y] = _build(u, s)
      BY <1>4, <1>5, <1>6, <2>2
    <3>2. contexts'[y].aliaser = NewAliaser(n + 1) /\ contexts'[y].user = u
      BY <1>4, <3>1 DEF _build
    <3>3. /\ AliaserOK(NewAliaser(n + 1)) /\ Counts(NewAliaser(n + 1), n + 1)
          /\ Knows(NewAliaser(n + 1), u, shown)
      BY NewBlock
    <3> QED BY <1>3, <3>1, <3>2, <3>3 DEF AliasesOK
  <2> QED BY <2>1, <2>2
<1>9. ASSUME NEW w \in shown' PROVE GivenBySome(w)'
  <2>1. PICK y \in DOMAIN contexts : GivenBy(contexts[y].aliaser, w.alias) /\ w.alias.n > BlockStart(y)
    BY <1>3 DEF AInv, GivenBySome
  <2> QED BY <1>6, <1>7, <2>1 DEF GivenBySome
<1>10. ASSUME NEW d \in Calls, calls'[d] # Idle PROVE CallKnows(calls[d])'
  <2>1. calls' = [Cancelled(closed) EXCEPT ![c] = j] /\ Asks(j, x, u, s)
    BY <1>1, <1>2 DEF Arrives
  <2>2. calls'[d] = IF d = c THEN j ELSE Cancelled(closed)[d]
    BY <2>1 DEF Cancelled
  <2>3. CASE d = c
    BY <2>1, <2>2, <2>3 DEF Asks, CallKnows
  <2>4. CASE d # c
    <3>1. calls'[d] = calls[d]
      BY <1>10, <2>2, <2>4 DEF Cancelled
    <3> QED BY <1>3, <1>10, <3>1 DEF AInv, CallKnows
  <2> QED BY <2>3, <2>4
<1>11. Means(shown') /\ \A v \in Users : IsFiniteSet(rules'[v])
  BY <1>3 DEF AInv
<1> QED BY <1>8, <1>9, <1>10, <1>11 DEF AInv

(* Every step keeps what the aliases name                                   *)
LEMMA NextAliases == IInv /\ AInv /\ WithinBlocks /\ WithinBlocks' /\ [Next]_vars => AInv'
<1> SUFFICES ASSUME IInv, AInv, WithinBlocks, WithinBlocks', [Next]_vars PROVE AInv'
  OBVIOUS
<1>1. CASE UNCHANGED vars
  BY <1>1 DEF vars, AInv, GivenBySome, AliasesOK, CallKnows
<1>2. ASSUME NEW u \in Users, NewPassword(u) PROVE AInv'
  BY <1>2, PasswordAliases
<1>3. ASSUME NEW c \in Calls, Arrive(c) PROVE AInv'
  BY <1>3, ArriveAliases
<1>4. ASSUME NEW c \in Calls, GivesUp(c) \/ Preview(c) \/ Refuse(c) PROVE AInv'
  BY <1>4, EndsAliases
<1>5. ASSUME NEW c \in Calls, Submit(c) PROVE AInv'
  BY <1>5, SubmitAliases
<1>6. ASSUME NEW c \in Calls, Begin(c) PROVE AInv'
  BY <1>6, BeginAliases
<1>7. ASSUME NEW c \in Calls, Work(c) PROVE AInv'
  BY <1>7, ToolsAliases
<1>8. ASSUME NEW c \in Calls, Answer(c) PROVE AInv'
  BY <1>8, AnswerAliases
<1> QED BY <1>1, <1>2, <1>3, <1>4, <1>5, <1>6, <1>7, <1>8 DEF Next

(* As long as no context gives more aliases of a kind than its block has,   *)
(* an update or a delete of a rule reaches only the rule its caller has     *)
(* always been told the alias names.                                        *)
THEOREM HitsHolds == Spec /\ []WithinBlocks => HitsWhatWasShown
<1>1. ASSUME IInv, AInv, NEW c \in Calls, Updates(c) \/ Deletes(c),
             NEW w \in shown, w.user = calls[c].user, w.alias = calls[c].target
      PROVE  w.id = Target(c)
  <2>1. /\ calls[c].pc = "runs" /\ calls[c] # Idle
        /\ calls[c].tool \in {"update_rule", "delete_rule"}
    BY <1>1 DEF Updates, Deletes, Does, Idle
  <2>2. PICK v \in shown : v = [user |-> calls[c].user, alias |-> calls[c].target, id |-> calls[c].rows[1]]
    BY <1>1, <2>1 DEF AInv, CallKnows
  <2> QED BY <1>1, <2>2 DEF AInv, Means, Target
<1>2. IInv /\ AInv /\ [Next]_vars =>
        [\A c \in Calls : Updates(c) \/ Deletes(c) =>
           \A w \in shown : w.user = calls[c].user /\ w.alias = calls[c].target
             => w.id = Target(c)]_vars
  BY <1>1
<1> QED BY <1>2, InitAliases, NextAliases, InductiveInv, PTL DEF Spec, HitsWhatWasShown
=============================================================================
