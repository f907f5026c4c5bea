--------------------------- MODULE SendGate_proofs ---------------------------
(***************************************************************************)
(* What the gate chain guarantees for any number of concurrent requests,    *)
(* any calls, drafts, bodies and settings, and with no bound on time.       *)
(*                                                                          *)
(* The inductive invariant says what a request that has come this far must  *)
(* have behind it (JobOK), and what the record of every effect at Exchange  *)
(* shows (EntryOK).  A request's invariant survives the steps of the        *)
(* others because tokens are never unshown, the log only grows and a        *)
(* draft's content never changes under an old change key (Onward).          *)
(*                                                                          *)
(* Two more invariants stand on it: a token that was used is one of the     *)
(* consumed until it has expired (TokensOK), and _send_times is the end of  *)
(* the record of all slots, which are at least as many as the sends made    *)
(* and on their way (SlotsOK).                                              *)
(***************************************************************************)
EXTENDS SendGate, FiniteSetTheorems, SequenceTheorems, WellFoundedInduction, TLAPS

Quiet == {"cancel_event", "update_draft", "delete_draft"}

Entries == [call : Calls, tok : shown \union {NoToken},
            seen : Versions \union {NoSeen}, got : Versions \union {NoSeen}]

Shapes ==
  /\ draft \in [Drafts -> Versions]
  /\ job \in [Requests -> Jobs]
  /\ log \in Seq(Entries)

(* A token that was shown for this call and this content                    *)
Bound(e) == e.tok \in shown /\ e.tok = TokenFor(e.call, e.seen, e.tok.exp)

(* What the request saw of its draft is a version the draft has had         *)
Recent(j) ==
  LET d == draft[j.call.h.item] IN
  /\ j.seen \in Versions
  /\ j.seen.ver <= d.ver
  /\ j.seen.ver = d.ver => j.seen.body = d.body

JobOK(j) ==
  /\ j.pc # "idle" => j.call \in Calls
  /\ j.pc \in {"preview", "gate"} => j.call.tool = "send_draft" /\ sendEnabled
  /\ j.pc = "gate" => Recent(j)
  /\ j.pc = "work" =>
       /\ j.call.tool \in Confirmed => Bound(j)
       /\ j.call.tool = "send_draft" => Recent(j) /\ j.seen.body.rcpt \notin Blocked
       /\ sendEnabled \/ j.call.tool \in Quiet
  /\ j.pc = "done" => \E i \in DOMAIN log : log[i].call = j.call

EntryOK(e) ==
  /\ e.call.tool \in Confirmed => Bound(e)
  /\ /\ Sent(e)
     /\ \/ ContentHash(e.got.body) # e.tok.hash
        \/ e.got.body.rcpt \in Blocked
     => e.got.ver > e.seen.ver
  /\ sendEnabled \/ e.call.tool \in Quiet

IInv ==
  /\ Shapes
  /\ \A r \in Requests : JobOK(job[r])
  /\ \A i \in DOMAIN log : EntryOK(log[i])
  /\ ReceiptsAreTruthful

-----------------------------------------------------------------------------
(* What every step keeps                                                    *)

(* No token is unshown, no effect forgotten, no content changes silently    *)
Onward ==
  /\ sendEnabled' = sendEnabled
  /\ shown \subseteq shown'
  /\ draft' \in [Drafts -> Versions]
  /\ \A d \in Drafts :
       /\ draft[d].ver <= draft'[d].ver
       /\ draft[d].ver = draft'[d].ver => draft[d].body = draft'[d].body
  /\ \A i \in DOMAIN log : i \in DOMAIN log' /\ log'[i] = log[i]

(* A request that waits keeps its part of the invariant.                    *)
LEMMA JobStays ==
  ASSUME Shapes, Onward, NEW j \in Jobs, JobOK(j)
  PROVE  JobOK(j)'
<1>1. Bound(j) => Bound(j)'
  BY DEF Bound, Onward, TokenFor
<1>2. ASSUME j.call \in Calls, j.call.tool = "send_draft", Recent(j)
      PROVE  Recent(j)'
  <2>1. j.call.h.item \in Drafts
    BY <1>2, CallsAssumption DEF NeedsDraft
  <2>2. draft[j.call.h.item] \in Versions /\ draft'[j.call.h.item] \in Versions
    BY <2>1 DEF Shapes, Onward
  <2> QED
    BY <1>2, <2>1, <2>2 DEF Recent, Onward, Versions
<1>3. (\E i \in DOMAIN log : log[i].call = j.call)
        => (\E i \in DOMAIN log' : log'[i].call = j.call)
  BY DEF Onward
<1> QED
  BY <1>1, <1>2, <1>3 DEF JobOK, Onward

(* What an entry of the log shows stays true.                               *)
LEMMA EntryStays ==
  ASSUME Onward, NEW e, EntryOK(e)
  PROVE  EntryOK(e)'
BY DEF EntryOK, Onward, Bound, TokenFor, Sent

(* The shapes only grow with the tokens shown.                              *)
LEMMA TypesGrow ==
  ASSUME Onward
  PROVE  Jobs \subseteq Jobs' /\ Entries \subseteq Entries'
BY DEF Onward, Jobs, Entries

(* Other requests keep their invariant, so a step need only be checked for  *)
(* the request that takes it.                                               *)
LEMMA OneMoves ==
  ASSUME Shapes, Onward, \A r \in Requests : JobOK(job[r]),
         NEW r \in Requests, NEW j \in Jobs', JobOK(j)',
         job' = [job EXCEPT ![r] = j]
  PROVE  /\ job' \in [Requests -> Jobs']
         /\ (\A q \in Requests : JobOK(job[q]))'
<1>1. job \in [Requests -> Jobs] /\ Jobs \subseteq Jobs'
  BY TypesGrow DEF Shapes
<1>2. job' \in [Requests -> Jobs']
  BY <1>1
<1>3. ASSUME NEW q \in Requests
      PROVE  JobOK(job[q])'
  <2>1. PICK k \in Jobs : k = job[q]
    BY <1>1
  <2>2. JobOK(k)
    BY <2>1
  <2>3. JobOK(k)'
    BY <2>2, JobStays
  <2>4. job'[q] = IF q = r THEN j ELSE k
    BY <1>1, <2>1
  <2>5. job'[q] = j \/ job'[q] = k
    BY <2>4
  <2> QED
    BY <2>3, <2>5 DEF JobOK, Recent, Bound
<1> QED
  BY <1>2, <1>3

(* A step that does not log keeps the log's part.                           *)
LEMMA LogStays ==
  ASSUME Shapes, Onward, log' = log, \A i \in DOMAIN log : EntryOK(log[i])
  PROVE  log' \in Seq(Entries') /\ (\A i \in DOMAIN log : EntryOK(log[i]))'
<1>1. log' \in Seq(Entries')
  <2>1. Seq(Entries) \subseteq Seq(Entries')
    BY TypesGrow
  <2> QED
    BY <2>1 DEF Shapes
<1>2. ASSUME NEW i \in DOMAIN log
      PROVE  EntryOK(log[i])'
  <2>1. PICK e : e = log[i]
    OBVIOUS
  <2>2. EntryOK(e)'
    BY <2>1, EntryStays
  <2> QED
    BY <2>1, <2>2 DEF EntryOK, Bound, Sent
<1> QED
  BY <1>1, <1>2

Expiring == \A k \in Keys : receipts'[k] \in {receipts[k], NoReceipt}

(* Receipts that only expire keep their send in the log.                    *)
LEMMA ReceiptsStay ==
  ASSUME Onward, ReceiptsAreTruthful, Expiring
  PROVE  ReceiptsAreTruthful'
<1> SUFFICES ASSUME NEW k \in Keys, receipts'[k] # NoReceipt
             PROVE  \E i \in DOMAIN log' :
                      /\ Sent(log'[i]) /\ log'[i].call.key = k
                      /\ Resolve(log'[i].call.h) = receipts'[k].h
  BY DEF ReceiptsAreTruthful, Sent, Resolve
<1>1. receipts'[k] = receipts[k]
  BY DEF Expiring
<1>2. PICK i \in DOMAIN log :
        /\ Sent(log[i]) /\ log[i].call.key = k
        /\ Resolve(log[i].call.h) = receipts[k].h
  BY <1>1 DEF ReceiptsAreTruthful
<1> QED
  BY <1>1, <1>2 DEF Onward

(* Pruning the receipts lets some expire and adds none.                     *)
LEMMA FreshExpires == receipts' = FreshReceipts => Expiring
BY DEF FreshReceipts, Fresh, Expiring

(* A step without an effect at Exchange goes onward.                        *)
LEMMA SteadyOnward ==
  ASSUME Shapes, UNCHANGED <<sendEnabled, draft, log>>, shown \subseteq shown'
  PROVE  Onward
<1>1. \A d \in Drafts : draft[d].ver \in Nat
  BY DEF Shapes, Versions
<1> QED
  BY <1>1 DEF Onward, Shapes

(* A step of request r without an effect at Exchange                        *)
LEMMA StepInv ==
  ASSUME IInv, UNCHANGED <<sendEnabled, draft, log>>, shown \subseteq shown', Expiring,
         NEW r \in Requests, NEW j \in Jobs', JobOK(j)',
         job' = [job EXCEPT ![r] = j]
  PROVE  IInv'
<1>1. Shapes /\ Onward
  BY SteadyOnward DEF IInv
<1>2. job' \in [Requests -> Jobs'] /\ (\A q \in Requests : JobOK(job[q]))'
  BY <1>1, OneMoves DEF IInv
<1>3. log' \in Seq(Entries') /\ (\A i \in DOMAIN log : EntryOK(log[i]))'
  BY <1>1, LogStays DEF IInv
<1>4. ReceiptsAreTruthful'
  BY <1>1, ReceiptsStay DEF IInv
<1>5. Shapes'
  BY <1>1, <1>2, <1>3 DEF Shapes
<1> QED
  BY <1>2, <1>3, <1>4, <1>5 DEF IInv

(* A request that ends leaves nothing to show.                              *)
LEMMA FinishInv ==
  ASSUME IInv, UNCHANGED <<sendEnabled, draft, log>>, shown \subseteq shown', Expiring,
         NEW r \in Requests, Finish(r)
  PROVE  IInv'
<1>1. Idle \in Jobs' /\ JobOK(Idle)'
  BY DEF Idle, Jobs, JobOK
<1> QED
  BY <1>1, StepInv DEF Finish

-----------------------------------------------------------------------------
(* The gates                                                                *)

Working(c, tok, seen) == [pc |-> "work", call |-> c, tok |-> tok, seen |-> seen]

(* A call that passes the handler's own checks has what a working request   *)
(* must have                                                                *)
Cleared(c, tok, seen) ==
  (c.tool = "send_draft" => Prior(c) = NoReceipt) /\ (c.tool = "create_event" => sendEnabled)
    => JobOK(Working(c, tok, seen))'

(* A cleared request enters its handler, or is answered.                    *)
LEMMA EnterInv ==
  ASSUME IInv, UNCHANGED <<sendEnabled, draft, log>>, shown \subseteq shown',
         NEW r \in Requests, NEW c \in Calls, NEW tok \in shown' \union {NoToken},
         NEW seen \in Versions \union {NoSeen},
         Cleared(c, tok, seen), Enter(r, c, tok, seen)
  PROVE  IInv'
<1>1. Expiring
  BY FreshExpires DEF Enter, Expiring
<1>2. CASE Finish(r)
  BY <1>1, <1>2, FinishInv
<1>3. CASE /\ c.tool = "send_draft" => Prior(c) = NoReceipt
           /\ c.tool = "create_event" => sendEnabled
           /\ Goto(r, "work", c, tok, seen)
  <2>1. Working(c, tok, seen) \in Jobs' /\ JobOK(Working(c, tok, seen))'
    BY <1>3 DEF Working, Jobs, Cleared
  <2> QED
    BY <1>1, <1>3, <2>1, StepInv DEF Goto, Working
<1> QED
  BY <1>2, <1>3 DEF Enter

(* The rate cap lets a cleared request on, or ends it.                      *)
LEMMA RateGuardInv ==
  ASSUME IInv, UNCHANGED <<sendEnabled, draft, log>>, shown \subseteq shown',
         NEW r \in Requests, NEW c \in Calls, NEW tok \in shown' \union {NoToken},
         NEW seen \in Versions \union {NoSeen},
         Cleared(c, tok, seen), RateGuard(r, c, tok, seen)
  PROVE  IInv'
<1>1. CASE Enter(r, c, tok, seen)
  BY <1>1, EnterInv
<1>2. CASE Finish(r) /\ UNCHANGED receipts
  <2>1. Expiring
    BY <1>2 DEF Expiring
  <2> QED
    BY <1>2, <2>1, FinishInv
<1> QED
  BY <1>1, <1>2 DEF RateGuard

(* The gate lets on only requests with a token bound to them.               *)
LEMMA ConfirmGateInv ==
  ASSUME IInv, UNCHANGED <<sendEnabled, draft, log>>,
         NEW r \in Requests, NEW c \in Calls, NEW tok \in shown \union {NoToken},
         NEW seen \in Versions \union {NoSeen},
         Bound(Working(c, tok, seen)) => Cleared(c, tok, seen),
         ConfirmGate(r, c, tok, seen)
  PROVE  IInv'
<1>1. ASSUME Finish(r), UNCHANGED receipts, shown \subseteq shown'
      PROVE  IInv'
  <2>1. Expiring
    BY <1>1 DEF Expiring
  <2> QED
    BY <1>1, <2>1, FinishInv
<1>2. CASE tok = NoToken
  BY <1>1, <1>2 DEF ConfirmGate, Mint
<1>3. CASE RejectToken(r, tok, c, seen)
  BY <1>1, <1>3 DEF RejectToken
<1>4. CASE tok # NoToken /\ AcceptToken(r, tok, c, seen)
  <2>1. Bound(Working(c, tok, seen))
    BY <1>4 DEF AcceptToken, Verified, Bound, Working
  <2>2. shown' = shown /\ RateGuard(r, c, tok, seen)
    BY <1>4 DEF AcceptToken
  <2> QED
    BY <2>1, <2>2, RateGuardInv
<1> QED
  BY <1>2, <1>3, <1>4 DEF ConfirmGate

-----------------------------------------------------------------------------
(* The actions                                                              *)

(* A request that fetches its preview.                                      *)
LEMMA StartPreviewInv ==
  ASSUME IInv, NEW r \in Requests, NEW c \in Calls, NEW tok \in shown \union {NoToken},
         StartPreview(r, c, tok)
  PROVE  IInv'
<1> DEFINE j == [pc |-> "preview", call |-> c, tok |-> tok, seen |-> NoSeen]
<1>1. Expiring
  BY FreshExpires DEF StartPreview, Expiring
<1>2. c.tool = "send_draft" /\ sendEnabled
  BY DEF StartPreview, HasPreview, Call, Admitted, SideEffect
<1>3. UNCHANGED <<sendEnabled, draft, log, shown>> /\ job' = [job EXCEPT ![r] = j]
  BY DEF StartPreview, history, Goto
<1>4. j \in Jobs'
  BY <1>3 DEF Jobs
<1>5. JobOK(j)'
  BY <1>2, <1>3 DEF JobOK
<1> HIDE DEF j
<1> QED
  BY <1>1, <1>3, <1>4, <1>5, StepInv

(* A request confirmed on its literal arguments.                            *)
LEMMA ConfirmLiteralInv ==
  ASSUME IInv, NEW r \in Requests, NEW c \in Calls, NEW tok \in shown \union {NoToken},
         ConfirmLiteral(r, c, tok)
  PROVE  IInv'
<1>1. UNCHANGED <<sendEnabled, draft, log>> /\ ConfirmGate(r, c, tok, NoSeen)
  BY DEF ConfirmLiteral
<1>2. c.tool \in {"respond_to_event", "cancel_event", "create_event"}
  BY DEF ConfirmLiteral, ConfirmNeeded, HasPreview, Confirmed
<1>3. c.tool = "respond_to_event" => sendEnabled
  BY DEF ConfirmLiteral, Call, Admitted, SideEffect
<1>4. shown \subseteq shown'
  BY <1>1 DEF ConfirmGate, Mint, RejectToken, AcceptToken
<1>5. Bound(Working(c, tok, NoSeen)) => Cleared(c, tok, NoSeen)
  BY <1>1, <1>2, <1>3, <1>4 DEF Cleared, JobOK, Working, Bound, Quiet, TokenFor
<1> QED
  BY <1>1, <1>5, ConfirmGateInv

(* A request that needs no confirmation.                                    *)
LEMMA StartUngatedInv ==
  ASSUME IInv, NEW r \in Requests, NEW c \in Calls, StartUngated(r, c)
  PROVE  IInv'
<1>1. UNCHANGED <<sendEnabled, draft, log, shown>> /\ RateGuard(r, c, NoToken, NoSeen)
  BY DEF StartUngated
<1>2. \/ c.tool \notin Confirmed
      \/ c.tool = "send_draft" /\ Prior(c) # NoReceipt
  BY DEF StartUngated, ConfirmNeeded
<1>3. c.tool \in Tools
  BY CallsAssumption
<1>4. Cleared(c, NoToken, NoSeen)
  BY <1>1, <1>2, <1>3 DEF Cleared, JobOK, Working, Quiet, Tools, Confirmed
<1> QED
  BY <1>1, <1>4, RateGuardInv

(* A preview has seen a version the draft has.                              *)
LEMMA FetchPreviewInv ==
  ASSUME IInv, NEW r \in Requests, FetchPreview(r)
  PROVE  IInv'
<1>1. job[r] \in Jobs /\ job[r].pc = "preview" /\ JobOK(job[r])
  BY DEF IInv, Shapes, FetchPreview
<1>2. PICK c \in Calls, tok \in shown \union {NoToken} :
        c = job[r].call /\ tok = job[r].tok /\ c.tool = "send_draft"
  BY <1>1 DEF JobOK, Jobs
<1>3. PICK d \in Versions : d = draft[c.h.item]
  BY <1>2, CallsAssumption DEF NeedsDraft, IInv, Shapes
<1> DEFINE J(pc, seen) == [pc |-> pc, call |-> c, tok |-> tok, seen |-> seen]
<1>4. UNCHANGED <<sendEnabled, draft, log, shown>> /\ Expiring
  BY DEF FetchPreview, server, history, Expiring
<1>5. \/ job' = [job EXCEPT ![r] = J("gate", d)]
      \/ job' = [job EXCEPT ![r] = J("refused", NoSeen)]
      \/ job' = [job EXCEPT ![r] = J("failed", NoSeen)]
  BY <1>2, <1>3 DEF FetchPreview, Reach, Goto
<1>6. J("gate", d) \in Jobs' /\ JobOK(J("gate", d))'
  <2>1. J("gate", d) \in Jobs'
    BY <1>4 DEF Jobs
  <2>2. sendEnabled'
    BY <1>1, <1>4 DEF JobOK
  <2>3. Recent(J("gate", d))'
    BY <1>3, <1>4 DEF Recent, Versions
  <2> QED
    BY <1>2, <2>1, <2>2, <2>3 DEF JobOK
<1>7. ASSUME NEW pc \in {"refused", "failed"}
      PROVE  J(pc, NoSeen) \in Jobs' /\ JobOK(J(pc, NoSeen))'
  BY <1>4 DEF Jobs, JobOK
<1>8. ASSUME NEW k \in Jobs', JobOK(k)', job' = [job EXCEPT ![r] = k]
      PROVE  IInv'
  BY <1>4, <1>8, StepInv
<1> HIDE DEF J
<1> QED
  BY <1>5, <1>6, <1>7, <1>8

(* A preview that is back on the loop.                                      *)
LEMMA ResumeGateInv ==
  ASSUME IInv, NEW r \in Requests, ResumeGate(r)
  PROVE  IInv'
<1>1. job[r] \in Jobs /\ job[r].pc = "gate" /\ JobOK(job[r])
  BY DEF IInv, Shapes, ResumeGate
<1>2. PICK c \in Calls, tok \in shown \union {NoToken}, seen \in Versions :
        /\ c = job[r].call /\ tok = job[r].tok /\ seen = job[r].seen
        /\ c.tool = "send_draft" /\ sendEnabled /\ Recent(job[r])
  BY <1>1 DEF JobOK, Jobs, Recent
<1>3. UNCHANGED <<sendEnabled, draft, log>>
  BY DEF ResumeGate, history
<1>4. CASE Finish(r) /\ UNCHANGED <<server, history>>
  BY <1>3, <1>4, FinishInv DEF server, history, Expiring
<1>5. CASE seen.body.rcpt \notin Blocked /\ ConfirmGate(r, c, tok, seen)
  <2>1. shown \subseteq shown'
    BY <1>5 DEF ConfirmGate, Mint, RejectToken, AcceptToken
  <2>2. Bound(Working(c, tok, seen)) => Bound(Working(c, tok, seen))'
    BY <2>1 DEF Bound, Working, TokenFor
  <2>3. Recent(Working(c, tok, seen))'
    BY <1>2, <1>3 DEF Recent, Working
  <2>4. Bound(Working(c, tok, seen)) => Cleared(c, tok, seen)
    BY <1>2, <1>3, <1>5, <2>2, <2>3 DEF Cleared, JobOK, Working
  <2> QED
    BY <1>2, <1>3, <1>5, <2>4, ConfirmGateInv
<1> QED
  BY <1>2, <1>4, <1>5 DEF ResumeGate

(* A handler that refused or failed leaves no new receipt.                  *)
LEMMA ResumeInv ==
  ASSUME IInv, NEW r \in Requests,
         ResumeRefused(r) \/ ResumeFailed(r)
  PROVE  IInv'
<1>1. UNCHANGED <<sendEnabled, draft, log, shown>> /\ Expiring /\ Finish(r)
  BY DEF ResumeRefused, ResumeFailed, server, history, Expiring
<1> QED
  BY <1>1, FinishInv

(* The receipt of a completed send is backed by the log.                    *)
LEMMA ResumeDoneInv ==
  ASSUME IInv, NEW r \in Requests, ResumeDone(r)
  PROVE  IInv'
<1> DEFINE c == job[r].call
<1>1. UNCHANGED <<sendEnabled, draft, log, shown>> /\ Finish(r) /\ StoreReceipt(c)
  BY DEF ResumeDone, history
<1>2. JobOK(job[r]) /\ job[r].pc = "done"
  BY DEF IInv, ResumeDone
<1>3. PICK i \in DOMAIN log : log[i].call = c
  BY <1>2 DEF JobOK
<1>4. Shapes /\ Onward
  BY <1>1, SteadyOnward DEF IInv
<1>5. Idle \in Jobs' /\ JobOK(Idle)'
  BY DEF Idle, Jobs, JobOK
<1>6. job' \in [Requests -> Jobs'] /\ (\A q \in Requests : JobOK(job[q]))'
  BY <1>1, <1>4, <1>5, OneMoves DEF IInv, Finish
<1>7. log' \in Seq(Entries') /\ (\A k \in DOMAIN log : EntryOK(log[k]))'
  BY <1>1, <1>4, LogStays DEF IInv
<1>8. ReceiptsAreTruthful'
  <2>1. CASE UNCHANGED receipts
    BY <1>1, <1>4, <2>1, ReceiptsStay DEF IInv, Expiring
  <2>2. CASE /\ Sent(log[i])
             /\ receipts' = PutReceipt(c.key, [h |-> Resolve(c.h), ts |-> now])
    <3> SUFFICES ASSUME NEW k \in Keys, receipts'[k] # NoReceipt
                 PROVE  \E n \in DOMAIN log :
                          /\ Sent(log[n]) /\ log[n].call.key = k
                          /\ Resolve(log[n].call.h) = receipts'[k].h
      BY <1>1 DEF ReceiptsAreTruthful, Sent, Resolve
    <3>1. CASE k = c.key
      BY <1>3, <2>2, <3>1 DEF PutReceipt
    <3>2. CASE k # c.key
      <4>1. receipts'[k] = receipts[k]
        BY <2>2, <3>2 DEF PutReceipt
      <4> QED
        BY <4>1 DEF IInv, ReceiptsAreTruthful
    <3> QED
      BY <3>1, <3>2
  <2> QED
    BY <1>1, <1>3, <2>1, <2>2 DEF StoreReceipt, Sent
<1> QED
  BY <1>1, <1>4, <1>6, <1>7, <1>8 DEF IInv, Shapes

(* An edit under a new change key takes every draft onward.                 *)
LEMMA DraftOnward ==
  ASSUME Shapes, UNCHANGED <<sendEnabled, shown>>,
         \A n \in DOMAIN log : n \in DOMAIN log' /\ log'[n] = log[n],
         NEW d \in Drafts, NEW v \in Versions,
         v.ver > draft[d].ver \/ (v.ver = draft[d].ver /\ v.body = draft[d].body),
         draft' = [draft EXCEPT ![d] = v]
  PROVE  Onward
<1>1. \A e \in Drafts : draft[e].ver \in Nat
  BY DEF Shapes, Versions
<1>2. draft \in [Drafts -> Versions] /\ draft' \in [Drafts -> Versions]
  BY DEF Shapes
<1>3. ASSUME NEW e \in Drafts
      PROVE  /\ draft[e].ver <= draft'[e].ver
             /\ draft[e].ver = draft'[e].ver => draft[e].body = draft'[e].body
  <2>1. CASE e = d
    <3>1. draft'[e] = v
      BY <1>2, <2>1
    <3>2. v.ver \in Nat /\ draft[d].ver \in Nat
      BY <1>1 DEF Versions
    <3> QED
      BY <2>1, <3>1, <3>2
  <2>2. CASE e # d
    BY <1>1, <1>2, <2>2
  <2> QED
    BY <2>1, <2>2
<1> QED
  BY <1>2, <1>3 DEF Onward

(* A handler leaves the draft with a new key or as it was.                  *)
LEMMA AfterType ==
  ASSUME NEW c \in Calls, NeedsDraft(c.tool), NEW d \in Versions
  PROVE  /\ After(c, d) \in Versions
         /\ \/ After(c, d).ver > d.ver
            \/ After(c, d).ver = d.ver /\ After(c, d).body = d.body
<1>1. CASE c.tool = "update_draft"
  <2>1. c.body \in Bodies
    BY <1>1, CallsAssumption
  <2> QED
    BY <1>1, <2>1 DEF After, Edited, Versions
<1>2. CASE c.tool \in {"send_draft", "delete_draft"}
  BY <1>2 DEF After, Versions
<1> QED
  BY <1>1, <1>2 DEF NeedsDraft

(* The handler's effect: logged, with what the request must have had.       *)
LEMMA WorkDoneInv ==
  ASSUME IInv, NEW r \in Requests, NEW c \in Calls, NEW tok \in shown \union {NoToken},
         NEW seen \in Versions \union {NoSeen}, NEW d \in Versions \union {NoSeen},
         NEW pc \in {"done", "failed"},
         JobOK(Working(c, tok, seen)),
         NeedsDraft(c.tool) => d = draft[c.h.item],
         Onward, shown' = shown, receipts' = receipts,
         log' = Append(log, [call |-> c, tok |-> tok, seen |-> seen, got |-> d]),
         Goto(r, pc, c, tok, seen)
  PROVE  IInv'
<1> DEFINE e == [call |-> c, tok |-> tok, seen |-> seen, got |-> d]
           j == [pc |-> pc, call |-> c, tok |-> tok, seen |-> seen]
<1>1. Shapes /\ log \in Seq(Entries) /\ e \in Entries /\ Entries \subseteq Entries'
  BY TypesGrow DEF IInv, Shapes, Entries
<1>2. log' \in Seq(Entries') /\ Len(log') = Len(log) + 1
  BY <1>1
<1>3. log'[Len(log) + 1] = e /\ DOMAIN log' = 1..Len(log) + 1
  BY <1>1
<1>4. ASSUME NEW n \in DOMAIN log
      PROVE  n \in DOMAIN log' /\ log'[n] = log[n]
  BY DEF Onward
<1>5. EntryOK(e)
  <2>1. c.tool \in Confirmed => Bound(e)
    BY DEF JobOK, Working, Bound
  <2>2. sendEnabled \/ c.tool \in Quiet
    BY DEF JobOK, Working
  <2>3. ASSUME c.tool = "send_draft",
               ContentHash(d.body) # tok.hash \/ d.body.rcpt \in Blocked
        PROVE  d.ver > seen.ver
    <3>1. d = draft[c.h.item] /\ d \in Versions
      BY <1>1, <2>3, CallsAssumption DEF NeedsDraft, Shapes
    <3>2. /\ seen \in Versions /\ seen.ver <= d.ver
          /\ seen.ver = d.ver => seen.body = d.body
          /\ seen.body.rcpt \notin Blocked
      BY <2>3, <3>1 DEF JobOK, Working, Recent
    <3>3. tok.hash = ContentHash(seen.body)
      BY <2>1, <2>3 DEF Bound, TokenFor, HasPreview, Confirmed
    <3>4. seen.ver # d.ver
      BY <2>3, <3>2, <3>3
    <3> QED
      BY <3>1, <3>2, <3>4 DEF Versions
  <2> QED
    BY <2>1, <2>2, <2>3 DEF EntryOK, Sent
<1>6. EntryOK(e)'
  BY <1>5, EntryStays
<1>7. ASSUME NEW n \in DOMAIN log'
      PROVE  EntryOK(log[n])'
  <2>1. CASE n \in DOMAIN log
    <3>1. PICK x : x = log[n]
      OBVIOUS
    <3>2. EntryOK(x)'
      BY <2>1, <3>1, EntryStays DEF IInv
    <3>3. x = log'[n]
      BY <2>1, <3>1, <1>4
    <3> QED
      BY <3>2, <3>3 DEF EntryOK, Bound, Sent
  <2>2. CASE n = Len(log) + 1
    <3>1. log'[n] = e
      BY <1>3, <2>2
    <3> HIDE DEF e
    <3> QED
      BY <1>6, <3>1 DEF EntryOK, Bound, Sent
  <2> QED
    BY <1>1, <1>3, <2>1, <2>2
<1>8. j \in Jobs'
  BY DEF Jobs
<1>9. JobOK(j)'
  <2>1. \E n \in DOMAIN log' : log'[n].call = c
    BY <1>1, <1>3
  <2> QED
    BY <2>1 DEF JobOK
<1>10. job' \in [Requests -> Jobs'] /\ (\A q \in Requests : JobOK(job[q]))'
  <2> HIDE DEF j
  <2>1. job' = [job EXCEPT ![r] = j]
    BY DEF Goto, j
  <2> QED
    BY <1>1, <1>8, <1>9, <2>1, OneMoves DEF IInv
<1>11. ReceiptsAreTruthful'
  BY ReceiptsStay DEF IInv, Expiring
<1> QED
  BY <1>2, <1>7, <1>10, <1>11 DEF IInv, Shapes, Onward

(* Every outcome of a handler's work at Exchange.                           *)
LEMMA WorkInv ==
  ASSUME IInv, NEW r \in Requests, Work(r)
  PROVE  IInv'
<1>1. job[r] \in Jobs /\ job[r].pc = "work" /\ JobOK(job[r]) /\ Shapes
  BY DEF IInv, Shapes, Work
<1>2. PICK c \in Calls, tok \in shown \union {NoToken}, seen \in Versions \union {NoSeen} :
        c = job[r].call /\ tok = job[r].tok /\ seen = job[r].seen
  BY <1>1 DEF JobOK, Jobs
<1>3. JobOK(Working(c, tok, seen))
  BY <1>1, <1>2 DEF JobOK, Working, Bound, Recent
<1>4. UNCHANGED <<sendEnabled, shown, receipts>>
  BY DEF Work, server
<1>5. PICK d : d = IF NeedsDraft(c.tool) THEN draft[c.h.item] ELSE NoSeen
  OBVIOUS
<1>6. d \in Versions \union {NoSeen} /\ (NeedsDraft(c.tool) => d \in Versions /\ c.h.item \in Drafts)
  BY <1>1, <1>5, CallsAssumption DEF Shapes
<1>7. ASSUME NEW pc \in {"done", "failed"}, Goto(r, pc, c, tok, seen),
             draft' = IF NeedsDraft(c.tool)
                      THEN [draft EXCEPT ![c.h.item] = After(c, @)] ELSE draft,
             log' = Append(log, [call |-> c, tok |-> tok, seen |-> seen, got |-> d])
      PROVE  IInv'
  <2>1. \A n \in DOMAIN log : n \in DOMAIN log' /\ log'[n] = log[n]
    <3> DEFINE e == [call |-> c, tok |-> tok, seen |-> seen, got |-> d]
    <3>1. log \in Seq(Entries) /\ e \in Entries
      BY <1>1, <1>6 DEF Shapes, Entries
    <3> HIDE DEF e
    <3> QED
      BY <1>7, <3>1 DEF e
  <2>2. Onward
    <3>1. CASE NeedsDraft(c.tool)
      <4>1. draft' = [draft EXCEPT ![c.h.item] = After(c, d)]
        BY <1>5, <1>7, <3>1
      <4>2. /\ After(c, d) \in Versions
            /\ \/ After(c, d).ver > draft[c.h.item].ver
               \/ /\ After(c, d).ver = draft[c.h.item].ver
                  /\ After(c, d).body = draft[c.h.item].body
        BY <1>5, <1>6, <3>1, AfterType
      <4> QED
        BY <1>1, <1>4, <1>6, <2>1, <3>1, <4>1, <4>2, DraftOnward
    <3>2. CASE ~NeedsDraft(c.tool)
      <4>1. \A e \in Drafts : draft[e].ver \in Nat
        BY <1>1 DEF Shapes, Versions
      <4> QED
        BY <1>1, <1>4, <1>7, <2>1, <3>2, <4>1 DEF Onward, Shapes
    <3> QED
      BY <3>1, <3>2
  <2> QED
    BY <1>3, <1>4, <1>5, <1>6, <1>7, <2>2, WorkDoneInv
<1>8. ASSUME NEW pc \in {"refused", "failed"}, Goto(r, pc, c, tok, seen),
             UNCHANGED <<draft, log>>
      PROVE  IInv'
  <2> DEFINE j == [pc |-> pc, call |-> c, tok |-> tok, seen |-> seen]
  <2>1. j \in Jobs' /\ JobOK(j)'
    BY <1>4 DEF Jobs, JobOK
  <2>2. Expiring
    BY <1>4 DEF Expiring
  <2>3. job' = [job EXCEPT ![r] = j]
    BY <1>8 DEF Goto
  <2> HIDE DEF j
  <2> QED
    BY <1>4, <1>8, <2>1, <2>2, <2>3, StepInv
<1> QED
  BY <1>2, <1>5, <1>7, <1>8 DEF Work, Reach

(* An edit by another client gives the draft a new key.                     *)
LEMMA OutlookEditInv ==
  ASSUME IInv, NEW d \in Drafts, NEW b \in Bodies, OutlookEdit(d, b)
  PROVE  IInv'
<1> DEFINE v == Edited(draft[d], b)
<1>1. Shapes /\ draft[d] \in Versions
  BY DEF IInv, Shapes
<1>2. v \in Versions /\ v.ver > draft[d].ver
  BY <1>1 DEF Versions, Edited
<1>3. UNCHANGED <<sendEnabled, shown, log, job, receipts>>
  BY DEF OutlookEdit, server, history
<1>4. draft' = [draft EXCEPT ![d] = v]
  BY DEF OutlookEdit
<1>5. Onward
  <2> HIDE DEF v
  <2> QED
    BY <1>1, <1>2, <1>3, <1>4, DraftOnward
<1>6. (\A r \in Requests : JobOK(job[r]))'
  <2> SUFFICES ASSUME NEW r \in Requests
               PROVE  JobOK(job[r])'
    OBVIOUS
  <2>1. PICK j \in Jobs : j = job[r]
    BY <1>1 DEF Shapes
  <2>2. JobOK(j)'
    BY <1>1, <1>5, <2>1, JobStays DEF IInv
  <2> QED
    BY <1>3, <2>1, <2>2 DEF JobOK, Recent, Bound
<1>7. log' \in Seq(Entries') /\ (\A i \in DOMAIN log : EntryOK(log[i]))'
  BY <1>1, <1>3, <1>5, LogStays DEF IInv
<1>8. ReceiptsAreTruthful'
  BY <1>3, <1>5, ReceiptsStay DEF IInv, Expiring
<1>9. job' \in [Requests -> Jobs']
  BY <1>1, <1>3, <1>5, TypesGrow DEF Shapes
<1> QED
  BY <1>5, <1>6, <1>7, <1>8, <1>9 DEF IInv, Shapes, Onward

(* Time and stuttering change nothing the invariant speaks of.              *)
LEMMA StillInv ==
  ASSUME IInv, UNCHANGED <<sendEnabled, draft, job, receipts, shown, log>>
  PROVE  IInv'
<1>1. Shapes' /\ Jobs' = Jobs
  BY DEF IInv, Shapes, Jobs, Entries
<1>2. (\A r \in Requests : JobOK(job[r]))'
  BY DEF IInv, JobOK, Recent, Bound
<1>3. (\A i \in DOMAIN log : EntryOK(log[i]))'
  BY DEF IInv, EntryOK, Bound, Sent
<1>4. ReceiptsAreTruthful'
  BY DEF IInv, ReceiptsAreTruthful, Sent
<1> QED
  BY <1>1, <1>2, <1>3, <1>4 DEF IInv

(* A server that has just started.                                          *)
LEMMA InitInv == Init => IInv
<1> SUFFICES ASSUME Init
             PROVE  IInv
  OBVIOUS
<1>1. draft \in [Drafts -> Versions]
  BY DEF Init, Versions
<1>2. job \in [Requests -> Jobs]
  BY DEF Init, Idle, Jobs
<1>3. log \in Seq(Entries) /\ DOMAIN log = {}
  BY DEF Init
<1>4. \A r \in Requests : JobOK(job[r])
  BY DEF Init, Idle, JobOK
<1>5. ReceiptsAreTruthful
  BY DEF Init, ReceiptsAreTruthful
<1> QED
  BY <1>1, <1>2, <1>3, <1>4, <1>5 DEF IInv, Shapes

(* The invariant behind the first theorems: jobs and log.                   *)
LEMMA Invariant == Spec => []IInv
<1>1. IInv /\ [Next]_vars => IInv'
  <2> SUFFICES ASSUME IInv, [Next]_vars
               PROVE  IInv'
    OBVIOUS
  <2>1. ASSUME NEW r \in Requests, NEW c \in Calls, NEW tok \in shown \union {NoToken},
               StartPreview(r, c, tok) \/ ConfirmLiteral(r, c, tok)
        PROVE  IInv'
    BY <2>1, StartPreviewInv, ConfirmLiteralInv
  <2>2. ASSUME NEW r \in Requests, NEW c \in Calls, StartUngated(r, c)
        PROVE  IInv'
    BY <2>2, StartUngatedInv
  <2>3. ASSUME NEW r \in Requests, FetchPreview(r) \/ ResumeGate(r)
        PROVE  IInv'
    BY <2>3, FetchPreviewInv, ResumeGateInv
  <2>4. ASSUME NEW r \in Requests, Work(r)
        PROVE  IInv'
    BY <2>4, WorkInv
  <2>5. ASSUME NEW r \in Requests, ResumeDone(r) \/ ResumeRefused(r) \/ ResumeFailed(r)
        PROVE  IInv'
    BY <2>5, ResumeDoneInv, ResumeInv
  <2>6. ASSUME NEW d \in Drafts, NEW b \in Bodies, OutlookEdit(d, b)
        PROVE  IInv'
    BY <2>6, OutlookEditInv
  <2>7. CASE Tick
    BY <2>7, StillInv DEF Tick, server, history
  <2>8. CASE UNCHANGED vars
    BY <2>8, StillInv DEF vars, server, history
  <2> QED
    BY <2>1, <2>2, <2>3, <2>4, <2>5, <2>6, <2>7, <2>8 DEF Next
<1> QED
  BY InitInv, <1>1, PTL DEF Spec

-----------------------------------------------------------------------------
(* Slots and tokens: the stores of the gates against their histories        *)

IsSend(c) == SideEffect(c.tool) = "send"

(* Requests that were given a slot and have not reached Exchange            *)
Holding == {r \in Requests : job[r].pc = "work" /\ IsSend(job[r].call)}
SentOut == {i \in DOMAIN log : IsSend(log[i].call)}

StoresOK ==
  /\ sendEnabled \in BOOLEAN /\ now \in Nat
  /\ sendTimes \in Seq(0..now) /\ (Cap > 0 => Len(sendTimes) <= Cap)
  /\ receipts \in [Keys -> [h : Handles, ts : 0..now] \union {NoReceipt}]
  /\ failures \in Nat /\ (failures > 0 => failures < Threshold)
  /\ openUntil \in 0..now + OpenFor
  /\ rated \in Seq(0..now)

(* How many calls that got a slot have left the window                      *)
Gone == Len(rated) - Len(sendTimes)

(* _SEND_TIMES is the recent end of the slots given, all before it are out  *)
(* of the window, and every send at Exchange or under way has a slot.       *)
SlotsOK ==
  Cap > 0 =>
    /\ Len(rated) >= Len(sendTimes)
    /\ \A i \in DOMAIN sendTimes : sendTimes[i] = rated[Gone + i]
    /\ \A i \in 1..Gone : now - rated[i] > Window
    /\ \A i \in DOMAIN rated : i + Cap \in DOMAIN rated => rated[i + Cap] - rated[i] > Window
    /\ IsFiniteSet(Holding)
    /\ Cardinality(SentOut) + Cardinality(Holding) <= Len(rated)

(* A token that was accepted is on record until the instant it expires.     *)
TokensOK ==
  /\ \A t \in shown : t.exp \in Nat
  /\ consumed \subseteq shown
  /\ uses \in Seq([tok : shown, at : 0..now])
  /\ \A j \in DOMAIN uses : uses[j].tok \in consumed \/ now > 2 * uses[j].tok.exp
  /\ SingleUseUntilExpiry

(* The settings are natural numbers.                                        *)
LEMMA Settings == /\ Ttl \in Nat /\ Cap \in Nat /\ Window \in Nat
                  /\ IdemTtl \in Nat /\ OpenFor \in Nat
BY SettingsAssumption

(* What _rate_guard's eviction leaves is the end of _SEND_TIMES, and what   *)
(* it pops is older than the window.                                        *)
LEMMA KeptFacts ==
  ASSUME StoresOK
  PROVE  \E n \in 0..Len(sendTimes) :
           /\ \A i \in 1..n : now - sendTimes[i] > Window
           /\ RecentSends \in Seq(0..now)
           /\ Len(RecentSends) = Len(sendTimes) - n
           /\ DOMAIN RecentSends = 1 .. Len(sendTimes) - n
           /\ \A i \in 1 .. Len(sendTimes) - n : RecentSends[i] = sendTimes[n + i]
<1> DEFINE L == Len(sendTimes)
           Stops(n) == n < L => now - sendTimes[n + 1] <= Window
           Pops(n) == (\A i \in 1..n : now - sendTimes[i] > Window) /\ Stops(n)
           Good == {n \in 0..L : Stops(n)}
<1>1. /\ L \in Nat /\ now \in Nat /\ Window \in Nat /\ DOMAIN sendTimes = 1..L
      /\ \A i \in 1..L : sendTimes[i] \in 0..now
  BY LenProperties, ElementOfSeq, Settings DEF StoresOK
<1>2. \E n \in 0..L : Pops(n)
  <2>1. L \in Good /\ Good \subseteq Nat
    BY <1>1
  <2>2. PICK n \in Good : \A m \in Good : <<m, n>> \notin OpToRel(<, Nat)
    <3> HIDE DEF Good
    <3> QED BY <2>1, NatLessThanWellFounded, WFMin
  <2>3. \A m \in Good : ~(m < n)
    BY <2>1, <2>2 DEF OpToRel
  <2>4. ASSUME NEW i \in 1..n PROVE now - sendTimes[i] > Window
    <3>1. i - 1 \in 0..L /\ i - 1 < n /\ i - 1 + 1 = i /\ i \in 1..L
      BY <1>1
    <3>2. ~Stops(i - 1)
      BY <2>3, <3>1
    <3> QED BY <1>1, <3>1, <3>2
  <2> QED BY <2>2, <2>4
<1> DEFINE n == CHOOSE n \in 0..L : Pops(n)
<1>3. n \in 0..L /\ Pops(n)
  BY <1>2
<1> DEFINE kept == SubSeq(sendTimes, n + 1, L)
<1>4. RecentSends = kept
  BY DEF RecentSends, Kept
<1> HIDE DEF n
<1>5. /\ kept \in Seq(0..now)
      /\ Len(kept) = IF n + 1 <= L THEN L - (n + 1) + 1 ELSE 0
      /\ \A i \in 1 .. L - (n + 1) + 1 : kept[i] = sendTimes[n + 1 + i - 1]
  <2>1. \A i \in n + 1 .. L : sendTimes[i] \in 0..now
    BY <1>1, <1>3
  <2>2. n + 1 \in Int /\ L \in Int
    BY <1>1, <1>3
  <2> QED BY <2>1, <2>2, SubSeqProperties
<1> HIDE DEF kept
<1>6. \A i \in 1 .. L - n : i \in 1 .. L - (n + 1) + 1 /\ n + 1 + i - 1 = n + i
  BY <1>1, <1>3
<1>7. Len(kept) = L - n
  <2>1. n \in 0..L
    BY <1>3
  <2>2. \A l \in Nat : \A k \in 0..l : (IF k + 1 <= l THEN l - (k + 1) + 1 ELSE 0) = l - k
    OBVIOUS
  <2>3. L \in Nat
    BY <1>1
  <2> HIDE DEF L
  <2> QED BY <1>5, <2>1, <2>2, <2>3
<1>8. DOMAIN kept = 1 .. L - n
  BY <1>5, <1>7, LenProperties
<1> QED BY <1>3, <1>4, <1>5, <1>6, <1>7, <1>8

(* A request that moves changes only its own place among those holding a    *)
(* slot.                                                                    *)
LEMMA HoldingMoves ==
  ASSUME Shapes, NEW r \in Requests, NEW j, job' = [job EXCEPT ![r] = j]
  PROVE  Holding' = IF j.pc = "work" /\ IsSend(j.call) THEN Holding \union {r}
                    ELSE Holding \ {r}
<1>1. \A q \in Requests : job'[q] = IF q = r THEN j ELSE job[q]
  BY DEF Shapes
<1> QED BY <1>1 DEF Holding, IsSend, SideEffect

(* One request's step changes the number of sends on their way by one at    *)
(* most; it grows only if the request now holds a slot it did not hold      *)
LEMMA HoldingCounts ==
  ASSUME Shapes, IsFiniteSet(Holding),
         NEW r \in Requests, NEW j, job' = [job EXCEPT ![r] = j]
  PROVE  /\ IsFiniteSet(Holding')
         /\ Cardinality(Holding) \in Nat /\ Cardinality(Holding') \in Nat
         /\ Cardinality(Holding') <= Cardinality(Holding) + 1
         /\ ~(j.pc = "work" /\ IsSend(j.call)) =>
              Cardinality(Holding') = IF r \in Holding THEN Cardinality(Holding) - 1
                                      ELSE Cardinality(Holding)
<1>1. /\ Cardinality(Holding) \in Nat
      /\ IsFiniteSet(Holding \union {r}) /\ IsFiniteSet(Holding \ {r})
      /\ Cardinality(Holding \union {r}) = IF r \in Holding THEN Cardinality(Holding)
                                           ELSE Cardinality(Holding) + 1
      /\ Cardinality(Holding \ {r}) = IF r \in Holding THEN Cardinality(Holding) - 1
                                      ELSE Cardinality(Holding)
  BY FS_CardinalityType, FS_AddElement, FS_RemoveElement
<1>2. Cardinality(Holding \union {r}) \in Nat /\ Cardinality(Holding \ {r}) \in Nat
  BY <1>1, FS_CardinalityType
<1>3. CASE j.pc = "work" /\ IsSend(j.call)
  <2>1. Holding' = Holding \union {r}
    BY <1>3, HoldingMoves
  <2> QED BY <1>1, <1>2, <1>3, <2>1
<1>4. CASE ~(j.pc = "work" /\ IsSend(j.call))
  <2>1. Holding' = Holding \ {r}
    BY <1>4, HoldingMoves
  <2> QED BY <1>1, <1>2, <1>4, <2>1
<1> QED BY <1>3, <1>4

(* The effects at Exchange are finitely many, and one more adds one.        *)
LEMMA SentCounts ==
  ASSUME Shapes
  PROVE  /\ IsFiniteSet(SentOut) /\ Cardinality(SentOut) \in Nat
         /\ log' = log => SentOut' = SentOut
         /\ \A e \in Entries : log' = Append(log, e) =>
              Cardinality(SentOut') = IF IsSend(e.call) THEN Cardinality(SentOut) + 1
                                      ELSE Cardinality(SentOut)
<1>1. /\ log \in Seq(Entries) /\ Len(log) \in Nat /\ DOMAIN log = 1..Len(log)
  BY LenProperties DEF Shapes
<1>2. IsFiniteSet(SentOut) /\ Cardinality(SentOut) \in Nat
  <2>1. SentOut \in SUBSET (1..Len(log)) /\ IsFiniteSet(1..Len(log))
    BY <1>1, FS_Interval DEF SentOut
  <2> QED BY <2>1, FS_Subset, FS_CardinalityType
<1>3. log' = log => SentOut' = SentOut
  BY DEF SentOut, IsSend, SideEffect
<1>4. ASSUME NEW e \in Entries, log' = Append(log, e)
      PROVE  Cardinality(SentOut') = IF IsSend(e.call) THEN Cardinality(SentOut) + 1
                                     ELSE Cardinality(SentOut)
  <2> DEFINE n == Len(log) + 1
  <2>1. /\ log' \in Seq(Entries) /\ Len(log') = n /\ log'[n] = e
        /\ \A i \in 1..Len(log) : log'[i] = log[i]
    BY <1>1, <1>4, AppendProperties
  <2>2. DOMAIN log' = 1..n
    BY <2>1, LenProperties
  <2>3. SentOut' = IF IsSend(e.call) THEN SentOut \union {n} ELSE SentOut
    BY <1>1, <2>1, <2>2 DEF SentOut, IsSend, SideEffect
  <2>4. n \notin SentOut
    BY <1>1 DEF SentOut
  <2> QED BY <1>2, <2>3, <2>4, FS_AddElement
<1> QED BY <1>2, <1>3, <1>4

-----------------------------------------------------------------------------
(* What the steps do to the slots                                           *)

(* Time only goes on, and no request takes a slot.                          *)
LEMMA SlotsStay ==
  ASSUME StoresOK, SlotsOK, now' \in Nat, now' >= now, UNCHANGED <<sendTimes, rated>>,
         Cap > 0 => /\ IsFiniteSet(Holding')
                    /\ Cardinality(SentOut') + Cardinality(Holding')
                         <= Cardinality(SentOut) + Cardinality(Holding),
         Cardinality(SentOut) \in Nat /\ Cardinality(SentOut') \in Nat
  PROVE  SlotsOK'
<1> SUFFICES ASSUME Cap > 0
             PROVE  /\ \A i \in 1..Gone : now' - rated[i] > Window
                    /\ IsFiniteSet(Holding')
                    /\ Cardinality(SentOut') + Cardinality(Holding') <= Len(rated)
  BY DEF SlotsOK, Gone
<1>1. /\ now \in Nat /\ Window \in Nat /\ Len(rated) \in Nat /\ Len(sendTimes) \in Nat
      /\ \A i \in 1..Len(rated) : rated[i] \in 0..now
  BY Settings, LenProperties, ElementOfSeq DEF StoresOK
<1>2. \A i \in 1..Gone : now - rated[i] > Window /\ rated[i] \in 0..now
  BY <1>1 DEF SlotsOK, Gone
<1>3. IsFiniteSet(Holding) /\ Cardinality(Holding) \in Nat
      /\ Cardinality(Holding') \in Nat
  BY FS_CardinalityType DEF SlotsOK
<1>4. Cardinality(SentOut') + Cardinality(Holding') <= Len(rated)
  BY <1>1, <1>3 DEF SlotsOK
<1> QED BY <1>1, <1>2, <1>4

(* The cap refuses a call: only outdated slots are dropped.                 *)
Refused == sendTimes' = RecentSends /\ rated' = rated

(* The cap lets a call on: it takes a slot.                                 *)
Taken == /\ Len(RecentSends) < Cap
         /\ sendTimes' = Append(RecentSends, now) /\ rated' = Append(rated, now)

(* What is left of _send_times is the end of the record of slots, and what  *)
(* is not in it any more is older than the window                           *)
LEMMA SlotsEvicted ==
  ASSUME StoresOK, SlotsOK, Cap > 0
  PROVE  /\ RecentSends \in Seq(0..now) /\ Len(RecentSends) \in Nat
         /\ DOMAIN RecentSends = 1..Len(RecentSends)
         /\ Len(RecentSends) <= Len(sendTimes) /\ Len(RecentSends) <= Len(rated)
         /\ \A i \in 1..Len(RecentSends) :
              RecentSends[i] = rated[Len(rated) - Len(RecentSends) + i]
         /\ \A i \in 1 .. Len(rated) - Len(RecentSends) : now - rated[i] > Window
<1>1. PICK n \in 0..Len(sendTimes) :
           /\ \A i \in 1..n : now - sendTimes[i] > Window
           /\ RecentSends \in Seq(0..now)
           /\ Len(RecentSends) = Len(sendTimes) - n
           /\ DOMAIN RecentSends = 1 .. Len(sendTimes) - n
           /\ \A i \in 1 .. Len(sendTimes) - n : RecentSends[i] = sendTimes[n + i]
  BY KeptFacts
<1>2. /\ Len(rated) \in Nat /\ Len(sendTimes) \in Nat
      /\ DOMAIN sendTimes = 1..Len(sendTimes) /\ Len(rated) >= Len(sendTimes)
  BY LenProperties DEF StoresOK, SlotsOK
<1>3. PICK L \in Nat, S \in Nat, K \in Nat :
        L = Len(rated) /\ S = Len(sendTimes) /\ K = Len(RecentSends)
  BY <1>1, <1>2
<1>4. /\ n \in 0..S /\ K = S - n /\ S <= L
      /\ \A i \in 1..S : sendTimes[i] = rated[(L - S) + i]
      /\ \A i \in 1 .. L - S : now - rated[i] > Window
  BY <1>1, <1>2, <1>3 DEF SlotsOK, Gone
<1>5. ASSUME NEW i \in 1..K PROVE RecentSends[i] = rated[L - K + i]
  <2>1. RecentSends[i] = sendTimes[n + i] /\ n + i \in 1..S /\ (L - S) + (n + i) = L - K + i
    BY <1>1, <1>3, <1>4
  <2> QED BY <1>4, <2>1
<1>6. ASSUME NEW i \in 1 .. L - K PROVE now - rated[i] > Window
  <2>1. CASE i <= L - S
    BY <1>4, <2>1
  <2>2. CASE i > L - S
    <3>1. i - (L - S) \in 1..n /\ i - (L - S) \in 1..S /\ (L - S) + (i - (L - S)) = i
      BY <1>4, <2>2
    <3> QED BY <1>1, <1>4, <3>1
  <2> QED BY <2>1, <2>2, <1>4
<1> QED BY <1>1, <1>3, <1>4, <1>5, <1>6

(* A request that gets no slot: neither sends nor slots become more         *)
LEMMA SlotsRefused ==
  ASSUME StoresOK, SlotsOK, Cap > 0, now' = now, Refused,
         IsFiniteSet(Holding'),
         Cardinality(SentOut') + Cardinality(Holding')
           <= Cardinality(SentOut) + Cardinality(Holding),
         Cardinality(SentOut) \in Nat /\ Cardinality(SentOut') \in Nat
  PROVE  SlotsOK'
<1>1. Cardinality(Holding) \in Nat /\ Cardinality(Holding') \in Nat /\ Len(rated) \in Nat
  BY FS_CardinalityType, LenProperties DEF SlotsOK, StoresOK
<1>2. Cardinality(SentOut') + Cardinality(Holding') <= Len(rated)
  BY <1>1 DEF SlotsOK
<1> QED BY <1>2, SlotsEvicted DEF SlotsOK, Gone, Refused

(* A request that gets a slot: at most one send more, and one slot more     *)
LEMMA SlotsTaken ==
  ASSUME StoresOK, SlotsOK, Cap > 0, now' = now, Taken,
         IsFiniteSet(Holding'),
         Cardinality(SentOut') + Cardinality(Holding')
           <= Cardinality(SentOut) + Cardinality(Holding) + 1,
         Cardinality(SentOut) \in Nat /\ Cardinality(SentOut') \in Nat
  PROVE  SlotsOK'
<1>1. PICK L \in Nat, K \in Nat : L = Len(rated) /\ K = Len(RecentSends)
  BY SlotsEvicted, LenProperties DEF StoresOK
<1>2. /\ K <= L /\ K < Cap /\ Cap \in Nat /\ now \in Nat
      /\ DOMAIN rated = 1..L
      /\ \A i \in 1..L : rated[i] \in 0..now
      /\ \A i \in 1..K : RecentSends[i] = rated[L - K + i]
      /\ \A i \in 1 .. L - K : now - rated[i] > Window
  BY <1>1, SlotsEvicted, Settings, LenProperties, ElementOfSeq DEF Taken, StoresOK
<1>3. /\ Len(sendTimes') = K + 1 /\ DOMAIN sendTimes' = 1..K + 1
      /\ \A i \in 1..K : sendTimes'[i] = RecentSends[i]
      /\ sendTimes'[K + 1] = now
  <2>1. now \in 0..now /\ RecentSends \in Seq(0..now)
    BY <1>2, SlotsEvicted
  <2> QED BY <1>1, <2>1, AppendProperties, LenProperties DEF Taken
<1>4. /\ Len(rated') = L + 1 /\ DOMAIN rated' = 1..L + 1
      /\ \A i \in 1..L : rated'[i] = rated[i]
      /\ rated'[L + 1] = now
  <2>1. now \in 0..now /\ rated \in Seq(0..now)
    BY <1>2 DEF StoresOK
  <2> QED BY <1>1, <2>1, AppendProperties, LenProperties DEF Taken
<1>5. ASSUME NEW i \in 1..K + 1 PROVE sendTimes'[i] = rated'[(L + 1) - (K + 1) + i]
  <2>1. CASE i = K + 1
    BY <1>2, <1>3, <1>4, <2>1
  <2>2. CASE i \in 1..K
    <3>1. L - K + i \in 1..L /\ (L + 1) - (K + 1) + i = L - K + i
      BY <1>2, <2>2
    <3> QED BY <1>2, <1>3, <1>4, <2>2, <3>1
  <2> QED BY <2>1, <2>2
<1>6. ASSUME NEW i \in 1 .. (L + 1) - (K + 1) PROVE now - rated'[i] > Window
  <2>1. i \in 1 .. L - K /\ i \in 1..L
    BY <1>2
  <2> QED BY <1>2, <1>4, <2>1
<1>7. ASSUME NEW i \in 1..L + 1, i + Cap \in 1..L + 1
      PROVE  rated'[i + Cap] - rated'[i] > Window
  <2>1. CASE i + Cap = L + 1
    <3>1. i \in 1 .. L - K /\ i \in 1..L
      BY <1>2, <2>1
    <3> QED BY <1>2, <1>4, <2>1, <3>1
  <2>2. CASE i + Cap \in 1..L
    <3>1. i \in 1..L
      BY <1>2, <2>2
    <3> QED BY <1>2, <1>4, <2>2, <3>1 DEF SlotsOK
  <2> QED BY <1>2, <1>7, <2>1, <2>2
<1>8. Cardinality(SentOut') + Cardinality(Holding') <= L + 1
  <2>1. Cardinality(Holding) \in Nat /\ Cardinality(Holding') \in Nat
    BY FS_CardinalityType DEF SlotsOK
  <2> QED BY <1>1, <2>1 DEF SlotsOK
<1>9. Gone' = (L + 1) - (K + 1) /\ Len(rated') >= Len(sendTimes')
  BY <1>2, <1>3, <1>4 DEF Gone
<1>10. /\ \A i \in DOMAIN sendTimes' : sendTimes'[i] = rated'[Gone' + i]
       /\ \A i \in 1..Gone' : now' - rated'[i] > Window
  BY <1>3, <1>5, <1>6, <1>9
<1>11. \A i \in DOMAIN rated' : i + Cap \in DOMAIN rated' => rated'[i + Cap] - rated'[i] > Window
  BY <1>4, <1>7
<1>12. Cardinality(SentOut') + Cardinality(Holding') <= Len(rated')
  BY <1>4, <1>8
<1> QED BY <1>9, <1>10, <1>11, <1>12 DEF SlotsOK

-----------------------------------------------------------------------------
(* The gate chain, seen from its stores                                     *)

(* How a request leaves the gates: in its handler or ended, with a slot of  *)
(* its own if it is of class send and there is a cap                        *)
Passed(r, c, tok, seen) ==
  /\ receipts' \in {receipts, FreshReceipts} /\ failures' \in {failures, 0}
  /\ \/ UNCHANGED <<sendTimes, rated>> /\ Finish(r)
     \/ UNCHANGED <<sendTimes, rated>> /\ Goto(r, "work", c, tok, seen)
        /\ (IsSend(c) => Cap = 0)
     \/ Cap > 0 /\ Refused /\ Finish(r)
     \/ Cap > 0 /\ Taken /\ (Finish(r) \/ Goto(r, "work", c, tok, seen))

(* What RateGuard does to the slots                                         *)
LEMMA RateGuardPasses ==
  ASSUME NEW r \in Requests, NEW c \in Calls, NEW tok, NEW seen, RateGuard(r, c, tok, seen)
  PROVE  Passed(r, c, tok, seen)
<1>1. Enter(r, c, tok, seen) =>
        /\ receipts' \in {receipts, FreshReceipts} /\ failures' \in {failures, 0}
        /\ Finish(r) \/ Goto(r, "work", c, tok, seen)
  BY DEF Enter
<1>2. Cap # 0 => Cap > 0
  BY Settings
<1> QED BY <1>1, <1>2 DEF RateGuard, Passed, Refused, Taken, IsSend

(* and ConfirmGate, which ends in it or before it                           *)
LEMMA ConfirmGatePasses ==
  ASSUME NEW r \in Requests, NEW c \in Calls, NEW tok, NEW seen, ConfirmGate(r, c, tok, seen)
  PROVE  Passed(r, c, tok, seen)
<1>1. CASE AcceptToken(r, tok, c, seen)
  BY <1>1, RateGuardPasses DEF AcceptToken
<1>2. CASE Mint(r, c, seen) \/ RejectToken(r, tok, c, seen)
  BY <1>2 DEF Mint, RejectToken, Passed
<1> QED BY <1>1, <1>2 DEF ConfirmGate

(* Pruning keeps the receipts' type.                                        *)
LEMMA FreshTyped == StoresOK => FreshReceipts \in [Keys -> [h : Handles, ts : 0..now] \union {NoReceipt}]
BY DEF StoresOK, FreshReceipts, Fresh

(* What the gates do to their stores is of the right type and within the    *)
(* cap.                                                                     *)
LEMMA PassedStores ==
  ASSUME IInv, StoresOK, SlotsOK, NEW r \in Requests, NEW c, NEW tok, NEW seen,
         Passed(r, c, tok, seen), UNCHANGED <<sendEnabled, now, openUntil, log>>
  PROVE  StoresOK' /\ SlotsOK'
<1>1. Shapes
  BY DEF IInv
<1>2. /\ sendEnabled' \in BOOLEAN /\ now' = now /\ now \in Nat
      /\ receipts' \in [Keys -> [h : Handles, ts : 0..now'] \union {NoReceipt}]
      /\ failures' \in Nat /\ (failures' > 0 => failures' < Threshold)
      /\ openUntil' \in 0..now' + OpenFor
  BY FreshTyped DEF StoresOK, Passed
<1>3. /\ sendTimes' \in Seq(0..now') /\ (Cap > 0 => Len(sendTimes') <= Cap)
      /\ rated' \in Seq(0..now')
  <2>1. CASE UNCHANGED <<sendTimes, rated>>
    BY <1>2, <2>1 DEF StoresOK
  <2>2. CASE Cap > 0 /\ Refused
    <3>1. RecentSends \in Seq(0..now) /\ Len(RecentSends) <= Len(sendTimes)
          /\ Len(RecentSends) \in Nat /\ Len(sendTimes) \in Nat
      BY <2>2, SlotsEvicted, LenProperties DEF StoresOK
    <3> QED BY <1>2, <2>2, <3>1, Settings DEF StoresOK, Refused
  <2>3. CASE Cap > 0 /\ Taken
    <3>1. RecentSends \in Seq(0..now) /\ Len(RecentSends) \in Nat /\ now \in 0..now
      BY <1>2, <2>3, SlotsEvicted
    <3>2. /\ Append(RecentSends, now) \in Seq(0..now)
          /\ Len(Append(RecentSends, now)) = Len(RecentSends) + 1
          /\ Append(rated, now) \in Seq(0..now)
      BY <3>1, AppendProperties DEF StoresOK
    <3> QED BY <1>2, <2>3, <3>1, <3>2, Settings DEF Taken
  <2> QED BY <2>1, <2>2, <2>3 DEF Passed
<1>4. StoresOK'
  BY <1>2, <1>3 DEF StoresOK
<1>5. Cardinality(SentOut) \in Nat /\ SentOut' = SentOut
  BY <1>1, SentCounts
<1>6. ASSUME Cap > 0
      PROVE  /\ IsFiniteSet(Holding')
             /\ Cardinality(Holding) \in Nat /\ Cardinality(Holding') \in Nat
             /\ Cardinality(Holding') <= Cardinality(Holding) + 1
             /\ Finish(r) => Cardinality(Holding') <= Cardinality(Holding)
             /\ Goto(r, "work", c, tok, seen) /\ ~IsSend(c) =>
                  Cardinality(Holding') <= Cardinality(Holding)
  <2>1. IsFiniteSet(Holding)
    BY <1>6 DEF SlotsOK
  <2>2. CASE Finish(r)
    <3>1. job' = [job EXCEPT ![r] = Idle] /\ ~(Idle.pc = "work" /\ IsSend(Idle.call))
      BY <2>2 DEF Finish, Idle
    <3>2. /\ IsFiniteSet(Holding')
          /\ Cardinality(Holding) \in Nat /\ Cardinality(Holding') \in Nat
          /\ Cardinality(Holding') = IF r \in Holding THEN Cardinality(Holding) - 1
                                     ELSE Cardinality(Holding)
      BY <1>1, <2>1, <3>1, HoldingCounts
    <3> QED BY <3>2
  <2>3. CASE Goto(r, "work", c, tok, seen)
    <3> DEFINE j == [pc |-> "work", call |-> c, tok |-> tok, seen |-> seen]
    <3>1. job' = [job EXCEPT ![r] = j] /\ j.pc = "work" /\ j.call = c
      BY <2>3 DEF Goto
    <3> HIDE DEF j
    <3>2. /\ IsFiniteSet(Holding')
          /\ Cardinality(Holding) \in Nat /\ Cardinality(Holding') \in Nat
          /\ Cardinality(Holding') <= Cardinality(Holding) + 1
          /\ ~IsSend(c) =>
               Cardinality(Holding') = IF r \in Holding THEN Cardinality(Holding) - 1
                                       ELSE Cardinality(Holding)
      BY <1>1, <2>1, <3>1, HoldingCounts
    <3>3. ~Finish(r)
      <4>1. job \in [Requests -> Jobs]
        BY <1>1 DEF Shapes
      <4>2. job'[r].pc = "work"
        BY <3>1, <4>1
      <4> QED BY <4>1, <4>2 DEF Finish, Idle
    <3> QED BY <3>2, <3>3
  <2> QED BY <2>2, <2>3 DEF Passed
<1>7. /\ Cardinality(SentOut) \in Nat /\ Cardinality(SentOut') \in Nat
      /\ Cardinality(SentOut') = Cardinality(SentOut)
      /\ now' \in Nat /\ now' >= now /\ now' = now
  BY <1>2, <1>5
<1>8. CASE UNCHANGED <<sendTimes, rated>> /\ (Finish(r) \/ Goto(r, "work", c, tok, seen))
           /\ (Cap > 0 => Finish(r) \/ ~IsSend(c))
  <2>1. Cap > 0 => /\ IsFiniteSet(Holding')
                   /\ Cardinality(SentOut') + Cardinality(Holding')
                        <= Cardinality(SentOut) + Cardinality(Holding)
    BY <1>6, <1>7, <1>8
  <2> QED BY <1>4, <1>7, <1>8, <2>1, SlotsStay
<1>9. CASE Cap > 0 /\ Refused /\ Finish(r)
  <2>1. Cardinality(SentOut') + Cardinality(Holding')
          <= Cardinality(SentOut) + Cardinality(Holding)
    BY <1>6, <1>7, <1>9
  <2> QED BY <1>4, <1>6, <1>7, <1>9, <2>1, SlotsRefused
<1>10. CASE Cap > 0 /\ Taken
  <2>1. Cardinality(SentOut') + Cardinality(Holding')
          <= Cardinality(SentOut) + Cardinality(Holding) + 1
    BY <1>6, <1>7, <1>10
  <2> QED BY <1>4, <1>6, <1>7, <1>10, <2>1, SlotsTaken
<1>11. Cap > 0 => Cap # 0
  BY Settings
<1> QED BY <1>4, <1>8, <1>9, <1>10, <1>11 DEF Passed

(* A step that moves a request and takes no slot                            *)
LEMMA MovedStores ==
  ASSUME IInv, StoresOK, SlotsOK, NEW r \in Requests, NEW j, job' = [job EXCEPT ![r] = j],
         j.pc # "work", UNCHANGED <<sendEnabled, now, sendTimes, rated, log>>,
         receipts' \in [Keys -> [h : Handles, ts : 0..now'] \union {NoReceipt}],
         failures' \in Nat, failures' > 0 => failures' < Threshold,
         openUntil' \in 0..now' + OpenFor
  PROVE  StoresOK' /\ SlotsOK'
<1>1. StoresOK'
  BY DEF StoresOK
<1>2. Cardinality(SentOut) \in Nat /\ SentOut' = SentOut
  BY SentCounts DEF IInv
<1>3. ASSUME Cap > 0
      PROVE  /\ IsFiniteSet(Holding')
             /\ Cardinality(SentOut') + Cardinality(Holding')
                  <= Cardinality(SentOut) + Cardinality(Holding)
  <2>1. IsFiniteSet(Holding) /\ Shapes
    BY <1>3 DEF SlotsOK, IInv
  <2>2. /\ IsFiniteSet(Holding')
        /\ Cardinality(Holding) \in Nat /\ Cardinality(Holding') \in Nat
        /\ Cardinality(Holding') = IF r \in Holding THEN Cardinality(Holding) - 1
                                   ELSE Cardinality(Holding)
    BY <2>1, HoldingCounts
  <2> QED BY <1>2, <2>2
<1>4. now' \in Nat /\ now' >= now
  BY DEF StoresOK
<1> QED BY <1>1, <1>2, <1>3, <1>4, SlotsStay

(* The handler's work spends the slot the request holds.                    *)
LEMMA WorkStores ==
  ASSUME IInv, StoresOK, SlotsOK, NEW r \in Requests, Work(r)
  PROVE  StoresOK' /\ SlotsOK'
<1>1. Shapes /\ job[r] \in Jobs /\ job[r].pc = "work" /\ JobOK(job[r])
  BY DEF IInv, Shapes, Work
<1>2. PICK c \in Calls, tok \in shown \union {NoToken}, seen \in Versions \union {NoSeen} :
        c = job[r].call /\ tok = job[r].tok /\ seen = job[r].seen
  BY <1>1 DEF JobOK, Jobs
<1>3. UNCHANGED <<sendEnabled, now, consumed, sendTimes, receipts, failures, openUntil, rated>>
  BY DEF Work, server
<1>4. StoresOK'
  BY <1>3 DEF StoresOK
<1>5. PICK pc \in {"done", "failed", "refused"} :
        job' = [job EXCEPT ![r] = [pc |-> pc, call |-> c, tok |-> tok, seen |-> seen]]
  BY <1>2 DEF Work, Reach, Goto
<1>6. log' = log \/ \E d \in Versions \union {NoSeen} :
        log' = Append(log, [call |-> c, tok |-> tok, seen |-> seen, got |-> d])
  <2>1. NeedsDraft(c.tool) => draft[c.h.item] \in Versions
    BY <1>1, CallsAssumption DEF Shapes
  <2> QED BY <1>2, <2>1 DEF Work
<1>7. /\ Cardinality(SentOut) \in Nat /\ Cardinality(SentOut') \in Nat
      /\ \/ Cardinality(SentOut') = Cardinality(SentOut)
         \/ IsSend(c) /\ Cardinality(SentOut') = Cardinality(SentOut) + 1
  <2>1. CASE log' = log
    BY <1>1, <2>1, SentCounts
  <2>2. ASSUME NEW d \in Versions \union {NoSeen},
               log' = Append(log, [call |-> c, tok |-> tok, seen |-> seen, got |-> d])
        PROVE  /\ Cardinality(SentOut) \in Nat /\ Cardinality(SentOut') \in Nat
               /\ \/ Cardinality(SentOut') = Cardinality(SentOut)
                  \/ IsSend(c) /\ Cardinality(SentOut') = Cardinality(SentOut) + 1
    <3> DEFINE e == [call |-> c, tok |-> tok, seen |-> seen, got |-> d]
    <3>1. e \in Entries /\ e.call = c
      BY DEF Entries
    <3> HIDE DEF e
    <3>2. /\ Cardinality(SentOut) \in Nat
          /\ Cardinality(SentOut') = IF IsSend(c) THEN Cardinality(SentOut) + 1
                                     ELSE Cardinality(SentOut)
      BY <1>1, <2>2, <3>1, SentCounts DEF e
    <3> QED BY <3>2
  <2> QED BY <1>6, <2>1, <2>2
<1>8. ASSUME Cap > 0
      PROVE  /\ IsFiniteSet(Holding')
             /\ Cardinality(SentOut') + Cardinality(Holding')
                  <= Cardinality(SentOut) + Cardinality(Holding)
  <2>1. IsFiniteSet(Holding)
    BY <1>8 DEF SlotsOK
  <2> DEFINE j == [pc |-> pc, call |-> c, tok |-> tok, seen |-> seen]
  <2>2. job' = [job EXCEPT ![r] = j] /\ j.pc # "work"
    BY <1>5
  <2> HIDE DEF j
  <2>3. /\ IsFiniteSet(Holding')
        /\ Cardinality(Holding) \in Nat /\ Cardinality(Holding') \in Nat
        /\ Cardinality(Holding') = IF r \in Holding THEN Cardinality(Holding) - 1
                                   ELSE Cardinality(Holding)
    BY <1>1, <2>1, <2>2, HoldingCounts
  <2>4. IsSend(c) => r \in Holding
    BY <1>1, <1>2 DEF Holding
  <2> QED BY <1>7, <2>3, <2>4
<1>9. now' \in Nat /\ now' >= now
  BY <1>3 DEF StoresOK
<1> QED BY <1>3, <1>4, <1>7, <1>8, <1>9, SlotsStay

(* The stores and the slots after any step                                  *)
LEMMA StoresInv ==
  ASSUME IInv, StoresOK, SlotsOK, [Next]_vars
  PROVE  StoresOK' /\ SlotsOK'
<1>1. ASSUME NEW r \in Requests, NEW c \in Calls, NEW tok \in shown \union {NoToken},
             StartPreview(r, c, tok)
      PROVE  StoresOK' /\ SlotsOK'
  <2> DEFINE j == [pc |-> "preview", call |-> c, tok |-> tok, seen |-> NoSeen]
  <2>1. /\ job' = [job EXCEPT ![r] = j] /\ j.pc # "work"
        /\ UNCHANGED <<sendEnabled, now, sendTimes, rated, log, failures, openUntil>>
        /\ receipts' \in {receipts, FreshReceipts}
    BY <1>1 DEF StartPreview, Goto, history
  <2> HIDE DEF j
  <2>2. receipts' \in [Keys -> [h : Handles, ts : 0..now'] \union {NoReceipt}]
    BY <2>1, FreshTyped DEF StoresOK
  <2>3. /\ failures' \in Nat /\ (failures' > 0 => failures' < Threshold)
        /\ openUntil' \in 0..now' + OpenFor
    BY <2>1 DEF StoresOK
  <2> QED BY <2>1, <2>2, <2>3, MovedStores
<1>2. ASSUME NEW r \in Requests, NEW c \in Calls, NEW tok \in shown \union {NoToken},
             ConfirmLiteral(r, c, tok)
      PROVE  StoresOK' /\ SlotsOK'
  BY <1>2, ConfirmGatePasses, PassedStores DEF ConfirmLiteral
<1>3. ASSUME NEW r \in Requests, NEW c \in Calls, StartUngated(r, c)
      PROVE  StoresOK' /\ SlotsOK'
  BY <1>3, RateGuardPasses, PassedStores DEF StartUngated
<1>4. ASSUME NEW r \in Requests, FetchPreview(r)
      PROVE  StoresOK' /\ SlotsOK'
  <2>1. UNCHANGED <<sendEnabled, now, sendTimes, rated, log, receipts, failures, openUntil>>
    BY <1>4 DEF FetchPreview, server, history
  <2>2. \E j : job' = [job EXCEPT ![r] = j] /\ j.pc # "work"
    <3>0. PICK pc \in {"gate", "refused", "failed"} : \E seen : Reach(r, pc, seen)
      BY <1>4 DEF FetchPreview
    <3>1. PICK seen : Reach(r, pc, seen)
      BY <3>0
    <3> DEFINE j == [pc |-> pc, call |-> job[r].call, tok |-> job[r].tok, seen |-> seen]
    <3>2. job' = [job EXCEPT ![r] = j] /\ j.pc # "work"
      BY <3>1 DEF Reach, Goto
    <3> QED BY <3>2
  <2> QED BY <2>1, <2>2, MovedStores DEF StoresOK
<1>5. ASSUME NEW r \in Requests, ResumeGate(r)
      PROVE  StoresOK' /\ SlotsOK'
  <2>1. job[r] \in Jobs /\ job[r].call \in Calls
    BY <1>5 DEF IInv, Shapes, JobOK, ResumeGate
  <2>2. UNCHANGED <<sendEnabled, now>>
    BY <1>5 DEF ResumeGate
  <2>3. CASE Finish(r) /\ UNCHANGED <<server, history>>
    <3>1. job' = [job EXCEPT ![r] = Idle] /\ Idle.pc # "work"
      BY <2>3 DEF Finish, Idle
    <3> QED BY <2>2, <2>3, <3>1, MovedStores DEF server, history, StoresOK
  <2>4. CASE /\ ConfirmGate(r, job[r].call, job[r].tok, job[r].seen)
             /\ UNCHANGED <<openUntil, log>>
    BY <2>1, <2>2, <2>4, ConfirmGatePasses, PassedStores
  <2> QED BY <1>5, <2>3, <2>4 DEF ResumeGate
<1>6. ASSUME NEW r \in Requests, Work(r)
      PROVE  StoresOK' /\ SlotsOK'
  BY <1>6, WorkStores
<1>7. ASSUME NEW r \in Requests, ResumeDone(r)
      PROVE  StoresOK' /\ SlotsOK'
  <2>1. job[r].pc = "done" /\ job[r].call \in Calls
    BY <1>7 DEF IInv, JobOK, ResumeDone
  <2>2. PICK c \in Calls : c = job[r].call
    BY <2>1
  <2>3. Resolve(c.h) \in Handles
    BY CallsAssumption DEF Resolve, Handles, Forms
  <2>4. receipts' \in [Keys -> [h : Handles, ts : 0..now'] \union {NoReceipt}]
    BY <1>7, <2>2, <2>3 DEF ResumeDone, StoreReceipt, PutReceipt, StoresOK
  <2>5. /\ job' = [job EXCEPT ![r] = Idle] /\ Idle.pc # "work"
        /\ UNCHANGED <<sendEnabled, now, sendTimes, rated, log, openUntil>> /\ failures' = 0
    BY <1>7 DEF ResumeDone, Finish, Idle, history
  <2>6. /\ failures' \in Nat /\ (failures' > 0 => failures' < Threshold)
        /\ openUntil' \in 0..now' + OpenFor
    BY <2>5 DEF StoresOK
  <2> QED BY <2>4, <2>5, <2>6, MovedStores
<1>8. ASSUME NEW r \in Requests, ResumeRefused(r)
      PROVE  StoresOK' /\ SlotsOK'
  <2>1. /\ job' = [job EXCEPT ![r] = Idle] /\ Idle.pc # "work"
        /\ UNCHANGED <<sendEnabled, now, sendTimes, rated, log, receipts, failures, openUntil>>
    BY <1>8 DEF ResumeRefused, Finish, Idle, history, server
  <2> QED BY <2>1, MovedStores DEF StoresOK
<1>9. ASSUME NEW r \in Requests, ResumeFailed(r)
      PROVE  StoresOK' /\ SlotsOK'
  <2>1. /\ job' = [job EXCEPT ![r] = Idle] /\ Idle.pc # "work"
        /\ UNCHANGED <<sendEnabled, now, sendTimes, rated, log, receipts>>
    BY <1>9 DEF ResumeFailed, Finish, Idle, history
  <2>2. /\ failures' \in Nat /\ (failures' > 0 => failures' < Threshold)
        /\ openUntil' \in 0..now' + OpenFor
    <3>1. /\ failures' = IF failures + 1 >= Threshold THEN 0 ELSE failures + 1
          /\ openUntil' = IF failures + 1 >= Threshold THEN now + OpenFor ELSE openUntil
      BY <1>9 DEF ResumeFailed, CountFailure
    <3>2. failures \in Nat /\ now \in Nat /\ openUntil \in 0..now + OpenFor /\ OpenFor \in Nat
      BY Settings DEF StoresOK
    <3>3. failures' > 0 => failures' < Threshold
      BY <3>1, <3>2, SettingsAssumption
    <3> QED BY <2>1, <3>1, <3>2, <3>3
  <2> QED BY <2>1, <2>2, MovedStores DEF StoresOK
<1>10. ASSUME Tick \/ UNCHANGED vars \/ \E d \in Drafts, b \in Bodies : OutlookEdit(d, b)
       PROVE  StoresOK' /\ SlotsOK'
  <2>1. /\ now' \in {now, now + 1}
        /\ UNCHANGED <<sendEnabled, job, sendTimes, rated, log, receipts, failures, openUntil>>
    BY <1>10 DEF Tick, vars, OutlookEdit, server, history
  <2>2. now \in Nat /\ now' \in Nat /\ now' >= now /\ 0..now \subseteq 0..now'
    BY <2>1 DEF StoresOK
  <2>3. StoresOK'
    <3>1. sendTimes \in Seq(0..now') /\ rated \in Seq(0..now')
      BY <2>2 DEF StoresOK
    <3>2. receipts \in [Keys -> [h : Handles, ts : 0..now'] \union {NoReceipt}]
      BY <2>2 DEF StoresOK
    <3>3. openUntil \in 0..now' + OpenFor
      <4>1. openUntil \in 0..now + OpenFor /\ OpenFor \in Nat
        BY Settings DEF StoresOK
      <4>2. openUntil \in Nat /\ openUntil <= now + OpenFor
        BY <2>2, <4>1
      <4>3. \A a, b, c, d \in Nat : a <= b + c /\ d >= b => a \in 0..d + c
        OBVIOUS
      <4> QED BY <2>2, <4>1, <4>2, <4>3
    <3> QED BY <2>1, <2>2, <3>1, <3>2, <3>3 DEF StoresOK
  <2>4. Holding' = Holding /\ SentOut' = SentOut /\ Cardinality(SentOut) \in Nat
    BY <2>1, SentCounts DEF IInv, Holding, IsSend, SideEffect
  <2>5. Cap > 0 => /\ IsFiniteSet(Holding')
                   /\ Cardinality(SentOut') + Cardinality(Holding')
                        <= Cardinality(SentOut) + Cardinality(Holding)
    <3>1. Cap > 0 => IsFiniteSet(Holding) /\ Cardinality(Holding) \in Nat
      BY FS_CardinalityType DEF SlotsOK
    <3> QED BY <2>4, <3>1
  <2> QED BY <2>1, <2>2, <2>3, <2>4, <2>5, SlotsStay
<1> QED BY <1>1, <1>2, <1>3, <1>4, <1>5, <1>6, <1>7, <1>8, <1>9, <1>10 DEF Next

-----------------------------------------------------------------------------
(* What the steps do to the tokens                                          *)

(* A token that is shown expires at an instant.                             *)
LEMMA TokenExpiry ==
  ASSUME StoresOK, NEW c, NEW seen
  PROVE  TokenFor(c, seen, Sec(now) + Ttl).exp \in Nat
BY Settings DEF TokenFor, Sec, StoresOK

(* The uses are a sequence of uses.                                         *)
LEMMA UsesTyped ==
  ASSUME TokensOK
  PROVE  /\ Len(uses) \in Nat /\ DOMAIN uses = 1..Len(uses)
         /\ \A j \in DOMAIN uses : uses[j].tok \in shown /\ uses[j].tok.exp \in Nat
                                   /\ uses[j].at \in 0..now
<1> DEFINE A == [tok : shown, at : 0..now]
<1>1. uses \in Seq(A)
  BY DEF TokensOK
<1> HIDE DEF A
<1>2. Len(uses) \in Nat /\ DOMAIN uses = 1..Len(uses) /\ \A j \in 1..Len(uses) : uses[j] \in A
  BY <1>1, LenProperties, ElementOfSeq
<1> QED BY <1>2 DEF A, TokensOK

(* Tokens are shown, records are pruned once expired, and time goes on.     *)
LEMMA TokensStay ==
  ASSUME StoresOK, TokensOK, now' \in Nat, now' >= now, uses' = uses, shown \subseteq shown',
         \A t \in shown' : t.exp \in Nat,
         consumed' \in {consumed, Unexpired}
  PROVE  TokensOK'
<1>1. now \in Nat /\ 0..now \subseteq 0..now'
  BY DEF StoresOK
<1>2. uses' \in Seq([tok : shown', at : 0..now'])
  <2> DEFINE A == [tok : shown, at : 0..now]
             B == [tok : shown', at : 0..now']
  <2>1. A \subseteq B /\ uses' \in Seq(A)
    BY <1>1 DEF TokensOK
  <2> HIDE DEF A, B
  <2>2. Seq(A) \subseteq Seq(B)
    BY <2>1
  <2>3. uses' \in Seq(B)
    BY <2>1, <2>2
  <2> QED BY <2>3 DEF B
<1>3. \A j \in DOMAIN uses : uses[j].tok \in shown
  BY UsesTyped
<1>4. ASSUME NEW j \in DOMAIN uses PROVE uses[j].tok \in consumed' \/ now' > 2 * uses[j].tok.exp
  <2>1. uses[j].tok \in consumed \/ now > 2 * uses[j].tok.exp
    BY DEF TokensOK
  <2>2. uses[j].tok.exp \in Nat
    BY <1>3 DEF TokensOK
  <2> QED BY <1>1, <2>1, <2>2 DEF Unexpired
<1>5. consumed' \subseteq shown'
  BY DEF TokensOK, Unexpired
<1> QED BY <1>2, <1>4, <1>5 DEF TokensOK, SingleUseUntilExpiry

(* Accepting a token records it, and no record of it was alive.             *)
LEMMA TokenAccepted ==
  ASSUME StoresOK, TokensOK, NEW r, NEW tok \in shown, NEW c, NEW seen,
         AcceptToken(r, tok, c, seen), now' = now
  PROVE  TokensOK'
<1>1. /\ tok.exp >= Sec(now) /\ tok \notin Unexpired /\ consumed' = Unexpired \union {tok}
      /\ uses' = Append(uses, [tok |-> tok, at |-> now]) /\ shown' = shown
  BY DEF AcceptToken, Verified
<1> DEFINE u == [tok |-> tok, at |-> now]
           n == Len(uses) + 1
<1>2. now \in Nat /\ u \in [tok : shown, at : 0..now] /\ tok.exp \in Nat
  BY DEF StoresOK, TokensOK
<1>3. u.tok = tok /\ u.at = now
  OBVIOUS
<1>4. /\ uses \in Seq([tok : shown, at : 0..now]) /\ Len(uses) \in Nat
      /\ DOMAIN uses = 1..Len(uses)
      /\ \A j \in DOMAIN uses : uses[j].tok \in shown /\ uses[j].tok.exp \in Nat
                                /\ uses[j].at \in 0..now
  BY UsesTyped DEF TokensOK
<1> HIDE DEF u
<1>5. /\ uses' \in Seq([tok : shown, at : 0..now]) /\ Len(uses') = n
      /\ \A j \in 1..Len(uses) : uses'[j] = uses[j]
      /\ uses'[n] = u
  BY <1>1, <1>2, <1>4, AppendProperties DEF u
<1>6. DOMAIN uses' = 1..n
  BY <1>5, LenProperties
<1>7. ASSUME NEW j \in 1..n PROVE uses'[j].tok \in consumed' \/ now' > 2 * uses'[j].tok.exp
  <2>1. CASE j = n
    BY <1>1, <1>3, <1>5, <2>1
  <2>2. CASE j \in 1..Len(uses)
    <3>1. uses[j].tok \in consumed \/ now > 2 * uses[j].tok.exp
      BY <1>4, <2>2 DEF TokensOK
    <3>2. uses[j].tok.exp \in Nat
      BY <1>4, <2>2
    <3> QED BY <1>1, <1>2, <1>5, <2>2, <3>1, <3>2 DEF Unexpired
  <2> QED BY <1>4, <2>1, <2>2
<1>8. now < 2 * (tok.exp + 1)
  BY <1>1, <1>2 DEF Sec
<1>9. ASSUME NEW i \in 1..Len(uses), uses[i].tok = tok PROVE now > 2 * tok.exp
  <2>1. tok \in consumed \/ now > 2 * tok.exp
    BY <1>4, <1>9 DEF TokensOK
  <2> QED BY <1>1, <1>2, <2>1 DEF Unexpired
<1>10. SingleUseUntilExpiry'
  <2> SUFFICES ASSUME NEW j \in 1..n
               PROVE  /\ uses'[j].at < 2 * (uses'[j].tok.exp + 1)
                      /\ \A i \in 1..j - 1 : uses'[i].tok = uses'[j].tok
                                               => uses'[j].at > 2 * uses'[j].tok.exp
    BY <1>6 DEF SingleUseUntilExpiry
  <2>1. CASE j = n
    <3>1. \A i \in 1..j - 1 : i \in 1..Len(uses) /\ uses'[i] = uses[i]
      BY <1>4, <1>5, <2>1
    <3> QED BY <1>3, <1>5, <1>8, <1>9, <2>1, <3>1
  <2>2. CASE j \in 1..Len(uses)
    <3>1. \A i \in 1..j - 1 : i \in 1..Len(uses) /\ uses'[i] = uses[i]
      BY <1>4, <1>5, <2>2
    <3> QED BY <1>4, <1>5, <2>2, <3>1 DEF TokensOK, SingleUseUntilExpiry
  <2> QED BY <1>4, <2>1, <2>2
<1>11. consumed' \subseteq shown'
  BY <1>1 DEF TokensOK, Unexpired
<1> QED BY <1>1, <1>4, <1>5, <1>6, <1>7, <1>10, <1>11 DEF TokensOK

(* The gate is the only step that shows, consumes or accepts a token.       *)
LEMMA GateTokens ==
  ASSUME StoresOK, TokensOK, NEW r, NEW tok \in shown \union {NoToken}, NEW c, NEW seen,
         ConfirmGate(r, c, tok, seen), now' = now
  PROVE  TokensOK'
<1>1. CASE Mint(r, c, seen)
  BY <1>1, TokenExpiry, TokensStay DEF Mint, TokensOK, StoresOK
<1>2. CASE RejectToken(r, tok, c, seen)
  BY <1>2, TokensStay DEF RejectToken, TokensOK, StoresOK
<1>3. CASE tok # NoToken /\ AcceptToken(r, tok, c, seen)
  BY <1>3, TokenAccepted
<1> QED BY <1>1, <1>2, <1>3 DEF ConfirmGate

(* Every step keeps the record of the tokens                                *)
LEMMA TokensInv ==
  ASSUME IInv, StoresOK, TokensOK, [Next]_vars
  PROVE  TokensOK'
<1>1. now \in Nat /\ \A t \in shown : t.exp \in Nat
  BY DEF StoresOK, TokensOK
<1>2. ASSUME UNCHANGED <<consumed, uses, shown>>, now' \in {now, now + 1}
      PROVE  TokensOK'
  BY <1>1, <1>2, TokensStay
<1>3. ASSUME NEW r \in Requests, NEW c \in Calls, NEW tok \in shown \union {NoToken},
             StartPreview(r, c, tok) \/ ConfirmLiteral(r, c, tok)
      PROVE  TokensOK'
  BY <1>2, <1>3, GateTokens DEF StartPreview, ConfirmLiteral, history
<1>4. ASSUME NEW r \in Requests, NEW c \in Calls, StartUngated(r, c)
      PROVE  TokensOK'
  BY <1>2, <1>4 DEF StartUngated
<1>5. ASSUME NEW r \in Requests, ResumeGate(r)
      PROVE  TokensOK'
  <2>1. job[r].tok \in shown \union {NoToken}
    BY DEF IInv, Shapes, Jobs
  <2> QED BY <1>2, <1>5, <2>1, GateTokens DEF ResumeGate, server, history
<1>6. ASSUME NEW r \in Requests, \/ FetchPreview(r) \/ Work(r) \/ ResumeDone(r)
                                 \/ ResumeRefused(r) \/ ResumeFailed(r)
      PROVE  TokensOK'
  BY <1>2, <1>6 DEF FetchPreview, Work, ResumeDone, ResumeRefused, ResumeFailed, server, history
<1>7. ASSUME Tick \/ UNCHANGED vars \/ \E d \in Drafts, b \in Bodies : OutlookEdit(d, b)
      PROVE  TokensOK'
  BY <1>2, <1>7 DEF Tick, vars, OutlookEdit, server, history
<1> QED BY <1>3, <1>4, <1>5, <1>6, <1>7 DEF Next

(* The two invariants beside the first one                                  *)
LEMMA StoresInvariant == Spec => [](IInv /\ StoresOK /\ SlotsOK /\ TokensOK)
<1>1. Init => StoresOK /\ SlotsOK /\ TokensOK
  <2> SUFFICES ASSUME Init PROVE StoresOK /\ SlotsOK /\ TokensOK
    OBVIOUS
  <2>1. StoresOK
    BY SettingsAssumption, EmptySeq DEF Init, StoresOK
  <2>2. Holding = {} /\ SentOut = {}
    BY DEF Init, Holding, SentOut, Idle
  <2>3. Len(rated) = 0 /\ Len(sendTimes) = 0 /\ DOMAIN rated = {} /\ DOMAIN sendTimes = {}
        /\ DOMAIN uses = {}
    BY DEF Init
  <2>4. SlotsOK
    BY <2>2, <2>3, FS_EmptySet DEF SlotsOK, Gone
  <2>5. TokensOK
    <3>1. uses \in Seq([tok : shown, at : 0..now])
      BY EmptySeq DEF Init
    <3> QED BY <2>3, <3>1 DEF Init, TokensOK, SingleUseUntilExpiry
  <2> QED BY <2>1, <2>4, <2>5
<1>2. IInv /\ StoresOK /\ SlotsOK /\ TokensOK /\ [Next]_vars
        => StoresOK' /\ SlotsOK' /\ TokensOK'
  BY StoresInv, TokensInv
<1> QED BY Invariant, <1>1, <1>2, PTL DEF Spec

-----------------------------------------------------------------------------
(* The theorems                                                             *)

(* No call with an irreversible effect reaches Exchange without a token     *)
(* that a preview of the same call and content minted.                      *)
THEOREM Gated == Spec => []NothingIrreversibleUngated
<1>1. IInv => NothingIrreversibleUngated
  BY DEF IInv, EntryOK, Bound, NothingIrreversibleUngated
<1> QED
  BY <1>1, Invariant, PTL

(* A draft leaves other than it was previewed, or to a blocked recipient,   *)
(* only if it was edited between phase 2's refetch and its SendItem.        *)
THEOREM Drift == Spec => []DriftOnlyAfterRefetch
<1>1. IInv => DriftOnlyAfterRefetch
  BY DEF IInv, EntryOK, DriftOnlyAfterRefetch
<1> QED
  BY <1>1, Invariant, PTL

(* Every idempotency receipt vouches for a send that Exchange carried out.  *)
THEOREM Truthful == Spec => []ReceiptsAreTruthful
<1>1. IInv => ReceiptsAreTruthful
  BY DEF IInv
<1> QED
  BY <1>1, Invariant, PTL

(* With the kill-switch off nothing is sent but a meeting's cancellation.   *)
THEOREM KillSwitch == Spec => []KillSwitchHolds
<1>1. IInv => KillSwitchHolds
  BY DEF IInv, EntryOK, Quiet, KillSwitchHolds
<1> QED
  BY <1>1, Invariant, PTL

(* The stores and the requests have their types; the circuit's failure      *)
(* count stays below its threshold and the rate window below its cap.       *)
THEOREM TypeCorrect == Spec => []TypeOK
<1>1. IInv /\ StoresOK /\ TokensOK => TypeOK
  BY DEF IInv, Shapes, StoresOK, TokensOK, TypeOK
<1> QED
  BY <1>1, StoresInvariant, PTL

(* Until the instant it expires a token is accepted once, whichever calls   *)
(* race for it, and never a second or more after it (confirm.py:41-61).     *)
THEOREM SingleUse == Spec => []SingleUseUntilExpiry
<1>1. TokensOK => SingleUseUntilExpiry
  BY DEF TokensOK
<1> QED
  BY <1>1, StoresInvariant, PTL

(* Any Cap + 1 calls that get a slot span more than the window, and nothing *)
(* of class send reaches Exchange without a slot (base.py:136-149).         *)
THEOREM RateCap == Spec => []RateCapHolds
<1>1. IInv /\ SlotsOK /\ StoresOK => RateCapHolds
  <2> SUFFICES ASSUME IInv, SlotsOK, StoresOK, Cap > 0 PROVE RateCapHolds
    BY DEF RateCapHolds
  <2>1. SentOut = {i \in DOMAIN log : SideEffect(log[i].call.tool) = "send"}
    BY DEF SentOut, IsSend
  <2>2. Cardinality(SentOut) <= Len(rated)
    <3>1. Cardinality(SentOut) \in Nat /\ Cardinality(Holding) \in Nat /\ Len(rated) \in Nat
      BY SentCounts, FS_CardinalityType, LenProperties DEF IInv, SlotsOK, StoresOK
    <3> QED BY <3>1 DEF SlotsOK
  <2> QED BY <2>1, <2>2 DEF SlotsOK, RateCapHolds
<1> QED
  BY <1>1, StoresInvariant, PTL

(* What RawReplayAnswered says of one request and one step                  *)
RawAnswered(r) ==
  job[r].pc = "idle" /\ job'[r].pc # "idle" =>
    ~(job'[r].call.h.form = "raw" /\ job'[r].call.tool = "send_draft" /\ IsReplay(job'[r].call))

(* A retry that names the draft by its raw id and has a receipt is answered *)
(* from it: it neither asks for a token nor reaches Exchange                *)
(* (writes.py:821-849).                                                     *)
THEOREM RawReplay == Spec => RawReplayAnswered
<1>1. ASSUME IInv, Next, NEW r \in Requests
      PROVE  RawAnswered(r)
  <2>1. job \in [Requests -> Jobs]
    BY <1>1 DEF IInv, Shapes
  <2>2. ASSUME NEW q \in Requests, NEW j, job' = [job EXCEPT ![q] = j],
               \/ job[q].pc # "idle" \/ j.pc = "idle"
               \/ ~(j.call.h.form = "raw" /\ j.call.tool = "send_draft" /\ IsReplay(j.call))
        PROVE  RawAnswered(r)
    BY <2>1, <2>2 DEF RawAnswered
  <2>3. ASSUME NEW q \in Requests, Finish(q) PROVE RawAnswered(r)
    BY <2>2, <2>3 DEF Finish, Idle
  <2>4. ASSUME NEW q \in Requests, job[q].pc # "idle", NEW pc, NEW c, NEW tok, NEW seen,
               Goto(q, pc, c, tok, seen)
        PROVE  RawAnswered(r)
    BY <2>2, <2>4 DEF Goto
  <2>5. ASSUME NEW c \in Calls, c.h.form = "raw", IsReplay(c)
        PROVE  Prior(c) # NoReceipt /\ (c.tool = "send_draft" => ~ConfirmNeeded(c))
    <3>1. c.h \in Handles /\ Resolve(c.h) = c.h
      BY <2>5, CallsAssumption DEF Resolve, Handles
    <3> QED BY <2>5, <3>1 DEF IsReplay, ConfirmNeeded
  <2>6. ASSUME NEW q \in Requests, NEW c \in Calls, NEW pc, NEW tok, NEW seen,
               Goto(q, pc, c, tok, seen),
               c.tool # "send_draft" \/ Prior(c) = NoReceipt \/ ConfirmNeeded(c)
        PROVE  RawAnswered(r)
    <3> DEFINE j == [pc |-> pc, call |-> c, tok |-> tok, seen |-> seen]
    <3>1. job' = [job EXCEPT ![q] = j] /\ j.call = c
      BY <2>6 DEF Goto
    <3> HIDE DEF j
    <3>2. ~(c.h.form = "raw" /\ c.tool = "send_draft" /\ IsReplay(c))
      BY <2>5, <2>6
    <3> QED BY <2>2, <3>1, <3>2
  <2>7. ASSUME NEW q \in Requests, NEW c \in Calls, NEW tok, NEW seen, RateGuard(q, c, tok, seen)
        PROVE  RawAnswered(r)
    BY <2>3, <2>6, <2>7 DEF RateGuard, Enter
  <2>8. ASSUME NEW q \in Requests, NEW c \in Calls, NEW tok, NEW seen,
               ConfirmGate(q, c, tok, seen)
        PROVE  RawAnswered(r)
    BY <2>3, <2>7, <2>8 DEF ConfirmGate, Mint, RejectToken, AcceptToken
  <2>9. ASSUME NEW q \in Requests, NEW c \in Calls, NEW tok, StartPreview(q, c, tok)
        PROVE  RawAnswered(r)
    BY <2>6, <2>9 DEF StartPreview
  <2>10. ASSUME NEW q \in Requests, ResumeGate(q)
         PROVE  RawAnswered(r)
    <3>1. job[q].call \in Calls
      BY <1>1, <2>10 DEF ResumeGate, IInv, JobOK
    <3> QED BY <2>3, <2>8, <2>10, <3>1 DEF ResumeGate
  <2>11. ASSUME NEW q \in Requests, FetchPreview(q) \/ Work(q)
         PROVE  RawAnswered(r)
    BY <2>4, <2>11 DEF FetchPreview, Work, Reach
  <2>12. ASSUME UNCHANGED job PROVE RawAnswered(r)
    BY <2>12 DEF RawAnswered
  <2> QED BY <1>1, <2>3, <2>7, <2>8, <2>9, <2>10, <2>11, <2>12
          DEF Next, ConfirmLiteral, StartUngated, ResumeDone, ResumeRefused, ResumeFailed,
              OutlookEdit, Tick
<1>2. IInv /\ [Next]_vars => [\A r \in Requests : RawAnswered(r)]_vars
  BY <1>1
<1> QED
  BY <1>2, Invariant, PTL DEF RawReplayAnswered, RawAnswered, Spec
=============================================================================
