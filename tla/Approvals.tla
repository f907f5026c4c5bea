----------------------------- MODULE Approvals -----------------------------
(***************************************************************************)
(* The approval queue of the v4 server (src/tools/approval_tools.py with   *)
(* ApprovalRepo of src/memory/models.py), and the tools that share its     *)
(* store: memory_* and the commitments ledger.                             *)
(*                                                                         *)
(* An action is submitted, approved or rejected by a person, and executed  *)
(* later.  approve and execute_approved_action are two steps each: approve *)
(* consumes the pending row and then writes the decided one, execute       *)
(* consumes the decided row and then runs the tool.  A worker is one call  *)
(* in a server process; several processes may share the file.              *)
(***************************************************************************)
EXTENDS MemoryStore

CONSTANTS
  Ids,          (* approval ids: new_id is fresh                           *)
  Commitments,  (* commitment ids                                          *)
  Names,        (* keys of the namespace prefs                             *)
  Workers,
  Actions,      (* allow-listed tool names                                 *)
  SmallSize,    (* sizes of the other namespaces' values                   *)
  Registered,   (* those whose feature is enabled in this deployment       *)
  Ttls,         (* TTLs an approval may be given                           *)
  ExecTtl,      (* ttl_seconds = 600 of the decided row                    *)
  NoJob, Scratch,
  MaxNow, MaxCrashes

ASSUME ApprovalsAssumption ==
  /\ Ttls \subseteq Nat /\ ExecTtl \in Nat
  /\ Registered \subseteq Actions /\ SmallSize \subseteq Size

VARIABLES
  job,       (* the worker's call between its two transactions             *)
  crashes,
  submitted, (* history: ids given out                                     *)
  ran,       (* history: how often the tool of an approval was started     *)
  approved,  (* history: ids whose approval was answered with Approved     *)
  rejected,  (* history: ids that were rejected                            *)
  unrun,     (* history: ids consumed although their tool is missing       *)
  died,      (* history: ids a worker held when it died                    *)
  failed,    (* history: ids whose decision could not be stored            *)
  pruned,    (* history: ids whose row the cap pushed out                  *)
  expired    (* history: ids whose row memory_get deleted as expired       *)

history == <<submitted, ran, approved, rejected, unrun, died, failed, pruned, expired>>
vars == <<now, kv, job, crashes, history>>

Slot(i)    == [ns |-> "approval", part |-> "slot", id |-> i]
Decided(i) == [ns |-> "approval", part |-> "decided", id |-> i]
Ledger(c)  == [ns |-> "commitment", part |-> "slot", id |-> c]
Pref(n)    == [ns |-> "prefs", part |-> "slot", id |-> n]

AllKeys == {Slot(i) : i \in Ids} \union {Decided(i) : i \in Ids}
           \union {Ledger(c) : c \in Commitments} \union {Pref(n) : n \in Names}

(* to_dict of an Approval, to_dict of a Commitment, a scratch value.        *)
Approval == [status : {"pending", "approved"}, action : Actions, until : Nat]
Commitment == [status : {"open", "done", "cancelled"}]
Row == RowOf(Approval \union Commitment \union {Scratch})

ASSUME KeyAssumption == Key = AllKeys

Jobs == [pc : {"approving", "executing"}, id : Ids, val : Approval, size : Size]
        \union [pc : {"evicting"}, key : Key]
        \union [pc : {"resolving"}, id : Commitments, to : {"done", "cancelled"},
                size : Size]

(* A row is there or not, a worker is in a call or not.                     *)
ASSUME NullAssumption == NoRow \notin Row /\ NoJob \notin Jobs

Idle(w) == job[w] = NoJob
Free(w) == job' = [job EXCEPT ![w] = NoJob]
Holds(w, i) == job[w] # NoJob /\ job[w].pc \in {"approving", "executing"} /\ job[w].id = i

Resolves(w, c) == job[w] # NoJob /\ job[w].pc = "resolving" /\ job[w].id = c

(* The approvals that lose a row; a Set may push out those of others.       *)
Gone(t) == {i \in Ids : \E x \in {Slot(i), Decided(i)} : kv[x] # NoRow /\ t[x] = NoRow}

Init ==
  /\ now = 0
  /\ kv = [k \in Key |-> NoRow]
  /\ job = [w \in Workers |-> NoJob]
  /\ crashes = 0
  /\ submitted = {} /\ approved = {} /\ rejected = {}
  /\ unrun = {} /\ died = {} /\ failed = {} /\ pruned = {} /\ expired = {}
  /\ ran = [i \in Ids |-> 0]

-----------------------------------------------------------------------------
(* Approvals *)

(* Mutant: the decision keeps the status it was read with                   *)
DecidedKeepingStatus(val) == val

(* ApprovalRepo.submit and ApprovalRepo.decide(approve=True).               *)
Queued(a, ttl) == [status |-> "pending", action |-> a, until |-> now + ttl]
DecidedOn(val) == [val EXCEPT !.status = "approved"]

(* submit_for_approval: a fresh id; any allow-listed action, registered or  *)
(* not.                                                                     *)
Submit(i, a, size, ttl) ==
  /\ i \notin submitted
  /\ \E t \in Set(Slot(i), Queued(a, ttl), size, ttl) :
       /\ kv' = t
       /\ pruned' = pruned \union Gone(t)
  /\ submitted' = submitted \union {i}
  /\ UNCHANGED <<now, job, crashes, ran, approved, rejected, unrun, died, failed, expired>>

(* approve, first half: the pending row is consumed.                        *)
Decide(w, i) ==
  /\ Idle(w)
  /\ Consumable(Slot(i), "pending")
  /\ kv' = Consume(Slot(i))
  /\ job' = [job EXCEPT ![w] = [pc |-> "approving", id |-> i, size |-> kv[Slot(i)].size,
                                val |-> DecidedOn(kv[Slot(i)].val)]]
  /\ UNCHANGED <<now, crashes, history>>

(* The rest of approve: the decision is stored again under decided.<id>,    *)
(* where it has ten minutes.                                                *)
Approve(w) ==
  /\ ~Idle(w) /\ job[w].pc = "approving"
  /\ LET i == job[w].id IN
     /\ \E t \in Set(Decided(i), job[w].val, job[w].size, ExecTtl) :
          /\ kv' = t
          /\ pruned' = pruned \union Gone(t)
     /\ approved' = approved \union {i}
  /\ Free(w)
  /\ UNCHANGED <<now, crashes, submitted, ran, rejected, unrun, died, failed, expired>>

(* The row, which the decision has made longer, is refused, or SQLite       *)
(* fails: approve is answered with an error, and the pending row is gone.   *)
ApproveFails(w) ==
  /\ ~Idle(w) /\ job[w].pc = "approving"
  /\ failed' = failed \union {job[w].id}
  /\ Free(w)
  /\ UNCHANGED <<now, kv, crashes, submitted, ran, approved, rejected, unrun, died, pruned, expired>>

(* Mutant: reject reads the pending row and leaves it there                 *)
RejectByReading(i) ==
  /\ Consumable(Slot(i), "pending")
  /\ rejected' = rejected \union {i}
  /\ UNCHANGED <<now, kv, job, crashes, submitted, ran, approved, unrun, died, failed, pruned, expired>>

(* reject: one transaction; nothing is stored of the decision.              *)
Reject(i) ==
  /\ Consumable(Slot(i), "pending")
  /\ kv' = Consume(Slot(i))
  /\ rejected' = rejected \union {i}
  /\ UNCHANGED <<now, job, crashes, submitted, ran, approved, unrun, died, failed, pruned, expired>>

(* execute_approved_action, up to the consumption of the decided row.       *)
Claim(w, i) ==
  /\ Idle(w)
  /\ Consumable(Decided(i), "approved")
  /\ kv' = Consume(Decided(i))
  /\ job' = [job EXCEPT ![w] = [pc |-> "executing", id |-> i, size |-> kv[Decided(i)].size,
                                val |-> kv[Decided(i)].val]]
  /\ UNCHANGED <<now, crashes, history>>

(* The rest of it: a missing tool is an error and the approval is spent all *)
(* the same; otherwise the tool runs, well or not, through its own          *)
(* safe_execute.                                                            *)
ExecuteApproved(w) ==
  /\ ~Idle(w) /\ job[w].pc = "executing"
  /\ LET i == job[w].id IN
     \/ /\ job[w].val.action \in Registered
        /\ ran' = [ran EXCEPT ![i] = @ + 1]
        /\ unrun' = unrun
     \/ /\ job[w].val.action \notin Registered
        /\ unrun' = unrun \union {i}
        /\ ran' = ran
  /\ Free(w)
  /\ UNCHANGED <<now, kv, crashes, submitted, approved, rejected, died, failed, pruned, expired>>

(* ApprovalRepo.list_pending on the rows the store returns: the limit cuts  *)
(* before the filter does.                                                  *)
PendingOf(L) == {k.id : k \in {x \in L : kv[x].val.status = "pending" /\ kv[x].val.until >= now}}

(* list_pending_approvals: the answers it may give (ties of updated_at).    *)
ListPending(limit) == {PendingOf(L) : L \in List("approval", limit)}

-----------------------------------------------------------------------------
(* The other tools on the store *)

MemorySet(n, size, ttl) ==
  /\ kv' \in Set(Pref(n), Scratch, size, ttl)
  /\ UNCHANGED <<now, job, crashes, history>>

(* memory_get of an expired row deletes it, in a second transaction and     *)
(* whatever it is by then; unlike the tools that write it reads every       *)
(* namespace, the approvals' too.                                           *)
MemoryGet(w, k) ==
  /\ Idle(w)
  /\ Found(k) /\ Expired(kv[k])
  /\ job' = [job EXCEPT ![w] = [pc |-> "evicting", key |-> k]]
  /\ UNCHANGED <<now, kv, crashes, history>>

Evict(w) ==
  /\ ~Idle(w) /\ job[w].pc = "evicting"
  /\ kv' = Delete(job[w].key)
  /\ expired' = expired \union Gone(kv')
  /\ Free(w)
  /\ UNCHANGED <<now, crashes, submitted, ran, approved, rejected, unrun, died, failed, pruned>>

(* memory_delete refuses the namespaces approval, rule and oof.policy, not  *)
(* the commitments.                                                         *)
Reserved == {"approval", "rule", "oof.policy"}

MemoryDelete(k) ==
  /\ k.ns \notin Reserved
  /\ kv[k] # NoRow
  /\ kv' = Delete(k)
  /\ UNCHANGED <<now, job, crashes, history>>

TrackCommitment(c, size) ==
  /\ kv[Ledger(c)] = NoRow /\ \A w \in Workers : ~Resolves(w, c)
  /\ kv' \in Set(Ledger(c), [status |-> "open"], size, NoTtl)
  /\ UNCHANGED <<now, job, crashes, history>>

(* resolve_commitment: get, and then save, whatever became of the row       *)
(* meanwhile.                                                               *)
ResolveRead(w, c, to) ==
  /\ Idle(w)
  /\ Found(Ledger(c))
  /\ job' = [job EXCEPT ![w] = [pc |-> "resolving", id |-> c, to |-> to,
                                size |-> kv[Ledger(c)].size]]
  /\ UNCHANGED <<now, kv, crashes, history>>

ResolveCommitment(w) ==
  /\ ~Idle(w) /\ job[w].pc = "resolving"
  /\ kv' \in Set(Ledger(job[w].id), [status |-> job[w].to], job[w].size, NoTtl)
  /\ Free(w)
  /\ UNCHANGED <<now, crashes, history>>

-----------------------------------------------------------------------------
(* The environment *)

Tick ==
  /\ now < MaxNow
  /\ now' = now + 1
  /\ UNCHANGED <<kv, job, crashes, history>>

(* A server process dies between the two transactions of a call.            *)
Crash(w) ==
  /\ crashes < MaxCrashes
  /\ ~Idle(w)
  /\ crashes' = crashes + 1
  /\ died' = died \union {i \in Ids : Holds(w, i)}
  /\ Free(w)
  /\ UNCHANGED <<now, kv, submitted, ran, approved, rejected, unrun, failed, pruned, expired>>

Next ==
  \/ \E i \in Ids, a \in Actions, size \in Size, ttl \in Ttls : Submit(i, a, size, ttl)
  \/ \E w \in Workers, i \in Ids : Decide(w, i) \/ Claim(w, i)
  \/ \E w \in Workers : \/ Approve(w) \/ ApproveFails(w) \/ ExecuteApproved(w) \/ Evict(w)
                        \/ ResolveCommitment(w) \/ Crash(w)
  \/ \E i \in Ids : Reject(i)
  \/ \E n \in Names, size \in SmallSize, ttl \in Ttls \union {NoTtl} : MemorySet(n, size, ttl)
  \/ \E w \in Workers, k \in Key : MemoryGet(w, k)
  \/ \E k \in Key : MemoryDelete(k)
  \/ \E c \in Commitments, size \in SmallSize : TrackCommitment(c, size)
  \/ \E w \in Workers, c \in Commitments, to \in {"done", "cancelled"} : ResolveRead(w, c, to)
  \/ Tick

Spec == Init /\ [][Next]_vars

-----------------------------------------------------------------------------
(* Properties *)

TypeOK ==
  /\ now \in Nat /\ crashes \in Nat
  /\ kv \in [Key -> Row \union {NoRow}]
  /\ job \in [Workers -> Jobs \union {NoJob}]
  /\ ran \in [Ids -> Nat]
  /\ \A S \in {submitted, approved, rejected, unrun, died, failed, pruned, expired} : S \subseteq Ids

(* Where an approval may be.                                                *)
Places == {"slot", "decided", "held", "ran", "rejected", "unrun", "died", "failed", "pruned", "expired"}
At(p, i) ==
  CASE p = "slot"     -> kv[Slot(i)] # NoRow
    [] p = "decided"  -> kv[Decided(i)] # NoRow
    [] p = "held"     -> \E w \in Workers : Holds(w, i)
    [] p = "ran"      -> ran[i] > 0
    [] p = "rejected" -> i \in rejected
    [] p = "unrun"    -> i \in unrun
    [] p = "died"     -> i \in died
    [] p = "failed"   -> i \in failed
    [] p = "pruned"   -> i \in pruned
    [] p = "expired"  -> i \in expired

(* An approval that was submitted is in exactly one place: waiting, decided, *)
(* in the hands of one worker, executed, rejected, or lost in one of the     *)
(* five ways the code has: a missing tool, a crash between consume and the   *)
(* next step, a decision that could not be stored (approval_tools.py:189),   *)
(* the namespace's cap, and memory_get of its row once that has expired      *)
(* (store.py:334).  Two approves, an approve and a reject, or two executions *)
(* at once never both get it (approval_tools.py:12-14).                      *)
Accounted == \A i \in submitted : \E p \in Places : At(p, i) /\ \A q \in Places \ {p} : ~At(q, i)

(* A queued action is executed once at most, and only if a person approved   *)
(* it and nobody rejected it (approval_tools.py:237-238, consume).           *)
OnceAndApproved == \A i \in Ids : /\ ran[i] <= 1
                                  /\ ran[i] = 1 => i \in approved /\ i \notin rejected

(* What was answered holds.  An approval that list_pending shows is not     *)
(* decided, held or gone and can be approved now; one whose approve was     *)
(* answered with Approved can still be executed: its decided row is there,  *)
(* with that status, until it is executed, lost with a worker, pushed out   *)
(* by the cap, or asked for with memory_get after its ten minutes.  Until   *)
(* somebody does that, it can be executed after them too: consume does not  *)
(* look at expires_at (store.py:405-418), against approval_tools.py:14 and  *)
(* 239-240, by which an expired approval is refused.                        *)
AnswersHold ==
  /\ \A limit \in 1..2 : \A L \in ListPending(limit) : \A i \in L :
       Consumable(Slot(i), "pending") /\ ~\E p \in Places \ {"slot"} : At(p, i)
  /\ \A i \in approved \ (unrun \union died \union pruned \union expired) :
       \/ kv[Decided(i)] # NoRow /\ kv[Decided(i)].val.status = "approved"
       \/ \E w \in Workers : Holds(w, i) /\ job[w].pc = "executing"
       \/ ran[i] = 1
============================================================================
