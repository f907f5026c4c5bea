----------------------------- MODULE AuditChain -----------------------------
(***************************************************************************)
(* The audit log of the server (v5/ewsmcp/audit.py), a chain of hashes in  *)
(* one file a day with its head in memory and in chain.state, and what the *)
(* verifier (v5/scripts/verify_audit_chain.py) makes of the files.         *)
(*                                                                         *)
(* A call is known by its number.  The digest of a record is taken to be   *)
(* free of collisions, so it is modelled as what it is computed over, all  *)
(* the way down: the sequence of the records from GENESIS to this one.     *)
(***************************************************************************)
EXTENDS Naturals, Sequences

CONSTANTS
  Missing, Torn,   (* chain.state before it is written, and while it is    *)
  Junk,            (* a line that is not JSON                              *)
  MaxCalls, MaxDays, MaxFaults   (* bounds of the checked instances        *)

VARIABLES
  mem,        (* _prev and _seq                                            *)
  step,       (* how far record() is, under its lock                       *)
  log,        (* the lines of all files, in the verifier's order           *)
  open,       (* does the last line lack its end?                          *)
  state,      (* chain.state                                               *)
  today,      (* the date that names the file                              *)
  calls,      (* calls recorded so far, or tried to                        *)
  faults,     (* failures, crashes and damages so far                      *)
  skipped,    (* history: calls linked by this process but not written,    *)
              (*          none of whose successors is written              *)
  hidden,     (* history: calls of which nothing was left                  *)
  causes      (* history: what may break the chain                         *)

disk == <<log, open, state>>
history == <<skipped, hidden, causes>>
vars == <<mem, step, disk, today, calls, faults, history>>

Genesis == << >>
Fresh == [prev |-> Genesis, seq |-> 0]
Entry == [seq : Nat, call : Nat]
Digest == Seq(Entry)
Heads == [prev : Digest, seq : Nat]
Record == [seq : Nat, call : Nat, prev : Digest, h : Digest]
Line == [day : Nat, rec : Record \union {Junk}]

ASSUME ValuesAssumption == Missing \notin Heads /\ Torn \notin Heads /\ Junk \notin Record

HashOf(prev, seq, call) == Append(prev, [seq |-> seq, call |-> call])

Idle == [pc |-> "idle"]
At(pc, rec) == [pc |-> pc, rec |-> rec]

Init ==
  /\ mem = Fresh /\ step = Idle
  /\ log = << >> /\ open = FALSE /\ state = Missing
  /\ today = 1 /\ calls = 0 /\ faults = 0
  /\ skipped = {} /\ hidden = {} /\ causes = {}

Fault == faults < MaxFaults /\ faults' = faults + 1

-----------------------------------------------------------------------------
(* record() *)

(* A record takes the next number and the head, and becomes the head        *)
Link ==
  /\ step.pc = "idle" /\ calls < MaxCalls
  /\ LET seq == mem.seq + 1
         call == calls + 1
         h == HashOf(mem.prev, seq, call)
     IN
     /\ mem' = [prev |-> h, seq |-> seq]
     /\ step' = At("append", [seq |-> seq, call |-> call, prev |-> mem.prev, h |-> h])
     /\ calls' = call
  /\ UNCHANGED <<disk, today, faults, history>>

(* The record cannot be encoded: its number is used up, the head stays      *)
LinkFails ==
  /\ step.pc = "idle" /\ calls < MaxCalls /\ Fault
  /\ mem' = [mem EXCEPT !.seq = @ + 1]
  /\ calls' = calls + 1
  /\ hidden' = hidden \union {calls'}
  /\ causes' = IF mem.prev = Genesis THEN causes \union {"unanchored"} ELSE causes
  /\ UNCHANGED <<step, disk, today, skipped>>

(* A line goes to the end of today's file, after what is left there of an   *)
(* earlier one that was cut short                                           *)
Merged == open /\ log[Len(log)].day = today
WithLine(rec) == IF Merged THEN log ELSE Append(log, [day |-> today, rec |-> rec])

(* The record is written as it is, with the line separators its texts may   *)
(* hold (U+2028, U+2029, U+0085).  The verifier splits the line at them and *)
(* reads none of the parts: they are one junk line here.                    *)
AppendLine ==
  /\ step.pc = "append"
  /\ \/ /\ log' = WithLine(step.rec)
        /\ causes' = IF skipped # {} THEN causes \union {"gap"} ELSE causes
        /\ UNCHANGED faults
     \/ /\ Fault
        /\ log' = WithLine(Junk)
        /\ causes' = causes \union {"split"}
  /\ open' = FALSE
  /\ step' = [step EXCEPT !.pc = "save"]
  /\ skipped' = {}
  /\ UNCHANGED <<mem, state, today, calls, hidden>>

(* Mutant: a record that is not in the file is taken out of the chain       *)
SkippedUnlinked(rec) == mem' = [prev |-> rec.prev, seq |-> rec.seq - 1]
Skipped(rec) == UNCHANGED mem

(* Nothing is written, or part of the line; the exception is swallowed      *)
AppendFails ==
  /\ step.pc = "append" /\ Fault
  /\ \/ UNCHANGED <<log, open, causes>>
     \/ /\ log' = WithLine(Junk)
        /\ open' = TRUE
        /\ causes' = causes \union {"junk"}
  /\ Skipped(step.rec)
  /\ step' = Idle
  /\ skipped' = skipped \union {step.rec.call}
  /\ UNCHANGED <<state, today, calls, hidden>>

(* write_text empties the file before it writes it                          *)
Truncate ==
  /\ step.pc = "save"
  /\ state' = Torn
  /\ step' = [step EXCEPT !.pc = "write"]
  /\ UNCHANGED <<mem, log, open, today, calls, faults, history>>

WriteState ==
  /\ step.pc = "write"
  /\ state' = mem
  /\ step' = Idle
  /\ UNCHANGED <<mem, log, open, today, calls, faults, history>>

(* chain.state cannot be opened, or not be written                          *)
SaveFails ==
  /\ step.pc \in {"save", "write"} /\ Fault
  /\ step' = Idle
  /\ UNCHANGED <<mem, disk, today, calls, history>>

-----------------------------------------------------------------------------
(* The process ends at any point and a new one starts *)

(* Mutant: the head is not resumed                                          *)
ResumedWithoutPrev == IF state \in Heads THEN [state EXCEPT !.prev = Genesis] ELSE Fresh

(* __init__ *)
Resumed == IF state \in {Missing, Torn} THEN Fresh ELSE state

InLine(h) == log # << >> /\ log[Len(log)].rec # Junk /\ log[Len(log)].rec.h = h

Restart ==
  /\ Fault
  /\ mem' = Resumed
  /\ step' = Idle
  /\ skipped' = {}
  /\ hidden' = hidden \union skipped
                 \union (IF step.pc = "append" THEN {step.rec.call} ELSE {})
  /\ causes' = IF state \notin {Missing, Torn} /\ ~InLine(state.prev)
               THEN causes \union {"fork"} ELSE causes
  /\ UNCHANGED <<disk, today, calls>>

NextDay ==
  /\ today < MaxDays /\ today' = today + 1
  /\ UNCHANGED <<mem, step, disk, calls, faults, history>>

(* Lines are lost or changed: the last line of the log, a day's file, the   *)
(* contents of a record                                                     *)
Without(a, b) == SubSeq(log, 1, a) \o SubSeq(log, b + 1, Len(log))

Damage ==
  /\ Fault
  /\ \/ /\ log # << >>
        /\ log' = SubSeq(log, 1, Len(log) - 1) /\ open' = FALSE
     \/ \E a, b \in 0..Len(log) :
          /\ a < b
          /\ \A k \in DOMAIN log : k \in a + 1 .. b <=> log[k].day = log[b].day
          /\ log' = Without(a, b) /\ open' = (open /\ b < Len(log))
     \/ \E k \in DOMAIN log :
          /\ log[k].rec # Junk
          /\ log' = [log EXCEPT ![k].rec.call = 0]
          /\ UNCHANGED open
  /\ causes' = causes \union {"damage"}
  /\ UNCHANGED <<mem, step, state, today, calls, skipped, hidden>>

Next ==
  \/ Link \/ LinkFails
  \/ AppendLine \/ AppendFails
  \/ Truncate \/ WriteState \/ SaveFails
  \/ Restart \/ NextDay \/ Damage

Spec == Init /\ [][Next]_vars

-----------------------------------------------------------------------------
(* The verifier *)

(* The head it expects a record to follow                                   *)
Before(k) == IF k = 1 \/ log[k].rec.seq = 1 THEN Genesis ELSE log[k - 1].rec.h

Follows(k) ==
  LET rec == log[k].rec IN
  /\ rec.h = HashOf(Before(k), rec.seq, rec.call)
  /\ rec.prev = Before(k)

(* Mutant: the head is not compared                                         *)
HeadMatchesAny == TRUE
(* chain.state is not looked at if no record was read                       *)
HeadMatches ==
  \/ log = << >> \/ state = Missing
  \/ /\ state # Torn
     /\ InLine(state.prev) /\ log[Len(log)].rec.seq = state.seq

(* No break is reported                                                     *)
Accepts ==
  /\ \A k \in DOMAIN log : log[k].rec # Junk /\ Follows(k)
  /\ HeadMatches

-----------------------------------------------------------------------------
(* Properties *)

Recorded == {log[k].rec.call : k \in {n \in DOMAIN log : log[n].rec # Junk}}
Pending == IF step.pc = "append" THEN {step.rec.call} ELSE {}

(* The numbers never lag behind the chain, the record in progress is the    *)
(* head in memory, and what is on disk is well formed.                      *)
TypeOK ==
  /\ mem \in Heads /\ Len(mem.prev) <= mem.seq
  /\ \/ step = Idle
     \/ /\ step.pc \in {"append", "save", "write"} /\ step = At(step.pc, step.rec)
        /\ step.rec \in Record /\ mem = [prev |-> step.rec.h, seq |-> step.rec.seq]
        /\ step.rec.call = calls /\ calls # 0
  /\ log \in Seq(Line) /\ open \in BOOLEAN
  /\ open => log # << >> /\ log[Len(log)].rec = Junk
  /\ state \in Heads \union {Missing, Torn}
  /\ state \in Heads => Len(state.prev) <= state.seq
  /\ today \in Nat /\ calls \in Nat /\ faults \in Nat
  /\ skipped \subseteq 1..calls /\ hidden \subseteq 1..calls
  /\ causes \subseteq {"unanchored", "gap", "junk", "split", "fork", "damage"}

(* A log in which a record is left and that verifies against its head       *)
(* holds, from the last place where a chain began, exactly the records the  *)
(* head was computed over: nothing was cut off, taken out or changed        *)
(* (verify_audit_chain.py:34-78).  The premise on log is needed: with no    *)
(* record left the head is not compared (64), so a log cut down to nothing  *)
(* is accepted whatever chain.state says.                                   *)
AcceptedIsWhole ==
  Accepts /\ log # << >> /\ state \notin {Missing, Torn} =>
    \E a \in DOMAIN log :
      /\ a = 1 \/ log[a].rec.seq = 1
      /\ \A k \in a + 1 .. Len(log) : log[k].rec.seq # 1
      /\ state.prev = [k \in 1 .. Len(log) - a + 1 |->
                         [seq |-> log[a + k - 1].rec.seq,
                          call |-> log[a + k - 1].rec.call]]

(* A swallowed failure shows: if the log verifies, a call that is missing   *)
(* from it had no successor in its process, or could not be encoded         *)
(* (audit.py:54-73).                                                        *)
GapsShow ==
  Accepts /\ "damage" \notin causes =>
    1..calls \subseteq Recorded \union skipped \union hidden \union Pending

(* The verifier does not cry wolf: a log whose head is saved verifies,      *)
(* over any number of days and restarts, unless a record was lost, cut      *)
(* short or damaged, the process died or restarted between a line and its   *)
(* head, or the texts of a record held a line separator: audit.py:66 writes *)
(* those as they are and verify_audit_chain.py:36 splits at them, so that a *)
(* log nobody touched is reported as broken (audit.py:28-33, 55-70).        *)
IntactVerifies == step = Idle /\ state = mem /\ causes = {} => Accepts
=============================================================================
