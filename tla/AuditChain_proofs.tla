-------------------------- MODULE AuditChain_proofs --------------------------
(***************************************************************************)
(* What the audit log guarantees for any number of calls, days, failures,  *)
(* crashes and damages.                                                    *)
(*                                                                         *)
(* The invariant says what the head in memory stands for: a digest of a    *)
(* call that is in the last line, or of one that has been skipped, and     *)
(* then no line can follow any other (LinksOK).  With it a gap cannot be   *)
(* closed by a later record (GapsOK), and a log without mishaps goes on    *)
(* where it ended (StateOK, IntactOK).                                     *)
(***************************************************************************)
EXTENDS AuditChain, SequenceTheorems, WellFoundedInduction, TLAPS

Last(s) == s[Len(s)]
Derived(rec) == rec.h = HashOf(rec.prev, rec.seq, rec.call)

(* The head that a line still to be written names                           *)
Tip == IF step.pc = "append" THEN step.rec.prev ELSE mem.prev

LinksOK ==
  /\ step.pc # "idle" => Derived(step.rec)
  /\ step.pc = "append" => calls \notin Recorded
  /\ step.pc \in {"save", "write"} => skipped = {}
  /\ Recorded \subseteq 0..calls /\ skipped \intersect Recorded = {}
  /\ skipped # {} => Tip # Genesis /\ Last(Tip).call \in skipped
  /\ "damage" \notin causes =>
       \A k \in DOMAIN log : log[k].rec # Junk => Derived(log[k].rec)

StateOK ==
  state \notin {Missing, Torn} =>
    /\ state.prev # Genesis /\ Last(state.prev).seq = state.seq
    /\ Last(state.prev).call \in (1..calls) \ (skipped \union Pending)

GapsOK ==
  "damage" \notin causes =>
    \/ 1..calls \subseteq Recorded \union skipped \union hidden \union Pending
    \/ \E k \in DOMAIN log : log[k].rec = Junk \/ ~Follows(k)

IntactOK ==
  causes = {} =>
    /\ \A k \in DOMAIN log : log[k].rec # Junk /\ Follows(k)
    /\ skipped = {} =>
         IF step.pc = "append"
         THEN \/ step.rec.prev = Genesis /\ step.rec.seq = 1
              \/ InLine(step.rec.prev)
         ELSE mem = Fresh \/ InLine(mem.prev)

IInv == TypeOK /\ LinksOK /\ StateOK /\ GapsOK /\ IntactOK

-----------------------------------------------------------------------------
(* Sequences *)

(* A digest ends with the record it was computed for.                       *)
LEMMA HashFacts ==
  ASSUME NEW prev \in Digest, NEW seq \in Nat, NEW call \in Nat
  PROVE  LET h == HashOf(prev, seq, call) IN
         /\ h \in Digest /\ h # Genesis
         /\ Len(h) = Len(prev) + 1
         /\ Last(h) = [seq |-> seq, call |-> call]
         /\ \A i \in 1..Len(prev) : h[i] = prev[i]
<1> DEFINE e == [seq |-> seq, call |-> call]
           h == HashOf(prev, seq, call)
<1>1. e \in Entry
  BY DEF Entry
<1>2. h = Append(prev, e) /\ prev \in Seq(Entry)
  BY DEF HashOf, Digest
<1> HIDE DEF e
<1>3. /\ Append(prev, e) \in Seq(Entry) /\ Len(Append(prev, e)) = Len(prev) + 1
      /\ \A i \in 1..Len(prev) : Append(prev, e)[i] = prev[i]
      /\ Append(prev, e)[Len(prev) + 1] = e
  BY <1>1, <1>2, AppendProperties
<1>4. Len(prev) \in Nat
  BY <1>2, LenProperties
<1> QED BY <1>2, <1>3, <1>4, EmptySeq DEF Last, Digest, Genesis, e

(* A new line is the last one and leaves the others where they are.         *)
LEMMA AppendFacts ==
  ASSUME TypeOK, NEW l \in Line
  PROVE  /\ Append(log, l) \in Seq(Line)
         /\ Len(Append(log, l)) = Len(log) + 1 /\ Len(log) \in Nat
         /\ Append(log, l)[Len(log) + 1] = l
         /\ \A k \in DOMAIN log : k \in 1..Len(log) /\ Append(log, l)[k] = log[k]
         /\ DOMAIN Append(log, l) = 1 .. Len(log) + 1
         /\ DOMAIN log = 1 .. Len(log)
<1>1. log \in Seq(Line)
  BY DEF TypeOK
<1> QED BY <1>1, AppendProperties, LenProperties

(* Cutting an interval out of a sequence                                    *)
LEMMA CutOut ==
  ASSUME NEW S, NEW u \in Seq(S), NEW n \in Nat, Len(u) = n,
         NEW a \in 0..n, NEW b \in 0..n, a <= b,
         NEW s, s = SubSeq(u, 1, a), NEW t, t = SubSeq(u, b + 1, n)
  PROVE  /\ s \o t \in Seq(S)
         /\ Len(s \o t) = a + (n - b) /\ DOMAIN (s \o t) = 1 .. a + (n - b)
         /\ \A i \in 1 .. a + (n - b) : (s \o t)[i] = IF i <= a THEN u[i] ELSE u[b + (i - a)]
<1>1. \A i \in 1..n : u[i] \in S
  BY ElementOfSeq
<1>2. /\ s \in Seq(S) /\ Len(s) = a
      /\ \A i \in 1..a : s[i] = u[i]
  <2>1. \A i \in 1..a : u[i] \in S
    BY <1>1
  <2>2. /\ SubSeq(u, 1, a) \in Seq(S)
        /\ Len(SubSeq(u, 1, a)) = IF 1 <= a THEN a - 1 + 1 ELSE 0
        /\ \A i \in 1 .. a - 1 + 1 : SubSeq(u, 1, a)[i] = u[1 + i - 1]
    BY <2>1, SubSeqProperties
  <2>3. \A i \in 1..a : i \in 1 .. a - 1 + 1 /\ 1 + i - 1 = i
    OBVIOUS
  <2> QED BY <2>2, <2>3
<1>3. /\ t \in Seq(S) /\ Len(t) = n - b
      /\ \A i \in 1 .. n - b : t[i] = u[b + i]
  <2>1. \A i \in b + 1 .. n : u[i] \in S
    BY <1>1
  <2>2. /\ SubSeq(u, b + 1, n) \in Seq(S)
        /\ Len(SubSeq(u, b + 1, n)) = IF b + 1 <= n THEN n - (b + 1) + 1 ELSE 0
        /\ \A i \in 1 .. n - (b + 1) + 1 : SubSeq(u, b + 1, n)[i] = u[b + 1 + i - 1]
    BY <2>1, SubSeqProperties
  <2>3. \A i \in 1 .. n - b : i \in 1 .. n - (b + 1) + 1 /\ b + 1 + i - 1 = b + i
    OBVIOUS
  <2> QED BY <2>2, <2>3
<1>4. /\ s \o t \in Seq(S) /\ Len(s \o t) = Len(s) + Len(t)
      /\ \A i \in 1 .. Len(s) + Len(t) : (s \o t)[i] = IF i <= Len(s) THEN s[i] ELSE t[i - Len(s)]
  BY <1>2, <1>3, ConcatProperties
<1>5. DOMAIN (s \o t) = 1 .. Len(s \o t)
  BY <1>4, LenProperties
<1>6. ASSUME NEW i \in 1 .. a + (n - b)
      PROVE  (s \o t)[i] = IF i <= a THEN u[i] ELSE u[b + (i - a)]
  <2>1. (s \o t)[i] = IF i <= a THEN s[i] ELSE t[i - a]
    BY <1>2, <1>3, <1>4
  <2>2. CASE i <= a
    BY <1>2, <2>1, <2>2
  <2>3. CASE i > a
    <3>1. i - a \in 1 .. n - b
      BY <2>3
    <3> QED BY <1>3, <2>1, <2>3, <3>1
  <2> QED BY <2>2, <2>3
<1> QED BY <1>2, <1>3, <1>4, <1>5, <1>6

(* Lines that are cut out leave lines of the log.                           *)
LEMMA WithoutFacts ==
  ASSUME TypeOK, NEW a \in 0..Len(log), NEW b \in 0..Len(log), a <= b
  PROVE  /\ Without(a, b) \in Seq(Line)
         /\ \A k \in DOMAIN Without(a, b) : \E n \in DOMAIN log : Without(a, b)[k] = log[n]
         /\ b < Len(log) => /\ Without(a, b) # << >>
                            /\ Last(Without(a, b)) = Last(log)
<1> DEFINE n == Len(log)
           w == Without(a, b)
<1>1. log \in Seq(Line) /\ n \in Nat /\ DOMAIN log = 1..n
  BY LenProperties DEF TypeOK
<1>2. /\ w \in Seq(Line)
      /\ Len(w) = a + (n - b) /\ DOMAIN w = 1 .. a + (n - b)
      /\ \A i \in 1 .. a + (n - b) : w[i] = IF i <= a THEN log[i] ELSE log[b + (i - a)]
  <2> DEFINE s == SubSeq(log, 1, a)
             t == SubSeq(log, b + 1, n)
  <2>1. w = s \o t
    BY DEF Without
  <2>2. /\ s = SubSeq(log, 1, a) /\ t = SubSeq(log, b + 1, n) /\ Len(log) = n
        /\ log \in Seq(Line) /\ n \in Nat /\ a \in 0..n /\ b \in 0..n /\ a <= b
    BY <1>1
  <2> HIDE DEF s, t, n, w
  <2>3. PICK u, m, x, y :
          /\ u = log /\ m = n /\ x = s /\ y = t
          /\ x = SubSeq(u, 1, a) /\ y = SubSeq(u, b + 1, m) /\ Len(u) = m
          /\ u \in Seq(Line) /\ m \in Nat /\ a \in 0..m /\ b \in 0..m /\ a <= b
    BY <2>2
  <2>4. /\ x \o y \in Seq(Line)
        /\ Len(x \o y) = a + (m - b) /\ DOMAIN (x \o y) = 1 .. a + (m - b)
        /\ \A i \in 1 .. a + (m - b) : (x \o y)[i] = IF i <= a THEN u[i] ELSE u[b + (i - a)]
    BY <2>3, CutOut
  <2> QED BY <2>1, <2>3, <2>4
<1>3. a \in 0..n /\ b \in 0..n
  OBVIOUS
<1> HIDE DEF w, n
<1>4. ASSUME NEW k \in DOMAIN w
      PROVE  \E i \in DOMAIN log : w[k] = log[i]
  <2>1. CASE k <= a
    BY <1>1, <1>2, <1>3, <2>1
  <2>2. CASE k > a
    <3>1. b + (k - a) \in 1..n
      BY <1>1, <1>2, <1>3, <2>2
    <3> QED BY <1>1, <1>2, <1>3, <2>2, <3>1
  <2> QED BY <1>1, <1>2, <1>3, <2>1, <2>2
<1>5. ASSUME b < n
      PROVE  w # << >> /\ Last(w) = Last(log)
  <2>1. /\ a + (n - b) \in 1 .. a + (n - b) /\ ~(a + (n - b) <= a)
        /\ b + ((a + (n - b)) - a) = n
    BY <1>1, <1>3, <1>5
  <2>2. w[a + (n - b)] = log[n]
    BY <1>2, <2>1
  <2> QED BY <1>1, <1>2, <2>1, <2>2, EmptySeq DEF Last, n
<1> QED BY <1>2, <1>4, <1>5 DEF w, n

(* Damage leaves lines of the log, but for the calls it has overwritten.    *)
LEMMA DamageFacts ==
  ASSUME TypeOK, Damage
  PROVE  /\ log' \in Seq(Line) /\ open' \in BOOLEAN
         /\ open' => log' # << >> /\ Last(log').rec = Junk
         /\ \A k \in DOMAIN log' : log'[k].rec # Junk =>
              \E n \in DOMAIN log : /\ log[n].rec # Junk
                                    /\ log'[k].rec.call \in {log[n].rec.call, 0}
<1> DEFINE n == Len(log)
<1>1. log \in Seq(Line) /\ n \in Nat /\ DOMAIN log = 1..n /\ open \in BOOLEAN
      /\ (open => log # << >> /\ Last(log).rec = Junk)
  BY LenProperties DEF TypeOK, Last
<1>2. CASE log # << >> /\ log' = SubSeq(log, 1, n - 1) /\ open' = FALSE
  <2>1. n # 0
    BY <1>1, <1>2, EmptySeq
  <2>2. n - 1 \in 0..n /\ n \in 0..n /\ n - 1 <= n
    BY <1>1, <2>1
  <2>3. \A i \in 1 .. n - 1 : log[i] \in Line
    BY <1>1, ElementOfSeq
  <2>4. /\ SubSeq(log, 1, n - 1) \in Seq(Line)
        /\ Len(SubSeq(log, 1, n - 1)) = IF 1 <= n - 1 THEN n - 1 - 1 + 1 ELSE 0
        /\ \A i \in 1 .. n - 1 - 1 + 1 : SubSeq(log, 1, n - 1)[i] = log[1 + i - 1]
    BY <1>1, <2>2, <2>3, SubSeqProperties
  <2> HIDE DEF n
  <2>5. log' \in Seq(Line) /\ Len(log') = n - 1 /\ \A i \in 1 .. n - 1 : log'[i] = log[i]
    BY <1>1, <1>2, <2>1, <2>4
  <2>6. DOMAIN log' = 1 .. n - 1
    BY <2>5, LenProperties
  <2>7. \A k \in DOMAIN log' : k \in DOMAIN log /\ log'[k] = log[k]
    BY <1>1, <2>5, <2>6
  <2> QED BY <1>2, <2>5, <2>7
<1>3. ASSUME NEW a \in 0..n, NEW b \in 0..n, a < b,
             log' = Without(a, b), open' = (open /\ b < n)
      PROVE  /\ log' \in Seq(Line) /\ open' \in BOOLEAN
             /\ open' => log' # << >> /\ Last(log').rec = Junk
             /\ \A k \in DOMAIN log' : \E i \in DOMAIN log : log'[k] = log[i]
  <2>1. /\ a \in 0..Len(log) /\ b \in 0..Len(log) /\ a <= b
    BY <1>1, <1>3
  <2>2. /\ log' \in Seq(Line)
        /\ \A k \in DOMAIN log' : \E i \in DOMAIN log : log'[k] = log[i]
        /\ b < n => log' # << >> /\ Last(log') = Last(log)
    BY <1>3, <2>1, WithoutFacts
  <2>3. open' \in BOOLEAN /\ (open' => open /\ b < n)
    BY <1>1, <1>3
  <2> QED BY <1>1, <2>2, <2>3
<1>4. ASSUME NEW k \in DOMAIN log, log[k].rec # Junk,
             log' = [log EXCEPT ![k].rec.call = 0], UNCHANGED open
      PROVE  /\ log' \in Seq(Line) /\ open' \in BOOLEAN
             /\ open' => log' # << >> /\ Last(log').rec = Junk
             /\ \A i \in DOMAIN log' : log'[i].rec # Junk =>
                  /\ log[i].rec # Junk /\ i \in DOMAIN log
                  /\ log'[i].rec.call \in {log[i].rec.call, 0}
  <2> DEFINE l == [log[k] EXCEPT !.rec.call = 0]
  <2>1. log[k] \in Line /\ log[k].rec \in Record
    <3>1. k \in 1..Len(log)
      BY <1>1
    <3>2. log[k] \in Line
      BY <1>1, <3>1, ElementOfSeq
    <3> QED BY <1>4, <3>2 DEF Line
  <2>2. l \in Line /\ l.rec.call = 0
    BY <2>1 DEF Line, Record
  <2>3. log' = [log EXCEPT ![k] = l]
    BY <1>4
  <2> HIDE DEF l, n
  <2>4. /\ log' \in Seq(Line) /\ Len(log') = Len(log)
        /\ \A j \in 1 .. Len(log) : log'[j] = IF j = k THEN l ELSE log[j]
    BY <1>1, <2>2, <2>3, ExceptSeq DEF n
  <2>5. DOMAIN log' = 1 .. n
    BY <1>1, <2>4, LenProperties DEF n
  <2>6. open => log' # << >> /\ Last(log').rec = Junk
    <3>1. open => n # k /\ n \in 1..n
      BY <1>1, <1>4, EmptySeq DEF Last, n
    <3>2. open => log'[n] = log[n]
      BY <2>4, <3>1 DEF n
    <3> QED BY <1>1, <2>4, <3>1, <3>2, EmptySeq DEF Last, n
  <2> QED BY <1>1, <1>4, <2>2, <2>4, <2>5, <2>6 DEF n
<1> QED BY <1>2, <1>3, <1>4 DEF Damage

-----------------------------------------------------------------------------
(* Types *)

(* What a record in progress is                                             *)
LEMMA InProgress ==
  ASSUME TypeOK, step.pc # "idle"
  PROVE  /\ step.pc \in {"append", "save", "write"}
         /\ step = [pc |-> step.pc, rec |-> step.rec]
         /\ step.rec \in Record /\ mem = [prev |-> step.rec.h, seq |-> step.rec.seq]
         /\ mem.prev = step.rec.h /\ mem.seq = step.rec.seq
         /\ step.rec.seq \in Nat /\ step.rec.call \in Nat
         /\ step.rec.prev \in Digest /\ step.rec.h \in Digest
         /\ step.rec.call = calls /\ calls \in 1..calls
<1>1. step # Idle
  BY DEF Idle
<1>2. /\ step.pc \in {"append", "save", "write"} /\ step = At(step.pc, step.rec)
      /\ step.rec \in Record /\ mem = [prev |-> step.rec.h, seq |-> step.rec.seq]
      /\ step.rec.call = calls /\ calls # 0
  BY <1>1 DEF TypeOK
<1>3. calls \in Nat
  BY DEF TypeOK
<1> QED BY <1>2, <1>3 DEF At, Record

(* What the process has in memory, taken out of TypeOK.                     *)
LEMMA InMemory ==
  ASSUME TypeOK
  PROVE  /\ mem.prev \in Digest /\ mem.seq \in Nat /\ Len(mem.prev) \in Nat
         /\ mem = [prev |-> mem.prev, seq |-> mem.seq]
         /\ Len(mem.prev) <= mem.seq /\ calls \in Nat
<1>1. mem \in [prev : Digest, seq : Nat] /\ Len(mem.prev) <= mem.seq /\ calls \in Nat
  BY DEF TypeOK, Heads
<1>2. mem.prev \in Seq(Entry)
  BY <1>1 DEF Digest
<1> QED BY <1>1, <1>2, LenProperties

(* A new data directory is well formed.                                     *)
LEMMA TypeInit == Init => TypeOK
<1> SUFFICES ASSUME Init PROVE TypeOK
  OBVIOUS
<1>1. << >> \in Digest /\ Len(<< >>) = 0 /\ << >> \in Seq(Line)
  BY EmptySeq DEF Digest
<1>2. mem = [prev |-> << >>, seq |-> 0] /\ mem \in Heads
  BY <1>1 DEF Init, Fresh, Genesis, Heads
<1>3. mem.prev = << >> /\ mem.seq = 0
  BY <1>2
<1>4. Len(mem.prev) <= mem.seq
  BY <1>1, <1>3
<1>5. state \in {Missing, Torn} /\ state \notin Heads
  BY ValuesAssumption DEF Init
<1> QED BY <1>1, <1>2, <1>4, <1>5 DEF Init, TypeOK

(* Linking a record keeps the types: the number grows with the chain.       *)
LEMMA TypeLink == TypeOK /\ Link => TypeOK'
<1> SUFFICES ASSUME TypeOK, Link PROVE TypeOK'
  OBVIOUS
<1> DEFINE seq == mem.seq + 1
           call == calls + 1
           h == HashOf(mem.prev, seq, call)
           rec == [seq |-> seq, call |-> call, prev |-> mem.prev, h |-> h]
<1>1. /\ mem' = [prev |-> h, seq |-> seq] /\ step' = At("append", rec) /\ calls' = call
      /\ UNCHANGED <<log, open, state, today, faults, skipped, hidden, causes>>
  BY DEF Link, disk, history
<1>2. seq \in Nat /\ call \in Nat /\ Len(mem.prev) + 1 <= seq
  BY InMemory
<1> HIDE DEF seq, call
<1>3. h \in Digest /\ Len(h) = Len(mem.prev) + 1
  BY <1>2, InMemory, HashFacts
<1> HIDE DEF h
<1>4. rec \in Record /\ mem' \in Heads /\ Len(mem'.prev) <= mem'.seq
  BY <1>1, <1>2, <1>3, InMemory DEF Record, Heads
<1>5. /\ step'.pc = "append" /\ step'.rec = rec
      /\ mem' = [prev |-> rec.h, seq |-> rec.seq]
  BY <1>1 DEF At
<1>7. rec.call = calls' /\ calls' # 0
  BY <1>1, InMemory DEF call
<1>6. skipped \subseteq 1..calls' /\ hidden \subseteq 1..calls' /\ calls' \in Nat
  BY <1>1, InMemory DEF TypeOK, call
<1> HIDE DEF rec
<1> QED BY <1>1, <1>4, <1>5, <1>6, <1>7 DEF TypeOK

(* Every step keeps the types: only what it changes can lose its own.       *)
LEMMA TypeStep == TypeOK /\ [Next]_vars => TypeOK'
<1> SUFFICES ASSUME TypeOK, [Next]_vars PROVE TypeOK'
  OBVIOUS
<1>1. CASE LinkFails
  <2>1. /\ mem' = [mem EXCEPT !.seq = mem.seq + 1] /\ calls' = calls + 1
        /\ hidden' = hidden \union {calls'} /\ faults' = faults + 1
        /\ causes' \subseteq causes \union {"unanchored"}
        /\ UNCHANGED <<step, log, open, state, today, skipped>> /\ step.pc = "idle"
    BY <1>1 DEF LinkFails, Fault, disk
  <2>2. mem' = [prev |-> mem.prev, seq |-> mem.seq + 1]
    BY <2>1, InMemory
  <2>3. mem' \in Heads /\ Len(mem'.prev) <= mem'.seq
    BY <2>2, InMemory DEF Heads
  <2>4. step = Idle
    BY <2>1 DEF TypeOK
  <2> QED BY <2>1, <2>3, <2>4 DEF TypeOK
<1>2. CASE AppendLine
  <2>1. step.pc = "append"
    BY <1>2 DEF AppendLine
  <2>2. [day |-> today, rec |-> step.rec] \in Line /\ [day |-> today, rec |-> Junk] \in Line
    BY <2>1, InProgress DEF TypeOK, Line
  <2>3. log' \in Seq(Line)
    <3>1. \/ log' = log
          \/ log' = Append(log, [day |-> today, rec |-> step.rec])
          \/ log' = Append(log, [day |-> today, rec |-> Junk])
      BY <1>2 DEF AppendLine, WithLine
    <3>2. log \in Seq(Line)
      BY DEF TypeOK
    <3>3. \A l \in Line : Append(log, l) \in Seq(Line)
      BY AppendFacts
    <3> QED BY <2>2, <3>1, <3>2, <3>3
  <2>4. step' = [pc |-> "save", rec |-> step.rec]
    BY <1>2, <2>1, InProgress DEF AppendLine
  <2>5. step'.pc = "save" /\ step'.rec = step.rec /\ step' = At("save", step.rec)
    BY <2>4 DEF At
  <2>6. /\ open' = FALSE /\ skipped' = {} /\ causes' \subseteq causes \union {"gap", "split"}
        /\ faults' \in {faults, faults + 1}
        /\ UNCHANGED <<mem, state, today, calls, hidden>>
    BY <1>2 DEF AppendLine, Fault
  <2>7. /\ step'.rec \in Record /\ mem = [prev |-> step'.rec.h, seq |-> step'.rec.seq]
        /\ step'.rec.call = calls /\ calls # 0
    BY <2>1, <2>5, InProgress
  <2>8. /\ faults' \in Nat /\ skipped' \subseteq 1..calls
        /\ causes' \subseteq {"unanchored", "gap", "junk", "split", "fork", "damage"}
    BY <2>6 DEF TypeOK
  <2> QED BY <2>3, <2>5, <2>6, <2>7, <2>8 DEF TypeOK
<1>3. CASE AppendFails
  <2>1. /\ step.pc = "append" /\ step' = Idle /\ UNCHANGED <<mem, state, today, calls, hidden>>
        /\ skipped' = skipped \union {step.rec.call} /\ faults' = faults + 1
    BY <1>3 DEF AppendFails, Skipped, Fault
  <2>2. skipped' \subseteq 1..calls
    BY <2>1, InProgress DEF TypeOK
  <2>3. CASE UNCHANGED <<log, open, causes>>
    BY <2>1, <2>2, <2>3 DEF TypeOK
  <2>4. CASE /\ log' = WithLine(Junk)
             /\ open' = TRUE
             /\ causes' = causes \union {"junk"}
    <3>1. [day |-> today, rec |-> Junk] \in Line
      BY DEF Line, TypeOK
    <3>2. log' \in Seq(Line) /\ log' # << >> /\ log'[Len(log')].rec = Junk
      <4>1. CASE Merged
        BY <2>4, <4>1 DEF WithLine, Merged, TypeOK
      <4>2. CASE ~Merged
        <5>1. log' = Append(log, [day |-> today, rec |-> Junk])
          BY <2>4, <4>2 DEF WithLine
        <5>2. /\ log' \in Seq(Line) /\ Len(log') = Len(log) + 1 /\ Len(log) \in Nat
              /\ log'[Len(log')] = [day |-> today, rec |-> Junk]
          BY <3>1, <5>1, AppendFacts
        <5> QED BY <5>2, EmptySeq
      <4> QED BY <4>1, <4>2
    <3> QED BY <2>1, <2>2, <2>4, <3>2 DEF TypeOK
  <2> QED BY <1>3, <2>3, <2>4 DEF AppendFails
<1>4. CASE Truncate
  <2>1. step.pc = "save" /\ state' = Torn /\ step' = [step EXCEPT !.pc = "write"]
        /\ UNCHANGED <<mem, log, open, today, calls, faults, skipped, hidden, causes>>
    BY <1>4 DEF Truncate, history
  <2>2. step' = [pc |-> "write", rec |-> step.rec]
    BY <2>1, InProgress
  <2>3. step'.pc = "write" /\ step'.rec = step.rec /\ step' = At("write", step.rec)
    BY <2>2 DEF At
  <2>4. state' \notin Heads
    BY <2>1, ValuesAssumption
  <2> QED BY <2>1, <2>3, <2>4, InProgress DEF TypeOK
<1>5. CASE WriteState
  BY <1>5 DEF WriteState, TypeOK, history
<1>6. CASE SaveFails
  BY <1>6 DEF SaveFails, Fault, TypeOK, disk, history
<1>7. CASE Restart
  <2>1. /\ mem' = Resumed /\ step' = Idle /\ skipped' = {} /\ faults' = faults + 1
        /\ hidden' = hidden \union skipped
                       \union (IF step.pc = "append" THEN {step.rec.call} ELSE {})
        /\ causes' \subseteq causes \union {"fork"}
        /\ UNCHANGED <<log, open, state, today, calls>>
    BY <1>7 DEF Restart, Fault, disk
  <2>2. hidden' \subseteq 1..calls
    BY <2>1, InProgress DEF TypeOK
  <2>3. Fresh \in Heads /\ Len(Fresh.prev) <= Fresh.seq
    <3>1. << >> \in Digest /\ Len(<< >>) = 0
      BY EmptySeq DEF Digest
    <3>2. Fresh = [prev |-> << >>, seq |-> 0]
      BY DEF Fresh, Genesis
    <3>3. Fresh.prev = << >> /\ Fresh.seq = 0
      BY <3>2
    <3> QED BY <3>1, <3>2, <3>3 DEF Heads
  <2>4. mem' \in Heads /\ Len(mem'.prev) <= mem'.seq
    BY <2>1, <2>3 DEF Resumed, TypeOK
  <2> QED BY <2>1, <2>2, <2>4 DEF TypeOK
<1>8. CASE NextDay
  BY <1>8 DEF NextDay, TypeOK, disk, history
<1>9. CASE Damage
  <2>1. /\ causes' = causes \union {"damage"} /\ faults' = faults + 1
        /\ UNCHANGED <<mem, step, state, today, calls, skipped, hidden>>
    BY <1>9 DEF Damage, Fault
  <2>2. log' \in Seq(Line) /\ open' \in BOOLEAN
        /\ (open' => log' # << >> /\ log'[Len(log')].rec = Junk)
    BY <1>9, DamageFacts DEF TypeOK, Last
  <2> QED BY <2>1, <2>2 DEF TypeOK
<1>10. CASE UNCHANGED vars
  BY <1>10 DEF vars, TypeOK, disk, history
<1> QED BY TypeLink, <1>1, <1>2, <1>3, <1>4, <1>5, <1>6, <1>7, <1>8, <1>9, <1>10 DEF Next

-----------------------------------------------------------------------------
(* Steps *)

(* A new line is recorded and leaves the verdict on the others as it was.   *)
LEMMA NewLine ==
  ASSUME TypeOK, NEW l \in Line, log' = Append(log, l)
  PROVE  /\ Len(log) \in Nat /\ DOMAIN log = 1 .. Len(log) /\ DOMAIN log' = 1 .. Len(log) + 1
         /\ Len(log') = Len(log) + 1 /\ log'[Len(log) + 1] = l /\ log' # << >>
         /\ \A k \in DOMAIN log : log'[k] = log[k] /\ (Follows(k)' <=> Follows(k))
         /\ Recorded' = Recorded \union (IF l.rec = Junk THEN {} ELSE {l.rec.call})
<1>1. /\ Len(log) \in Nat /\ DOMAIN log = 1 .. Len(log) /\ DOMAIN log' = 1 .. Len(log) + 1
      /\ Len(log') = Len(log) + 1 /\ log'[Len(log) + 1] = l /\ log' # << >>
      /\ \A k \in DOMAIN log : log'[k] = log[k]
  BY AppendFacts, EmptySeq
<1>2. ASSUME NEW k \in DOMAIN log
      PROVE  Follows(k)' <=> Follows(k)
  <2>1. k = 1 \/ k - 1 \in DOMAIN log
    BY <1>1
  <2> QED BY <1>1, <2>1 DEF Follows, Before
<1>3. Recorded' = Recorded \union (IF l.rec = Junk THEN {} ELSE {l.rec.call})
  <2> DEFINE n == Len(log) + 1
  <2>1. DOMAIN log' = DOMAIN log \union {n} /\ log'[n] = l
    BY <1>1
  <2> HIDE DEF n
  <2>2. Recorded' = {log'[k].rec.call : k \in {i \in DOMAIN log' : log'[i].rec # Junk}}
    BY DEF Recorded
  <2> QED BY <1>1, <2>1, <2>2 DEF Recorded
<1> QED BY <1>1, <1>2, <1>3

(* What AppendLine writes: the rest of a broken line, or a line of its own, *)
(* which is junk if the record is split.                                    *)
LEMMA LineWritten ==
  ASSUME TypeOK, AppendLine
  PROVE  /\ step.pc = "append" /\ step'.pc = "save" /\ step'.rec = step.rec
         /\ step.rec \in Record /\ step.rec.call = calls /\ step.rec # Junk
         /\ UNCHANGED <<mem, state, calls, hidden>> /\ skipped' = {}
         /\ \/ log' = log /\ log # << >> /\ Last(log).rec = Junk /\ Len(log) \in DOMAIN log
            \/ \E l \in Line : log' = Append(log, l) /\ l.rec = step.rec
            \/ "split" \in causes' /\ \E l \in Line : log' = Append(log, l) /\ l.rec = Junk
<1>1. /\ step.pc = "append" /\ step' = [step EXCEPT !.pc = "save"]
      /\ UNCHANGED <<mem, state, calls, hidden>> /\ skipped' = {}
      /\ \/ log' = WithLine(step.rec)
         \/ log' = WithLine(Junk) /\ "split" \in causes'
  BY DEF AppendLine
<1>2. step.rec \in Record /\ step.rec.call = calls /\ step = [pc |-> step.pc, rec |-> step.rec]
  BY <1>1, InProgress
<1>3. ASSUME NEW r \in Record \union {Junk}, ~Merged
      PROVE  \E l \in Line : WithLine(r) = Append(log, l) /\ l.rec = r
  <2>1. [day |-> today, rec |-> r] \in Line
    BY DEF Line, TypeOK
  <2> QED BY <1>3, <2>1 DEF WithLine
<1>4. CASE Merged
  <2>1. log \in Seq(Line)
    BY DEF TypeOK
  <2>2. log # << >> /\ Last(log).rec = Junk /\ Len(log) \in DOMAIN log
    BY <1>4, <2>1, EmptySeq, LenProperties DEF Merged, TypeOK, Last
  <2>3. log' = log
    BY <1>1, <1>4 DEF WithLine
  <2> QED BY <1>1, <1>2, <2>2, <2>3, ValuesAssumption
<1>5. CASE ~Merged
  <2>1. /\ \E l \in Line : WithLine(step.rec) = Append(log, l) /\ l.rec = step.rec
        /\ \E l \in Line : WithLine(Junk) = Append(log, l) /\ l.rec = Junk
    BY <1>2, <1>3, <1>5
  <2> QED BY <1>1, <1>2, <2>1, ValuesAssumption
<1> QED BY <1>4, <1>5

(* The head in memory stays what the next line has to follow.               *)
LEMMA LinksStep == TypeOK /\ LinksOK /\ [Next]_vars => LinksOK'
<1> SUFFICES ASSUME TypeOK, LinksOK, [Next]_vars PROVE LinksOK'
  OBVIOUS
<1> USE DEF LinksOK
<1>1. CASE Link
  <2> DEFINE rec == [seq |-> mem.seq + 1, call |-> calls + 1, prev |-> mem.prev,
                     h |-> HashOf(mem.prev, mem.seq + 1, calls + 1)]
  <2>1. /\ step.pc = "idle" /\ step' = [pc |-> "append", rec |-> rec]
        /\ calls' = calls + 1 /\ UNCHANGED <<log, skipped, causes>>
    BY <1>1 DEF Link, At, disk, history
  <2>2. step'.pc = "append" /\ step'.rec = rec /\ Derived(rec) /\ rec.prev = mem.prev
    BY <2>1 DEF Derived
  <2>3. Recorded' = Recorded /\ calls \in Nat
    BY <2>1, InMemory DEF Recorded
  <2> HIDE DEF rec
  <2> QED BY <2>1, <2>2, <2>3 DEF Tip, Derived
<1>2. CASE LinkFails
  <2>1. /\ step.pc = "idle" /\ mem' = [mem EXCEPT !.seq = mem.seq + 1] /\ calls' = calls + 1
        /\ UNCHANGED <<step, log, skipped>> /\ causes \subseteq causes'
    BY <1>2 DEF LinkFails, disk
  <2>2. mem'.prev = mem.prev /\ Recorded' = Recorded /\ calls \in Nat
    BY <2>1, InMemory DEF Recorded
  <2> QED BY <2>1, <2>2 DEF Tip, Derived
<1>3. CASE AppendLine
  <2>1. causes \subseteq causes'
    BY <1>3 DEF AppendLine
  <2>2. Derived(step.rec)
    BY <1>3 DEF AppendLine
  <2>3. CASE log' = log
    <3>1. Recorded' = Recorded
      BY <2>3 DEF Recorded
    <3> QED BY <1>3, <2>1, <2>2, <2>3, <3>1, LineWritten DEF Derived
  <2>4. ASSUME NEW l \in Line, log' = Append(log, l), l.rec = step.rec
        PROVE  LinksOK'
    <3>1. Recorded' = Recorded \union {calls} /\ calls \in Nat
      BY <1>3, <2>4, NewLine, LineWritten, InMemory
    <3>2. "damage" \notin causes' => \A k \in DOMAIN log' : log'[k].rec # Junk => Derived(log'[k].rec)
      BY <2>1, <2>2, <2>4, NewLine
    <3> QED BY <1>3, <2>2, <3>1, <3>2, LineWritten DEF Derived
  <2>5. ASSUME NEW l \in Line, log' = Append(log, l), l.rec = Junk
        PROVE  LinksOK'
    <3>1. Recorded' = Recorded
      BY <2>5, NewLine
    <3>2. "damage" \notin causes' => \A k \in DOMAIN log' : log'[k].rec # Junk => Derived(log'[k].rec)
      BY <2>1, <2>5, NewLine
    <3> QED BY <1>3, <2>2, <3>1, <3>2, LineWritten DEF Derived
  <2> QED BY <1>3, <2>3, <2>4, <2>5, LineWritten
<1>4. CASE AppendFails
  <2>1. /\ step.pc = "append" /\ step'.pc = "idle" /\ UNCHANGED <<mem, calls>>
        /\ skipped' = skipped \union {step.rec.call} /\ causes \subseteq causes'
    BY <1>4 DEF AppendFails, Skipped, Idle
  <2>2. /\ step.rec.call = calls /\ mem.prev = step.rec.h /\ Derived(step.rec)
        /\ step.rec.prev \in Digest /\ step.rec.seq \in Nat /\ calls \in Nat
    BY <2>1, InProgress
  <2>3. mem.prev # Genesis /\ Last(mem.prev).call = calls
    <3>1. mem.prev = HashOf(step.rec.prev, step.rec.seq, calls)
      BY <2>2 DEF Derived
    <3>2. /\ HashOf(step.rec.prev, step.rec.seq, calls) # Genesis
          /\ Last(HashOf(step.rec.prev, step.rec.seq, calls)) = [seq |-> step.rec.seq, call |-> calls]
      BY <2>2, HashFacts
    <3> QED BY <3>1, <3>2
  <2>4. /\ Recorded' = Recorded
        /\ "damage" \notin causes' => \A k \in DOMAIN log' : log'[k].rec # Junk => Derived(log'[k].rec)
    <3>1. CASE log' = log
      BY <2>1, <3>1 DEF Recorded
    <3>2. CASE log' = Append(log, [day |-> today, rec |-> Junk])
      <4> DEFINE l == [day |-> today, rec |-> Junk]
      <4>1. l \in Line /\ l.rec = Junk
        BY DEF Line, TypeOK
      <4> HIDE DEF l
      <4>2. log' = Append(log, l)
        BY <3>2 DEF l
      <4>3. Recorded' = Recorded
        BY <4>1, <4>2, NewLine
      <4>4. /\ DOMAIN log = 1 .. Len(log) /\ DOMAIN log' = 1 .. Len(log) + 1 /\ Len(log) \in Nat
            /\ log'[Len(log) + 1] = l /\ \A k \in DOMAIN log : log'[k] = log[k]
        BY <4>1, <4>2, NewLine
      <4>5. \A k \in DOMAIN log' : k \in DOMAIN log \/ log'[k].rec = Junk
        BY <4>1, <4>4
      <4>6. "damage" \notin causes' => \A k \in DOMAIN log' : log'[k].rec # Junk => Derived(log'[k].rec)
        BY <2>1, <4>4, <4>5
      <4> QED BY <4>3, <4>6
    <3> QED BY <1>4, <3>1, <3>2 DEF AppendFails, WithLine
  <2> QED BY <2>1, <2>2, <2>3, <2>4 DEF Tip
<1>5. CASE Truncate \/ WriteState \/ SaveFails
  <2>1. /\ step.pc \in {"save", "write"} /\ UNCHANGED <<mem, log, calls, skipped, causes>>
        /\ \/ step' = [step EXCEPT !.pc = "write"]
           \/ step' = Idle
    BY <1>5 DEF Truncate, WriteState, SaveFails, disk, history
  <2>2. \/ step'.pc = "write" /\ step'.rec = step.rec
        \/ step'.pc = "idle"
    BY <2>1, InProgress DEF Idle
  <2>3. Recorded' = Recorded
    BY <2>1 DEF Recorded
  <2> QED BY <2>1, <2>2, <2>3 DEF Derived
<1>6. CASE Restart
  <2>1. /\ step'.pc = "idle" /\ skipped' = {} /\ UNCHANGED <<log, calls>> /\ causes \subseteq causes'
    BY <1>6 DEF Restart, Idle, disk
  <2>2. Recorded' = Recorded
    BY <2>1 DEF Recorded
  <2> QED BY <2>1, <2>2 DEF Derived
<1>7. CASE Damage
  <2>1. UNCHANGED <<mem, step, calls, skipped>> /\ "damage" \in causes'
    BY <1>7 DEF Damage
  <2>2. Recorded' \subseteq Recorded \union {0}
    BY <1>7, DamageFacts DEF Recorded
  <2>3. calls \in Nat /\ skipped \subseteq 1..calls
    BY DEF TypeOK
  <2>4. step.pc = "append" => calls # 0
    BY InProgress
  <2> QED BY <2>1, <2>2, <2>3, <2>4 DEF Tip, Derived
<1>8. CASE NextDay \/ UNCHANGED vars
  <2>1. UNCHANGED <<mem, step, log, calls, skipped, causes>>
    BY <1>8 DEF NextDay, vars, disk, history
  <2>2. Recorded' = Recorded
    BY <2>1 DEF Recorded
  <2> QED BY <2>1, <2>2 DEF Tip, Derived
<1> QED BY <1>1, <1>2, <1>3, <1>4, <1>5, <1>6, <1>7, <1>8 DEF Next

(* The saved head stays one of a record that is not skipped.                *)
LEMMA StateStep == TypeOK /\ LinksOK /\ StateOK /\ [Next]_vars => StateOK'
<1> SUFFICES ASSUME TypeOK, LinksOK, StateOK, [Next]_vars PROVE StateOK'
  OBVIOUS
<1>1. calls \in Nat
  BY InMemory
<1>2. CASE /\ state' = state /\ calls' \in Nat /\ calls <= calls'
           /\ \A c \in 1..calls : c \in skipped' \union Pending' => c \in skipped \union Pending
  BY <1>1, <1>2 DEF StateOK
<1>3. CASE Link
  <2>1. /\ UNCHANGED <<state, skipped>> /\ calls' = calls + 1
        /\ step'.pc = "append" /\ step'.rec.call = calls + 1
    BY <1>3 DEF Link, At, disk, history
  <2> QED BY <1>1, <1>2, <2>1 DEF Pending
<1>4. CASE LinkFails
  <2>1. UNCHANGED <<state, step, skipped>> /\ calls' = calls + 1
    BY <1>4 DEF LinkFails, disk
  <2> QED BY <1>1, <1>2, <2>1 DEF Pending
<1>5. CASE AppendLine
  <2>1. step'.pc = "save" /\ UNCHANGED <<state, calls>> /\ skipped' = {}
    BY <1>5, LineWritten
  <2> QED BY <1>1, <1>2, <2>1 DEF Pending
<1>6. CASE AppendFails
  <2>1. /\ step.pc = "append" /\ step'.pc = "idle" /\ UNCHANGED <<state, calls>>
        /\ skipped' = skipped \union {step.rec.call}
    BY <1>6 DEF AppendFails, Idle
  <2> QED BY <1>1, <1>2, <2>1 DEF Pending
<1>7. CASE Truncate
  BY <1>7 DEF Truncate, StateOK
<1>8. CASE WriteState
  <2>1. /\ step.pc = "write" /\ step'.pc = "idle" /\ state' = mem
        /\ UNCHANGED <<calls, skipped>>
    BY <1>8 DEF WriteState, Idle, history
  <2>2. /\ step.rec.prev \in Digest /\ step.rec.seq \in Nat /\ calls \in 1..calls
        /\ mem.prev = step.rec.h /\ mem.seq = step.rec.seq /\ step.rec.call = calls
    BY <2>1, InProgress
  <2>3. Derived(step.rec) /\ skipped = {}
    BY <2>1 DEF LinksOK
  <2>4. mem.prev = HashOf(step.rec.prev, step.rec.seq, calls)
    BY <2>2, <2>3 DEF Derived
  <2>5. /\ HashOf(step.rec.prev, step.rec.seq, calls) # Genesis
        /\ Last(HashOf(step.rec.prev, step.rec.seq, calls)) = [seq |-> step.rec.seq, call |-> calls]
    BY <1>1, <2>2, HashFacts
  <2>6. state'.prev # Genesis /\ Last(state'.prev) = [seq |-> mem.seq, call |-> calls]
    BY <2>1, <2>2, <2>4, <2>5
  <2>7. Last(state'.prev).seq = state'.seq /\ Last(state'.prev).call = calls
    BY <2>1, <2>6
  <2>8. skipped' \union Pending' = {}
    BY <2>1, <2>3 DEF Pending
  <2> QED BY <2>1, <2>2, <2>6, <2>7, <2>8 DEF StateOK
<1>9. CASE SaveFails
  <2>1. step'.pc = "idle" /\ UNCHANGED <<state, calls, skipped>>
    BY <1>9 DEF SaveFails, Idle, disk, history
  <2> QED BY <1>1, <1>2, <2>1 DEF Pending
<1>10. CASE Restart
  <2>1. step'.pc = "idle" /\ UNCHANGED <<state, calls>> /\ skipped' = {}
    BY <1>10 DEF Restart, Idle, disk
  <2> QED BY <1>1, <1>2, <2>1 DEF Pending
<1>11. CASE NextDay \/ Damage \/ UNCHANGED vars
  <2>1. UNCHANGED <<state, step, calls, skipped>>
    BY <1>11 DEF NextDay, Damage, vars, disk, history
  <2> QED BY <1>1, <1>2, <2>1 DEF Pending
<1> QED BY <1>3, <1>4, <1>5, <1>6, <1>7, <1>8, <1>9, <1>10, <1>11 DEF Next

(* A gap stays visible: no later record closes it.                          *)
LEMMA GapsStep == TypeOK /\ LinksOK /\ GapsOK /\ [Next]_vars => GapsOK'
<1> SUFFICES ASSUME TypeOK, LinksOK, GapsOK, [Next]_vars, "damage" \notin causes' PROVE GapsOK'
  BY DEF GapsOK
<1> DEFINE Covered == Recorded \union skipped \union hidden \union Pending
           Broken == \E k \in DOMAIN log : log[k].rec = Junk \/ ~Follows(k)
<1>1. causes \subseteq causes' /\ "damage" \notin causes
  <2>1. causes \subseteq causes'
    BY DEF Next, Link, LinkFails, AppendLine, AppendFails, Truncate, WriteState,
           SaveFails, Restart, NextDay, Damage, vars, disk, history
  <2> QED BY <2>1
<1>2. (1..calls \subseteq Covered) \/ Broken
  BY <1>1 DEF GapsOK
<1>3. log' = log => (Broken' <=> Broken) /\ Recorded' = Recorded
  BY DEF Follows, Before, Recorded
<1>4. ASSUME NEW l \in Line, log' = Append(log, l), Broken
      PROVE  Broken'
  <2>1. PICK k \in DOMAIN log : log[k].rec = Junk \/ ~Follows(k)
    BY <1>4
  <2>2. k \in DOMAIN log' /\ log'[k] = log[k] /\ (Follows(k)' <=> Follows(k))
    BY <1>4, NewLine
  <2> QED BY <2>1, <2>2
<1>5. calls \in Nat
  BY InMemory
<1>6. CASE /\ log' = log /\ calls' = calls
           /\ skipped \union hidden \union Pending \subseteq skipped' \union hidden' \union Pending'
  BY <1>2, <1>3, <1>6 DEF GapsOK
<1>7. CASE Link
  <2>1. /\ UNCHANGED <<log, skipped, hidden>> /\ calls' = calls + 1
        /\ step.pc = "idle" /\ step'.pc = "append" /\ step'.rec.call = calls + 1
    BY <1>7 DEF Link, At, disk, history
  <2> QED BY <1>2, <1>3, <1>5, <2>1 DEF GapsOK, Pending
<1>8. CASE LinkFails
  <2>1. /\ UNCHANGED <<log, step, skipped>> /\ calls' = calls + 1
        /\ hidden' = hidden \union {calls'}
    BY <1>8 DEF LinkFails, disk
  <2> QED BY <1>2, <1>3, <1>5, <2>1 DEF GapsOK, Pending
<1>9. CASE AppendLine
  <2>1. /\ step.pc = "append" /\ step'.pc = "save" /\ step.rec.call = calls
        /\ UNCHANGED <<calls, hidden>> /\ skipped' = {} /\ step.rec # Junk
    BY <1>9, LineWritten
  <2>2. CASE log' = log /\ log # << >> /\ Last(log).rec = Junk /\ Len(log) \in DOMAIN log
    <3>1. Broken
      BY <2>2 DEF Last
    <3> QED BY <1>3, <2>2, <3>1 DEF GapsOK
  <2>3. ASSUME NEW l \in Line, log' = Append(log, l), l.rec = step.rec
        PROVE  GapsOK'
    <3>1. CASE Broken
      BY <1>4, <2>3, <3>1 DEF GapsOK
    <3>2. CASE ~Broken /\ skipped = {}
      <4>1. Recorded' = Recorded \union {calls}
        BY <2>1, <2>3, NewLine
      <4> QED BY <1>2, <2>1, <3>2, <4>1 DEF GapsOK, Pending
    <3>3. CASE ~Broken /\ skipped # {}
      <4>0. PICK n \in DOMAIN log' : n = Len(log) + 1
        BY <2>3, NewLine
      <4>1. /\ n \in DOMAIN log' /\ log'[n] = l /\ Len(log) \in Nat /\ n = Len(log) + 1
            /\ DOMAIN log = 1 .. Len(log) /\ \A k \in DOMAIN log : log'[k] = log[k]
        BY <2>3, <4>0, NewLine
      <4>2. /\ step.rec.prev # Genesis /\ Last(step.rec.prev).call \in skipped
            /\ skipped \intersect Recorded = {}
        BY <2>1, <3>3 DEF LinksOK, Tip
      <4>3. SUFFICES ASSUME Follows(n)' PROVE FALSE
        BY <4>1 DEF GapsOK
      <4>4. step.rec.prev = (IF n = 1 \/ step.rec.seq = 1 THEN Genesis ELSE log'[n - 1].rec.h)
        BY <2>3, <4>1, <4>3 DEF Follows, Before
      <4>5. n # 1 /\ step.rec.prev = log[n - 1].rec.h /\ n - 1 \in DOMAIN log
        BY <4>1, <4>2, <4>4
      <4> DEFINE r == log[n - 1].rec
      <4>6. r # Junk /\ r \in Record
        <5>1. log[n - 1] \in Line
          BY <4>5, ElementOfSeq, <4>1 DEF TypeOK
        <5> QED BY <3>3, <4>5, <5>1 DEF Line
      <4>7. Derived(r)
        BY <1>1, <4>5, <4>6 DEF LinksOK
      <4>8. r.call \in Recorded
        BY <4>5, <4>6 DEF Recorded
      <4>9. step.rec.prev = r.h
        BY <4>5
      <4> HIDE DEF r
      <4>10. r.prev \in Digest /\ r.seq \in Nat /\ r.call \in Nat
        BY <4>6 DEF Record
      <4>11. Last(HashOf(r.prev, r.seq, r.call)) = [seq |-> r.seq, call |-> r.call]
        BY <4>10, HashFacts
      <4>12. Last(step.rec.prev).call = r.call
        BY <4>7, <4>9, <4>11 DEF Derived
      <4> QED BY <4>2, <4>8, <4>12
    <3> QED BY <3>1, <3>2, <3>3
  <2>4. ASSUME NEW l \in Line, log' = Append(log, l), l.rec = Junk
        PROVE  GapsOK'
    <3>1. Len(log) + 1 \in DOMAIN log' /\ log'[Len(log) + 1] = l
      BY <2>4, NewLine
    <3> QED BY <2>4, <3>1 DEF GapsOK
  <2> QED BY <1>9, <2>2, <2>3, <2>4, LineWritten
<1>10. CASE AppendFails
  <2>1. /\ step.pc = "append" /\ step'.pc = "idle" /\ UNCHANGED <<calls, hidden>>
        /\ skipped' = skipped \union {step.rec.call}
        /\ \/ log' = log
           \/ log' = Append(log, [day |-> today, rec |-> Junk])
    BY <1>10 DEF AppendFails, WithLine, Idle
  <2>2. CASE log' = log
    BY <1>6, <2>1, <2>2 DEF Pending
  <2>3. CASE log' = Append(log, [day |-> today, rec |-> Junk])
    <3> DEFINE l == [day |-> today, rec |-> Junk]
    <3>1. l \in Line /\ l.rec = Junk
      BY DEF Line, TypeOK
    <3> HIDE DEF l
    <3>2. log' = Append(log, l)
      BY <2>3 DEF l
    <3>3. Len(log) + 1 \in DOMAIN log' /\ log'[Len(log) + 1] = l
      BY <3>1, <3>2, NewLine
    <3> QED BY <3>1, <3>3 DEF GapsOK
  <2> QED BY <2>1, <2>2, <2>3
<1>11. CASE Truncate \/ WriteState \/ SaveFails
  <2>1. step.pc # "append" /\ UNCHANGED <<log, calls, skipped, hidden>>
    BY <1>11 DEF Truncate, WriteState, SaveFails, disk, history
  <2> QED BY <1>6, <2>1 DEF Pending
<1>12. CASE Restart
  <2>1. /\ UNCHANGED <<log, calls>>
        /\ hidden' = hidden \union skipped \union Pending
    BY <1>12 DEF Restart, Pending, disk
  <2> QED BY <1>6, <2>1
<1>13. CASE Damage
  BY <1>13 DEF Damage
<1>14. CASE NextDay \/ UNCHANGED vars
  <2>1. UNCHANGED <<log, step, calls, skipped, hidden>>
    BY <1>14 DEF NextDay, vars, disk, history
  <2> QED BY <1>6, <2>1 DEF Pending
<1> QED BY <1>7, <1>8, <1>9, <1>10, <1>11, <1>12, <1>13, <1>14 DEF Next

(* Without a mishap the next record goes on where the log ends.             *)
LEMMA IntactStep == TypeOK /\ LinksOK /\ IntactOK /\ [Next]_vars => IntactOK'
<1> SUFFICES ASSUME TypeOK, LinksOK, IntactOK, [Next]_vars, causes' = {} PROVE IntactOK'
  BY DEF IntactOK
<1> DEFINE Whole == \A k \in DOMAIN log : log[k].rec # Junk /\ Follows(k)
           Onward == IF step.pc = "append"
                     THEN \/ step.rec.prev = Genesis /\ step.rec.seq = 1
                          \/ InLine(step.rec.prev)
                     ELSE mem = Fresh \/ InLine(mem.prev)
<1>1. causes = {}
  <2>1. causes \subseteq causes'
    BY DEF Next, Link, LinkFails, AppendLine, AppendFails, Truncate, WriteState,
           SaveFails, Restart, NextDay, Damage, vars, disk, history
  <2> QED BY <2>1
<1>2. Whole /\ (skipped = {} => Onward)
  BY <1>1 DEF IntactOK
<1>3. SUFFICES Whole' /\ (skipped' = {} => Onward')
  BY DEF IntactOK
<1>4. log' = log => Whole'
  BY <1>2 DEF Follows, Before
<1>5. CASE Link
  <2>1. /\ UNCHANGED <<log, skipped>> /\ step.pc = "idle" /\ step'.pc = "append"
        /\ step'.rec.prev = mem.prev /\ step'.rec.seq = mem.seq + 1
    BY <1>5 DEF Link, At, disk, history
  <2>2. mem = Fresh => mem.prev = Genesis /\ mem.seq + 1 = 1
    BY DEF Fresh
  <2> QED BY <1>2, <1>4, <2>1, <2>2 DEF InLine
<1>6. CASE LinkFails
  <2>1. /\ UNCHANGED <<log, step, skipped>> /\ step.pc = "idle"
        /\ mem' = [mem EXCEPT !.seq = mem.seq + 1] /\ mem.prev # Genesis
    BY <1>6 DEF LinkFails, disk
  <2>2. mem'.prev = mem.prev /\ mem # Fresh
    BY <2>1, InMemory DEF Fresh
  <2> QED BY <1>2, <1>4, <2>1, <2>2 DEF InLine
<1>7. CASE AppendLine
  <2>1. /\ step.pc = "append" /\ step'.pc = "save" /\ UNCHANGED mem
        /\ step.rec \in Record /\ step.rec # Junk
    BY <1>7, LineWritten
  <2>2. skipped = {}
    BY <1>7 DEF AppendLine
  <2>3. PICK l \in Line : log' = Append(log, l) /\ l.rec = step.rec
    BY <1>2, <1>7, LineWritten DEF Last
  <2>4. /\ Len(log) \in Nat /\ DOMAIN log = 1 .. Len(log) /\ DOMAIN log' = 1 .. Len(log) + 1
        /\ Len(log') = Len(log) + 1 /\ log'[Len(log) + 1] = l /\ log' # << >>
        /\ \A k \in DOMAIN log : log'[k] = log[k] /\ (Follows(k)' <=> Follows(k))
    BY <2>3, NewLine
  <2>5. PICK n \in DOMAIN log' : n = Len(log) + 1
    BY <2>4
  <2>6. /\ step.rec.prev \in Digest /\ step.rec.seq \in Nat /\ calls \in Nat
        /\ mem.prev = step.rec.h /\ mem.seq = step.rec.seq /\ step.rec.call = calls
    BY <2>1, InProgress
  <2>7. step.rec.h = HashOf(step.rec.prev, step.rec.seq, step.rec.call)
    BY <2>1 DEF LinksOK, Derived
  <2>8. step.rec.prev = (IF n = 1 \/ step.rec.seq = 1 THEN Genesis ELSE log'[n - 1].rec.h)
    <3>1. CASE step.rec.prev = Genesis /\ step.rec.seq = 1
      BY <3>1
    <3>2. CASE InLine(step.rec.prev)
      <4> DEFINE r == log[Len(log)].rec
      <4>1. log # << >> /\ r # Junk /\ r.h = step.rec.prev
        BY <3>2 DEF InLine
      <4>2. Len(log) \in DOMAIN log /\ Len(log) # 0
        BY <2>4, <4>1, EmptySeq DEF TypeOK
      <4>3. r \in Record
        <5>1. log[Len(log)] \in Line
          BY <2>4, <4>2, ElementOfSeq DEF TypeOK
        <5> QED BY <4>1, <5>1 DEF Line
      <4>4. Derived(r)
        BY <1>1, <4>1, <4>2 DEF LinksOK
      <4>5. log'[n - 1].rec = r /\ n # 1
        BY <2>4, <2>5, <4>2
      <4> HIDE DEF r
      <4>6. r.prev \in Digest /\ r.seq \in Nat /\ r.call \in Nat /\ Len(r.prev) \in Nat
        BY <4>3, LenProperties DEF Record, Digest
      <4>7. Len(step.rec.prev) = Len(r.prev) + 1
        <5>1. Len(HashOf(r.prev, r.seq, r.call)) = Len(r.prev) + 1
          BY <4>6, HashFacts
        <5> QED BY <4>1, <4>4, <5>1 DEF Derived
      <4>8. Len(mem.prev) = Len(step.rec.prev) + 1
        <5>1. Len(HashOf(step.rec.prev, step.rec.seq, calls)) = Len(step.rec.prev) + 1
          BY <2>6, HashFacts
        <5> QED BY <2>6, <2>7, <5>1
      <4>9. Len(mem.prev) <= step.rec.seq
        BY <2>6, InMemory
      <4>10. step.rec.seq # 1
        BY <2>6, <4>6, <4>7, <4>8, <4>9
      <4> QED BY <4>1, <4>5, <4>10
    <3> QED BY <1>2, <2>1, <2>2, <3>1, <3>2
  <2>9. Follows(n)'
    <3>1. log'[n].rec = step.rec
      BY <2>3, <2>4, <2>5
    <3>2. Before(n)' = step.rec.prev
      BY <2>8, <3>1 DEF Before
    <3> QED BY <2>7, <3>1, <3>2 DEF Follows
  <2>10. Whole'
    <3> SUFFICES ASSUME NEW k \in DOMAIN log' PROVE (log[k].rec # Junk /\ Follows(k))'
      OBVIOUS
    <3>1. CASE k = n
      BY <2>1, <2>3, <2>4, <2>5, <2>9, <3>1
    <3>2. CASE k # n
      BY <1>2, <2>4, <2>5, <3>2
    <3> QED BY <3>1, <3>2
  <2>11. InLine(mem.prev)'
    BY <2>1, <2>3, <2>4, <2>6 DEF InLine
  <2> QED BY <2>1, <2>10, <2>11
<1>8. CASE AppendFails
  <2>1. skipped' # {}
    BY <1>8 DEF AppendFails
  <2>2. log' = log
    BY <1>8 DEF AppendFails
  <2> QED BY <1>4, <2>1, <2>2
<1>9. CASE Truncate \/ WriteState \/ SaveFails
  <2>1. /\ step.pc \in {"save", "write"} /\ UNCHANGED <<mem, log, skipped>>
        /\ \/ step' = [step EXCEPT !.pc = "write"]
           \/ step' = Idle
    BY <1>9 DEF Truncate, WriteState, SaveFails, disk, history
  <2>2. step'.pc # "append"
    BY <2>1, InProgress DEF Idle
  <2> QED BY <1>2, <1>4, <2>1, <2>2 DEF InLine
<1>10. CASE Restart
  <2>1. /\ UNCHANGED log /\ step'.pc = "idle" /\ mem' = Resumed
        /\ state \in {Missing, Torn} \/ InLine(state.prev)
    BY <1>10 DEF Restart, Idle, disk
  <2>2. mem' = Fresh \/ InLine(mem'.prev)
    BY <2>1 DEF Resumed
  <2> QED BY <1>4, <2>1, <2>2 DEF InLine
<1>11. CASE Damage
  BY <1>11 DEF Damage
<1>12. CASE NextDay \/ UNCHANGED vars
  <2>1. UNCHANGED <<mem, step, log, skipped>>
    BY <1>12 DEF NextDay, vars, disk, history
  <2> QED BY <1>2, <1>4, <2>1 DEF InLine
<1> QED BY <1>5, <1>6, <1>7, <1>8, <1>9, <1>10, <1>11, <1>12 DEF Next

-----------------------------------------------------------------------------
(* Theorems *)

(* A new data directory satisfies the invariant.                            *)
LEMMA InvariantInit == Init => IInv
<1> SUFFICES ASSUME Init PROVE IInv
  OBVIOUS
<1>1. TypeOK
  BY TypeInit
<1>2. step.pc = "idle" /\ DOMAIN log = {} /\ calls \in Nat
  BY <1>1, EmptySeq DEF Init, Idle, TypeOK
<1>3. Recorded = {}
  BY <1>2 DEF Recorded
<1>4. LinksOK
  BY <1>2, <1>3 DEF Init, LinksOK
<1>5. StateOK
  BY DEF Init, StateOK
<1>6. GapsOK
  <2>1. 1..calls = {}
    BY DEF Init
  <2> QED BY <2>1 DEF GapsOK
<1>7. IntactOK
  BY <1>2 DEF Init, IntactOK
<1> QED BY <1>1, <1>4, <1>5, <1>6, <1>7 DEF IInv

(* Every reachable state satisfies the invariant.                           *)
LEMMA Invariant == Spec => []IInv
<1>1. IInv /\ [Next]_vars => IInv'
  BY TypeStep, LinksStep, StateStep, GapsStep, IntactStep DEF IInv
<1> QED BY InvariantInit, <1>1, PTL DEF Spec

(* The head in memory, the record in progress, the lines and chain.state    *)
(* are always well formed, and the numbers never lag behind the chain.      *)
THEOREM TypeCorrect == Spec => []TypeOK
<1>1. IInv => TypeOK
  BY DEF IInv
<1> QED BY Invariant, <1>1, PTL

(* Whatever fails and however often the process dies, a log that verifies   *)
(* and was not tampered with has a record of every call, except of those    *)
(* at the end of a process's life and of those that could not be encoded.   *)
THEOREM Gaps == Spec => []GapsShow
<1>1. IInv => GapsShow
  BY DEF IInv, GapsOK, GapsShow, Accepts
<1> QED BY Invariant, <1>1, PTL

(* The verifier accepts every log whose head is saved if none of the        *)
(* mishaps that may break a chain has happened, and no text of a record     *)
(* held a line separator.                                                   *)
THEOREM Intact == Spec => []IntactVerifies
<1>1. ASSUME IInv PROVE IntactVerifies
  <2> SUFFICES ASSUME step = Idle, state = mem, causes = {} PROVE Accepts
    BY DEF IntactVerifies
  <2>1. TypeOK /\ LinksOK /\ StateOK /\ IntactOK
    BY <1>1 DEF IInv
  <2>2. state \notin {Missing, Torn}
    BY <2>1, ValuesAssumption DEF TypeOK
  <2>3. /\ mem.prev # Genesis /\ Last(mem.prev).seq = mem.seq
        /\ Last(mem.prev).call \notin skipped
    BY <2>1, <2>2 DEF StateOK
  <2>4. step.pc = "idle" /\ Tip = mem.prev
    BY DEF Idle, Tip
  <2>5. skipped = {}
    BY <2>1, <2>3, <2>4 DEF LinksOK
  <2>6. \A k \in DOMAIN log : log[k].rec # Junk /\ Follows(k)
    BY <2>1 DEF IntactOK
  <2>7. InLine(mem.prev)
    <3>1. mem = Fresh \/ InLine(mem.prev)
      BY <2>1, <2>4, <2>5 DEF IntactOK
    <3> QED BY <2>3, <3>1 DEF Fresh
  <2>8. log[Len(log)].rec.seq = mem.seq
    <3> DEFINE r == log[Len(log)].rec
    <3>1. log \in Seq(Line) /\ Len(log) \in DOMAIN log
      BY <2>1, <2>7, EmptySeq, LenProperties DEF TypeOK, InLine
    <3>2. r \in Record /\ r.h = mem.prev
      <4>1. log[Len(log)] \in Line
        BY <3>1, ElementOfSeq
      <4> QED BY <2>7, <4>1 DEF Line, InLine
    <3>3. Derived(r)
      BY <2>1, <2>7, <3>1 DEF LinksOK, InLine
    <3> HIDE DEF r
    <3>4. r.prev \in Digest /\ r.seq \in Nat /\ r.call \in Nat
      BY <3>2 DEF Record
    <3>5. Last(HashOf(r.prev, r.seq, r.call)) = [seq |-> r.seq, call |-> r.call]
      BY <3>4, HashFacts
    <3>6. Last(mem.prev).seq = r.seq
      BY <3>2, <3>3, <3>5 DEF Derived
    <3> QED BY <2>3, <3>6 DEF r
  <2> QED BY <2>2, <2>6, <2>7, <2>8 DEF Accepts, HeadMatches
<1> QED BY Invariant, <1>1, PTL

(* What verifies against its head and still has a record is whole, from the *)
(* last place where a chain began: no record was cut off, taken out or      *)
(* changed, by whatever damage but the loss of every record.                *)
THEOREM Whole == Spec => []AcceptedIsWhole
<1>1. ASSUME TypeOK, Accepts, log # << >>, state \notin {Missing, Torn},
             NEW a \in DOMAIN log, \A k \in a + 1 .. Len(log) : log[k].rec.seq # 1,
             a = 1 \/ log[a].rec.seq = 1
      PROVE  state.prev = [k \in 1 .. Len(log) - a + 1 |->
                             [seq |-> log[a + k - 1].rec.seq,
                              call |-> log[a + k - 1].rec.call]]
  <2> DEFINE n == Len(log)
             e(k) == [seq |-> log[k].rec.seq, call |-> log[k].rec.call]
             chain(k) == [i \in 1 .. k - a + 1 |-> e(a + i - 1)]
             Bad == {k \in a .. n : log[k].rec.h # chain(k)}
  <2>1. n \in Nat /\ DOMAIN log = 1 .. n /\ a \in 1 .. n
    BY <1>1, LenProperties DEF TypeOK
  <2>2. ASSUME NEW k \in 1 .. n
        PROVE  /\ log[k].rec # Junk /\ log[k].rec \in Record
               /\ log[k].rec.seq \in Nat /\ log[k].rec.call \in Nat
               /\ log[k].rec.h = Append(Before(k), e(k))
    <3>1. log[k] \in Line
      BY <1>1, <2>1, ElementOfSeq DEF TypeOK
    <3>2. log[k].rec # Junk /\ Follows(k)
      BY <1>1, <2>1 DEF Accepts
    <3>3. log[k].rec \in Record
      BY <3>1, <3>2 DEF Line
    <3>4. log[k].rec.h = Append(Before(k), e(k))
      BY <3>2 DEF Follows, HashOf
    <3> QED BY <3>2, <3>3, <3>4 DEF Record
  <2>3. \A k \in 1 .. n : e(k) \in Entry
    BY <2>2 DEF Entry
  <2> HIDE DEF n, e
  <2>4. Bad = {}
    <3> SUFFICES ASSUME Bad # {} PROVE FALSE
      OBVIOUS
    <3>1. PICK k \in Bad : \A j \in Bad : <<j, k>> \notin OpToRel(<, Nat)
      <4>1. Bad \subseteq Nat
        BY <2>1
      <4> HIDE DEF Bad
      <4> QED BY <4>1, NatLessThanWellFounded, WFMin
    <3>2. k \in 1 .. n /\ k >= a /\ log[k].rec.h = Append(Before(k), e(k))
      BY <2>1, <2>2
    <3>3. CASE k = a
      <4>1. Before(k) = << >>
        BY <1>1, <3>3 DEF Before, Genesis
      <4>2. Append(<< >>, e(k)) = << e(k) >>
        OBVIOUS
      <4>3. chain(k) = << e(k) >>
        BY <2>1, <3>3
      <4> QED BY <3>2, <4>1, <4>2, <4>3
    <3>4. CASE k # a
      <4>1. k - 1 \in a .. n /\ k # 1 /\ k - 1 \in Nat /\ k \in a + 1 .. n
        BY <2>1, <3>2, <3>4
      <4>2. Before(k) = log[k - 1].rec.h
        BY <1>1, <4>1 DEF Before, n
      <4>3. log[k - 1].rec.h = chain(k - 1)
        <5>1. k - 1 \in Bad => <<k - 1, k>> \in OpToRel(<, Nat)
          BY <4>1, <3>2, <2>1 DEF OpToRel
        <5> QED BY <3>1, <4>1, <5>1
      <4>4. chain(k - 1) \in Seq(Entry) /\ Len(chain(k - 1)) = k - a
        <5>1. k - a \in Nat /\ k - 1 - a + 1 = k - a
          BY <2>1, <3>2, <4>1
        <5>2. \A i \in 1 .. k - a : a + i - 1 \in 1 .. n
          BY <2>1, <3>2, <4>1
        <5>3. \A i \in 1 .. k - a : e(a + i - 1) \in Entry
          BY <2>3, <5>2
        <5>4. chain(k - 1) = [i \in 1 .. k - a |-> e(a + i - 1)]
          BY <5>1
        <5>5. chain(k - 1) \in [1 .. k - a -> Entry]
          BY <5>3, <5>4
        <5> HIDE DEF chain
        <5>6. chain(k - 1) \in Seq(Entry)
          BY <5>1, <5>5, SeqDef
        <5>7. DOMAIN chain(k - 1) = 1 .. k - a
          BY <5>5
        <5> QED BY <5>1, <5>6, <5>7, LenProperties
      <4>5. Append(chain(k - 1), e(k)) = chain(k)
        <5> DEFINE c == chain(k - 1)
        <5>1. c \in Seq(Entry) /\ Len(c) = k - a /\ k - a \in Nat /\ e(k) \in Entry
          BY <2>1, <2>3, <3>2, <4>1, <4>4
        <5>2. \A i \in 1 .. k - a : c[i] = e(a + i - 1)
          BY <2>1, <3>2, <4>1
        <5> HIDE DEF c
        <5>3. Append(c, e(k)) = [i \in 1 .. k - a + 1 |-> IF i <= k - a THEN c[i] ELSE e(k)]
          <6> DEFINE u == Append(c, e(k))
          <6>1. /\ u \in Seq(Entry) /\ Len(u) = k - a + 1
                /\ \A i \in 1 .. k - a : u[i] = c[i]
                /\ u[k - a + 1] = e(k)
            BY <5>1, AppendProperties
          <6> HIDE DEF u
          <6>2. u = [i \in 1 .. k - a + 1 |-> u[i]]
            BY <6>1, LenProperties
          <6>3. \A i \in 1 .. k - a + 1 : u[i] = IF i <= k - a THEN c[i] ELSE e(k)
            BY <5>1, <6>1
          <6> QED BY <6>2, <6>3 DEF u
        <5>4. \A i \in 1 .. k - a + 1 : e(a + i - 1) = IF i <= k - a THEN c[i] ELSE e(k)
          <6>1. k - a + 1 = k - a + 1 /\ a + (k - a + 1) - 1 = k
            BY <2>1, <3>2
          <6>2. \A i \in 1 .. k - a + 1 : ~(i <= k - a) => i = k - a + 1
            BY <5>1
          <6> QED BY <5>1, <5>2, <6>1, <6>2
        <5> QED BY <5>3, <5>4 DEF c
      <4> QED BY <3>2, <4>2, <4>3, <4>5
    <3> QED BY <3>3, <3>4
  <2>5. state.prev = log[n].rec.h
    BY <1>1 DEF Accepts, HeadMatches, InLine, n
  <2>6. n \in a .. n
    BY <2>1
  <2> QED BY <2>4, <2>5, <2>6 DEF n, e
<1>2. ASSUME TypeOK, log # << >>
      PROVE  \E a \in DOMAIN log : /\ a = 1 \/ log[a].rec.seq = 1
                                  /\ \A k \in a + 1 .. Len(log) : log[k].rec.seq # 1
  <2> DEFINE n == Len(log)
             Anchor(a) == a = 1 \/ log[a].rec.seq = 1
             Tails == {m \in Nat : \E a \in 1..n : m = n - a /\ Anchor(a)}
  <2>1. n \in Nat /\ n # 0 /\ DOMAIN log = 1..n
    BY <1>2, EmptySeq, LenProperties DEF TypeOK
  <2>2. n - 1 \in Tails
    <3>1. 1 \in 1..n /\ n - 1 \in Nat /\ Anchor(1)
      BY <2>1
    <3> QED BY <3>1
  <2>3. PICK m \in Tails : \A j \in Tails : <<j, m>> \notin OpToRel(<, Nat)
    <3>1. Tails \subseteq Nat /\ Tails # {}
      BY <2>2
    <3> HIDE DEF Tails
    <3> QED BY <3>1, NatLessThanWellFounded, WFMin
  <2>4. PICK a \in 1..n : m = n - a /\ Anchor(a)
    OBVIOUS
  <2>5. ASSUME NEW k \in a + 1 .. n, log[k].rec.seq = 1 PROVE FALSE
    <3>1. k \in 1..n /\ n - k \in Nat /\ n - k < m /\ Anchor(k)
      BY <2>1, <2>4, <2>5
    <3>2. n - k \in Tails
      BY <3>1
    <3>3. <<n - k, m>> \in OpToRel(<, Nat)
      BY <3>1 DEF OpToRel
    <3> QED BY <2>3, <3>2, <3>3
  <2> QED BY <2>1, <2>4, <2>5
<1>3. IInv => AcceptedIsWhole
  <2> SUFFICES ASSUME IInv, Accepts, log # << >>, state \notin {Missing, Torn}
               PROVE  AcceptedIsWhole
    BY DEF AcceptedIsWhole
  <2>1. TypeOK
    BY DEF IInv
  <2>2. PICK a \in DOMAIN log : /\ a = 1 \/ log[a].rec.seq = 1
                                /\ \A k \in a + 1 .. Len(log) : log[k].rec.seq # 1
    BY <1>2, <2>1
  <2>3. state.prev = [k \in 1 .. Len(log) - a + 1 |->
                         [seq |-> log[a + k - 1].rec.seq,
                          call |-> log[a + k - 1].rec.call]]
    BY <1>1, <2>1, <2>2
  <2> QED BY <2>2, <2>3 DEF AcceptedIsWhole
<1> QED BY Invariant, <1>3, PTL
=============================================================================
