---------------------------- MODULE Tools_proofs ----------------------------
(***************************************************************************)
(* What the parts of Tools guarantee for any number of messages, folders,  *)
(* items, texts, tasks, attendees, people and calls, any lives of the      *)
(* caches and any period of the reset ladder: the tools that change mail   *)
(* and folders (Mail), those that change other items (Item), the searches  *)
(* with their caches (Caches), the searches for free times (Times),        *)
(* find_person (People), the mirrored tasks (Lane) and the connection      *)
(* manager (Manager).  Each has an invariant of its own, which the steps   *)
(* of the others cannot disturb.                                           *)
(***************************************************************************)
EXTENDS Tools, Ranking, FiniteSetTheorems, SequenceTheorems, WellFoundedInduction, TLAPS

-----------------------------------------------------------------------------
(* Induction without an operator as parameter: a set of numbers stands for  *)
(* the statement.  The functions of ItemTools that are defined by recursion *)
(* over the positions of a list are what their definitions say.             *)

Smaller == {p \in Nat \X Nat : p[1] < p[2]}

LEMMA SmallerIsWellFounded == IsWellFoundedOn(Smaller, Nat)
BY NatLessThanWellFounded DEF OpToRel, Smaller

LEMMA Induction ==
  ASSUME NEW n \in Nat, NEW S, 0 \in S, \A i \in 1..n : i - 1 \in S => i \in S
  PROVE  \A i \in 0..n : i \in S
<1> DEFINE T == {i \in 0..n : i \notin S}
<1> SUFFICES ASSUME T # {} PROVE FALSE
  OBVIOUS
<1>1. T \subseteq Nat
  OBVIOUS
<1> HIDE DEF T
<1>2. \E x \in T : \A y \in T : ~(<<y, x>> \in Smaller)
  BY <1>1, SmallerIsWellFounded, WFMin
<1>3. PICK x \in T : \A y \in T : ~(<<y, x>> \in Smaller)
  BY <1>2
<1>4. x \in 1..n /\ x \notin S
  BY DEF T
<1>5. x - 1 \in T /\ x - 1 < x /\ x \in Nat /\ x - 1 \in Nat
  BY <1>4 DEF T
<1> QED BY <1>3, <1>5 DEF Smaller

(* Picked                                                                   *)
LEMMA PickedEach ==
  ASSUME NEW s, Len(s) \in Nat, NEW I
  PROVE  /\ Item!PickedUpTo(s, I)[0] = << >>
         /\ \A i \in 1..Len(s) :
              Item!PickedUpTo(s, I)[i] =
                IF i \in I THEN Append(Item!PickedUpTo(s, I)[i - 1], s[i])
                ELSE Item!PickedUpTo(s, I)[i - 1]
<1> DEFINE Is(f, m) ==
      f = [i \in 0..m |-> IF i = 0 THEN << >>
                          ELSE IF i \in I THEN Append(f[i - 1], s[i]) ELSE f[i - 1]]
<1>1. \E f : Is(f, Len(s))
  <2> DEFINE S == {m \in Nat : \E f : Is(f, m)}
  <2>1. 0 \in S
    <3>1. Is([i \in 0..0 |-> << >>], 0)
      OBVIOUS
    <3> QED BY <3>1
  <2>2. ASSUME NEW m \in 1..Len(s), m - 1 \in S PROVE m \in S
    <3>1. PICK f : Is(f, m - 1)
      BY <2>2
    <3>2. PICK g : g = [i \in 0..m |-> IF i < m THEN f[i]
                                      ELSE IF i \in I THEN Append(f[i - 1], s[i]) ELSE f[i - 1]]
      OBVIOUS
    <3>3. \A i \in 0..(m - 1) :
             f[i] = IF i = 0 THEN << >>
                    ELSE IF i \in I THEN Append(f[i - 1], s[i]) ELSE f[i - 1]
      BY <3>1
    <3>4. ASSUME NEW i \in 0..m
          PROVE  g[i] = IF i = 0 THEN << >>
                        ELSE IF i \in I THEN Append(g[i - 1], s[i]) ELSE g[i - 1]
      <4>1. CASE i = 0
        BY <3>2, <3>3, <4>1
      <4>2. CASE i \in 1..(m - 1)
        <5>1. g[i] = f[i] /\ g[i - 1] = f[i - 1] /\ i # 0 /\ i \in 0..(m - 1)
          BY <3>2, <4>2
        <5> QED BY <3>3, <5>1
      <4>3. CASE i = m
        <5>1. g[i - 1] = f[i - 1] /\ i # 0
          BY <3>2, <4>3
        <5> QED BY <3>2, <4>3, <5>1
      <4> QED BY <4>1, <4>2, <4>3
    <3>5. g = [i \in 0..m |-> IF i = 0 THEN << >>
                              ELSE IF i \in I THEN Append(g[i - 1], s[i]) ELSE g[i - 1]]
      BY <3>2, <3>4
    <3>6. \E h : Is(h, m)
      BY <3>5
    <3> QED BY <3>6
  <2> HIDE DEF S
  <2>3. \A m \in 0..Len(s) : m \in S
    BY <2>1, <2>2, Induction
  <2>4. Len(s) \in S
    BY <2>3
  <2> QED BY <2>4 DEF S
<1>2. Item!PickedUpTo(s, I) = CHOOSE f : Is(f, Len(s))
  BY DEF Item!PickedUpTo
<1>3. Is(Item!PickedUpTo(s, I), Len(s))
  <2> HIDE DEF Is
  <2> QED BY <1>1, <1>2
<1> DEFINE p == Item!PickedUpTo(s, I)
<1>4. /\ 0 \in 0..Len(s) /\ \A i \in 1..Len(s) : i \in 0..Len(s) /\ i # 0
  OBVIOUS
<1>5. Is(p, Len(s))
  BY <1>3
<1> HIDE DEF p
<1>6. p[0] = << >>
  BY <1>4, <1>5
<1>7. ASSUME NEW i \in 1..Len(s)
      PROVE  p[i] = IF i \in I THEN Append(p[i - 1], s[i]) ELSE p[i - 1]
  BY <1>4, <1>5
<1> QED BY <1>6, <1>7 DEF p

(* Acted                                                                    *)
LEMMA ActedEach ==
  ASSUME NEW s, Len(s) \in Nat, NEW message
  PROVE  /\ Item!Acted(s, message)[0] = message
         /\ \A i \in 1..Len(s) :
              Item!Acted(s, message)[i] = Item!InMemory(s[i], Item!Acted(s, message)[i - 1])
<1> DEFINE Is(f, m) ==
      f = [i \in 0..m |-> IF i = 0 THEN message ELSE Item!InMemory(s[i], f[i - 1])]
<1>1. \E f : Is(f, Len(s))
  <2> DEFINE S == {m \in Nat : \E f : Is(f, m)}
  <2>1. 0 \in S
    <3>1. Is([i \in 0..0 |-> message], 0)
      OBVIOUS
    <3> QED BY <3>1
  <2>2. ASSUME NEW m \in 1..Len(s), m - 1 \in S PROVE m \in S
    <3>1. PICK f : Is(f, m - 1)
      BY <2>2
    <3>2. PICK g : g = [i \in 0..m |-> IF i < m THEN f[i] ELSE Item!InMemory(s[i], f[i - 1])]
      OBVIOUS
    <3>3. \A i \in 0..(m - 1) :
             f[i] = IF i = 0 THEN message ELSE Item!InMemory(s[i], f[i - 1])
      BY <3>1
    <3>4. ASSUME NEW i \in 0..m
          PROVE  g[i] = IF i = 0 THEN message ELSE Item!InMemory(s[i], g[i - 1])
      <4>1. CASE i = 0
        BY <3>2, <3>3, <4>1
      <4>2. CASE i \in 1..(m - 1)
        <5>1. g[i] = f[i] /\ g[i - 1] = f[i - 1] /\ i # 0 /\ i \in 0..(m - 1)
          BY <3>2, <4>2
        <5> QED BY <3>3, <5>1
      <4>3. CASE i = m
        <5>1. g[i - 1] = f[i - 1] /\ i # 0
          BY <3>2, <4>3
        <5> QED BY <3>2, <4>3, <5>1
      <4> QED BY <4>1, <4>2, <4>3
    <3>5. g = [i \in 0..m |-> IF i = 0 THEN message ELSE Item!InMemory(s[i], g[i - 1])]
      BY <3>2, <3>4
    <3>6. \E h : Is(h, m)
      BY <3>5
    <3> QED BY <3>6
  <2> HIDE DEF S
  <2>3. \A m \in 0..Len(s) : m \in S
    BY <2>1, <2>2, Induction
  <2>4. Len(s) \in S
    BY <2>3
  <2> QED BY <2>4 DEF S
<1>2. Item!Acted(s, message) = CHOOSE f : Is(f, Len(s))
  BY DEF Item!Acted
<1>3. Is(Item!Acted(s, message), Len(s))
  <2> HIDE DEF Is
  <2> QED BY <1>1, <1>2
<1> DEFINE a == Item!Acted(s, message)
<1>4. /\ 0 \in 0..Len(s) /\ \A i \in 1..Len(s) : i \in 0..Len(s) /\ i # 0
  OBVIOUS
<1>5. Is(a, Len(s))
  BY <1>3
<1> HIDE DEF a
<1>6. a[0] = message /\ \A i \in 1..Len(s) : a[i] = Item!InMemory(s[i], a[i - 1])
  BY <1>4, <1>5
<1> QED BY <1>6 DEF a

(* Outcomes                                                                 *)
LEMMA OutcomesEach ==
  ASSUME NEW s, Len(s) \in Nat, NEW message
  PROVE  /\ Item!Outcomes(s, message)[0] = [message |-> message, fired |-> << >>]
         /\ \A i \in 1..Len(s) :
              Item!Outcomes(s, message)[i] = Item!Fire(s[i], Item!Outcomes(s, message)[i - 1])
<1> DEFINE start == [message |-> message, fired |-> << >>]
           Is(f, m) ==
             f = [i \in 0..m |-> IF i = 0 THEN start ELSE Item!Fire(s[i], f[i - 1])]
<1>1. \E f : Is(f, Len(s))
  <2> DEFINE S == {m \in Nat : \E f : Is(f, m)}
  <2> HIDE DEF start
  <2>1. 0 \in S
    <3>1. Is([i \in 0..0 |-> start], 0)
      OBVIOUS
    <3> QED BY <3>1
  <2>2. ASSUME NEW m \in 1..Len(s), m - 1 \in S PROVE m \in S
    <3>1. PICK f : Is(f, m - 1)
      BY <2>2
    <3>2. PICK g : g = [i \in 0..m |-> IF i < m THEN f[i] ELSE Item!Fire(s[i], f[i - 1])]
      OBVIOUS
    <3>3. \A i \in 0..(m - 1) : f[i] = IF i = 0 THEN start ELSE Item!Fire(s[i], f[i - 1])
      BY <3>1
    <3>4. ASSUME NEW i \in 0..m
          PROVE  g[i] = IF i = 0 THEN start ELSE Item!Fire(s[i], g[i - 1])
      <4>1. CASE i = 0
        BY <3>2, <3>3, <4>1
      <4>2. CASE i \in 1..(m - 1)
        <5>1. g[i] = f[i] /\ g[i - 1] = f[i - 1] /\ i # 0 /\ i \in 0..(m - 1)
          BY <3>2, <4>2
        <5> QED BY <3>3, <5>1
      <4>3. CASE i = m
        <5>1. g[i - 1] = f[i - 1] /\ i # 0
          BY <3>2, <4>3
        <5> QED BY <3>2, <4>3, <5>1
      <4> QED BY <4>1, <4>2, <4>3
    <3>5. g = [i \in 0..m |-> IF i = 0 THEN start ELSE Item!Fire(s[i], g[i - 1])]
      BY <3>2, <3>4
    <3>6. \E h : Is(h, m)
      BY <3>5
    <3> QED BY <3>6
  <2> HIDE DEF S
  <2>3. \A m \in 0..Len(s) : m \in S
    BY <2>1, <2>2, Induction
  <2>4. Len(s) \in S
    BY <2>3
  <2> QED BY <2>4 DEF S
<1>2. Item!Outcomes(s, message) = CHOOSE f : Is(f, Len(s))
  BY DEF Item!Outcomes
<1>3. Is(Item!Outcomes(s, message), Len(s))
  <2> HIDE DEF Is
  <2> QED BY <1>1, <1>2
<1> DEFINE o == Item!Outcomes(s, message)
<1>4. /\ 0 \in 0..Len(s) /\ \A i \in 1..Len(s) : i \in 0..Len(s) /\ i # 0
  OBVIOUS
<1>5. Is(o, Len(s))
  BY <1>3
<1> HIDE DEF o
<1>6. o[0] = start /\ \A i \in 1..Len(s) : o[i] = Item!Fire(s[i], o[i - 1])
  BY <1>4, <1>5
<1> QED BY <1>6 DEF o

-----------------------------------------------------------------------------
(* MailTools: the mailbox, and what the calls hold of it                    *)

MailboxOK ==
  /\ items \in [Mail!Ids -> Mail!Item \union {NoItem}]
  /\ parent \in [Custom -> Mail!Folder \union {Unborn, Destroyed}]
  /\ nextId \in 1..(MaxId + 1)
  /\ known \subseteq Msgs /\ asked \subseteq Msgs /\ untrashed \subseteq Msgs
  /\ Mail!Recoverable

CallsOK ==
  /\ job \in [Callers -> Mail!Jobs \union {NoJob}]
  /\ \A w \in Callers : job[w] # NoJob => job[w].copied \subseteq Mail!Copyable(job[w].seen)
  /\ calls \in 0..MaxCalls /\ outlook \in 0..MaxOutlook
  /\ made \subseteq [tool : Mail!Derived, had : SUBSET Mail!Attachment, given : SUBSET Mail!Attachment,
                     files : SUBSET Mail!Attachment, cut : BOOLEAN]
  /\ Mail!AllOrNothing

MailInv == Mail!ConstantsOK /\ MailboxOK /\ CallsOK

(* An item that is there has an id below the next one, in a live folder.    *)
LEMMA LiveItem ==
  ASSUME MailInv, NEW id \in Mail!Ids, Mail!Alive(id)
  PROVE  items[id] \in Mail!Item /\ id < nextId /\ Mail!LiveFolder(items[id].at) /\ items[id].msg \in Mail!Held
BY DEF MailInv, MailboxOK, Mail!Recoverable, Mail!Alive, Mail!Held, Mail!Item

(* Exchange makes n copies of an item, some of them in place of old ones    *)
(* that carried the same message (_create, move, copy).                     *)
LEMMA CreatedKeeps ==
  ASSUME MailInv, NEW n \in Nat, NEW item \in Mail!Item, Mail!LiveFolder(item.at), NEW old \in SUBSET Mail!Ids,
         Mail!Created(n, item, old), UNCHANGED <<parent, asked, untrashed>>,
         \A id \in old : Mail!Alive(id) /\ n > 0 /\ item.msg = items[id].msg
  PROVE  MailboxOK'
<1>0. MaxId \in Nat /\ nextId \in 1..MaxId + 1 /\ NoItem \notin Mail!Item
  BY DEF MailInv, Mail!ConstantsOK, MailboxOK
<1>1. PICK new : new = nextId..(nextId + n - 1)
  OBVIOUS
<1>2. /\ items' = [id \in Mail!Ids |-> IF id \in new THEN item ELSE IF id \in old THEN NoItem ELSE items[id]]
      /\ nextId' = nextId + n /\ nextId + n <= MaxId + 1
      /\ known' = IF n > 0 THEN known \union {item.msg} ELSE known
  BY <1>1 DEF Mail!Created
<1>3. new \subseteq Mail!Ids /\ \A id \in new : id < nextId + n /\ id >= nextId
  BY <1>0, <1>1, <1>2 DEF Mail!Ids
<1>4. PICK k : k = nextId /\ (n > 0 => k \in new)
  BY <1>0, <1>1
<1>5. /\ items' \in [Mail!Ids -> Mail!Item \union {NoItem}] /\ nextId' \in 1..(MaxId + 1)
      /\ known' \subseteq Msgs /\ asked' \subseteq Msgs /\ untrashed' \subseteq Msgs
      /\ parent' \in [Custom -> Mail!Folder \union {Unborn, Destroyed}]
  <2>1. items' \in [Mail!Ids -> Mail!Item \union {NoItem}]
    BY <1>2 DEF MailInv, MailboxOK
  <2>2. nextId' \in 1..(MaxId + 1)
    BY <1>0, <1>2
  <2> QED BY <1>2, <2>1, <2>2 DEF MailInv, MailboxOK, Mail!Item
<1>6. ASSUME NEW id \in new PROVE Mail!Alive(id)' /\ items'[id] = item
  BY <1>0, <1>2, <1>3, <1>6 DEF Mail!Alive
<1>7. ASSUME NEW id \in Mail!Ids \ (new \cup old), Mail!Alive(id) PROVE Mail!Alive(id)' /\ items'[id] = items[id]
  BY <1>0, <1>2, <1>7 DEF Mail!Alive, Mail!Ids
<1>8. ASSUME NEW id \in Mail!Ids, Mail!Alive(id)', id \notin new PROVE Mail!Alive(id) /\ items'[id] = items[id]
  <2>1. id < nextId
    BY <1>0, <1>1, <1>2, <1>8 DEF Mail!Alive, Mail!Ids
  <2> QED BY <1>2, <1>8, <2>1 DEF Mail!Alive
<1>9. Mail!Held \subseteq Mail!Held'
  <2> SUFFICES ASSUME NEW id \in Mail!Ids, Mail!Alive(id) PROVE items[id].msg \in Mail!Held'
    BY DEF Mail!Held
  <2>1. CASE id \in old
    <3>1. k \in new /\ item.msg = items[id].msg
      BY <1>4, <2>1
    <3>2. k \in Mail!Ids /\ Mail!Alive(k)' /\ items'[k].msg = items[id].msg
      BY <1>3, <1>6, <3>1
    <3> QED BY <3>2 DEF Mail!Held
  <2>2. CASE id \in new
    <3>1. id < nextId
      BY DEF Mail!Alive
    <3> QED BY <1>0, <1>3, <2>2, <3>1 DEF Mail!Ids
  <2>3. CASE id \notin new \cup old
    <3>1. Mail!Alive(id)' /\ items'[id].msg = items[id].msg
      BY <1>7, <2>3
    <3> QED BY <3>1 DEF Mail!Held
  <2> QED BY <2>1, <2>2, <2>3
<1>10. n > 0 => item.msg \in Mail!Held'
  <2> SUFFICES ASSUME n > 0 PROVE item.msg \in Mail!Held'
    OBVIOUS
  <2>1. k \in Mail!Ids /\ Mail!Alive(k)' /\ items'[k] = item
    BY <1>3, <1>4, <1>6
  <2> QED BY <2>1 DEF Mail!Held
<1>11. known' \ (asked' \union untrashed') \subseteq Mail!Held'
  BY <1>2, <1>9, <1>10 DEF MailInv, MailboxOK, Mail!Recoverable
<1>12. ASSUME NEW id \in Mail!Ids, Mail!Alive(id)' PROVE Mail!LiveFolder(items[id].at)'
  <2>1. CASE id \in new
    BY <1>6, <2>1 DEF Mail!LiveFolder
  <2>2. CASE id \notin new
    BY <1>8, <1>12, <2>2, LiveItem DEF Mail!LiveFolder
  <2> QED BY <2>1, <2>2
<1> QED BY <1>5, <1>11, <1>12 DEF MailboxOK, Mail!Recoverable

(* A move is one new item in place of the old one.                          *)
LEMMA MovedKeeps ==
  ASSUME MailInv, NEW id \in Mail!Ids, NEW f \in Mail!Folder, Mail!Alive(id), Mail!LiveFolder(f), Mail!Moved(id, f),
         UNCHANGED <<parent, asked, untrashed>>
  PROVE  MailboxOK'
<1>1. PICK item, old : item = [items[id] EXCEPT !.at = f] /\ old = {id}
  OBVIOUS
<1>2. item \in Mail!Item /\ item.at = f /\ item.msg = items[id].msg
  BY <1>1, LiveItem DEF Mail!Item
<1>3. Mail!Created(1, item, old)
  BY <1>1 DEF Mail!Moved
<1>4. /\ Mail!LiveFolder(item.at) /\ old \in SUBSET Mail!Ids /\ 1 \in Nat
      /\ \A x \in old : Mail!Alive(x) /\ 1 > 0 /\ item.msg = items[x].msg
  BY <1>1, <1>2
<1> QED BY <1>2, <1>3, <1>4, CreatedKeeps

(* An item is destroyed by somebody who asked for it.                       *)
LEMMA DestroyedKeeps ==
  ASSUME MailInv, NEW id \in Mail!Ids, Mail!Alive(id), items' = [items EXCEPT ![id] = NoItem],
         asked' = asked \union {items[id].msg}, UNCHANGED <<parent, nextId, known, untrashed>>
  PROVE  MailboxOK'
<1>1. /\ items' \in [Mail!Ids -> Mail!Item \union {NoItem}] /\ items'[id] = NoItem
      /\ \A x \in Mail!Ids \ {id} : items'[x] = items[x]
  BY DEF MailInv, MailboxOK
<1>2. asked' \subseteq Msgs
  BY LiveItem DEF MailInv, MailboxOK, Mail!Item
<1>3. ASSUME NEW x \in Mail!Ids PROVE Mail!Alive(x)' <=> Mail!Alive(x) /\ x # id
  BY <1>1 DEF Mail!Alive
<1>4. Mail!Held \ {items[id].msg} \subseteq Mail!Held'
  BY <1>1, <1>3 DEF Mail!Held
<1>5. \A x \in Mail!Ids : Mail!Alive(x)' => Mail!LiveFolder(items[x].at)'
  BY <1>1, <1>3, LiveItem DEF Mail!LiveFolder
<1> QED BY <1>1, <1>2, <1>4, <1>5 DEF MailInv, MailboxOK, Mail!Recoverable

(* Only the attachments of an item change.                                  *)
LEMMA FilesKeep ==
  ASSUME MailInv, NEW id \in Mail!Ids, Mail!Alive(id), NEW A \in SUBSET Mail!Attachment,
         items' = [items EXCEPT ![id].files = A], UNCHANGED <<parent, nextId, known, asked, untrashed>>
  PROVE  MailboxOK'
<1>0. PICK item : item = [items[id] EXCEPT !.files = A]
  OBVIOUS
<1>1. item \in Mail!Item /\ item.at = items[id].at /\ item.msg = items[id].msg
  BY <1>0, LiveItem DEF Mail!Item
<1>2. /\ items' \in [Mail!Ids -> Mail!Item \union {NoItem}] /\ items'[id] = item
      /\ \A x \in Mail!Ids \ {id} : items'[x] = items[x]
  BY <1>0, <1>1 DEF MailInv, MailboxOK
<1>3. ASSUME NEW x \in Mail!Ids, Mail!Alive(x)
      PROVE  Mail!Alive(x)' /\ items'[x].at = items[x].at /\ items'[x].msg = items[x].msg
  BY <1>1, <1>2, <1>3 DEF Mail!Alive, MailInv, Mail!ConstantsOK
<1>4. ASSUME NEW x \in Mail!Ids, Mail!Alive(x)' PROVE Mail!Alive(x)
  BY <1>2, <1>4 DEF Mail!Alive
<1>5. Mail!Held \subseteq Mail!Held'
  BY <1>3 DEF Mail!Held
<1>6. \A x \in Mail!Ids : Mail!Alive(x)' => Mail!LiveFolder(items[x].at)'
  BY <1>3, <1>4, LiveItem DEF Mail!LiveFolder
<1> QED BY <1>2, <1>5, <1>6 DEF MailInv, MailboxOK, Mail!Recoverable

(* What create, move and delete of manage_folder do to the tree: a folder   *)
(* that goes takes those under it along, and their items.                   *)
LEMMA FoldersKeep ==
  ASSUME MailInv, NEW f \in Custom,
         \/ \E p \in Mail!Folder : Mail!CreateFolder(f, p) \/ Mail!MoveFolder(f, p)
         \/ \E permanent \in BOOLEAN : Mail!DeleteFolder(f, permanent)
  PROVE  MailboxOK'
<1>1. ASSUME NEW p \in Mail!Folder, parent' = [parent EXCEPT ![f] = p],
             UNCHANGED <<items, nextId, known, asked, untrashed>>
      PROVE  MailboxOK'
  <2>1. /\ parent' \in [Custom -> Mail!Folder \union {Unborn, Destroyed}] /\ parent'[f] = p
        /\ \A g \in Custom \ {f} : parent'[g] = parent[g]
    BY <1>1 DEF MailInv, MailboxOK
  <2>2. ASSUME NEW g, Mail!LiveFolder(g) PROVE Mail!LiveFolder(g)'
    BY <2>1, <2>2 DEF Mail!LiveFolder, MailInv, Mail!ConstantsOK
  <2>3. Mail!Held' = Mail!Held
    BY <1>1 DEF Mail!Held, Mail!Alive
  <2>4. \A x \in Mail!Ids : Mail!Alive(x)' => Mail!LiveFolder(items[x].at)'
    <3> SUFFICES ASSUME NEW x \in Mail!Ids, Mail!Alive(x)' PROVE Mail!LiveFolder(items[x].at)'
      OBVIOUS
    <3>1. Mail!Alive(x) /\ items'[x] = items[x]
      BY <1>1 DEF Mail!Alive
    <3>2. PICK g : g = items[x].at /\ g = items'[x].at
      BY <3>1
    <3>3. Mail!LiveFolder(g)'
      BY <2>2, <3>1, <3>2, LiveItem
    <3> QED BY <3>2, <3>3
  <2> QED BY <1>1, <2>1, <2>3, <2>4 DEF MailInv, MailboxOK, Mail!Recoverable
<1>2. ASSUME Mail!Removed(f),
             asked' \union untrashed' = asked \union untrashed \union Mail!MessagesUnder(f),
             asked \subseteq asked', untrashed \subseteq untrashed',
             UNCHANGED <<nextId, known>>
      PROVE  MailboxOK'
  <2>1. PICK gone : gone = Mail!Under(f)
    OBVIOUS
  <2>2. /\ parent' = [g \in Custom |-> IF g \in gone THEN Destroyed ELSE parent[g]]
        /\ items' = [id \in Mail!Ids |-> IF Mail!Alive(id) /\ items[id].at \in gone THEN NoItem ELSE items[id]]
    BY <1>2, <2>1 DEF Mail!Removed
  <2>3. /\ items' \in [Mail!Ids -> Mail!Item \union {NoItem}]
        /\ parent' \in [Custom -> Mail!Folder \union {Unborn, Destroyed}]
    BY <2>2 DEF MailInv, MailboxOK
  <2>4. /\ asked \union untrashed \subseteq asked' \union untrashed'
        /\ asked' \subseteq Msgs /\ untrashed' \subseteq Msgs
    BY <1>2, LiveItem DEF MailInv, MailboxOK, Mail!Item, Mail!MessagesUnder
  <2>5. ASSUME NEW x \in Mail!Ids, Mail!Alive(x)
        PROVE  \/ items[x].at \in gone /\ items[x].msg \in asked' \union untrashed'
               \/ items[x].at \notin gone /\ Mail!Alive(x)' /\ items'[x] = items[x]
    BY <1>2, <2>1, <2>2, <2>5 DEF Mail!Alive, Mail!MessagesUnder
  <2>6. ASSUME NEW x \in Mail!Ids, Mail!Alive(x)' PROVE Mail!Alive(x) /\ items[x].at \notin gone /\ items'[x] = items[x]
    BY <1>2, <2>2, <2>6 DEF Mail!Alive
  <2>7. known' \ (asked' \union untrashed') \subseteq Mail!Held'
    <3> SUFFICES ASSUME NEW m \in known, m \notin asked' \union untrashed' PROVE m \in Mail!Held'
      BY <1>2
    <3>1. m \in Mail!Held
      BY <2>4 DEF MailInv, MailboxOK, Mail!Recoverable
    <3>2. PICK x \in Mail!Ids : Mail!Alive(x) /\ items[x].msg = m
      BY <3>1 DEF Mail!Held
    <3>3. Mail!Alive(x)' /\ items'[x].msg = m
      BY <2>5, <3>2
    <3> QED BY <3>3 DEF Mail!Held
  <2>8. ASSUME NEW x \in Mail!Ids, Mail!Alive(x)' PROVE Mail!LiveFolder(items[x].at)'
    <3>1. Mail!Alive(x) /\ items[x].at \notin gone /\ items'[x] = items[x]
      BY <2>6, <2>8
    <3>2. PICK g : g = items[x].at /\ g = items'[x].at
      BY <3>1
    <3>3. Mail!LiveFolder(g)
      BY <3>1, <3>2, LiveItem
    <3>4. Mail!LiveFolder(g)'
      BY <2>2, <3>1, <3>2, <3>3 DEF Mail!LiveFolder
    <3> QED BY <3>2, <3>4
  <2> QED BY <1>2, <2>3, <2>4, <2>7, <2>8 DEF MailInv, MailboxOK, Mail!Recoverable
<1>3. ASSUME NEW p \in Mail!Folder, Mail!CreateFolder(f, p) \/ Mail!MoveFolder(f, p) PROVE MailboxOK'
  BY <1>1, <1>3 DEF Mail!CreateFolder, Mail!MoveFolder, Mail!Manage
<1>4. ASSUME NEW permanent \in BOOLEAN, Mail!DeleteFolder(f, permanent) PROVE MailboxOK'
  <2>1. Mail!Trash \in Mail!Folder
    BY DEF Mail!Trash, Mail!Folder, Mail!Standard
  <2>2. UNCHANGED <<nextId, known>>
    BY <1>4 DEF Mail!DeleteFolder, Mail!Manage
  <2>3. CASE parent' = [parent EXCEPT ![f] = Mail!Trash] /\ UNCHANGED <<items, asked, untrashed>>
    BY <1>1, <2>1, <2>2, <2>3
  <2>4. CASE /\ Mail!Removed(f)
             /\ \/ asked' = asked \union Mail!MessagesUnder(f) /\ UNCHANGED untrashed
                \/ untrashed' = untrashed \union Mail!MessagesUnder(f) /\ UNCHANGED asked
    BY <1>2, <2>2, <2>4
  <2> QED BY <1>4, <2>3, <2>4 DEF Mail!DeleteFolder
<1> QED BY <1>3, <1>4

(* A mailbox with one message.                                              *)
LEMMA MailInit == Mail!ConstantsOK /\ Mail!Init => MailInv
<1> SUFFICES ASSUME Mail!ConstantsOK, Mail!Init PROVE MailInv
  OBVIOUS
<1>1. PICK m \in Msgs, A \in SUBSET Mail!Attachment :
        /\ items = [id \in Mail!Ids |-> IF id = 1 THEN [msg |-> m, at |-> "inbox", files |-> A] ELSE NoItem]
        /\ known = {m}
  <2>1. PICK m \in Msgs : \E A \in SUBSET (Mail!Attachment \ {Mail!Embedded(m)}) :
        /\ items = [id \in Mail!Ids |-> IF id = 1 THEN [msg |-> m, at |-> "inbox", files |-> A] ELSE NoItem]
        /\ known = {m}
    BY DEF Mail!Init
  <2> QED BY <2>1
<1>2. PICK item : item = [msg |-> m, at |-> "inbox", files |-> A]
  OBVIOUS
<1>3. item \in Mail!Item /\ item.at = "inbox" /\ item.msg = m
  BY <1>2 DEF Mail!Item, Mail!Folder, Mail!Standard
<1>4. MaxId \in Nat \ {0} /\ 1 \in Mail!Ids /\ nextId = 2 /\ nextId \in 1..MaxId + 1
  BY DEF Mail!ConstantsOK, Mail!Init, Mail!Ids
<1>5. /\ items \in [Mail!Ids -> Mail!Item \union {NoItem}] /\ items[1] = item
      /\ \A id \in Mail!Ids \ {1} : items[id] = NoItem
  BY <1>1, <1>2, <1>3, <1>4
<1>6. \A id \in Mail!Ids : Mail!Alive(id) <=> id = 1
  BY <1>3, <1>4, <1>5 DEF Mail!Alive, Mail!ConstantsOK
<1>7. Mail!LiveFolder("inbox")
  BY DEF Mail!LiveFolder, Mail!ConstantsOK, Mail!Standard
<1>8. Mail!Held = {m}
  BY <1>3, <1>4, <1>5, <1>6 DEF Mail!Held
<1>9. Mail!Recoverable
  BY <1>1, <1>3, <1>5, <1>6, <1>7, <1>8 DEF Mail!Recoverable
<1>10. MailboxOK
  <2>1. known \subseteq Msgs /\ untrashed \subseteq Msgs
    BY <1>1 DEF Mail!Init
  <2> QED BY <1>4, <1>5, <1>9, <2>1 DEF Mail!Init, MailboxOK
<1>11. CallsOK
  <2>1. calls \in 0..MaxCalls /\ outlook \in 0..MaxOutlook
    BY DEF Mail!Init, Mail!ConstantsOK
  <2> QED BY <2>1 DEF Mail!Init, CallsOK, Mail!AllOrNothing
<1> QED BY <1>10, <1>11 DEF MailInv

(* What a caller gives is a set of files.                                   *)
LEMMA OfGiven == ASSUME NEW A \in Mail!Given PROVE A \in SUBSET Mail!Attachment
BY DEF Mail!Given, Mail!File, Mail!Attachment

(* So is what a tool adds to an item.                                       *)
LEMMA OfExtras ==
  ASSUME MailInv, NEW tool, NEW id \in Mail!Ids, Mail!Alive(id), NEW A \in Mail!Extras(tool, items[id])
  PROVE  A \in SUBSET Mail!Attachment
<1>1. items[id].files \in SUBSET Mail!Attachment
  BY LiveItem DEF Mail!Item
<1>2. Mail!Held \subseteq Msgs
  BY LiveItem DEF Mail!Held, Mail!Item
<1> QED BY <1>1, <1>2, OfGiven DEF Mail!Extras, Mail!File, Mail!Embedded, Mail!Attachment

(* What a call under way has in its hands.                                  *)
LEMMA OfJob ==
  ASSUME MailInv, NEW w \in Callers, ~Mail!Rests(w)
  PROVE  /\ job[w] \in Mail!Jobs /\ job[w].tool \in Mail!Tools /\ job[w].id \in Mail!Ids /\ job[w].seen \in Mail!Item
         /\ job[w].extra \in SUBSET Mail!Attachment /\ job[w].copied \in SUBSET Mail!Attachment
         /\ job[w].cut \in BOOLEAN /\ job[w].copied \subseteq Mail!Copyable(job[w].seen)
BY DEF MailInv, CallsOK, Mail!Rests, Mail!Jobs

(* A tool finds the item it was asked about.                                *)
LEMMA LookKeeps ==
  ASSUME MailInv, NEW w \in Callers, NEW tool \in Mail!Tools, NEW id \in Mail!Ids, Mail!Look(w, tool, id)
  PROVE  MailboxOK' /\ CallsOK'
<1>1. MailboxOK'
  BY DEF Mail!Look, Mail!mailbox, MailInv, MailboxOK, Mail!Recoverable, Mail!Held, Mail!Alive, Mail!LiveFolder
<1>2. PICK extra \in Mail!Extras(tool, items[id]) :
        job' = [job EXCEPT ![w] = [tool |-> tool, id |-> id, seen |-> items[id],
                                  extra |-> extra, copied |-> {}, cut |-> FALSE]]
  BY DEF Mail!Look
<1>3. Mail!Alive(id)
  BY DEF Mail!Look
<1>4. [tool |-> tool, id |-> id, seen |-> items[id], extra |-> extra, copied |-> {}, cut |-> FALSE] \in Mail!Jobs
  BY <1>3, LiveItem, OfExtras DEF Mail!Jobs
<1>5. /\ job' \in [Callers -> Mail!Jobs \union {NoJob}]
      /\ \A v \in Callers : job'[v] # NoJob => job'[v].copied \subseteq Mail!Copyable(job'[v].seen)
  BY <1>2, <1>4 DEF MailInv, CallsOK
<1>6. calls' \in 0..MaxCalls
  BY DEF Mail!Look, MailInv, CallsOK, Mail!ConstantsOK
<1>7. UNCHANGED <<outlook, made>>
  BY DEF Mail!Look
<1> QED BY <1>1, <1>5, <1>6, <1>7 DEF MailInv, CallsOK, Mail!AllOrNothing

(* One attachment of the original is copied.                                *)
LEMMA FetchKeeps ==
  ASSUME MailInv, NEW w \in Callers, NEW a \in Mail!Attachment, Mail!Fetch(w, a)
  PROVE  MailboxOK' /\ CallsOK'
<1>1. MailboxOK'
  BY DEF Mail!Fetch, Mail!mailbox, MailInv, MailboxOK, Mail!Recoverable, Mail!Held, Mail!Alive, Mail!LiveFolder
<1>2. PICK j, k : j = [job[w] EXCEPT !.copied = job[w].copied \union {a}] /\ k = [job[w] EXCEPT !.cut = TRUE]
  OBVIOUS
<1>3. /\ j \in Mail!Jobs /\ j.copied \subseteq Mail!Copyable(j.seen)
      /\ k \in Mail!Jobs /\ k.copied \subseteq Mail!Copyable(k.seen)
  <2>1. ~Mail!Rests(w)
    BY DEF Mail!Fetch
  <2>2. a \in Mail!Copyable(job[w].seen)
    BY DEF Mail!Fetch
  <2> QED BY <1>2, <2>1, <2>2, OfJob DEF Mail!Jobs, Mail!Copyable
<1>4. job' = [job EXCEPT ![w] = j] \/ job' = [job EXCEPT ![w] = NoJob] \/ job' = [job EXCEPT ![w] = k]
  <2>1. CASE Mail!Alive(job[w].id) /\ a \in items[job[w].id].files
    BY <1>2, <2>1 DEF Mail!Fetch
  <2>2. CASE ~(Mail!Alive(job[w].id) /\ a \in items[job[w].id].files)
    BY <1>2, <2>2 DEF Mail!Fetch
  <2> QED BY <2>1, <2>2
<1>5. /\ job' \in [Callers -> Mail!Jobs \union {NoJob}]
      /\ \A v \in Callers : job'[v] # NoJob => job'[v].copied \subseteq Mail!Copyable(job'[v].seen)
  BY <1>3, <1>4 DEF MailInv, CallsOK
<1> QED BY <1>1, <1>5 DEF Mail!Fetch, MailInv, CallsOK, Mail!AllOrNothing

(* A call ends.                                                             *)
LEMMA FreeKeeps ==
  ASSUME MailInv, NEW w \in Callers, Mail!Ends(w), UNCHANGED <<calls, outlook, made>>
  PROVE  CallsOK'
BY DEF Mail!Ends, MailInv, CallsOK, Mail!AllOrNothing

(* A reply, a forward or a draft of one goes out with what was copied: all  *)
(* there was, unless the copying was cut short (reply_email, forward_email, *)
(* create_reply_draft, create_forward_draft).                               *)
LEMMA IssueKeeps ==
  ASSUME MailInv, NEW w \in Callers, ~Mail!Rests(w), job[w].tool \in Mail!Derived, NEW folder \in Mail!Standard,
         Mail!Complete(w), Mail!Issue(w, folder)
  PROVE  MailboxOK' /\ CallsOK'
<1>1. PICK k, item : k = job[w] /\ item = Mail!Built(w, folder)
  OBVIOUS
<1>2. /\ k.tool \in Mail!Derived /\ k.seen \in Mail!Item
      /\ k.extra \in SUBSET Mail!Attachment /\ k.copied \in SUBSET Mail!Attachment
      /\ k.cut \in BOOLEAN /\ (~k.cut => k.copied = Mail!Copyable(k.seen))
      /\ k.copied \subseteq Mail!Copyable(k.seen)
  BY <1>1, OfJob DEF Mail!Complete
<1>3. item \in Mail!Item /\ item.at = folder /\ item.files = k.copied \union k.extra
  BY <1>1, <1>2 DEF Mail!Built, Mail!Item, Mail!Folder
<1>4. PICK n \in Repeats : /\ Mail!Created(n, item, {})
                           /\ made' = IF n = 0 THEN made
                                ELSE made \union {[tool |-> k.tool, had |-> k.seen.files,
                                                   given |-> k.extra, files |-> item.files,
                                                   cut |-> k.cut]}
  BY <1>1 DEF Mail!Issue
<1>5. /\ n \in Nat /\ Mail!LiveFolder(item.at) /\ {} \in SUBSET Mail!Ids
      /\ \A id \in {} : Mail!Alive(id) /\ n > 0 /\ item.msg = items[id].msg
  BY <1>3 DEF MailInv, Mail!ConstantsOK, Mail!LiveFolder
<1>6. UNCHANGED <<parent, calls, outlook, asked, untrashed>> /\ Mail!Ends(w)
  BY DEF Mail!Issue
<1>7. MailboxOK'
  BY <1>3, <1>4, <1>5, <1>6, CreatedKeeps
<1>8. PICK e : e = [tool |-> k.tool, had |-> k.seen.files, given |-> k.extra, files |-> item.files,
                  cut |-> k.cut]
  OBVIOUS
<1>9. e \in [tool : Mail!Derived, had : SUBSET Mail!Attachment, given : SUBSET Mail!Attachment,
             files : SUBSET Mail!Attachment, cut : BOOLEAN]
  <2>1. k.seen.files \in SUBSET Mail!Attachment /\ item.files \in SUBSET Mail!Attachment
    BY <1>2, <1>3 DEF Mail!Item
  <2> QED BY <1>2, <1>8, <2>1
<1>10. /\ ~e.cut => e.files = Mail!Copyable([files |-> e.had]) \union e.given
       /\ e.given \subseteq e.files /\ e.files \subseteq Mail!Copyable([files |-> e.had]) \union e.given
  BY <1>2, <1>3, <1>8 DEF Mail!Copyable
<1>11. CallsOK'
  BY <1>4, <1>6, <1>8, <1>9, <1>10 DEF Mail!Ends, MailInv, CallsOK, Mail!AllOrNothing
<1> QED BY <1>7, <1>11

(* A new message: sent, drafted, received.                                  *)
LEMMA CreateKeeps ==
  ASSUME MailInv, NEW m \in Msgs, Mail!SendEmail(m) \/ Mail!CreateDraft(m) \/ \E A \in Mail!Given : Mail!Receive(m, A)
  PROVE  MailboxOK' /\ CallsOK'
<1>1. \E n \in Nat, f \in Mail!Standard, A \in Mail!Given : Mail!Created(n, [msg |-> m, at |-> f, files |-> A], {})
  <2>1. 1 \in Nat /\ Repeats \subseteq Nat /\ {"sent", "drafts", "inbox"} \subseteq Mail!Standard
    BY DEF MailInv, Mail!ConstantsOK, Mail!Standard
  <2> QED BY <2>1 DEF Mail!SendEmail, Mail!CreateDraft, Mail!Receive
<1>2. PICK n \in Nat, f \in Mail!Standard, A \in Mail!Given : Mail!Created(n, [msg |-> m, at |-> f, files |-> A], {})
  BY <1>1
<1>3. PICK item : item = [msg |-> m, at |-> f, files |-> A]
  OBVIOUS
<1>4. item \in Mail!Item /\ item.at = f
  BY <1>3, OfGiven DEF Mail!Item, Mail!Folder
<1>5. /\ Mail!LiveFolder(item.at) /\ {} \in SUBSET Mail!Ids
      /\ \A id \in {} : Mail!Alive(id) /\ n > 0 /\ item.msg = items[id].msg
  BY <1>4 DEF MailInv, Mail!ConstantsOK, Mail!LiveFolder
<1>6. UNCHANGED <<parent, asked, untrashed, job, made>>
  BY DEF Mail!SendEmail, Mail!CreateDraft, Mail!Receive, Mail!Outlook
<1>7. MailboxOK'
  BY <1>2, <1>3, <1>4, <1>5, <1>6, CreatedKeeps
<1>8. calls' \in 0..MaxCalls /\ outlook' \in 0..MaxOutlook
  <2>1. \/ calls < MaxCalls /\ calls' = calls + 1 /\ outlook' = outlook
        \/ outlook < MaxOutlook /\ outlook' = outlook + 1 /\ calls' = calls
    BY DEF Mail!SendEmail, Mail!CreateDraft, Mail!Receive, Mail!Outlook
  <2> QED BY <2>1 DEF MailInv, CallsOK, Mail!ConstantsOK
<1> QED BY <1>6, <1>7, <1>8 DEF MailInv, CallsOK, Mail!AllOrNothing

(* A call fails.                                                            *)
LEMMA RefusedKeeps ==
  ASSUME MailInv, NEW w \in Callers, Mail!Refused(w)
  PROVE  MailboxOK' /\ CallsOK'
<1>1. MailboxOK'
  BY DEF Mail!Refused, Mail!mailbox, MailInv, MailboxOK, Mail!Recoverable, Mail!Held, Mail!Alive, Mail!LiveFolder
<1> QED BY <1>1, FreeKeeps DEF Mail!Refused

(* delete_email, move_email and copy_email.                                 *)
LEMMA OnItemKeeps ==
  ASSUME MailInv, NEW w \in Callers,
         \/ \E permanent \in BOOLEAN : Mail!DeleteEmail(w, permanent)
         \/ \E f \in Mail!Folder : Mail!MoveEmail(w, f) \/ Mail!CopyEmail(w, f)
  PROVE  MailboxOK' /\ CallsOK'
<1>1. CASE Mail!Refused(w)
  BY <1>1, RefusedKeeps
<1>2. ASSUME ~Mail!Refused(w) PROVE CallsOK' /\ ~Mail!Rests(w)
  BY <1>2, FreeKeeps DEF Mail!DeleteEmail, Mail!MoveEmail, Mail!CopyEmail, Mail!At
<1>3. PICK id : id = job[w].id
  OBVIOUS
<1>4. ASSUME NEW permanent \in BOOLEAN, Mail!DeleteEmail(w, permanent), ~Mail!Refused(w) PROVE MailboxOK'
  <2>1. id \in Mail!Ids /\ Mail!Alive(id)
    BY <1>2, <1>3, <1>4, OfJob DEF Mail!DeleteEmail
  <2>2. Mail!Trash \in Mail!Folder /\ Mail!LiveFolder(Mail!Trash)
    BY DEF Mail!Trash, Mail!Folder, Mail!Standard, Mail!LiveFolder, MailInv, Mail!ConstantsOK
  <2>3. \/ /\ items' = [items EXCEPT ![id] = NoItem]
           /\ asked' = asked \union {items[id].msg}
           /\ UNCHANGED <<parent, nextId, known, untrashed>>
        \/ Mail!Moved(id, Mail!Trash) /\ UNCHANGED <<parent, asked, untrashed>>
    BY <1>3, <1>4 DEF Mail!DeleteEmail
  <2> QED BY <2>1, <2>2, <2>3, DestroyedKeeps, MovedKeeps
<1>5. ASSUME NEW f \in Mail!Folder, Mail!MoveEmail(w, f), ~Mail!Refused(w) PROVE MailboxOK'
  <2>1. id \in Mail!Ids /\ Mail!Alive(id)
    BY <1>2, <1>3, <1>5, OfJob DEF Mail!MoveEmail
  <2>2. Mail!LiveFolder(f) /\ Mail!Moved(id, f) /\ UNCHANGED <<parent, asked, untrashed>>
    BY <1>3, <1>5 DEF Mail!MoveEmail
  <2> QED BY <2>1, <2>2, MovedKeeps
<1>6. ASSUME NEW f \in Mail!Folder, Mail!CopyEmail(w, f), ~Mail!Refused(w) PROVE MailboxOK'
  <2>1. id \in Mail!Ids /\ Mail!Alive(id)
    BY <1>2, <1>3, <1>6, OfJob DEF Mail!CopyEmail
  <2>2. PICK item : item = [items[id] EXCEPT !.at = f]
    OBVIOUS
  <2>3. item \in Mail!Item /\ item.at = f
    BY <2>1, <2>2, LiveItem DEF Mail!Item
  <2>4. PICK n \in Repeats : Mail!Created(n, item, {})
    BY <1>3, <1>6, <2>2 DEF Mail!CopyEmail
  <2>5. Mail!LiveFolder(f) /\ UNCHANGED <<parent, asked, untrashed>>
    BY <1>6 DEF Mail!CopyEmail
  <2>6. /\ n \in Nat /\ Mail!LiveFolder(item.at) /\ {} \in SUBSET Mail!Ids
        /\ \A x \in {} : Mail!Alive(x) /\ n > 0 /\ item.msg = items[x].msg
    BY <2>3, <2>5 DEF MailInv, Mail!ConstantsOK
  <2> QED BY <2>3, <2>4, <2>5, <2>6, CreatedKeeps
<1> QED BY <1>1, <1>2, <1>4, <1>5, <1>6

(* add_attachment, delete_attachment and attach_email_to_draft.             *)
LEMMA FilesToolsKeep ==
  ASSUME MailInv, NEW w \in Callers, Mail!AddAttachment(w) \/ Mail!DeleteAttachment(w) \/ Mail!AttachEmailToDraft(w)
  PROVE  MailboxOK' /\ CallsOK'
<1>1. CASE Mail!Refused(w)
  BY <1>1, RefusedKeeps
<1>2. CASE ~Mail!Refused(w)
  <2>1. PICK id : id = job[w].id
    OBVIOUS
  <2>2. ~Mail!Rests(w)
    BY DEF Mail!AddAttachment, Mail!DeleteAttachment, Mail!AttachEmailToDraft, Mail!At
  <2>3. Mail!Alive(id) /\ id \in Mail!Ids /\ job[w].extra \in SUBSET Mail!Attachment
    BY <1>2, <2>1, <2>2, OfJob DEF Mail!AddAttachment, Mail!DeleteAttachment, Mail!AttachEmailToDraft
  <2>4. items[id].files \in SUBSET Mail!Attachment
    BY <2>3, LiveItem DEF Mail!Item
  <2>5. \E A \in SUBSET Mail!Attachment : Mail!SetFiles(w, A)
    BY <1>2, <2>1, <2>3, <2>4 DEF Mail!AddAttachment, Mail!DeleteAttachment, Mail!AttachEmailToDraft
  <2>6. PICK A \in SUBSET Mail!Attachment : Mail!SetFiles(w, A)
    BY <2>5
  <2>7. items' = [items EXCEPT ![id].files = A] /\ UNCHANGED <<parent, nextId, known, asked, untrashed>>
    BY <2>1, <2>6 DEF Mail!SetFiles
  <2>8. MailboxOK'
    BY <2>3, <2>7, FilesKeep
  <2>9. CallsOK'
    BY <2>6, FreeKeeps DEF Mail!SetFiles
  <2> QED BY <2>8, <2>9
<1> QED BY <1>1, <1>2

(* manage_folder.                                                           *)
LEMMA ManageKeeps ==
  ASSUME MailInv, NEW f \in Custom,
         \/ \E p \in Mail!Folder : Mail!CreateFolder(f, p) \/ Mail!MoveFolder(f, p)
         \/ \E permanent \in BOOLEAN : Mail!DeleteFolder(f, permanent)
  PROVE  MailboxOK' /\ CallsOK'
<1>1. calls < MaxCalls /\ calls' = calls + 1 /\ UNCHANGED <<job, outlook, made>>
  BY DEF Mail!CreateFolder, Mail!MoveFolder, Mail!DeleteFolder, Mail!Manage
<1>2. calls' \in 0..MaxCalls
  BY <1>1 DEF MailInv, CallsOK, Mail!ConstantsOK
<1> QED BY <1>1, <1>2, FoldersKeep DEF MailInv, CallsOK, Mail!AllOrNothing

(* Another client moves, strips or destroys an item.                        *)
LEMMA OutlookKeeps ==
  ASSUME MailInv, NEW id \in Mail!Ids,
         \/ \E f \in Mail!Folder : Mail!OutlookMoves(id, f)
         \/ \E a \in Mail!Attachment : Mail!OutlookDetaches(id, a)
         \/ Mail!OutlookDestroys(id)
  PROVE  MailboxOK' /\ CallsOK'
<1>1. outlook < MaxOutlook /\ outlook' = outlook + 1 /\ UNCHANGED <<job, calls, made>>
  BY DEF Mail!OutlookMoves, Mail!OutlookDetaches, Mail!OutlookDestroys, Mail!Outlook
<1>2. outlook' \in 0..MaxOutlook
  BY <1>1 DEF MailInv, CallsOK, Mail!ConstantsOK
<1>3. CallsOK'
  BY <1>1, <1>2 DEF MailInv, CallsOK, Mail!AllOrNothing
<1>4. ASSUME NEW f \in Mail!Folder, Mail!OutlookMoves(id, f) PROVE MailboxOK'
  BY <1>4, MovedKeeps DEF Mail!OutlookMoves, Mail!Outlook
<1>5. ASSUME NEW a \in Mail!Attachment, Mail!OutlookDetaches(id, a) PROVE MailboxOK'
  <2>1. PICK A : A = items[id].files \ {a}
    OBVIOUS
  <2>2. Mail!Alive(id) /\ UNCHANGED <<parent, nextId, known, asked, untrashed>> /\ items' = [items EXCEPT ![id].files = A]
    BY <1>5, <2>1 DEF Mail!OutlookDetaches, Mail!Outlook
  <2>3. A \in SUBSET Mail!Attachment
    BY <2>1, <2>2, LiveItem DEF Mail!Item
  <2> QED BY <2>2, <2>3, FilesKeep
<1>6. CASE Mail!OutlookDestroys(id)
  BY <1>3, <1>6, DestroyedKeeps DEF Mail!OutlookDestroys, Mail!Outlook
<1> QED BY <1>3, <1>4, <1>5, <1>6

(* Every step of the mail tools keeps the invariant.                        *)
LEMMA MailNext == MailInv /\ [Mail!Next]_(Mail!vars) => MailInv'
<1> SUFFICES ASSUME MailInv, [Mail!Next]_(Mail!vars) PROVE MailboxOK' /\ CallsOK'
  BY DEF MailInv
<1>1. CASE UNCHANGED Mail!vars
  BY <1>1 DEF Mail!vars, Mail!mailbox, MailInv, MailboxOK, CallsOK, Mail!Recoverable, Mail!AllOrNothing, Mail!Held, Mail!Alive, Mail!LiveFolder
<1>2. ASSUME NEW w \in Callers, NEW tool \in Mail!Tools, NEW id \in Mail!Ids, Mail!Look(w, tool, id)
      PROVE  MailboxOK' /\ CallsOK'
  BY <1>2, LookKeeps
<1>3. ASSUME NEW w \in Callers, NEW a \in Mail!Attachment, Mail!Fetch(w, a) PROVE MailboxOK' /\ CallsOK'
  BY <1>3, FetchKeeps
<1>4. ASSUME NEW w \in Callers,
             Mail!ReplyEmail(w) \/ Mail!ForwardEmail(w) \/ Mail!CreateReplyDraft(w) \/ Mail!CreateForwardDraft(w)
      PROVE  MailboxOK' /\ CallsOK'
  <2>1. /\ ~Mail!Rests(w) /\ job[w].tool \in Mail!Derived /\ Mail!Complete(w)
        /\ Mail!Issue(w, "sent") \/ Mail!Issue(w, "drafts")
    BY <1>4 DEF Mail!ReplyEmail, Mail!ForwardEmail, Mail!CreateReplyDraft, Mail!CreateForwardDraft, Mail!At, Mail!Derived
  <2>2. {"sent", "drafts"} \subseteq Mail!Standard
    BY DEF Mail!Standard
  <2> QED BY <2>1, <2>2, IssueKeeps
<1>5. ASSUME NEW w \in Callers, Mail!AddAttachment(w) \/ Mail!DeleteAttachment(w) \/ Mail!AttachEmailToDraft(w)
      PROVE  MailboxOK' /\ CallsOK'
  BY <1>5, FilesToolsKeep
<1>6. ASSUME NEW w \in Callers,
             \/ \E permanent \in BOOLEAN : Mail!DeleteEmail(w, permanent)
             \/ \E f \in Mail!Folder : Mail!MoveEmail(w, f) \/ Mail!CopyEmail(w, f)
      PROVE  MailboxOK' /\ CallsOK'
  BY <1>6, OnItemKeeps
<1>7. ASSUME NEW w \in Callers, Mail!Crash(w) PROVE MailboxOK' /\ CallsOK'
  BY <1>7, RefusedKeeps DEF Mail!Crash
<1>8. ASSUME NEW m \in Msgs, Mail!SendEmail(m) \/ Mail!CreateDraft(m) \/ \E A \in Mail!Given : Mail!Receive(m, A)
      PROVE  MailboxOK' /\ CallsOK'
  BY <1>8, CreateKeeps
<1>9. ASSUME NEW f \in Custom,
             \/ \E p \in Mail!Folder : Mail!CreateFolder(f, p) \/ Mail!MoveFolder(f, p)
             \/ \E permanent \in BOOLEAN : Mail!DeleteFolder(f, permanent)
      PROVE  MailboxOK' /\ CallsOK'
  BY <1>9, ManageKeeps
<1>10. ASSUME NEW id \in Mail!Ids,
             \/ \E f \in Mail!Folder : Mail!OutlookMoves(id, f)
             \/ \E a \in Mail!Attachment : Mail!OutlookDetaches(id, a)
             \/ Mail!OutlookDestroys(id)
      PROVE  MailboxOK' /\ CallsOK'
  BY <1>10, OutlookKeeps
<1> QED BY <1>1, <1>2, <1>3, <1>4, <1>5, <1>6, <1>7, <1>8, <1>9, <1>10 DEF Mail!Next

-----------------------------------------------------------------------------
(* ItemTools: what every field holds, and what the update under way will    *)
(* write of what it has read                                                *)

FieldsOK ==
  /\ DOMAIN intent = Item!Live
  /\ \A id \in Item!Live :
       /\ "kind" \in DOMAIN items[id] /\ items[id].kind \in Item!Kinds
       /\ items[id].kind = "oof" => "window" \in DOMAIN items[id]
       /\ DOMAIN items[id] \subseteq DOMAIN intent[id]
       /\ \A f \in DOMAIN items[id] :
            items[id][f] = intent[id][f] \/ <<id, f>> \in raced \/ Item!DroppedWindow(id, f)

UpdateOK(c) ==
  /\ "tool" \in DOMAIN c
  /\ c.tool = "update" /\ c.id \in Item!Live =>
       /\ "kind" \in DOMAIN c.seen /\ c.seen.kind = items[c.id].kind
       /\ "kind" \notin DOMAIN c.args
       /\ DOMAIN c.seen \subseteq DOMAIN intent[c.id]
       /\ \A f \in DOMAIN c.seen \ DOMAIN Item!Sets(c) :
            c.seen[f] = intent[c.id][f] \/ <<c.id, f>> \in raced

UpdatesOK == call # NoCall => UpdateOK(call)
FieldsInv == FieldsOK /\ UpdatesOK

(* What a record is once some of its fields are set.                        *)
LEMMA MergedFields ==
  ASSUME NEW now, NEW args
  PROVE  /\ DOMAIN Item!Merged(now, args) = DOMAIN args \union DOMAIN now
         /\ \A x \in DOMAIN args : Item!Merged(now, args)[x] = args[x]
         /\ \A x \in DOMAIN now \ DOMAIN args : Item!Merged(now, args)[x] = now[x]
BY DEF Item!Merged

(* What a call sets: what it was asked to, and no window of the settings.   *)
LEMMA SetsFields ==
  ASSUME NEW c
  PROVE  /\ DOMAIN Item!Sets(c) = DOMAIN c.args \union IF c.seen.kind = "oof" THEN {"window"} ELSE {}
         /\ \A f \in DOMAIN c.args : Item!Sets(c)[f] = c.args[f]
         /\ \A f \in DOMAIN Item!Sets(c) \ DOMAIN c.args :
              c.seen.kind = "oof" /\ f = "window" /\ Item!Sets(c)[f] = << >>
<1> DEFINE window == [window |-> Item!Window(c.args)]
<1>1. /\ DOMAIN window = {"window"} /\ window["window"] = Item!Window(c.args)
      /\ "window" \in DOMAIN c.args => Item!Window(c.args) = c.args["window"]
      /\ "window" \notin DOMAIN c.args => Item!Window(c.args) = << >>
  BY DEF Item!Window
<1> HIDE DEF window
<1>2. /\ DOMAIN Item!Merged(c.args, window) = DOMAIN window \union DOMAIN c.args
      /\ \A x \in DOMAIN window : Item!Merged(c.args, window)[x] = window[x]
      /\ \A x \in DOMAIN c.args \ DOMAIN window : Item!Merged(c.args, window)[x] = c.args[x]
  BY MergedFields
<1>3. CASE c.seen.kind = "oof"
  <2>1. Item!Sets(c) = Item!Merged(c.args, window)
    BY <1>3 DEF Item!Sets, window
  <2> QED BY <1>1, <1>2, <1>3, <2>1
<1>4. CASE c.seen.kind # "oof"
  BY <1>4 DEF Item!Sets
<1> QED BY <1>3, <1>4

(* The mailbox of the start: every field is as it was meant.                *)
LEMMA FieldsInit == Item!ConstantsOK /\ Item!Init => FieldsInv
<1> SUFFICES ASSUME Item!ConstantsOK, Item!Init PROVE FieldsInv
  OBVIOUS
<1>1. Item!Live = {1} /\ items[1] \in Originals
  BY DEF Item!Init, Item!Live
<1>2. FieldsOK
  BY <1>1 DEF Item!Init, FieldsOK, Item!ConstantsOK, Item!Live
<1> QED BY <1>2 DEF FieldsInv, UpdatesOK, Item!Init

(* An item is written: what was asked for is set, and of the rest every     *)
(* field is as intended, or was raced, or is the window that went (Put).    *)
LEMMA PutKeeps ==
  ASSUME FieldsInv, NEW id \in Item!Live, NEW new, NEW set, Item!Put(id, new, set),
         "kind" \in DOMAIN new, new.kind \in Item!Kinds, new.kind = "oof" => "window" \in DOMAIN new,
         DOMAIN new \subseteq DOMAIN set \union DOMAIN intent[id],
         \A f \in DOMAIN new :
           IF f \in DOMAIN set THEN new[f] = set[f]
           ELSE \/ new[f] = intent[id][f] \/ <<id, f>> \in raced
                \/ new.kind = "oof" /\ f = "window" /\ new[f] = << >>
  PROVE  FieldsOK'
<1>1. /\ items' = [items EXCEPT ![id] = new] /\ Item!Live' = Item!Live
      /\ intent' = [intent EXCEPT ![id] = Item!Merged(intent[id], set)]
      /\ DOMAIN intent' = Item!Live
  BY DEF Item!Put, Item!Live, FieldsInv, FieldsOK
<1>2. /\ items'[id] = new /\ intent'[id] = Item!Merged(intent[id], set)
      /\ \A x \in Item!Live : x # id => items'[x] = items[x] /\ intent'[x] = intent[x]
  BY <1>1 DEF Item!Live, FieldsInv, FieldsOK
<1>3. \A x \in Item!Live : \A f : <<x, f>> \in raced /\ (x # id \/ f \notin DOMAIN set) => <<x, f>> \in raced'
  BY DEF Item!Put
<1>4. ASSUME NEW x \in Item!Live
      PROVE  /\ "kind" \in DOMAIN items'[x] /\ items'[x].kind \in Item!Kinds
             /\ items'[x].kind = "oof" => "window" \in DOMAIN items'[x]
             /\ DOMAIN items'[x] \subseteq DOMAIN intent'[x]
             /\ \A f \in DOMAIN items'[x] :
                  items'[x][f] = intent'[x][f] \/ <<x, f>> \in raced' \/ Item!DroppedWindow(x, f)'
  <2>1. CASE x # id
    BY <1>2, <1>3, <2>1 DEF FieldsInv, FieldsOK, Item!DroppedWindow
  <2>2. CASE x = id
    <3>1. /\ DOMAIN Item!Merged(intent[id], set) = DOMAIN set \union DOMAIN intent[id]
          /\ \A f \in DOMAIN set : Item!Merged(intent[id], set)[f] = set[f]
          /\ \A f \in DOMAIN intent[id] \ DOMAIN set : Item!Merged(intent[id], set)[f] = intent[id][f]
      BY MergedFields
    <3>2. ASSUME NEW f \in DOMAIN new
          PROVE  new[f] = intent'[id][f] \/ <<id, f>> \in raced' \/ Item!DroppedWindow(id, f)'
      <4>1. CASE f \in DOMAIN set
        BY <1>2, <3>1, <4>1
      <4>2. CASE f \notin DOMAIN set
        <5>1. CASE new[f] = intent[id][f] \/ <<id, f>> \in raced
          BY <1>2, <1>3, <3>1, <4>2, <5>1
        <5>2. CASE new.kind = "oof" /\ f = "window" /\ new[f] = << >>
          BY <1>2, <5>2 DEF Item!DroppedWindow
        <5> QED BY <4>2, <5>1, <5>2
      <4> QED BY <4>1, <4>2
    <3> QED BY <1>2, <2>2, <3>1, <3>2
  <2> QED BY <2>1, <2>2
<1> QED BY <1>1, <1>4 DEF FieldsOK

(* An item goes, and takes along what is known of it.                       *)
LEMMA VanishKeeps ==
  ASSUME FieldsInv, NEW id, Item!Vanish(id)
  PROVE  /\ FieldsOK'
         /\ \A c : UpdateOK(c) => UpdateOK(c)'
<1>1. /\ Item!Live' = Item!Live \ {id} /\ DOMAIN intent' = Item!Live \ {id}
      /\ \A x \in Item!Live \ {id} : items'[x] = items[x] /\ intent'[x] = intent[x]
  BY DEF Item!Vanish, Item!Restrict, Item!Live
<1>2. \A x, f : <<x, f>> \in raced /\ x # id => <<x, f>> \in raced'
  BY DEF Item!Vanish
<1>3. FieldsOK'
  BY <1>1, <1>2 DEF FieldsOK, FieldsInv, Item!DroppedWindow
<1>4. ASSUME NEW c, UpdateOK(c) PROVE UpdateOK(c)'
  BY <1>1, <1>2, <1>4 DEF UpdateOK
<1> QED BY <1>3, <1>4

(* Nothing at Exchange changes.                                             *)
LEMMA MailboxKeeps ==
  ASSUME FieldsInv, UNCHANGED <<items, intent, raced>>, call' = NoCall \/ UpdateOK(call')
  PROVE  FieldsInv'
<1>1. FieldsOK'
  BY DEF FieldsInv, FieldsOK, Item!Live, Item!DroppedWindow
<1>2. UpdatesOK'
  BY DEF UpdatesOK, UpdateOK, Item!Live
<1> QED BY <1>1, <1>2 DEF FieldsInv

(* A tool reads an item: what it saw is what was intended, at first.        *)
LEMMA ReadKeeps ==
  ASSUME Item!ConstantsOK, FieldsInv, NEW tool, NEW kind \in Item!Kinds, NEW id, NEW args,
         tool = "update" => "kind" \notin DOMAIN args,
         Item!Fetch(tool, kind, id, args)
  PROVE  FieldsInv'
<1>1. /\ call' = [tool |-> tool, id |-> id, seen |-> items[id], args |-> args]
      /\ UNCHANGED <<items, intent, raced>>
      /\ id \in Item!Live
  BY DEF Item!Fetch, Item!Begin, Item!Mailbox, Item!Is
<1>2. UpdateOK(call')
  <2>1. /\ call'.tool = tool /\ call'.id = id /\ call'.seen = items[id] /\ call'.args = args
        /\ "tool" \in DOMAIN call'
    BY <1>1
  <2>2. items[id].kind = "oof" => "window" \in DOMAIN Item!Sets(call')
    BY <2>1, SetsFields
  <2> QED BY <1>1, <2>1, <2>2 DEF UpdateOK, FieldsInv, FieldsOK, Item!DroppedWindow
<1> QED BY <1>1, <1>2, MailboxKeeps

(* Nobody sets of which kind an item is.                                    *)
LEMMA ArgsOK ==
  ASSUME Item!ConstantsOK, NEW kind \in Item!Kinds, NEW args \in Edits[kind] \union Touches[kind]
  PROVE  "kind" \notin DOMAIN args
BY DEF Item!ConstantsOK

(* The tools that begin by reading an item.                                 *)
LEMMA BeginsKeep ==
  ASSUME Item!ConstantsOK, FieldsInv,
         \/ Item!UpdateEmail \/ Item!UpdateTask \/ Item!CompleteTask \/ Item!UpdateContact \/ Item!UpdateAppointment
         \/ Item!SetSettings \/ Item!DeleteTask \/ Item!DeleteContact \/ Item!DeleteAppointment \/ Item!RespondToMeeting
  PROVE  FieldsInv'
<1>1. CASE Item!UpdateEmail \/ Item!UpdateTask \/ Item!UpdateContact \/ Item!UpdateAppointment
  <2>1. PICK kind \in Item!Kinds, id \in Item!Ids : \E args \in Edits[kind] : Item!Fetch("update", kind, id, args)
    BY <1>1 DEF Item!UpdateEmail, Item!UpdateTask, Item!UpdateContact, Item!UpdateAppointment, Item!Kinds
  <2> QED BY <2>1, ArgsOK, ReadKeeps
<1>2. CASE Item!CompleteTask
  <2>1. "kind" \notin DOMAIN Item!Completion /\ "task" \in Item!Kinds
    BY DEF Item!Completion, Item!Kinds
  <2> QED BY <1>2, <2>1, ReadKeeps DEF Item!CompleteTask
<1>3. CASE Item!SetSettings
  <2>1. PICK id \in Item!Ids, args \in Edits["oof"] : Item!Fetch("update", "oof", id, args)
    BY <1>3 DEF Item!SetSettings
  <2>2. "oof" \in Item!Kinds
    BY DEF Item!Kinds
  <2> QED BY <2>1, <2>2, ArgsOK, ReadKeeps
<1>4. CASE Item!DeleteTask \/ Item!DeleteContact \/ Item!DeleteAppointment \/ Item!RespondToMeeting
  <2>1. PICK tool \in {"delete", "respond"}, kind \in Item!Kinds :
          \E id \in Item!Ids : \E args : Item!Fetch(tool, kind, id, args)
    BY <1>4 DEF Item!DeleteTask, Item!DeleteContact, Item!DeleteAppointment, Item!RespondToMeeting, Item!Kinds
  <2> QED BY <2>1, ReadKeeps
<1> QED BY <1>1, <1>2, <1>3, <1>4

(* save(): the whole item, as it was read, and what the call sets.          *)
LEMMA SaveKeeps ==
  ASSUME FieldsInv, Item!Save
  PROVE  FieldsInv'
<1>1. /\ UpdateOK(call) /\ call.tool = "update" /\ call.id \in Item!Live
      /\ Item!Put(call.id, Item!Merged(call.seen, Item!Sets(call)), call.args) /\ call' = NoCall
  BY DEF Item!Save, Item!End, FieldsInv, UpdatesOK, Item!Overwritten
<1> DEFINE set == Item!Sets(call)
           new == Item!Merged(call.seen, set)
<1>2. /\ DOMAIN new = DOMAIN set \union DOMAIN call.seen
      /\ \A x \in DOMAIN set : new[x] = set[x]
      /\ \A x \in DOMAIN call.seen \ DOMAIN set : new[x] = call.seen[x]
  BY MergedFields
<1>3. /\ DOMAIN set = DOMAIN call.args \union IF call.seen.kind = "oof" THEN {"window"} ELSE {}
      /\ \A f \in DOMAIN call.args : set[f] = call.args[f]
      /\ \A f \in DOMAIN set \ DOMAIN call.args : call.seen.kind = "oof" /\ f = "window" /\ set[f] = << >>
  BY SetsFields
<1> HIDE DEF new, set
<1>4. /\ "kind" \in DOMAIN call.seen /\ call.seen.kind = items[call.id].kind /\ "kind" \notin DOMAIN call.args
      /\ DOMAIN call.seen \subseteq DOMAIN intent[call.id]
      /\ \A f \in DOMAIN call.seen \ DOMAIN set :
           call.seen[f] = intent[call.id][f] \/ <<call.id, f>> \in raced
  BY <1>1 DEF UpdateOK, set
<1>5. /\ items[call.id].kind \in Item!Kinds
      /\ items[call.id].kind = "oof" => "window" \in DOMAIN intent[call.id]
  BY <1>1 DEF FieldsInv, FieldsOK
<1>6. /\ new.kind = items[call.id].kind /\ new.kind \in Item!Kinds /\ "kind" \in DOMAIN new
      /\ new.kind = "oof" => "window" \in DOMAIN new
  BY <1>2, <1>3, <1>4, <1>5
<1>7. DOMAIN new \subseteq DOMAIN call.args \union DOMAIN intent[call.id]
  BY <1>2, <1>3, <1>4, <1>5
<1>8. ASSUME NEW f \in DOMAIN new
      PROVE  IF f \in DOMAIN call.args THEN new[f] = call.args[f]
             ELSE \/ new[f] = intent[call.id][f] \/ <<call.id, f>> \in raced
                  \/ new.kind = "oof" /\ f = "window" /\ new[f] = << >>
  <2>1. CASE f \in DOMAIN call.args
    BY <1>2, <1>3, <2>1
  <2>2. CASE f \in DOMAIN set \ DOMAIN call.args
    BY <1>2, <1>3, <1>4, <1>6, <2>2
  <2>3. CASE f \notin DOMAIN set
    BY <1>2, <1>3, <1>4, <2>3
  <2> QED BY <2>1, <2>2, <2>3
<1>9. Item!Put(call.id, new, call.args) /\ call.id \in Item!Live
  BY <1>1 DEF new, set
<1>10. FieldsOK'
  BY <1>6, <1>7, <1>8, <1>9, PutKeeps
<1> QED BY <1>1, <1>10 DEF FieldsInv, UpdatesOK

(* The steps that end a call: those that delete an item, and those that     *)
(* change none.                                                             *)
LEMMA DoneKeeps ==
  ASSUME FieldsInv,
         Item!Fail \/ Item!Delete \/ Item!Respond \/ Item!EvaluateDone \/ Item!ApplyPolicyDone
  PROVE  FieldsInv'
<1>1. call' = NoCall
  BY DEF Item!Fail, Item!Delete, Item!Respond, Item!EvaluateDone, Item!ApplyPolicyDone, Item!End
<1>2. UNCHANGED <<items, intent, raced>> \/ \E id : Item!Vanish(id)
  BY DEF Item!Fail, Item!Delete, Item!Respond, Item!EvaluateDone, Item!ApplyPolicyDone, Item!Mailbox
<1>3. FieldsOK'
  BY <1>2, VanishKeeps DEF FieldsInv, FieldsOK, Item!Live, Item!DroppedWindow
<1> QED BY <1>1, <1>3 DEF FieldsInv, UpdatesOK

(* create_task, create_contact, create_appointment.                         *)
LEMMA NewKeeps ==
  ASSUME Item!ConstantsOK, FieldsInv, NEW kind \in {"task", "contact", "appointment"}, Item!Create(kind)
  PROVE  FieldsInv'
<1>1. PICK id \in Item!Ids \ Item!Live, args \in News[kind] :
        /\ items' = Item!Merged(items, [i \in {id} |-> Item!Merged(Item!Blank(kind), args)])
        /\ intent' = Item!Merged(intent, [i \in {id} |-> Item!Merged(Item!Blank(kind), args)])
        /\ call = NoCall /\ UNCHANGED <<call, raced>>
  BY DEF Item!Create
<1> DEFINE new == Item!Merged(Item!Blank(kind), args)
<1>2. "kind" \in DOMAIN new /\ new.kind \in Item!Kinds /\ new.kind # "oof"
  <2>1. "kind" \in DOMAIN Item!Blank(kind) /\ Item!Blank(kind).kind = kind
    BY DEF Item!Blank
  <2>2. "kind" \notin DOMAIN args
    BY DEF Item!ConstantsOK
  <2>3. /\ DOMAIN new = DOMAIN args \union DOMAIN Item!Blank(kind)
        /\ \A x \in DOMAIN Item!Blank(kind) \ DOMAIN args : new[x] = Item!Blank(kind)[x]
    BY MergedFields
  <2> HIDE DEF new
  <2> QED BY <2>1, <2>2, <2>3 DEF Item!Kinds
<1> HIDE DEF new
<1>3. /\ Item!Live' = Item!Live \union {id} /\ items'[id] = new
      /\ \A x \in Item!Live : items'[x] = items[x]
  <2> DEFINE one == [i \in {id} |-> new]
  <2>1. DOMAIN one = {id} /\ one[id] = new
    OBVIOUS
  <2>2. items' = Item!Merged(items, one)
    BY <1>1 DEF new
  <2> HIDE DEF one
  <2>3. /\ DOMAIN Item!Merged(items, one) = DOMAIN one \union DOMAIN items
        /\ \A x \in DOMAIN one : Item!Merged(items, one)[x] = one[x]
        /\ \A x \in DOMAIN items \ DOMAIN one : Item!Merged(items, one)[x] = items[x]
    BY MergedFields
  <2> QED BY <2>1, <2>2, <2>3 DEF Item!Live
<1>4. /\ DOMAIN intent' = DOMAIN intent \union {id} /\ intent'[id] = new
      /\ \A x \in DOMAIN intent \ {id} : intent'[x] = intent[x]
  <2> DEFINE one == [i \in {id} |-> new]
  <2>1. DOMAIN one = {id} /\ one[id] = new
    OBVIOUS
  <2>2. intent' = Item!Merged(intent, one)
    BY <1>1 DEF new
  <2> HIDE DEF one
  <2>3. /\ DOMAIN Item!Merged(intent, one) = DOMAIN one \union DOMAIN intent
        /\ \A x \in DOMAIN one : Item!Merged(intent, one)[x] = one[x]
        /\ \A x \in DOMAIN intent \ DOMAIN one : Item!Merged(intent, one)[x] = intent[x]
    BY MergedFields
  <2> QED BY <2>1, <2>2, <2>3
<1>5. FieldsOK'
  BY <1>1, <1>2, <1>3, <1>4 DEF FieldsInv, FieldsOK, Item!DroppedWindow
<1> QED BY <1>1, <1>5 DEF FieldsInv, UpdatesOK

(* An action of a rule saves the fields it names, and only those            *)
(* (_apply_actions).                                                        *)
LEMMA ActionKeeps ==
  ASSUME FieldsInv, Item!ApplyAction
  PROVE  FieldsInv'
<1>1. /\ call.tool = "evaluate" /\ "tool" \in DOMAIN call
      /\ call' = [call EXCEPT !.actions = Tail(@),
                              !.seen = Item!InMemory(Head(call.actions), @)]
  BY DEF Item!ApplyAction, Item!Act, Item!Evaluating, FieldsInv, UpdatesOK, UpdateOK
<1>2. "tool" \in DOMAIN call' /\ call'.tool = "evaluate"
  BY <1>1
<1>3. ASSUME NEW set, call.id \in Item!Live, "kind" \notin DOMAIN set,
             Item!Put(call.id, Item!Merged(items[call.id], set), set)
      PROVE  FieldsOK'
  <2> DEFINE new == Item!Merged(items[call.id], set)
  <2>1. /\ DOMAIN new = DOMAIN set \union DOMAIN items[call.id]
        /\ \A x \in DOMAIN set : new[x] = set[x]
        /\ \A x \in DOMAIN items[call.id] \ DOMAIN set : new[x] = items[call.id][x]
    BY MergedFields
  <2> HIDE DEF new
  <2>2. /\ "kind" \in DOMAIN new /\ new.kind \in Item!Kinds /\ (new.kind = "oof" => "window" \in DOMAIN new)
        /\ DOMAIN new \subseteq DOMAIN set \union DOMAIN intent[call.id]
        /\ \A f \in DOMAIN new :
             IF f \in DOMAIN set THEN new[f] = set[f]
             ELSE \/ new[f] = intent[call.id][f] \/ <<call.id, f>> \in raced
                  \/ new.kind = "oof" /\ f = "window" /\ new[f] = << >>
    BY <1>3, <2>1 DEF FieldsInv, FieldsOK, Item!DroppedWindow
  <2> QED BY <1>3, <2>2, PutKeeps DEF new
<1>4. FieldsOK'
  <2>1. "kind" \notin DOMAIN Item!Written(Head(call.actions), Item!InMemory(Head(call.actions), call.seen))
    BY DEF Item!Written, Item!Saved
  <2>2. "kind" \notin DOMAIN [folder |-> Head(call.actions).destination]
    OBVIOUS
  <2>3. UNCHANGED <<items, intent, raced>> => FieldsOK'
    BY DEF FieldsInv, FieldsOK, Item!Live, Item!DroppedWindow
  <2> QED BY <1>3, <2>1, <2>2, <2>3 DEF Item!ApplyAction, Item!Mailbox
<1> QED BY <1>2, <1>4 DEF FieldsInv, UpdatesOK, UpdateOK

(* The other steps of the two engines.                                      *)
LEMMA EnginesKeep ==
  ASSUME FieldsInv, Item!Evaluate \/ Item!NextRule \/ Item!ApplyPolicy \/ Item!ForwardDraft
  PROVE  FieldsInv'
<1>1. UNCHANGED <<items, intent, raced>>
  BY DEF Item!Evaluate, Item!NextRule, Item!ApplyPolicy, Item!ForwardDraft, Item!Mailbox
<1>2. CASE Item!Evaluate \/ Item!ApplyPolicy
  <2>1. "tool" \in DOMAIN call' /\ call'.tool # "update"
    BY <1>2 DEF Item!Evaluate, Item!ApplyPolicy, Item!Begin
  <2> QED BY <1>1, <2>1, MailboxKeeps DEF UpdateOK
<1>3. CASE Item!NextRule \/ Item!ForwardDraft
  <2>1. "tool" \in DOMAIN call /\ call.tool \in {"evaluate", "oof"}
    BY <1>3 DEF Item!NextRule, Item!ForwardDraft, Item!Evaluating, FieldsInv, UpdatesOK, UpdateOK
  <2>2. "tool" \in DOMAIN call' /\ call'.tool # "update"
    BY <1>3, <2>1 DEF Item!NextRule, Item!ForwardDraft
  <2> QED BY <1>1, <2>2, MailboxKeeps DEF UpdateOK
<1> QED BY <1>2, <1>3

(* What changes no item and no call.                                        *)
LEMMA StoresKeep ==
  ASSUME FieldsInv, Item!RuleCreate \/ Item!RuleDelete \/ Item!Simulate \/ Item!ConfigurePolicy \/ UNCHANGED Item!vars
  PROVE  FieldsInv'
<1>1. UNCHANGED <<items, intent, raced, call>>
  BY DEF Item!RuleCreate, Item!RuleDelete, Item!Simulate, Item!ConfigurePolicy, Item!vars, Item!Mailbox
<1> QED BY <1>1, MailboxKeeps DEF FieldsInv, UpdatesOK

(* Another client sets fields of an item, or removes it: what the update    *)
(* under way is about to take back is raced.                                *)
LEMMA OthersKeep ==
  ASSUME Item!ConstantsOK, FieldsInv, Item!OutlookEdits \/ Item!OutlookRemoves
  PROVE  FieldsInv'
<1>1. CASE Item!OutlookRemoves
  <2>1. call' = call /\ \E id : Item!Vanish(id)
    BY <1>1 DEF Item!OutlookRemoves
  <2>2. FieldsOK' /\ (UpdateOK(call) => UpdateOK(call)')
    BY <2>1, VanishKeeps
  <2> QED BY <2>1, <2>2 DEF FieldsInv, UpdatesOK
<1>2. CASE Item!OutlookEdits
  <2>1. PICK id \in Item!Live : \E e \in Touches[items[id].kind] :
          /\ items' = [items EXCEPT ![id] = Item!Merged(@, e)]
          /\ intent' = [intent EXCEPT ![id] = Item!Merged(@, e)]
          /\ raced' = IF call # NoCall /\ call.id = id
                      THEN raced \union {<<id, f>> : f \in DOMAIN e \cap Item!AtRisk(call)}
                      ELSE raced \ {<<id, f>> : f \in DOMAIN e}
          /\ call' = call
    BY <1>2 DEF Item!OutlookEdits
  <2>2. PICK e \in Touches[items[id].kind] :
          /\ items' = [items EXCEPT ![id] = Item!Merged(items[id], e)]
          /\ intent' = [intent EXCEPT ![id] = Item!Merged(intent[id], e)]
          /\ raced' = IF call # NoCall /\ call.id = id
                      THEN raced \union {<<id, f>> : f \in DOMAIN e \cap Item!AtRisk(call)}
                      ELSE raced \ {<<id, f>> : f \in DOMAIN e}
    BY <2>1
  <2>3. items[id].kind \in Item!Kinds /\ "kind" \notin DOMAIN e
    BY ArgsOK DEF FieldsInv, FieldsOK
  <2>4. /\ Item!Live' = Item!Live /\ DOMAIN intent' = Item!Live
        /\ items'[id] = Item!Merged(items[id], e) /\ intent'[id] = Item!Merged(intent[id], e)
        /\ \A x \in Item!Live : x # id => items'[x] = items[x] /\ intent'[x] = intent[x]
    BY <2>2 DEF Item!Live, FieldsInv, FieldsOK
  <2>5. /\ DOMAIN items'[id] = DOMAIN e \union DOMAIN items[id]
        /\ DOMAIN intent'[id] = DOMAIN e \union DOMAIN intent[id]
        /\ \A f \in DOMAIN e : items'[id][f] = e[f] /\ intent'[id][f] = e[f]
        /\ \A f \in DOMAIN items[id] \ DOMAIN e : items'[id][f] = items[id][f]
        /\ \A f \in DOMAIN intent[id] \ DOMAIN e : intent'[id][f] = intent[id][f]
    <3>1. /\ DOMAIN Item!Merged(items[id], e) = DOMAIN e \union DOMAIN items[id]
          /\ \A f \in DOMAIN e : Item!Merged(items[id], e)[f] = e[f]
          /\ \A f \in DOMAIN items[id] \ DOMAIN e : Item!Merged(items[id], e)[f] = items[id][f]
      BY MergedFields
    <3>2. /\ DOMAIN Item!Merged(intent[id], e) = DOMAIN e \union DOMAIN intent[id]
          /\ \A f \in DOMAIN e : Item!Merged(intent[id], e)[f] = e[f]
          /\ \A f \in DOMAIN intent[id] \ DOMAIN e : Item!Merged(intent[id], e)[f] = intent[id][f]
      BY MergedFields
    <3> QED BY <2>4, <3>1, <3>2
  <2>6. \A x, f : <<x, f>> \in raced /\ (x # id \/ f \notin DOMAIN e) => <<x, f>> \in raced'
    BY <2>2
  <2>7. FieldsOK'
    <3>1. ASSUME NEW x \in Item!Live
          PROVE  /\ "kind" \in DOMAIN items'[x] /\ items'[x].kind \in Item!Kinds
                 /\ items'[x].kind = "oof" => "window" \in DOMAIN items'[x]
                 /\ DOMAIN items'[x] \subseteq DOMAIN intent'[x]
                 /\ \A f \in DOMAIN items'[x] :
                      items'[x][f] = intent'[x][f] \/ <<x, f>> \in raced' \/ Item!DroppedWindow(x, f)'
      <4>1. CASE x = id
        BY <2>3, <2>5, <2>6, <4>1 DEF FieldsInv, FieldsOK, Item!DroppedWindow
      <4>2. CASE x # id
        BY <2>4, <2>6, <4>2 DEF FieldsInv, FieldsOK, Item!DroppedWindow
      <4> QED BY <4>1, <4>2
    <3> QED BY <2>4, <3>1 DEF FieldsOK
  <2>8. UpdatesOK'
    <3> SUFFICES ASSUME call # NoCall, call.tool = "update", call.id \in Item!Live
                 PROVE  UpdateOK(call)'
      BY <2>1, <2>4 DEF UpdatesOK, UpdateOK, FieldsInv
    <3>1. UpdateOK(call)
      BY DEF FieldsInv, UpdatesOK
    <3>2. CASE call.id # id
      BY <2>1, <2>4, <2>6, <3>1, <3>2 DEF UpdateOK
    <3>3. CASE call.id = id
      <4>1. \A f \in DOMAIN e \ DOMAIN Item!Sets(call) : <<id, f>> \in raced'
        <5>1. Item!AtRisk(call) = Item!Settable(items[id].kind) \ DOMAIN Item!Sets(call)
          BY <3>1, <3>3 DEF Item!AtRisk, UpdateOK
        <5>2. DOMAIN e \subseteq Item!Settable(items[id].kind)
          BY DEF Item!Settable
        <5> QED BY <2>2, <3>3, <5>1, <5>2
      <4>2. items'[id].kind = items[id].kind
        BY <2>3, <2>5 DEF FieldsInv, FieldsOK
      <4> QED BY <2>1, <2>4, <2>5, <2>6, <3>1, <3>3, <4>1, <4>2 DEF UpdateOK
    <3> QED BY <3>2, <3>3
  <2> QED BY <2>7, <2>8 DEF FieldsInv
<1> QED BY <1>1, <1>2

(* Every step of the tools that change items keeps the invariant.           *)
LEMMA FieldsNext == Item!ConstantsOK /\ FieldsInv /\ [Item!Next]_(Item!vars) => FieldsInv'
<1> SUFFICES ASSUME Item!ConstantsOK, FieldsInv, [Item!Next]_(Item!vars) PROVE FieldsInv'
  OBVIOUS
<1>1. CASE \/ Item!UpdateEmail \/ Item!UpdateTask \/ Item!CompleteTask \/ Item!UpdateContact \/ Item!UpdateAppointment
           \/ Item!SetSettings \/ Item!DeleteTask \/ Item!DeleteContact \/ Item!DeleteAppointment \/ Item!RespondToMeeting
  BY <1>1, BeginsKeep
<1>2. CASE Item!Save \/ Item!Fail \/ Item!Delete \/ Item!Respond \/ Item!EvaluateDone \/ Item!ApplyPolicyDone
  BY <1>2, SaveKeeps, DoneKeeps
<1>3. CASE Item!CreateTask \/ Item!CreateContact \/ Item!CreateAppointment
  BY <1>3, NewKeeps DEF Item!CreateTask, Item!CreateContact, Item!CreateAppointment
<1>4. CASE Item!ApplyAction \/ Item!Evaluate \/ Item!NextRule \/ Item!ApplyPolicy \/ Item!ForwardDraft
  BY <1>4, ActionKeeps, EnginesKeep
<1>5. CASE Item!RuleCreate \/ Item!RuleDelete \/ Item!Simulate \/ Item!ConfigurePolicy \/ UNCHANGED Item!vars
  BY <1>5, StoresKeep
<1>6. CASE Item!OutlookEdits \/ Item!OutlookRemoves
  BY <1>6, OthersKeep
<1> QED BY <1>1, <1>2, <1>3, <1>4, <1>5, <1>6 DEF Item!Next

-----------------------------------------------------------------------------
(* ItemTools: which rules an evaluation fires                               *)

Book == {r \in RuleBook : Item!ValidMatch(r.match)}

(* Where an evaluation is: it has done k rules, or it is in the k-th and    *)
(* has done j of its actions.                                               *)
Reached(rule, c, k) ==
  LET after == Item!Outcomes(rule, c.first)
      within == Item!Acted(rule[k].actions, after[k - 1].message)
  IN
  /\ c.todo = SubSeq(rule, k + 1, Len(rule))
  /\ c.fired = after[k].fired
  /\ \/ c.actions = << >> /\ c.seen = after[k].message
     \/ /\ k > 0 /\ after[k].message = within[Len(rule[k].actions)]
        /\ \E j \in 0..Len(rule[k].actions) :
             /\ c.actions = SubSeq(rule[k].actions, j + 1, Len(rule[k].actions))
             /\ c.seen = within[j]
EvaluationOK(rule, c) ==
  c.tool = "evaluate" =>
    /\ DOMAIN c = {"tool", "id", "first", "seen", "todo", "actions", "fired"}
    /\ \E k \in 0..Len(rule) : Reached(rule, c, k)

MailOK(item) == item.kind = "mail" => Item!MessageFields \subseteq DOMAIN item

RulesInv ==
  /\ rules \in Seq(Book)
  /\ \A id \in Item!Live : MailOK(items[id])
  /\ call # NoCall => /\ EvaluationOK(Item!Enabled(rules), call)
                      /\ call.tool = "update" => MailOK(call.seen)
  /\ Item!FiredAsRead

(* What is left of a list when one more is done                             *)
LEMMA OneMore ==
  ASSUME NEW X, NEW s \in Seq(X), NEW k \in 0..Len(s), SubSeq(s, k + 1, Len(s)) # << >>
  PROVE  /\ k + 1 \in 1..Len(s) /\ k + 1 \in 0..Len(s) /\ k + 1 > 0 /\ (k + 1) - 1 = k
         /\ s[k + 1] \in X
         /\ Head(SubSeq(s, k + 1, Len(s))) = s[k + 1]
         /\ Tail(SubSeq(s, k + 1, Len(s))) = SubSeq(s, (k + 1) + 1, Len(s))
<1>1. k < Len(s) /\ Len(s) \in Nat
  OBVIOUS
<1>2. /\ k + 1 \in 1..Len(s) /\ k + 1 \in 0..Len(s) /\ k + 1 > 0 /\ (k + 1) - 1 = k
      /\ Len(s) \in (k + 1)..Len(s)
  BY <1>1
<1>3. s[k + 1] \in X
  BY <1>2
<1> QED BY <1>2, <1>3, HeadTailOfSubSeq

(* and when none is                                                         *)
LEMMA NoneLeft ==
  ASSUME NEW X, NEW s \in Seq(X), NEW k \in 0..Len(s), SubSeq(s, k + 1, Len(s)) = << >>
  PROVE  k = Len(s)
OBVIOUS

(* The rules that are enabled are some of those that are stored.            *)
LEMMA PickedType ==
  ASSUME NEW X, NEW s \in Seq(X), NEW I
  PROVE  Item!Picked(s, I) \in Seq(X)
<1> DEFINE S == {i \in 0..Len(s) : Item!PickedUpTo(s, I)[i] \in Seq(X)}
<1>0. Len(s) \in Nat
  OBVIOUS
<1>1. 0 \in S
  <2>1. << >> \in Seq(X)
    OBVIOUS
  <2>2. Item!PickedUpTo(s, I)[0] = << >>
    BY <1>0, PickedEach
  <2>3. 0 \in 0..Len(s)
    BY <1>0
  <2> QED BY <2>1, <2>2, <2>3
<1>2. ASSUME NEW i \in 1..Len(s), i - 1 \in S PROVE i \in S
  <2>1. PICK before : before = Item!PickedUpTo(s, I)[i - 1] /\ before \in Seq(X)
    BY <1>2
  <2>2. Item!PickedUpTo(s, I)[i] = IF i \in I THEN Append(before, s[i]) ELSE before
    BY <1>0, <2>1, PickedEach
  <2>3. s[i] \in X
    OBVIOUS
  <2>4. Append(before, s[i]) \in Seq(X)
    BY <2>1, <2>3
  <2>5. i \in 0..Len(s)
    BY <1>0
  <2>6. Item!PickedUpTo(s, I)[i] \in Seq(X)
    BY <2>1, <2>2, <2>4
  <2> QED BY <2>5, <2>6
<1> HIDE DEF S
<1>3. \A i \in 0..Len(s) : i \in S
  BY <1>0, <1>1, <1>2, Induction
<1>4. Len(s) \in S
  BY <1>0, <1>3
<1> QED BY <1>4 DEF S, Item!Picked

(* A list of stored rules, such as those that are enabled                   *)
ListOK(rule) ==
  /\ rule \in Seq(Book)
  /\ \A r \in Book : r.actions \in Seq(Item!Range(r.actions))

LEMMA EnabledType ==
  ASSUME Item!ConstantsOK, rules \in Seq(Book)
  PROVE  ListOK(Item!Enabled(rules))
BY PickedType DEF Item!Enabled, Item!ConstantsOK, Book, ListOK

(* The outcome of one rule more                                             *)
LEMMA NextOutcome ==
  ASSUME NEW X, NEW rule \in Seq(X), NEW m, NEW k, k + 1 \in 1..Len(rule), (k + 1) - 1 = k
  PROVE  Item!Outcomes(rule, m)[k + 1] = Item!Fire(rule[k + 1], Item!Outcomes(rule, m)[k])
<1>1. Len(rule) \in Nat
  OBVIOUS
<1> QED BY <1>1, OutcomesEach

(* An evaluation begins.                                                    *)
LEMMA BegunEvaluation ==
  ASSUME NEW rule, ListOK(rule), NEW id, NEW m,
         NEW c, c = [tool |-> "evaluate", id |-> id, first |-> m, seen |-> m,
                     todo |-> rule, actions |-> << >>, fired |-> << >>]
  PROVE  EvaluationOK(rule, c)
<1>1. rule \in Seq(Book) /\ Len(rule) \in Nat /\ 0 \in 0..Len(rule)
  BY DEF ListOK
<1>2. SubSeq(rule, 0 + 1, Len(rule)) = rule
  BY <1>1, SubSeqFull
<1>3. Item!Outcomes(rule, m)[0] = [message |-> m, fired |-> << >>]
  BY <1>1, OutcomesEach
<1>4. Reached(rule, c, 0)
  BY <1>2, <1>3 DEF Reached
<1> QED BY <1>1, <1>4 DEF EvaluationOK

(* The message an evaluation has between two rules                          *)
LEMMA BetweenRules ==
  ASSUME NEW rule, ListOK(rule), NEW c, NEW k \in 0..Len(rule), Reached(rule, c, k), c.actions = << >>
  PROVE  c.seen = Item!Outcomes(rule, c.first)[k].message
<1> DEFINE after == Item!Outcomes(rule, c.first)
           within == Item!Acted(rule[k].actions, after[k - 1].message)
<1>1. CASE /\ k > 0 /\ after[k].message = within[Len(rule[k].actions)]
           /\ \E j \in 0..Len(rule[k].actions) :
                /\ c.actions = SubSeq(rule[k].actions, j + 1, Len(rule[k].actions))
                /\ c.seen = within[j]
  <2>1. PICK j \in 0..Len(rule[k].actions) :
          /\ c.actions = SubSeq(rule[k].actions, j + 1, Len(rule[k].actions))
          /\ c.seen = within[j]
    BY <1>1
  <2>2. rule[k] \in Book
    BY <1>1 DEF ListOK
  <2>3. j = Len(rule[k].actions)
    BY <2>1, <2>2, NoneLeft DEF ListOK
  <2> QED BY <1>1, <2>1, <2>3
<1>2. CASE c.seen = after[k].message
  BY <1>2
<1> QED BY <1>1, <1>2 DEF Reached

(* The loop goes on to the next rule.                                       *)
LEMMA NextRuleReached ==
  ASSUME NEW rule, ListOK(rule), NEW c, c.tool = "evaluate", EvaluationOK(rule, c),
         c.actions = << >>, c.todo # << >>, NEW r, r = Head(c.todo),
         NEW d, d = IF Item!Match(r.match, c.seen)
                    THEN [c EXCEPT !.todo = Tail(@), !.actions = r.actions, !.fired = Append(@, r.name)]
                    ELSE [c EXCEPT !.todo = Tail(@)]
  PROVE  EvaluationOK(rule, d)
<1> DEFINE after == Item!Outcomes(rule, c.first)
<1>1. /\ DOMAIN c = {"tool", "id", "first", "seen", "todo", "actions", "fired"}
      /\ rule \in Seq(Book) /\ Len(rule) \in Nat
  BY DEF EvaluationOK, ListOK
<1>2. PICK k \in 0..Len(rule) : Reached(rule, c, k)
  BY DEF EvaluationOK
<1>3. /\ c.todo = SubSeq(rule, k + 1, Len(rule)) /\ c.fired = after[k].fired
      /\ c.seen = after[k].message
  BY <1>2, BetweenRules DEF Reached
<1>4. /\ k + 1 \in 1..Len(rule) /\ k + 1 \in 0..Len(rule) /\ k + 1 > 0 /\ (k + 1) - 1 = k
      /\ rule[k + 1] \in Book /\ Head(c.todo) = rule[k + 1]
      /\ Tail(c.todo) = SubSeq(rule, (k + 1) + 1, Len(rule))
  <2>1. SubSeq(rule, k + 1, Len(rule)) # << >>
    BY <1>3
  <2>2. /\ k + 1 \in 1..Len(rule) /\ k + 1 \in 0..Len(rule) /\ k + 1 > 0 /\ (k + 1) - 1 = k
        /\ rule[k + 1] \in Book
        /\ Head(SubSeq(rule, k + 1, Len(rule))) = rule[k + 1]
        /\ Tail(SubSeq(rule, k + 1, Len(rule))) = SubSeq(rule, (k + 1) + 1, Len(rule))
    BY <1>1, <2>1, OneMore, Zenon
  <2> QED BY <1>3, <2>2
<1>5. r = rule[k + 1] /\ r \in Book
  BY <1>4
<1>6. after[k + 1] = Item!Fire(r, after[k])
  BY <1>1, <1>4, <1>5, NextOutcome
<1>7. CASE Item!Match(r.match, c.seen)
  <2>1. /\ d = [c EXCEPT !.todo = Tail(@), !.actions = r.actions, !.fired = Append(@, r.name)]
        /\ DOMAIN d = DOMAIN c /\ d.tool = "evaluate" /\ d.first = c.first /\ d.seen = c.seen
        /\ d.todo = Tail(c.todo) /\ d.actions = r.actions /\ d.fired = Append(c.fired, r.name)
    BY <1>1, <1>7
  <2>2. /\ after[k + 1].message = Item!Acted(r.actions, after[k].message)[Len(r.actions)]
        /\ after[k + 1].fired = Append(after[k].fired, r.name)
    <3>1. Item!Match(r.match, after[k].message)
      BY <1>3, <1>7
    <3>2. after[k + 1] = [message |-> Item!Acted(r.actions, after[k].message)[Len(r.actions)],
                          fired   |-> Append(after[k].fired, r.name)]
      BY <1>6, <3>1 DEF Item!Fire
    <3> HIDE DEF after
    <3> QED BY <3>2
  <2>3. r.actions \in Seq(Item!Range(r.actions)) /\ Len(r.actions) \in Nat /\ 0 \in 0..Len(r.actions)
    BY <1>5 DEF ListOK
  <2>4. /\ SubSeq(r.actions, 0 + 1, Len(r.actions)) = r.actions
        /\ Item!Acted(r.actions, after[k].message)[0] = after[k].message
    BY <2>3, SubSeqFull, ActedEach
  <2>5. Reached(rule, d, k + 1)
    BY <1>3, <1>4, <1>5, <2>1, <2>2, <2>3, <2>4 DEF Reached
  <2> QED BY <1>1, <1>4, <2>1, <2>5 DEF EvaluationOK
<1>8. CASE ~Item!Match(r.match, c.seen)
  <2>1. /\ DOMAIN d = DOMAIN c /\ d.tool = "evaluate" /\ d.first = c.first /\ d.seen = c.seen
        /\ d.todo = Tail(c.todo) /\ d.actions = << >> /\ d.fired = c.fired
    BY <1>1, <1>8
  <2>2. after[k + 1] = after[k]
    BY <1>3, <1>6, <1>8 DEF Item!Fire
  <2>3. Reached(rule, d, k + 1)
    BY <1>3, <1>4, <2>1, <2>2 DEF Reached
  <2> QED BY <1>1, <1>4, <2>1, <2>3 DEF EvaluationOK
<1> QED BY <1>7, <1>8

(* One action of the rule that fired                                        *)
LEMMA ActionReached ==
  ASSUME NEW rule, ListOK(rule), NEW c, c.tool = "evaluate", EvaluationOK(rule, c),
         c.actions # << >>,
         NEW d, d = [c EXCEPT !.actions = Tail(@), !.seen = Item!InMemory(Head(c.actions), @)]
  PROVE  EvaluationOK(rule, d)
<1>1. /\ DOMAIN c = {"tool", "id", "first", "seen", "todo", "actions", "fired"}
      /\ rule \in Seq(Book)
  BY DEF EvaluationOK, ListOK
<1>2. PICK k \in 0..Len(rule) : Reached(rule, c, k)
  BY DEF EvaluationOK
<1> DEFINE after == Item!Outcomes(rule, c.first)
           actions == rule[k].actions
           within == Item!Acted(actions, after[k - 1].message)
<1>3. PICK j \in 0..Len(actions) :
        /\ k > 0 /\ after[k].message = within[Len(actions)]
        /\ c.actions = SubSeq(actions, j + 1, Len(actions)) /\ c.seen = within[j]
  BY <1>2 DEF Reached
<1>4. actions \in Seq(Item!Range(actions)) /\ Len(actions) \in Nat
  BY <1>1, <1>3 DEF ListOK
<1>5. /\ DOMAIN d = DOMAIN c /\ d.tool = "evaluate" /\ d.first = c.first /\ d.fired = c.fired
      /\ d.todo = c.todo /\ d.actions = Tail(c.actions)
      /\ d.seen = Item!InMemory(Head(c.actions), c.seen)
  BY <1>1
<1> HIDE DEF actions
<1>6. /\ j + 1 \in 1..Len(actions) /\ Head(c.actions) = actions[j + 1]
      /\ Tail(c.actions) = SubSeq(actions, (j + 1) + 1, Len(actions))
  BY <1>3, <1>4, OneMore
<1>7. (j + 1) - 1 = j /\ j + 1 \in 0..Len(actions)
  BY <1>4, <1>6
<1>8. within[j + 1] = Item!InMemory(actions[j + 1], within[j])
  BY <1>4, <1>6, <1>7, ActedEach
<1>9. /\ d.actions = SubSeq(actions, (j + 1) + 1, Len(actions)) /\ d.seen = within[j + 1]
  BY <1>3, <1>5, <1>6, <1>8
<1>10. Reached(rule, d, k)
  BY <1>2, <1>3, <1>5, <1>7, <1>9 DEF Reached, actions
<1> QED BY <1>1, <1>5, <1>10 DEF EvaluationOK

(* The loop is over: the rules that fired are those of the outcome.         *)
LEMMA EvaluationEnds ==
  ASSUME NEW rule, ListOK(rule), NEW c, c.tool = "evaluate", EvaluationOK(rule, c), c.todo = << >>
  PROVE  c.fired = Item!Outcome(rule, c.first).fired
<1>1. PICK k \in 0..Len(rule) : Reached(rule, c, k)
  BY DEF EvaluationOK
<1>2. k = Len(rule)
  BY <1>1, NoneLeft DEF Reached, ListOK
<1> QED BY <1>1, <1>2 DEF Reached, Item!Outcome

(* An action that can be applied sets what it saves, and no other sets      *)
(* anything.                                                                *)
LEMMA InMemoryFrame ==
  ASSUME NEW m, NEW a
  PROVE  /\ DOMAIN Item!InMemory(a, m) = DOMAIN m
         /\ \A f \in DOMAIN m :
              ~(Item!Applicable(a) /\ f \in Item!Saved(a)) => Item!InMemory(a, m)[f] = m[f]
<1>1. CASE ~Item!Applicable(a)
  <2>1. Item!InMemory(a, m) = m
    BY <1>1 DEF Item!InMemory
  <2> QED BY <2>1
<1>2. CASE Item!Applicable(a) /\ a.type = "flag_importance"
  BY <1>2 DEF Item!InMemory, Item!Saved
<1>3. CASE Item!Applicable(a) /\ a.type = "categorize"
  BY <1>3 DEF Item!InMemory, Item!Saved
<1>4. CASE Item!Applicable(a) /\ a.type = "mark_read"
  BY <1>4 DEF Item!InMemory, Item!Saved
<1>5. CASE a.type \notin {"flag_importance", "categorize", "mark_read"}
  BY <1>5 DEF Item!InMemory
<1> QED BY <1>1, <1>2, <1>3, <1>4, <1>5

(* So do all actions of a rule.                                             *)
LEMMA ActedFrame ==
  ASSUME NEW r, NEW X, r.actions \in Seq(X), NEW m
  PROVE  LET after == Item!Acted(r.actions, m)[Len(r.actions)] IN
         /\ DOMAIN after = DOMAIN m
         /\ \A f \in DOMAIN m : f \notin Item!Writes(r) => after[f] = m[f]
<1> DEFINE after == Item!Acted(r.actions, m)
           Same(x) == /\ DOMAIN x = DOMAIN m
                      /\ \A f \in DOMAIN m : f \notin Item!Writes(r) => x[f] = m[f]
           S == {i \in 0..Len(r.actions) : Same(after[i])}
<1>0. Len(r.actions) \in Nat
  OBVIOUS
<1>1. 0 \in S
  <2>1. after[0] = m
    BY <1>0, ActedEach
  <2>2. Same(m)
    OBVIOUS
  <2> HIDE DEF after, Same
  <2> QED BY <1>0, <2>1, <2>2
<1>2. ASSUME NEW i \in 1..Len(r.actions), i - 1 \in S PROVE i \in S
  <2>1. PICK before : before = after[i - 1] /\ Same(before)
    BY <1>2
  <2>2. after[i] = Item!InMemory(r.actions[i], before)
    BY <1>0, <2>1, ActedEach
  <2>3. Item!Applicable(r.actions[i]) => Item!Saved(r.actions[i]) \subseteq Item!Writes(r)
    BY DEF Item!Writes
  <2>4. /\ DOMAIN Item!InMemory(r.actions[i], before) = DOMAIN before
        /\ \A f \in DOMAIN before :
             ~(Item!Applicable(r.actions[i]) /\ f \in Item!Saved(r.actions[i]))
               => Item!InMemory(r.actions[i], before)[f] = before[f]
    BY InMemoryFrame
  <2>5. Same(Item!InMemory(r.actions[i], before))
    BY <2>1, <2>3, <2>4
  <2> HIDE DEF after, Same
  <2> QED BY <1>0, <2>2, <2>5
<1> HIDE DEF S
<1>3. \A i \in 0..Len(r.actions) : i \in S
  BY <1>0, <1>1, <1>2, Induction
<1>4. Len(r.actions) \in S
  BY <1>0, <1>3
<1> QED BY <1>4 DEF S

(* A match sees a difference only where it looks, and nothing writes the    *)
(* content.                                                                 *)
LEMMA MatchFrame ==
  ASSUME NEW r \in Book, NEW m, NEW n,
         \A f \in Item!MessageFields :
           n[f] = m[f] \/ f \in {"read", "importance", "cats"} \ Item!LooksAt(r.match)
  PROVE  Item!Match(r.match, n) <=> Item!Match(r.match, m)
<1>1. ASSUME NEW key \in DOMAIN r.match
      PROVE  Item!Holds(key, r.match[key], n) <=> Item!Holds(key, r.match[key], m)
  <2>1. key \in Item!MatchKeys
    BY DEF Book, Item!ValidMatch
  <2>2. /\ key = "is_unread" => "read" \in Item!LooksAt(r.match)
        /\ key = "importance" => "importance" \in Item!LooksAt(r.match)
        /\ key \in {"categories_any", "categories_all"} => "cats" \in Item!LooksAt(r.match)
    BY DEF Item!LooksAt
  <2>3. /\ n["from"] = m["from"] /\ n["to"] = m["to"] /\ n["subject"] = m["subject"]
        /\ n["body"] = m["body"] /\ n["attached"] = m["attached"]
        /\ key = "is_unread" => n["read"] = m["read"]
        /\ key = "importance" => n["importance"] = m["importance"]
        /\ key \in {"categories_any", "categories_all"} => n["cats"] = m["cats"]
    BY <2>2 DEF Item!MessageFields
  <2> QED BY <2>1, <2>3 DEF Item!Holds, Item!MatchKeys
<1> QED BY <1>1 DEF Item!Match

(* The fields a rule can write                                              *)
LEMMA WritesFields == \A r : Item!Writes(r) \subseteq {"read", "importance", "cats"}
BY DEF Item!Writes, Item!Saved

(* Where no rule writes what a later one looks at, each matches the message *)
(* as the ones before left it just when it matches the message as it was.   *)
LEMMA Predicted ==
  ASSUME NEW rule, ListOK(rule), NEW m, Item!MessageFields \subseteq DOMAIN m,
         Item!Independent(rule)
  PROVE  Item!WouldFire(rule, m) = Item!Outcome(rule, m).fired
<1> DEFINE names == [i \in DOMAIN rule |-> rule[i].name]
           hits == {i \in DOMAIN rule : Item!Match(rule[i].match, m)}
           picked == Item!PickedUpTo(names, hits)
           after == Item!Outcomes(rule, m)
           Same(x, i) ==
             /\ DOMAIN x = DOMAIN m
             /\ \A f \in DOMAIN m : x[f] = m[f] \/ \E j \in 1..i : f \in Item!Writes(rule[j])
           S == {i \in 0..Len(rule) : after[i].fired = picked[i] /\ Same(after[i].message, i)}
<1>1. rule \in Seq(Book) /\ Len(rule) \in Nat /\ DOMAIN rule = 1..Len(rule)
  BY DEF ListOK
<1>2. Len(names) = Len(rule) /\ Len(names) \in Nat
  BY <1>1
<1>3. /\ picked[0] = << >>
      /\ \A i \in 1..Len(rule) :
           picked[i] = IF i \in hits THEN Append(picked[i - 1], names[i]) ELSE picked[i - 1]
  <2> HIDE DEF names, hits
  <2> QED BY <1>2, PickedEach
<1>4. after[0] = [message |-> m, fired |-> << >>]
  BY <1>1, OutcomesEach
<1>5. 0 \in S
  <2>1. after[0].message = m /\ after[0].fired = << >> /\ 0 \in 0..Len(rule)
    <3> HIDE DEF after
    <3> QED BY <1>1, <1>4
  <2>2. Same(m, 0)
    OBVIOUS
  <2> HIDE DEF after, picked, Same
  <2> QED BY <1>3, <2>1, <2>2
<1>6. ASSUME NEW i \in 1..Len(rule), i - 1 \in S PROVE i \in S
  <2>1. PICK x : x = after[i - 1] /\ x.fired = picked[i - 1] /\ Same(x.message, i - 1)
    BY <1>6
  <2>2. /\ i \in DOMAIN rule /\ i \in 0..Len(rule) /\ rule[i] \in Book /\ names[i] = rule[i].name
        /\ \A j \in 1..(i - 1) : Item!Writes(rule[j]) \cap Item!LooksAt(rule[i].match) = {}
    <3>1. i \in DOMAIN rule /\ i \in 0..Len(rule) /\ rule[i] \in Book
      BY <1>1
    <3>2. names[i] = rule[i].name
      BY <3>1
    <3>3. \A j \in 1..(i - 1) : Item!Writes(rule[j]) \cap Item!LooksAt(rule[i].match) = {}
      BY <3>1 DEF Item!Independent
    <3> QED BY <3>1, <3>2, <3>3
  <2>3. after[i] = Item!Fire(rule[i], x)
    BY <1>1, <2>1, OutcomesEach
  <2>4. \A f \in Item!MessageFields :
          x.message[f] = m[f] \/ f \in {"read", "importance", "cats"} \ Item!LooksAt(rule[i].match)
    BY <2>1, <2>2, WritesFields
  <2>5. Item!Match(rule[i].match, x.message) <=> Item!Match(rule[i].match, m)
    BY <2>2, <2>4, MatchFrame
  <2>6. picked[i] = IF i \in hits THEN Append(picked[i - 1], names[i]) ELSE picked[i - 1]
    BY <1>3
  <2>7. \A f : (\E j \in 1..(i - 1) : f \in Item!Writes(rule[j])) => \E j \in 1..i : f \in Item!Writes(rule[j])
    BY <1>1
  <2>8. CASE Item!Match(rule[i].match, m)
    <3> DEFINE end == Item!Acted(rule[i].actions, x.message)[Len(rule[i].actions)]
    <3>1. after[i] = [message |-> end, fired |-> Append(x.fired, rule[i].name)]
      BY <2>3, <2>5, <2>8 DEF Item!Fire
    <3>2. picked[i] = Append(picked[i - 1], names[i])
      BY <2>2, <2>6, <2>8
    <3>3. rule[i].actions \in Seq(Item!Range(rule[i].actions))
      BY <2>2 DEF ListOK
    <3>4. /\ DOMAIN end = DOMAIN x.message
          /\ \A f \in DOMAIN x.message : f \notin Item!Writes(rule[i]) => end[f] = x.message[f]
      BY <3>3, ActedFrame
    <3> HIDE DEF end
    <3>5. Same(end, i)
      BY <2>1, <2>7, <3>4
    <3>6. after[i].message = end /\ after[i].fired = Append(x.fired, rule[i].name)
      <4> HIDE DEF after
      <4> QED BY <3>1
    <3> HIDE DEF after, picked, Same
    <3> QED BY <2>1, <2>2, <3>2, <3>5, <3>6
  <2>9. CASE ~Item!Match(rule[i].match, m)
    <3>1. after[i] = x
      BY <2>3, <2>5, <2>9 DEF Item!Fire
    <3>2. picked[i] = picked[i - 1]
      BY <2>2, <2>6, <2>9
    <3>3. Same(x.message, i)
      BY <2>1, <2>7
    <3> HIDE DEF after, picked, Same
    <3> QED BY <2>1, <2>2, <3>1, <3>2, <3>3
  <2> QED BY <2>8, <2>9
<1> HIDE DEF S
<1>7. \A i \in 0..Len(rule) : i \in S
  BY <1>1, <1>5, <1>6, Induction
<1>8. Len(rule) \in S
  BY <1>1, <1>7
<1>9. after[Len(rule)].fired = picked[Len(names)]
  <2> HIDE DEF names
  <2> QED BY <1>2, <1>8 DEF S
<1> QED BY <1>9 DEF Item!WouldFire, Item!Picked, Item!Outcome

(* The rules are those there were, the answer too.                          *)
LEMMA RulesStay ==
  ASSUME RulesInv, UNCHANGED <<rules, answer>>,
         \A id \in Item!Live' : MailOK(items'[id]),
         call' # NoCall => /\ EvaluationOK(Item!Enabled(rules), call')
                           /\ call'.tool = "update" => MailOK(call'.seen)
  PROVE  RulesInv'
BY DEF RulesInv, Item!FiredAsRead

(* A call ends without firing anything.                                     *)
LEMMA CallOver ==
  ASSUME RulesInv, rules' = rules, call' = NoCall, "fired" \notin DOMAIN answer',
         \A id \in Item!Live' : MailOK(items'[id])
  PROVE  RulesInv'
BY DEF RulesInv, Item!FiredAsRead

(* A mail keeps what the rules look at, whatever is set.                    *)
LEMMA MergedMail ==
  ASSUME NEW now, NEW args, "kind" \in DOMAIN now, "kind" \notin DOMAIN args, MailOK(now)
  PROVE  MailOK(Item!Merged(now, args))
<1>1. /\ DOMAIN Item!Merged(now, args) = DOMAIN args \union DOMAIN now
      /\ \A x \in DOMAIN now \ DOMAIN args : Item!Merged(now, args)[x] = now[x]
  BY MergedFields
<1>2. Item!Merged(now, args).kind = now.kind
  BY <1>1
<1> QED BY <1>1, <1>2 DEF MailOK

(* After the write of a call                                                *)
LEMMA PutMail ==
  ASSUME FieldsInv, RulesInv, NEW id \in Item!Live, NEW new, NEW set, Item!Put(id, new, set), MailOK(new)
  PROVE  \A x \in Item!Live' : MailOK(items'[x])
BY DEF Item!Put, Item!Live, RulesInv

(* and where an item has gone,                                              *)
LEMMA VanishMail ==
  ASSUME RulesInv, NEW id, Item!Vanish(id)
  PROVE  \A x \in Item!Live' : MailOK(items'[x])
BY DEF Item!Vanish, Item!Restrict, Item!Live, RulesInv

(* and where nothing has changed.                                           *)
LEMMA SameMail ==
  ASSUME RulesInv, items' = items
  PROVE  \A x \in Item!Live' : MailOK(items'[x])
BY DEF Item!Live, RulesInv

(* An empty mailbox of rules, and a mail that is one.                       *)
LEMMA RulesInit == Item!ConstantsOK /\ Item!Init => RulesInv
<1> SUFFICES ASSUME Item!ConstantsOK, Item!Init PROVE RulesInv
  OBVIOUS
<1>1. Item!Live = {1} /\ items[1] \in Originals
  BY DEF Item!Init, Item!Live
<1>2. rules \in Seq(Book)
  <2>1. << >> \in Seq(Book)
    OBVIOUS
  <2> QED BY <2>1 DEF Item!Init
<1>3. \A id \in Item!Live : MailOK(items[id])
  BY <1>1 DEF MailOK, Item!ConstantsOK
<1> QED BY <1>2, <1>3 DEF RulesInv, Item!Init, Item!FiredAsRead

(* The tools that begin by reading an item do not evaluate rules.           *)
LEMMA RulesBegin ==
  ASSUME RulesInv,
         \/ Item!UpdateEmail \/ Item!UpdateTask \/ Item!CompleteTask \/ Item!UpdateContact \/ Item!UpdateAppointment
         \/ Item!SetSettings \/ Item!DeleteTask \/ Item!DeleteContact \/ Item!DeleteAppointment \/ Item!RespondToMeeting
  PROVE  RulesInv'
<1>1. PICK tool \in {"update", "delete", "respond"}, id \in Item!Ids :
        \E kind, args : Item!Fetch(tool, kind, id, args)
  BY DEF Item!UpdateEmail, Item!UpdateTask, Item!CompleteTask, Item!UpdateContact, Item!UpdateAppointment,
         Item!SetSettings, Item!DeleteTask, Item!DeleteContact, Item!DeleteAppointment, Item!RespondToMeeting
<1>2. PICK args : call' = [tool |-> tool, id |-> id, seen |-> items[id], args |-> args]
  BY <1>1 DEF Item!Fetch, Item!Begin
<1>3. UNCHANGED <<items, rules, answer>> /\ id \in Item!Live
  BY <1>1 DEF Item!Fetch, Item!Begin, Item!Mailbox, Item!Stored, Item!Is
<1>4. call'.tool # "evaluate" /\ call'.seen = items[id]
  BY <1>2
<1>5. EvaluationOK(Item!Enabled(rules), call') /\ MailOK(call'.seen)
  BY <1>3, <1>4 DEF EvaluationOK, RulesInv
<1> QED BY <1>3, <1>5, SameMail, RulesStay

(* save() writes what was read, with what the call sets.                    *)
LEMMA RulesSave ==
  ASSUME FieldsInv, RulesInv, Item!Save
  PROVE  RulesInv'
<1>1. /\ UpdateOK(call) /\ call.tool = "update" /\ call.id \in Item!Live /\ MailOK(call.seen)
      /\ Item!Put(call.id, Item!Merged(call.seen, Item!Sets(call)), call.args)
      /\ call' = NoCall /\ answer' = [ok |-> TRUE] /\ rules' = rules
  BY DEF Item!Save, Item!End, Item!Stored, FieldsInv, UpdatesOK, RulesInv, Item!Overwritten
<1>2. MailOK(Item!Merged(call.seen, Item!Sets(call)))
  <2>1. "kind" \in DOMAIN call.seen /\ "kind" \notin DOMAIN call.args
    BY <1>1 DEF UpdateOK
  <2>2. "kind" \notin DOMAIN Item!Sets(call)
    BY <2>1, SetsFields
  <2> QED BY <1>1, <2>1, <2>2, MergedMail
<1>3. "fired" \notin DOMAIN answer'
  BY <1>1
<1> QED BY <1>1, <1>2, <1>3, PutMail, CallOver

(* The other steps that end a call                                          *)
LEMMA RulesDone ==
  ASSUME RulesInv, Item!Fail \/ Item!Delete \/ Item!Respond \/ Item!ApplyPolicyDone
  PROVE  RulesInv'
<1>1. /\ call' = NoCall /\ rules' = rules
      /\ answer' = [ok |-> TRUE] \/ answer' = [ok |-> FALSE]
  BY DEF Item!Fail, Item!Delete, Item!Respond, Item!ApplyPolicyDone, Item!End, Item!Stored
<1>2. items' = items \/ \E id : Item!Vanish(id)
  BY DEF Item!Fail, Item!Delete, Item!Respond, Item!ApplyPolicyDone, Item!Mailbox
<1>3. "fired" \notin DOMAIN answer'
  BY <1>1
<1> QED BY <1>1, <1>2, <1>3, SameMail, VanishMail, CallOver

(* What is created is no mail.                                              *)
LEMMA RulesNew ==
  ASSUME Item!ConstantsOK, RulesInv, NEW kind \in {"task", "contact", "appointment"}, Item!Create(kind)
  PROVE  RulesInv'
<1>1. PICK id \in Item!Ids \ Item!Live, args \in News[kind] :
        /\ items' = Item!Merged(items, [i \in {id} |-> Item!Merged(Item!Blank(kind), args)])
        /\ call' = NoCall /\ answer' = [ok |-> TRUE] /\ rules' = rules
  BY DEF Item!Create, Item!Stored
<1> DEFINE new == Item!Merged(Item!Blank(kind), args)
           one == [i \in {id} |-> new]
<1>2. MailOK(new)
  <2>1. "kind" \in DOMAIN Item!Blank(kind) /\ Item!Blank(kind).kind = kind
    BY DEF Item!Blank
  <2>2. "kind" \notin DOMAIN args
    BY DEF Item!ConstantsOK
  <2>3. MailOK(Item!Blank(kind))
    BY <2>1 DEF MailOK
  <2> QED BY <2>1, <2>2, <2>3, MergedMail
<1>3. DOMAIN one = {id} /\ one[id] = new /\ items' = Item!Merged(items, one)
  BY <1>1
<1> HIDE DEF one, new
<1>4. /\ DOMAIN items' = {id} \union DOMAIN items
      /\ items'[id] = new /\ \A x \in DOMAIN items \ {id} : items'[x] = items[x]
  <2>1. /\ DOMAIN Item!Merged(items, one) = DOMAIN one \union DOMAIN items
        /\ \A x \in DOMAIN one : Item!Merged(items, one)[x] = one[x]
        /\ \A x \in DOMAIN items \ DOMAIN one : Item!Merged(items, one)[x] = items[x]
    BY MergedFields
  <2> QED BY <1>3, <2>1
<1>5. \A x \in Item!Live' : MailOK(items'[x])
  BY <1>2, <1>4 DEF Item!Live, RulesInv
<1>6. "fired" \notin DOMAIN answer'
  BY <1>1
<1> QED BY <1>1, <1>5, <1>6, CallOver

(* evaluate_rules_on_message                                                *)
LEMMA RulesEvaluate ==
  ASSUME Item!ConstantsOK, FieldsInv, RulesInv,
         Item!Evaluate \/ Item!NextRule \/ Item!ApplyAction \/ Item!EvaluateDone
  PROVE  RulesInv'
<1> DEFINE rule == Item!Enabled(rules)
<1>1. ListOK(rule)
  BY EnabledType DEF RulesInv
<1> HIDE DEF rule
<1>2. CASE Item!Evaluate
  <2>1. PICK id \in Item!Ids :
          call' = [tool |-> "evaluate", id |-> id, first |-> items[id], seen |-> items[id],
                   todo |-> Item!Enabled(rules), actions |-> << >>, fired |-> << >>]
    BY <1>2 DEF Item!Evaluate, Item!Begin
  <2>2. UNCHANGED <<items, rules, answer>>
    BY <1>2 DEF Item!Evaluate, Item!Begin, Item!Mailbox, Item!Stored
  <2>3. EvaluationOK(rule, call')
    BY <1>1, <2>1, BegunEvaluation DEF rule
  <2>4. call'.tool # "update"
    BY <2>1
  <2> QED BY <2>2, <2>3, <2>4, SameMail, RulesStay DEF rule
<1>3. ASSUME Item!Evaluating
      PROVE  /\ call.tool = "evaluate" /\ EvaluationOK(rule, call)
             /\ DOMAIN call = {"tool", "id", "first", "seen", "todo", "actions", "fired"}
  BY <1>3 DEF Item!Evaluating, RulesInv, EvaluationOK, rule
<1>4. CASE Item!NextRule
  <2>1. /\ Item!Evaluating /\ call.actions = << >> /\ call.todo # << >>
        /\ UNCHANGED <<items, rules, answer>>
    BY <1>4 DEF Item!NextRule, Item!Mailbox, Item!Stored
  <2>2. PICK r : /\ r = Head(call.todo)
                 /\ call' = IF Item!Match(r.match, call.seen)
                            THEN [call EXCEPT !.todo = Tail(@), !.actions = r.actions, !.fired = Append(@, r.name)]
                            ELSE [call EXCEPT !.todo = Tail(@)]
    BY <1>4 DEF Item!NextRule
  <2>3. EvaluationOK(rule, call')
    BY <1>1, <1>3, <2>1, <2>2, NextRuleReached
  <2>4. call'.tool # "update"
    BY <1>3, <2>1, <2>2
  <2> QED BY <2>1, <2>3, <2>4, SameMail, RulesStay DEF rule
<1>5. CASE Item!ApplyAction
  <2>1. /\ Item!Evaluating /\ call.actions # << >> /\ UNCHANGED <<rules, answer>>
        /\ call' = [call EXCEPT !.actions = Tail(@), !.seen = Item!InMemory(Head(call.actions), @)]
    BY <1>5 DEF Item!ApplyAction, Item!Act
  <2>2. EvaluationOK(rule, call')
    BY <1>1, <1>3, <2>1, ActionReached
  <2>3. call'.tool # "update"
    BY <1>3, <2>1
  <2>4. \A x \in Item!Live' : MailOK(items'[x])
    <3>1. ASSUME NEW set, call.id \in Item!Live, "kind" \notin DOMAIN set,
                 Item!Put(call.id, Item!Merged(items[call.id], set), set)
          PROVE  \A x \in Item!Live' : MailOK(items'[x])
      <4>1. MailOK(Item!Merged(items[call.id], set))
        BY <3>1, MergedMail DEF RulesInv, FieldsInv, FieldsOK
      <4> QED BY <3>1, <4>1, PutMail
    <3>2. "kind" \notin DOMAIN Item!Written(Head(call.actions), Item!InMemory(Head(call.actions), call.seen))
      BY DEF Item!Written, Item!Saved
    <3>3. "kind" \notin DOMAIN [folder |-> Head(call.actions).destination]
      OBVIOUS
    <3> QED BY <1>5, <3>1, <3>2, <3>3, SameMail DEF Item!ApplyAction, Item!Mailbox
  <2> QED BY <2>1, <2>2, <2>3, <2>4, RulesStay DEF rule
<1>6. CASE Item!EvaluateDone
  <2>1. /\ Item!Evaluating /\ call.todo = << >> /\ UNCHANGED <<items, rules>> /\ call' = NoCall
        /\ answer' = [first |-> call.first, rules |-> rule, fired |-> call.fired]
    BY <1>6 DEF Item!EvaluateDone, Item!End, Item!Mailbox, Item!Stored, rule
  <2>2. call.fired = Item!Outcome(rule, call.first).fired
    BY <1>1, <1>3, <2>1, EvaluationEnds
  <2>3. Item!FiredAsRead'
    BY <2>1, <2>2 DEF Item!FiredAsRead
  <2> QED BY <2>1, <2>3, SameMail DEF RulesInv
<1> QED BY <1>2, <1>4, <1>5, <1>6

(* The OOF policy evaluates no rules.                                       *)
LEMMA RulesPolicy ==
  ASSUME FieldsInv, RulesInv, Item!ApplyPolicy \/ Item!ForwardDraft
  PROVE  RulesInv'
<1>1. UNCHANGED <<items, rules, answer>>
  BY DEF Item!ApplyPolicy, Item!ForwardDraft, Item!Begin, Item!Mailbox, Item!Stored
<1>2. call'.tool = "oof"
  <2>1. CASE Item!ApplyPolicy
    BY <2>1 DEF Item!ApplyPolicy, Item!Begin
  <2>2. CASE Item!ForwardDraft
    <3>1. "tool" \in DOMAIN call /\ call.tool = "oof" /\ call' = [call EXCEPT !.todo = Tail(@)]
      BY <2>2 DEF Item!ForwardDraft, FieldsInv, UpdatesOK, UpdateOK
    <3> QED BY <3>1
  <2> QED BY <2>1, <2>2
<1> QED BY <1>1, <1>2, SameMail, RulesStay DEF EvaluationOK

(* rule_create, rule_delete and the steps that change nothing here: a rule  *)
(* is stored or deleted between two calls.                                  *)
LEMMA RulesStores ==
  ASSUME RulesInv, Item!RuleCreate \/ Item!RuleDelete \/ Item!Simulate \/ Item!ConfigurePolicy \/ UNCHANGED Item!vars
  PROVE  RulesInv'
<1>1. CASE Item!RuleCreate \/ Item!RuleDelete
  <2>1. UNCHANGED <<items, call, answer>> /\ call = NoCall
    BY <1>1 DEF Item!RuleCreate, Item!RuleDelete, Item!Mailbox
  <2>2. rules' \in Seq(Book)
    <3>1. CASE Item!RuleCreate
      <4>1. PICK r \in RuleBook : Item!ValidMatch(r.match) /\ rules' = Append(rules, r)
        BY <3>1 DEF Item!RuleCreate
      <4>2. r \in Book
        BY <4>1 DEF Book
      <4> QED BY <4>1, <4>2 DEF RulesInv
    <3>2. CASE Item!RuleDelete
      <4>1. PICK i \in DOMAIN rules : rules' = SubSeq(rules, 1, i - 1) \o SubSeq(rules, i + 1, Len(rules))
        BY <3>2 DEF Item!RuleDelete, Item!RemoveAt
      <4>2. i \in 1..Len(rules) /\ Len(rules) \in Nat /\ \A j \in 1..Len(rules) : rules[j] \in Book
        BY DEF RulesInv
      <4>3. SubSeq(rules, 1, i - 1) \in Seq(Book) /\ SubSeq(rules, i + 1, Len(rules)) \in Seq(Book)
        BY <4>2, SubSeqProperties
      <4> QED BY <4>1, <4>3, ConcatProperties
    <3> QED BY <1>1, <3>1, <3>2
  <2> QED BY <2>1, <2>2, SameMail DEF RulesInv, Item!FiredAsRead
<1>2. CASE Item!Simulate
  <2>1. /\ UNCHANGED <<items, rules, call>> /\ call = NoCall
        /\ \E would : answer' = [would_fire |-> would]
    BY <1>2 DEF Item!Simulate, Item!Mailbox, Item!Stored
  <2>2. "fired" \notin DOMAIN answer'
    BY <2>1
  <2> QED BY <2>1, <2>2, SameMail, CallOver
<1>3. CASE Item!ConfigurePolicy \/ UNCHANGED Item!vars
  <2>1. UNCHANGED <<items, rules, call, answer>>
    BY <1>3 DEF Item!ConfigurePolicy, Item!vars, Item!Mailbox
  <2> QED BY <2>1, SameMail, RulesStay DEF RulesInv
<1> QED BY <1>1, <1>2, <1>3

(* What other clients do is seen by no evaluation under way.                *)
LEMMA RulesOthers ==
  ASSUME Item!ConstantsOK, FieldsInv, RulesInv, Item!OutlookEdits \/ Item!OutlookRemoves
  PROVE  RulesInv'
<1>1. UNCHANGED <<rules, call, answer>>
  BY DEF Item!OutlookEdits, Item!OutlookRemoves, Item!Stored
<1>2. \A x \in Item!Live' : MailOK(items'[x])
  <2>1. CASE Item!OutlookEdits
    <3>1. PICK id \in Item!Live : \E e \in Touches[items[id].kind] : items' = [items EXCEPT ![id] = Item!Merged(@, e)]
      BY <2>1 DEF Item!OutlookEdits
    <3>2. PICK e \in Touches[items[id].kind] : items' = [items EXCEPT ![id] = Item!Merged(@, e)]
      BY <3>1
    <3>3. "kind" \in DOMAIN items[id] /\ items[id].kind \in Item!Kinds
      BY DEF FieldsInv, FieldsOK
    <3>4. "kind" \notin DOMAIN e
      BY <3>3 DEF Item!ConstantsOK
    <3>5. MailOK(Item!Merged(items[id], e))
      BY <3>3, <3>4, MergedMail DEF RulesInv
    <3> QED BY <3>2, <3>5 DEF Item!Live, RulesInv
  <2>2. CASE Item!OutlookRemoves
    BY <2>2, VanishMail DEF Item!OutlookRemoves
  <2> QED BY <2>1, <2>2
<1> QED BY <1>1, <1>2, RulesStay DEF RulesInv

(* Every step keeps an evaluation what the rules and the message make it.   *)
LEMMA RulesNext == Item!ConstantsOK /\ FieldsInv /\ RulesInv /\ [Item!Next]_(Item!vars) => RulesInv'
<1> SUFFICES ASSUME Item!ConstantsOK, FieldsInv, RulesInv, [Item!Next]_(Item!vars) PROVE RulesInv'
  OBVIOUS
<1>1. CASE \/ Item!UpdateEmail \/ Item!UpdateTask \/ Item!CompleteTask \/ Item!UpdateContact \/ Item!UpdateAppointment
           \/ Item!SetSettings \/ Item!DeleteTask \/ Item!DeleteContact \/ Item!DeleteAppointment \/ Item!RespondToMeeting
  BY <1>1, RulesBegin
<1>2. CASE Item!Save \/ Item!Fail \/ Item!Delete \/ Item!Respond \/ Item!ApplyPolicyDone
  BY <1>2, RulesSave, RulesDone
<1>3. CASE Item!CreateTask \/ Item!CreateContact \/ Item!CreateAppointment
  BY <1>3, RulesNew DEF Item!CreateTask, Item!CreateContact, Item!CreateAppointment
<1>4. CASE Item!Evaluate \/ Item!NextRule \/ Item!ApplyAction \/ Item!EvaluateDone
  BY <1>4, RulesEvaluate
<1>5. CASE Item!ApplyPolicy \/ Item!ForwardDraft
  BY <1>5, RulesPolicy
<1>6. CASE Item!RuleCreate \/ Item!RuleDelete \/ Item!Simulate \/ Item!ConfigurePolicy \/ UNCHANGED Item!vars
  BY <1>6, RulesStores
<1>7. CASE Item!OutlookEdits \/ Item!OutlookRemoves
  BY <1>7, RulesOthers
<1> QED BY <1>1, <1>2, <1>3, <1>4, <1>5, <1>6, <1>7 DEF Item!Next

(* Evaluations fire what the rules say, and dry runs report that.           *)
LEMMA RulesImplied == ASSUME Item!ConstantsOK, RulesInv PROVE Item!RulesFireAsRead
<1>1. Item!DryRunPredicts
  BY EnabledType, Predicted DEF RulesInv, MailOK, Item!DryRunPredicts
<1> QED BY <1>1 DEF RulesInv, Item!RulesFireAsRead

-----------------------------------------------------------------------------
(* Rankings: of a finite set, each in a strict order, one has so many       *)
(* before it, and a list that follows the order is the only one.            *)
Orders(R, S) ==
  /\ \A x \in S : <<x, x>> \notin R
  /\ \A x, y \in S : x # y => <<x, y>> \in R \/ <<y, x>> \in R
  /\ \A x, y, z \in S : <<x, y>> \in R /\ <<y, z>> \in R => <<x, z>> \in R

LEMMA Places ==
  ASSUME NEW S, IsFiniteSet(S), NEW R, Orders(R, S)
  PROVE  /\ Cardinality(S) \in Nat
         /\ \A k \in 1..Cardinality(S) : Ranked(S, R)[k] \in S
         /\ \A i, j \in 1..Cardinality(S) : Ranked(S, R)[i] = Ranked(S, R)[j] => i = j
         /\ \A x \in S : \E k \in 1..Cardinality(S) : Ranked(S, R)[k] = x
         /\ \A i, j \in 1..Cardinality(S) : i < j => <<Ranked(S, R)[i], Ranked(S, R)[j]>> \in R
<1> DEFINE n == Cardinality(S)
           rank == [x \in S |-> Cardinality(Ahead(x, S, R))]
           f == [x \in S |-> rank[x] + 1]
           list == Ranked(S, R)
<1>1. n \in Nat
  BY FS_CardinalityType
<1>2. ASSUME NEW x \in S PROVE IsFiniteSet(Ahead(x, S, R)) /\ rank[x] \in Nat /\ rank[x] < n
  <2>1. Ahead(x, S, R) \in SUBSET S /\ Ahead(x, S, R) # S
    BY DEF Orders, Ahead
  <2>2. /\ IsFiniteSet(Ahead(x, S, R)) /\ Cardinality(Ahead(x, S, R)) <= Cardinality(S)
        /\ Cardinality(S) = Cardinality(Ahead(x, S, R)) => S = Ahead(x, S, R)
    BY <2>1, FS_Subset
  <2>3. Cardinality(Ahead(x, S, R)) \in Nat
    BY <2>2, FS_CardinalityType
  <2> QED BY <1>1, <2>1, <2>2, <2>3
<1>3. ASSUME NEW x \in S, NEW y \in S, <<x, y>> \in R PROVE rank[x] < rank[y]
  <2>1. Ahead(x, S, R) \in SUBSET Ahead(y, S, R) /\ x \in Ahead(y, S, R) /\ x \notin Ahead(x, S, R)
    BY <1>3 DEF Orders, Ahead
  <2>2. IsFiniteSet(Ahead(y, S, R)) /\ rank[x] \in Nat /\ rank[y] \in Nat
    BY <1>2
  <2>3. /\ Cardinality(Ahead(x, S, R)) <= Cardinality(Ahead(y, S, R))
        /\ Cardinality(Ahead(y, S, R)) = Cardinality(Ahead(x, S, R)) =>
             Ahead(y, S, R) = Ahead(x, S, R)
    BY <2>1, <2>2, FS_Subset
  <2> QED BY <2>1, <2>2, <2>3
<1>a. \A x \in S : Cardinality(Ahead(x, S, R)) = rank[x]
  OBVIOUS
<1> HIDE DEF rank, n
<1>4. ASSUME NEW x \in S, NEW y \in S, rank[x] = rank[y] PROVE x = y
  <2>1. rank[x] \in Nat /\ rank[y] \in Nat
    BY <1>2
  <2>2. <<x, y>> \notin R
    BY <1>3, <1>4, <2>1
  <2>3. <<y, x>> \notin R
    BY <1>3, <1>4, <2>1
  <2> QED BY <2>2, <2>3 DEF Orders
<1>5. IsFiniteSet(1..n) /\ Cardinality(1..n) = n
  BY <1>1, FS_Interval
<1>6. f \in [S -> 1..n]
  BY <1>1, <1>2
<1>7. f \in Injection(S, 1..n)
  <2>1. \A x, y \in S : f[x] = f[y] => x = y
    BY <1>2, <1>4
  <2> HIDE DEF f
  <2> QED BY <1>6, <2>1 DEF Injection, IsInjective
<1>8. f \in Surjection(S, 1..n)
  <2>1. Cardinality(S) = n
    BY DEF n
  <2> HIDE DEF f
  <2> QED BY <1>5, <1>7, <2>1, FS_Injection
<1>b. list = [k \in 1..n |-> CHOOSE x \in S : Cardinality(Ahead(x, S, R)) = k - 1]
  BY DEF Ranked, n
<1>9. ASSUME NEW k \in 1..n PROVE list[k] \in S /\ rank[list[k]] = k - 1
  <2>1. \E x \in S : f[x] = k
    <3> HIDE DEF f
    <3> QED BY <1>8 DEF Surjection
  <2>2. \E x \in S : Cardinality(Ahead(x, S, R)) = k - 1
    BY <1>1, <1>2, <1>a, <2>1
  <2>3. list[k] = CHOOSE x \in S : Cardinality(Ahead(x, S, R)) = k - 1
    BY <1>b
  <2>4. list[k] \in S /\ Cardinality(Ahead(list[k], S, R)) = k - 1
    BY <2>2, <2>3
  <2> QED BY <1>a, <2>4
<1> HIDE DEF list
<1>10. \A x \in S : \E k \in 1..n : list[k] = x
  <2> SUFFICES ASSUME NEW x \in S PROVE list[f[x]] = x /\ f[x] \in 1..n
    OBVIOUS
  <2>1. f[x] \in 1..n /\ f[x] - 1 = rank[x]
    BY <1>2, <1>6
  <2> QED BY <1>4, <1>9, <2>1
<1>11. \A i, j \in 1..n : list[i] = list[j] => i = j
  BY <1>1, <1>9
<1>12. \A i, j \in 1..n : i < j => <<list[i], list[j]>> \in R
  <2> SUFFICES ASSUME NEW i \in 1..n, NEW j \in 1..n, i < j, <<list[j], list[i]>> \in R
               PROVE FALSE
    <3> SUFFICES ASSUME NEW i \in 1..n, NEW j \in 1..n, i < j PROVE <<list[i], list[j]>> \in R
      OBVIOUS
    <3>1. list[i] # list[j] /\ list[i] \in S /\ list[j] \in S
      BY <1>1, <1>9, <1>11
    <3> QED BY <3>1 DEF Orders
  <2>1. list[i] \in S /\ list[j] \in S /\ rank[list[i]] = i - 1 /\ rank[list[j]] = j - 1
    BY <1>9
  <2>2. rank[list[j]] < rank[list[i]]
    BY <1>3, <2>1
  <2> QED BY <1>1, <2>1, <2>2
<1> QED BY <1>1, <1>9, <1>10, <1>11, <1>12 DEF n, list

(* The parts' counts and rankings are the same as these.                    *)
LEMMA SameCounts ==
  \A S : /\ People!Cardinality(S) = Cardinality(S) /\ (People!IsFiniteSet(S) <=> IsFiniteSet(S))
         /\ Caches!Cardinality(S) = Cardinality(S) /\ (Caches!IsFiniteSet(S) <=> IsFiniteSet(S))
<1>1. \A S : People!Cardinality(S) = Cardinality(S)
  BY DEF People!Cardinality, Cardinality
<1>2. \A S : People!IsFiniteSet(S) <=> IsFiniteSet(S)
  BY DEF People!IsFiniteSet, IsFiniteSet
<1>3. \A S : Caches!Cardinality(S) = Cardinality(S)
  BY DEF Caches!Cardinality, Cardinality
<1>4. \A S : Caches!IsFiniteSet(S) <=> IsFiniteSet(S)
  BY DEF Caches!IsFiniteSet, IsFiniteSet
<1> QED BY <1>1, <1>2, <1>3, <1>4

LEMMA SameRanks ==
  ASSUME NEW S, NEW R
  PROVE  People!Ranked(S, R) = Ranked(S, R) /\ Caches!Ranked(S, R) = Ranked(S, R)
<1>1. People!Ranked(S, R) = Ranked(S, R)
  BY DEF People!Ranked, Ranked, People!Ahead, Ahead, People!Cardinality, Cardinality
<1>2. Caches!Ranked(S, R) = Ranked(S, R)
  BY DEF Caches!Ranked, Ranked, Caches!Ahead, Ahead, Caches!Cardinality, Cardinality
<1> QED BY <1>1, <1>2

(* A list that goes through a set in the order is its ranking.              *)
Lists(list, n, S, R) ==
  /\ \A k \in 1..n : list[k] \in S
  /\ \A x \in S : \E k \in 1..n : list[k] = x
  /\ \A i, j \in 1..n : <<list[i], list[j]>> \in R <=> i < j

Till(list, m) == {list[i] : i \in 1..m}

LEMMA Counted ==
  ASSUME NEW n \in Nat, NEW list, NEW S, NEW R, Lists(list, n, S, R), NEW m \in 0..n
  PROVE  /\ IsFiniteSet(Till(list, m)) /\ Cardinality(Till(list, m)) = m
         /\ IsFiniteSet(S) /\ Cardinality(S) = n
         /\ m > 0 => Ahead(list[m], S, R) = Till(list, m - 1)
<1>1. ASSUME NEW i \in 1..n, NEW j \in 1..n, list[i] = list[j] PROVE i = j
  <2>1. ~(<<list[i], list[j]>> \in R /\ i < j) /\ ~(<<list[j], list[i]>> \in R /\ j < i)
    BY <1>1 DEF Lists
  <2>2. ~(i < j) /\ ~(j < i)
    BY <2>1 DEF Lists
  <2> QED BY <2>2
<1>2. ASSUME NEW k \in 0..n
      PROVE  IsFiniteSet(Till(list, k)) /\ Cardinality(Till(list, k)) = k
  <2> DEFINE f == [i \in 1..k |-> list[i]]
             T == Till(list, k)
  <2>1. k \in Nat /\ IsFiniteSet(1..k) /\ Cardinality(1..k) = k
    BY FS_Interval
  <2>2. f \in Bijection(1..k, T)
    BY <1>1, <2>1 DEF Bijection, Injection, Surjection, IsInjective, Till
  <2> HIDE DEF f, T
  <2>3. ExistsBijection(1..k, T)
    BY <2>2 DEF ExistsBijection
  <2>4. IsFiniteSet(T) /\ Cardinality(T) = k
    BY <2>1, <2>2, <2>3, FS_Bijection
  <2> QED BY <2>4 DEF T
<1>3. S = Till(list, n)
  BY DEF Lists, Till
<1>4. m > 0 => Ahead(list[m], S, R) = Till(list, m - 1)
  <2> SUFFICES ASSUME m > 0 PROVE Ahead(list[m], S, R) = Till(list, m - 1)
    OBVIOUS
  <2>1. m \in 1..n
    OBVIOUS
  <2> QED BY <1>3, <2>1 DEF Ahead, Lists, Till
<1>5. n \in 0..n
  OBVIOUS
<1> QED BY <1>2, <1>3, <1>4, <1>5

LEMMA Ranks ==
  ASSUME NEW n \in Nat, NEW list, NEW S, NEW R, Lists(list, n, S, R)
  PROVE  /\ Cardinality(S) = n /\ IsFiniteSet(S)
         /\ \A k \in 1..n : Cardinality(Ahead(list[k], S, R)) = k - 1
         /\ \A k \in 1..n : \A x \in S : Cardinality(Ahead(x, S, R)) = k - 1 => x = list[k]
         /\ Ranked(S, R) = [k \in 1..n |-> list[k]]
<1>1. Cardinality(S) = n /\ IsFiniteSet(S)
  <2>1. n \in 0..n
    OBVIOUS
  <2> QED BY <2>1, Counted
<1>2. ASSUME NEW k \in 1..n PROVE Cardinality(Ahead(list[k], S, R)) = k - 1
  <2>1. PICK m \in 0..n : m = k - 1
    OBVIOUS
  <2>2. k \in 0..n /\ k > 0
    OBVIOUS
  <2>3. Ahead(list[k], S, R) = Till(list, k - 1)
    BY <2>2, Counted
  <2>4. Cardinality(Till(list, m)) = m
    BY Counted
  <2> QED BY <2>1, <2>3, <2>4
<1>3. ASSUME NEW k \in 1..n, NEW x \in S, Cardinality(Ahead(x, S, R)) = k - 1 PROVE x = list[k]
  <2>1. PICK j \in 1..n : list[j] = x
    BY DEF Lists
  <2>2. Cardinality(Ahead(list[j], S, R)) = j - 1
    BY <1>2
  <2>3. j - 1 = k - 1
    BY <1>3, <2>1, <2>2
  <2>4. j = k
    BY <2>3
  <2> QED BY <2>1, <2>4
<1>4. \A k \in 1..n : (CHOOSE x \in S : Cardinality(Ahead(x, S, R)) = k - 1) = list[k]
  <2> SUFFICES ASSUME NEW k \in 1..n PROVE (CHOOSE x \in S : Cardinality(Ahead(x, S, R)) = k - 1) = list[k]
    OBVIOUS
  <2>1. list[k] \in S
    BY DEF Lists
  <2>2. Cardinality(Ahead(list[k], S, R)) = k - 1
    BY <1>2
  <2>3. \A x \in S : Cardinality(Ahead(x, S, R)) = k - 1 => x = list[k]
    BY <1>3
  <2> QED BY <2>1, <2>2, <2>3
<1>5. Ranked(S, R) = [k \in 1..n |-> CHOOSE x \in S : Cardinality(Ahead(x, S, R)) = k - 1]
  BY <1>1 DEF Ranked
<1>6. [k \in 1..n |-> CHOOSE x \in S : Cardinality(Ahead(x, S, R)) = k - 1] = [k \in 1..n |-> list[k]]
  BY <1>4
<1> QED BY <1>1, <1>2, <1>3, <1>5, <1>6

LEMMA RankedLists ==
  ASSUME NEW S, IsFiniteSet(S), NEW R, Orders(R, S)
  PROVE  /\ Cardinality(S) \in Nat /\ Lists(Ranked(S, R), Cardinality(S), S, R)
         /\ DOMAIN Ranked(S, R) = 1..Cardinality(S)
         /\ Ranked(S, R) \in Seq(S) /\ Len(Ranked(S, R)) = Cardinality(S)
<1>1. PICK n : n = Cardinality(S)
  OBVIOUS
<1>2. PICK list : list = Ranked(S, R)
  OBVIOUS
<1>3. /\ n \in Nat
      /\ \A k \in 1..n : list[k] \in S
      /\ \A x \in S : \E k \in 1..n : list[k] = x
      /\ \A i, j \in 1..n : i < j => <<list[i], list[j]>> \in R
  BY <1>1, <1>2, Places
<1>4. \A i, j \in 1..n : <<list[i], list[j]>> \in R => i < j
  <2> SUFFICES ASSUME NEW i \in 1..n, NEW j \in 1..n, <<list[i], list[j]>> \in R, ~(i < j) PROVE FALSE
    OBVIOUS
  <2>1. j < i => <<list[i], list[i]>> \in R
    BY <1>3 DEF Orders
  <2>2. i = j \/ j < i
    BY <1>3
  <2> QED BY <1>3, <2>1, <2>2 DEF Orders
<1>5. list = [k \in 1..n |-> CHOOSE x \in S : Cardinality(Ahead(x, S, R)) = k - 1]
  BY <1>1, <1>2 DEF Ranked
<1>6. DOMAIN list = 1..n
  BY <1>5
<1>7. list \in Seq(S) /\ Len(list) = n
  <2>1. list = [k \in 1..n |-> list[k]]
    BY <1>5
  <2> QED BY <1>3, <2>1
<1> QED BY <1>1, <1>2, <1>3, <1>4, <1>6, <1>7 DEF Lists

(* The first n of a list are those that less than n others precede.         *)
Among(S, R, n) == {x \in S : Cardinality(Ahead(x, S, R)) < n}
Least(a, b) == IF a < b THEN a ELSE b

LEMMA Firsts ==
  ASSUME NEW c \in Nat, NEW list, NEW S, NEW R, Lists(list, c, S, R), NEW n \in Nat
  PROVE  Least(c, n) \in 0..c /\ Lists(list, Least(c, n), Among(S, R, n), R)
<1>1. PICK m \in 0..c : m = Least(c, n)
  BY DEF Least
<1>2. 1..m \subseteq 1..c /\ \A k \in 1..m : k - 1 < n
  BY <1>1 DEF Least
<1>3. \A k \in 1..c : k - 1 < n => k \in 1..m
  BY <1>1 DEF Least
<1>4. \A k \in 1..c : Cardinality(Ahead(list[k], S, R)) = k - 1
  BY Ranks
<1>5. \A k \in 1..m : list[k] \in Among(S, R, n)
  BY <1>2, <1>4 DEF Among, Lists
<1>6. ASSUME NEW x \in Among(S, R, n) PROVE \E k \in 1..m : list[k] = x
  <2>1. PICK k \in 1..c : list[k] = x
    BY DEF Among, Lists
  <2>2. k - 1 < n
    BY <1>4, <2>1 DEF Among
  <2> QED BY <1>3, <2>1, <2>2
<1>7. \A i, j \in 1..m : <<list[i], list[j]>> \in R <=> i < j
  BY <1>2 DEF Lists
<1> QED BY <1>1, <1>5, <1>6, <1>7 DEF Lists

Later(S) == {p \in S \X S : p[1] > p[2]}

(* The numbers of a set, each with a place that those before it come to     *)
Descends(list, n, S) ==
  /\ \A k \in 1..n : list[k] \in S
  /\ \A x \in S : \E k \in 1..n : list[k] = x
  /\ \A i, j \in 1..n : list[i] > list[j] <=> i < j
Ascends(list, n, S) ==
  /\ \A k \in 1..n : list[k] \in S
  /\ \A x \in S : \E k \in 1..n : list[k] = x
  /\ \A i, j \in 1..n : list[i] < list[j] <=> i < j

LEMMA FirstOf ==
  ASSUME NEW S, NEW list \in Seq(S), NEW n \in Nat
  PROVE  Caches!First(n, list) = [k \in 1..Least(Len(list), n) |-> list[k]]
BY DEF Caches!First, Least

LEMMA OldestFirst ==
  ASSUME NEW S \in SUBSET Nat, IsFiniteSet(S)
  PROVE  \E n \in Nat : /\ Caches!InTurn(S) \in Seq(S) /\ Len(Caches!InTurn(S)) = n
                        /\ Ascends(Caches!InTurn(S), n, S)
<1>1. PICK R : R = {p \in S \X S : p[1] < p[2]}
  OBVIOUS
<1>2. Orders(R, S)
  BY <1>1 DEF Orders
<1>3. Caches!InTurn(S) = Ranked(S, R)
  BY <1>1, SameRanks DEF Caches!InTurn
<1>4. /\ Cardinality(S) \in Nat /\ Lists(Ranked(S, R), Cardinality(S), S, R)
      /\ Ranked(S, R) \in Seq(S) /\ Len(Ranked(S, R)) = Cardinality(S)
  BY <1>2, RankedLists
<1>5. Ascends(Ranked(S, R), Cardinality(S), S)
  BY <1>1, <1>4 DEF Lists, Ascends
<1> QED BY <1>3, <1>4, <1>5

LEMMA DescendsLists ==
  ASSUME NEW S \in SUBSET Nat, NEW list, NEW n \in Nat
  PROVE  Descends(list, n, S) <=> Lists(list, n, S, Later(S))
<1>1. ASSUME \A k \in 1..n : list[k] \in S, NEW i \in 1..n, NEW j \in 1..n
      PROVE  list[i] > list[j] <=> <<list[i], list[j]>> \in Later(S)
  BY <1>1 DEF Later
<1> QED BY <1>1 DEF Descends, Lists

(* Of a list of numbers from the largest on the first n are the n largest.  *)
LEMMA Largest ==
  ASSUME NEW S \in SUBSET Nat, NEW list, NEW c \in Nat, Descends(list, c, S), NEW n \in Nat
  PROVE  /\ Least(c, n) \in 0..c /\ Descends(list, Least(c, n), Caches!NewestOf(S, n))
         /\ Caches!NewestOf(S, n) \in SUBSET S
<1>1. Lists(list, c, S, Later(S))
  BY DescendsLists
<1>2. Least(c, n) \in 0..c /\ Lists(list, Least(c, n), Among(S, Later(S), n), Later(S))
  BY <1>1, Firsts
<1>3. ASSUME NEW i \in S PROVE Ahead(i, S, Later(S)) = {j \in S : j > i}
  BY DEF Ahead, Later
<1>4. Caches!NewestOf(S, n) = Among(S, Later(S), n)
  BY <1>3, SameCounts DEF Caches!NewestOf, Among
<1>5. PICK m \in Nat : m = Least(c, n)
  BY <1>2
<1>6. Descends(list, m, Among(S, Later(S), n))
  <2>1. \A i, j \in 1..m : list[i] \in S /\ list[j] \in S
    BY <1>2, <1>5 DEF Lists, Among
  <2>2. \A i, j \in 1..m : list[i] > list[j] <=> i < j
    BY <1>2, <1>5, <2>1 DEF Lists, Later
  <2> QED BY <1>2, <1>5, <2>2 DEF Lists, Descends
<1> QED BY <1>2, <1>4, <1>5, <1>6 DEF Among

LEMMA NewestFirst ==
  ASSUME NEW S \in SUBSET Nat, IsFiniteSet(S)
  PROVE  /\ Ranked(S, Later(S)) \in Seq(S) /\ Len(Ranked(S, Later(S))) = Cardinality(S)
         /\ Cardinality(S) \in Nat /\ Descends(Ranked(S, Later(S)), Cardinality(S), S)
<1>1. Orders(Later(S), S)
  BY DEF Orders, Later
<1>2. /\ Cardinality(S) \in Nat /\ Lists(Ranked(S, Later(S)), Cardinality(S), S, Later(S))
      /\ Ranked(S, Later(S)) \in Seq(S) /\ Len(Ranked(S, Later(S))) = Cardinality(S)
  BY <1>1, RankedLists
<1> QED BY <1>2, DescendsLists

-----------------------------------------------------------------------------
(* SemanticSearch: what was in the file when the process opened its cache   *)
(* is in its rows, a search that waits does not wait for any of that, and   *)
(* the warmup has at least what the file has                                *)

HasRow(kept, t) == Caches!get_embedding(kept, t, model) # None
WaitOK(s) ==
  /\ {"pc", "query", "docs", "own"} \subseteq DOMAIN s
  /\ s.pc \in {"query", "batch"}
  /\ s.pc = "query" => s.query \notin imported
  /\ s.pc = "batch" => \A t \in Caches!TextsOf(s.docs) \intersect imported : s.own[t] # None
RowsOK == imported \subseteq Texts /\ \A t \in imported : HasRow(rows, t)
OpenOK == ~opened => imported = {} /\ paid = {} /\ \A c \in Workers : call[c] = Caches!Free
WarmOK ==
  warm.pc = "embedding" => {"pc", "todo", "own"} \subseteq DOMAIN warm /\ Caches!Known(json) \subseteq Caches!Known(warm.own)
SearchOK(s) == s = Caches!Free \/ WaitOK(s)
CachesInv ==
  /\ Caches!ConstantsOK
  /\ model \in Models /\ DOMAIN call = Workers
  /\ RowsOK /\ OpenOK /\ WarmOK
  /\ \A c \in Workers : SearchOK(call[c])
  /\ Caches!VectorsKept

(* No search, no vectors.                                                   *)
LEMMA CachesInit == Caches!ConstantsOK /\ Caches!Init => CachesInv
<1> SUFFICES ASSUME Caches!ConstantsOK, Caches!Init PROVE CachesInv
  OBVIOUS
<1>1. warm.pc = "collecting" /\ imported = {} /\ paid = {} /\ saved = {}
  BY DEF Caches!Init, Caches!Booting
<1>2. model \in Models /\ call = [c \in Workers |-> Caches!Free]
  BY DEF Caches!Init
<1> QED BY <1>1, <1>2 DEF CachesInv, RowsOK, OpenOK, WarmOK, SearchOK, Caches!VectorsKept

(* put_embedding and the import only add rows (sqlite_cache.py).            *)
LEMMA RowsGrow ==
  ASSUME NEW got, NEW m \in Models, NEW t \in Texts, NEW n \in Models
  PROVE  Caches!get_embedding(Caches!put_embeddings(got, m), t, n) =
           IF n = m /\ got[t] # None THEN got[t] ELSE Caches!get_embedding(rows, t, n)
<1>1. <<t, n>> \in Texts \X Models /\ <<t, n>>[1] = t /\ <<t, n>>[2] = n
  OBVIOUS
<1> QED BY <1>1 DEF Caches!put_embeddings, Caches!get_embedding

(* A search of a process with an open cache takes a step: it may pay for    *)
(* texts that were not imported.                                            *)
LEMMA SearchesKeep ==
  ASSUME CachesInv, UNCHANGED <<json, model, saved, imported, opened, warm>>, RowsOK', opened,
         NEW new, paid' = paid \union new, new \intersect imported = {},
         NEW c \in Workers, NEW s, call' = [call EXCEPT ![c] = s], SearchOK(s)'
  PROVE  CachesInv'
<1>1. DOMAIN call' = Workers /\ call'[c] = s /\ \A x \in Workers \ {c} : call'[x] = call[x]
  BY DEF CachesInv
<1>2. \A x : SearchOK(x)' <=> SearchOK(x)
  BY DEF SearchOK, WaitOK, Caches!Free
<1>3. \A x \in Workers : SearchOK(call'[x])
  BY <1>1, <1>2 DEF CachesInv
<1>4. (\A x \in Workers : SearchOK(call[x]))'
  BY <1>3, <1>2
<1>5. OpenOK' /\ WarmOK'
  BY DEF CachesInv, OpenOK, WarmOK, Caches!Known
<1>6. Caches!VectorsKept'
  BY DEF CachesInv, Caches!VectorsKept, Caches!Known
<1> QED BY <1>1, <1>4, <1>5, <1>6 DEF CachesInv, Caches!ConstantsOK

(* A search that waits does so in a process that has opened its cache.      *)
LEMMA Waits ==
  ASSUME CachesInv, NEW c \in Workers, call[c].pc \in {"query", "batch"}
  PROVE  opened /\ WaitOK(call[c])
<1>1. call[c] # Caches!Free
  BY DEF Caches!Free
<1> QED BY <1>1 DEF CachesInv, SearchOK, OpenOK

(* A search whose query has a vector answers, or waits for texts that the   *)
(* cache does not have.                                                     *)
LEMMA ProceedKeeps ==
  ASSUME NEW c, NEW s, NEW kept, {"pc", "query", "docs", "own"} \subseteq DOMAIN s,
         imported' \subseteq Texts, model' = model, \A t \in imported' : HasRow(kept, t),
         Caches!Proceed(c, s, kept)
  PROVE  \E r : call' = [call EXCEPT ![c] = r] /\ SearchOK(r)'
<1>1. PICK own : own = Caches!Lookup(Caches!TextsOf(s.docs), s.own, kept)
  OBVIOUS
<1>2. PICK t : t = [s EXCEPT !.pc = "batch", !.own = own]
  OBVIOUS
<1>3. t.pc = "batch" /\ t.own = own /\ t.docs = s.docs /\ DOMAIN t = DOMAIN s
  BY <1>2
<1>4. \A x \in Caches!TextsOf(s.docs) \intersect imported' : own[x] # None
  <2> SUFFICES ASSUME NEW x \in Caches!TextsOf(s.docs) \intersect imported' PROVE own[x] # None
    OBVIOUS
  <2>1. x \in Texts /\ Caches!get_embedding(kept, x, model) # None
    BY DEF HasRow
  <2> QED BY <1>1, <2>1 DEF Caches!Lookup
<1>5. WaitOK(t)'
  <2>1. Caches!TextsOf(t.docs) = Caches!TextsOf(s.docs)
    BY <1>3
  <2>2. Caches!TextsOf(t.docs)' = Caches!TextsOf(t.docs)
    BY DEF Caches!TextsOf
  <2> QED BY <1>3, <1>4, <2>1, <2>2 DEF WaitOK
<1>6. call' = [call EXCEPT ![c] = Caches!Free] \/ call' = [call EXCEPT ![c] = t]
  BY <1>1, <1>2 DEF Caches!Proceed, Caches!Answer, Caches!Await
<1>7. SearchOK(Caches!Free)'
  BY DEF SearchOK, Caches!Free
<1> QED BY <1>5, <1>6, <1>7 DEF SearchOK

(* put_embedding adds rows, or none.                                        *)
LEMMA KeepKeeps ==
  ASSUME CachesInv, NEW texts, Caches!Keep(texts), UNCHANGED <<model, imported>>
  PROVE  RowsOK'
<1> SUFFICES ASSUME NEW t \in imported PROVE HasRow(rows, t)'
  BY DEF RowsOK, CachesInv
<1>1. t \in Texts /\ model \in Models /\ Caches!get_embedding(rows, t, model) # None /\ Caches!Vec(t) # None
  BY DEF CachesInv, RowsOK, HasRow, Caches!ConstantsOK, Caches!Vec, Caches!Vector
<1>2. CASE rows' = rows
  BY <1>1, <1>2 DEF HasRow, Caches!get_embedding
<1>3. CASE rows' = Caches!put_embeddings([x \in Texts |-> IF x \in texts THEN Caches!Vec(x) ELSE None], model)
  <2>1. PICK got : got = [x \in Texts |-> IF x \in texts THEN Caches!Vec(x) ELSE None]
    OBVIOUS
  <2>2. PICK m \in Models : m = model
    BY <1>1
  <2>3. Caches!get_embedding(Caches!put_embeddings(got, m), t, m) # None
    BY <1>1, <2>2, RowsGrow
  <2>4. rows' = Caches!put_embeddings(got, m)
    BY <1>3, <2>1, <2>2
  <2>5. Caches!get_embedding(rows', t, model') # None
    BY <2>2, <2>3, <2>4 DEF Caches!get_embedding
  <2> QED BY <2>5 DEF HasRow, Caches!get_embedding
<1> QED BY <1>2, <1>3 DEF Caches!Keep

(* The cache is opened by the first call that needs it, before any search   *)
(* has paid for anything.                                                   *)
LEMMA OpenKeeps ==
  ASSUME CachesInv, Caches!OpenCache, UNCHANGED model
  PROVE  /\ opened' /\ RowsOK' /\ imported' \intersect paid = {}
         /\ \A c \in Workers : \A s : s = call[c] => SearchOK(s)'
<1>1. CASE opened
  <2>1. UNCHANGED <<opened, rows, imported>>
    BY <1>1 DEF Caches!OpenCache
  <2>2. RowsOK'
    BY <2>1 DEF CachesInv, RowsOK, HasRow, Caches!get_embedding
  <2>3. \A s : SearchOK(s)' <=> SearchOK(s)
    BY <2>1 DEF SearchOK, WaitOK, Caches!Free
  <2> QED BY <1>1, <2>1, <2>2, <2>3 DEF CachesInv, Caches!VectorsKept
<1>2. CASE ~opened
  <2>1. opened' = TRUE /\ imported = {} /\ paid = {} /\ \A c \in Workers : call[c] = Caches!Free
    BY <1>2 DEF Caches!OpenCache, CachesInv, OpenOK
  <2>2. SearchOK(Caches!Free)'
    BY DEF SearchOK, Caches!Free
  <2>3. CASE UNCHANGED <<rows, imported>>
    BY <2>1, <2>2, <2>3 DEF RowsOK
  <2>4. CASE rows' = Caches!import_legacy_embeddings_json(json, model) /\ imported' = Caches!Known(json)
    <3> SUFFICES ASSUME NEW t \in imported' PROVE HasRow(rows, t)' /\ t \in Texts
      BY <2>1, <2>2 DEF RowsOK
    <3>1. PICK got : got = json
      OBVIOUS
    <3>2. PICK m \in Models : m = model
      BY DEF CachesInv
    <3>3. t \in Texts /\ got[t] # None
      BY <2>4, <3>1 DEF Caches!Known
    <3>4. Caches!get_embedding(Caches!put_embeddings(got, m), t, m) # None
      BY <3>3, RowsGrow
    <3>5. rows' = Caches!put_embeddings(got, m)
      BY <2>4, <3>1, <3>2 DEF Caches!import_legacy_embeddings_json
    <3>6. Caches!get_embedding(rows', t, model') # None
      BY <3>2, <3>4, <3>5 DEF Caches!get_embedding
    <3> QED BY <3>3, <3>6 DEF HasRow, Caches!get_embedding
  <2> QED BY <1>2, <2>3, <2>4 DEF Caches!OpenCache
<1> QED BY <1>1, <1>2

(* The vector of the query has come.                                        *)
LEMMA QueryKeeps ==
  ASSUME CachesInv, NEW c \in Workers, Caches!QueryEmbedded(c)
  PROVE  CachesInv'
<1>1. opened /\ WaitOK(call[c]) /\ call[c].pc = "query" /\ call[c].query \notin imported
  BY Waits DEF Caches!QueryEmbedded, WaitOK
<1>2. PICK q : q = call[c].query
  OBVIOUS
<1>3. Caches!Keep({q}) /\ paid' = paid \union {q} /\ UNCHANGED <<json, model, saved, imported, opened, warm>>
  BY <1>2 DEF Caches!QueryEmbedded, Caches!Paid
<1>4. RowsOK'
  BY <1>3, KeepKeeps
<1>5. PICK kept : kept = rows'
  OBVIOUS
<1>6. PICK s : s = [call[c] EXCEPT !.own[q] = Caches!Vec(q)]
  OBVIOUS
<1>7. Caches!Proceed(c, s, kept)
  BY <1>2, <1>5, <1>6 DEF Caches!QueryEmbedded, Caches!Proceed, Caches!Answer, Caches!Await
<1>8. DOMAIN s = DOMAIN call[c]
  BY <1>6
<1>9. imported' \subseteq Texts /\ \A t \in imported' : HasRow(kept, t)
  BY <1>3, <1>4, <1>5 DEF RowsOK, HasRow, Caches!get_embedding
<1>10. PICK r : call' = [call EXCEPT ![c] = r] /\ SearchOK(r)'
  BY <1>1, <1>3, <1>7, <1>8, <1>9, ProceedKeeps DEF WaitOK
<1>11. {q} \intersect imported = {}
  BY <1>1, <1>2
<1> QED BY <1>1, <1>3, <1>4, <1>10, <1>11, SearchesKeep

(* The vectors of the documents have come, or the provider fails.           *)
LEMMA BatchKeeps ==
  ASSUME CachesInv, NEW c \in Workers, Caches!BatchEmbedded(c) \/ Caches!ProviderFails(c)
  PROVE  CachesInv'
<1>1. opened /\ WaitOK(call[c])
  BY Waits DEF Caches!BatchEmbedded, Caches!ProviderFails
<1>2. UNCHANGED <<json, model, saved, imported, opened, warm>> /\ call' = [call EXCEPT ![c] = Caches!Free]
  BY DEF Caches!BatchEmbedded, Caches!ProviderFails, Caches!history, Caches!Answer, Caches!Await
<1>3. SearchOK(Caches!Free)'
  BY DEF SearchOK, Caches!Free
<1>4. CASE Caches!BatchEmbedded(c)
  <2>1. PICK texts : texts = {t \in Caches!TextsOf(call[c].docs) : call[c].own[t] = None}
    OBVIOUS
  <2>2. Caches!Keep(texts) /\ paid' = paid \union texts
    BY <1>4, <2>1 DEF Caches!BatchEmbedded, Caches!Paid
  <2>3. texts \intersect imported = {}
    BY <1>1, <1>4, <2>1 DEF Caches!BatchEmbedded, WaitOK
  <2> QED BY <1>1, <1>2, <1>3, <2>2, <2>3, KeepKeeps, SearchesKeep
<1>5. CASE Caches!ProviderFails(c)
  <2>1. UNCHANGED <<rows, paid>>
    BY <1>5 DEF Caches!ProviderFails, Caches!history
  <2>2. RowsOK'
    BY <1>2, <2>1 DEF CachesInv, RowsOK, HasRow, Caches!get_embedding
  <2>3. paid' = paid \union {} /\ {} \intersect imported = {}
    BY <2>1
  <2> QED BY <1>1, <1>2, <1>3, <2>2, <2>3, SearchesKeep
<1> QED BY <1>4, <1>5

(* What a call that opens the cache leaves.                                 *)
LEMMA OpenedKeeps ==
  ASSUME CachesInv, Caches!OpenCache, UNCHANGED <<json, model, saved, paid, warm>>,
         call' = call \/ (\E c \in Workers : \E r : call' = [call EXCEPT ![c] = r] /\ SearchOK(r)')
  PROVE  CachesInv'
<1>1. /\ opened' /\ RowsOK' /\ imported' \intersect paid = {}
      /\ \A c \in Workers : \A s : s = call[c] => SearchOK(s)'
  BY OpenKeeps
<1>2. OpenOK' /\ WarmOK' /\ Caches!VectorsKept'
  BY <1>1 DEF CachesInv, OpenOK, WarmOK, Caches!VectorsKept, Caches!Known
<1>3. DOMAIN call' = Workers /\ \A w \in Workers : \A s : s = call'[w] => SearchOK(s)'
  BY <1>1 DEF CachesInv
<1>4. (\A w \in Workers : SearchOK(call[w]))'
  <2> SUFFICES ASSUME NEW w \in Workers PROVE SearchOK(call[w])'
    BY DEF CachesInv
  <2>1. PICK s : s = call'[w]
    OBVIOUS
  <2>2. SearchOK(s)'
    BY <1>3, <2>1
  <2> QED BY <2>1, <2>2 DEF SearchOK, WaitOK, Caches!Free
<1> QED BY <1>1, <1>2, <1>3, <1>4 DEF CachesInv, Caches!ConstantsOK

(* semantic_search_emails begins: it answers, or waits for what the cache   *)
(* does not have.                                                           *)
LEMMA SearchKeeps ==
  ASSUME CachesInv, NEW c \in Workers, Caches!Search(c)
  PROVE  CachesInv'
<1>1. Caches!OpenCache /\ UNCHANGED <<json, model, saved, paid, warm>>
  BY DEF Caches!Search
<1>2. RowsOK' /\ imported' \subseteq Texts
  BY <1>1, OpenKeeps DEF RowsOK
<1>3. PICK kept : kept = rows'
  OBVIOUS
<1>4. \A t \in imported' : HasRow(kept, t)
  BY <1>1, <1>2, <1>3 DEF RowsOK, HasRow, Caches!get_embedding
<1>5. PICK q \in Queries, f \in Folders, limit \in Limits :
        LET s == [pc |-> "query", query |-> q, limit |-> limit, docs |-> Caches!Documents(f),
                  box |-> [i \in {x \in Messages : FolderOf[x] = f} |-> mail[i]],
                  own |-> [Caches!NoVectors EXCEPT ![q] = Caches!get_embedding(kept, q, model)]]
        IN IF s.docs = <<>> THEN Caches!Answer(c, s, <<>>)
           ELSE IF s.own[q] = None THEN Caches!Await(c, s)
           ELSE Caches!Proceed(c, s, kept)
  BY <1>3, Zenon DEF Caches!Search
<1>6. PICK s :
        /\ s = [pc |-> "query", query |-> q, limit |-> limit, docs |-> Caches!Documents(f),
                box |-> [i \in {x \in Messages : FolderOf[x] = f} |-> mail[i]],
                own |-> [Caches!NoVectors EXCEPT ![q] = Caches!get_embedding(kept, q, model)]]
        /\ IF s.docs = <<>> THEN Caches!Answer(c, s, <<>>)
           ELSE IF s.own[q] = None THEN Caches!Await(c, s)
           ELSE Caches!Proceed(c, s, kept)
  BY <1>5, Zenon
<1>7. /\ {"pc", "query", "docs", "own"} \subseteq DOMAIN s /\ s.pc = "query" /\ s.query = q
      /\ s.own = [Caches!NoVectors EXCEPT ![q] = Caches!get_embedding(kept, q, model)]
  BY <1>6
<1>8. s.own[q] = None => q \notin imported'
  <2> SUFFICES ASSUME q \in imported' PROVE s.own[q] # None
    OBVIOUS
  <2>1. q \in Texts /\ Caches!get_embedding(kept, q, model) # None
    BY <1>2, <1>4 DEF HasRow
  <2> QED BY <1>7, <2>1 DEF Caches!NoVectors
<1>9. s.own[q] = None => SearchOK(s)'
  BY <1>7, <1>8 DEF SearchOK, WaitOK
<1>10. SearchOK(Caches!Free)'
  BY DEF SearchOK, Caches!Free
<1>11. Caches!Proceed(c, s, kept) => \E r : call' = [call EXCEPT ![c] = r] /\ SearchOK(r)'
  BY <1>1, <1>2, <1>4, <1>7, ProceedKeeps
<1>12. \E r : call' = [call EXCEPT ![c] = r] /\ SearchOK(r)'
  BY <1>6, <1>9, <1>10, <1>11 DEF Caches!Answer, Caches!Await
<1> QED BY <1>1, <1>12, OpenedKeeps

(* get_email_details touches no vector, but may open the cache.             *)
LEMMA DetailsKeep ==
  ASSUME CachesInv, NEW i, NEW fmt, NEW trim, Caches!GetEmailDetails(i, fmt, trim)
  PROVE  CachesInv'
BY OpenedKeeps DEF Caches!GetEmailDetails

(* A batch of the warmup adds to what it has.                               *)
LEMMA EmbeddedGrows ==
  ASSUME CachesInv
  PROVE  Caches!Known(warm.own) \subseteq Caches!Known(Caches!Embedded)
<1> SUFFICES ASSUME NEW t \in Texts, warm.own[t] # None PROVE Caches!Embedded[t] # None
  BY DEF Caches!Known
<1>1. Caches!Vec(t) # None
  BY DEF CachesInv, Caches!ConstantsOK, Caches!Vec, Caches!Vector
<1> QED BY <1>1 DEF Caches!Embedded

(* The warmup never knows less than the file, which it replaces at its end  *)
(* or not at all (_run_embedding_warmup, _save_cache).                      *)
LEMMA WarmupKeeps ==
  ASSUME CachesInv, Caches!Collect \/ Caches!WarmBatch \/ Caches!LastBatch
  PROVE  CachesInv'
<1>1. UNCHANGED <<rows, model, call, opened, imported, paid>>
  BY DEF Caches!Collect, Caches!WarmBatch, Caches!LastBatch, Caches!history
<1>2. RowsOK' /\ OpenOK'
  BY <1>1 DEF CachesInv, RowsOK, HasRow, Caches!get_embedding, OpenOK, Caches!Free
<1>3. \A c \in Workers : SearchOK(call[c])'
  BY <1>1 DEF CachesInv, SearchOK, WaitOK, Caches!Free
<1>4. WarmOK' /\ Caches!VectorsKept'
  <2>1. CASE Caches!Collect
    <3>1. UNCHANGED <<json, saved>>
      BY <2>1 DEF Caches!Collect, Caches!history
    <3>2. warm'.pc = "embedding" => {"pc", "todo", "own"} \subseteq DOMAIN warm' /\ warm'.own = json
      BY <2>1 DEF Caches!Collect, Caches!load_cache, Caches!Warmed
    <3> QED BY <1>1, <3>1, <3>2 DEF CachesInv, WarmOK, Caches!VectorsKept, Caches!Known
  <2>2. CASE Caches!WarmBatch
    <3>1. UNCHANGED <<json, saved>>
      BY <2>2 DEF Caches!WarmBatch, Caches!history
    <3>2. PICK own \in {Caches!Embedded, warm.own} :
            warm' = [warm EXCEPT !.todo = SubSeq(@, BatchSize + 1, Len(@)), !.own = own]
      BY <2>2 DEF Caches!WarmBatch
    <3>3. {"pc", "todo", "own"} \subseteq DOMAIN warm /\ Caches!Known(json) \subseteq Caches!Known(warm.own)
      BY <2>2 DEF Caches!WarmBatch, CachesInv, WarmOK
    <3>4. DOMAIN warm' = DOMAIN warm /\ warm'.own = own
      BY <3>2, <3>3
    <3>5. Caches!Known(json) \subseteq Caches!Known(own)
      BY <3>2, <3>3, EmbeddedGrows
    <3> QED BY <1>1, <3>1, <3>3, <3>4, <3>5 DEF CachesInv, WarmOK, Caches!VectorsKept, Caches!Known
  <2>3. CASE Caches!LastBatch
    <3>1. PICK file : Caches!WarmupEnds(file) /\ file \in {Caches!Embedded, warm.own, json}
      BY <2>3 DEF Caches!LastBatch, Caches!NotSaved
    <3>2. Caches!Known(json) \subseteq Caches!Known(file)
      BY <2>3, <3>1, EmbeddedGrows DEF Caches!LastBatch, CachesInv, WarmOK
    <3>3. json' = file /\ saved' = saved \union Caches!Known(file) /\ warm'.pc = "done"
      BY <3>1 DEF Caches!WarmupEnds, Caches!Warmed
    <3> QED BY <1>1, <3>2, <3>3 DEF CachesInv, WarmOK, Caches!VectorsKept, Caches!Known
  <2> QED BY <2>1, <2>2, <2>3
<1> QED BY <1>1, <1>2, <1>3, <1>4 DEF CachesInv, Caches!ConstantsOK

(* Other clients change no vector.                                          *)
LEMMA VectorsStay ==
  ASSUME CachesInv, UNCHANGED <<rows, json, model, call, warm, opened, imported, paid, saved>>
  PROVE  CachesInv'
<1>1. RowsOK' /\ OpenOK' /\ WarmOK' /\ Caches!VectorsKept'
  BY DEF CachesInv, RowsOK, HasRow, Caches!get_embedding, OpenOK, Caches!Free, WarmOK, Caches!VectorsKept, Caches!Known
<1>2. \A c \in Workers : SearchOK(call[c])'
  BY DEF CachesInv, SearchOK, WaitOK, Caches!Free
<1> QED BY <1>1, <1>2 DEF CachesInv, Caches!ConstantsOK

(* A new process has opened nothing and paid for nothing.                   *)
LEMMA NewProcessKeeps ==
  ASSUME CachesInv, NEW m \in Models, Caches!Restart(m)
  PROVE  CachesInv'
<1>1. /\ model' = m /\ call' = [c \in Workers |-> Caches!Free] /\ warm'.pc = "collecting"
      /\ imported' = {} /\ paid' = {} /\ UNCHANGED <<json, saved>>
  BY DEF Caches!Restart, Caches!Booting
<1>2. RowsOK' /\ OpenOK' /\ WarmOK' /\ Caches!VectorsKept'
  BY <1>1 DEF CachesInv, RowsOK, OpenOK, Caches!Free, WarmOK, Caches!VectorsKept, Caches!Known
<1>3. \A c \in Workers : SearchOK(call[c])'
  BY <1>1 DEF SearchOK, Caches!Free
<1> QED BY <1>1, <1>2, <1>3 DEF CachesInv, Caches!ConstantsOK

(* Every step of the searches, the warmup, other clients and restarts keeps *)
(* the invariant.                                                           *)
LEMMA CachesNext == CachesInv /\ [Caches!Next]_(Caches!vars) => CachesInv'
<1> SUFFICES ASSUME CachesInv, [Caches!Next]_(Caches!vars) PROVE CachesInv'
  OBVIOUS
<1>1. CASE UNCHANGED Caches!vars
  BY <1>1, VectorsStay DEF Caches!vars, Caches!history
<1>2. CASE \E c \in Workers : Caches!Search(c) \/ Caches!QueryEmbedded(c) \/ Caches!BatchEmbedded(c) \/ Caches!ProviderFails(c)
  BY <1>2, SearchKeeps, QueryKeeps, BatchKeeps
<1>3. CASE Caches!Collect \/ Caches!WarmBatch \/ Caches!LastBatch
  BY <1>3, WarmupKeeps
<1>4. CASE \E i \in Messages, fmt \in {"html", "text", "markdown"}, trim \in BOOLEAN :
             Caches!GetEmailDetails(i, fmt, trim)
  BY <1>4, DetailsKeep
<1>5. CASE \E i \in Messages, t \in (Texts \ Queries) \union {None} : Caches!Change(i, t)
  BY <1>5, VectorsStay DEF Caches!Change
<1>6. CASE \E m \in Models : Caches!Restart(m)
  BY <1>6, NewProcessKeeps
<1> QED BY <1>1, <1>2, <1>3, <1>4, <1>5, <1>6 DEF Caches!Next

-----------------------------------------------------------------------------
(* SemanticSearch: the vectors are those of their texts and models, unless  *)
(* another model's were imported; a search that waits has the newest mails  *)
(* of its folder; bodies are texts the messages had.                        *)

There(f) == {i \in Messages : FolderOf[i] = f /\ mail[i] # None}

LEMMA ThereOK ==
  ASSUME Caches!ConstantsOK, NEW f
  PROVE  There(f) \in SUBSET Nat /\ IsFiniteSet(There(f))
BY FS_Subset, SameCounts DEF Caches!ConstantsOK, There

LEMMA NewestRight ==
  ASSUME Caches!ConstantsOK, NEW f, NEW n \in Nat
  PROVE  \E m \in Nat :
           /\ DOMAIN Caches!Newest(f, n) = 1..m
           /\ Descends(Caches!Newest(f, n), m, Caches!NewestOf(There(f), n))
<1>1. PICK S : S = There(f)
  OBVIOUS
<1>2. S \in SUBSET Nat /\ IsFiniteSet(S)
  BY <1>1, ThereOK
<1>3. PICK list : list = Ranked(S, Later(S))
  OBVIOUS
<1>4. list \in Seq(S) /\ Len(list) \in Nat /\ Descends(list, Len(list), S)
  BY <1>2, <1>3, NewestFirst
<1>5. Caches!Newest(f, n) = Caches!First(n, list)
  BY <1>1, <1>3, SameRanks DEF Caches!Newest, There, Later
<1>6. PICK m \in Nat : m = Least(Len(list), n)
  BY <1>4 DEF Least
<1>7. Caches!Newest(f, n) = [k \in 1..m |-> list[k]]
  BY <1>4, <1>5, <1>6, FirstOf
<1>8. Descends(list, m, Caches!NewestOf(S, n))
  BY <1>2, <1>4, <1>6, Largest
<1>9. Descends([k \in 1..m |-> list[k]], m, Caches!NewestOf(S, n))
  BY <1>8 DEF Descends
<1> QED BY <1>1, <1>7, <1>9

Recent(S) == Caches!NewestOf(Caches!NewestOf(S, 3 * EmbedCap) \ Automated, EmbedCap)

(* The documents of a search are the newest messages of its folder.         *)
DocsOK(docs, S, texts) ==
  \E m \in Nat : /\ DOMAIN docs = 1..m
                 /\ Descends([k \in 1..m |-> docs[k].id], m, Recent(S))
                 /\ \A k \in 1..m : docs[k].text = texts[docs[k].id]

LEMMA DocumentsRight ==
  ASSUME Caches!ConstantsOK, NEW f
  PROVE  DocsOK(Caches!Documents(f), There(f), mail)
<1>1. PICK list : list = Caches!Newest(f, 3 * EmbedCap)
  OBVIOUS
<1>2. PICK read : read = Caches!NewestOf(There(f), 3 * EmbedCap)
  OBVIOUS
<1>3. EmbedCap \in Nat /\ 3 * EmbedCap \in Nat
  BY DEF Caches!ConstantsOK
<1>4. PICK n \in Nat : DOMAIN list = 1..n /\ Descends(list, n, read)
  BY <1>1, <1>2, <1>3, NewestRight
<1>5. read \in SUBSET Nat
  BY <1>2, ThereOK DEF Caches!NewestOf
<1>6. PICK I : I = {k \in 1..n : list[k] \notin Automated}
  OBVIOUS
<1>7. I \in SUBSET Nat /\ IsFiniteSet(I) /\ I \subseteq 1..n
  BY <1>6, FS_Interval, FS_Subset
<1>8. PICK at : at = Caches!InTurn(I)
  OBVIOUS
<1>9. PICK c \in Nat : at \in Seq(I) /\ Len(at) = c /\ Ascends(at, c, I)
  BY <1>7, <1>8, OldestFirst
<1>10. PICK ids : ids = [k \in 1..c |-> list[at[k]]]
  OBVIOUS
<1>11. Descends(ids, c, read \ Automated)
  <2>1. \A k \in 1..c : at[k] \in 1..n /\ list[at[k]] \notin Automated /\ ids[k] = list[at[k]]
    BY <1>6, <1>9, <1>10 DEF Ascends
  <2>2. \A k \in 1..c : ids[k] \in read \ Automated
    BY <1>4, <2>1 DEF Descends
  <2>3. ASSUME NEW x \in read \ Automated PROVE \E k \in 1..c : ids[k] = x
    <3>1. PICK p \in 1..n : list[p] = x
      BY <1>4 DEF Descends
    <3>2. p \in I
      BY <1>6, <3>1
    <3>3. PICK k \in 1..c : at[k] = p
      BY <1>9, <3>2 DEF Ascends
    <3> QED BY <2>1, <3>1, <3>3
  <2>4. \A i, j \in 1..c : ids[i] > ids[j] <=> i < j
    BY <1>4, <1>9, <2>1 DEF Descends, Ascends
  <2> QED BY <2>2, <2>3, <2>4 DEF Descends
<1>12. PICK m \in 0..c : m = Least(c, EmbedCap)
  BY <1>3 DEF Least
<1>13. Descends(ids, m, Recent(There(f)))
  BY <1>2, <1>3, <1>5, <1>11, <1>12, Largest DEF Recent
<1>14. Caches!First(EmbedCap, at) = [k \in 1..m |-> at[k]]
  BY <1>3, <1>9, <1>12, FirstOf
<1>15. Caches!Documents(f) = [k \in 1..m |-> [id |-> list[at[k]], text |-> mail[list[at[k]]]]]
  <2>1. PICK wanted : wanted = Caches!First(EmbedCap, at)
    OBVIOUS
  <2>2. DOMAIN wanted = 1..m /\ \A k \in 1..m : wanted[k] = at[k]
    BY <1>14, <2>1
  <2>3. Caches!Documents(f) = [k \in DOMAIN wanted |-> [id |-> list[wanted[k]], text |-> mail[list[wanted[k]]]]]
    BY <1>1, <1>4, <1>6, <1>8, <2>1 DEF Caches!Documents
  <2> QED BY <2>2, <2>3
<1>16. \A k \in 1..m : Caches!Documents(f)[k].id = ids[k]
                       /\ Caches!Documents(f)[k].text = mail[Caches!Documents(f)[k].id]
  BY <1>10, <1>12, <1>15
<1>17. Descends([k \in 1..m |-> Caches!Documents(f)[k].id], m, Recent(There(f)))
  BY <1>13, <1>16 DEF Descends
<1>18. DOMAIN Caches!Documents(f) = 1..m /\ m \in Nat
  BY <1>15
<1> QED BY <1>16, <1>17, <1>18 DEF DocsOK

(* The vectors that come from the dict and the provider, in the order of    *)
(* the documents                                                            *)
VectorOf(own, t) == IF own[t] # None THEN own[t] ELSE Caches!Vec(t)

LEMMA BatchRight ==
  ASSUME NEW s, NEW m \in Nat, DOMAIN s.docs = 1..m
  PROVE  Caches!embed_batch(s) = [i \in 1..m |-> VectorOf(s.own, s.docs[i].text)]
<1>0. PICK W : W = [i \in 1..m |-> VectorOf(s.own, s.docs[i].text)]
  OBVIOUS
<1>1. PICK M : M = {i \in 1..m : s.own[s.docs[i].text] = None}
  OBVIOUS
<1>2. PICK F : F = {i \in 1..m : s.own[s.docs[i].text] # None}
  OBVIOUS
<1>3. /\ M \in SUBSET Nat /\ IsFiniteSet(M) /\ M \subseteq 1..m
      /\ F \in SUBSET Nat /\ IsFiniteSet(F) /\ F \subseteq 1..m
  <2>1. IsFiniteSet(1..m)
    BY FS_Interval
  <2>2. M \in SUBSET (1..m) /\ F \in SUBSET (1..m)
    BY <1>1, <1>2
  <2>3. IsFiniteSet(M) /\ IsFiniteSet(F)
    BY <2>1, <2>2, FS_Subset
  <2> QED BY <2>2, <2>3
<1>4. PICK missing : missing = Caches!InTurn(M)
  OBVIOUS
<1>5. PICK there : there = Caches!InTurn(F)
  OBVIOUS
<1>6. PICK a \in Nat : missing \in Seq(M) /\ Len(missing) = a /\ Ascends(missing, a, M)
  BY <1>3, <1>4, OldestFirst
<1>7. PICK b \in Nat : there \in Seq(F) /\ Len(there) = b /\ Ascends(there, b, F)
  BY <1>3, <1>5, OldestFirst
<1>8. PICK new : new = [k \in 1..a |-> [at |-> missing[k], vec |-> Caches!Vec(s.docs[missing[k]].text)]]
  OBVIOUS
<1>9. PICK old : old = [k \in 1..b |-> [at |-> there[k], vec |-> s.own[s.docs[there[k]].text]]]
  OBVIOUS
<1>10. \A k \in 1..a : missing[k] \in M /\ new[k].at = missing[k] /\ new[k].vec = W[missing[k]]
  BY <1>0, <1>1, <1>3, <1>6, <1>8 DEF Ascends, VectorOf
<1>11. \A k \in 1..b : there[k] \in F /\ old[k].at = there[k] /\ old[k].vec = W[there[k]]
  BY <1>0, <1>2, <1>3, <1>7, <1>9 DEF Ascends, VectorOf
<1>12. PICK pairs : pairs = old \o new
  OBVIOUS
<1>13. /\ DOMAIN pairs = 1..(a + b)
       /\ \A k \in 1..b : pairs[k] = old[k]
       /\ \A k \in 1..a : pairs[b + k] = new[k]
  BY <1>8, <1>9, <1>12
<1>14. Caches!embed_batch(s) = Caches!InOrder(pairs)
  <2>1. Caches!Missing(s) = missing
    BY <1>1, <1>4 DEF Caches!Missing
  <2>2. DOMAIN missing = 1..a /\ DOMAIN there = 1..b
    BY <1>6, <1>7
  <2> QED BY <1>2, <1>5, <1>8, <1>9, <1>12, <2>1, <2>2 DEF Caches!embed_batch
<1>15. ASSUME NEW p \in 1..(a + b) PROVE pairs[p].at \in 1..m /\ pairs[p].vec = W[pairs[p].at]
  <2>1. CASE p \in 1..b
    <3>1. pairs[p] = old[p] /\ old[p].at = there[p] /\ old[p].vec = W[there[p]]
      BY <1>11, <1>13, <2>1
    <3>2. there[p] \in 1..m
      BY <1>3, <1>11, <2>1
    <3>3. pairs[p].at = there[p] /\ pairs[p].vec = W[there[p]]
      BY <3>1
    <3> QED BY <3>2, <3>3
  <2>2. CASE p \notin 1..b
    <3>1. PICK k \in 1..a : p = b + k
      <4>1. p - b \in 1..a /\ p = b + (p - b)
        BY <2>2
      <4> QED BY <4>1
    <3>2. pairs[p] = new[k] /\ new[k].at = missing[k] /\ new[k].vec = W[missing[k]]
      BY <1>10, <1>13, <3>1
    <3>3. missing[k] \in 1..m
      BY <1>3, <1>10
    <3>4. pairs[p].at = missing[k] /\ pairs[p].vec = W[missing[k]]
      BY <3>2
    <3> QED BY <3>3, <3>4
  <2> QED BY <2>1, <2>2
<1>16. ASSUME NEW i \in 1..m PROVE \E p \in 1..(a + b) : pairs[p].at = i
  <2>1. CASE i \in F
    <3>1. PICK k \in 1..b : there[k] = i
      BY <1>7, <2>1 DEF Ascends
    <3>2. k \in 1..(a + b)
      OBVIOUS
    <3> QED BY <1>11, <1>13, <3>1, <3>2
  <2>2. CASE i \in M
    <3>1. PICK k \in 1..a : missing[k] = i
      BY <1>6, <2>2 DEF Ascends
    <3>2. b + k \in 1..(a + b)
      OBVIOUS
    <3> QED BY <1>10, <1>13, <3>1, <3>2
  <2> QED BY <1>1, <1>2, <2>1, <2>2
<1>17. ASSUME NEW p \in 1..(a + b), NEW q \in 1..(a + b), pairs[p].at = pairs[q].at, p < q PROVE FALSE
  <2>1. p \notin 1..b => \E k \in 1..a : p = b + k
    <3> SUFFICES ASSUME p \notin 1..b PROVE p - b \in 1..a /\ p = b + (p - b)
      OBVIOUS
    <3> QED OBVIOUS
  <2>2. q \notin 1..b => \E k \in 1..a : q = b + k
    <3> SUFFICES ASSUME q \notin 1..b PROVE q - b \in 1..a /\ q = b + (q - b)
      OBVIOUS
    <3> QED OBVIOUS
  <2>3. CASE p \in 1..b /\ q \in 1..b
    BY <1>3, <1>7, <1>11, <1>13, <1>17, <2>3 DEF Ascends
  <2>4. CASE p \in 1..b /\ q \notin 1..b
    <3>1. PICK k \in 1..a : q = b + k
      BY <2>2, <2>4
    <3>2. pairs[p].at \in F /\ pairs[q].at \in M
      BY <1>10, <1>11, <1>13, <2>4, <3>1
    <3> QED BY <1>1, <1>2, <1>17, <3>2
  <2>5. CASE p \notin 1..b /\ q \notin 1..b
    <3>1. PICK k \in 1..a : q = b + k
      BY <2>2, <2>5
    <3>2. PICK h \in 1..a : p = b + h
      BY <2>1, <2>5
    <3>3. h < k /\ missing[h] = missing[k]
      BY <1>10, <1>13, <1>17, <3>1, <3>2
    <3> QED BY <1>3, <1>6, <3>3 DEF Ascends
  <2> QED BY <1>17, <2>3, <2>4, <2>5
<1>18. PICK R : R = {p \in (1..(a + b)) \X (1..(a + b)) : pairs[p[1]].at < pairs[p[2]].at}
  OBVIOUS
<1>19. PICK l : l = [i \in 1..m |-> CHOOSE p \in 1..(a + b) : pairs[p].at = i]
  OBVIOUS
<1>20. \A i \in 1..m : l[i] \in 1..(a + b) /\ pairs[l[i]].at = i
  BY <1>16, <1>19
<1>21. Lists(l, m, 1..(a + b), R)
  <2>1. ASSUME NEW p \in 1..(a + b) PROVE \E i \in 1..m : l[i] = p
    <3>1. PICK i \in 1..m : i = pairs[p].at
      BY <1>15
    <3>2. l[i] \in 1..(a + b) /\ pairs[l[i]].at = pairs[p].at
      BY <1>20, <3>1
    <3>3. ~(l[i] < p) /\ ~(p < l[i])
      BY <1>17, <3>2
    <3> QED BY <3>2, <3>3
  <2>2. \A i, j \in 1..m : <<l[i], l[j]>> \in R <=> i < j
    BY <1>18, <1>20
  <2> QED BY <1>20, <2>1, <2>2 DEF Lists
<1>22. Ranked(1..(a + b), R) = [i \in 1..m |-> l[i]]
  BY <1>21, Ranks
<1>23. Caches!InOrder(pairs) = [i \in 1..m |-> pairs[l[i]].vec]
  <2>1. PICK sorted : sorted = Caches!Ranked(1..(a + b), R)
    OBVIOUS
  <2>2. Caches!InOrder(pairs) = [i \in DOMAIN sorted |-> pairs[sorted[i]].vec]
    BY <1>13, <1>18, <2>1 DEF Caches!InOrder
  <2>3. DOMAIN sorted = 1..m /\ \A i \in 1..m : sorted[i] = l[i]
    BY <1>22, <2>1, SameRanks
  <2> QED BY <2>2, <2>3
<1>24. \A i \in 1..m : pairs[l[i]].vec = W[i]
  BY <1>15, <1>20
<1>25. Caches!InOrder(pairs) = [i \in 1..m |-> W[i]]
  BY <1>23, <1>24
<1> QED BY <1>0, <1>14, <1>25

Filled(box) == {i \in DOMAIN box : box[i] # None}

(* What a search answers that has the right vector of each text.            *)
LEMMA AnswerIsBest ==
  ASSUME Caches!ConstantsOK, model \in Models, NEW s, NEW box, DOMAIN box \in SUBSET Messages,
         NEW q \in Texts, s.query = q, s.own[q] = Caches!Vec(q), s.limit \in Nat,
         DocsOK(s.docs, Filled(box), box), \A i \in DOMAIN s.docs : s.docs[i].text \in Texts,
         NEW vectors, \A i \in DOMAIN s.docs : vectors[i] = Caches!Vec(s.docs[i].text)
  PROVE  Caches!search_similar(s, vectors) = Caches!Best(box, q, s.limit)
<1>1. PICK m \in Nat : /\ DOMAIN s.docs = 1..m
                       /\ Descends([k \in 1..m |-> s.docs[k].id], m, Recent(Filled(box)))
                       /\ \A k \in 1..m : s.docs[k].text = box[s.docs[k].id]
  BY DEF DocsOK
<1>2. PICK ids : ids = [k \in 1..m |-> s.docs[k].id]
  OBVIOUS
<1>3. PICK all : all = Recent(Filled(box))
  OBVIOUS
<1>4. all \in SUBSET Nat /\ Descends(ids, m, all)
  <2>1. all \subseteq DOMAIN box
    BY <1>3 DEF Recent, Filled, Caches!NewestOf
  <2>2. Messages \subseteq Nat
    BY DEF Caches!ConstantsOK
  <2> QED BY <1>1, <1>2, <1>3, <2>1, <2>2
<1>5. PICK sc : sc = [i \in all |-> Cosine(Caches!Vec(q), Caches!Vec(box[i]))]
  OBVIOUS
<1>6. \A i \in all : box[i] \in Texts /\ sc[i] \in Int
  <2> SUFFICES ASSUME NEW i \in all PROVE box[i] \in Texts /\ sc[i] \in Int
    OBVIOUS
  <2>1. PICK k \in 1..m : ids[k] = i
    BY <1>4 DEF Descends
  <2>2. box[i] \in Texts
    BY <1>1, <1>2, <2>1
  <2>3. Caches!Vec(q) \in Caches!Vector /\ Caches!Vec(box[i]) \in Caches!Vector
    BY <2>2 DEF Caches!Vec, Caches!Vector
  <2> QED BY <1>5, <2>2, <2>3 DEF Caches!ConstantsOK
<1>7. PICK score : score = [i \in 1..m |-> Cosine(s.own[s.query], vectors[i])]
  OBVIOUS
<1>8. \A i \in 1..m : ids[i] \in all /\ score[i] = sc[ids[i]] /\ score[i] \in Int
  <2> SUFFICES ASSUME NEW i \in 1..m PROVE ids[i] \in all /\ score[i] = sc[ids[i]] /\ score[i] \in Int
    OBVIOUS
  <2>1. ids[i] \in all /\ ids[i] = s.docs[i].id
    BY <1>2, <1>4 DEF Descends
  <2>2. vectors[i] = Caches!Vec(box[ids[i]])
    BY <1>1, <2>1
  <2>3. score[i] = Cosine(Caches!Vec(q), Caches!Vec(box[ids[i]]))
    BY <1>7, <2>2
  <2> QED BY <1>5, <1>6, <2>1, <2>3
<1>9. Threshold \in Int
  BY DEF Caches!ConstantsOK
<1>10. PICK P : P = {i \in 1..m : score[i] >= Threshold}
  OBVIOUS
<1>11. PICK RP : RP = {p \in P \X P : score[p[1]] > score[p[2]] \/ (score[p[1]] = score[p[2]] /\ p[1] < p[2])}
  OBVIOUS
<1>12. P \in SUBSET (1..m) /\ IsFiniteSet(P)
  <2>1. P \in SUBSET (1..m) /\ IsFiniteSet(1..m)
    BY <1>10, FS_Interval
  <2> QED BY <2>1, FS_Subset
<1>13. Orders(RP, P)
  <2>1. \A i \in P : i \in Nat /\ score[i] \in Int
    BY <1>8, <1>12
  <2>2. \A i, j \in P : <<i, j>> \in RP <=> score[i] > score[j] \/ (score[i] = score[j] /\ i < j)
    BY <1>11
  <2> QED BY <2>1, <2>2 DEF Orders
<1>14. PICK at : at = Ranked(P, RP)
  OBVIOUS
<1>15. PICK c \in Nat : c = Cardinality(P) /\ Lists(at, c, P, RP) /\ at \in Seq(P) /\ Len(at) = c
  BY <1>12, <1>13, <1>14, RankedLists
<1>16. PICK n \in 0..c : n = Least(c, s.limit)
  BY DEF Least
<1>17. Caches!search_similar(s, vectors) = [k \in 1..n |-> ids[at[k]]]
  <2>1. PICK page : page = Caches!First(s.limit, at)
    OBVIOUS
  <2>2. page = [k \in 1..n |-> at[k]]
    BY <1>15, <1>16, <2>1, FirstOf
  <2>3. at = Caches!Ranked(P, RP)
    BY <1>14, SameRanks
  <2>4. Caches!search_similar(s, vectors) = [k \in DOMAIN page |-> s.docs[page[k]].id]
    BY <1>1, <1>7, <1>10, <1>11, <2>1, <2>3 DEF Caches!search_similar
  <2>5. \A k \in 1..n : at[k] \in 1..m
    <3>1. \A k \in 1..c : at[k] \in P
      BY <1>15 DEF Lists
    <3>2. 1..n \subseteq 1..c
      OBVIOUS
    <3> QED BY <1>12, <3>1, <3>2
  <2>6. \A k \in 1..n : page[k] = at[k] /\ ids[at[k]] = s.docs[page[k]].id
    BY <1>2, <2>2, <2>5
  <2> QED BY <2>2, <2>4, <2>6
<1>18. PICK H : H = {i \in all : sc[i] >= Threshold}
  OBVIOUS
<1>19. PICK RH : RH = {p \in H \X H : sc[p[1]] > sc[p[2]] \/ (sc[p[1]] = sc[p[2]] /\ p[1] > p[2])}
  OBVIOUS
<1>20. PICK l : l = [k \in 1..c |-> ids[at[k]]]
  OBVIOUS
<1>21. Lists(l, c, H, RH)
  <2>1. \A k \in 1..c : at[k] \in P /\ at[k] \in 1..m /\ l[k] = ids[at[k]]
    BY <1>12, <1>15, <1>20 DEF Lists
  <2>2. \A k \in 1..c : l[k] \in H
    BY <1>8, <1>10, <1>18, <2>1
  <2>3. ASSUME NEW x \in H PROVE \E k \in 1..c : l[k] = x
    <3>1. PICK p \in 1..m : ids[p] = x
      BY <1>4, <1>18 DEF Descends
    <3>2. p \in P
      BY <1>8, <1>10, <1>18, <3>1
    <3>3. PICK k \in 1..c : at[k] = p
      BY <1>15, <3>2 DEF Lists
    <3> QED BY <2>1, <3>1, <3>3
  <2>4. ASSUME NEW i \in 1..c, NEW j \in 1..c PROVE <<l[i], l[j]>> \in RH <=> i < j
    <3>1. PICK x \in 1..m : x = at[i]
      BY <2>1
    <3>2. PICK y \in 1..m : y = at[j]
      BY <2>1
    <3>3. <<x, y>> \in RP <=> i < j
      BY <1>15, <3>1, <3>2 DEF Lists
    <3>4. x \in P /\ y \in P /\ l[i] = ids[x] /\ l[j] = ids[y]
      BY <2>1, <3>1, <3>2
    <3>5. <<x, y>> \in RP <=> score[x] > score[y] \/ (score[x] = score[y] /\ x < y)
      BY <1>11, <3>4
    <3>6. ids[x] > ids[y] <=> x < y
      BY <1>4 DEF Descends
    <3>7. score[x] = sc[ids[x]] /\ score[y] = sc[ids[y]]
      BY <1>8
    <3>8. l[i] \in H /\ l[j] \in H
      BY <2>2
    <3>9. <<l[i], l[j]>> \in RH <=> sc[l[i]] > sc[l[j]] \/ (sc[l[i]] = sc[l[j]] /\ l[i] > l[j])
      BY <1>19, <3>8
    <3> QED BY <3>3, <3>4, <3>5, <3>6, <3>7, <3>9
  <2> QED BY <2>2, <2>3, <2>4 DEF Lists
<1>22. /\ Cardinality(H) = c
       /\ \A k \in 1..c : Cardinality(Ahead(l[k], H, RH)) = k - 1
       /\ \A k \in 1..c : \A x \in H : Cardinality(Ahead(x, H, RH)) = k - 1 => x = l[k]
  BY <1>21, Ranks
<1>23. ASSUME NEW i \in H
       PROVE  Ahead(i, H, RH) = {j \in H : sc[j] > sc[i] \/ (sc[j] = sc[i] /\ j > i)}
  BY <1>19 DEF Ahead
<1>24. PICK best : best = [k \in 1..n |-> CHOOSE i \in H :
         Cardinality({j \in H : sc[j] > sc[i] \/ (sc[j] = sc[i] /\ j > i)}) = k - 1]
  OBVIOUS
<1>25. ASSUME NEW k \in 1..n PROVE best[k] = l[k]
  <2>1. k \in 1..c /\ l[k] \in H
    BY <1>21 DEF Lists
  <2>2. Cardinality({j \in H : sc[j] > sc[l[k]] \/ (sc[j] = sc[l[k]] /\ j > l[k])}) = k - 1
    BY <1>22, <1>23, <2>1
  <2>3. \A x \in H : Cardinality({j \in H : sc[j] > sc[x] \/ (sc[j] = sc[x] /\ j > x)}) = k - 1 => x = l[k]
    BY <1>22, <1>23, <2>1
  <2>4. best[k] = CHOOSE i \in H : Cardinality({j \in H : sc[j] > sc[i] \/ (sc[j] = sc[i] /\ j > i)}) = k - 1
    BY <1>24
  <2> QED BY <2>1, <2>2, <2>3, <2>4
<1>26. Caches!Best(box, q, s.limit) = best
  <2> DEFINE Sc(i) == Cosine(Caches!Vec(q), Caches!Vec(box[i]))
  <2>1. \A i \in all : sc[i] = Sc(i)
    BY <1>5
  <2>2. H = {i \in all : Sc(i) >= Threshold}
    BY <1>18, <2>1
  <2>3. \A i \in H : {j \in H : sc[j] > sc[i] \/ (sc[j] = sc[i] /\ j > i)}
                     = {j \in H : Sc(j) > Sc(i) \/ (Sc(j) = Sc(i) /\ j > i)}
    BY <1>18, <2>1
  <2>4. n = IF Caches!Cardinality(H) < s.limit THEN Caches!Cardinality(H) ELSE s.limit
    BY <1>16, <1>22, SameCounts DEF Least
  <2>5. Caches!Best(box, q, s.limit) = [k \in 1..n |-> CHOOSE i \in H :
          Caches!Cardinality({j \in H : Sc(j) > Sc(i) \/ (Sc(j) = Sc(i) /\ j > i)}) = k - 1]
    BY <1>3, <2>2, <2>4 DEF Caches!Best, Recent, Filled
  <2>6. \A k \in 1..n :
          (CHOOSE i \in H : Caches!Cardinality({j \in H : Sc(j) > Sc(i) \/ (Sc(j) = Sc(i) /\ j > i)}) = k - 1)
          = (CHOOSE i \in H : Cardinality({j \in H : sc[j] > sc[i] \/ (sc[j] = sc[i] /\ j > i)}) = k - 1)
    BY <2>3, SameCounts
  <2> QED BY <1>24, <2>5, <2>6
<1>27. \A k \in 1..n : best[k] = ids[at[k]]
  BY <1>20, <1>25
<1> QED BY <1>17, <1>24, <1>26, <1>27

RightTable(kept) ==
  \A t \in Texts, m \in Models : Caches!get_embedding(kept, t, m) \in {None, [of |-> t, by |-> m]}
RightVectors(own, m) == \A t \in Texts : own[t] \in {None, [of |-> t, by |-> m]}
SomeVectors(own) == \A t \in Texts : own[t] # None => \E m \in Models : own[t] = [of |-> t, by |-> m]

Asked(s) ==
  /\ {"pc", "query", "limit", "docs", "box", "own"} \subseteq DOMAIN s
  /\ s.query \in Texts /\ s.limit \in Nat /\ DOMAIN s.box \in SUBSET Messages
  /\ DOMAIN s.own = Texts
  /\ DocsOK(s.docs, Filled(s.box), s.box)
  /\ \A i \in DOMAIN s.docs : s.docs[i].text \in Texts
Pending(s) ==
  /\ Asked(s)
  /\ ~foreign => RightVectors(s.own, model)
  /\ s.pc = "batch" => s.own[s.query] # None
MailRight ==
  /\ DOMAIN mail = Messages /\ DOMAIN versions = Messages /\ DOMAIN bodies = Messages
  /\ \A i \in Messages : mail[i] # None => mail[i] \in Texts /\ mail[i] \in versions[i]
BodyRight(i, b) == b # None => b.text \in versions[i] /\ b.trimmed = FALSE
AnswersInv ==
  /\ ~foreign => RightTable(rows)
  /\ SomeVectors(json) /\ (warm.pc = "embedding" => SomeVectors(warm.own))
  /\ \A c \in Workers : \A s : call[c] = s => s = Caches!Free \/ Pending(s)
  /\ MailRight /\ \A i \in Messages : \A b : bodies[i] = b => BodyRight(i, b)
  /\ Caches!AsUncached

LEMMA SearchAnswers ==
  ASSUME Caches!ConstantsOK, model \in Models, NEW s, Asked(s), RightVectors(s.own, model),
         s.own[s.query] # None
  PROVE  Caches!search_similar(s, Caches!embed_batch(s)) = Caches!Best(s.box, s.query, s.limit)
<1>1. PICK m \in Nat : DOMAIN s.docs = 1..m
  BY DEF Asked, DocsOK
<1>2. PICK vectors : vectors = Caches!embed_batch(s)
  OBVIOUS
<1>3. vectors = [i \in 1..m |-> VectorOf(s.own, s.docs[i].text)]
  BY <1>1, <1>2, BatchRight
<1>4. \A i \in DOMAIN s.docs : vectors[i] = Caches!Vec(s.docs[i].text)
  BY <1>1, <1>3 DEF VectorOf, RightVectors, Asked, Caches!Vec
<1>5. s.query \in Texts /\ s.own[s.query] = Caches!Vec(s.query)
  BY DEF RightVectors, Asked, Caches!Vec
<1> QED BY <1>2, <1>4, <1>5, AnswerIsBest DEF Asked

LEMMA NoDocuments ==
  ASSUME NEW s, Asked(s), s.docs = <<>>
  PROVE  Caches!Best(s.box, s.query, s.limit) = <<>>
<1>1. Recent(Filled(s.box)) = {}
  <2>1. PICK m \in Nat : DOMAIN s.docs = 1..m /\ Descends([k \in 1..m |-> s.docs[k].id], m, Recent(Filled(s.box)))
    BY DEF Asked, DocsOK
  <2>2. 1..m = {}
    BY <2>1
  <2> QED BY <2>1, <2>2 DEF Descends
<1>2. Caches!Cardinality({}) = 0
  BY FS_EmptySet, SameCounts
<1>3. (IF 0 < s.limit THEN 0 ELSE s.limit) = 0
  BY DEF Asked
<1> DEFINE Sc(i) == Cosine(Caches!Vec(s.query), Caches!Vec(s.box[i]))
<1>4. PICK H : H = {i \in Recent(Filled(s.box)) : Sc(i) >= Threshold}
  OBVIOUS
<1>5. H = {}
  BY <1>1, <1>4
<1>6. PICK n : n = IF Caches!Cardinality(H) < s.limit THEN Caches!Cardinality(H) ELSE s.limit
  OBVIOUS
<1>7. Caches!Best(s.box, s.query, s.limit) = [k \in 1..n |-> CHOOSE i \in H :
        Caches!Cardinality({j \in H : Sc(j) > Sc(i) \/ (Sc(j) = Sc(i) /\ j > i)}) = k - 1]
  BY <1>4, <1>6 DEF Caches!Best, Recent, Filled
<1>8. 1..n = {}
  BY <1>2, <1>3, <1>5, <1>6
<1> QED BY <1>7, <1>8

(* put_embedding writes what the provider gave for the text and model.      *)
LEMMA KeepRight ==
  ASSUME model \in Models, RightTable(rows), NEW texts, Caches!Keep(texts)
  PROVE  RightTable(rows')
<1>1. CASE rows' = rows
  BY <1>1
<1>2. CASE rows' = Caches!put_embeddings([x \in Texts |-> IF x \in texts THEN Caches!Vec(x) ELSE None], model)
  <2>1. PICK got : got = [x \in Texts |-> IF x \in texts THEN Caches!Vec(x) ELSE None]
    OBVIOUS
  <2>2. PICK m \in Models : m = model
    OBVIOUS
  <2>3. rows' = Caches!put_embeddings(got, m)
    BY <1>2, <2>1, <2>2
  <2>4. \A t \in Texts : got[t] \in {None, [of |-> t, by |-> m]}
    BY <2>1, <2>2 DEF Caches!Vec
  <2>5. RightTable(Caches!put_embeddings(got, m))
    BY <2>4, RowsGrow DEF RightTable
  <2> QED BY <2>3, <2>5
<1> QED BY <1>1, <1>2 DEF Caches!Keep

(* The import gives every vector of the file the name of this model.        *)
LEMMA OpenRight ==
  ASSUME model \in Models, SomeVectors(json), ~foreign => RightTable(rows), Caches!OpenCache, ~foreign'
  PROVE  ~foreign /\ RightTable(rows')
<1>1. CASE UNCHANGED <<rows, foreign>>
  BY <1>1
<1>2. CASE /\ rows' = Caches!import_legacy_embeddings_json(json, model)
           /\ foreign' = (foreign \/ \E t \in Caches!Known(json) : json[t].by # model)
  <2>1. PICK m \in Models : m = model
    OBVIOUS
  <2>2. PICK got : got = json
    OBVIOUS
  <2>3. \A t \in Texts : got[t] \in {None, [of |-> t, by |-> m]}
    <3> SUFFICES ASSUME NEW t \in Texts, got[t] # None PROVE got[t] = [of |-> t, by |-> m]
      OBVIOUS
    <3>1. PICK n \in Models : got[t] = [of |-> t, by |-> n]
      BY <2>2 DEF SomeVectors
    <3>2. got[t].by = m
      BY <1>2, <2>1, <2>2 DEF Caches!Known
    <3> QED BY <3>1, <3>2
  <2>4. RightTable(Caches!put_embeddings(got, m))
    <3>1. RightTable(rows)
      BY <1>2
    <3> QED BY <2>3, <3>1, RowsGrow DEF RightTable
  <2> QED BY <1>2, <2>1, <2>2, <2>4 DEF Caches!import_legacy_embeddings_json
<1> QED BY <1>1, <1>2 DEF Caches!OpenCache

(* What a step of a search leaves: it waits, or has answered rightly.       *)
RightStep(c) ==
  \/ answer' = None /\ \E s : call' = [call EXCEPT ![c] = s] /\ (s = Caches!Free \/ Pending(s)')
  \/ /\ call' = [call EXCEPT ![c] = Caches!Free]
     /\ \E q, limit, box, hits :
          /\ answer' = [tool |-> "search", query |-> q, limit |-> limit, box |-> box, hits |-> hits]
          /\ ~foreign' => hits = Caches!Best(box, q, limit)

LEMMA ProceedRight ==
  ASSUME Caches!ConstantsOK, model \in Models, model' = model, NEW c, NEW s, Asked(s),
         s.own[s.query] # None, ~foreign' => RightVectors(s.own, model),
         NEW kept, ~foreign' => RightTable(kept), Caches!Proceed(c, s, kept)
  PROVE  RightStep(c)
<1>1. PICK own : own = Caches!Lookup(Caches!TextsOf(s.docs), s.own, kept)
  OBVIOUS
<1>2. PICK t : t = [s EXCEPT !.pc = "batch", !.own = own]
  OBVIOUS
<1>3. /\ DOMAIN t = DOMAIN s /\ t.pc = "batch" /\ t.own = own
      /\ t.query = s.query /\ t.limit = s.limit /\ t.box = s.box /\ t.docs = s.docs
  BY <1>2 DEF Asked
<1>4. Asked(t)
  BY <1>1, <1>3 DEF Asked, Caches!Lookup
<1>5. ~foreign' => RightVectors(t.own, model)
  BY <1>1, <1>3 DEF RightVectors, RightTable, Caches!Lookup
<1>6. t.own[t.query] # None
  BY <1>1, <1>3 DEF Caches!Lookup, Asked
<1>7. CASE Caches!Answer(c, t, Caches!search_similar(t, Caches!embed_batch(t)))
  <2>1. ~foreign' => Caches!search_similar(t, Caches!embed_batch(t)) = Caches!Best(t.box, t.query, t.limit)
    BY <1>4, <1>5, <1>6, SearchAnswers
  <2> QED BY <1>7, <2>1 DEF Caches!Answer, RightStep
<1>8. CASE Caches!Await(c, t)
  <2>1. Pending(t)'
    BY <1>3, <1>4, <1>5, <1>6 DEF Pending, Asked, Filled, DocsOK, Recent, Caches!NewestOf
  <2> QED BY <1>8, <2>1 DEF Caches!Await, RightStep
<1> QED BY <1>1, <1>2, <1>7, <1>8 DEF Caches!Proceed

(* What a search was asked does not change.                                 *)
LEMMA StaysPending ==
  ASSUME model' = model, foreign => foreign', NEW s, Pending(s)
  PROVE  Pending(s)'
BY DEF Pending, Asked, Filled, DocsOK, Recent, Caches!NewestOf, RightVectors, Descends

LEMMA SameBest ==
  ASSUME model' = model, NEW box, NEW q, NEW limit
  PROVE  Caches!Best(box, q, limit)' = Caches!Best(box, q, limit)
BY DEF Caches!Best, Caches!NewestOf, Caches!Vec

LEMMA StepRight ==
  ASSUME CachesInv, AnswersInv, ~foreign' => RightTable(rows'), foreign => foreign', NEW c \in Workers, RightStep(c),
         UNCHANGED <<bodies, mail, json, model, warm, versions>>
  PROVE  AnswersInv'
<1>1. PICK s : call' = [call EXCEPT ![c] = s] /\ (s = Caches!Free \/ Pending(s)')
  BY DEF RightStep
<1>2. ASSUME NEW w \in Workers, NEW t, call'[w] = t PROVE t = Caches!Free \/ Pending(t)'
  <2>1. CASE w = c
    BY <1>1, <1>2, <2>1 DEF CachesInv
  <2>2. CASE w # c
    <3>1. call[w] = t
      BY <1>1, <1>2, <2>2 DEF CachesInv
    <3> QED BY <3>1, StaysPending DEF AnswersInv
  <2> QED BY <2>1, <2>2
<1>3. (\A w \in Workers : \A t : call[w] = t => t = Caches!Free \/ Pending(t))'
  BY <1>2 DEF Caches!Free
<1>4. MailRight' /\ (\A i \in Messages : \A b : bodies[i] = b => BodyRight(i, b))'
  BY DEF AnswersInv, MailRight, BodyRight
<1>5. (~foreign => RightTable(rows))' /\ SomeVectors(json)' /\ (warm.pc = "embedding" => SomeVectors(warm.own))'
  BY DEF AnswersInv, RightTable, Caches!get_embedding, SomeVectors
<1>6. Caches!AsUncached'
  <2>1. CASE answer' = None
    BY <2>1 DEF Caches!AsUncached
  <2>2. ASSUME NEW q, NEW limit, NEW box, NEW hits,
               answer' = [tool |-> "search", query |-> q, limit |-> limit, box |-> box, hits |-> hits],
               ~foreign' => hits = Caches!Best(box, q, limit)
        PROVE  Caches!AsUncached'
    <3>1. answer'.tool = "search" /\ answer'.query = q /\ answer'.limit = limit /\ answer'.box = box /\ answer'.hits = hits
      BY <2>2
    <3>2. ~foreign' => answer'.hits = Caches!Best(answer.box, answer.query, answer.limit)'
      <4>1. Caches!Best(box, q, limit)' = Caches!Best(box, q, limit)
        BY SameBest
      <4>2. Caches!Best(answer.box, answer.query, answer.limit)' = Caches!Best(box, q, limit)'
        BY <3>1 DEF Caches!Best, Caches!NewestOf, Caches!Vec
      <4> QED BY <2>2, <3>1, <4>1, <4>2
    <3> QED BY <3>1, <3>2 DEF Caches!AsUncached
  <2> QED BY <2>1, <2>2 DEF RightStep
<1> QED BY <1>3, <1>4, <1>5, <1>6 DEF AnswersInv

(* The vector of the query has come.                                        *)
LEMMA QueryRight ==
  ASSUME CachesInv, AnswersInv, NEW c \in Workers, Caches!QueryEmbedded(c)
  PROVE  AnswersInv'
<1>1. UNCHANGED <<bodies, mail, json, model, warm, versions, foreign>>
  BY DEF Caches!QueryEmbedded
<1>2. model \in Models /\ Caches!ConstantsOK
  BY DEF CachesInv
<1>3. PICK d : d = call[c]
  OBVIOUS
<1>4. Pending(d) /\ d.pc = "query"
  BY <1>3 DEF AnswersInv, Caches!QueryEmbedded, Caches!Free
<1>5. PICK q \in Texts : q = d.query
  BY <1>4 DEF Pending, Asked
<1>6. PICK kept : kept = rows'
  OBVIOUS
<1>7. ~foreign' => RightTable(rows')
  BY <1>1, <1>2, <1>3, <1>5, KeepRight DEF AnswersInv, Caches!QueryEmbedded
<1>8. PICK s : s = [d EXCEPT !.own[q] = Caches!Vec(q)]
  OBVIOUS
<1>9. Caches!Proceed(c, s, kept)
  BY <1>3, <1>5, <1>6, <1>8 DEF Caches!QueryEmbedded, Caches!Proceed, Caches!Answer, Caches!Await
<1>10. /\ DOMAIN s = DOMAIN d /\ s.own = [d.own EXCEPT ![q] = Caches!Vec(q)] /\ s.pc = d.pc
       /\ s.query = q /\ s.limit = d.limit /\ s.box = d.box /\ s.docs = d.docs
  BY <1>4, <1>5, <1>8 DEF Pending, Asked
<1>11. Asked(s)
  BY <1>4, <1>5, <1>10 DEF Pending, Asked
<1>12. s.own[s.query] # None /\ (~foreign' => RightVectors(s.own, model))
  <2>1. Caches!Vec(q) # None
    BY <1>2 DEF Caches!Vec, Caches!Vector, Caches!ConstantsOK
  <2>2. DOMAIN d.own = Texts /\ (~foreign' => RightVectors(d.own, model))
    BY <1>1, <1>4 DEF Pending, Asked
  <2> QED BY <1>10, <2>1, <2>2 DEF RightVectors, Caches!Vec
<1>13. RightStep(c)
  BY <1>1, <1>2, <1>6, <1>7, <1>9, <1>11, <1>12, ProceedRight
<1> QED BY <1>1, <1>7, <1>13, StepRight

(* The vectors of the documents have come, or the provider fails.           *)
LEMMA BatchStepRight ==
  ASSUME CachesInv, AnswersInv, NEW c \in Workers, Caches!BatchEmbedded(c) \/ Caches!ProviderFails(c)
  PROVE  AnswersInv'
<1>1. UNCHANGED <<bodies, mail, json, model, warm, versions, foreign>>
  BY DEF Caches!BatchEmbedded, Caches!ProviderFails, Caches!history
<1>2. model \in Models /\ Caches!ConstantsOK
  BY DEF CachesInv
<1>3. CASE Caches!BatchEmbedded(c)
  <2>1. PICK d : d = call[c]
    OBVIOUS
  <2>2. Pending(d) /\ d.pc = "batch"
    BY <1>3, <2>1 DEF AnswersInv, Caches!BatchEmbedded, Caches!Free
  <2>3. ~foreign' => RightTable(rows')
    BY <1>1, <1>2, <1>3, KeepRight DEF AnswersInv, Caches!BatchEmbedded
  <2>4. ~foreign' => Caches!search_similar(d, Caches!embed_batch(d)) = Caches!Best(d.box, d.query, d.limit)
    BY <1>1, <1>2, <2>2, SearchAnswers DEF Pending
  <2>5. Caches!Answer(c, d, Caches!search_similar(d, Caches!embed_batch(d)))
    BY <1>3, <2>1 DEF Caches!BatchEmbedded, Caches!Answer
  <2>6. RightStep(c)
    BY <2>4, <2>5 DEF RightStep, Caches!Answer
  <2> QED BY <1>1, <2>3, <2>6, StepRight
<1>4. CASE Caches!ProviderFails(c)
  <2>1. answer' = None /\ call' = [call EXCEPT ![c] = Caches!Free] /\ rows' = rows
    BY <1>4 DEF Caches!ProviderFails, Caches!Await
  <2>2. RightStep(c)
    BY <2>1 DEF RightStep
  <2>3. ~foreign' => RightTable(rows')
    BY <1>1, <2>1 DEF AnswersInv
  <2> QED BY <1>1, <2>2, <2>3, StepRight
<1> QED BY <1>3, <1>4

(* A folder as a search finds it                                            *)
LEMMA BoxRight ==
  ASSUME Caches!ConstantsOK, MailRight, NEW f, NEW box, box = [i \in {x \in Messages : FolderOf[x] = f} |-> mail[i]]
  PROVE  /\ DOMAIN box \in SUBSET Messages /\ DocsOK(Caches!Documents(f), Filled(box), box)
         /\ \A i \in DOMAIN Caches!Documents(f) : Caches!Documents(f)[i].text \in Texts
<1>1. Filled(box) = There(f) /\ DOMAIN box \in SUBSET Messages
  BY DEF Filled, There
<1>2. PICK docs : docs = Caches!Documents(f)
  OBVIOUS
<1>3. PICK m \in Nat : /\ DOMAIN docs = 1..m
                       /\ Descends([k \in 1..m |-> docs[k].id], m, Recent(There(f)))
                       /\ \A k \in 1..m : docs[k].text = mail[docs[k].id]
  BY <1>2, DocumentsRight DEF DocsOK
<1>4. \A k \in 1..m : docs[k].id \in There(f)
  BY <1>3 DEF Descends, Recent, Caches!NewestOf
<1>5. \A k \in 1..m : docs[k].text = box[docs[k].id] /\ docs[k].text \in Texts
  BY <1>3, <1>4 DEF There, MailRight
<1> QED BY <1>1, <1>2, <1>3, <1>5 DEF DocsOK

(* semantic_search_emails begins.                                           *)
LEMMA SearchRight ==
  ASSUME CachesInv, AnswersInv, NEW c \in Workers, Caches!Search(c)
  PROVE  AnswersInv'
<1>1. Caches!OpenCache /\ UNCHANGED <<bodies, mail, json, model, warm, versions>>
  BY DEF Caches!Search
<1>2. model \in Models /\ Caches!ConstantsOK
  BY DEF CachesInv
<1>3. (~foreign' => RightTable(rows')) /\ (foreign => foreign')
  BY <1>1, <1>2, OpenRight DEF AnswersInv, Caches!OpenCache
<1>4. PICK kept : kept = rows'
  OBVIOUS
<1>5. PICK q \in Queries, f \in Folders, limit \in Limits :
        LET s == [pc |-> "query", query |-> q, limit |-> limit, docs |-> Caches!Documents(f),
                  box |-> [i \in {x \in Messages : FolderOf[x] = f} |-> mail[i]],
                  own |-> [Caches!NoVectors EXCEPT ![q] = Caches!get_embedding(kept, q, model)]]
        IN IF s.docs = <<>> THEN Caches!Answer(c, s, <<>>)
           ELSE IF s.own[q] = None THEN Caches!Await(c, s)
           ELSE Caches!Proceed(c, s, kept)
  BY <1>4, Zenon DEF Caches!Search
<1>6. PICK box : box = [i \in {x \in Messages : FolderOf[x] = f} |-> mail[i]]
  OBVIOUS
<1>7. PICK own : own = [Caches!NoVectors EXCEPT ![q] = Caches!get_embedding(kept, q, model)]
  OBVIOUS
<1>8. PICK s : s = [pc |-> "query", query |-> q, limit |-> limit, docs |-> Caches!Documents(f),
                    box |-> box, own |-> own]
  OBVIOUS
<1>9. /\ DOMAIN s = {"pc", "query", "limit", "docs", "box", "own"}
      /\ s.pc = "query" /\ s.query = q /\ s.limit = limit /\ s.docs = Caches!Documents(f)
      /\ s.box = box /\ s.own = own
  BY <1>8
<1>10. IF s.docs = <<>> THEN Caches!Answer(c, s, <<>>)
       ELSE IF s.own[q] = None THEN Caches!Await(c, s)
       ELSE Caches!Proceed(c, s, kept)
  BY <1>5, <1>6, <1>7, <1>8, Zenon
<1>11. q \in Texts /\ limit \in Nat
  BY <1>2 DEF Caches!ConstantsOK
<1>12. DOMAIN own = Texts /\ (~foreign' => RightVectors(own, model))
  <2>1. DOMAIN own = Texts /\ own[q] = Caches!get_embedding(kept, q, model)
        /\ \A t \in Texts : t # q => own[t] = None
    BY <1>7, <1>11 DEF Caches!NoVectors
  <2>2. ~foreign' => RightTable(kept)
    BY <1>3, <1>4
  <2> QED BY <1>2, <2>1, <2>2, <1>11 DEF RightVectors, RightTable
<1>13. Asked(s)
  BY <1>2, <1>6, <1>9, <1>11, <1>12, BoxRight DEF AnswersInv, Asked
<1>14. CASE Caches!Answer(c, s, <<>>) /\ s.docs = <<>>
  <2>1. Caches!Best(s.box, s.query, s.limit) = <<>>
    BY <1>13, <1>14, NoDocuments
  <2>2. RightStep(c)
    BY <1>14, <2>1 DEF RightStep, Caches!Answer
  <2> QED BY <1>1, <1>3, <2>2, StepRight
<1>15. CASE Caches!Await(c, s)
  <2>1. Pending(s)'
    <3>1. Asked(s)'
      BY <1>13 DEF Asked, Filled, DocsOK, Recent, Caches!NewestOf, Descends
    <3>2. RightVectors(s.own, model)' <=> RightVectors(s.own, model)
      BY <1>1 DEF RightVectors
    <3> QED BY <1>9, <1>12, <3>1, <3>2 DEF Pending
  <2>2. RightStep(c)
    BY <1>15, <2>1 DEF RightStep, Caches!Await
  <2> QED BY <1>1, <1>3, <2>2, StepRight
<1>16. CASE Caches!Proceed(c, s, kept) /\ s.own[q] # None
  <2>1. RightStep(c)
    BY <1>1, <1>2, <1>3, <1>4, <1>9, <1>12, <1>13, <1>16, ProceedRight
  <2> QED BY <1>1, <1>3, <2>1, StepRight
<1> QED BY <1>10, <1>14, <1>15, <1>16

(* get_email_details: the body is the message's, or one it had.             *)
LEMMA DetailsRight ==
  ASSUME CachesInv, AnswersInv, NEW i \in Messages, NEW fmt, NEW trim \in BOOLEAN, Caches!GetEmailDetails(i, fmt, trim)
  PROVE  AnswersInv'
<1>1. Caches!OpenCache /\ UNCHANGED <<mail, json, model, call, warm, versions>> /\ mail[i] # None
  BY DEF Caches!GetEmailDetails
<1>2. model \in Models
  BY DEF CachesInv
<1>3. (~foreign' => RightTable(rows')) /\ (foreign => foreign')
  BY <1>1, <1>2, OpenRight DEF AnswersInv, Caches!OpenCache
<1>4. PICK actual, kept :
        /\ actual = fmt \/ (fmt = "markdown" /\ actual \in {"markdown", "text", "text_fallback"})
        /\ kept = IF fmt = "markdown" /\ bodies[i] # None THEN bodies[i] ELSE Caches!Kept(mail[i], trim)
        /\ bodies' = IF actual = "markdown" THEN [bodies EXCEPT ![i] = kept] ELSE bodies
        /\ answer' = [tool |-> "details", id |-> i, asked |-> fmt, fmt |-> actual, trim |-> trim, now |-> mail[i],
                      text |-> IF actual = "markdown" THEN kept.text ELSE mail[i],
                      trimmed |-> (actual = "markdown" /\ kept.trimmed)
                                   \/ (trim /\ actual \in {"markdown", "text"})]
  BY DEF Caches!GetEmailDetails, Caches!get_body, Caches!put_body
<1>5. kept.text \in versions[i] /\ kept.trimmed = FALSE
  <2>1. mail[i] \in versions[i] /\ (bodies[i] # None => bodies[i].text \in versions[i] /\ bodies[i].trimmed = FALSE)
    BY <1>1 DEF AnswersInv, MailRight, BodyRight
  <2> QED BY <1>4, <2>1 DEF Caches!Kept
<1>6. Caches!AsUncached'
  <2>1. /\ answer'.tool = "details" /\ answer'.id = i /\ answer'.fmt = actual /\ answer'.trim = trim
        /\ answer'.now = mail[i] /\ answer'.text = (IF actual = "markdown" THEN kept.text ELSE mail[i])
        /\ answer'.trimmed = ((actual = "markdown" /\ kept.trimmed) \/ (trim /\ actual \in {"markdown", "text"}))
    BY <1>4
  <2>2. answer'.trimmed = (answer'.trim /\ answer'.fmt \in {"markdown", "text"})
    BY <1>5, <2>1
  <2>3. answer'.text \in versions'[answer'.id] /\ (answer'.fmt # "markdown" => answer'.text = answer'.now)
    BY <1>1, <1>5, <2>1 DEF AnswersInv, MailRight
  <2> QED BY <2>1, <2>2, <2>3 DEF Caches!AsUncached
<1>7. MailRight' /\ (\A j \in Messages : \A b : bodies[j] = b => BodyRight(j, b))'
  <2>1. DOMAIN bodies = Messages
    BY DEF AnswersInv, MailRight
  <2>2. DOMAIN bodies' = Messages /\ \A j \in Messages : bodies'[j] = bodies[j] \/ (j = i /\ bodies'[j] = kept)
    BY <1>4, <2>1
  <2>3. \A j \in Messages : \A b : bodies'[j] = b => (b # None => b.text \in versions[j] /\ b.trimmed = FALSE)
    BY <1>5, <2>2 DEF AnswersInv, BodyRight
  <2> QED BY <1>1, <2>2, <2>3 DEF AnswersInv, MailRight, BodyRight
<1>8. (\A w \in Workers : \A t : call[w] = t => t = Caches!Free \/ Pending(t))'
  BY <1>1, <1>3, StaysPending DEF AnswersInv, Caches!Free
<1>9. (~foreign => RightTable(rows))' /\ SomeVectors(json)' /\ (warm.pc = "embedding" => SomeVectors(warm.own))'
  BY <1>1, <1>3 DEF AnswersInv, RightTable, Caches!get_embedding, SomeVectors
<1> QED BY <1>6, <1>7, <1>8, <1>9 DEF AnswersInv

(* Steps that answer nothing and leave the rows as they are                 *)
LEMMA QuietRight ==
  ASSUME AnswersInv, answer' = None, UNCHANGED <<rows, bodies, mail, model, call, versions, foreign>>,
         SomeVectors(json'), warm'.pc = "embedding" => SomeVectors(warm'.own)
  PROVE  AnswersInv'
<1>1. Caches!AsUncached'
  BY DEF Caches!AsUncached
<1>2. MailRight' /\ (\A i \in Messages : \A b : bodies[i] = b => BodyRight(i, b))'
  BY DEF AnswersInv, MailRight, BodyRight
<1>3. (\A w \in Workers : \A t : call[w] = t => t = Caches!Free \/ Pending(t))'
  BY StaysPending DEF AnswersInv, Caches!Free
<1>4. (~foreign => RightTable(rows))' /\ SomeVectors(json)' /\ (warm.pc = "embedding" => SomeVectors(warm.own))'
  BY DEF AnswersInv, RightTable, Caches!get_embedding, SomeVectors
<1> QED BY <1>1, <1>2, <1>3, <1>4 DEF AnswersInv

(* The warmup keeps vectors of this model, and what the file had.           *)
LEMMA WarmupRight ==
  ASSUME CachesInv, AnswersInv, Caches!Collect \/ Caches!WarmBatch \/ Caches!LastBatch
  PROVE  AnswersInv'
<1>1. answer' = None /\ UNCHANGED <<rows, bodies, mail, model, call, versions, foreign>>
  BY DEF Caches!Collect, Caches!WarmBatch, Caches!LastBatch, Caches!history
<1>2. warm.pc = "embedding" => SomeVectors(Caches!Embedded) /\ SomeVectors(warm.own)
  <2> SUFFICES ASSUME warm.pc = "embedding" PROVE SomeVectors(Caches!Embedded) /\ SomeVectors(warm.own)
    OBVIOUS
  <2>1. SomeVectors(warm.own)
    BY DEF AnswersInv
  <2>2. model \in Models
    BY DEF CachesInv
  <2>3. \A t \in Texts : Caches!Embedded[t] \in {Caches!Vec(t), warm.own[t]}
    BY DEF Caches!Embedded
  <2>4. SomeVectors(Caches!Embedded)
    BY <2>1, <2>2, <2>3 DEF SomeVectors, Caches!Vec
  <2> QED BY <2>1, <2>4
<1>3. CASE Caches!Collect
  <2>1. json' = json /\ (warm'.pc = "embedding" => warm'.own = json)
    BY <1>3 DEF Caches!Collect, Caches!load_cache, Caches!Warmed
  <2> QED BY <1>1, <2>1, QuietRight DEF AnswersInv
<1>4. CASE Caches!WarmBatch
  <2>1. json' = json /\ warm.pc = "embedding"
    BY <1>4 DEF Caches!WarmBatch
  <2>2. PICK own \in {Caches!Embedded, warm.own} :
          warm' = [warm EXCEPT !.todo = SubSeq(@, BatchSize + 1, Len(@)), !.own = own]
    BY <1>4 DEF Caches!WarmBatch
  <2>3. warm'.own = own
    BY <2>1, <2>2 DEF CachesInv, WarmOK
  <2>4. SomeVectors(json')
    BY <2>1 DEF AnswersInv
  <2> QED BY <1>1, <1>2, <2>1, <2>2, <2>3, <2>4, QuietRight
<1>5. CASE Caches!LastBatch
  <2>1. warm.pc = "embedding" /\ warm' = Caches!Warmed
    BY <1>5 DEF Caches!LastBatch, Caches!WarmupEnds
  <2>2. json' \in {Caches!Embedded, warm.own, json}
    BY <1>5 DEF Caches!LastBatch, Caches!WarmupEnds, Caches!NotSaved
  <2>3. SomeVectors(json')
    BY <1>2, <2>1, <2>2 DEF AnswersInv
  <2> QED BY <1>1, <2>1, <2>3, QuietRight DEF Caches!Warmed
<1> QED BY <1>3, <1>4, <1>5

(* A message comes, is edited or goes: it keeps the texts it had.           *)
LEMMA ChangeRight ==
  ASSUME CachesInv, AnswersInv, NEW i \in Messages, NEW t \in (Texts \ Queries) \union {None}, Caches!Change(i, t)
  PROVE  AnswersInv'
<1>1. /\ answer' = None /\ UNCHANGED <<rows, bodies, json, model, call, warm, foreign>>
      /\ mail' = [mail EXCEPT ![i] = t] /\ versions' = [versions EXCEPT ![i] = @ \union ({t} \ {None})]
  BY DEF Caches!Change
<1>2. Caches!AsUncached'
  BY <1>1 DEF Caches!AsUncached
<1>3. DOMAIN mail = Messages /\ DOMAIN versions = Messages
  BY DEF AnswersInv, MailRight
<1>4. /\ DOMAIN mail' = Messages /\ DOMAIN versions' = Messages
      /\ \A j \in Messages : versions[j] \subseteq versions'[j]
      /\ \A j \in Messages : mail'[j] = mail[j] \/ (j = i /\ mail'[j] = t /\ (t # None => t \in versions'[j]))
  BY <1>1, <1>3
<1>5. MailRight'
  BY <1>1, <1>4 DEF AnswersInv, MailRight
<1>6. (\A j \in Messages : \A b : bodies[j] = b => BodyRight(j, b))'
  BY <1>1, <1>4 DEF AnswersInv, BodyRight
<1>7. (\A w \in Workers : \A s : call[w] = s => s = Caches!Free \/ Pending(s))'
  BY <1>1, StaysPending DEF AnswersInv, Caches!Free
<1>8. (~foreign => RightTable(rows))' /\ SomeVectors(json)' /\ (warm.pc = "embedding" => SomeVectors(warm.own))'
  BY <1>1 DEF AnswersInv, RightTable, Caches!get_embedding, SomeVectors
<1> QED BY <1>2, <1>5, <1>6, <1>7, <1>8 DEF AnswersInv

(* The server starts again, perhaps with another model.                     *)
LEMMA RestartRight ==
  ASSUME CachesInv, AnswersInv, NEW m \in Models, Caches!Restart(m)
  PROVE  AnswersInv'
<1>1. /\ answer' = None /\ UNCHANGED <<rows, bodies, mail, json, versions, foreign>>
      /\ call' = [c \in Workers |-> Caches!Free] /\ warm' = Caches!Booting
  BY DEF Caches!Restart
<1>2. Caches!AsUncached' /\ warm'.pc # "embedding"
  BY <1>1 DEF Caches!AsUncached, Caches!Booting
<1>3. MailRight' /\ (\A j \in Messages : \A b : bodies[j] = b => BodyRight(j, b))'
  BY <1>1 DEF AnswersInv, MailRight, BodyRight
<1>4. (\A w \in Workers : \A s : call[w] = s => s = Caches!Free \/ Pending(s))'
  BY <1>1 DEF Caches!Free
<1>5. (~foreign => RightTable(rows))' /\ SomeVectors(json)'
  BY <1>1 DEF AnswersInv, RightTable, Caches!get_embedding, SomeVectors
<1> QED BY <1>2, <1>3, <1>4, <1>5 DEF AnswersInv

LEMMA AnswersInit == Caches!ConstantsOK /\ Caches!Init => AnswersInv
<1> SUFFICES ASSUME Caches!ConstantsOK, Caches!Init PROVE AnswersInv
  OBVIOUS
<1>1. /\ rows = [key \in Texts \X Models |-> None] /\ bodies = [i \in Messages |-> None]
      /\ json = Caches!NoVectors /\ warm = Caches!Booting /\ answer = None
      /\ call = [c \in Workers |-> Caches!Free] /\ mail \in Mailboxes
      /\ versions = [i \in Messages |-> {mail[i]} \ {None}]
  BY DEF Caches!Init, Caches!CacheInit
<1>2. mail \in [Messages -> Texts \union {None}]
  BY <1>1 DEF Caches!ConstantsOK
<1>3. MailRight
  BY <1>1, <1>2 DEF MailRight
<1>4. RightTable(rows) /\ SomeVectors(json) /\ warm.pc # "embedding"
  BY <1>1 DEF RightTable, Caches!get_embedding, SomeVectors, Caches!NoVectors, Caches!Booting
<1>5. \A i \in Messages : \A b : bodies[i] = b => BodyRight(i, b)
  BY <1>1 DEF BodyRight
<1>6. Caches!AsUncached
  BY <1>1 DEF Caches!AsUncached
<1> QED BY <1>1, <1>3, <1>4, <1>5, <1>6 DEF AnswersInv

LEMMA AnswersNext ==
  ASSUME CachesInv, AnswersInv, [Caches!Next]_(Caches!vars)
  PROVE  AnswersInv'
<1>1. CASE UNCHANGED Caches!vars
  <2>1. UNCHANGED <<rows, bodies, mail, json, model, call, warm, answer, versions, foreign>>
    BY <1>1 DEF Caches!vars, Caches!history
  <2>2. Caches!AsUncached'
    <3>1. Caches!Best(answer.box, answer.query, answer.limit)' = Caches!Best(answer.box, answer.query, answer.limit)
      BY <2>1 DEF Caches!Best, Caches!NewestOf, Caches!Vec
    <3> QED BY <2>1, <3>1 DEF AnswersInv, Caches!AsUncached
  <2>3. MailRight' /\ (\A i \in Messages : \A b : bodies[i] = b => BodyRight(i, b))'
    BY <2>1 DEF AnswersInv, MailRight, BodyRight
  <2>4. (\A w \in Workers : \A t : call[w] = t => t = Caches!Free \/ Pending(t))'
    BY <2>1, StaysPending DEF AnswersInv, Caches!Free
  <2>5. (~foreign => RightTable(rows))' /\ SomeVectors(json)' /\ (warm.pc = "embedding" => SomeVectors(warm.own))'
    BY <2>1 DEF AnswersInv, RightTable, Caches!get_embedding, SomeVectors
  <2> QED BY <2>2, <2>3, <2>4, <2>5 DEF AnswersInv
<1>2. CASE \E c \in Workers : Caches!Search(c) \/ Caches!QueryEmbedded(c) \/ Caches!BatchEmbedded(c) \/ Caches!ProviderFails(c)
  BY <1>2, SearchRight, QueryRight, BatchStepRight
<1>3. CASE Caches!Collect \/ Caches!WarmBatch \/ Caches!LastBatch
  BY <1>3, WarmupRight
<1>4. CASE \E i \in Messages, fmt \in {"html", "text", "markdown"}, trim \in BOOLEAN : Caches!GetEmailDetails(i, fmt, trim)
  BY <1>4, DetailsRight
<1>5. CASE \E i \in Messages, t \in (Texts \ Queries) \union {None} : Caches!Change(i, t)
  BY <1>5, ChangeRight
<1>6. CASE \E m \in Models : Caches!Restart(m)
  BY <1>6, RestartRight
<1> QED BY <1>1, <1>2, <1>3, <1>4, <1>5, <1>6 DEF Caches!Next

-----------------------------------------------------------------------------
(* TaskMirror: how the lists of a round, the saved state, the table and the *)
(* calls stand to each other                                                *)

LaneRow == [due : Dues, done : BOOLEAN]
LaneTask == [here : BOOLEAN, at : Nat, due : Dues, done : BOOLEAN]
LaneCall == [pc : {"save", "complete", "look", "patch"}, of : Tasks, due : Dues \union {None},
         complete : BOOLEAN, read : LaneRow, row : LaneRow \union {None}, overtaken : BOOLEAN]

LaneTypes ==
  /\ changes \in Nat
  /\ tasks \in [Tasks -> LaneTask]
  /\ table \in [Tasks -> LaneRow \union {None}]
  /\ synced \in [Tasks -> Nat]
  /\ round \in [pc : {"rests", "upsert", "delete", "state"}, up : [Tasks -> LaneRow \union {None}],
                del : SUBSET Tasks, seen : [Tasks -> Nat]]
  /\ call \in [Workers -> LaneCall \union {NoCall}]

(* The round has written its changes, and its state says what it covers     *)
Wrote == round.pc \in {"delete", "state"}
Known(k) ==
  /\ tasks[k].here
  /\ synced[k] >= tasks[k].at \/ (Wrote /\ round.seen[k] >= tasks[k].at)

TaskOK(k) ==
  /\ tasks[k].at <= changes
  /\ tasks[k].here => tasks[k].at # 0
  /\ synced[k] <= tasks[k].at /\ round.seen[k] <= tasks[k].at
  /\ k \in round.del => ~tasks[k].here /\ tasks[k].at # 0
  /\ round.up[k] # None => round.seen[k] # 0
  /\ round.pc = "upsert" /\ round.up[k] = None /\ tasks[k].here => round.seen[k] <= synced[k]
  /\ round.pc = "upsert" /\ round.up[k] # None /\ tasks[k].here /\ round.seen[k] >= tasks[k].at
       => round.up[k] = Lane!RowOf(k)
  /\ round.pc # "rests" /\ synced[k] # 0 /\ round.seen[k] = 0 => k \in round.del
  /\ round.pc # "rests" /\ tasks[k].here /\ synced[k] >= tasks[k].at
       => round.seen[k] >= tasks[k].at
  /\ Known(k) /\ k \notin touched => table[k] = Lane!RowOf(k)
  /\ table[k] # None =>
       \/ synced[k] # 0 \/ k \in interrupted \union touched
       \/ Wrote /\ round.up[k] # None
  /\ round.pc = "state" /\ k \in round.del => table[k] = None \/ k \in touched

(* A call that no round has written over since it began, of a task that is  *)
(* covered, has changed nothing                                             *)
LaneCallOK(j) ==
  j # NoCall =>
    /\ j.pc = "save" => j.due # None
    /\ j.pc = "patch" => j.row \in LaneRow
    /\ j.pc = "patch" /\ ~j.overtaken => table[j.of] # None
    /\ round.pc = "state" /\ j.of \in round.del => j.overtaken
    /\ Known(j.of) /\ ~j.overtaken =>
         /\ j.read = Lane!RowOf(j.of)
         /\ j.pc # "save" => j.due = None
         /\ j.pc \in {"look", "patch"} => ~j.complete
         /\ j.pc = "patch" /\ j.of \notin touched => j.row = Lane!RowOf(j.of)

LaneInv ==
  /\ LaneTypes
  /\ \A k \in Tasks : TaskOK(k)
  /\ \A c \in Workers : LaneCallOK(call[c])

(* An empty mirror of no tasks.                                             *)
LEMMA LaneInit == Lane!ConstantsOK /\ Lane!Init => LaneInv
<1> SUFFICES ASSUME Lane!ConstantsOK, Lane!Init PROVE LaneInv
  OBVIOUS
<1>1. Lane!NotYet \in LaneTask
  BY DEF Lane!NotYet, LaneTask, Lane!ConstantsOK
<1>2. LaneTypes
  BY <1>1 DEF Lane!Init, LaneTypes, Lane!Resting
<1>3. ASSUME NEW k \in Tasks PROVE TaskOK(k)
  BY DEF Lane!Init, TaskOK, Lane!NotYet, Lane!Resting, Known, Wrote
<1>4. ASSUME NEW c \in Workers PROVE LaneCallOK(call[c])
  BY DEF Lane!Init, LaneCallOK
<1> QED BY <1>2, <1>3, <1>4 DEF LaneInv

(* Exchange changes a task: the change is later than what any state covers, *)
(* so that nothing has to agree with the task any more.                     *)
LEMMA ChangedKeeps ==
  ASSUME LaneInv, NEW k \in Tasks, NEW t \in LaneTask, Lane!Changed(k, t),
         t.here => tasks[k].here \/ tasks[k].at = 0,
         UNCHANGED <<table, synced, round, touched, interrupted>>,
         call' \in [Workers -> LaneCall \union {NoCall}],
         \A c \in Workers : call'[c] # NoCall /\ call'[c] # call[c] =>
           /\ call[c] # NoCall /\ call[c].of = k
           /\ call'[c].of = k /\ call'[c].overtaken = call[c].overtaken
           /\ call'[c].pc \notin {"save", "patch"}
  PROVE  LaneInv'
<1>1. /\ changes \in Nat /\ changes' = changes + 1
      /\ tasks \in [Tasks -> LaneTask] /\ tasks' = [tasks EXCEPT ![k] = [t EXCEPT !.at = changes + 1]]
  BY DEF Lane!Changed, LaneInv, LaneTypes
<1>2. [t EXCEPT !.at = changes + 1] \in LaneTask
  BY <1>1 DEF LaneTask
<1>3. /\ tasks' \in [Tasks -> LaneTask]
      /\ tasks'[k] = [t EXCEPT !.at = changes + 1]
      /\ \A x \in Tasks : x # k => tasks'[x] = tasks[x]
  BY <1>1, <1>2
<1>4. tasks'[k].at = changes + 1 /\ tasks'[k].here = t.here
  BY <1>3 DEF LaneTask
<1>5. LaneTypes'
  BY <1>1, <1>3 DEF LaneInv, LaneTypes
<1>6. ASSUME NEW x \in Tasks PROVE TaskOK(x)'
  <2>1. /\ TaskOK(x) /\ synced[x] \in Nat /\ round.seen[x] \in Nat /\ tasks[x].at \in Nat
    BY DEF LaneInv, LaneTypes, LaneTask
  <2>2. CASE x # k
    BY <1>1, <1>3, <2>1, <2>2 DEF TaskOK, Known, Wrote, Lane!RowOf
  <2>3. CASE x = k
    BY <1>1, <1>4, <2>1, <2>3 DEF TaskOK, Known, Wrote, Lane!RowOf
  <2> QED BY <2>2, <2>3
<1>7. ~Known(k)'
  <2>1. synced[k] \in Nat /\ round.seen[k] \in Nat /\ synced[k] <= changes /\ round.seen[k] <= changes
    BY DEF LaneInv, LaneTypes, TaskOK, LaneTask
  <2> QED BY <1>1, <1>4, <2>1 DEF Known
<1>8. ASSUME NEW c \in Workers PROVE LaneCallOK(call[c])'
  <2>1. LaneCallOK(call[c]) /\ call[c] \in LaneCall \union {NoCall} /\ call'[c] \in LaneCall \union {NoCall}
    BY DEF LaneInv, LaneTypes
  <2>2. CASE call'[c] = call[c]
    <3>1. CASE call[c].of = k
      BY <1>7, <2>1, <2>2, <3>1 DEF LaneCallOK
    <3>2. CASE call[c].of # k
      <4>1. CASE call[c] # NoCall
        <5>1. call[c].of \in Tasks
          BY <2>1, <4>1 DEF LaneCall
        <5>2. tasks'[call[c].of] = tasks[call[c].of]
          BY <1>3, <3>2, <5>1
        <5> QED BY <2>1, <2>2, <5>2 DEF LaneCallOK, Known, Wrote, Lane!RowOf
      <4>2. CASE call[c] = NoCall
        BY <2>2, <4>2 DEF LaneCallOK
      <4> QED BY <4>1, <4>2
    <3> QED BY <3>1, <3>2
  <2>3. CASE call'[c] = NoCall
    BY <2>3 DEF LaneCallOK
  <2>4. CASE call'[c] # NoCall /\ call'[c] # call[c]
    BY <1>7, <2>1, <2>4 DEF LaneCallOK
  <2> QED BY <2>2, <2>3, <2>4
<1> QED BY <1>5, <1>6, <1>8 DEF LaneInv

(* Another client adds, changes or removes a task.                          *)
LEMMA OtherTaskKeeps ==
  ASSUME LaneInv, NEW k \in Tasks, Lane!OtherClient(k)
  PROVE  LaneInv'
<1>1. tasks[k] \in LaneTask /\ call \in [Workers -> LaneCall \union {NoCall}]
  BY DEF LaneInv, LaneTypes
<1>2. UNCHANGED <<table, synced, round, touched, interrupted, call>>
  BY DEF Lane!OtherClient, Lane!history
<1>3. PICK t \in LaneTask : Lane!Changed(k, t) /\ (t.here => tasks[k].here \/ tasks[k].at = 0)
  <2>1. CASE tasks[k].at = 0 /\ Lane!Changed(k, [tasks[k] EXCEPT !.here = TRUE])
    BY <1>1, <2>1 DEF LaneTask
  <2>2. ASSUME tasks[k].here, NEW d \in Dues, NEW b \in BOOLEAN,
               Lane!Changed(k, [tasks[k] EXCEPT !.due = d, !.done = b])
        PROVE  \E t \in LaneTask : Lane!Changed(k, t) /\ (t.here => tasks[k].here \/ tasks[k].at = 0)
    <3>1. [tasks[k] EXCEPT !.due = d, !.done = b] \in LaneTask
      BY <1>1 DEF LaneTask
    <3> QED BY <2>2, <3>1
  <2>3. CASE tasks[k].here /\ Lane!Changed(k, [tasks[k] EXCEPT !.here = FALSE])
    <3>1. [tasks[k] EXCEPT !.here = FALSE] \in LaneTask
      BY <1>1 DEF LaneTask
    <3> QED BY <2>3, <3>1
  <2> QED BY <2>1, <2>2, <2>3 DEF Lane!OtherClient
<1> QED BY <1>1, <1>2, <1>3, ChangedKeeps

(* A call takes a step that changes no task and writes nothing.             *)
LEMMA LaneCallsKeep ==
  ASSUME LaneInv, UNCHANGED <<tasks, changes, table, synced, round, touched, interrupted>>,
         call' \in [Workers -> LaneCall \union {NoCall}],
         \A c \in Workers : call'[c] = call[c] \/ LaneCallOK(call'[c])
  PROVE  LaneInv'
<1>1. LaneTypes' /\ (\A k \in Tasks : TaskOK(k)')
  BY DEF LaneInv, LaneTypes, TaskOK, Known, Wrote, Lane!RowOf
<1>2. ASSUME NEW c \in Workers PROVE LaneCallOK(call[c])'
  <2>1. LaneCallOK(call'[c])
    BY DEF LaneInv
  <2> QED BY <2>1 DEF LaneCallOK, Known, Wrote, Lane!RowOf
<1> QED BY <1>1, <1>2 DEF LaneInv

(* A call ends.                                                             *)
LEMMA CallEndsKeeps ==
  ASSUME LaneInv, NEW c \in Workers, Lane!Ends(c),
         UNCHANGED <<tasks, changes, table, synced, round, touched, interrupted>>
  PROVE  LaneInv'
<1>1. /\ call' \in [Workers -> LaneCall \union {NoCall}]
      /\ \A d \in Workers : call'[d] = call[d] \/ call'[d] = NoCall
  BY DEF Lane!Ends, LaneInv, LaneTypes
<1>2. LaneCallOK(NoCall)
  BY DEF LaneCallOK
<1> QED BY <1>1, <1>2, LaneCallsKeep

(* update_task fetches the task.                                            *)
LEMMA UpdateTaskKeeps ==
  ASSUME LaneInv, NEW c \in Workers, NEW k \in Tasks, NEW due \in Dues \union {None},
         NEW complete \in BOOLEAN, Lane!UpdateTask(c, k, due, complete)
  PROVE  LaneInv'
<1> DEFINE j == [pc |-> IF due # None THEN "save" ELSE IF complete THEN "complete" ELSE "look",
                 of |-> k, due |-> due, complete |-> complete, read |-> Lane!RowOf(k),
                 row |-> None, overtaken |-> FALSE]
<1>1. Lane!RowOf(k) \in LaneRow
  BY DEF LaneInv, LaneTypes, Lane!RowOf, LaneRow, LaneTask
<1>2. j \in LaneCall
  BY <1>1 DEF LaneCall
<1>3. LaneCallOK(j)
  <2>1. k \notin round.del
    BY DEF Lane!UpdateTask, LaneInv, TaskOK
  <2> QED BY <2>1 DEF LaneCallOK
<1>4. call' = [call EXCEPT ![c] = j] /\ call \in [Workers -> LaneCall \union {NoCall}]
  BY DEF Lane!UpdateTask, LaneInv, LaneTypes
<1>5. /\ call' \in [Workers -> LaneCall \union {NoCall}]
      /\ \A d \in Workers : call'[d] = call[d] \/ LaneCallOK(call'[d])
  <2> HIDE DEF j
  <2> QED BY <1>2, <1>3, <1>4
<1> QED BY <1>5, LaneCallsKeep DEF Lane!UpdateTask, Lane!history

(* A request that changes the task of a call, which goes on.                *)
LEMMA SavedKeeps ==
  ASSUME LaneInv, NEW c \in Workers, call[c] # NoCall, NEW t \in LaneTask, NEW p \in {"complete", "look"},
         tasks[call[c].of].here,
         Lane!Changed(call[c].of, t), Lane!Goes(c, p),
         UNCHANGED <<table, synced, round, touched, interrupted>>
  PROVE  LaneInv'
<1>1. call[c] \in LaneCall /\ call \in [Workers -> LaneCall \union {NoCall}]
  BY DEF LaneInv, LaneTypes
<1>2. PICK j : j = [call[c] EXCEPT !.pc = p]
  OBVIOUS
<1>3. j \in LaneCall /\ j.of = call[c].of /\ j.overtaken = call[c].overtaken /\ j.pc = p
  BY <1>1, <1>2 DEF LaneCall
<1>4. call' = [call EXCEPT ![c] = j]
  BY <1>1, <1>2 DEF Lane!Goes
<1>5. /\ call' \in [Workers -> LaneCall \union {NoCall}]
      /\ \A d \in Workers : call'[d] # NoCall /\ call'[d] # call[d] =>
           /\ call[d] # NoCall /\ call[d].of = call[c].of
           /\ call'[d].of = call[c].of /\ call'[d].overtaken = call[d].overtaken
           /\ call'[d].pc \notin {"save", "patch"}
  BY <1>1, <1>3, <1>4
<1>6. call[c].of \in Tasks
  BY <1>1 DEF LaneCall
<1> QED BY <1>5, <1>6, ChangedKeeps

(* The two requests of update_task (tasks.py:101-118).                      *)
LEMMA RequestsKeep ==
  ASSUME LaneInv, NEW c \in Workers, Lane!SaveDue(c) \/ Lane!Complete(c)
  PROVE  LaneInv'
<1>1. call[c] # NoCall /\ call[c] \in LaneCall /\ call[c].of \in Tasks
      /\ tasks[call[c].of] \in LaneTask
  BY DEF Lane!SaveDue, Lane!Complete, LaneInv, LaneTypes, LaneCall
<1>2. UNCHANGED <<table, synced, round, touched, interrupted>>
  BY DEF Lane!SaveDue, Lane!Complete, Lane!history
<1>3. CASE Lane!Ends(c) /\ UNCHANGED <<tasks, changes>>
  BY <1>2, <1>3, CallEndsKeeps
<1>4. CASE Lane!SaveDue(c) /\ tasks[call[c].of].here
  <2>1. LaneCallOK(call[c]) /\ call[c].pc = "save"
    BY <1>4 DEF Lane!SaveDue, LaneInv
  <2>2. call[c].due \in Dues
    BY <1>1, <2>1 DEF LaneCallOK, LaneCall
  <2>3. [tasks[call[c].of] EXCEPT !.due = call[c].due] \in LaneTask
    BY <1>1, <2>2 DEF LaneTask
  <2>4. Lane!Goes(c, Lane!AfterSave(c)) /\ Lane!AfterSave(c) \in {"complete", "look"}
    BY <1>4 DEF Lane!SaveDue, Lane!AfterSave
  <2> QED BY <1>1, <1>2, <1>4, <2>3, <2>4, SavedKeeps DEF Lane!SaveDue
<1>5. CASE Lane!Complete(c) /\ tasks[call[c].of].here
  <2> DEFINE due == IF call[c].due # None THEN call[c].due ELSE call[c].read.due
  <2>1. due \in Dues
    BY <1>1 DEF LaneCall, LaneRow
  <2>2. [tasks[call[c].of] EXCEPT !.due = due, !.done = TRUE] \in LaneTask
    BY <1>1, <2>1 DEF LaneTask
  <2> QED BY <1>1, <1>2, <1>5, <2>2, SavedKeeps DEF Lane!Complete
<1> QED BY <1>3, <1>4, <1>5 DEF Lane!SaveDue, Lane!Complete

(* The row a call is about to write: if no round has written over the call  *)
(* and the task is covered, the call has changed nothing, and the row is    *)
(* the one that was there.                                                  *)
LEMMA LookUpKeeps ==
  ASSUME Lane!ConstantsOK, LaneInv, NEW c \in Workers, Lane!LookUp(c)
  PROVE  LaneInv'
<1> DEFINE k == call[c].of
           due == IF call[c].due # None THEN call[c].due
                  ELSE IF table[k] # None THEN table[k].due ELSE call[c].read.due
           written == [due |-> due, done |-> call[c].complete \/ call[c].read.done]
<1>1. /\ call \in [Workers -> LaneCall \union {NoCall}]
      /\ call[c] # NoCall /\ call[c] \in LaneCall /\ k \in Tasks /\ call[c].pc = "look"
      /\ table[k] \in LaneRow \union {None} /\ LaneCallOK(call[c]) /\ TaskOK(k)
  BY DEF Lane!LookUp, LaneInv, LaneTypes, LaneCall
<1>2. UNCHANGED <<tasks, changes, table, synced, round, touched, interrupted>>
  BY DEF Lane!LookUp, Lane!history
<1>3. CASE Lane!Ends(c)
  BY <1>2, <1>3, CallEndsKeeps
<1>4. CASE Lane!Keeps(k) /\ call' = [call EXCEPT ![c].pc = "patch", ![c].row = written]
  <2>1. written \in LaneRow
    <3>1. due \in Dues /\ call[c].complete \in BOOLEAN /\ call[c].read.done \in BOOLEAN
      BY <1>1 DEF LaneCall, LaneRow
    <3>2. (call[c].complete \/ call[c].read.done) \in BOOLEAN
      OBVIOUS
    <3> HIDE DEF due
    <3> QED BY <3>1, <3>2 DEF LaneRow
  <2>2. PICK i : i = [call[c] EXCEPT !.pc = "patch"]
    OBVIOUS
  <2>3. PICK j : j = [i EXCEPT !.row = written]
    OBVIOUS
  <2>4. /\ j \in LaneCall /\ j.pc = "patch" /\ j.row = written /\ j.of = k
        /\ j.due = call[c].due /\ j.complete = call[c].complete
        /\ j.read = call[c].read /\ j.overtaken = call[c].overtaken
    <3> HIDE DEF written
    <3>1. /\ i \in LaneCall /\ i.pc = "patch" /\ i.of = k
          /\ i.due = call[c].due /\ i.complete = call[c].complete
          /\ i.read = call[c].read /\ i.overtaken = call[c].overtaken
      BY <1>1, <2>2 DEF LaneCall
    <3> QED BY <2>1, <2>3, <3>1 DEF LaneCall
  <2>5. call' = [call EXCEPT ![c] = j]
    <3> HIDE DEF written
    <3> QED BY <1>1, <1>4, <2>2, <2>3
  <2>6. ASSUME Known(k), ~j.overtaken, k \notin touched
        PROVE  written = Lane!RowOf(k)
    <3>1. /\ call[c].read = Lane!RowOf(k) /\ call[c].due = None /\ ~call[c].complete
          /\ table[k] = Lane!RowOf(k) /\ table[k] # None
      BY <1>1, <1>4, <2>4, <2>6 DEF LaneCallOK, TaskOK, Lane!Keeps
    <3>2. due = Lane!RowOf(k).due
      BY <3>1
    <3>3. (call[c].complete \/ call[c].read.done) = Lane!RowOf(k).done
      <4>1. call[c].read.done \in BOOLEAN
        BY <1>1 DEF LaneCall, LaneRow
      <4> QED BY <3>1, <4>1
    <3> HIDE DEF due
    <3> QED BY <3>2, <3>3 DEF Lane!RowOf
  <2>7. LaneCallOK(j)
    <3> HIDE DEF written
    <3> QED BY <1>1, <1>4, <2>1, <2>4, <2>6 DEF LaneCallOK, Lane!Keeps
  <2>8. /\ call' \in [Workers -> LaneCall \union {NoCall}]
        /\ \A d \in Workers : call'[d] = call[d] \/ call'[d] = j
    BY <1>1, <2>4, <2>5
  <2> QED BY <1>2, <2>7, <2>8, LaneCallsKeep
<1> QED BY <1>3, <1>4 DEF Lane!LookUp

(* The write-through, which may resurrect a row or overwrite a newer one    *)
(* only if a round wrote since the call began.                              *)
LEMMA WriteKeeps ==
  ASSUME Lane!ConstantsOK, LaneInv, NEW c \in Workers, Lane!WriteThrough(c)
  PROVE  LaneInv'
<1> DEFINE k == call[c].of
<1>1. /\ call \in [Workers -> LaneCall \union {NoCall}]
      /\ call[c] # NoCall /\ call[c] \in LaneCall /\ k \in Tasks /\ call[c].pc = "patch"
      /\ call[c].row \in LaneRow /\ call[c].row # None /\ LaneCallOK(call[c]) /\ TaskOK(k)
      /\ table \in [Tasks -> LaneRow \union {None}] /\ call[c].overtaken \in BOOLEAN
  BY DEF Lane!WriteThrough, LaneInv, LaneTypes, LaneCallOK, LaneCall, LaneRow, Lane!ConstantsOK
<1>2. /\ UNCHANGED <<tasks, changes, synced, round, interrupted>>
      /\ table' = [table EXCEPT ![k] = call[c].row]
      /\ touched \subseteq touched'
      /\ touched' \subseteq touched \union {k}
      /\ k \notin touched' => ~call[c].overtaken
      /\ call' = [call EXCEPT ![c] = NoCall]
  BY DEF Lane!WriteThrough, Lane!Ends
<1> HIDE DEF k
<1>3. LaneTypes'
  BY <1>1, <1>2 DEF LaneInv, LaneTypes
<1>4. ASSUME NEW x \in Tasks PROVE TaskOK(x)'
  <2>1. TaskOK(x)
    BY DEF LaneInv
  <2>2. CASE x # k
    BY <1>1, <1>2, <2>1, <2>2 DEF TaskOK, Known, Wrote, Lane!RowOf
  <2>3. CASE x = k
    <3>1. table'[x] = call[c].row
      BY <1>1, <1>2, <2>3
    <3>2. k \notin touched' /\ Known(k) => call[c].row = Lane!RowOf(k)
      BY <1>1, <1>2 DEF LaneCallOK, k
    <3>3. k \notin touched' => table[k] # None /\ ~(round.pc = "state" /\ k \in round.del)
      BY <1>1, <1>2 DEF LaneCallOK, k
    <3> QED BY <1>2, <2>1, <2>3, <3>1, <3>2, <3>3 DEF TaskOK, Known, Wrote, Lane!RowOf
  <2> QED BY <2>2, <2>3
<1>5. ASSUME NEW d \in Workers PROVE LaneCallOK(call[d])'
  <2>1. LaneCallOK(call[d]) /\ (call'[d] = call[d] \/ call'[d] = NoCall)
    BY <1>1, <1>2 DEF LaneInv
  <2>2. CASE call'[d] = NoCall
    BY <2>2 DEF LaneCallOK
  <2>3. CASE call'[d] = call[d] /\ call[d] # NoCall
    <3>1. call[d].of \in Tasks
      BY <2>3 DEF LaneInv, LaneTypes, LaneCall
    <3>2. table'[call[d].of] = table[call[d].of] \/ table'[call[d].of] # None
      BY <1>1, <1>2, <3>1
    <3> QED BY <1>2, <2>1, <2>3, <3>2 DEF LaneCallOK, Known, Wrote, Lane!RowOf
  <2> QED BY <2>1, <2>2, <2>3
<1> QED BY <1>3, <1>4, <1>5 DEF LaneInv

(* The stream: what is not in its lists was covered before.                 *)
LEMMA SyncItemsKeeps ==
  ASSUME Lane!ConstantsOK, LaneInv, Lane!SyncItems
  PROVE  LaneInv'
<1>1. /\ UNCHANGED <<tasks, changes, table, synced, call, touched, interrupted>>
      /\ round.pc = "rests" /\ round'.pc = "upsert"
      /\ tasks \in [Tasks -> LaneTask] /\ synced \in [Tasks -> Nat]
  BY DEF Lane!SyncItems, Lane!history, LaneInv, LaneTypes
<1>2. \A k \in Tasks : Lane!RowOf(k) \in LaneRow /\ Lane!RowOf(k) # None
  BY <1>1 DEF Lane!RowOf, LaneRow, LaneTask, Lane!ConstantsOK
<1>3. LaneTypes'
  <2>1. round' \in [pc : {"rests", "upsert", "delete", "state"}, up : [Tasks -> LaneRow \union {None}],
                    del : SUBSET Tasks, seen : [Tasks -> Nat]]
    <3> DEFINE up == [k \in Tasks |-> IF k \in Lane!Pending /\ tasks[k].here THEN Lane!RowOf(k) ELSE None]
               seen == [k \in Tasks |-> IF tasks[k].here THEN tasks[k].at ELSE 0]
               del == {k \in Lane!Pending : ~tasks[k].here}
    <3>1. up \in [Tasks -> LaneRow \union {None}]
      BY <1>2
    <3>2. seen \in [Tasks -> Nat]
      BY <1>1 DEF LaneTask
    <3>3. del \in SUBSET Tasks
      BY DEF Lane!Pending
    <3>4. round' = [pc |-> "upsert", up |-> up, del |-> del, seen |-> seen]
      BY DEF Lane!SyncItems
    <3> HIDE DEF up, seen, del
    <3> QED BY <3>1, <3>2, <3>3, <3>4
  <2> QED BY <1>1, <2>1 DEF LaneInv, LaneTypes
<1>4. ASSUME NEW k \in Tasks PROVE TaskOK(k)'
  <2>1. TaskOK(k) /\ tasks[k] \in LaneTask /\ synced[k] \in Nat
    BY <1>1 DEF LaneInv
  <2>2. /\ round'.up[k] = IF k \in Lane!Pending /\ tasks[k].here THEN Lane!RowOf(k) ELSE None
        /\ k \in round'.del <=> k \in Lane!Pending /\ ~tasks[k].here
        /\ round'.seen[k] = IF tasks[k].here THEN tasks[k].at ELSE 0
    BY DEF Lane!SyncItems, Lane!Pending
  <2>3. k \in Lane!Pending <=> IF tasks[k].here THEN tasks[k].at > synced[k] ELSE synced[k] # 0
    BY DEF Lane!Pending
  <2>4. /\ Known(k)' <=> Known(k)
        /\ Lane!RowOf(k)' = Lane!RowOf(k)
    BY <1>1 DEF Known, Wrote, Lane!RowOf
  <2>5. tasks[k].at \in Nat /\ tasks[k].here \in BOOLEAN
    BY <2>1 DEF LaneTask
  <2>6. CASE tasks[k].here
    BY <1>1, <1>2, <2>1, <2>2, <2>3, <2>4, <2>5, <2>6 DEF TaskOK, Wrote
  <2>7. CASE ~tasks[k].here
    BY <1>1, <2>1, <2>2, <2>3, <2>4, <2>5, <2>7 DEF TaskOK, Wrote
  <2> QED BY <2>5, <2>6, <2>7
<1>5. ASSUME NEW c \in Workers PROVE LaneCallOK(call[c])'
  <2>1. LaneCallOK(call[c])
    BY DEF LaneInv
  <2> QED BY <1>1, <2>1 DEF LaneCallOK, Known, Wrote, Lane!RowOf
<1> QED BY <1>3, <1>4, <1>5 DEF LaneInv

(* What a transaction of a round does to the calls.                         *)
LEMMA WrittenCalls ==
  ASSUME LaneInv, NEW S, Lane!Written(S)
  PROVE  /\ call' \in [Workers -> LaneCall \union {NoCall}]
         /\ \A c \in Workers :
              \/ call'[c] = NoCall
              \/ call[c] # NoCall /\ call[c].of \notin S /\ call'[c] = call[c]
              \/ call[c] # NoCall /\ call'[c] = [call[c] EXCEPT !.overtaken = TRUE]
         /\ touched' = touched \ S
<1>1. call \in [Workers -> LaneCall \union {NoCall}]
  BY DEF LaneInv, LaneTypes
<1>2. \A c \in Workers : call[c] # NoCall => [call[c] EXCEPT !.overtaken = TRUE] \in LaneCall
  BY <1>1 DEF LaneCall
<1> QED BY <1>1, <1>2 DEF Lane!Written

(* Nothing is asked of a call that a round has written over, but the types. *)
LEMMA OvertakenOK ==
  ASSUME LaneInv, NEW c \in Workers, call[c] # NoCall,
         call'[c] = [call[c] EXCEPT !.overtaken = TRUE]
  PROVE  LaneCallOK(call[c])'
<1>1. call[c] \in LaneCall /\ LaneCallOK(call[c])
  BY DEF LaneInv, LaneTypes
<1>2. /\ call'[c].overtaken /\ call'[c].pc = call[c].pc
      /\ call'[c].row = call[c].row /\ call'[c].due = call[c].due
  BY <1>1 DEF LaneCall
<1> QED BY <1>1, <1>2 DEF LaneCallOK

(* The first transaction: what the state of the round covers is now in the  *)
(* table.                                                                   *)
LEMMA UpsertTasksKeeps ==
  ASSUME Lane!ConstantsOK, LaneInv, Lane!UpsertTasks
  PROVE  LaneInv'
<1>1. /\ UNCHANGED <<tasks, changes, synced, interrupted>>
      /\ round.pc = "upsert" /\ round' = [round EXCEPT !.pc = "delete"]
      /\ round \in [pc : {"rests", "upsert", "delete", "state"}, up : [Tasks -> LaneRow \union {None}],
                    del : SUBSET Tasks, seen : [Tasks -> Nat]]
      /\ table \in [Tasks -> LaneRow \union {None}]
  BY DEF Lane!UpsertTasks, LaneInv, LaneTypes
<1>2. /\ round'.pc = "delete" /\ round'.up = round.up
      /\ round'.del = round.del /\ round'.seen = round.seen
      /\ round' \in [pc : {"rests", "upsert", "delete", "state"}, up : [Tasks -> LaneRow \union {None}],
                     del : SUBSET Tasks, seen : [Tasks -> Nat]]
  BY <1>1
<1>3. /\ table' = [k \in Tasks |-> IF k \in Lane!Stored THEN round.up[k] ELSE table[k]]
      /\ Lane!Written(Lane!Stored) /\ touched' = touched \ Lane!Stored
  BY DEF Lane!UpsertTasks, Lane!Written
<1>4. /\ table' \in [Tasks -> LaneRow \union {None}]
      /\ \A k \in Tasks : table'[k] = IF round.up[k] # None THEN round.up[k] ELSE table[k]
  BY <1>1, <1>3 DEF Lane!Stored
<1>5. LaneTypes'
  BY <1>1, <1>2, <1>3, <1>4, WrittenCalls DEF LaneInv, LaneTypes
<1>6. ASSUME NEW k \in Tasks PROVE TaskOK(k)'
  <2>1. TaskOK(k) /\ tasks[k] \in LaneTask /\ synced[k] \in Nat /\ round.seen[k] \in Nat
    BY <1>1 DEF LaneInv, LaneTypes
  <2>2. k \in Lane!Stored <=> round.up[k] # None
    BY DEF Lane!Stored
  <2>3. Known(k)' => tasks[k].here /\ round.seen[k] >= tasks[k].at
    BY <1>1, <1>2, <2>1 DEF Known, Wrote, TaskOK
  <2>4. round.up[k] = None /\ Known(k)' => Known(k)
    BY <1>1, <1>2, <2>1, <2>3 DEF Known, Wrote, TaskOK, LaneTask
  <2>5. Lane!RowOf(k)' = Lane!RowOf(k)
    BY <1>1 DEF Lane!RowOf
  <2> QED BY <1>1, <1>2, <1>3, <1>4, <2>1, <2>2, <2>3, <2>4, <2>5 DEF TaskOK, Wrote
<1>7. ASSUME NEW c \in Workers PROVE LaneCallOK(call[c])'
  <2>1. LaneCallOK(call[c])
    BY DEF LaneInv
  <2>2. CASE call[c] # NoCall /\ call[c].of \notin Lane!Stored /\ call'[c] = call[c]
    <3>1. call[c].of \in Tasks
      BY <2>2 DEF LaneInv, LaneTypes, LaneCall
    <3>2. round.up[call[c].of] = None /\ table'[call[c].of] = table[call[c].of]
      BY <1>4, <2>2, <3>1 DEF Lane!Stored
    <3>3. Known(call[c].of)' => Known(call[c].of)
      <4>1. TaskOK(call[c].of) /\ tasks[call[c].of] \in LaneTask
            /\ synced[call[c].of] \in Nat /\ round.seen[call[c].of] \in Nat
        BY <1>1, <3>1 DEF LaneInv, LaneTypes
      <4> QED BY <1>1, <1>2, <2>2, <3>2, <4>1 DEF Known, Wrote, TaskOK, LaneTask
    <3> QED BY <1>1, <1>2, <1>3, <2>1, <2>2, <3>2, <3>3 DEF LaneCallOK, Lane!RowOf
  <2>3. CASE call'[c] = NoCall
    BY <2>3 DEF LaneCallOK
  <2> QED BY <1>3, <2>2, <2>3, WrittenCalls, OvertakenOK
<1> QED BY <1>5, <1>6, <1>7 DEF LaneInv

(* The second one: what is gone is out of it.                               *)
LEMMA DeleteTasksKeeps ==
  ASSUME LaneInv, Lane!DeleteTasks
  PROVE  LaneInv'
<1>1. /\ UNCHANGED <<tasks, changes, synced, interrupted>>
      /\ round.pc = "delete" /\ round' = [round EXCEPT !.pc = "state"]
      /\ round \in [pc : {"rests", "upsert", "delete", "state"}, up : [Tasks -> LaneRow \union {None}],
                    del : SUBSET Tasks, seen : [Tasks -> Nat]]
      /\ table \in [Tasks -> LaneRow \union {None}]
  BY DEF Lane!DeleteTasks, LaneInv, LaneTypes
<1>2. /\ round'.pc = "state" /\ round'.up = round.up
      /\ round'.del = round.del /\ round'.seen = round.seen
      /\ round' \in [pc : {"rests", "upsert", "delete", "state"}, up : [Tasks -> LaneRow \union {None}],
                     del : SUBSET Tasks, seen : [Tasks -> Nat]]
  BY <1>1
<1>3. /\ table' = [k \in Tasks |-> IF k \in round.del THEN None ELSE table[k]]
      /\ Lane!Written(round.del) /\ touched' = touched \ round.del
  BY DEF Lane!DeleteTasks, Lane!Written
<1>4. /\ table' \in [Tasks -> LaneRow \union {None}]
      /\ \A k \in Tasks : table'[k] = IF k \in round.del THEN None ELSE table[k]
  BY <1>1, <1>3
<1>5. LaneTypes'
  BY <1>1, <1>2, <1>3, <1>4, WrittenCalls DEF LaneInv, LaneTypes
<1>6. \A k \in Tasks : (Known(k)' <=> Known(k)) /\ Lane!RowOf(k)' = Lane!RowOf(k)
  BY <1>1, <1>2 DEF Known, Wrote, Lane!RowOf
<1>7. ASSUME NEW k \in Tasks PROVE TaskOK(k)'
  <2>1. TaskOK(k)
    BY DEF LaneInv
  <2>2. k \in round.del => ~Known(k)
    BY <2>1 DEF TaskOK, Known
  <2> QED BY <1>1, <1>2, <1>3, <1>4, <1>6, <2>1, <2>2 DEF TaskOK, Wrote
<1>8. ASSUME NEW c \in Workers PROVE LaneCallOK(call[c])'
  <2>1. LaneCallOK(call[c])
    BY DEF LaneInv
  <2>2. CASE call[c] # NoCall /\ call[c].of \notin round.del /\ call'[c] = call[c]
    <3>1. call[c].of \in Tasks
      BY <2>2 DEF LaneInv, LaneTypes, LaneCall
    <3> QED BY <1>2, <1>3, <1>4, <1>6, <2>1, <2>2, <3>1 DEF LaneCallOK
  <2>3. CASE call'[c] = NoCall
    BY <2>3 DEF LaneCallOK
  <2> QED BY <1>3, <2>2, <2>3, WrittenCalls, OvertakenOK
<1> QED BY <1>5, <1>7, <1>8 DEF LaneInv

(* The new state is saved.                                                  *)
LEMMA StateKeeps ==
  ASSUME LaneInv, Lane!SetSyncState
  PROVE  LaneInv'
<1>1. /\ UNCHANGED <<tasks, changes, table, call, touched>>
      /\ round.pc = "state" /\ round' = Lane!Resting /\ synced' = round.seen
      /\ interrupted' = interrupted \ (Lane!Stored \cup round.del)
      /\ round.seen \in [Tasks -> Nat]
  BY DEF Lane!SetSyncState, LaneInv, LaneTypes
<1>2. LaneTypes'
  BY <1>1 DEF LaneInv, LaneTypes, Lane!Resting
<1>3. \A k \in Tasks : (Known(k)' => Known(k)) /\ Lane!RowOf(k)' = Lane!RowOf(k)
  BY <1>1 DEF Known, Wrote, Lane!RowOf, Lane!Resting
<1>4. ASSUME NEW k \in Tasks PROVE TaskOK(k)'
  <2>1. TaskOK(k) /\ tasks[k] \in LaneTask /\ (k \in Lane!Stored <=> round.up[k] # None)
    BY DEF LaneInv, LaneTypes, Lane!Stored
  <2> QED BY <1>1, <1>3, <2>1 DEF TaskOK, Wrote, Lane!Resting, LaneTask
<1>5. ASSUME NEW c \in Workers PROVE LaneCallOK(call[c])'
  <2>1. LaneCallOK(call[c]) /\ call[c] \in LaneCall \union {NoCall}
    BY DEF LaneInv, LaneTypes
  <2>2. call[c] # NoCall => call[c].of \in Tasks
    BY <2>1 DEF LaneCall
  <2> QED BY <1>1, <1>3, <2>1, <2>2 DEF LaneCallOK, Lane!Resting
<1> QED BY <1>2, <1>4, <1>5 DEF LaneInv

(* A round fails, or the process restarts.                                  *)
LEMMA FailsKeep ==
  ASSUME LaneInv, Lane!RoundFails \/ Lane!Restart
  PROVE  LaneInv'
<1>1. /\ UNCHANGED <<tasks, changes, table, synced, touched>>
      /\ round' = Lane!Resting /\ Lane!Interrupted
      /\ call' \in [Workers -> LaneCall \union {NoCall}]
      /\ \A c \in Workers : call'[c] = call[c] \/ call'[c] = NoCall
  BY DEF Lane!RoundFails, Lane!Restart, LaneInv, LaneTypes
<1>2. LaneTypes'
  BY <1>1 DEF LaneInv, LaneTypes, Lane!Resting
<1>3. \A k \in Tasks : (Known(k)' => Known(k)) /\ Lane!RowOf(k)' = Lane!RowOf(k)
  BY <1>1 DEF Known, Wrote, Lane!RowOf, Lane!Resting
<1>4. ASSUME NEW k \in Tasks PROVE TaskOK(k)'
  <2>1. TaskOK(k) /\ tasks[k] \in LaneTask /\ (k \in Lane!Stored <=> round.up[k] # None)
    BY DEF LaneInv, LaneTypes, Lane!Stored
  <2>2. interrupted \subseteq interrupted' /\ (Wrote => Lane!Stored \subseteq interrupted')
    BY <1>1 DEF Lane!Interrupted, Wrote
  <2> QED BY <1>1, <1>3, <2>1, <2>2 DEF TaskOK, Wrote, Lane!Resting, LaneTask
<1>5. ASSUME NEW c \in Workers PROVE LaneCallOK(call[c])'
  <2>1. LaneCallOK(call[c]) /\ call[c] \in LaneCall \union {NoCall}
    BY DEF LaneInv, LaneTypes
  <2>2. call[c] # NoCall => call[c].of \in Tasks
    BY <2>1 DEF LaneCall
  <2>3. LaneCallOK(NoCall)'
    BY DEF LaneCallOK
  <2> QED BY <1>1, <1>3, <2>1, <2>2, <2>3 DEF LaneCallOK, Lane!Resting
<1> QED BY <1>2, <1>4, <1>5 DEF LaneInv

(* Every step of the calls, of the lane and of the others keeps the         *)
(* invariant.                                                               *)
LEMMA LaneNext == Lane!ConstantsOK /\ LaneInv /\ [Lane!Next]_(Lane!vars) => LaneInv'
<1> SUFFICES ASSUME Lane!ConstantsOK, LaneInv, [Lane!Next]_(Lane!vars) PROVE LaneInv'
  OBVIOUS
<1>1. ASSUME NEW c \in Workers, Lane!CallFails(c) PROVE LaneInv'
  BY <1>1, CallEndsKeeps DEF Lane!CallFails, Lane!history
<1>2. CASE UNCHANGED Lane!vars
  <2>1. UNCHANGED <<tasks, changes, table, synced, round, call, touched, interrupted>>
    BY <1>2 DEF Lane!vars, Lane!history
  <2>2. call' \in [Workers -> LaneCall \union {NoCall}]
    BY <2>1 DEF LaneInv, LaneTypes
  <2> QED BY <2>1, <2>2, LaneCallsKeep
<1>3. CASE \E k \in Tasks : Lane!OtherClient(k)
  BY <1>3, OtherTaskKeeps
<1>4. CASE \E c \in Workers, k \in Tasks, due \in Dues \cup {None}, complete \in BOOLEAN :
             Lane!UpdateTask(c, k, due, complete)
  BY <1>4, UpdateTaskKeeps
<1>5. CASE \E c \in Workers : Lane!SaveDue(c) \/ Lane!Complete(c) \/ Lane!CallFails(c) \/ Lane!LookUp(c) \/ Lane!WriteThrough(c)
  BY <1>1, <1>5, RequestsKeep, LookUpKeeps, WriteKeeps
<1>6. CASE Lane!SyncItems \/ Lane!UpsertTasks \/ Lane!DeleteTasks \/ Lane!SetSyncState \/ Lane!RoundFails \/ Lane!Restart
  BY <1>6, SyncItemsKeeps, UpsertTasksKeeps, DeleteTasksKeeps, StateKeeps, FailsKeep
<1> QED BY <1>2, <1>3, <1>4, <1>5, <1>6 DEF Lane!Next

(* At rest, with nothing pending, the table is right.                       *)
LEMMA LaneImplied == LaneInv => Lane!LaneRepairs
<1> SUFFICES ASSUME LaneInv, round.pc = "rests", Lane!Pending = {}, NEW k \in Tasks \ touched
             PROVE  IF tasks[k].here THEN table[k] = Lane!RowOf(k)
                    ELSE table[k] = None \/ k \in interrupted
  BY DEF Lane!LaneRepairs
<1>1. TaskOK(k) /\ tasks[k] \in LaneTask /\ synced[k] \in Nat
  BY DEF LaneInv, LaneTypes
<1>2. ~(IF tasks[k].here THEN tasks[k].at > synced[k] ELSE synced[k] # 0)
  BY DEF Lane!Pending
<1> QED BY <1>1, <1>2 DEF TaskOK, Known, Wrote, LaneTask

-----------------------------------------------------------------------------
(* MeetingTimes: lengths, multiples and remainders                          *)

(* Quotient and remainder                                                   *)
LEMMA DivMod ==
  ASSUME NEW t \in Nat, NEW d \in Nat \ {0}
  PROVE  t \div d \in Nat /\ t % d \in 0..d-1 /\ t = d * (t \div d) + (t % d)
OBVIOUS

(* Between two multiples there is room for one length                       *)
LEMMA NextMultiple ==
  ASSUME NEW a \in Int, NEW b \in Int, NEW d \in Nat \ {0}, a < b
  PROVE  d * a + d <= d * b
<1>1. PICK k \in Nat : b = a + 1 + k
  <2> WITNESS b - a - 1 \in Nat
  <2> QED OBVIOUS
<1>2. d * b = d * a + d + d * k
  BY <1>1
<1>3. d * k \in Nat
  OBVIOUS
<1> QED BY <1>2, <1>3

(* A number has one quotient and one remainder                              *)
LEMMA ModUnique ==
  ASSUME NEW t \in Nat, NEW d \in Nat \ {0}, NEW k \in Nat, NEW r \in 0..d-1, t = d * k + r
  PROVE  t \div d = k /\ t % d = r
<1>1. PICK q \in Nat : q = t \div d
  BY DivMod
<1>2. PICK s \in 0..d-1 : s = t % d
  BY DivMod
<1>3. d * q + s = d * k + r
  BY <1>1, <1>2, DivMod
<1>4. ~(q < k)
  <2>1. q < k => d * q + d <= d * k
    BY NextMultiple
  <2> QED BY <1>3, <2>1
<1>5. ~(k < q)
  <2>1. k < q => d * k + d <= d * q
    BY NextMultiple
  <2> QED BY <1>3, <2>1
<1>6. q = k
  BY <1>4, <1>5
<1> QED BY <1>1, <1>2, <1>3, <1>6

(* Comparing hours is comparing times                                       *)
LEMMA QuotientLess ==
  ASSUME NEW x \in Nat, NEW h \in Nat \ {0}, NEW k \in Nat
  PROVE  x \div h < k <=> x < k * h
<1>1. PICK q \in Nat, s \in 0..h-1 : q = x \div h /\ s = x % h /\ x = h * q + s
  BY DivMod
<1>2. q < k => h * q + h <= h * k
  BY NextMultiple
<1>3. k < q => h * k + h <= h * q
  BY NextMultiple
<1>4. k * h = h * k /\ h * q \in Nat /\ h * k \in Nat
  OBVIOUS
<1>5. CASE q < k
  BY <1>1, <1>2, <1>4, <1>5
<1>6. CASE q = k
  BY <1>1, <1>4, <1>6
<1>7. CASE k < q
  BY <1>1, <1>3, <1>4, <1>7
<1> QED BY <1>1, <1>5, <1>6, <1>7


(* What leaves no remainder is a multiple                                   *)
LEMMA Multiple ==
  ASSUME NEW t \in Nat, NEW d \in Nat \ {0}
  PROVE  t % d = 0 <=> \E k \in Nat : t = d * k
<1>1. ASSUME t % d = 0 PROVE \E k \in Nat : t = d * k
  <2>1. PICK k \in Nat : k = t \div d
    BY DivMod
  <2>2. PICK r \in Nat : r = t % d
    BY DivMod
  <2>3. t = d * k + r
    BY <2>1, <2>2, DivMod
  <2>4. t = d * k
    BY <1>1, <2>2, <2>3
  <2> QED BY <2>4
<1>2. ASSUME NEW k \in Nat, t = d * k PROVE t % d = 0
  BY <1>2, ModUnique
<1> QED BY <1>1, <1>2

(* A multiple is the only one before the next                               *)
LEMMA OnlyMultiple ==
  ASSUME NEW c \in Nat, NEW t \in Nat, NEW d \in Nat \ {0}, c % d = 0, t % d = 0, c <= t,
         t < c + d
  PROVE  t = c
<1>1. PICK k \in Nat, h \in Nat : c = d * k /\ t = d * h
  BY Multiple
<1>2. ~(h < k)
  <2>1. h < k => d * h + d <= d * k
    BY NextMultiple
  <2> QED BY <1>1, <2>1
<1>3. ~(k < h)
  <2>1. k < h => d * k + d <= d * h
    BY NextMultiple
  <2> QED BY <1>1, <2>1
<1>4. h = k
  BY <1>2, <1>3
<1> QED BY <1>1, <1>4


(* What leaves no remainder is a multiple                                   *)
(* Sums and differences of multiples are multiples                          *)
LEMMA MultiplesAdd ==
  ASSUME NEW a \in Nat, NEW b \in Nat, NEW d \in Nat \ {0}, a % d = 0, b % d = 0
  PROVE  (a + b) % d = 0 /\ (a >= b => (a - b) % d = 0)
<1>1. PICK k \in Nat, m \in Nat : a = d * k /\ b = d * m
  BY Multiple
<1>2. a + b = d * (k + m)
  BY <1>1
<1>3. (a + b) % d = 0
  <2>1. PICK n \in Nat : n = k + m
    OBVIOUS
  <2>2. d * n \in Nat /\ (d * n) % d = 0
    BY Multiple
  <2> QED BY <1>2, <2>1, <2>2
<1>4. ASSUME a >= b PROVE (a - b) % d = 0
  <2>1. ~(k < m)
    <3>1. k < m => d * k + d <= d * m
      BY NextMultiple
    <3> QED BY <1>1, <1>4, <3>1
  <2>2. PICK n \in Nat : k = m + n
    <3>1. k - m \in Nat
      BY <2>1
    <3> QED BY <3>1
  <2>3. a - b = d * n
    BY <1>1, <2>2
  <2>4. d * n \in Nat /\ (d * n) % d = 0
    BY Multiple
  <2> QED BY <2>3, <2>4
<1> QED BY <1>3, <1>4

(* Hours and days begin on an interval                                      *)
LEMMA LengthsOK ==
  ASSUME Times!ConstantsOK
  PROVE  /\ Interval \in Nat \ {0} /\ Hour \in Nat \ {0} /\ Day \in Nat \ {0}
         /\ Grid \in Nat \ {0}
         /\ \A k \in Nat : (k * Hour) % Interval = 0
         /\ \A k \in Nat : (Day * k) % Interval = 0
<1>1. Interval \in Nat \ {0} /\ Hour \in Nat \ {0} /\ Day \in Nat \ {0} /\ Grid \in Nat \ {0}
  BY DEF Times!ConstantsOK
<1>2. PICK h \in Nat, d \in Nat : Hour = Interval * h /\ Day = Hour * d
  BY <1>1, Multiple DEF Times!ConstantsOK
<1>3. ASSUME NEW k \in Nat PROVE (k * Hour) % Interval = 0
  <2>1. PICK n \in Nat : n = k * h
    OBVIOUS
  <2>2. k * Hour = Interval * n /\ k * Hour \in Nat
    BY <1>2, <2>1, <1>1
  <2> QED BY <1>1, <2>2, Multiple
<1>4. ASSUME NEW k \in Nat PROVE (Day * k) % Interval = 0
  <2>1. PICK n \in Nat : n = d * k
    OBVIOUS
  <2>2. Day * k = n * Hour
    BY <1>1, <1>2, <2>1
  <2> QED BY <1>3, <2>2
<1> QED BY <1>1, <1>3, <1>4

(* A day is the time from one midnight to the next                          *)
LEMMA DayOf ==
  ASSUME Times!ConstantsOK, NEW c \in Nat
  PROVE  /\ Times!Midnight(c) \in Nat /\ Times!Midnight(c) <= c /\ c < Times!Midnight(c) + Day
         /\ Times!Midnight(c) % Interval = 0
         /\ \A u \in Nat : Times!Midnight(c) <= u /\ u < Times!Midnight(c) + Day =>
              Times!Midnight(u) = Times!Midnight(c)
         /\ \A u \in Nat : Times!Midnight(c) + Day <= u /\ u < Times!Midnight(c) + Day + Day =>
              Times!Midnight(u) = Times!Midnight(c) + Day
<1>1. Day \in Nat \ {0}
  BY LengthsOK
<1>2. PICK q \in Nat, r \in 0..Day - 1 : q = c \div Day /\ r = c % Day /\ c = Day * q + r
  BY <1>1, DivMod
<1>3. PICK m \in Nat : m = Day * q
  BY <1>1
<1>4. Times!Midnight(c) = m
  BY <1>1, <1>2, <1>3 DEF Times!Midnight
<1>5. m % Interval = 0
  BY <1>3, LengthsOK
<1>6. ASSUME NEW u \in Nat, m <= u, u < m + Day PROVE Times!Midnight(u) = m
  <2>1. PICK s \in 0..Day - 1 : u = m + s
    <3>1. u - m \in 0..Day - 1
      BY <1>6, <1>1
    <3> QED BY <3>1
  <2>2. u % Day = s
    BY <1>1, <1>3, <2>1, ModUnique
  <2> QED BY <2>1, <2>2 DEF Times!Midnight
<1>7. ASSUME NEW u \in Nat, m + Day <= u, u < m + Day + Day PROVE Times!Midnight(u) = m + Day
  <2>1. PICK s \in 0..Day - 1 : u = m + Day + s
    <3>1. u - (m + Day) \in 0..Day - 1
      BY <1>7, <1>1
    <3> QED BY <1>1, <3>1
  <2>2. PICK n \in Nat : n = q + 1
    OBVIOUS
  <2>3. Day * n = m + Day
    BY <1>1, <1>3, <2>2
  <2>4. u % Day = s
    BY <1>1, <2>1, <2>3, ModUnique
  <2> QED BY <2>1, <2>4, <1>1 DEF Times!Midnight
<1> QED BY <1>1, <1>2, <1>3, <1>4, <1>5, <1>6, <1>7

(* It is before an hour of the day until that hour begins                   *)
LEMMA HourBefore ==
  ASSUME Times!ConstantsOK, NEW c \in Nat, NEW k \in Nat
  PROVE  k * Hour \in Nat /\ (Times!HourOf(c) < k <=> c < Times!Midnight(c) + k * Hour)
         /\ Times!HourOf(c) \in Nat
<1>1. Day \in Nat \ {0} /\ Hour \in Nat \ {0}
  BY LengthsOK
<1>2. PICK r \in Nat : r = c % Day
  BY <1>1, DivMod
<1>3. PICK x \in Nat : x = k * Hour
  BY <1>1
<1>4. r \div Hour < k <=> r < x
  BY <1>1, <1>3, QuotientLess
<1>5. r \div Hour \in Nat
  BY <1>1, DivMod
<1> QED BY <1>2, <1>3, <1>4, <1>5 DEF Times!HourOf, Times!Midnight

-----------------------------------------------------------------------------
(* MeetingTimes: the searches for free times                                *)
(*                                                                          *)
(* SlotsAreRight says what is found at the end; the invariant, what is      *)
(* found of the times before the cursor.  For v4 the cursor must stay on    *)
(* the intervals of the free/busy strings (OnIntervals), or its last        *)
(* minutes are looked up by none, and must have passed the pause after      *)
(* every suggestion (BeforeCursor).                                         *)

TimesTypes ==
  /\ request \in Requests
  /\ calendar \in [Attendees -> SUBSET Meetings] /\ hidden \subseteq Attendees
  /\ cursor \in Nat /\ cursor >= request.start
  /\ found \in Seq(Nat \X Nat) /\ done \in BOOLEAN
OnIntervals == Times!OnGrid => cursor % Interval = 0
BeforeCursor == \A i \in DOMAIN found : found[i][2] + Times!Pause <= cursor
Looked == request.duration % Interval = 0 /\ Times!OnGrid /\ Times!Steady /\ ~done =>
  \A t \in request.start..(cursor - 1) : Times!Possible(t) =>
    \E i \in DOMAIN found : Times!Near(found[i], t)
V4Inv == OnIntervals /\ BeforeCursor /\ Times!Acceptable /\ Looked /\ Times!NoneOverlooked
OfOneDay == request.hours_only => request.duration < Day
Slots(n) == {<<t, t + request.duration>> : t \in {t \in request.start..n : Times!Fitting(t)}}
V5Inv ==
  /\ cursor % Grid = 0
  /\ hidden # Attendees /\ OfOneDay /\ ~done =>
       {found[i] : i \in DOMAIN found} = Slots(cursor - 1)
  /\ Times!Whole
TimesInv == TimesTypes /\ (request.tool = "v4" => V4Inv) /\ (request.tool = "v5" => V5Inv)

(* What is known of a call and its cursor                                   *)
LEMMA CallFacts ==
  ASSUME Times!ConstantsOK, TimesTypes
  PROVE  /\ request.tool \in {"v4", "v5"} /\ request.start \in Nat /\ request.end \in Nat
         /\ request.duration \in Nat /\ request.duration > 0
         /\ request.earliest \in Nat /\ request.latest \in Nat
         /\ Times!Pause \in Int /\ cursor \in Nat /\ cursor >= request.start
         /\ request.tool = "v4" => /\ request.duration + Times!Pause \in Nat
                                   /\ request.earliest * Hour < Day
         /\ request.tool = "v5" => request.latest * Hour < Day
<1>1. /\ request \in Requests
      /\ request \in [tool : {"v4", "v5"}, start : Nat, end : Nat, duration : Nat \ {0},
                      pause : Int, apart : BOOLEAN, hours_only : BOOLEAN,
                      earliest : Nat, latest : Nat, max : Nat, change : Nat, shift : Int]
  BY DEF Times!ConstantsOK, TimesTypes
<1>2. /\ request.tool = "v4" => /\ request.duration + request.pause >= 0
                                /\ request.earliest * Hour < Day
      /\ request.tool # "v4" => request.latest * Hour < Day
  BY <1>1 DEF Times!ConstantsOK
<1>3. Times!Pause \in Int /\ (request.tool = "v4" => request.duration + Times!Pause \in Nat)
  BY <1>1, <1>2 DEF Times!Pause
<1> QED BY <1>1, <1>2, <1>3 DEF TimesTypes


(* The clock is changed after the start, and by no more than has passed     *)
LEMMA RealFacts ==
  ASSUME Times!ConstantsOK, TimesTypes
  PROVE  /\ request.change \in Nat /\ request.start < request.change
         /\ \A t \in Nat : t < request.change => Times!Real(t) = t
         /\ Times!Real(request.start) = request.start
         /\ request.start <= request.end =>
              Times!Real(request.end) \in Nat /\ Times!Real(request.end) >= request.start
<1>1. /\ request \in Requests /\ request.start < request.change
      /\ request.start <= request.change + request.shift
      /\ request \in [tool : {"v4", "v5"}, start : Nat, end : Nat, duration : Nat \ {0},
                      pause : Int, apart : BOOLEAN, hours_only : BOOLEAN,
                      earliest : Nat, latest : Nat, max : Nat, change : Nat, shift : Int]
  BY DEF Times!ConstantsOK, TimesTypes
<1>2. /\ request.start \in Nat /\ request.end \in Nat /\ request.change \in Nat /\ request.shift \in Int
  BY <1>1
<1> QED BY <1>1, <1>2 DEF Times!Real

(* Nothing is possible before the opening                                   *)
LEMMA BeforeOpening ==
  ASSUME Times!ConstantsOK, TimesTypes, request.hours_only, NEW t \in Nat,
         t < Times!Midnight(t) + request.earliest * Hour
  PROVE  ~Times!Possible(t)
<1>1. request.earliest \in Nat
  BY CallFacts
<1>2. Times!HourOf(t) < request.earliest /\ Times!HourOf(t) \in Nat
  BY <1>1, HourBefore
<1> QED BY <1>1, <1>2 DEF Times!Possible

(* The next morning is later, and on an interval                            *)
LEMMA MorningOK ==
  ASSUME Times!ConstantsOK, TimesTypes, NEW c \in Nat
  PROVE  Times!NextMorning(c) \in Nat /\ Times!NextMorning(c) > c
         /\ Times!NextMorning(c) % Interval = 0
<1>1. Day \in Nat /\ Interval \in Nat \ {0} /\ request.earliest \in Nat
  BY CallFacts, LengthsOK
<1>2. PICK x \in Nat : x = request.earliest * Hour /\ x % Interval = 0
  BY <1>1, LengthsOK, HourBefore
<1>3. PICK m \in Nat : m = Times!Midnight(c) /\ m % Interval = 0 /\ c < m + Day
  BY DayOf
<1>4. Day % Interval = 0
  <2>1. (Day * 1) % Interval = 0
    BY LengthsOK
  <2> QED BY <1>1, <2>1
<1>5. (m + Day) % Interval = 0
  BY <1>1, <1>3, <1>4, MultiplesAdd
<1>6. (m + Day + x) % Interval = 0
  <2>1. m + Day \in Nat
    BY <1>1
  <2> QED BY <1>1, <1>2, <1>5, <2>1, MultiplesAdd
<1> QED BY <1>1, <1>2, <1>3, <1>6 DEF Times!NextMorning


(* From c to the next morning nothing is possible if what begins in the     *)
(* rest of c's day is too late                                              *)
LEMMA NightIsClosed ==
  ASSUME Times!ConstantsOK, TimesTypes, request.tool = "v4", request.hours_only,
         NEW c \in Nat, NEW t \in Nat, c <= t, t < Times!NextMorning(c),
         t < Times!Midnight(c) + Day =>
           t + request.duration > Times!Midnight(c) + request.latest * Hour
  PROVE  ~Times!Possible(t)
<1>1. Day \in Nat \ {0} /\ request.earliest \in Nat /\ request.latest \in Nat
      /\ request.duration \in Nat
  BY CallFacts, LengthsOK
<1>2. PICK x \in Nat : x = request.earliest * Hour /\ x < Day
  BY <1>1, HourBefore, CallFacts
<1>3. PICK m \in Nat : m = Times!Midnight(c) /\ m <= c
  BY DayOf
<1>4. CASE t < m + Day
  <2>1. Times!Midnight(t) = m
    BY <1>3, <1>4, DayOf
  <2>2. request.latest * Hour \in Nat
    BY <1>1, HourBefore
  <2> QED BY <1>1, <1>3, <1>4, <2>1, <2>2 DEF Times!Possible
<1>5. CASE t >= m + Day
  <2>1. t < m + Day + x
    BY <1>2, <1>3 DEF Times!NextMorning
  <2>2. Times!Midnight(t) = m + Day
    BY <1>1, <1>2, <1>3, <1>5, <2>1, DayOf
  <2>3. t < Times!Midnight(t) + request.earliest * Hour
    BY <1>2, <2>1, <2>2
  <2> QED BY <2>3, BeforeOpening
<1> QED BY <1>1, <1>3, <1>4, <1>5

(* Moving the cursor on to the opening passes nothing that is possible      *)
LEMMA OpenedAt ==
  ASSUME Times!ConstantsOK, TimesTypes, request.tool = "v4"
  PROVE  /\ Times!Start \in Nat /\ Times!Start >= cursor
         /\ cursor % Interval = 0 => Times!Start % Interval = 0
         /\ \A t \in Nat : cursor <= t /\ t < Times!Start => ~Times!Possible(t)
<1>1. /\ cursor \in Nat /\ request.earliest \in Nat /\ Day \in Nat \ {0} /\ Interval \in Nat \ {0}
  BY CallFacts, LengthsOK
<1>2. CASE ~(request.hours_only /\ Times!HourOf(cursor) < request.earliest)
  <2>1. Times!Start = cursor
    BY <1>2 DEF Times!Start, Times!Opened
  <2> QED BY <1>1, <2>1
<1>3. CASE request.hours_only /\ Times!HourOf(cursor) < request.earliest
  <2>1. PICK x \in Nat : x = request.earliest * Hour /\ x < Day /\ x % Interval = 0
    BY <1>1, HourBefore, CallFacts, LengthsOK
  <2>2. PICK m \in Nat : m = Times!Midnight(cursor) /\ m <= cursor /\ m % Interval = 0
    BY <1>1, DayOf
  <2>3. Times!Start = m + x
    BY <1>3, <2>1, <2>2 DEF Times!Start, Times!Opened, Times!Opening
  <2>4. cursor < m + x
    BY <1>1, <1>3, <2>1, <2>2, HourBefore
  <2>5. (m + x) % Interval = 0
    BY <1>1, <2>1, <2>2, MultiplesAdd
  <2>6. ASSUME NEW t \in Nat, cursor <= t, t < m + x PROVE ~Times!Possible(t)
    <3>1. m <= t /\ t < m + Day
      BY <1>1, <2>1, <2>2, <2>6
    <3>2. Times!Midnight(t) = m
      BY <1>1, <2>2, <3>1, DayOf
    <3> QED BY <1>3, <2>1, <2>6, <3>2, BeforeOpening
  <2> QED BY <1>1, <2>3, <2>4, <2>5, <2>6
<1> QED BY <1>2, <1>3

(* A free/busy string covers the range                                      *)
LEMMA MergedLength ==
  ASSUME NEW a \in Attendees \ hidden, NEW l \in Nat,
         l = (Times!Real(request.end) - Times!Real(request.start)) \div Interval
  PROVE  Len(Times!Merged(a)) = l
BY DEF Times!Merged

(* Its j-th status after that of s is about the j-th interval after s       *)
LEMMA StatusOf ==
  ASSUME Times!ConstantsOK, TimesTypes, NEW a \in Attendees \ hidden, NEW s \in Nat,
         NEW k \in Nat, NEW j \in Nat, NEW l \in Nat, NEW y \in Nat,
         s = request.start + Interval * k, y = Interval * j,
         l = (Times!Real(request.end) - Times!Real(request.start)) \div Interval
  PROVE  k + j + 1 <= l =>
           Times!Merged(a)[k + (j + 1)] =
             IF \E m \in calendar[a] : Times!Overlap(s + y, s + y + Interval, m) THEN "2" ELSE "0"
<1>1. Interval \in Nat \ {0} /\ request.start \in Nat /\ Times!Real(request.start) = request.start
  BY CallFacts, LengthsOK, RealFacts
<1> DEFINE from(i) == Times!Real(request.start) + (i - 1) * Interval
           busy(i) == \E m \in calendar[a] : Times!Overlap(from(i), from(i) + Interval, m)
           statuses == [i \in 1..l |-> IF busy(i) THEN "2" ELSE "0"]
<1>2. Times!Merged(a) = statuses
  BY DEF Times!Merged
<1>3. ASSUME k + j + 1 <= l
      PROVE  statuses[k + (j + 1)] =
               IF \E m \in calendar[a] : Times!Overlap(s + y, s + y + Interval, m)
               THEN "2" ELSE "0"
  <2>1. PICK i \in 1..l : i = k + (j + 1)
    BY <1>3
  <2>2. from(i) = s + y
    BY <1>1, <2>1
  <2>3. statuses[i] = IF busy(i) THEN "2" ELSE "0"
    OBVIOUS
  <2> QED BY <2>1, <2>2, <2>3
<1> QED BY <1>2, <1>3

(* The intervals needed cover a slot, and exactly one of whole intervals    *)
LEMMA RoundedUp ==
  ASSUME NEW n \in Nat, NEW d \in Nat \ {0}
  PROVE  /\ (n + d - 1) \div d \in Nat
         /\ n <= d * ((n + d - 1) \div d)
         /\ n > 0 => (n + d - 1) \div d > 0
         /\ n % d = 0 => n = d * ((n + d - 1) \div d)
<1>1. n + d - 1 \in Nat
  OBVIOUS
<1>2. PICK q \in Nat, r \in 0..d - 1 : q = (n + d - 1) \div d /\ n + d - 1 = d * q + r
  BY <1>1, DivMod
<1>3. d * q \in Nat /\ n <= d * q
  BY <1>2
<1>4. n > 0 => q > 0
  <2>1. q = 0 => d * q = 0
    OBVIOUS
  <2> QED BY <1>2, <1>3, <2>1
<1>5. ASSUME n % d = 0 PROVE n = d * q
  <2>1. PICK k \in Nat : n = d * k
    BY <1>5, Multiple
  <2>2. n + d - 1 = d * k + (d - 1) /\ d - 1 \in 0..d - 1
    BY <2>1
  <2>3. (n + d - 1) \div d = k
    BY <1>1, <2>2, ModUnique
  <2> QED BY <1>2, <2>1, <2>3
<1> QED BY <1>2, <1>3, <1>4, <1>5

(* A slot on the grid begins with an interval of the string                 *)
LEMMA IndexOf ==
  ASSUME Times!ConstantsOK, TimesTypes, request.start % Interval = 0,
         NEW s \in Nat, s >= request.start, s % Interval = 0
  PROVE  \E k \in Nat : s = request.start + Interval * k /\ (s - request.start) \div Interval = k
<1>1. Interval \in Nat \ {0} /\ request.start \in Nat
  BY CallFacts, LengthsOK
<1>2. PICK x \in Nat : x = s - request.start
  BY <1>1
<1>3. x % Interval = 0
  BY <1>1, <1>2, MultiplesAdd
<1>4. PICK k \in Nat : x = Interval * k
  BY <1>1, <1>3, Multiple
<1>5. x \div Interval = k
  BY <1>1, <1>4, ModUnique
<1> QED BY <1>1, <1>2, <1>4, <1>5

(* Who is available in the string is free: a meeting is in the slot at the  *)
(* later of its own start and the slot's, in one of the slot's intervals,   *)
(* and makes that one busy                                                  *)
LEMMA AvailableIsFree ==
  ASSUME Times!ConstantsOK, TimesTypes, request.start % Interval = 0,
         NEW s \in Nat, s >= request.start, s % Interval = 0,
         s + request.duration <= request.end, s + request.duration < request.change, Times!AllAvailable(s)
  PROVE  Times!Free(s, s + request.duration)
<1>1. /\ Interval \in Nat \ {0} /\ request.start \in Nat /\ request.end \in Nat
      /\ request.duration \in Nat /\ request.duration > 0
  BY CallFacts, LengthsOK
<1>2. PICK k \in Nat : s = request.start + Interval * k /\ (s - request.start) \div Interval = k
  BY IndexOf
<1>3. PICK n \in Nat : n = Times!Needed(request.duration) /\ n > 0
           /\ request.duration <= Interval * n
  BY <1>1, RoundedUp DEF Times!Needed
<1>4. PICK l \in Nat : l = (Times!Real(request.end) - Times!Real(request.start)) \div Interval
  <2>1. Times!Real(request.end) - Times!Real(request.start) \in Nat
    BY <1>1, RealFacts
  <2> QED BY <1>1, <2>1, DivMod
<1>5. \A a \in Attendees : /\ k + n <= Len(Times!Merged(a))
                           /\ \A i \in 1..n : Times!Merged(a)[k + i] \notin {"2", "3", "4"}
  BY <1>2, <1>3 DEF Times!AllAvailable
<1>6. hidden = {}
  <2>1. ASSUME NEW a \in hidden PROVE FALSE
    <3>1. a \in Attendees /\ Times!Merged(a) = <<>>
      BY DEF TimesTypes, Times!Merged
    <3>2. Len(<<>>) = 0
      OBVIOUS
    <3> QED BY <1>3, <1>5, <3>1, <3>2
  <2> QED BY <2>1
<1>7. ASSUME NEW a \in Attendees, NEW m \in calendar[a], Times!Overlap(s, s + request.duration, m)
      PROVE  FALSE
  <2>1. m \in Nat \X Nat /\ m[1] < m[2]
    BY <1>7 DEF Times!ConstantsOK, TimesTypes
  <2>2. s < m[2] /\ m[1] < s + request.duration
    BY <1>7 DEF Times!Overlap
  <2>3. PICK x \in Nat : x < request.duration /\ s + x < m[2] /\ m[1] <= s + x
             /\ (x = 0 \/ m[1] = s + x)
    <3>1. CASE m[1] <= s
      <4>1. 0 < request.duration /\ s + 0 < m[2] /\ m[1] <= s + 0
        BY <1>1, <2>1, <2>2, <3>1
      <4> QED BY <4>1
    <3>2. CASE m[1] > s
      <4>1. /\ m[1] - s \in Nat /\ m[1] - s < request.duration
            /\ s + (m[1] - s) < m[2] /\ m[1] = s + (m[1] - s)
        BY <1>1, <2>1, <2>2, <3>2
      <4> QED BY <4>1
    <3> QED BY <2>1, <3>1, <3>2
  <2>4. PICK j \in Nat, r \in 0..Interval - 1 : x = Interval * j + r
    <3>1. PICK j \in Nat : j = x \div Interval
      BY <1>1, DivMod
    <3>2. PICK r \in 0..Interval - 1 : r = x % Interval
      BY <1>1, DivMod
    <3>3. x = Interval * j + r
      BY <1>1, <3>1, <3>2, DivMod
    <3> QED BY <3>3
  <2>5. PICK y \in Nat : y = Interval * j
    BY <1>1
  <2>6. j < n
    <3>1. PICK z \in Nat : z = Interval * n
      BY <1>1
    <3>2. n < j => z + Interval <= y
      BY <1>1, <2>5, <3>1, NextMultiple
    <3>3. n = j => z = y
      BY <2>5, <3>1
    <3> QED BY <1>1, <1>3, <2>3, <2>4, <2>5, <3>1, <3>2, <3>3
  <2>7. Times!Overlap(s + y, s + y + Interval, m)
    BY <1>1, <2>1, <2>2, <2>3, <2>4, <2>5 DEF Times!Overlap
  <2>8. Len(Times!Merged(a)) = l
    BY <1>4, <1>6, MergedLength
  <2>9. k + j + 1 <= l
    BY <1>5, <2>6, <2>8
  <2>10. Times!Merged(a)[k + (j + 1)] = "2"
    BY <1>2, <1>4, <1>6, <2>5, <2>7, <2>9, StatusOf
  <2>11. j + 1 \in 1..n
    BY <2>6
  <2> QED BY <1>5, <2>10, <2>11
<1>8. Times!Real(s) = s /\ Times!Real(s + request.duration) = s + request.duration
  <2>1. s < request.change /\ s + request.duration \in Nat /\ request.change \in Nat
    BY <1>1, RealFacts
  <2> QED BY <2>1, RealFacts
<1> QED BY <1>6, <1>7, <1>8 DEF Times!Free

(* Who is free is available in the string, if the slot is whole intervals   *)
LEMMA FreeIsAvailable ==
  ASSUME Times!ConstantsOK, TimesTypes, request.start % Interval = 0,
         request.duration % Interval = 0, Times!Steady,
         NEW s \in Nat, s >= request.start, s % Interval = 0,
         s + request.duration <= request.end, Times!Free(s, s + request.duration)
  PROVE  Times!AllAvailable(s)
<1>1. /\ Interval \in Nat \ {0} /\ request.start \in Nat /\ request.end \in Nat
      /\ request.duration \in Nat /\ request.duration > 0
  BY CallFacts, LengthsOK
<1>2. PICK k \in Nat : s = request.start + Interval * k /\ (s - request.start) \div Interval = k
  BY IndexOf
<1>3. PICK n \in Nat : n = Times!Needed(request.duration) /\ request.duration = Interval * n
  BY <1>1, RoundedUp DEF Times!Needed
<1>4. PICK e \in Nat : e = request.end - request.start
  BY <1>1
<1>5. PICK l \in Nat, r \in 0..Interval - 1 : l = e \div Interval /\ e = Interval * l + r
  BY <1>1, DivMod
<1>6. k + n <= l
  <2>1. PICK c \in Nat : c = k + n
    OBVIOUS
  <2>2. Interval * c = Interval * k + Interval * n
    BY <1>1, <2>1
  <2>3. Interval * c <= e
    BY <1>1, <1>2, <1>3, <1>4, <2>2
  <2>4. l < c => Interval * l + Interval <= Interval * c
    BY <1>1, NextMultiple
  <2>5. Interval * l \in Nat /\ Interval * c \in Nat
    BY <1>1
  <2> QED BY <1>1, <1>5, <2>1, <2>3, <2>4, <2>5
<1>7. hidden = {}
      /\ \A a \in Attendees : \A m \in calendar[a] : ~Times!Overlap(s, s + request.duration, m)
  <2>1. /\ s < request.change /\ s + request.duration \in Nat /\ s + request.duration < request.change
        /\ request.change \in Nat
    BY <1>1, RealFacts DEF Times!Steady
  <2>2. Times!Real(s) = s /\ Times!Real(s + request.duration) = s + request.duration
    BY <2>1, RealFacts
  <2> QED BY <2>2 DEF Times!Free
<1>8. l = (Times!Real(request.end) - Times!Real(request.start)) \div Interval
  <2>1. Times!Real(request.end) = request.end /\ Times!Real(request.start) = request.start
    BY <1>1, RealFacts DEF Times!Steady
  <2> QED BY <1>4, <1>5, <2>1
<1>9. ASSUME NEW a \in Attendees
      PROVE  /\ k + n <= Len(Times!Merged(a))
             /\ \A i \in 1..n : Times!Merged(a)[k + i] \notin {"2", "3", "4"}
  <2>1. a \in Attendees \ hidden
    BY <1>7
  <2>2. Len(Times!Merged(a)) = l
    BY <1>8, <2>1, MergedLength
  <2>3. ASSUME NEW i \in 1..n PROVE Times!Merged(a)[k + i] = "0"
    <3>1. PICK j \in Nat : i = j + 1
      <4>1. i - 1 \in Nat /\ i = (i - 1) + 1
        OBVIOUS
      <4> QED BY <4>1
    <3>2. PICK y \in Nat : y = Interval * j
      BY <1>1
    <3>3. y + Interval <= request.duration
      <4>1. j < n
        BY <3>1
      <4> QED BY <1>1, <1>3, <3>2, <4>1, NextMultiple
    <3>4. ASSUME NEW m \in calendar[a], Times!Overlap(s + y, s + y + Interval, m) PROVE FALSE
      <4>1. m \in Nat \X Nat
        BY <3>4 DEF Times!ConstantsOK, TimesTypes
      <4>2. Times!Overlap(s, s + request.duration, m)
        BY <1>1, <3>3, <3>4, <4>1 DEF Times!Overlap
      <4> QED BY <1>7, <4>2
    <3>5. k + j + 1 <= l
      BY <1>6, <3>1
    <3>6. Times!Merged(a)[k + (j + 1)] =
            IF \E m \in calendar[a] : Times!Overlap(s + y, s + y + Interval, m) THEN "2" ELSE "0"
      BY <1>2, <1>8, <2>1, <3>2, <3>5, StatusOf
    <3> QED BY <3>1, <3>4, <3>6
  <2> QED BY <1>6, <2>2, <2>3
<1> QED BY <1>2, <1>3, <1>9 DEF Times!AllAvailable


(* The call and the calendars stay, and so does what is said of them        *)
LEMMA CallStays ==
  ASSUME Times!Keep
  PROVE  /\ request' = request /\ hidden' = hidden /\ calendar' = calendar
         /\ Times!Pause' = Times!Pause /\ (Times!OnGrid' <=> Times!OnGrid)
         /\ (Times!Steady' <=> Times!Steady)
         /\ \A t : Times!Possible(t)' <=> Times!Possible(t)
         /\ \A x, t : Times!Near(x, t)' <=> Times!Near(x, t)
         /\ \A s, e : Times!Free(s, e)' <=> Times!Free(s, e)
<1>1. request' = request /\ hidden' = hidden /\ calendar' = calendar
  BY DEF Times!Keep
<1>2. Times!Pause' = Times!Pause
  BY <1>1 DEF Times!Pause
<1>3. Times!OnGrid' <=> Times!OnGrid
  BY <1>1, <1>2 DEF Times!OnGrid
<1>4. ASSUME NEW s, NEW e PROVE Times!Free(s, e)' <=> Times!Free(s, e)
  BY <1>1 DEF Times!Free, Times!Real
<1>5. ASSUME NEW t PROVE Times!Possible(t)' <=> Times!Possible(t)
  BY <1>1 DEF Times!Possible, Times!Free, Times!Real
<1>6. ASSUME NEW x, NEW t PROVE Times!Near(x, t)' <=> Times!Near(x, t)
  BY <1>1, <1>2 DEF Times!Near
<1>7. Times!Steady' <=> Times!Steady
  BY <1>1 DEF Times!Steady
<1> QED BY <1>1, <1>2, <1>3, <1>4, <1>5, <1>6, <1>7

(* The cursor moves on past nothing that is possible                        *)
LEMMA OnlyCursorMoves ==
  ASSUME Times!ConstantsOK, TimesInv, request.tool = "v4", Times!Keep, ~done, done' = done,
         found' = found,
         cursor' \in Nat, cursor' >= cursor, Times!OnGrid => cursor' % Interval = 0,
         request.duration % Interval = 0 /\ Times!OnGrid /\ Times!Steady =>
           \A t \in Nat : cursor <= t /\ t < cursor' => ~Times!Possible(t)
  PROVE  TimesInv'
<1>1. TimesTypes /\ V4Inv
  BY DEF TimesInv
<1>2. /\ Times!Pause \in Int /\ cursor \in Nat /\ request.start \in Nat /\ cursor >= request.start
  BY <1>1, CallFacts
<1>3. PICK c \in Nat : c = cursor'
  OBVIOUS
<1>4. TimesTypes'
  BY <1>1, <1>2, <1>3, CallStays DEF TimesTypes
<1>5. OnIntervals'
  BY CallStays DEF OnIntervals
<1>6. BeforeCursor'
  <2>1. ASSUME NEW i \in DOMAIN found PROVE found[i][2] + Times!Pause <= c
    <3>1. found[i][2] \in Nat
      BY <1>1 DEF TimesTypes
    <3>2. found[i][2] + Times!Pause <= cursor
      BY <1>1 DEF V4Inv, BeforeCursor
    <3> QED BY <1>2, <1>3, <3>1, <3>2
  <2> QED BY <1>3, <2>1, CallStays DEF BeforeCursor
<1>7. Times!Acceptable'
  BY <1>1, CallStays DEF V4Inv, Times!Acceptable
<1>8. Looked'
  <2>1. SUFFICES ASSUME request.duration % Interval = 0, Times!OnGrid, Times!Steady,
                        NEW t \in request.start..(c - 1), Times!Possible(t)
                 PROVE  \E i \in DOMAIN found : Times!Near(found[i], t)
    BY <1>3, CallStays DEF Looked
  <2>2. t \in Nat /\ t < c /\ t >= request.start
    BY <1>2
  <2>3. t < cursor
    BY <1>2, <1>3, <2>1, <2>2
  <2>4. t \in request.start..(cursor - 1)
    BY <1>2, <2>2, <2>3
  <2> QED BY <1>1, <2>1, <2>4 DEF V4Inv, Looked
<1>9. Times!NoneOverlooked'
  BY DEF Times!NoneOverlooked
<1> QED BY <1>4, <1>5, <1>6, <1>7, <1>8, <1>9, CallStays DEF TimesInv, V4Inv

(* The search ends where nothing more is possible                           *)
LEMMA SearchEnds ==
  ASSUME Times!ConstantsOK, TimesInv, request.tool = "v4", Times!Keep, ~done, done',
         found' = found,
         cursor' = cursor, done' \in BOOLEAN,
         Len(found) < request.max =>
           \A t \in Nat : cursor <= t /\ t <= request.end => ~Times!Possible(t)
  PROVE  TimesInv'
<1>1. TimesTypes /\ V4Inv
  BY DEF TimesInv
<1>2. /\ cursor \in Nat /\ request.start \in Nat /\ request.end \in Nat
  BY <1>1, CallFacts
<1>3. TimesTypes'
  BY <1>1, CallStays DEF TimesTypes
<1>4. OnIntervals' /\ BeforeCursor' /\ Times!Acceptable'
  BY <1>1, CallStays DEF V4Inv, OnIntervals, BeforeCursor, Times!Acceptable
<1>5. Looked'
  BY DEF Looked
<1>6. Times!NoneOverlooked'
  <2>1. SUFFICES ASSUME request.duration % Interval = 0, Times!OnGrid, Times!Steady, Len(found) < request.max,
                        NEW t \in request.start..request.end, Times!Possible(t)
                 PROVE  \E i \in DOMAIN found : Times!Near(found[i], t)
    BY CallStays DEF Times!NoneOverlooked
  <2>2. t \in Nat /\ t < cursor
    BY <1>2, <2>1
  <2>3. t \in request.start..(cursor - 1)
    BY <1>2, <2>2
  <2> QED BY <1>1, <2>1, <2>3 DEF V4Inv, Looked
<1> QED BY <1>3, <1>4, <1>5, <1>6, CallStays DEF TimesInv, V4Inv

(* The steps of find_meeting_times                                          *)
LEMMA SkipToMorningKeeps ==
  Times!ConstantsOK /\ TimesInv /\ Times!SkipToMorning => TimesInv'
<1> SUFFICES ASSUME Times!ConstantsOK, TimesInv, Times!SkipToMorning PROVE TimesInv'
  OBVIOUS
<1>1. /\ TimesTypes /\ request.tool = "v4" /\ ~done /\ Times!Keep /\ found' = found
      /\ done' = done /\ request.hours_only /\ Times!HourOf(cursor) >= request.latest
      /\ cursor' = Times!NextMorning(cursor)
  BY DEF TimesInv, Times!SkipToMorning, Times!Searching, Times!AfterHours
<1>2. cursor \in Nat /\ request.latest \in Nat /\ request.duration \in Nat /\ request.duration > 0
  BY <1>1, CallFacts
<1>3. Times!NextMorning(cursor) \in Nat /\ Times!NextMorning(cursor) > cursor
      /\ Times!NextMorning(cursor) % Interval = 0
  BY <1>1, <1>2, MorningOK
<1>4. ASSUME NEW t \in Nat, cursor <= t, t < Times!NextMorning(cursor) PROVE ~Times!Possible(t)
  <2>1. PICK x \in Nat : x = request.latest * Hour
    BY <1>2, HourBefore
  <2>2. PICK m \in Nat : m = Times!Midnight(cursor)
    BY <1>2, DayOf
  <2>3. Times!HourOf(cursor) \in Nat /\ ~(cursor < m + x)
    BY <1>1, <1>2, <2>1, <2>2, HourBefore
  <2>4. t + request.duration > m + x
    BY <1>2, <1>4, <2>3
  <2> QED BY <1>1, <1>2, <1>4, <2>1, <2>2, <2>4, NightIsClosed
<1> QED BY <1>1, <1>2, <1>3, <1>4, OnlyCursorMoves

LEMMA GiveUpKeeps ==
  Times!ConstantsOK /\ TimesInv /\ Times!GiveUp => TimesInv'
<1> SUFFICES ASSUME Times!ConstantsOK, TimesInv, Times!GiveUp PROVE TimesInv'
  OBVIOUS
<1>1. /\ TimesTypes /\ request.tool = "v4" /\ ~done /\ Times!Keep /\ found' = found
      /\ done' = TRUE
      /\ cursor' = cursor /\ Times!Stop > request.end
  BY DEF TimesInv, Times!GiveUp, Times!Searching
<1>2. PICK s \in Nat : s = Times!Start /\ s >= cursor
  BY <1>1, OpenedAt
<1>3. cursor \in Nat /\ request.end \in Nat /\ request.duration \in Nat
  BY <1>1, CallFacts
<1>4. ASSUME NEW t \in Nat, cursor <= t PROVE ~Times!Possible(t)
  <2>1. t < s => ~Times!Possible(t)
    BY <1>1, <1>2, <1>4, OpenedAt
  <2>2. CASE t >= s
    <3>1. t + request.duration > request.end
      BY <1>1, <1>2, <1>3, <2>2 DEF Times!Stop
    <3> QED BY <1>3, <3>1 DEF Times!Possible
  <2> QED BY <2>1, <2>2
<1> QED BY <1>1, <1>4, SearchEnds

LEMMA FinishKeeps ==
  Times!ConstantsOK /\ TimesInv /\ Times!Finish => TimesInv'
<1> SUFFICES ASSUME Times!ConstantsOK, TimesInv, Times!Finish PROVE TimesInv'
  OBVIOUS
<1>1. /\ TimesTypes /\ request.tool = "v4" /\ ~done /\ Times!Keep /\ found' = found
      /\ done' = TRUE
      /\ cursor' = cursor /\ (Len(found) < request.max => cursor >= request.end)
  <2>1. cursor \in Nat /\ request.end \in Nat
    BY CallFacts DEF TimesInv
  <2> QED BY <2>1 DEF TimesInv, Times!Finish, Times!Searching
<1>2. cursor \in Nat /\ request.end \in Nat /\ request.duration \in Nat /\ request.duration > 0
  BY <1>1, CallFacts
<1>3. ASSUME Len(found) < request.max, NEW t \in Nat, cursor <= t PROVE ~Times!Possible(t)
  <2>1. t + request.duration > request.end
    BY <1>1, <1>2, <1>3
  <2> QED BY <1>2, <2>1 DEF Times!Possible
<1> QED BY <1>1, <1>3, SearchEnds

LEMMA SkipTheRestKeeps ==
  Times!ConstantsOK /\ TimesInv /\ Times!SkipTheRest => TimesInv'
<1> SUFFICES ASSUME Times!ConstantsOK, TimesInv, Times!SkipTheRest PROVE TimesInv'
  OBVIOUS
<1>1. /\ TimesTypes /\ request.tool = "v4" /\ ~done /\ Times!Keep /\ found' = found
      /\ done' = done /\ request.hours_only /\ Times!HourOf(Times!Stop) > request.latest
      /\ cursor' = Times!NextMorning(Times!Start)
  BY DEF TimesInv, Times!SkipTheRest, Times!Searching, Times!TooLong
<1>2. cursor \in Nat /\ request.latest \in Nat /\ request.duration \in Nat /\ request.duration > 0
  BY <1>1, CallFacts
<1>3. PICK s \in Nat : s = Times!Start /\ s >= cursor
  BY <1>1, OpenedAt
<1>4. PICK n \in Nat : n = Times!NextMorning(s) /\ n > s /\ n % Interval = 0
  BY <1>1, MorningOK
<1>5. s + request.duration > Times!Midnight(s) + request.latest * Hour
  <2>1. PICK z \in Nat : z = s + request.duration
    BY <1>2
  <2>2. PICK x \in Nat : x = request.latest * Hour
    BY <1>2, HourBefore
  <2>3. Times!HourOf(z) > request.latest
    BY <1>1, <1>3, <2>1 DEF Times!Stop
  <2>4. PICK v \in Nat : v = Times!Midnight(z) /\ v <= z /\ z < v + Day
    BY DayOf
  <2>5. PICK m \in Nat : m = Times!Midnight(s) /\ m <= s /\ s < m + Day
    BY DayOf
  <2>6. m <= v
    <3>1. z < m + Day => v = m
      BY <1>2, <2>1, <2>4, <2>5, DayOf
    <3> QED BY <2>4, <2>5, <3>1, LengthsOK
  <2>7. z > v + x
    <3>1. PICK k \in Nat : k = request.latest + 1
      BY <1>2
    <3>2. k * Hour = x + Hour /\ Hour \in Nat \ {0}
      BY <1>2, <2>2, <3>1, LengthsOK
    <3>3. Times!HourOf(z) \in Nat /\ ~(Times!HourOf(z) < k)
      BY <1>2, <2>3, <3>1, HourBefore
    <3>4. ~(z < v + k * Hour)
      BY <2>4, <3>3, HourBefore
    <3> QED BY <2>4, <3>2, <3>4
  <2> QED BY <2>1, <2>2, <2>5, <2>6, <2>7
<1>6. ASSUME NEW t \in Nat, cursor <= t, t < n PROVE ~Times!Possible(t)
  <2>1. t < s => ~Times!Possible(t)
    BY <1>1, <1>3, <1>6, OpenedAt
  <2>2. CASE t >= s
    <3>1. PICK x \in Nat : x = request.latest * Hour
      BY <1>2, HourBefore
    <3>2. PICK m \in Nat : m = Times!Midnight(s)
      BY DayOf
    <3>3. t + request.duration > m + x
      BY <1>2, <1>5, <2>2, <3>1, <3>2
    <3> QED BY <1>1, <1>4, <1>6, <2>2, <3>1, <3>2, <3>3, NightIsClosed
  <2> QED BY <2>1, <2>2
<1>7. cursor' = n
  BY <1>1, <1>3, <1>4
<1> QED BY <1>1, <1>2, <1>3, <1>4, <1>6, <1>7, OnlyCursorMoves

LEMMA StepOnKeeps ==
  Times!ConstantsOK /\ TimesInv /\ Times!StepOn => TimesInv'
<1> SUFFICES ASSUME Times!ConstantsOK, TimesInv, Times!StepOn PROVE TimesInv'
  OBVIOUS
<1>1. /\ TimesTypes /\ V4Inv /\ request.tool = "v4" /\ ~done /\ Times!Keep /\ found' = found
      /\ done' = done
      /\ Times!Stop <= request.end /\ ~Times!AllAvailable(Times!Start)
      /\ cursor' = Times!Start + Interval
  BY DEF TimesInv, Times!StepOn, Times!Searching
<1>2. /\ cursor \in Nat /\ cursor >= request.start /\ Interval \in Nat \ {0}
      /\ request.start \in Nat
      /\ request.duration \in Nat
  BY <1>1, CallFacts, LengthsOK
<1>3. PICK s \in Nat : s = Times!Start /\ s >= cursor
           /\ (cursor % Interval = 0 => s % Interval = 0)
  BY <1>1, OpenedAt
<1>4. ASSUME Times!OnGrid PROVE (s + Interval) % Interval = 0 /\ s % Interval = 0
  <2>1. s % Interval = 0
    BY <1>1, <1>3, <1>4 DEF V4Inv, OnIntervals
  <2>2. Interval % Interval = 0
    <3>1. Interval = Interval * 1 /\ Interval \in Nat
      BY <1>2
    <3> QED BY <1>2, <3>1, Multiple
  <2> QED BY <1>2, <2>1, <2>2, MultiplesAdd
<1>5. ASSUME request.duration % Interval = 0, Times!OnGrid, Times!Steady, NEW t \in Nat, cursor <= t,
             t < s + Interval
      PROVE  ~Times!Possible(t)
  <2>1. t < s => ~Times!Possible(t)
    BY <1>1, <1>3, <1>5, OpenedAt
  <2>2. ASSUME t >= s, Times!Possible(t) PROVE FALSE
    <3>1. (t - request.start) % Interval = 0 /\ request.start % Interval = 0
      BY <1>5, <2>2 DEF Times!Possible, Times!OnGrid
    <3>2. PICK x \in Nat : x = t - request.start
      BY <1>2, <1>3, <2>2
    <3>3. t = x + request.start /\ t % Interval = 0
      BY <1>2, <3>1, <3>2, MultiplesAdd
    <3>4. t = s
      BY <1>2, <1>3, <1>4, <1>5, <2>2, <3>3, OnlyMultiple
    <3>5. Times!Free(s, s + request.duration) /\ s + request.duration <= request.end
      BY <2>2, <3>4 DEF Times!Possible
    <3>6. s >= request.start /\ request.start % Interval = 0
      BY <1>2, <1>3, <1>5 DEF Times!OnGrid
    <3>7. Times!AllAvailable(s)
      BY <1>1, <1>4, <1>5, <3>5, <3>6, FreeIsAvailable
    <3> QED BY <1>1, <1>3, <3>7
  <2> QED BY <1>3, <1>5, <2>1, <2>2
<1>6. cursor' = s + Interval /\ s + Interval \in Nat /\ s + Interval >= cursor
  BY <1>1, <1>2, <1>3
<1> QED BY <1>1, <1>4, <1>5, <1>6, OnlyCursorMoves

(* One element more                                                         *)
LEMMA Appended ==
  ASSUME NEW S, NEW q \in Seq(S), NEW x \in S
  PROVE  /\ Append(q, x) \in Seq(S) /\ Len(q) \in Nat /\ DOMAIN q = 1..Len(q)
         /\ DOMAIN Append(q, x) = DOMAIN q \union {Len(q) + 1}
         /\ \A i \in DOMAIN q : Append(q, x)[i] = q[i]
         /\ Append(q, x)[Len(q) + 1] = x
BY AppendProperties, LenProperties

LEMMA SuggestKeeps ==
  Times!ConstantsOK /\ TimesInv /\ Times!Suggest => TimesInv'
<1> SUFFICES ASSUME Times!ConstantsOK, TimesInv, Times!Suggest PROVE TimesInv'
  OBVIOUS
<1>1. /\ TimesTypes /\ V4Inv /\ request.tool = "v4" /\ ~done /\ Times!Keep
      /\ found' = Append(found, <<Times!Start, Times!Stop>>) /\ done' = FALSE
      /\ Times!Stop <= request.end /\ Times!AllAvailable(Times!Start)
      /\ cursor' = Times!Stop + Times!Pause
  BY DEF TimesInv, Times!Suggest, Times!Searching, Times!PastTheSlot
<1>2. /\ cursor \in Nat /\ cursor >= request.start /\ Interval \in Nat \ {0}
      /\ request.start \in Nat
      /\ request.duration \in Nat /\ request.duration > 0
      /\ Times!Pause \in Int /\ request.duration + Times!Pause \in Nat
  BY <1>1, CallFacts, LengthsOK
<1>3. PICK s \in Nat : s = Times!Start /\ s >= cursor
           /\ (cursor % Interval = 0 => s % Interval = 0)
  BY <1>1, OpenedAt
<1>4. PICK e \in Nat : e = Times!Stop /\ e = s + request.duration
  BY <1>2, <1>3 DEF Times!Stop
<1>5. PICK n \in Nat : n = Len(found)
  BY LenProperties, <1>1 DEF TimesTypes
<1> DEFINE more == Append(found, <<s, e>>)
<1>6. /\ more \in Seq(Nat \X Nat) /\ DOMAIN found = 1..n
      /\ DOMAIN more = DOMAIN found \union {n + 1}
      /\ \A i \in DOMAIN found : more[i] = found[i] /\ found[i] \in Nat \X Nat
      /\ more[n + 1] = <<s, e>>
  <2>1. found \in Seq(Nat \X Nat) /\ <<s, e>> \in Nat \X Nat
    BY <1>1 DEF TimesTypes
  <2> QED BY <1>5, <2>1, Appended, ElementOfSeq
<1>7. found' = more
  BY <1>1, <1>3, <1>4
<1> HIDE DEF more
<1>8. PICK c \in Nat : c = cursor' /\ c = e + Times!Pause /\ c >= s
           /\ c = s + (request.duration + Times!Pause)
  BY <1>1, <1>2, <1>4
<1>9. TimesTypes'
  <2>1. c >= request.start
    BY <1>2, <1>3, <1>8
  <2>2. done' \in BOOLEAN /\ found' \in Seq(Nat \X Nat)
    BY <1>1, <1>6, <1>7
  <2> QED BY <1>1, <1>8, <2>1, <2>2, CallStays DEF TimesTypes
<1>10. Times!OnGrid => s % Interval = 0 /\ request.start % Interval = 0
  BY <1>1, <1>3 DEF V4Inv, OnIntervals, Times!OnGrid
<1>11. OnIntervals'
  <2>1. ASSUME Times!OnGrid PROVE c % Interval = 0
    <3>1. PICK d \in Nat : d = request.duration + Times!Pause
      BY <1>2
    <3>2. d % Interval = 0 /\ s % Interval = 0
      BY <1>10, <2>1, <3>1 DEF Times!OnGrid
    <3>3. (s + d) % Interval = 0
      BY <1>2, <3>2, MultiplesAdd
    <3> QED BY <1>8, <3>1, <3>3
  <2> QED BY <1>1, <1>8, <2>1, CallStays DEF OnIntervals
<1>12. \A i \in DOMAIN found : found[i][2] + Times!Pause <= cursor
  BY <1>1 DEF V4Inv, BeforeCursor
<1>13. BeforeCursor'
  <2>1. ASSUME NEW i \in DOMAIN more PROVE more[i][2] + Times!Pause <= c
    <3>1. CASE i \in DOMAIN found
      BY <1>2, <1>3, <1>6, <1>8, <1>12, <3>1
    <3>2. CASE i = n + 1
      BY <1>2, <1>6, <1>8, <3>2
    <3> QED BY <1>6, <3>1, <3>2
  <2> QED BY <1>1, <1>7, <1>8, <2>1, CallStays DEF BeforeCursor
<1>14. Times!Acceptable'
  <2>1. ASSUME Times!OnGrid, NEW i \in DOMAIN more, more[i][2] < request.change
        PROVE  Times!Free(more[i][1], more[i][2])
    <3>1. CASE i \in DOMAIN found
      BY <1>1, <1>6, <2>1, <3>1 DEF V4Inv, Times!Acceptable
    <3>2. CASE i = n + 1
      <4>1. Times!Free(s, s + request.duration)
        BY <1>1, <1>2, <1>3, <1>4, <1>6, <1>10, <2>1, <3>2, AvailableIsFree
      <4> QED BY <1>4, <1>6, <3>2, <4>1
    <3> QED BY <1>6, <2>1, <3>1, <3>2
  <2>2. ASSUME NEW i \in DOMAIN more, NEW j \in DOMAIN more, i < j
        PROVE  more[i][2] + Times!Pause <= more[j][1]
    <3>1. i \in DOMAIN found
      BY <1>6, <2>2
    <3>2. CASE j \in DOMAIN found
      BY <1>1, <1>6, <2>2, <3>1, <3>2 DEF V4Inv, Times!Acceptable
    <3>3. CASE j = n + 1
      BY <1>2, <1>3, <1>6, <1>12, <3>1, <3>3
    <3> QED BY <1>6, <2>2, <3>2, <3>3
  <2> QED BY <1>1, <1>7, <2>1, <2>2, CallStays DEF Times!Acceptable
<1>15. Looked'
  <2>1. SUFFICES ASSUME request.duration % Interval = 0, Times!OnGrid, Times!Steady,
                        NEW t \in request.start..(c - 1), Times!Possible(t)
                 PROVE  \E i \in DOMAIN more : Times!Near(more[i], t)
    BY <1>1, <1>7, <1>8, CallStays DEF Looked
  <2>2. t \in Nat /\ t < c /\ t >= request.start
    BY <1>2
  <2>3. CASE t < cursor
    <3>1. t \in request.start..(cursor - 1)
      BY <1>2, <2>2, <2>3
    <3>2. PICK i \in DOMAIN found : Times!Near(found[i], t)
      BY <1>1, <2>1, <3>1 DEF V4Inv, Looked
    <3> QED BY <1>6, <3>2
  <2>4. CASE cursor <= t /\ t < s
    BY <1>1, <1>3, <2>1, <2>2, <2>4, OpenedAt
  <2>5. CASE s <= t
    <3>1. Times!Near(<<s, e>>, t)
      BY <1>2, <1>4, <1>8, <2>2, <2>5 DEF Times!Near
    <3> QED BY <1>6, <3>1
  <2> QED BY <1>2, <1>3, <2>2, <2>3, <2>4, <2>5
<1>16. Times!NoneOverlooked'
  BY <1>1 DEF Times!NoneOverlooked
<1> QED BY <1>1, <1>9, <1>11, <1>13, <1>14, <1>15, <1>16, CallStays DEF TimesInv, V4Inv

(* _ceil_to_grid skips no point of the grid                                 *)
LEMMA FirstOnGrid ==
  ASSUME Times!ConstantsOK, NEW t \in Nat
  PROVE  /\ Times!_ceil_to_grid(t) \in Nat /\ Times!_ceil_to_grid(t) >= t
         /\ Times!_ceil_to_grid(t) % Grid = 0
         /\ \A u \in Nat : t <= u /\ u < Times!_ceil_to_grid(t) => u % Grid # 0
<1>1. Grid \in Nat \ {0}
  BY LengthsOK
<1>2. t + Grid - 1 \in Nat
  BY <1>1
<1>3. PICK q \in Nat, r \in 0..Grid - 1 : q = (t + Grid - 1) \div Grid
           /\ t + Grid - 1 = Grid * q + r
  BY <1>1, <1>2, DivMod
<1>4. PICK z \in Nat : z = Grid * q
  BY <1>1
<1>5. Times!_ceil_to_grid(t) = z
  BY <1>1, <1>3, <1>4 DEF Times!_ceil_to_grid
<1>6. z % Grid = 0
  BY <1>1, <1>4, Multiple
<1>7. z >= t /\ z < t + Grid
  BY <1>1, <1>3, <1>4
<1>8. ASSUME NEW u \in Nat, t <= u, u < z, u % Grid = 0 PROVE FALSE
  <2>1. z < u + Grid /\ u <= z
    BY <1>1, <1>7, <1>8
  <2>2. z = u
    BY <1>1, <1>6, <1>8, <2>1, OnlyMultiple
  <2> QED BY <1>8, <2>2
<1> QED BY <1>5, <1>6, <1>7, <1>8

(* For slots of less than a day, comparing the times of day says that the   *)
(* slot lies in the working hours of one day                                *)
LEMMA HoursOfOneDay ==
  ASSUME Times!ConstantsOK, TimesTypes, request.tool = "v5", OfOneDay, NEW s \in Nat
  PROVE  Times!WithinHours(s, s + request.duration) <=>
           (request.hours_only =>
              /\ s >= Times!Midnight(s) + request.earliest * Hour
              /\ s + request.duration <= Times!Midnight(s) + request.latest * Hour)
<1>1. /\ Day \in Nat \ {0} /\ Hour \in Nat \ {0} /\ request.earliest \in Nat
      /\ request.latest \in Nat
      /\ request.duration \in Nat /\ request.duration > 0 /\ request.latest * Hour < Day
  BY CallFacts, LengthsOK
<1>2. PICK x \in Nat, y \in Nat : x = request.earliest * Hour /\ y = request.latest * Hour
           /\ y < Day
  BY <1>1, HourBefore
<1>3. PICK e \in Nat : e = s + request.duration
  BY <1>1
<1>4. PICK m \in Nat, o \in 0..Day - 1 : m = Times!Midnight(s) /\ o = s % Day /\ s = m + o
  <2>1. PICK o \in 0..Day - 1 : o = s % Day
    BY <1>1, DivMod
  <2>2. PICK m \in Nat : m = Times!Midnight(s)
    BY DayOf
  <2>3. s = m + o
    BY <2>1, <2>2 DEF Times!Midnight
  <2> QED BY <2>1, <2>2, <2>3
<1>5. PICK v \in Nat, p \in 0..Day - 1 : v = Times!Midnight(e) /\ p = e % Day /\ e = v + p
  <2>1. PICK p \in 0..Day - 1 : p = e % Day
    BY <1>1, DivMod
  <2>2. PICK v \in Nat : v = Times!Midnight(e)
    BY DayOf
  <2>3. e = v + p
    BY <2>1, <2>2 DEF Times!Midnight
  <2> QED BY <2>1, <2>2, <2>3
<1>6. e < m + Day => v = m
  <2>1. m <= e
    BY <1>1, <1>3, <1>4
  <2> QED BY <1>4, <1>5, <2>1, DayOf
<1>7. request.hours_only /\ e >= m + Day => v = m + Day
  <2>1. request.hours_only => e < m + Day + Day
    BY <1>1, <1>3, <1>4 DEF OfOneDay
  <2>2. e >= m + Day /\ e < m + Day + Day => v = m + Day
    BY <1>4, <1>5, DayOf
  <2> QED BY <2>1, <2>2
<1>8. Times!WithinHours(s, e) <=> (request.hours_only => x <= o /\ o < p /\ p <= y)
  BY <1>2, <1>4, <1>5 DEF Times!WithinHours, Times!TimeOf
<1>9. ASSUME request.hours_only PROVE (x <= o /\ o < p /\ p <= y) <=> (s >= m + x /\ e <= m + y)
  <2>1. CASE e < m + Day
    BY <1>1, <1>2, <1>3, <1>4, <1>5, <1>6, <2>1
  <2>2. CASE e >= m + Day
    <3>1. e < s + Day
      BY <1>1, <1>3, <1>9 DEF OfOneDay
    <3> QED BY <1>1, <1>2, <1>3, <1>4, <1>5, <1>7, <1>9, <2>2, <3>1
  <2> QED BY <1>1, <2>1, <2>2
<1> QED BY <1>2, <1>3, <1>4, <1>8, <1>9

(* What fits does not change either                                         *)
LEMMA FitStays ==
  ASSUME Times!Keep
  PROVE  /\ \A t : Times!Fitting(t)' <=> Times!Fitting(t)
         /\ \A n : Slots(n)' = Slots(n)
         /\ OfOneDay' <=> OfOneDay
<1>1. request' = request /\ hidden' = hidden /\ calendar' = calendar
  BY DEF Times!Keep
<1>2. ASSUME NEW t PROVE Times!Fitting(t)' <=> Times!Fitting(t)
  BY <1>1 DEF Times!Fitting, Times!NobodyBusy, Times!Real
<1>3. ASSUME NEW n PROVE Slots(n)' = Slots(n)
  BY <1>1, <1>2 DEF Slots
<1> QED BY <1>1, <1>2, <1>3 DEF OfOneDay

(* The steps of check_availability                                          *)
LEMMA NextOnGridKeeps ==
  Times!ConstantsOK /\ TimesInv /\ Times!NextOnGrid => TimesInv'
<1> SUFFICES ASSUME Times!ConstantsOK, TimesInv, Times!NextOnGrid PROVE TimesInv'
  OBVIOUS
<1> DEFINE slot == <<cursor, cursor + request.duration>>
           more == Append(found, slot)
           good == Times!WithinHours(slot[1], slot[2]) /\ Times!NobodyBusy(slot[1], slot[2])
<1>1. /\ TimesTypes /\ V5Inv /\ request.tool = "v5" /\ ~done /\ hidden # Attendees /\ Times!Keep
      /\ cursor + request.duration <= request.end /\ cursor' = cursor + Grid /\ done' = done
      /\ found' = IF good THEN more ELSE found
  BY DEF TimesInv, Times!NextOnGrid, Times!Scanning, Times!Fits
<1>2. /\ cursor \in Nat /\ cursor >= request.start /\ Grid \in Nat \ {0} /\ request.start \in Nat
      /\ request.end \in Nat /\ request.duration \in Nat /\ request.duration > 0
  BY <1>1, CallFacts, LengthsOK
<1>3. PICK n \in Nat : n = Len(found) /\ DOMAIN found = 1..n
  BY LenProperties, <1>1 DEF TimesTypes
<1>4. /\ more \in Seq(Nat \X Nat) /\ DOMAIN more = DOMAIN found \union {n + 1}
      /\ \A i \in DOMAIN found : more[i] = found[i]
      /\ more[n + 1] = slot
  <2>1. found \in Seq(Nat \X Nat) /\ slot \in Nat \X Nat
    BY <1>1, <1>2 DEF TimesTypes
  <2> QED BY <1>3, <2>1, Appended
<1>5. {more[i] : i \in DOMAIN more} = {found[i] : i \in DOMAIN found} \union {slot}
  BY <1>4
<1> HIDE DEF more
<1>6. PICK c \in Nat : c = cursor' /\ c = cursor + Grid
  BY <1>1, <1>2
<1>7. TimesTypes'
  <2>1. done' \in BOOLEAN /\ found' \in Seq(Nat \X Nat) /\ c >= request.start
    BY <1>1, <1>2, <1>4, <1>6 DEF TimesTypes
  <2> QED BY <1>1, <1>6, <2>1, CallStays DEF TimesTypes
<1>8. c % Grid = 0 /\ cursor % Grid = 0
  <2>1. cursor % Grid = 0
    BY <1>1 DEF V5Inv
  <2>2. Grid % Grid = 0
    <3>1. Grid = Grid * 1 /\ Grid \in Nat
      BY <1>2
    <3> QED BY <1>2, <3>1, Multiple
  <2>3. (cursor + Grid) % Grid = 0
    BY <1>2, <2>1, <2>2, MultiplesAdd
  <2> QED BY <1>6, <2>1, <2>3
<1>9. ASSUME OfOneDay PROVE {found'[i] : i \in DOMAIN found'} = Slots(c - 1)
  <2>1. good <=> Times!Fitting(cursor)
    BY <1>1, <1>2, <1>8, <1>9, HoursOfOneDay DEF Times!Fitting
  <2>2. ASSUME NEW t \in Nat, cursor <= t, t < c, Times!Fitting(t) PROVE t = cursor
    <3>1. t < cursor + Grid /\ t % Grid = 0
      BY <1>6, <2>2 DEF Times!Fitting
    <3> QED BY <1>2, <1>8, <2>2, <3>1, OnlyMultiple
  <2>3. {found[i] : i \in DOMAIN found} = Slots(cursor - 1)
    BY <1>1, <1>9 DEF V5Inv
  <2>4. ASSUME NEW t PROVE t \in request.start..(c - 1) /\ Times!Fitting(t) <=>
                             \/ t \in request.start..(cursor - 1) /\ Times!Fitting(t)
                             \/ t = cursor /\ Times!Fitting(t)
    <3>1. t \in request.start..(c - 1) =>
            t \in Nat /\ t < c /\ (t \in request.start..(cursor - 1) \/ cursor <= t)
      BY <1>2, <1>6
    <3>2. t \in request.start..(cursor - 1) \/ t = cursor => t \in request.start..(c - 1)
      BY <1>2, <1>6
    <3> QED BY <2>2, <3>1, <3>2
  <2>5. Slots(c - 1) = Slots(cursor - 1) \union (IF Times!Fitting(cursor) THEN {slot} ELSE {})
    BY <2>4 DEF Slots
  <2> QED BY <1>1, <1>5, <2>1, <2>3, <2>5
<1>10. V5Inv'
  <2>1. Times!Whole'
    BY <1>1 DEF Times!Whole
  <2> QED BY <1>1, <1>6, <1>8, <1>9, <2>1, CallStays, FitStays DEF V5Inv
<1> QED BY <1>1, <1>7, <1>10, CallStays DEF TimesInv

LEMMA GridEndsKeeps ==
  Times!ConstantsOK /\ TimesInv /\ Times!GridEnds => TimesInv'
<1> SUFFICES ASSUME Times!ConstantsOK, TimesInv, Times!GridEnds PROVE TimesInv'
  OBVIOUS
<1>1. /\ TimesTypes /\ V5Inv /\ request.tool = "v5" /\ ~done /\ Times!Keep
      /\ (hidden # Attendees => ~(cursor + request.duration <= request.end))
      /\ cursor' = cursor /\ done' = TRUE /\ found' = found
  BY DEF TimesInv, Times!GridEnds, Times!Scanning, Times!Fits
<1>2. /\ cursor \in Nat /\ cursor >= request.start /\ request.start \in Nat
      /\ request.end \in Nat /\ request.duration \in Nat
  BY <1>1, CallFacts
<1>3. ASSUME hidden # Attendees, OfOneDay
      PROVE  {found[i] : i \in DOMAIN found} = Slots(request.end)
  <2>1. {found[i] : i \in DOMAIN found} = Slots(cursor - 1)
    BY <1>1, <1>3 DEF V5Inv
  <2>2. ASSUME NEW t, Times!Fitting(t)
        PROVE  t \in request.start..(cursor - 1) <=> t \in request.start..request.end
    <3>1. t + request.duration <= request.end
      BY <2>2 DEF Times!Fitting
    <3> QED BY <1>1, <1>2, <1>3, <3>1
  <2>3. Slots(cursor - 1) = Slots(request.end)
    BY <2>2 DEF Slots
  <2> QED BY <2>1, <2>3
<1>4. Times!Whole'
  BY <1>1, <1>3, CallStays, FitStays DEF Times!Whole, Slots, OfOneDay
<1>5. V5Inv'
  BY <1>1, <1>4, CallStays, FitStays DEF V5Inv
<1>6. TimesTypes'
  BY <1>1, CallStays DEF TimesTypes
<1> QED BY <1>1, <1>5, <1>6, CallStays DEF TimesInv

(* The invariant of both searches                                           *)
LEMMA TimesInit == Times!ConstantsOK /\ Times!Init => TimesInv
<1> SUFFICES ASSUME Times!ConstantsOK, Times!Init PROVE TimesInv
  OBVIOUS
<1>1. /\ request \in Requests /\ calendar \in [Attendees -> SUBSET Meetings]
      /\ hidden \subseteq Attendees /\ found = <<>> /\ done = FALSE
      /\ cursor = IF request.tool = "v4" THEN request.start
                  ELSE Times!_ceil_to_grid(request.start)
  BY DEF Times!Init
<1>2. request.start \in Nat /\ request.tool \in {"v4", "v5"}
  BY <1>1 DEF Times!ConstantsOK
<1>3. PICK g \in Nat : /\ g = Times!_ceil_to_grid(request.start)
                       /\ g >= request.start /\ g % Grid = 0
                       /\ \A u \in Nat : request.start <= u /\ u < g => u % Grid # 0
  BY <1>2, FirstOnGrid
<1>4. TimesTypes
  <2>1. cursor \in Nat /\ cursor >= request.start
    BY <1>1, <1>2, <1>3
  <2>2. <<>> \in Seq(Nat \X Nat)
    OBVIOUS
  <2> QED BY <1>1, <2>1, <2>2 DEF TimesTypes
<1>5. DOMAIN found = {}
  BY <1>1
<1>6. ASSUME request.tool = "v4" PROVE V4Inv
  <2>1. OnIntervals /\ BeforeCursor /\ Times!Acceptable
    BY <1>1, <1>5, <1>6 DEF OnIntervals, BeforeCursor, Times!Acceptable, Times!OnGrid
  <2>2. Looked
    BY <1>1, <1>2, <1>6 DEF Looked
  <2>3. Times!NoneOverlooked
    BY <1>1 DEF Times!NoneOverlooked
  <2> QED BY <2>1, <2>2, <2>3 DEF V4Inv
<1>7. ASSUME request.tool = "v5" PROVE V5Inv
  <2>1. cursor = g
    BY <1>1, <1>3, <1>7
  <2>2. \A t \in request.start..(g - 1) : ~Times!Fitting(t)
    BY <1>2, <1>3 DEF Times!Fitting
  <2>3. Slots(g - 1) = {}
    BY <2>2 DEF Slots
  <2>4. Times!Whole
    BY <1>1 DEF Times!Whole
  <2> QED BY <1>3, <1>5, <2>1, <2>3, <2>4 DEF V5Inv
<1> QED BY <1>2, <1>4, <1>6, <1>7 DEF TimesInv

LEMMA TimesNext == Times!ConstantsOK /\ TimesInv /\ [Times!Next]_(Times!vars) => TimesInv'
<1> SUFFICES ASSUME Times!ConstantsOK, TimesInv, [Times!Next]_(Times!vars) PROVE TimesInv'
  OBVIOUS
<1>1. CASE UNCHANGED Times!vars
  <2>1. Times!Keep /\ UNCHANGED <<cursor, found, done>>
    BY <1>1 DEF Times!vars, Times!Keep
  <2>2. TimesTypes'
    BY <2>1, CallStays DEF TimesInv, TimesTypes
  <2>3. ASSUME V4Inv PROVE V4Inv'
    BY <2>1, <2>3, CallStays DEF V4Inv, OnIntervals, BeforeCursor, Looked, Times!Acceptable, Times!NoneOverlooked
  <2>4. ASSUME V5Inv PROVE V5Inv'
    <3>1. Times!Whole'
      BY <2>1, <2>4, CallStays, FitStays DEF V5Inv, Times!Whole
    <3> QED BY <2>1, <2>4, <3>1, CallStays, FitStays DEF V5Inv
  <2> QED BY <2>1, <2>2, <2>3, <2>4, CallStays DEF TimesInv
<1>2. CASE Times!FindMeetingTimes
  BY <1>2, SkipToMorningKeeps, GiveUpKeeps, SkipTheRestKeeps, SuggestKeeps, StepOnKeeps,
     FinishKeeps
     DEF Times!FindMeetingTimes
<1>3. CASE Times!CheckAvailability
  BY <1>3, NextOnGridKeeps, GridEndsKeeps DEF Times!CheckAvailability
<1> QED BY <1>1, <1>2, <1>3 DEF Times!Next

LEMMA TimesImplied == ASSUME Times!ConstantsOK, TimesInv PROVE Times!SlotsAreRight
<1>1. request.tool \in {"v4", "v5"}
  BY CallFacts DEF TimesInv
<1> QED BY <1>1 DEF TimesInv, V4Inv, V5Inv, Times!SlotsAreRight

-----------------------------------------------------------------------------
(* Lists of people *)

Kinds == {"gal", "contacts", "email_history", "fuzzy_match"}
Person == [who : Persons, sources : (SUBSET Kinds) \ {{}}, mails : Nat]
RosterOK(l) == l \in Seq(Person) /\ \A i, j \in DOMAIN l : l[i].who = l[j].who => i = j
Plain(l) == RosterOK(l) /\ \A i \in DOMAIN l : l[i].mails = 0
Who(l) == {l[i].who : i \in DOMAIN l}

(* What Exchange lists of a set                                             *)
LEMMA Listing ==
  ASSUME People!ConstantsOK, NEW S, S \subseteq Persons, NEW source \in Kinds
  PROVE  Plain(People!From(S, source)) /\ Who(People!From(S, source)) = S
<1> DEFINE R == {p \in S \X S : p[1] < p[2]}
           there == Ranked(S, R)
<1>1. IsFiniteSet(S) /\ S \subseteq Nat
  BY FS_Subset, SameCounts DEF People!ConstantsOK
<1>2. Orders(R, S)
  BY <1>1 DEF Orders
<1>3. DOMAIN there = 1..Cardinality(S)
  BY DEF Ranked
<1>4. People!From(S, source) = [i \in DOMAIN there |-> [who |-> there[i], sources |-> {source}, mails |-> 0]]
  BY SameRanks DEF People!From, People!InTurn
<1> HIDE DEF R
<1>5. /\ Cardinality(S) \in Nat
      /\ \A k \in 1..Cardinality(S) : there[k] \in S
      /\ \A i, j \in 1..Cardinality(S) : there[i] = there[j] => i = j
      /\ \A x \in S : \E k \in 1..Cardinality(S) : there[k] = x
  BY <1>1, <1>2, Places
<1> HIDE DEF there
<1>6. People!From(S, source) = [i \in 1..Cardinality(S) |-> [who |-> there[i], sources |-> {source}, mails |-> 0]]
  BY <1>3, <1>4
<1>7. \A i \in 1..Cardinality(S) : [who |-> there[i], sources |-> {source}, mails |-> 0] \in Person
  BY <1>5 DEF Person, Kinds
<1>8. People!From(S, source) \in Seq(Person)
  BY <1>5, <1>6, <1>7
<1>9. DOMAIN People!From(S, source) = 1..Cardinality(S)
  BY <1>6
<1> QED BY <1>5, <1>6, <1>8, <1>9 DEF Plain, RosterOK, Who

(* The mails of the people in a list are those of some of them and no others*)
CountsOf(l, some, n) == \A i \in DOMAIN l : l[i].mails = IF l[i].who \in some THEN n[l[i].who] ELSE 0

LEMMA MergesOne ==
  ASSUME NEW l, RosterOK(l), NEW x \in Person, NEW label \in SUBSET Kinds
  PROVE  /\ RosterOK(People!MergeOne(l, x, label))
         /\ Who(People!MergeOne(l, x, label)) = Who(l) \cup {x.who}
         /\ \A some, n : CountsOf(l, some, n) /\ x.who \notin some /\ x.mails = n[x.who] =>
              CountsOf(People!MergeOne(l, x, label), some \cup {x.who}, n)
<1> DEFINE m == People!MergeOne(l, x, label)
<1>1. l \in Seq(Person) /\ Len(l) \in Nat /\ DOMAIN l = 1..Len(l)
      /\ \A i \in DOMAIN l : l[i] \in Person
  BY DEF RosterOK
<1>2. CASE \E i \in DOMAIN l : l[i].who = x.who
  <2>1. m = [i \in DOMAIN l |-> IF l[i].who = x.who THEN People!merge_with(l[i], x) ELSE l[i]]
    BY <1>2 DEF People!MergeOne
  <2> HIDE DEF m
  <2>2. \A i \in DOMAIN l : People!merge_with(l[i], x) \in Person /\ People!merge_with(l[i], x).who = l[i].who
                            /\ People!merge_with(l[i], x).mails = l[i].mails + x.mails
    BY <1>1 DEF Person, People!merge_with
  <2>3. /\ m \in Seq(Person) /\ DOMAIN m = DOMAIN l /\ \A i \in DOMAIN l : m[i].who = l[i].who
        /\ \A i \in DOMAIN l : m[i].mails = IF l[i].who = x.who THEN l[i].mails + x.mails ELSE l[i].mails
    BY <1>1, <2>1, <2>2
  <2>4. RosterOK(m)
    BY <2>3 DEF RosterOK
  <2>5. Who(m) = Who(l) \cup {x.who}
    BY <1>2, <2>3 DEF Who
  <2>6. ASSUME NEW some, NEW n, CountsOf(l, some, n), x.who \notin some, x.mails = n[x.who]
        PROVE  CountsOf(m, some \cup {x.who}, n)
    <3> SUFFICES ASSUME NEW i \in DOMAIN l
                 PROVE m[i].mails = IF m[i].who \in some \cup {x.who} THEN n[m[i].who] ELSE 0
      BY <2>3 DEF CountsOf
    <3>1. CASE l[i].who = x.who
      <4>1. l[i].mails = 0 /\ x.mails \in Nat
        BY <2>6, <3>1 DEF CountsOf, Person
      <4> QED BY <2>3, <2>6, <3>1, <4>1
    <3>2. CASE l[i].who # x.who
      BY <2>3, <2>6, <3>2 DEF CountsOf
    <3> QED BY <3>1, <3>2
  <2> QED BY <2>4, <2>5, <2>6 DEF m
<1>3. CASE ~\E i \in DOMAIN l : l[i].who = x.who
  <2> DEFINE y == [x EXCEPT !.sources = @ \cup label]
  <2>1. m = Append(l, y)
    BY <1>3 DEF People!MergeOne
  <2>2. y \in Person /\ y.who = x.who /\ y.mails = x.mails
    BY DEF Person
  <2> HIDE DEF m, y
  <2>3. /\ m \in Seq(Person) /\ DOMAIN m = 1..(Len(l) + 1) /\ m[Len(l) + 1] = y
        /\ \A i \in DOMAIN l : m[i] = l[i]
    BY <1>1, <2>1, <2>2
  <2>4. DOMAIN m = DOMAIN l \cup {Len(l) + 1} /\ Len(l) + 1 \notin DOMAIN l
    BY <1>1, <2>3
  <2>5. RosterOK(m)
    BY <1>3, <2>2, <2>3, <2>4 DEF RosterOK
  <2>6. Who(m) = Who(l) \cup {x.who}
    BY <2>2, <2>3, <2>4 DEF Who
  <2>7. ASSUME NEW some, NEW n, CountsOf(l, some, n), x.who \notin some, x.mails = n[x.who]
        PROVE  CountsOf(m, some \cup {x.who}, n)
    <3> SUFFICES ASSUME NEW i \in DOMAIN m
                 PROVE m[i].mails = IF m[i].who \in some \cup {x.who} THEN n[m[i].who] ELSE 0
      BY DEF CountsOf
    <3>1. CASE i = Len(l) + 1
      BY <2>2, <2>3, <2>7, <3>1
    <3>2. CASE i \in DOMAIN l
      BY <1>3, <2>3, <2>7, <3>2 DEF CountsOf
    <3> QED BY <2>4, <3>1, <3>2
  <2> QED BY <2>5, <2>6, <2>7 DEF m
<1> QED BY <1>2, <1>3


LEMMA MergedEach ==
  ASSUME NEW l, NEW s, Len(s) \in Nat, NEW label
  PROVE  /\ People!MergedUpTo(l, s, label)[0] = l
         /\ \A i \in 1..Len(s) :
              People!MergedUpTo(l, s, label)[i] = People!MergeOne(People!MergedUpTo(l, s, label)[i - 1], s[i], label)
<1> DEFINE Is(f, m) ==
      f = [i \in 0..m |-> IF i = 0 THEN l ELSE People!MergeOne(f[i - 1], s[i], label)]
<1>1. \E f : Is(f, Len(s))
  <2> DEFINE S == {m \in Nat : \E f : Is(f, m)}
  <2>1. 0 \in S
    <3>1. Is([i \in 0..0 |-> l], 0)
      OBVIOUS
    <3> QED BY <3>1
  <2>2. ASSUME NEW m \in 1..Len(s), m - 1 \in S PROVE m \in S
    <3>1. PICK f : Is(f, m - 1)
      BY <2>2
    <3>2. PICK g : g = [i \in 0..m |-> IF i < m THEN f[i] ELSE People!MergeOne(f[i - 1], s[i], label)]
      OBVIOUS
    <3>3. \A i \in 0..(m - 1) : f[i] = IF i = 0 THEN l ELSE People!MergeOne(f[i - 1], s[i], label)
      BY <3>1
    <3>4. ASSUME NEW i \in 0..m
          PROVE  g[i] = IF i = 0 THEN l ELSE People!MergeOne(g[i - 1], s[i], label)
      <4>1. CASE i = 0
        BY <3>2, <3>3, <4>1
      <4>2. CASE i \in 1..(m - 1)
        <5>1. g[i] = f[i] /\ g[i - 1] = f[i - 1] /\ i # 0 /\ i \in 0..(m - 1)
          BY <3>2, <4>2
        <5> QED BY <3>3, <5>1
      <4>3. CASE i = m
        <5>1. g[i - 1] = f[i - 1] /\ i # 0
          BY <3>2, <4>3
        <5> QED BY <3>2, <4>3, <5>1
      <4> QED BY <4>1, <4>2, <4>3
    <3>5. g = [i \in 0..m |-> IF i = 0 THEN l ELSE People!MergeOne(g[i - 1], s[i], label)]
      BY <3>2, <3>4
    <3>6. \E h : Is(h, m)
      BY <3>5
    <3> QED BY <3>6
  <2> HIDE DEF S
  <2>3. \A m \in 0..Len(s) : m \in S
    BY <2>1, <2>2, Induction
  <2>4. Len(s) \in S
    BY <2>3
  <2> QED BY <2>4 DEF S
<1>2. People!MergedUpTo(l, s, label) = CHOOSE f : Is(f, Len(s))
  BY DEF People!MergedUpTo
<1>3. Is(People!MergedUpTo(l, s, label), Len(s))
  <2> HIDE DEF Is
  <2> QED BY <1>1, <1>2
<1> DEFINE p == People!MergedUpTo(l, s, label)
<1>4. /\ 0 \in 0..Len(s) /\ \A i \in 1..Len(s) : i \in 0..Len(s) /\ i # 0
  OBVIOUS
<1>5. Is(p, Len(s))
  BY <1>3
<1> HIDE DEF p
<1>6. p[0] = l
  BY <1>4, <1>5
<1>7. ASSUME NEW i \in 1..Len(s)
      PROVE  p[i] = People!MergeOne(p[i - 1], s[i], label)
  BY <1>4, <1>5
<1> QED BY <1>6, <1>7 DEF p

(* Two lists merged have the people of both, once each, and the mails of    *)
(* the second list.                                                         *)
LEMMA Merges ==
  ASSUME NEW l, Plain(l), NEW s, RosterOK(s), NEW label \in SUBSET Kinds,
         NEW n, \A i \in DOMAIN s : s[i].mails = n[s[i].who]
  PROVE  /\ RosterOK(People!Merge(l, s, label))
         /\ Who(People!Merge(l, s, label)) = Who(l) \cup Who(s)
         /\ CountsOf(People!Merge(l, s, label), Who(s), n)
<1> DEFINE Upto(i) == {s[k].who : k \in 1..i}
           m == People!MergedUpTo(l, s, label)
           S == {i \in Nat : /\ RosterOK(m[i]) /\ Who(m[i]) = Who(l) \cup Upto(i)
                             /\ CountsOf(m[i], Upto(i), n)}
<1>1. s \in Seq(Person) /\ Len(s) \in Nat /\ DOMAIN s = 1..Len(s)
      /\ \A i \in 1..Len(s) : s[i] \in Person
  BY DEF RosterOK
<1>2. m[0] = l /\ \A i \in 1..Len(s) : m[i] = People!MergeOne(m[i - 1], s[i], label)
  BY <1>1, MergedEach
<1> HIDE DEF m
<1>3. 0 \in S
  <2>1. Upto(0) = {}
    OBVIOUS
  <2> QED BY <1>2, <2>1 DEF Plain, CountsOf
<1>4. ASSUME NEW i \in 1..Len(s), i - 1 \in S PROVE i \in S
  <2>1. Upto(i) = Upto(i - 1) \cup {s[i].who} /\ i \in Nat
    OBVIOUS
  <2>2. s[i].who \notin Upto(i - 1)
    BY <1>1 DEF RosterOK
  <2> HIDE DEF Upto
  <2>3. RosterOK(m[i - 1]) /\ Who(m[i - 1]) = Who(l) \cup Upto(i - 1) /\ CountsOf(m[i - 1], Upto(i - 1), n)
    BY <1>4
  <2>4. s[i] \in Person /\ s[i].mails = n[s[i].who] /\ m[i] = People!MergeOne(m[i - 1], s[i], label)
    BY <1>1, <1>2
  <2>5. RosterOK(m[i])
    BY <2>3, <2>4, MergesOne
  <2>6. Who(m[i]) = Who(m[i - 1]) \cup {s[i].who}
    BY <2>3, <2>4, MergesOne
  <2>7. CountsOf(m[i], Upto(i - 1) \cup {s[i].who}, n)
    BY <2>2, <2>3, <2>4, MergesOne
  <2> QED BY <2>1, <2>3, <2>5, <2>6, <2>7
<1> HIDE DEF S
<1>5. \A i \in 0..Len(s) : i \in S
  BY <1>1, <1>3, <1>4, Induction
<1>6. Len(s) \in S
  BY <1>1, <1>5
<1>7. Upto(Len(s)) = Who(s)
  BY <1>1 DEF Who
<1>8. People!Merge(l, s, label) = m[Len(s)]
  BY DEF People!Merge, m
<1> QED BY <1>6, <1>7, <1>8 DEF S

LEMMA PeopleOf == ASSUME NEW l, RosterOK(l) PROVE \A i \in DOMAIN l : l[i].who \in Persons
<1>1. l \in Seq(Person)
  BY DEF RosterOK
<1>2. \A i \in DOMAIN l : l[i] \in Person
  BY <1>1
<1> QED BY <1>2 DEF Person

(* Two of the lists of the directory                                        *)
LEMMA MergesPlain ==
  ASSUME NEW l, Plain(l), NEW s, Plain(s), NEW label \in SUBSET Kinds
  PROVE  Plain(People!Merge(l, s, label)) /\ Who(People!Merge(l, s, label)) = Who(l) \cup Who(s)
<1> DEFINE n == [p \in Persons |-> 0]
<1>1. \A p \in Persons : n[p] = 0
  OBVIOUS
<1> HIDE DEF n
<1>2. \A i \in DOMAIN s : s[i].who \in Persons
  BY PeopleOf DEF Plain
<1>3. \A i \in DOMAIN s : s[i].mails = n[s[i].who]
  BY <1>1, <1>2 DEF Plain
<1>4. /\ RosterOK(People!Merge(l, s, label))
      /\ Who(People!Merge(l, s, label)) = Who(l) \cup Who(s)
      /\ CountsOf(People!Merge(l, s, label), Who(s), n)
  BY <1>3, Merges DEF Plain
<1>5. \A i \in DOMAIN People!Merge(l, s, label) : People!Merge(l, s, label)[i].who \in Persons
  BY <1>4, PeopleOf
<1> QED BY <1>1, <1>4, <1>5 DEF Plain, CountsOf

LEMMA Empty == Plain(<<>>) /\ Who(<<>>) = {}
BY DEF Plain, RosterOK, Who

(* A list that is cut loses nobody but by the limit                         *)
LEMMA CutKeeps ==
  ASSUME NEW l, RosterOK(l), NEW limit \in Nat
  PROVE  /\ RosterOK(People!Cut(l, limit))
         /\ Who(People!Cut(l, limit)) \subseteq Who(l)
         /\ Plain(l) => Plain(People!Cut(l, limit))
         /\ \A some, n : CountsOf(l, some, n) => CountsOf(People!Cut(l, limit), some, n)
         /\ Len(l) <= limit => People!Cut(l, limit) = l
         /\ Len(People!Cut(l, limit)) < limit => People!Cut(l, limit) = l
<1> DEFINE m == IF Len(l) < limit THEN Len(l) ELSE limit
           c == People!Cut(l, limit)
<1>1. l \in Seq(Person) /\ Len(l) \in Nat /\ DOMAIN l = 1..Len(l)
  BY DEF RosterOK
<1>2. m \in Nat /\ m <= Len(l) /\ m <= limit /\ c = SubSeq(l, 1, m)
  BY <1>1 DEF People!Cut
<1>3. m = Len(l) \/ (m = limit /\ limit < Len(l))
  <2>1. CASE Len(l) < limit
    BY <2>1
  <2>2. CASE ~(Len(l) < limit)
    <3>1. m = limit
      BY <2>2
    <3>2. limit < Len(l) \/ limit = Len(l)
      <4>1. PICK a \in Nat : a = Len(l)
        BY <1>1
      <4>2. ~(a < limit)
        BY <2>2, <4>1
      <4>3. limit < a \/ limit = a
        BY <4>2
      <4> QED BY <4>1, <4>3
    <3> HIDE DEF m
    <3> QED BY <3>1, <3>2
  <2> QED BY <2>1, <2>2
<1> HIDE DEF m, c
<1>4. c \in Seq(Person) /\ Len(c) = m /\ \A i \in 1..m : c[i] = l[i]
  BY <1>1, <1>2
<1>5. DOMAIN c = 1..m /\ 1..m \subseteq 1..Len(l)
  BY <1>1, <1>2, <1>4
<1>6. RosterOK(c)
  BY <1>1, <1>4, <1>5 DEF RosterOK
<1>7. Who(c) \subseteq Who(l) /\ (Plain(l) => Plain(c))
  BY <1>1, <1>4, <1>5, <1>6 DEF Who, Plain
<1>8. \A some, n : CountsOf(l, some, n) => CountsOf(c, some, n)
  BY <1>1, <1>4, <1>5 DEF CountsOf
<1>9. m = Len(l) => c = l
  BY <1>1, <1>2, <1>4, <1>5
<1>10. (Len(l) <= limit => c = l) /\ (Len(c) < limit => c = l)
  <2>1. CASE m = Len(l)
    BY <1>9, <2>1
  <2>2. CASE m = limit /\ limit < Len(l)
    BY <1>1, <1>4, <2>2
  <2> QED BY <1>3, <2>1, <2>2
<1> QED BY <1>6, <1>7, <1>8, <1>10 DEF c

LEMMA ScoreIsNat ==
  ASSUME NEW x \in Person, NEW text
  PROVE  People!Score(x, text) \in Nat
<1>1. \E n \in {People!Priority[s] : s \in x.sources} : \A s \in x.sources : People!Priority[s] <= n
  <2>1. x.sources \subseteq Kinds /\ x.sources # {}
    BY DEF Person
  <2>2. /\ People!Priority["gal"] = 100 /\ People!Priority["contacts"] = 80
        /\ People!Priority["email_history"] = 60 /\ People!Priority["fuzzy_match"] = 20
    BY DEF People!Priority
  <2>3. CASE "gal" \in x.sources
    BY <2>1, <2>2, <2>3 DEF Kinds
  <2>4. CASE "gal" \notin x.sources /\ "contacts" \in x.sources
    BY <2>1, <2>2, <2>4 DEF Kinds
  <2>5. CASE "gal" \notin x.sources /\ "contacts" \notin x.sources /\ "email_history" \in x.sources
    BY <2>1, <2>2, <2>5 DEF Kinds
  <2>6. CASE "gal" \notin x.sources /\ "contacts" \notin x.sources /\ "email_history" \notin x.sources
    BY <2>1, <2>2, <2>6 DEF Kinds
  <2> QED BY <2>3, <2>4, <2>5, <2>6
<1>2. People!source_priority(x) \in {People!Priority[s] : s \in x.sources}
  BY <1>1 DEF People!source_priority
<1>3. \A s \in Kinds : People!Priority[s] \in Nat
  BY DEF Kinds, People!Priority
<1>4. People!source_priority(x) \in Nat /\ x.mails \in Nat
  BY <1>2, <1>3 DEF Person
<1> QED BY <1>4 DEF People!Score

(* A ranked list is the list in another order                               *)
LEMMA RankKeeps ==
  ASSUME NEW l, RosterOK(l), NEW text
  PROVE  /\ RosterOK(People!_rank_persons(l, text))
         /\ Who(People!_rank_persons(l, text)) = Who(l)
         /\ \A some, n : CountsOf(l, some, n) => CountsOf(People!_rank_persons(l, text), some, n)
<1> DEFINE D == DOMAIN l
           R == {p \in D \X D :
                   \/ People!Score(l[p[1]], text) > People!Score(l[p[2]], text)
                   \/ People!Score(l[p[1]], text) = People!Score(l[p[2]], text) /\ p[1] < p[2]}
           at == Ranked(D, R)
           r == People!_rank_persons(l, text)
<1>1. l \in Seq(Person) /\ Len(l) \in Nat /\ D = 1..Len(l)
  BY DEF RosterOK
<1>2. IsFiniteSet(D) /\ Cardinality(D) = Len(l)
  BY <1>1, FS_Interval
<1>3. \A i \in D : People!Score(l[i], text) \in Nat /\ i \in Nat
  BY <1>1, ScoreIsNat
<1>4. Orders(R, D)
  BY <1>3 DEF Orders
<1>5. r = [k \in DOMAIN at |-> l[at[k]]]
  BY SameRanks DEF People!_rank_persons
<1>6. DOMAIN at = 1..Len(l)
  BY <1>2 DEF Ranked
<1> HIDE DEF R, D
<1>7. /\ \A k \in 1..Cardinality(D) : at[k] \in D
      /\ \A i, j \in 1..Cardinality(D) : at[i] = at[j] => i = j
      /\ \A x \in D : \E k \in 1..Cardinality(D) : at[k] = x
  BY <1>2, <1>4, Places
<1> HIDE DEF at, r
<1>8. r = [k \in 1..Len(l) |-> l[at[k]]] /\ \A k \in 1..Len(l) : at[k] \in D /\ l[at[k]] \in Person
  BY <1>1, <1>2, <1>5, <1>6, <1>7
<1>9. r \in Seq(Person) /\ DOMAIN r = 1..Len(l) /\ \A k \in 1..Len(l) : r[k] = l[at[k]]
  BY <1>1, <1>8
<1>a. /\ \A k \in 1..Len(l) : at[k] \in D
      /\ \A i, j \in 1..Len(l) : at[i] = at[j] => i = j
      /\ \A x \in D : \E k \in 1..Len(l) : at[k] = x
  BY <1>2, <1>7
<1>10. RosterOK(r)
  <2>1. \A i, j \in D : l[i].who = l[j].who => i = j
    BY DEF RosterOK, D
  <2> QED BY <1>9, <1>a, <2>1 DEF RosterOK
<1>11. Who(r) = Who(l)
  <2>1. Who(l) = {l[i].who : i \in D}
    BY DEF Who, D
  <2>2. Who(r) = {l[at[k]].who : k \in 1..Len(l)}
    BY <1>9 DEF Who
  <2> QED BY <1>a, <2>1, <2>2
<1>12. \A some, n : CountsOf(l, some, n) => CountsOf(r, some, n)
  <2>1. ASSUME NEW some, NEW n, CountsOf(l, some, n) PROVE CountsOf(r, some, n)
    <3>1. ASSUME NEW k \in 1..Len(l)
          PROVE  r[k].mails = IF r[k].who \in some THEN n[r[k].who] ELSE 0
      <4>1. at[k] \in DOMAIN l /\ r[k] = l[at[k]]
        BY <1>9, <1>a DEF D
      <4> QED BY <2>1, <4>1 DEF CountsOf
    <3> QED BY <1>9, <3>1 DEF CountsOf
  <2> QED BY <2>1
<1> QED BY <1>10, <1>11, <1>12 DEF r
-----------------------------------------------------------------------------
(* Of S all are listed, or were until d before x at most; whoever t names   *)
(* exactly is in S, but for what happened since d before x.                 *)
Present(S, d, x) == \A p \in S : p \in gal \cup contacts \/ left[p] + d >= x
Lately(p, d, x) == joined[p] + d >= x \/ failed + d >= x \/ short + d >= x
Covers(S, t, d, x) == \A p \in gal \cap Finds[t].exact : p \in S \/ Lately(p, d, x)

Boxes == {"inbox", "sent"}
Pcs == {"negative", "resolving", "domain", "fuzzy", "contacts", "mail"}
Job == [pc : Pcs, text : Names, spelling : {q[2] : q \in NameQueries}, sources : Sources, limit : NameLimits,
        found : Seq(Person), exact : Seq(Person) \cup {None}, partial : Seq(Person) \cup {None},
        folder : BOOLEAN, inbox : [Persons -> Nat] \cup {None}, sent : [Persons -> Nat] \cup {None},
        error : BOOLEAN, began : Nat]

World ==
  /\ gal \subseteq Persons /\ contacts \subseteq Persons
  /\ mails \in [Boxes -> [Persons -> Nat]]
  /\ clock \in Nat /\ failed \in Nat /\ short \in Nat
  /\ joined \in [Persons -> Nat] /\ left \in [Persons -> Nat]
  /\ failed <= clock /\ short <= clock
  /\ \A p \in Persons : joined[p] <= clock /\ left[p] <= clock

(* That text t found nobody is kept until n; k is kept for query q.         *)
MissOK(t, n) == n \in Nat /\ n <= clock + NegativeTtl /\ Covers({}, t, NegativeTtl, n)
KeptOK(q, k) ==
  /\ Plain(k.found) /\ k.until \in Nat /\ k.until <= clock + CacheTtl
  /\ Present(Who(k.found), CacheTtl, k.until)
  /\ Covers(Who(k.found), q[1], CacheTtl + NegativeTtl, k.until)

(* A list the directory has just given                                      *)
Fresh(l) == Plain(l) /\ Present(Who(l), 0, clock)
(* A list that may have come from the cache                                 *)
Usable(j) ==
  /\ Plain(j.found) /\ Present(Who(j.found), CacheTtl, clock + 1)
  /\ "gal" \in j.sources => Covers(Who(j.found), j.text, CacheTtl + NegativeTtl, clock + 1)
Seen(n, folder) == n # None => \A p \in Persons : n[p] <= mails[folder][p]
CallOK(j) ==
  /\ j.began = clock /\ ~j.error
  /\ j.pc \in {"negative", "resolving", "domain", "fuzzy"} => "gal" \in j.sources /\ Fresh(j.found)
  /\ j.pc \in {"negative", "resolving"} =>
       /\ j.exact # None => Fresh(j.exact) /\ Covers(Who(j.exact), j.text, 0, clock)
       /\ j.partial # None => Fresh(j.partial)
  /\ j.pc = "domain" => Covers(Who(j.found), j.text, 0, clock)
  /\ j.pc = "fuzzy" => Covers({}, j.text, 0, clock)
  /\ j.pc \in {"contacts", "mail"} => Usable(j)
  /\ j.pc = "mail" => Seen(j.inbox, "inbox") /\ Seen(j.sent, "sent")

Entry == [found : Seq(Person), until : Nat]
MissesInv ==
  /\ negative \in [Names -> Nat \cup {None}]
  /\ \A t \in Names, n \in Nat : negative[t] = n /\ n # None => MissOK(t, n)
KeptInv ==
  /\ cached \in [NameQueries -> Entry \cup {None}]
  /\ \A q \in NameQueries, k \in Entry : cached[q] = k /\ k # None => KeptOK(q, k)
CallsInv ==
  /\ call \in [Callers -> Job \cup {People!Free}]
  /\ \A c \in Callers, j \in Job : call[c] = j => CallOK(j)
PeopleInv == World /\ MissesInv /\ KeptInv /\ CallsInv /\ People!PeopleAreRight

(* What may change while searches run                                       *)
Moves ==
  /\ clock' = clock /\ failed <= failed' /\ short <= short'
  /\ \A p \in Persons : left[p] <= left'[p] /\ joined[p] <= joined'[p]
  /\ \A p \in gal \cup contacts : p \in gal' \cup contacts' \/ left'[p] = clock
  /\ \A p \in gal' : p \in gal \/ joined'[p] = clock
  /\ \A f \in Boxes, p \in Persons : mails[f][p] <= mails'[f][p]

LEMMA Weakens ==
  ASSUME People!ConstantsOK, World', NEW S, S \subseteq Persons, NEW U, S \subseteq U, NEW t,
         NEW d \in Nat, NEW x \in Nat, NEW e \in Nat, NEW y \in Nat, y + d <= x + e
  PROVE  /\ Present(S, d, x)' => Present(S, e, y)'
         /\ Covers(S, t, d, x)' => Covers(U, t, e, y)'
<1>1. ASSUME Present(S, d, x)' PROVE Present(S, e, y)'
  <2> SUFFICES ASSUME NEW p \in S, p \notin gal' \cup contacts' PROVE left'[p] + e >= y
    BY DEF Present
  <2>1. left'[p] \in Nat /\ left'[p] + d >= x
    BY <1>1 DEF Present, World
  <2> QED BY <2>1
<1>2. ASSUME Covers(S, t, d, x)' PROVE Covers(U, t, e, y)'
  <2> SUFFICES ASSUME NEW p \in gal', p \in Finds[t].exact, p \notin U PROVE Lately(p, e, y)'
    BY DEF Covers
  <2>1. /\ joined'[p] \in Nat /\ failed' \in Nat /\ short' \in Nat
        /\ joined'[p] + d >= x \/ failed' + d >= x \/ short' + d >= x
    BY <1>2 DEF Covers, Lately, World
  <2>2. \A a \in Nat : a + d >= x => a + e >= y
    OBVIOUS
  <2> QED BY <2>1, <2>2 DEF Lately
<1> QED BY <1>1, <1>2

LEMMA MovesKeep ==
  ASSUME People!ConstantsOK, World, World', Moves
  PROVE  /\ \A S, d, x : S \subseteq Persons /\ d \in Nat /\ x \in Nat /\ x <= clock + d =>
              /\ Present(S, d, x) => Present(S, d, x)'
              /\ \A t : Covers(S, t, d, x) => Covers(S, t, d, x)'
         /\ \A l : Fresh(l) => Fresh(l)'
         /\ \A j : Usable(j) => Usable(j)'
         /\ \A t, n : MissOK(t, n) => MissOK(t, n)'
         /\ \A q, k : KeptOK(q, k) => KeptOK(q, k)'
         /\ \A j \in Job : CallOK(j) => CallOK(j)'
<1>1. ASSUME NEW S, S \subseteq Persons, NEW d \in Nat, NEW x \in Nat, x <= clock + d, Present(S, d, x)
      PROVE  Present(S, d, x)'
  <2> SUFFICES ASSUME NEW p \in S, p \notin gal' \cup contacts' PROVE left'[p] + d >= x
    BY DEF Present
  <2>1. left'[p] \in Nat /\ left[p] \in Nat /\ clock \in Nat /\ left[p] <= left'[p]
    BY <1>1 DEF World, Moves
  <2>2. CASE p \in gal \cup contacts
    <3>1. left'[p] = clock
      BY <2>2 DEF Moves
    <3> QED BY <1>1, <2>1, <3>1
  <2>3. CASE p \notin gal \cup contacts
    <3>1. left[p] + d >= x
      BY <1>1, <2>3 DEF Present
    <3> QED BY <2>1, <3>1
  <2> QED BY <2>2, <2>3
<1>2. ASSUME NEW S, NEW t, NEW d \in Nat, NEW x \in Nat, x <= clock + d, Covers(S, t, d, x)
      PROVE  Covers(S, t, d, x)'
  <2> SUFFICES ASSUME NEW p \in gal', p \in Finds[t].exact, p \notin S PROVE Lately(p, d, x)'
    BY DEF Covers
  <2>1. /\ joined'[p] \in Nat /\ joined[p] \in Nat /\ clock \in Nat /\ joined[p] <= joined'[p]
        /\ failed \in Nat /\ failed' \in Nat /\ failed <= failed'
        /\ short \in Nat /\ short' \in Nat /\ short <= short'
    BY DEF World, Moves
  <2>2. CASE p \in gal
    <3>1. joined[p] + d >= x \/ failed + d >= x \/ short + d >= x
      BY <1>2, <2>2 DEF Covers, Lately
    <3> QED BY <2>1, <3>1 DEF Lately
  <2>3. CASE p \notin gal
    <3>1. joined'[p] = clock
      BY <2>3 DEF Moves
    <3> QED BY <1>2, <2>1, <3>1 DEF Lately
  <2> QED BY <2>2, <2>3
<1>3. /\ clock \in Nat /\ clock' = clock /\ CacheTtl \in Nat /\ CacheTtl >= 1 /\ NegativeTtl \in Nat
      /\ clock + 1 \in Nat /\ clock + 1 <= clock + CacheTtl
      /\ clock + 1 <= clock + (CacheTtl + NegativeTtl) /\ CacheTtl + NegativeTtl \in Nat
      /\ clock <= clock + 0 /\ clock + CacheTtl <= clock + (CacheTtl + NegativeTtl)
  <2>1. clock \in Nat /\ clock' = clock
    BY DEF World, Moves
  <2>2. CacheTtl \in Nat /\ CacheTtl >= 1 /\ NegativeTtl \in Nat
    BY DEF People!ConstantsOK
  <2> QED BY <2>1, <2>2
<1>4. \A l : Plain(l) => Who(l) \subseteq Persons
  BY PeopleOf DEF Plain, Who
<1>5. \A l : Fresh(l) => Fresh(l)'
  BY <1>1, <1>3, <1>4 DEF Fresh
<1>6. \A j : Usable(j) => Usable(j)'
  <2> SUFFICES ASSUME NEW j, Usable(j) PROVE Usable(j)'
    OBVIOUS
  <2>1. Plain(j.found) /\ Present(Who(j.found), CacheTtl, clock + 1)'
    BY <1>1, <1>3, <1>4 DEF Usable
  <2>2. "gal" \in j.sources => Covers(Who(j.found), j.text, CacheTtl + NegativeTtl, clock + 1)'
    BY <1>2, <1>3 DEF Usable
  <2> QED BY <1>3, <2>1, <2>2 DEF Usable
<1>7. \A t, n : MissOK(t, n) => MissOK(t, n)'
  BY <1>2, <1>3 DEF MissOK
<1>8. \A q, k : KeptOK(q, k) => KeptOK(q, k)'
  <2> SUFFICES ASSUME NEW q, NEW k, KeptOK(q, k) PROVE KeptOK(q, k)'
    OBVIOUS
  <2>1. k.until \in Nat /\ k.until <= clock + CacheTtl /\ k.until <= clock + (CacheTtl + NegativeTtl)
        /\ Plain(k.found)
    BY <1>3 DEF KeptOK
  <2>2. Present(Who(k.found), CacheTtl, k.until)'
    BY <1>1, <1>3, <1>4, <2>1 DEF KeptOK
  <2>3. Covers(Who(k.found), q[1], CacheTtl + NegativeTtl, k.until)'
    BY <1>2, <1>3, <2>1 DEF KeptOK
  <2> QED BY <1>3, <2>1, <2>2, <2>3 DEF KeptOK
<1>9. \A j \in Job : CallOK(j) => CallOK(j)'
  <2> SUFFICES ASSUME NEW j \in Job, CallOK(j) PROVE CallOK(j)'
    OBVIOUS
  <2>1. \A n \in [Persons -> Nat] \cup {None}, f \in Boxes : Seen(n, f) => Seen(n, f)'
    BY DEF Seen, Moves, World
  <2>2. j.pc = "mail" => Seen(j.inbox, "inbox")' /\ Seen(j.sent, "sent")'
    BY <2>1 DEF CallOK, Job, Boxes
  <2>3. j.pc = "domain" => Covers(Who(j.found), j.text, 0, clock)'
    BY <1>2, <1>3 DEF CallOK
  <2>4. j.pc = "fuzzy" => Covers({}, j.text, 0, clock)'
    BY <1>2, <1>3 DEF CallOK
  <2>5. j.pc \in {"negative", "resolving"} =>
          /\ j.exact # None => Fresh(j.exact)' /\ Covers(Who(j.exact), j.text, 0, clock)'
          /\ j.partial # None => Fresh(j.partial)'
    BY <1>2, <1>3, <1>5 DEF CallOK
  <2>6. /\ j.pc \in {"contacts", "mail"} => Usable(j)'
        /\ j.pc \in {"negative", "resolving", "domain", "fuzzy"} => "gal" \in j.sources /\ Fresh(j.found)'
        /\ j.began = clock /\ ~j.error
    BY <1>5, <1>6 DEF CallOK
  <2> QED BY <1>3, <2>2, <2>3, <2>4, <2>5, <2>6 DEF CallOK
<1>10. \A S, d, x : S \subseteq Persons /\ d \in Nat /\ x \in Nat /\ x <= clock + d =>
              /\ Present(S, d, x) => Present(S, d, x)'
              /\ \A t : Covers(S, t, d, x) => Covers(S, t, d, x)'
  BY <1>1, <1>2
<1> QED BY <1>5, <1>6, <1>7, <1>8, <1>9, <1>10

LEMMA StillWorld ==
  ASSUME World, UNCHANGED <<People!exchange, clock, joined, left>>,
         failed' \in {failed, clock}, short' \in {short, clock}
  PROVE  World' /\ Moves
<1>1. /\ gal' = gal /\ contacts' = contacts /\ mails' = mails /\ clock' = clock
      /\ joined' = joined /\ left' = left
  BY DEF People!exchange
<1>2. World'
  BY <1>1 DEF World
<1>3. failed <= failed' /\ short <= short'
  BY DEF World
<1>4. \A f \in Boxes, p \in Persons : mails[f][p] <= mails'[f][p]
  BY <1>1 DEF World
<1>5. \A p \in Persons : left[p] <= left'[p] /\ joined[p] <= joined'[p]
  BY <1>1 DEF World
<1> QED BY <1>1, <1>2, <1>3, <1>4, <1>5 DEF Moves

LEMMA CallsKept ==
  ASSUME People!ConstantsOK, World, CallsInv, World', Moves, NEW c \in Callers, NEW search,
         call' = [call EXCEPT ![c] = search], search = People!Free \/ (search \in Job /\ CallOK(search)')
  PROVE  CallsInv'
<1>1. call' \in [Callers -> Job \cup {People!Free}]
  BY DEF CallsInv
<1>2. ASSUME NEW d \in Callers, NEW j \in Job, call'[d] = j PROVE CallOK(j)'
  <2>1. j # People!Free
    BY DEF Job, People!Free, Pcs
  <2>2. CASE d = c
    BY <1>2, <2>1, <2>2 DEF CallsInv
  <2>3. CASE d # c
    <3>1. call[d] = j
      BY <1>2, <2>3 DEF CallsInv
    <3>2. CallOK(j)
      BY <3>1 DEF CallsInv
    <3> QED BY <3>2, MovesKeep
  <2> QED BY <2>2, <2>3
<1> QED BY <1>1, <1>2 DEF CallsInv

(* What a search must have found to answer                                  *)
Done(j) ==
  /\ j.began = clock /\ RosterOK(j.found)
  /\ \A p \in Who(j.found) : \/ p \in gal \cup contacts
                             \/ left[p] + CacheTtl >= clock + 1
                             \/ \E f \in Boxes : mails[f][p] > 0
  /\ "gal" \in j.sources => Covers(Who(j.found), j.text, CacheTtl + NegativeTtl, clock + 1)
  /\ "mail" \in j.sources /\ ~j.error =>
       LET n == People!Counted(j.inbox, j.sent) IN
       (\A p \in Odd : n[p] = 0) =>
       /\ \A p \in Persons : n[p] \in Nat
       /\ CountsOf(j.found, {p \in Persons : n[p] > 0}, n)
       /\ \A p \in Persons : n[p] > 0 => p \in Who(j.found)

LEMMA AnswerRight ==
  ASSUME People!ConstantsOK, World', NEW search \in Job, Done(search)',
         answer' = [search EXCEPT !.found = People!Cut(People!_rank_persons(@, search.text), search.limit)]
  PROVE  People!PeopleAreRight'
<1> DEFINE r == People!_rank_persons(search.found, search.text)
           f == People!Cut(r, search.limit)
<1>1. /\ answer'.found = f /\ answer'.sources = search.sources /\ answer'.limit = search.limit
      /\ answer'.text = search.text /\ answer'.began = search.began /\ answer'.error = search.error
      /\ answer'.inbox = search.inbox /\ answer'.sent = search.sent
  BY DEF Job
<1>2. search.limit \in Nat
  BY DEF Job, People!ConstantsOK
<1>3. RosterOK(search.found) /\ search.began = clock'
  BY DEF Done
<1>4. /\ RosterOK(r) /\ Who(r) = Who(search.found)
      /\ \A some, n : CountsOf(search.found, some, n) => CountsOf(r, some, n)
  BY <1>3, RankKeeps
<1> HIDE DEF r
<1>5. /\ RosterOK(f) /\ Who(f) \subseteq Who(search.found)
      /\ \A some, n : CountsOf(search.found, some, n) => CountsOf(f, some, n)
      /\ Len(f) < search.limit => Who(f) = Who(search.found)
  BY <1>2, <1>4, CutKeeps
<1> HIDE DEF f
<1>6. People!Named' = Who(f)
  BY <1>1 DEF People!Named, Who
<1>7. People!Full' <=> Len(f) >= search.limit
  BY <1>1 DEF People!Full
<1>8. f \in Seq(Person) /\ Len(f) \in Nat
  BY <1>5 DEF RosterOK
<1>9. ~People!Full' => Who(f) = Who(search.found)
  <2>1. PICK a \in Nat : a = Len(f)
    BY <1>8
  <2>2. a >= search.limit \/ a < search.limit
    BY <1>2
  <2>3. People!Full' \/ Len(f) < search.limit
    BY <1>7, <2>1, <2>2
  <2> QED BY <1>5, <2>3
<1>10. CacheTtl \in Nat /\ NegativeTtl \in Nat /\ clock' \in Nat
  BY DEF People!ConstantsOK, World
<1>11. People!NobodyHidden'
  <2> SUFFICES ASSUME "gal" \in search.sources, People!Before(failed)', People!Before(short)', ~People!Full',
                      NEW p \in gal', p \in Finds[search.text].exact, People!Before(joined[p])', p \notin Who(f)
               PROVE  FALSE
    BY <1>1, <1>6 DEF People!NobodyHidden
  <2>1. p \notin Who(search.found)
    BY <1>9
  <2>2. Lately(p, CacheTtl + NegativeTtl, clock + 1)'
    BY <2>1 DEF Done, Covers
  <2>3. failed' \in Nat /\ short' \in Nat /\ joined'[p] \in Nat
    BY DEF World
  <2>4. \A a \in Nat : a + CacheTtl + NegativeTtl <= clock' => ~(a + (CacheTtl + NegativeTtl) >= clock' + 1)
    BY <1>10
  <2>5. /\ failed' + CacheTtl + NegativeTtl <= clock' /\ short' + CacheTtl + NegativeTtl <= clock'
        /\ joined'[p] + CacheTtl + NegativeTtl <= clock'
    BY <1>1, <1>3 DEF People!Before
  <2> QED BY <2>2, <2>3, <2>4, <2>5 DEF Lately
<1>12. People!NobodyStale'
  <2> SUFFICES ASSUME NEW p \in Who(f), p \notin gal' \cup contacts',
                      ~\E g \in Boxes : mails'[g][p] > 0
               PROVE  clock' < left'[p] + CacheTtl
    BY <1>1, <1>3, <1>6 DEF People!NobodyStale, Boxes
  <2>1. left'[p] + CacheTtl >= clock' + 1
    BY <1>5 DEF Done
  <2>2. p \in Persons
    BY <1>5, PeopleOf DEF Who
  <2>3. left'[p] \in Nat
    BY <2>2 DEF World
  <2> QED BY <1>10, <2>1, <2>3
<1>13. People!EachOnce'
  <2>1. \A i, j \in DOMAIN f : f[i].who = f[j].who => i = j
    BY <1>5 DEF RosterOK
  <2>2. ASSUME "mail" \in search.sources, ~search.error,
               \A p \in Odd : People!Counted(search.inbox, search.sent)[p] = 0
        PROVE  LET n == People!Counted(search.inbox, search.sent) IN
               /\ \A i \in DOMAIN f : f[i].mails = n[f[i].who]
               /\ ~People!Full' => \A p \in Persons : n[p] > 0 => p \in Who(f)
    <3> DEFINE n == People!Counted(search.inbox, search.sent)
    <3>1. /\ \A p \in Persons : n[p] \in Nat
          /\ CountsOf(search.found, {p \in Persons : n[p] > 0}, n)
          /\ \A p \in Persons : n[p] > 0 => p \in Who(search.found)
      BY <2>2 DEF Done
    <3> HIDE DEF n
    <3>2. CountsOf(f, {p \in Persons : n[p] > 0}, n)
      BY <1>5, <3>1
    <3>3. \A i \in DOMAIN f : f[i].who \in Persons
      BY <1>5, PeopleOf
    <3>4. \A i \in DOMAIN f : f[i].mails = n[f[i].who]
      <4> SUFFICES ASSUME NEW i \in DOMAIN f PROVE f[i].mails = n[f[i].who]
        OBVIOUS
      <4>1. f[i].mails = IF f[i].who \in {p \in Persons : n[p] > 0} THEN n[f[i].who] ELSE 0
        BY <3>2 DEF CountsOf
      <4>2. f[i].who \in Persons /\ n[f[i].who] \in Nat
        BY <3>1, <3>3
      <4> QED BY <4>1, <4>2
    <3>5. ~People!Full' => \A p \in Persons : n[p] > 0 => p \in Who(f)
      BY <1>9, <3>1
    <3> QED BY <3>4, <3>5 DEF n
  <2> QED BY <1>1, <1>6, <2>1, <2>2 DEF People!EachOnce
<1> QED BY <1>11, <1>12, <1>13 DEF People!PeopleAreRight

LEMMA OnwardKeeps ==
  ASSUME People!ConstantsOK, World, CallsInv, World', Moves, NEW c \in Callers, NEW search \in Job,
         search.began = clock, ~search.error, Usable(search)',
         NEW over \in SUBSET {"gal", "contacts"}, People!Onward(c, search, over)
  PROVE  CallsInv' /\ People!PeopleAreRight'
<1>0. clock' = clock
  BY DEF Moves
<1>1. CASE "contacts" \in search.sources \ over
  <2> DEFINE j == [search EXCEPT !.pc = "contacts"]
  <2>1. People!Await(c, j)
    BY <1>1 DEF People!Onward
  <2>2. j \in Job /\ j.pc = "contacts" /\ j.began = clock' /\ ~j.error
        /\ j.found = search.found /\ j.sources = search.sources /\ j.text = search.text
    BY <1>0 DEF Job, Pcs
  <2> HIDE DEF j
  <2>3. CallOK(j)'
    BY <2>2 DEF CallOK, Usable
  <2>4. call' = [call EXCEPT ![c] = j] /\ answer' = None
    BY <2>1 DEF People!Await
  <2> QED BY <2>2, <2>3, <2>4, CallsKept DEF People!PeopleAreRight
<1>2. CASE "contacts" \notin search.sources \ over /\ "mail" \in search.sources \ over
  <2> DEFINE j == [search EXCEPT !.pc = "mail", !.inbox = None, !.sent = None]
  <2>1. People!Await(c, j)
    BY <1>2 DEF People!Onward
  <2>2. j \in Job /\ j.pc = "mail" /\ j.began = clock' /\ ~j.error
        /\ j.found = search.found /\ j.sources = search.sources /\ j.text = search.text
        /\ j.inbox = None /\ j.sent = None
    BY <1>0 DEF Job, Pcs
  <2> HIDE DEF j
  <2>3. CallOK(j)'
    BY <2>2 DEF CallOK, Usable, Seen
  <2>4. call' = [call EXCEPT ![c] = j] /\ answer' = None
    BY <2>1 DEF People!Await
  <2> QED BY <2>2, <2>3, <2>4, CallsKept DEF People!PeopleAreRight
<1>3. CASE "contacts" \notin search.sources \ over /\ "mail" \notin search.sources \ over
  <2>1. People!Answer(c, search) /\ "mail" \notin search.sources
    BY <1>3 DEF People!Onward
  <2>2. Done(search)'
    BY <1>0, <2>1 DEF Done, Usable, Plain, Present
  <2>3. call' = [call EXCEPT ![c] = People!Free]
        /\ answer' = [search EXCEPT !.found = People!Cut(People!_rank_persons(@, search.text), search.limit)]
    BY <2>1 DEF People!Answer
  <2>4. CallsInv'
    BY <2>3, CallsKept
  <2>5. People!PeopleAreRight'
    BY <2>2, <2>3, AnswerRight
  <2> QED BY <2>4, <2>5
<1> QED BY <1>1, <1>2, <1>3

LEMMA AwaitKeeps ==
  ASSUME People!ConstantsOK, World, CallsInv, World', Moves, NEW c \in Callers, NEW search \in Job,
         CallOK(search)', People!Await(c, search)
  PROVE  CallsInv' /\ People!PeopleAreRight'
<1>1. call' = [call EXCEPT ![c] = search] /\ answer' = None
  BY DEF People!Await
<1> QED BY <1>1, CallsKept DEF People!PeopleAreRight

LEMMA CachesKept ==
  ASSUME People!ConstantsOK, World, World', Moves
  PROVE  /\ KeptInv /\ UNCHANGED cached => KeptInv'
         /\ MissesInv /\ UNCHANGED negative => MissesInv'
<1>1. ASSUME KeptInv, UNCHANGED cached PROVE KeptInv'
  <2>1. ASSUME NEW q \in NameQueries, NEW k \in Entry, cached'[q] = k, k # None PROVE KeptOK(q, k)'
    <3>1. KeptOK(q, k)
      BY <1>1, <2>1 DEF KeptInv
    <3> QED BY <3>1, MovesKeep
  <2> QED BY <1>1, <2>1 DEF KeptInv
<1>2. ASSUME MissesInv, UNCHANGED negative PROVE MissesInv'
  <2>1. ASSUME NEW t \in Names, NEW n \in Nat, negative'[t] = n, n # None PROVE MissOK(t, n)'
    <3>1. MissOK(t, n)
      BY <1>2, <2>1 DEF MissesInv
    <3> QED BY <3>1, MovesKeep
  <2> QED BY <1>2, <2>1 DEF MissesInv
<1> QED BY <1>1, <1>2

LEMMA GalDoneKeeps ==
  ASSUME People!ConstantsOK, World, KeptInv, CallsInv, World', Moves, NEW c \in Callers, NEW search \in Job,
         search.began = clock, ~search.error, NEW people, Plain(people), Present(Who(people), 0, clock)',
         Covers(Who(people), search.text, NegativeTtl, clock)', People!GalDone(c, search, people)
  PROVE  KeptInv' /\ CallsInv' /\ People!PeopleAreRight'
<1> DEFINE f == People!Cut(people, search.limit)
           k == [found |-> f, until |-> clock + CacheTtl]
           j == [search EXCEPT !.found = f]
<1>1. clock' = clock /\ clock \in Nat
  BY DEF World, Moves
<1>2. CacheTtl \in Nat /\ CacheTtl >= 1 /\ NegativeTtl \in Nat
  BY DEF People!ConstantsOK
<1>3. /\ clock + CacheTtl \in Nat /\ clock + 1 \in Nat /\ CacheTtl + NegativeTtl \in Nat /\ 0 \in Nat
      /\ clock + CacheTtl + 0 <= clock + CacheTtl /\ clock + 1 + 0 <= clock + CacheTtl
      /\ clock + CacheTtl + NegativeTtl <= clock + (CacheTtl + NegativeTtl)
      /\ clock + 1 + (CacheTtl + NegativeTtl) <= (clock + CacheTtl) + (CacheTtl + NegativeTtl)
  BY <1>1, <1>2
<1>4. RosterOK(people) /\ search.limit \in Nat
  BY DEF Plain, Job, People!ConstantsOK
<1>5. /\ Plain(f) /\ Who(f) \subseteq Who(people)
      /\ Len(people) <= search.limit => f = people
  BY <1>4, CutKeeps DEF Plain
<1>6. cached' = [cached EXCEPT ![<<search.text, search.spelling>>] = k]
      /\ short' = (IF Len(people) > search.limit THEN clock ELSE short)
      /\ People!Onward(c, j, {"gal"})
  BY DEF People!GalDone
<1> HIDE DEF f
<1>7. Who(f) \subseteq Persons /\ Who(people) \subseteq Persons
  BY <1>4, <1>5, PeopleOf DEF Plain, Who
<1>8. Present(Who(f), 0, clock)'
  BY <1>1, <1>5 DEF Present
<1>9. Present(Who(f), CacheTtl, clock + CacheTtl)'
  BY <1>1, <1>2, <1>3, <1>7, <1>8, Weakens
<1>10. Present(Who(f), CacheTtl, clock + 1)'
  BY <1>1, <1>2, <1>3, <1>7, <1>8, Weakens
<1>11. Covers(Who(f), search.text, CacheTtl + NegativeTtl, clock + CacheTtl)'
  <2>1. CASE Len(people) > search.limit
    <3>1. short' = clock
      BY <1>6, <2>1
    <3>2. short' + (CacheTtl + NegativeTtl) >= clock' + CacheTtl
      BY <1>1, <1>2, <3>1
    <3> QED BY <3>2 DEF Covers, Lately
  <2>2. CASE ~(Len(people) > search.limit)
    <3>1. Len(people) <= search.limit
      <4>1. people \in Seq(Person)
        BY <1>4 DEF RosterOK
      <4>2. PICK a \in Nat : a = Len(people)
        BY <4>1
      <4>3. a <= search.limit
        BY <1>4, <2>2, <4>2
      <4> QED BY <4>2, <4>3
    <3>2. f = people
      BY <1>5, <3>1
    <3> QED BY <1>1, <1>2, <1>3, <1>7, <3>2, Weakens
  <2> QED BY <2>1, <2>2
<1>12. Covers(Who(f), search.text, CacheTtl + NegativeTtl, clock + 1)'
  BY <1>1, <1>2, <1>3, <1>7, <1>11, Weakens
<1>13. f \in Seq(Person) /\ k \in Entry
  BY <1>3, <1>5 DEF Entry, Plain, RosterOK
<1>14. KeptInv'
  <2>1. cached' \in [NameQueries -> Entry \cup {None}]
    BY <1>6, <1>13 DEF KeptInv
  <2>2. ASSUME NEW q \in NameQueries, NEW e \in Entry, cached'[q] = e, e # None PROVE KeptOK(q, e)'
    <3>1. CASE q = <<search.text, search.spelling>>
      <4>1. e = k /\ q[1] = search.text
        BY <1>6, <2>2, <3>1 DEF KeptInv
      <4>2. e.found = f /\ e.until = clock + CacheTtl /\ e.until <= clock + CacheTtl
        BY <1>3, <4>1
      <4> QED BY <1>1, <1>3, <1>5, <1>9, <1>11, <4>1, <4>2 DEF KeptOK
    <3>2. CASE q # <<search.text, search.spelling>>
      <4>1. cached[q] = e
        BY <1>6, <2>2, <3>2 DEF KeptInv
      <4>2. KeptOK(q, e)
        BY <2>2, <4>1 DEF KeptInv
      <4> QED BY <4>2, MovesKeep
    <3> QED BY <3>1, <3>2
  <2> QED BY <2>1, <2>2 DEF KeptInv
<1>15. j \in Job /\ j.began = clock /\ ~j.error /\ j.found = f /\ j.text = search.text
  BY <1>13 DEF Job
<1> HIDE DEF j
<1>16. Usable(j)'
  BY <1>5, <1>10, <1>12, <1>15 DEF Usable
<1>17. {"gal"} \in SUBSET {"gal", "contacts"}
  OBVIOUS
<1> QED BY <1>6, <1>14, <1>15, <1>16, <1>17, OnwardKeeps

LEMMA FindPersonKeeps ==
  ASSUME People!ConstantsOK, PeopleInv, NEW c \in Callers, NEW q \in NameQueries, NEW sources \in Sources, NEW n \in NameLimits,
         People!FindPerson(c, q[1], q[2], sources, n)
  PROVE  PeopleInv'
<1>1. World /\ MissesInv /\ KeptInv /\ CallsInv
  BY DEF PeopleInv
<1>2. UNCHANGED <<People!exchange, negative, clock, People!history>>
  BY DEF People!FindPerson
<1>3. World' /\ Moves
  BY <1>1, <1>2, StillWorld DEF People!history
<1>4. MissesInv'
  BY <1>1, <1>2, <1>3, CachesKept
<1>5. q = <<q[1], q[2]>> /\ q[1] \in Names /\ q[2] \in {r[2] : r \in NameQueries}
  BY DEF People!ConstantsOK
<1> DEFINE j == [pc |-> "negative", text |-> q[1], spelling |-> q[2], sources |-> sources,
                 limit |-> n, found |-> <<>>, exact |-> None, partial |-> None,
                 folder |-> FALSE, inbox |-> None, sent |-> None, error |-> FALSE, began |-> clock]
<1>6. PICK search : search = j
  OBVIOUS
<1>7. /\ search.pc = "negative" /\ search.text = q[1] /\ search.sources = sources /\ search.found = <<>>
      /\ search.exact = None /\ search.partial = None /\ ~search.error /\ search.began = clock
  BY <1>6
<1>8. search \in Job
  BY <1>1, <1>5, <1>6 DEF Job, Pcs, World
<1>9. IF "gal" \notin sources THEN UNCHANGED cached /\ People!Onward(c, search, {})
        ELSE /\ cached' = People!Dropped(<<q[1], q[2]>>)
             /\ IF People!Valid(<<q[1], q[2]>>)
                THEN People!Onward(c, [search EXCEPT !.found = cached[<<q[1], q[2]>>].found], {"gal"})
                ELSE People!Await(c, search)
  BY <1>6 DEF People!FindPerson
<1> HIDE DEF j
<1>10. {"gal"} \in SUBSET {"gal", "contacts"} /\ {} \in SUBSET {"gal", "contacts"}
  OBVIOUS
<1>11. CASE "gal" \notin sources
  <2>1. UNCHANGED cached /\ People!Onward(c, search, {})
    BY <1>9, <1>11
  <2>2. Usable(search)'
    BY <1>7, <1>11, Empty DEF Usable, Present
  <2>3. CallsInv' /\ People!PeopleAreRight'
    BY <1>1, <1>3, <1>7, <1>8, <1>10, <2>1, <2>2, OnwardKeeps
  <2>4. KeptInv'
    BY <1>1, <1>3, <2>1, CachesKept
  <2> QED BY <1>3, <1>4, <2>3, <2>4 DEF PeopleInv
<1>12. CASE "gal" \in sources /\ People!Valid(q)
  <2>1. UNCHANGED cached /\ People!Onward(c, [search EXCEPT !.found = cached[q].found], {"gal"})
    BY <1>5, <1>9, <1>12 DEF People!Dropped
  <2>2. PICK k : k = cached[q]
    OBVIOUS
  <2>3. k \in Entry /\ k # None /\ clock < k.until
    BY <1>1, <1>12, <2>2 DEF People!Valid, KeptInv
  <2>4. KeptOK(q, k)
    BY <1>1, <2>2, <2>3 DEF KeptInv
  <2>5. KeptOK(q, k)'
    BY <1>1, <1>3, <2>4, MovesKeep
  <2> DEFINE j2 == [search EXCEPT !.found = k.found]
  <2>6. j2 \in Job /\ j2.began = clock /\ ~j2.error /\ j2.found = k.found /\ j2.text = q[1]
    BY <1>7, <1>8, <2>3 DEF Job, Entry
  <2>7. People!Onward(c, j2, {"gal"})
    BY <2>1, <2>2
  <2> HIDE DEF j2
  <2>8. /\ clock \in Nat /\ clock' = clock /\ k.until \in Nat /\ clock + 1 \in Nat
        /\ CacheTtl \in Nat /\ CacheTtl + NegativeTtl \in Nat
        /\ clock + 1 + CacheTtl <= k.until + CacheTtl
        /\ clock + 1 + (CacheTtl + NegativeTtl) <= k.until + (CacheTtl + NegativeTtl)
    <3>1. clock \in Nat /\ clock' = clock
      BY <1>1, <1>3 DEF World, Moves
    <3>2. CacheTtl \in Nat /\ NegativeTtl \in Nat
      BY DEF People!ConstantsOK
    <3>3. k.until \in Nat
      BY <2>4 DEF KeptOK
    <3> QED BY <2>3, <3>1, <3>2, <3>3
  <2>9. Plain(k.found) /\ Who(k.found) \subseteq Persons
    BY <2>4, PeopleOf DEF KeptOK, Plain, Who
  <2>10. Present(Who(k.found), CacheTtl, clock + 1)'
    BY <1>3, <2>5, <2>8, <2>9, Weakens DEF KeptOK
  <2>11. Covers(Who(k.found), q[1], CacheTtl + NegativeTtl, clock + 1)'
    BY <1>3, <2>5, <2>8, <2>9, Weakens DEF KeptOK
  <2>12. Usable(j2)'
    BY <2>6, <2>9, <2>10, <2>11 DEF Usable
  <2>13. CallsInv' /\ People!PeopleAreRight'
    BY <1>1, <1>3, <1>10, <2>6, <2>7, <2>12, OnwardKeeps
  <2>14. KeptInv'
    BY <1>1, <1>3, <2>1, CachesKept
  <2> QED BY <1>3, <1>4, <2>13, <2>14 DEF PeopleInv
<1>13. CASE "gal" \in sources /\ ~People!Valid(q)
  <2>1. cached' = [cached EXCEPT ![q] = None] /\ People!Await(c, search)
    BY <1>5, <1>9, <1>13 DEF People!Dropped
  <2>2. Fresh(search.found)'
    BY <1>7, Empty DEF Fresh, Present
  <2>3. clock' = clock
    BY <1>3 DEF Moves
  <2>4. CallOK(search)'
    BY <1>7, <1>13, <2>2, <2>3 DEF CallOK
  <2>5. CallsInv' /\ People!PeopleAreRight'
    BY <1>1, <1>3, <1>8, <2>1, <2>4, AwaitKeeps
  <2>6. KeptInv'
    <3>1. cached' \in [NameQueries -> Entry \cup {None}]
      BY <1>1, <2>1 DEF KeptInv
    <3>2. ASSUME NEW r \in NameQueries, NEW k \in Entry, cached'[r] = k, k # None PROVE KeptOK(r, k)'
      <4>1. cached[r] = k
        BY <1>1, <2>1, <3>2 DEF KeptInv
      <4>2. KeptOK(r, k)
        BY <1>1, <3>2, <4>1 DEF KeptInv
      <4> QED BY <1>1, <1>3, <4>2, MovesKeep
    <3> QED BY <3>1, <3>2 DEF KeptInv
  <2> QED BY <1>3, <1>4, <2>5, <2>6 DEF PeopleInv
<1> QED BY <1>11, <1>12, <1>13

(* A search that is under way                                               *)
LEMMA Busy ==
  ASSUME CallsInv, NEW c \in Callers, call[c].pc # "free"
  PROVE  call[c] \in Job /\ CallOK(call[c])
<1>1. call[c] \in Job \cup {People!Free}
  BY DEF CallsInv
<1>2. People!Free.pc = "free"
  BY DEF People!Free
<1>3. call[c] \in Job
  BY <1>1, <1>2
<1>4. PICK j : j = call[c]
  OBVIOUS
<1> QED BY <1>3, <1>4 DEF CallsInv

(* What Exchange gives                                                      *)
LEMMA GivenIsFresh ==
  ASSUME People!ConstantsOK, World, UNCHANGED <<People!exchange, clock>>, NEW c
  PROVE  /\ \A strategy, l : l = People!Resolved(c, strategy) =>
              Fresh(l)' /\ Who(l) = gal \cap Finds[call[c].text][strategy]
         /\ \A l : l = People!Listed(c) => Fresh(l)' /\ Who(l) \subseteq contacts
<1>1. ASSUME NEW strategy, NEW l, l = People!Resolved(c, strategy)
      PROVE  Fresh(l)' /\ Who(l) = gal \cap Finds[call[c].text][strategy]
  <2> DEFINE S == gal \cap Finds[call[c].text][strategy]
  <2>1. S \subseteq Persons /\ S \subseteq gal /\ "gal" \in Kinds
    BY DEF World, Kinds
  <2>2. l = People!From(S, "gal")
    BY <1>1 DEF People!Resolved
  <2>3. PICK T : T = S
    OBVIOUS
  <2> HIDE DEF S
  <2>4. Plain(People!From(T, "gal")) /\ Who(People!From(T, "gal")) = T
    BY <2>1, <2>3, Listing
  <2>5. Plain(l) /\ Who(l) = T /\ T \subseteq gal'
    BY <2>1, <2>2, <2>3, <2>4 DEF People!exchange
  <2> QED BY <2>3, <2>5 DEF Fresh, Present, S
<1>2. ASSUME NEW l, l = People!Listed(c)
      PROVE  Fresh(l)' /\ Who(l) \subseteq contacts
  <2> DEFINE S == contacts \cap Finds[call[c].text].contains
  <2>1. S \subseteq Persons /\ S \subseteq contacts /\ "contacts" \in Kinds
    BY DEF World, Kinds
  <2>2. l = People!From(S, "contacts")
    BY <1>2 DEF People!Listed
  <2>3. PICK T : T = S
    OBVIOUS
  <2> HIDE DEF S
  <2>4. Plain(People!From(T, "contacts")) /\ Who(People!From(T, "contacts")) = T
    BY <2>1, <2>3, Listing
  <2>5. Plain(l) /\ Who(l) = T /\ T \subseteq contacts' /\ T \subseteq contacts
    BY <2>1, <2>2, <2>3, <2>4 DEF People!exchange
  <2> QED BY <2>5 DEF Fresh, Present
<1> QED BY <1>1, <1>2

LEMMA NegativeCheckKeeps ==
  ASSUME People!ConstantsOK, PeopleInv, NEW c \in Callers, People!NegativeCheck(c)
  PROVE  PeopleInv'
<1>1. World /\ MissesInv /\ KeptInv /\ CallsInv
  BY DEF PeopleInv
<1>2. PICK j : j = call[c]
  OBVIOUS
<1>3. j \in Job /\ CallOK(j) /\ j.pc = "negative"
  BY <1>1, <1>2, Busy DEF People!NegativeCheck
<1>4. UNCHANGED <<People!exchange, clock, joined, left, failed>>
  BY DEF People!NegativeCheck
<1>5. j.text \in Names
  BY <1>3 DEF Job
<1>6. /\ j.began = clock /\ ~j.error /\ "gal" \in j.sources /\ Fresh(j.found)
      /\ j.exact # None => Fresh(j.exact) /\ Covers(Who(j.exact), j.text, 0, clock)
      /\ j.partial # None => Fresh(j.partial)
  BY <1>3 DEF CallOK
<1>7. CASE People!MissedLately(j.text)
  <2>1. People!GalDone(c, j, <<>>) /\ UNCHANGED negative
    BY <1>2, <1>7 DEF People!NegativeCheck
  <2>2. short' \in {short, clock}
    BY <2>1 DEF People!GalDone
  <2>3. World' /\ Moves
    BY <1>1, <1>4, <2>2, StillWorld
  <2>4. PICK n \in Nat : n = negative[j.text] /\ n # None /\ clock < n
    BY <1>1, <1>5, <1>7 DEF People!MissedLately, MissesInv
  <2>5. MissOK(j.text, n)'
    BY <1>1, <1>5, <2>3, <2>4, MovesKeep DEF MissesInv
  <2>6. /\ clock \in Nat /\ clock' = clock /\ NegativeTtl \in Nat
        /\ clock + NegativeTtl <= n + NegativeTtl
    <3>1. clock \in Nat /\ clock' = clock /\ NegativeTtl \in Nat
      BY <1>1, <2>3 DEF World, Moves, People!ConstantsOK
    <3> QED BY <2>4, <3>1
  <2>7. Covers({}, j.text, NegativeTtl, clock)'
    <3>1. Covers({}, j.text, NegativeTtl, n)'
      BY <2>5 DEF MissOK
    <3> QED BY <2>3, <2>4, <2>6, <3>1, Weakens
  <2>8. Plain(<<>>) /\ Who(<<>>) = {} /\ Present({}, 0, clock)'
    BY Empty DEF Present
  <2>9. KeptInv' /\ CallsInv' /\ People!PeopleAreRight'
    BY <1>1, <1>3, <1>6, <2>1, <2>3, <2>7, <2>8, GalDoneKeeps
  <2>10. MissesInv'
    BY <1>1, <2>1, <2>3, CachesKept
  <2> QED BY <2>3, <2>9, <2>10 DEF PeopleInv
<1>8. CASE ~People!MissedLately(j.text)
  <2> DEFINE k == [j EXCEPT !.pc = "resolving"]
  <2>1. /\ negative' = [negative EXCEPT ![j.text] = None]
        /\ People!Await(c, k) /\ UNCHANGED <<cached, short>>
    BY <1>2, <1>8 DEF People!NegativeCheck
  <2>2. World' /\ Moves
    BY <1>1, <1>4, <2>1, StillWorld
  <2>3. k \in Job /\ k.pc = "resolving" /\ k.began = j.began /\ k.error = j.error
        /\ k.sources = j.sources /\ k.found = j.found /\ k.text = j.text
        /\ k.exact = j.exact /\ k.partial = j.partial
    BY <1>3 DEF Job, Pcs
  <2> HIDE DEF k
  <2>4. CallOK(k)
    BY <1>6, <2>3 DEF CallOK
  <2>5. CallOK(k)'
    BY <1>1, <2>2, <2>3, <2>4, MovesKeep
  <2>6. CallsInv' /\ People!PeopleAreRight'
    BY <1>1, <2>1, <2>2, <2>3, <2>5, AwaitKeeps
  <2>7. KeptInv'
    BY <1>1, <2>1, <2>2, CachesKept
  <2>8. MissesInv'
    <3>1. negative' \in [Names -> Nat \cup {None}]
      BY <1>1, <2>1 DEF MissesInv
    <3>2. ASSUME NEW t \in Names, NEW n \in Nat, negative'[t] = n, n # None PROVE MissOK(t, n)'
      <4>1. negative[t] = n
        BY <1>1, <2>1, <3>2 DEF MissesInv
      <4>2. MissOK(t, n)
        BY <1>1, <3>2, <4>1 DEF MissesInv
      <4> QED BY <1>1, <2>2, <4>2, MovesKeep
    <3> QED BY <3>1, <3>2 DEF MissesInv
  <2> QED BY <2>2, <2>6, <2>7, <2>8 DEF PeopleInv
<1> QED BY <1>7, <1>8

(* A search that a request has changed goes on.                             *)
LEMMA RequestKeeps ==
  ASSUME People!ConstantsOK, PeopleInv, NEW c \in Callers, NEW search \in Job, People!Await(c, search),
         UNCHANGED <<People!exchange, People!caches, clock, joined, left, short>>, failed' \in {failed, clock},
         CallOK(search)'
  PROVE  PeopleInv'
<1>1. World /\ MissesInv /\ KeptInv /\ CallsInv
  BY DEF PeopleInv
<1>2. World' /\ Moves
  BY <1>1, StillWorld
<1>3. KeptInv' /\ MissesInv'
  BY <1>1, <1>2, CachesKept DEF People!caches
<1>4. CallsInv' /\ People!PeopleAreRight'
  BY <1>1, <1>2, AwaitKeeps
<1> QED BY <1>2, <1>3, <1>4 DEF PeopleInv

LEMMA SearchExactKeeps ==
  ASSUME People!ConstantsOK, PeopleInv, NEW c \in Callers, People!SearchExact(c)
  PROVE  PeopleInv'
<1>1. World /\ CallsInv
  BY DEF PeopleInv
<1>2. PICK j : j = call[c]
  OBVIOUS
<1>3. j \in Job /\ CallOK(j) /\ j.pc = "resolving"
  BY <1>1, <1>2, Busy DEF People!SearchExact
<1>4. PICK people \in {<<>>, People!Resolved(c, "exact")} :
        People!Gives(people, People!Resolved(c, "exact")) /\ People!Await(c, [j EXCEPT !.exact = people])
  BY <1>2 DEF People!SearchExact
<1>5. UNCHANGED <<People!exchange, People!caches, clock, joined, left, short>>
  BY DEF People!SearchExact
<1>6. (people = People!Resolved(c, "exact") /\ failed' = failed) \/ (people = <<>> /\ failed' = clock)
  BY <1>4 DEF People!Gives
<1>7. World' /\ Moves
  BY <1>1, <1>5, <1>6, StillWorld
<1>8. Fresh(people)' /\ Covers(Who(people), j.text, 0, clock)'
  <2>1. CASE people = People!Resolved(c, "exact")
    <3>1. Fresh(people)' /\ Who(people) = gal \cap Finds[j.text].exact
      BY <1>1, <1>2, <1>5, <2>1, GivenIsFresh
    <3> QED BY <1>5, <3>1 DEF Covers, People!exchange
  <2>2. CASE people = <<>> /\ failed' = clock
    BY <1>1, <1>5, <2>2, Empty DEF Fresh, Present, Covers, Lately, World
  <2> QED BY <1>6, <2>1, <2>2
<1> DEFINE k == [j EXCEPT !.exact = people]
<1>9. people \in Seq(Person)
  BY <1>8 DEF Fresh, Plain, RosterOK
<1>10. /\ k \in Job /\ k.pc = "resolving" /\ k.began = j.began /\ k.error = j.error
       /\ k.sources = j.sources /\ k.found = j.found /\ k.text = j.text
       /\ k.exact = people /\ k.partial = j.partial
  BY <1>3, <1>9 DEF Job
<1> HIDE DEF k
<1>11. CallOK(j)'
  BY <1>1, <1>3, <1>7, MovesKeep
<1>12. CallOK(k)'
  BY <1>3, <1>8, <1>10, <1>11 DEF CallOK
<1>13. People!Await(c, k)
  BY <1>4 DEF k
<1> QED BY <1>5, <1>6, <1>10, <1>12, <1>13, RequestKeeps

LEMMA SearchPartialKeeps ==
  ASSUME People!ConstantsOK, PeopleInv, NEW c \in Callers, People!SearchPartial(c)
  PROVE  PeopleInv'
<1>1. World /\ CallsInv
  BY DEF PeopleInv
<1>2. PICK j : j = call[c]
  OBVIOUS
<1>3. j \in Job /\ CallOK(j) /\ j.pc = "resolving"
  BY <1>1, <1>2, Busy DEF People!SearchPartial
<1>4. UNCHANGED <<People!exchange, People!caches, clock, joined, left, short>>
  BY DEF People!SearchPartial
<1>5. failed' \in {failed, clock}
  BY DEF People!SearchPartial
<1>6. World' /\ Moves
  BY <1>1, <1>4, <1>5, StillWorld
<1>7. CallOK(j)'
  BY <1>1, <1>3, <1>6, MovesKeep
<1>8. ASSUME NEW people, Fresh(people)', People!Await(c, [j EXCEPT !.partial = people])
      PROVE  PeopleInv'
  <2> DEFINE k == [j EXCEPT !.partial = people]
  <2>1. people \in Seq(Person)
    BY <1>8 DEF Fresh, Plain, RosterOK
  <2>2. /\ k \in Job /\ k.pc = "resolving" /\ k.began = j.began /\ k.error = j.error
        /\ k.sources = j.sources /\ k.found = j.found /\ k.text = j.text
        /\ k.partial = people /\ k.exact = j.exact
    BY <1>3, <2>1 DEF Job
  <2>3. People!Await(c, k)
    BY <1>8
  <2> HIDE DEF k
  <2>4. CallOK(k)'
    BY <1>3, <1>7, <1>8, <2>2 DEF CallOK
  <2> QED BY <1>4, <1>5, <2>2, <2>3, <2>4, RequestKeeps
<1>9. CASE People!Await(c, [j EXCEPT !.folder = TRUE])
  <2> DEFINE k == [j EXCEPT !.folder = TRUE]
  <2>1. /\ k \in Job /\ k.pc = "resolving" /\ k.began = j.began /\ k.error = j.error
        /\ k.sources = j.sources /\ k.found = j.found /\ k.text = j.text
        /\ k.partial = j.partial /\ k.exact = j.exact
    BY <1>3 DEF Job
  <2>2. People!Await(c, k)
    BY <1>9
  <2> HIDE DEF k
  <2>3. CallOK(k)'
    BY <1>3, <1>7, <2>1 DEF CallOK
  <2> QED BY <1>4, <1>5, <2>1, <2>2, <2>3, RequestKeeps
<1>10. CASE People!Await(c, [j EXCEPT !.partial = People!Resolved(c, "partial")])
  <2>1. PICK people : people = People!Resolved(c, "partial")
    OBVIOUS
  <2>2. Fresh(people)'
    BY <1>1, <1>4, <2>1, GivenIsFresh
  <2> QED BY <1>8, <1>10, <2>1, <2>2
<1>11. CASE People!Await(c, [j EXCEPT !.partial = <<>>])
  <2>1. Fresh(<<>>)'
    BY Empty DEF Fresh, Present
  <2> QED BY <1>8, <1>11, <2>1
<1>12. \/ People!Await(c, [j EXCEPT !.folder = TRUE])
       \/ People!Await(c, [j EXCEPT !.partial = People!Resolved(c, "partial")])
       \/ People!Await(c, [j EXCEPT !.partial = <<>>])
  BY <1>2 DEF People!SearchPartial
<1> QED BY <1>9, <1>10, <1>11, <1>12

LEMMA SearchContactsFolderKeeps ==
  ASSUME People!ConstantsOK, PeopleInv, NEW c \in Callers, People!SearchContactsFolder(c)
  PROVE  PeopleInv'
<1>1. World /\ CallsInv
  BY DEF PeopleInv
<1>2. PICK j : j = call[c]
  OBVIOUS
<1>3. j \in Job /\ CallOK(j) /\ j.pc = "resolving"
  BY <1>1, <1>2, Busy DEF People!SearchContactsFolder
<1>4. PICK people \in {<<>>, People!Listed(c)} :
        People!Gives(people, People!Listed(c)) /\ People!Await(c, [j EXCEPT !.partial = people])
  BY <1>2 DEF People!SearchContactsFolder
<1>5. UNCHANGED <<People!exchange, People!caches, clock, joined, left, short>>
  BY DEF People!SearchContactsFolder
<1>6. failed' \in {failed, clock}
  BY <1>4 DEF People!Gives
<1>7. World' /\ Moves
  BY <1>1, <1>5, <1>6, StillWorld
<1>8. Fresh(people)'
  <2>1. CASE people = People!Listed(c)
    BY <1>1, <1>5, <2>1, GivenIsFresh
  <2>2. CASE people = <<>>
    BY <2>2, Empty DEF Fresh, Present
  <2> QED BY <1>4, <2>1, <2>2
<1> DEFINE k == [j EXCEPT !.partial = people]
<1>9. people \in Seq(Person)
  BY <1>8 DEF Fresh, Plain, RosterOK
<1>10. /\ k \in Job /\ k.pc = "resolving" /\ k.began = j.began /\ k.error = j.error
       /\ k.sources = j.sources /\ k.found = j.found /\ k.text = j.text
       /\ k.partial = people /\ k.exact = j.exact
  BY <1>3, <1>9 DEF Job
<1> HIDE DEF k
<1>11. CallOK(j)'
  BY <1>1, <1>3, <1>7, MovesKeep
<1>12. CallOK(k)'
  BY <1>3, <1>8, <1>10, <1>11 DEF CallOK
<1>13. People!Await(c, k)
  BY <1>4 DEF k
<1> QED BY <1>5, <1>6, <1>10, <1>12, <1>13, RequestKeeps

LEMMA MergesFresh ==
  ASSUME NEW l, Fresh(l)', NEW s, Fresh(s)', NEW label \in SUBSET Kinds
  PROVE  Fresh(People!Merge(l, s, label))' /\ Who(People!Merge(l, s, label)) = Who(l) \cup Who(s)
<1>1. Plain(l) /\ Plain(s) /\ Present(Who(l), 0, clock)' /\ Present(Who(s), 0, clock)'
  BY DEF Fresh
<1>2. PICK m : m = People!Merge(l, s, label)
  OBVIOUS
<1>3. Plain(m) /\ Who(m) = Who(l) \cup Who(s)
  BY <1>1, <1>2, MergesPlain
<1>4. Present(Who(m), 0, clock)'
  BY <1>1, <1>3 DEF Present
<1> QED BY <1>2, <1>3, <1>4 DEF Fresh

LEMMA ResultsFresh ==
  ASSUME NEW l, Fresh(l)', NEW s, Fresh(s)', NEW strategy
  PROVE  Fresh(People!_merge_results(l, s, strategy))' /\ Who(People!_merge_results(l, s, strategy)) = Who(l) \cup Who(s)
<1>1. {IF strategy = "fuzzy" THEN "fuzzy_match" ELSE "gal"} \in SUBSET Kinds
  BY DEF Kinds
<1> QED BY <1>1, MergesFresh DEF People!_merge_results

LEMMA AfterDomainKeeps ==
  ASSUME People!ConstantsOK, PeopleInv, NEW c \in Callers, NEW j \in Job, j = call[c], CallOK(j),
         j.pc \in {"resolving", "domain"}, NEW people, Fresh(people)', Covers(Who(people), j.text, 0, clock)',
         UNCHANGED <<People!exchange, clock, joined, left>>, failed' \in {failed, clock},
         People!AfterDomain(c, people)
  PROVE  PeopleInv'
<1>1. World /\ MissesInv /\ KeptInv /\ CallsInv
  BY DEF PeopleInv
<1>2. j.began = clock /\ ~j.error /\ "gal" \in j.sources /\ Fresh(j.found)
  BY DEF CallOK
<1>3. CASE people # <<>>
  <2>1. People!GalDone(c, j, people) /\ UNCHANGED negative
    BY <1>3 DEF People!AfterDomain
  <2>2. short' \in {short, clock}
    BY <2>1 DEF People!GalDone
  <2>3. World' /\ Moves
    BY <1>1, <2>2, StillWorld
  <2>4. Plain(people) /\ Present(Who(people), 0, clock)'
    BY DEF Fresh
  <2>5. /\ clock \in Nat /\ clock' = clock /\ NegativeTtl \in Nat /\ clock + 0 <= clock + NegativeTtl /\ 0 \in Nat
    BY <1>1, <2>3 DEF World, Moves, People!ConstantsOK
  <2>6. Who(people) \subseteq Persons
    BY <2>4, PeopleOf DEF Plain, Who
  <2>7. Covers(Who(people), j.text, NegativeTtl, clock)'
    BY <2>3, <2>5, <2>6, Weakens
  <2>8. KeptInv' /\ CallsInv' /\ People!PeopleAreRight'
    BY <1>1, <1>2, <2>1, <2>3, <2>4, <2>7, GalDoneKeeps
  <2>9. MissesInv'
    BY <1>1, <2>1, <2>3, CachesKept
  <2> QED BY <2>3, <2>8, <2>9 DEF PeopleInv
<1>4. CASE people = <<>>
  <2> DEFINE k == [j EXCEPT !.pc = "fuzzy"]
  <2>1. People!Await(c, k) /\ UNCHANGED <<People!caches, short>>
    BY <1>4 DEF People!AfterDomain
  <2>2. /\ k \in Job /\ k.pc = "fuzzy" /\ k.began = j.began /\ k.error = j.error
        /\ k.sources = j.sources /\ k.found = j.found /\ k.text = j.text
    BY DEF Job, Pcs
  <2> HIDE DEF k
  <2>3. World' /\ Moves
    BY <1>1, <2>1, StillWorld
  <2>4. Fresh(k.found)'
    BY <1>1, <1>2, <2>2, <2>3, MovesKeep
  <2>5. Covers({}, j.text, 0, clock)'
    BY <1>4, Empty
  <2>6. CallOK(k)'
    BY <1>2, <2>2, <2>4, <2>5 DEF CallOK
  <2> QED BY <2>1, <2>2, <2>6, RequestKeeps
<1> QED BY <1>3, <1>4

LEMMA GatheredKeeps ==
  ASSUME People!ConstantsOK, PeopleInv, NEW c \in Callers, People!Gathered(c)
  PROVE  PeopleInv'
<1>1. World /\ CallsInv
  BY DEF PeopleInv
<1>2. PICK j : j = call[c]
  OBVIOUS
<1>3. j \in Job /\ CallOK(j) /\ j.pc = "resolving" /\ j.exact # None /\ j.partial # None
  BY <1>1, <1>2, Busy DEF People!Gathered
<1>4. UNCHANGED <<People!exchange, clock, joined, left, failed>>
  BY DEF People!Gathered
<1>a. PICK e, p : e = People!_merge_results(<<>>, j.exact, "exact") /\ p = People!_merge_results(<<>>, j.partial, "partial")
  OBVIOUS
<1>5. PICK people : people = IF e = <<>> THEN p ELSE e
  OBVIOUS
<1>6. IF Len(people) < j.limit /\ j.text \in Domains
      THEN People!Await(c, [j EXCEPT !.pc = "domain", !.found = people]) /\ UNCHANGED <<People!caches, short>>
      ELSE People!AfterDomain(c, people)
  BY <1>2, <1>a, <1>5 DEF People!Gathered
<1>7. Fresh(j.exact) /\ Covers(Who(j.exact), j.text, 0, clock) /\ Fresh(j.partial)
  BY <1>3 DEF CallOK
<1>8. /\ gal' = gal /\ contacts' = contacts /\ clock' = clock /\ joined' = joined /\ left' = left
      /\ failed' = failed /\ clock \in Nat /\ short \in Nat
  BY <1>1, <1>4 DEF People!exchange, World
<1>9. Fresh(j.exact)' /\ Fresh(j.partial)' /\ Fresh(<<>>)'
  BY <1>7, <1>8, Empty DEF Fresh, Present
<1>10. Fresh(e)' /\ Who(e) = Who(j.exact) /\ Fresh(p)'
  <2>1. Fresh(e)' /\ Who(e) = Who(<<>>) \cup Who(j.exact)
    BY <1>a, <1>9, ResultsFresh
  <2>2. Fresh(p)'
    BY <1>a, <1>9, ResultsFresh
  <2> QED BY <2>1, <2>2, Empty
<1>11. Fresh(people)' /\ Covers(Who(people), j.text, 0, clock)
  <2>1. CASE e = <<>>
    <3>1. Who(j.exact) = {}
      BY <1>10, <2>1, Empty
    <3> QED BY <1>5, <1>7, <1>10, <2>1, <3>1 DEF Covers
  <2>2. CASE e # <<>>
    BY <1>5, <1>7, <1>10, <2>2
  <2> QED BY <2>1, <2>2
<1>12. short' \in {short, clock}
  <2>1. CASE Len(people) < j.limit /\ j.text \in Domains
    BY <1>6, <2>1
  <2>2. CASE ~(Len(people) < j.limit /\ j.text \in Domains)
    <3>1. People!AfterDomain(c, people)
      BY <1>6, <2>2
    <3> QED BY <3>1 DEF People!AfterDomain, People!GalDone
  <2> QED BY <2>1, <2>2
<1>13. World' /\ Moves
  BY <1>1, <1>4, <1>12, StillWorld
<1>14. Covers(Who(people), j.text, 0, clock)'
  <2>1. Who(people) \subseteq Persons
    BY <1>11, PeopleOf DEF Fresh, Plain, Who
  <2>2. 0 \in Nat /\ clock <= clock + 0
    BY <1>8
  <2> QED BY <1>1, <1>8, <1>11, <1>13, <2>1, <2>2, MovesKeep
<1>15. CASE Len(people) < j.limit /\ j.text \in Domains
  <2> DEFINE k == [j EXCEPT !.pc = "domain", !.found = people]
  <2>1. People!Await(c, k) /\ UNCHANGED <<People!caches, short>>
    BY <1>6, <1>15
  <2>2. people \in Seq(Person)
    BY <1>11 DEF Fresh, Plain, RosterOK
  <2>3. /\ k \in Job /\ k.pc = "domain" /\ k.began = j.began /\ k.error = j.error
        /\ k.sources = j.sources /\ k.found = people /\ k.text = j.text
    BY <1>3, <2>2 DEF Job, Pcs
  <2> HIDE DEF k
  <2>4. CallOK(k)'
    BY <1>3, <1>8, <1>11, <1>14, <2>3 DEF CallOK
  <2> QED BY <1>4, <2>1, <2>3, <2>4, RequestKeeps
<1>16. CASE ~(Len(people) < j.limit /\ j.text \in Domains)
  <2>1. People!AfterDomain(c, people)
    BY <1>6, <1>16
  <2> QED BY <1>2, <1>3, <1>4, <1>11, <1>14, <2>1, AfterDomainKeeps
<1> QED BY <1>15, <1>16

LEMMA SearchDomainKeeps ==
  ASSUME People!ConstantsOK, PeopleInv, NEW c \in Callers, People!SearchDomain(c)
  PROVE  PeopleInv'
<1>1. World /\ CallsInv
  BY DEF PeopleInv
<1>2. PICK j : j = call[c]
  OBVIOUS
<1>3. j \in Job /\ CallOK(j) /\ j.pc = "domain"
  BY <1>1, <1>2, Busy DEF People!SearchDomain
<1>4. UNCHANGED <<People!exchange, clock, joined, left>>
  BY DEF People!SearchDomain
<1>5. PICK more \in {<<>>, People!Resolved(c, "domain")} :
        People!Gives(more, People!Resolved(c, "domain")) /\ People!AfterDomain(c, People!_merge_results(j.found, more, "domain"))
  BY <1>2 DEF People!SearchDomain
<1>6. failed' \in {failed, clock}
  BY <1>5 DEF People!Gives
<1>7. PICK people : people = People!_merge_results(j.found, more, "domain")
  OBVIOUS
<1>8. short' \in {short, clock}
  BY <1>5 DEF People!AfterDomain, People!GalDone
<1>9. World' /\ Moves
  BY <1>1, <1>4, <1>6, <1>8, StillWorld
<1>10. Fresh(more)'
  <2>1. CASE more = People!Resolved(c, "domain")
    BY <1>1, <1>4, <2>1, GivenIsFresh
  <2>2. CASE more = <<>>
    BY <2>2, Empty DEF Fresh, Present
  <2> QED BY <1>5, <2>1, <2>2
<1>11. CallOK(j)'
  BY <1>1, <1>3, <1>9, MovesKeep
<1>12. Fresh(j.found)' /\ Covers(Who(j.found), j.text, 0, clock)'
  BY <1>3, <1>11 DEF CallOK
<1>13. Fresh(people)' /\ Who(people) = Who(j.found) \cup Who(more)
  BY <1>7, <1>10, <1>12, ResultsFresh
<1>14. Covers(Who(people), j.text, 0, clock)'
  BY <1>12, <1>13 DEF Covers
<1> QED BY <1>2, <1>3, <1>4, <1>5, <1>6, <1>7, <1>13, <1>14, AfterDomainKeeps

LEMMA SearchFuzzyKeeps ==
  ASSUME People!ConstantsOK, PeopleInv, NEW c \in Callers, People!SearchFuzzy(c)
  PROVE  PeopleInv'
<1>1. World /\ MissesInv /\ KeptInv /\ CallsInv
  BY DEF PeopleInv
<1>2. PICK j : j = call[c]
  OBVIOUS
<1>3. j \in Job /\ CallOK(j) /\ j.pc = "fuzzy"
  BY <1>1, <1>2, Busy DEF People!SearchFuzzy
<1>4. UNCHANGED <<People!exchange, clock, joined, left>>
  BY DEF People!SearchFuzzy
<1>5. PICK more \in {<<>>, People!Resolved(c, "fuzzy")} :
        /\ People!Gives(more, People!Resolved(c, "fuzzy")) /\ People!Miss(more, j.text)
        /\ People!GalDone(c, j, People!_merge_results(<<>>, more, "fuzzy"))
  BY <1>2 DEF People!SearchFuzzy
<1>6. failed' \in {failed, clock}
  BY <1>5 DEF People!Gives
<1>7. PICK people : people = People!_merge_results(<<>>, more, "fuzzy")
  OBVIOUS
<1>8. short' \in {short, clock}
  BY <1>5 DEF People!GalDone
<1>9. World' /\ Moves
  BY <1>1, <1>4, <1>6, <1>8, StillWorld
<1>10. Fresh(more)' /\ Fresh(<<>>)'
  <2>1. Fresh(<<>>)'
    BY Empty DEF Fresh, Present
  <2>2. CASE more = People!Resolved(c, "fuzzy")
    BY <1>1, <1>4, <2>1, <2>2, GivenIsFresh
  <2>3. CASE more = <<>>
    BY <2>1, <2>3
  <2> QED BY <1>5, <2>2, <2>3
<1>11. CallOK(j)'
  BY <1>1, <1>3, <1>9, MovesKeep
<1>12. Covers({}, j.text, 0, clock)' /\ j.began = clock /\ ~j.error /\ j.text \in Names
  BY <1>3, <1>11 DEF CallOK, Job
<1>13. Fresh(people)'
  BY <1>7, <1>10, ResultsFresh
<1>14. Plain(people) /\ Present(Who(people), 0, clock)'
  BY <1>13 DEF Fresh
<1>15. /\ clock \in Nat /\ clock' = clock /\ NegativeTtl \in Nat /\ clock + 0 <= clock + NegativeTtl /\ 0 \in Nat
       /\ clock + NegativeTtl \in Nat /\ clock + NegativeTtl + 0 <= clock + NegativeTtl
  <2>1. clock \in Nat /\ clock' = clock /\ NegativeTtl \in Nat
    BY <1>1, <1>9 DEF World, Moves, People!ConstantsOK
  <2> QED BY <2>1
<1>16. {} \subseteq Persons /\ {} \subseteq Who(people)
  OBVIOUS
<1>17. Covers(Who(people), j.text, NegativeTtl, clock)'
  BY <1>9, <1>12, <1>15, <1>16, Weakens
<1>18. Covers({}, j.text, NegativeTtl, clock + NegativeTtl)'
  BY <1>9, <1>12, <1>15, <1>16, Weakens
<1>19. KeptInv' /\ CallsInv' /\ People!PeopleAreRight'
  BY <1>1, <1>3, <1>5, <1>7, <1>9, <1>12, <1>14, <1>17, GalDoneKeeps
<1>20. MissesInv'
  <2>1. CASE more # <<>>
    <3>1. UNCHANGED negative
      BY <1>5, <2>1 DEF People!Miss
    <3> QED BY <1>1, <1>9, <3>1, CachesKept
  <2>2. CASE more = <<>>
    <3>1. negative' = [negative EXCEPT ![j.text] = clock + NegativeTtl]
      BY <1>5, <2>2 DEF People!Miss
    <3>2. negative' \in [Names -> Nat \cup {None}]
      BY <1>1, <1>15, <3>1 DEF MissesInv
    <3>3. ASSUME NEW t \in Names, NEW n \in Nat, negative'[t] = n, n # None PROVE MissOK(t, n)'
      <4>1. CASE t = j.text
        <5>1. n = clock + NegativeTtl /\ n <= clock + NegativeTtl
          BY <1>1, <1>15, <3>1, <3>3, <4>1 DEF MissesInv
        <5> QED BY <1>15, <1>18, <4>1, <5>1 DEF MissOK
      <4>2. CASE t # j.text
        <5>1. negative[t] = n
          BY <1>1, <3>1, <3>3, <4>2 DEF MissesInv
        <5>2. MissOK(t, n)
          BY <1>1, <3>3, <5>1 DEF MissesInv
        <5> QED BY <1>1, <1>9, <5>2, MovesKeep
      <4> QED BY <4>1, <4>2
    <3> QED BY <3>2, <3>3 DEF MissesInv
  <2> QED BY <2>1, <2>2
<1> QED BY <1>9, <1>19, <1>20 DEF PeopleInv

LEMMA SearchContactsKeeps ==
  ASSUME People!ConstantsOK, PeopleInv, NEW c \in Callers, People!SearchContacts(c)
  PROVE  PeopleInv'
<1>1. World /\ MissesInv /\ KeptInv /\ CallsInv
  BY DEF PeopleInv
<1>2. PICK j : j = call[c]
  OBVIOUS
<1>3. j \in Job /\ CallOK(j) /\ j.pc = "contacts"
  BY <1>1, <1>2, Busy DEF People!SearchContacts
<1>4. UNCHANGED <<People!exchange, People!caches, clock, People!history>>
  BY DEF People!SearchContacts
<1>5. World' /\ Moves
  BY <1>1, <1>4, StillWorld DEF People!history
<1>6. KeptInv' /\ MissesInv'
  BY <1>1, <1>4, <1>5, CachesKept DEF People!caches
<1>7. CallOK(j)'
  BY <1>1, <1>3, <1>5, MovesKeep
<1>8. Usable(j)' /\ j.began = clock /\ ~j.error /\ {"gal", "contacts"} \in SUBSET {"gal", "contacts"}
  BY <1>3, <1>7 DEF CallOK
<1>9. CASE People!Onward(c, j, {"gal", "contacts"})
  <2>1. CallsInv' /\ People!PeopleAreRight'
    BY <1>1, <1>3, <1>5, <1>8, <1>9, OnwardKeeps
  <2> QED BY <1>5, <1>6, <2>1 DEF PeopleInv
<1>10. CASE People!Onward(c, [j EXCEPT !.found = People!Merge(@, People!Listed(c), {})], {"gal", "contacts"})
  <2>1. PICK l : l = People!Listed(c)
    OBVIOUS
  <2>2. PICK m : m = People!Merge(j.found, l, {})
    OBVIOUS
  <2>3. Fresh(l)' /\ Who(l) \subseteq contacts'
    BY <1>1, <1>4, <2>1, GivenIsFresh DEF People!exchange
  <2>4. Plain(m) /\ Who(m) = Who(j.found) \cup Who(l)
    <3>1. {} \in SUBSET Kinds
      OBVIOUS
    <3> QED BY <1>8, <2>2, <2>3, <3>1, MergesPlain DEF Usable, Fresh
  <2>5. Present(Who(m), CacheTtl, clock + 1)'
    BY <1>8, <2>3, <2>4 DEF Usable, Present
  <2>6. "gal" \in j.sources => Covers(Who(m), j.text, CacheTtl + NegativeTtl, clock + 1)'
    BY <1>8, <2>4 DEF Usable, Covers
  <2> DEFINE k == [j EXCEPT !.found = m]
  <2>7. m \in Seq(Person)
    BY <2>4 DEF Plain, RosterOK
  <2>8. /\ k \in Job /\ k.began = j.began /\ k.error = j.error
        /\ k.sources = j.sources /\ k.found = m /\ k.text = j.text
    BY <1>3, <2>7 DEF Job
  <2>9. People!Onward(c, k, {"gal", "contacts"})
    BY <1>10, <2>1, <2>2
  <2> HIDE DEF k
  <2>10. Usable(k)'
    BY <2>4, <2>5, <2>6, <2>8 DEF Usable
  <2>11. CallsInv' /\ People!PeopleAreRight'
    BY <1>1, <1>5, <1>8, <2>8, <2>9, <2>10, OnwardKeeps
  <2> QED BY <1>5, <1>6, <2>11 DEF PeopleInv
<1>11. \/ People!Onward(c, j, {"gal", "contacts"})
       \/ People!Onward(c, [j EXCEPT !.found = People!Merge(@, People!Listed(c), {})], {"gal", "contacts"})
  BY <1>2 DEF People!SearchContacts
<1> QED BY <1>9, <1>10, <1>11

(* Whoever has mails, with as many                                          *)
LEMMA WritersAre ==
  ASSUME People!ConstantsOK, NEW n \in [Persons -> Nat], ~\E p \in Odd : n[p] > 0
  PROVE  /\ RosterOK(People!Writers(n)) /\ Who(People!Writers(n)) = {p \in Persons : n[p] > 0}
         /\ \A i \in DOMAIN People!Writers(n) : People!Writers(n)[i].mails = n[People!Writers(n)[i].who]
<1> DEFINE S == {p \in Persons : n[p] > 0}
           l == People!From(S, "email_history")
           w == People!Writers(n)
<1>1. S \subseteq Persons /\ "email_history" \in Kinds
  BY DEF Kinds
<1>2. Plain(l) /\ Who(l) = S
  BY <1>1, Listing
<1>3. w = [i \in DOMAIN l |-> [l[i] EXCEPT !.mails = n[l[i].who]]]
  BY DEF People!Writers
<1> HIDE DEF l, w, S
<1>4. l \in Seq(Person) /\ \A i, j \in DOMAIN l : l[i].who = l[j].who => i = j
  BY <1>2 DEF Plain, RosterOK
<1>5. DOMAIN l = 1..Len(l) /\ Len(l) \in Nat /\ \A i \in 1..Len(l) : l[i] \in Person
  BY <1>4
<1>6. \A i \in 1..Len(l) : /\ [l[i] EXCEPT !.mails = n[l[i].who]] \in Person
                           /\ [l[i] EXCEPT !.mails = n[l[i].who]].who = l[i].who
                           /\ [l[i] EXCEPT !.mails = n[l[i].who]].mails = n[l[i].who]
  BY <1>5 DEF Person
<1>7. /\ w \in Seq(Person) /\ DOMAIN w = 1..Len(l)
      /\ \A i \in 1..Len(l) : w[i].who = l[i].who /\ w[i].mails = n[l[i].who]
  <2>1. w = [i \in 1..Len(l) |-> [l[i] EXCEPT !.mails = n[l[i].who]]]
    BY <1>3, <1>5
  <2>2. \A i \in 1..Len(l) : w[i] = [l[i] EXCEPT !.mails = n[l[i].who]]
    BY <2>1
  <2>3. \A i \in 1..Len(l) : w[i] \in Person /\ w[i].who = l[i].who /\ w[i].mails = n[l[i].who]
    BY <1>6, <2>2
  <2>4. DOMAIN w = 1..Len(l) /\ w = [i \in 1..Len(l) |-> w[i]]
    BY <2>1
  <2>5. w \in Seq(Person)
    BY <1>5, <2>3, <2>4
  <2> QED BY <2>3, <2>4, <2>5
<1>8. RosterOK(w)
  BY <1>4, <1>5, <1>7 DEF RosterOK
<1>9. Who(w) = Who(l)
  BY <1>5, <1>7 DEF Who
<1> QED BY <1>2, <1>7, <1>8, <1>9 DEF w, S

(* One of them writes from what is no address                               *)
LEMMA NoWriters ==
  ASSUME NEW n \in [Persons -> Nat], \E p \in Odd : n[p] > 0
  PROVE  RosterOK(People!Writers(n)) /\ Who(People!Writers(n)) = {} /\ DOMAIN People!Writers(n) = {}
<1>1. People!Writers(n) = <<>>
  BY DEF People!Writers
<1>2. <<>> \in Seq(Person) /\ DOMAIN <<>> = {}
  OBVIOUS
<1> QED BY <1>1, <1>2 DEF RosterOK, Who

(* Both folders are read.                                                   *)
LEMMA CountedDone ==
  ASSUME People!ConstantsOK, World', NEW j \in Job, j.began = clock', Usable(j)',
         j.inbox \in [Persons -> Nat], j.sent \in [Persons -> Nat],
         Seen(j.inbox, "inbox")', Seen(j.sent, "sent")', j.inbox # None, j.sent # None,
         NEW k, k = [j EXCEPT !.found = People!Merge(@, People!Writers(People!Counted(j.inbox, j.sent)), {})]
  PROVE  k \in Job /\ Done(k)'
<1> DEFINE n == People!Counted(j.inbox, j.sent)
           w == People!Writers(n)
           m == People!Merge(j.found, w, {})
           odd == \E p \in Odd : n[p] > 0
           S == IF odd THEN {} ELSE {p \in Persons : n[p] > 0}
<1>1. n \in [Persons -> Nat] /\ \A p \in Persons : n[p] = j.inbox[p] + j.sent[p]
  BY DEF People!Counted
<1>2. k = [j EXCEPT !.found = m]
  OBVIOUS
<1>a. /\ n = People!Counted(j.inbox, j.sent) /\ S \subseteq {p \in Persons : n[p] > 0}
      /\ (\A p \in Odd : n[p] = 0) => S = {p \in Persons : n[p] > 0}
  OBVIOUS
<1> HIDE DEF n
<1>3. RosterOK(w) /\ Who(w) = S /\ \A i \in DOMAIN w : w[i].mails = n[w[i].who]
  <2>1. CASE odd
    BY <1>1, <2>1, NoWriters
  <2>2. CASE ~odd
    BY <1>1, <2>2, WritersAre
  <2> QED BY <2>1, <2>2
<1> HIDE DEF w, S, odd
<1>4. RosterOK(m) /\ Who(m) = Who(j.found) \cup S /\ CountsOf(m, S, n)
  <2>1. {} \in SUBSET Kinds /\ Plain(j.found)
    BY DEF Usable
  <2> QED BY <1>3, <2>1, Merges
<1> HIDE DEF m
<1>5. m \in Seq(Person)
  BY <1>4 DEF RosterOK
<1>6. /\ k \in Job /\ k.found = m /\ k.began = j.began /\ k.sources = j.sources
      /\ k.text = j.text /\ k.inbox = j.inbox /\ k.sent = j.sent
  BY <1>2, <1>5 DEF Job
<1>7. ASSUME NEW p \in S PROVE \E f \in Boxes : mails'[f][p] > 0
  <2>1. p \in Persons /\ j.inbox[p] + j.sent[p] > 0 /\ j.inbox[p] \in Nat /\ j.sent[p] \in Nat
    BY <1>1, <1>a
  <2>2. j.inbox[p] <= mails'["inbox"][p] /\ j.sent[p] <= mails'["sent"][p]
    BY <2>1 DEF Seen
  <2>3. mails'["inbox"][p] \in Nat /\ mails'["sent"][p] \in Nat
    BY <2>1 DEF World, Boxes
  <2>4. mails'["inbox"][p] > 0 \/ mails'["sent"][p] > 0
    BY <2>1, <2>2, <2>3
  <2> QED BY <2>4 DEF Boxes
<1>8. \A p \in Who(m) : \/ p \in gal' \cup contacts'
                        \/ left'[p] + CacheTtl >= clock' + 1
                        \/ \E f \in Boxes : mails'[f][p] > 0
  BY <1>4, <1>7 DEF Usable, Present
<1>9. "gal" \in j.sources => Covers(Who(m), j.text, CacheTtl + NegativeTtl, clock + 1)'
  BY <1>4 DEF Usable, Covers
<1>10. \A p \in Persons : n[p] \in Nat
  BY <1>1
<1>b. (\A p \in Odd : n[p] = 0) =>
        /\ CountsOf(m, {p \in Persons : n[p] > 0}, n)
        /\ \A p \in Persons : n[p] > 0 => p \in Who(m)
  BY <1>4, <1>a
<1> QED BY <1>a, <1>b, <1>4, <1>6, <1>8, <1>9, <1>10 DEF Done, n

LEMMA ScanKeeps ==
  ASSUME People!ConstantsOK, PeopleInv, NEW c \in Callers, NEW folder \in Boxes, People!Scan(c, folder)
  PROVE  PeopleInv'
<1>1. World /\ MissesInv /\ KeptInv /\ CallsInv
  BY DEF PeopleInv
<1>2. PICK j : j = call[c]
  OBVIOUS
<1>3. j \in Job /\ CallOK(j) /\ j.pc = "mail"
  BY <1>1, <1>2, Busy DEF People!Scan
<1>4. UNCHANGED <<People!exchange, People!caches, clock, People!history>>
  BY DEF People!Scan
<1>5. World' /\ Moves
  BY <1>1, <1>4, StillWorld DEF People!history
<1>6. KeptInv' /\ MissesInv'
  BY <1>1, <1>4, <1>5, CachesKept DEF People!caches
<1>7. CallOK(j)' /\ clock' = clock /\ mails' = mails
  BY <1>1, <1>3, <1>4, <1>5, MovesKeep DEF People!exchange
<1>8. PICK seen : seen = [p \in Persons |-> IF p \in Finds[j.text].contains THEN mails[folder][p] ELSE 0]
  OBVIOUS
<1>9. seen \in [Persons -> Nat] /\ Seen(seen, folder)'
  <2>1. mails[folder] \in [Persons -> Nat]
    BY <1>1 DEF World
  <2> QED BY <1>7, <1>8, <2>1 DEF Seen
<1>10. PICK k : k = [j EXCEPT ![folder] = seen]
  OBVIOUS
<1>11. /\ k \in Job /\ k.pc = "mail" /\ k.began = j.began /\ k.error = j.error
       /\ k.sources = j.sources /\ k.found = j.found /\ k.text = j.text
       /\ Seen(k.inbox, "inbox")' /\ Seen(k.sent, "sent")'
  <2>0. /\ Seen(j.inbox, "inbox")' /\ Seen(j.sent, "sent")'
    BY <1>3, <1>7 DEF CallOK
  <2>1. CASE folder = "inbox"
    BY <1>3, <1>9, <1>10, <2>0, <2>1 DEF Job
  <2>2. CASE folder = "sent"
    BY <1>3, <1>9, <1>10, <2>0, <2>2 DEF Job
  <2> QED BY <2>1, <2>2 DEF Boxes
<1>12. j.began = clock /\ ~j.error /\ Usable(j)'
  BY <1>3, <1>7 DEF CallOK
<1>13. Usable(k)'
  BY <1>11, <1>12 DEF Usable
<1>14. IF k.inbox = None \/ k.sent = None THEN People!Await(c, k)
       ELSE People!Answer(c, [k EXCEPT !.found = People!Merge(@, People!Writers(People!Counted(k.inbox, k.sent)), {})])
  BY <1>2, <1>8, <1>10 DEF People!Scan
<1>15. CASE k.inbox = None \/ k.sent = None
  <2>1. People!Await(c, k)
    BY <1>14, <1>15
  <2>2. CallOK(k)'
    BY <1>7, <1>11, <1>12, <1>13 DEF CallOK
  <2>3. CallsInv' /\ People!PeopleAreRight'
    BY <1>1, <1>5, <1>11, <2>1, <2>2, AwaitKeeps
  <2> QED BY <1>5, <1>6, <2>3 DEF PeopleInv
<1>16. CASE k.inbox # None /\ k.sent # None
  <2>1. PICK l : l = [k EXCEPT !.found = People!Merge(@, People!Writers(People!Counted(k.inbox, k.sent)), {})]
    OBVIOUS
  <2>2. k.inbox \in [Persons -> Nat] /\ k.sent \in [Persons -> Nat]
    BY <1>11, <1>16 DEF Job
  <2>3. l \in Job /\ Done(l)'
    BY <1>5, <1>7, <1>11, <1>12, <1>13, <1>16, <2>1, <2>2, CountedDone
  <2>4. People!Answer(c, l)
    BY <1>14, <1>16, <2>1
  <2>5. call' = [call EXCEPT ![c] = People!Free]
        /\ answer' = [l EXCEPT !.found = People!Cut(People!_rank_persons(@, l.text), l.limit)]
    BY <2>4 DEF People!Answer
  <2>6. CallsInv'
    BY <1>1, <1>5, <2>5, CallsKept
  <2>7. People!PeopleAreRight'
    BY <1>5, <2>3, <2>5, AnswerRight
  <2> QED BY <1>5, <1>6, <2>6, <2>7 DEF PeopleInv
<1> QED BY <1>15, <1>16

LEMMA ScanFailsKeeps ==
  ASSUME People!ConstantsOK, PeopleInv, NEW c \in Callers, People!ScanFails(c)
  PROVE  PeopleInv'
<1>1. World /\ MissesInv /\ KeptInv /\ CallsInv
  BY DEF PeopleInv
<1>2. PICK j : j = call[c]
  OBVIOUS
<1>3. j \in Job /\ CallOK(j) /\ j.pc = "mail"
  BY <1>1, <1>2, Busy DEF People!ScanFails
<1>4. UNCHANGED <<People!exchange, People!caches, clock, People!history>>
  BY DEF People!ScanFails
<1>5. World' /\ Moves
  BY <1>1, <1>4, StillWorld DEF People!history
<1>6. KeptInv' /\ MissesInv'
  BY <1>1, <1>4, <1>5, CachesKept DEF People!caches
<1>7. CallOK(j)' /\ clock' = clock
  BY <1>1, <1>3, <1>5, MovesKeep DEF Moves
<1>8. PICK l : l = [j EXCEPT !.error = TRUE]
  OBVIOUS
<1>9. l \in Job /\ l.began = clock' /\ l.error /\ l.sources = j.sources /\ l.found = j.found /\ l.text = j.text
  BY <1>3, <1>7, <1>8 DEF Job, CallOK
<1>10. Done(l)'
  BY <1>3, <1>7, <1>9 DEF CallOK, Usable, Done, Plain, Present
<1>11. People!Answer(c, l)
  BY <1>2, <1>8 DEF People!ScanFails
<1>12. call' = [call EXCEPT ![c] = People!Free]
       /\ answer' = [l EXCEPT !.found = People!Cut(People!_rank_persons(@, l.text), l.limit)]
  BY <1>11 DEF People!Answer
<1>13. CallsInv'
  BY <1>1, <1>5, <1>12, CallsKept
<1>14. People!PeopleAreRight'
  BY <1>5, <1>9, <1>10, <1>12, AnswerRight
<1> QED BY <1>5, <1>6, <1>13, <1>14 DEF PeopleInv

-----------------------------------------------------------------------------
(* The world moves.                                                         *)
LEMMA QuietKeeps ==
  ASSUME People!ConstantsOK, PeopleInv, World', Moves, UNCHANGED <<People!caches, call>>, answer' = None
  PROVE  PeopleInv'
<1>1. World /\ MissesInv /\ KeptInv /\ CallsInv
  BY DEF PeopleInv
<1>2. KeptInv' /\ MissesInv'
  BY <1>1, CachesKept DEF People!caches
<1>3. CallsInv'
  <2>1. ASSUME NEW c \in Callers, NEW j \in Job, call'[c] = j PROVE CallOK(j)'
    <3>1. CallOK(j)
      BY <1>1, <2>1 DEF CallsInv
    <3> QED BY <1>1, <3>1, MovesKeep
  <2> QED BY <1>1, <2>1 DEF CallsInv
<1> QED BY <1>2, <1>3 DEF PeopleInv, People!PeopleAreRight

LEMMA WorldKeeps ==
  ASSUME People!ConstantsOK, PeopleInv, NEW p \in Persons,
         \/ People!DirectoryChanges(p) \/ People!ContactsChange(p)
         \/ \E f \in Boxes : People!MailComes(f, p)
  PROVE  PeopleInv'
<1>1. World
  BY DEF PeopleInv
<1>2. \A q \in Persons : joined[q] \in Nat /\ left[q] \in Nat /\ joined[q] <= clock /\ left[q] <= clock
      /\ clock \in Nat /\ failed \in Nat /\ short \in Nat
  BY <1>1 DEF World
<1>a. clock \in Nat /\ failed \in Nat /\ short \in Nat
  BY <1>1 DEF World
<1>3. CASE People!DirectoryChanges(p)
  <2>1. /\ answer' = None /\ gal' = People!Toggled(gal, p) /\ joined' = [joined EXCEPT ![p] = clock]
        /\ left' = IF p \in gal THEN [left EXCEPT ![p] = clock] ELSE left
        /\ UNCHANGED <<contacts, mails, People!caches, clock, call, failed, short>>
    BY <1>3 DEF People!DirectoryChanges, People!Change, People!Leaves
  <2>2. /\ \A q \in Persons : joined'[q] = (IF q = p THEN clock ELSE joined[q])
        /\ \A q \in Persons : left'[q] = IF q = p /\ p \in gal THEN clock ELSE left[q]
        /\ joined' \in [Persons -> Nat] /\ left' \in [Persons -> Nat]
    BY <1>1, <2>1 DEF World
  <2>3. /\ gal' \subseteq Persons /\ \A q \in gal : q \in gal' \/ q = p
        /\ \A q \in gal' : q \in gal \/ q = p
    BY <1>1, <2>1 DEF People!Toggled, World
  <2>4. World'
    <3>1. \A q \in Persons : joined'[q] <= clock' /\ left'[q] <= clock'
      BY <1>2, <2>1, <2>2
    <3> QED BY <1>1, <2>1, <2>2, <2>3, <3>1 DEF World
  <2>5. Moves
    <3>1. \A q \in Persons : left[q] <= left'[q] /\ joined[q] <= joined'[q]
      BY <1>2, <2>2
    <3>2. \A q \in gal \cup contacts : q \in gal' \cup contacts' \/ left'[q] = clock
      BY <2>1, <2>2, <2>3
    <3>3. \A q \in gal' : q \in gal \/ joined'[q] = clock
      BY <2>2, <2>3
    <3>4. \A f \in Boxes, q \in Persons : mails[f][q] <= mails'[f][q]
      BY <1>1, <2>1 DEF World
    <3>5. clock' = clock /\ failed <= failed' /\ short <= short'
      BY <1>a, <2>1
    <3> QED BY <3>1, <3>2, <3>3, <3>4, <3>5 DEF Moves
  <2> QED BY <2>1, <2>4, <2>5, QuietKeeps
<1>4. CASE People!ContactsChange(p)
  <2>1. /\ answer' = None /\ contacts' = People!Toggled(contacts, p)
        /\ left' = IF p \in contacts THEN [left EXCEPT ![p] = clock] ELSE left
        /\ UNCHANGED <<gal, mails, People!caches, clock, call, joined, failed, short>>
    BY <1>4 DEF People!ContactsChange, People!Change, People!Leaves
  <2>2. /\ \A q \in Persons : left'[q] = IF q = p /\ p \in contacts THEN clock ELSE left[q]
        /\ left' \in [Persons -> Nat]
    BY <1>1, <2>1 DEF World
  <2>3. contacts' \subseteq Persons /\ \A q \in contacts : q \in contacts' \/ q = p
    BY <1>1, <2>1 DEF People!Toggled, World
  <2>4. World'
    <3>1. \A q \in Persons : joined'[q] <= clock' /\ left'[q] <= clock'
      BY <1>2, <2>1, <2>2
    <3> QED BY <1>1, <2>1, <2>2, <2>3, <3>1 DEF World
  <2>5. Moves
    <3>1. \A q \in Persons : left[q] <= left'[q] /\ joined[q] <= joined'[q]
      BY <1>2, <2>1, <2>2
    <3>2. \A q \in gal \cup contacts : q \in gal' \cup contacts' \/ left'[q] = clock
      BY <2>1, <2>2, <2>3
    <3>3. \A f \in Boxes, q \in Persons : mails[f][q] <= mails'[f][q]
      BY <1>1, <2>1 DEF World
    <3>4. clock' = clock /\ failed <= failed' /\ short <= short' /\ gal' = gal
      BY <1>a, <2>1
    <3> QED BY <3>1, <3>2, <3>3, <3>4 DEF Moves
  <2> QED BY <2>1, <2>4, <2>5, QuietKeeps
<1>5. ASSUME NEW f \in Boxes, People!MailComes(f, p) PROVE PeopleInv'
  <2>1. /\ answer' = None /\ mails' = [mails EXCEPT ![f][p] = @ + 1]
        /\ UNCHANGED <<gal, contacts, People!caches, clock, call, People!history>>
    BY <1>5 DEF People!MailComes, People!Change
  <2>2. \A g \in Boxes, q \in Persons : mails[g][q] \in Nat
        /\ mails'[g][q] = IF g = f /\ q = p THEN mails[g][q] + 1 ELSE mails[g][q]
    BY <1>1, <2>1 DEF World
  <2>3. mails' \in [Boxes -> [Persons -> Nat]]
    BY <1>1, <2>1 DEF World
  <2>4. World'
    BY <1>1, <2>1, <2>3 DEF World, People!history
  <2>5. \A g \in Boxes, q \in Persons : mails[g][q] <= mails'[g][q]
    BY <2>2
  <2>6. /\ clock' = clock /\ failed <= failed' /\ short <= short' /\ gal' = gal
        /\ contacts' = contacts /\ left' = left /\ joined' = joined
    BY <1>a, <2>1 DEF People!history
  <2>7. Moves
    BY <1>2, <2>5, <2>6 DEF Moves
  <2> QED BY <2>1, <2>4, <2>7, QuietKeeps
<1> QED BY <1>3, <1>4, <1>5

LEMMA TickKeeps ==
  ASSUME People!ConstantsOK, PeopleInv, People!Tick
  PROVE  PeopleInv'
<1>1. World /\ MissesInv /\ KeptInv /\ CallsInv
  BY DEF PeopleInv
<1>2. /\ clock' = clock + 1 /\ answer' = None /\ \A c \in Callers : call[c] = People!Free
      /\ UNCHANGED <<People!exchange, People!caches, call, People!history>>
  BY DEF People!Tick
<1>3. /\ gal' = gal /\ contacts' = contacts /\ mails' = mails /\ left' = left /\ joined' = joined
      /\ failed' = failed /\ short' = short /\ cached' = cached /\ negative' = negative
  BY <1>2 DEF People!exchange, People!caches, People!history
<1>4. clock \in Nat /\ CacheTtl \in Nat /\ NegativeTtl \in Nat
  BY <1>1 DEF World, People!ConstantsOK
<1>5. World'
  <2>1. \A a \in Nat : a <= clock => a <= clock'
    BY <1>2, <1>4
  <2> QED BY <1>1, <1>2, <1>3, <1>4, <2>1 DEF World
<1>6. \A S, t, d, x : Present(S, d, x)' = Present(S, d, x) /\ Covers(S, t, d, x)' = Covers(S, t, d, x)
  BY <1>3 DEF Present, Covers, Lately
<1>7. MissesInv'
  <2>1. \A n \in Nat : n <= clock + NegativeTtl => n <= clock' + NegativeTtl
    BY <1>2, <1>4
  <2>2. \A t, n : MissOK(t, n) => MissOK(t, n)'
    BY <1>6, <2>1 DEF MissOK
  <2> QED BY <1>1, <1>3, <2>2 DEF MissesInv
<1>8. KeptInv'
  <2>1. \A n \in Nat : n <= clock + CacheTtl => n <= clock' + CacheTtl
    BY <1>2, <1>4
  <2>2. \A q, k : KeptOK(q, k) => KeptOK(q, k)'
    BY <1>6, <2>1 DEF KeptOK
  <2> QED BY <1>1, <1>3, <2>2 DEF KeptInv
<1>9. CallsInv'
  <2>1. People!Free \notin Job
    BY DEF People!Free, Job, Pcs
  <2> QED BY <1>1, <1>2, <2>1 DEF CallsInv
<1> QED BY <1>2, <1>5, <1>7, <1>8, <1>9 DEF PeopleInv, People!PeopleAreRight

LEMMA PeopleStart == ASSUME People!ConstantsOK, People!Init PROVE PeopleInv
<1>1. /\ gal \subseteq Persons /\ contacts \subseteq Persons
  BY DEF People!Init, People!ConstantsOK
<1>2. World
  <2>1. clock \in Nat /\ 0 <= clock
    BY DEF People!Init, People!Start, People!ConstantsOK
  <2>2. mails \in [Boxes -> [Persons -> Nat]]
    BY DEF People!Init, Boxes
  <2>3. joined \in [Persons -> Nat] /\ left \in [Persons -> Nat] /\ failed = 0 /\ short = 0
        /\ \A p \in Persons : joined[p] = 0 /\ left[p] = 0
    BY DEF People!Init
  <2> QED BY <1>1, <2>1, <2>2, <2>3 DEF World
<1>3. MissesInv /\ KeptInv
  BY DEF People!Init, MissesInv, KeptInv
<1>4. CallsInv
  <2>1. People!Free \notin Job
    BY DEF People!Free, Job, Pcs
  <2> QED BY <2>1 DEF CallsInv, People!Init
<1> QED BY <1>2, <1>3, <1>4 DEF PeopleInv, People!PeopleAreRight, People!Init

LEMMA PeopleSteps == ASSUME People!ConstantsOK, PeopleInv, People!Next PROVE PeopleInv'
<1>1. CASE \E c \in Callers, q \in NameQueries, sources \in Sources, n \in NameLimits :
             People!FindPerson(c, q[1], q[2], sources, n)
  BY <1>1, FindPersonKeeps
<1>2. CASE \E c \in Callers :
             \/ People!NegativeCheck(c) \/ People!SearchExact(c) \/ People!SearchPartial(c) \/ People!SearchContactsFolder(c)
             \/ People!Gathered(c) \/ People!SearchDomain(c) \/ People!SearchFuzzy(c)
             \/ People!SearchContacts(c) \/ People!ScanFails(c) \/ \E f \in {"inbox", "sent"} : People!Scan(c, f)
  BY <1>2, NegativeCheckKeeps, SearchExactKeeps, SearchPartialKeeps, SearchContactsFolderKeeps,
     GatheredKeeps, SearchDomainKeeps, SearchFuzzyKeeps, SearchContactsKeeps, ScanFailsKeeps,
     ScanKeeps DEF Boxes
<1>3. CASE \/ \E p \in Persons : People!DirectoryChanges(p) \/ People!ContactsChange(p)
           \/ \E p \in Persons, f \in {"inbox", "sent"} : People!MailComes(f, p)
  BY <1>3, WorldKeeps DEF Boxes
<1>4. CASE People!Tick
  BY <1>4, TickKeeps
<1> QED BY <1>1, <1>2, <1>3, <1>4 DEF People!Next

LEMMA PeopleRests == ASSUME People!ConstantsOK, PeopleInv, UNCHANGED People!vars PROVE PeopleInv'
<1>1. /\ gal' = gal /\ contacts' = contacts /\ mails' = mails /\ left' = left /\ joined' = joined
      /\ failed' = failed /\ short' = short /\ cached' = cached /\ negative' = negative
      /\ clock' = clock /\ call' = call /\ answer' = answer
  BY DEF People!vars, People!exchange, People!caches, People!counts, People!history
<1>2. World' /\ Moves
  BY <1>1, StillWorld DEF PeopleInv, People!exchange
<1>3. World /\ MissesInv /\ KeptInv /\ CallsInv /\ People!PeopleAreRight
  BY DEF PeopleInv
<1>4. KeptInv' /\ MissesInv'
  BY <1>1, <1>2, <1>3, CachesKept
<1>5. CallsInv'
  <2>1. ASSUME NEW c \in Callers, NEW j \in Job, call'[c] = j PROVE CallOK(j)'
    <3>1. CallOK(j)
      BY <1>1, <1>3, <2>1 DEF CallsInv
    <3> QED BY <1>2, <1>3, <3>1, MovesKeep
  <2> QED BY <1>1, <1>3, <2>1 DEF CallsInv
<1>6. People!PeopleAreRight'
  BY <1>1, <1>3 DEF People!PeopleAreRight, People!NobodyHidden, People!NobodyStale, People!EachOnce, People!Named, People!Full, People!Before
<1> QED BY <1>2, <1>4, <1>5, <1>6 DEF PeopleInv
-----------------------------------------------------------------------------
(* Connection: the manager runs one loop.                                   *)
(*                                                                          *)
(* OneLoop is not inductive: that the manager is warm when nothing watches  *)
(* it must survive the threads' answers, and that a heartbeat only runs     *)
(* where it is wanted depends on the loop it came from.  TypeOK supplies    *)
(* both: a coroutine that is not waiting has no thread at work.             *)

LoopsInv == Manager!TypeOK /\ Manager!OneLoop

(* start() leaves one coroutine or none, and no thread at work.             *)
LEMMA LoopsInit == Manager!Init => LoopsInv
<1> SUFFICES ASSUME Manager!Init PROVE LoopsInv
  OBVIOUS
<1>1. Manager!TypeOK
  <2>1. failures \in 0..ResetEvery - 1 /\ outages \in Nat
    BY PartsAssumption DEF Manager!Init
  <2>2. /\ pc \in [Manager!Loops -> {"none", "created", "ask", "reset", "sleep"}]
        /\ thread \in [Manager!Loops -> {"idle", "ask", "reset", "yes", "no"}]
        /\ \A l \in Manager!Loops : pc[l] \notin {"ask", "reset"} /\ thread[l] = "idle"
    BY DEF Manager!Init, Manager!Loops
  <2>3. /\ wedged \in BOOLEAN /\ fired \in BOOLEAN /\ stopped \in BOOLEAN
        /\ state \in {"connecting", "warm", "degraded"}
        /\ sync \in {"disabled", "none", "running", "failed"}
    BY DEF Manager!Init
  <2>4. beats \in BOOLEAN /\ reachable \in BOOLEAN
    BY Zenon DEF Manager!Init
  <2> QED BY <2>1, <2>2, <2>3, <2>4 DEF Manager!TypeOK
<1>2. Manager!OneLoop
  BY DEF Manager!Init, Manager!OneLoop, Manager!Running, Manager!Loops
<1> QED BY <1>1, <1>2 DEF LoopsInv

(* The steps of the threads leave the coroutines where they are             *)
LEMMA ThreadsInv ==
  ASSUME LoopsInv, (\E l \in Manager!Loops : Manager!Ask(l)) \/ Manager!Reset
  PROVE  LoopsInv'
<1>1. ASSUME NEW l \in Manager!Loops, Manager!Ask(l)
      PROVE  LoopsInv'
  <2>1. failures' \in 0..ResetEvery - 1
    BY <1>1, PartsAssumption DEF LoopsInv, Manager!Ask, Manager!TypeOK
  <2>2. Manager!TypeOK'
    BY <1>1, <2>1 DEF LoopsInv, Manager!Ask, Manager!TypeOK, Manager!Loops, Manager!exchange
  <2>3. Manager!OneLoop'
    BY <1>1 DEF LoopsInv, Manager!Ask, Manager!OneLoop, Manager!Running, Manager!Loops
  <2> QED BY <2>2, <2>3 DEF LoopsInv
<1>2. CASE Manager!Reset
  <2>1. Manager!TypeOK'
    BY <1>2 DEF LoopsInv, Manager!Reset, Manager!TypeOK, Manager!Loops
  <2>2. Manager!OneLoop'
    BY <1>2 DEF LoopsInv, Manager!Reset, Manager!OneLoop, Manager!Running, Manager!Loops
  <2> QED BY <2>1, <2>2 DEF LoopsInv
<1> QED BY <1>1, <1>2

(* Every step of _warmup_loop (connection.py:118-146).                      *)
LEMMA WarmupInv ==
  ASSUME LoopsInv, Manager!Warmup
  PROVE  LoopsInv'
<1> USE DEF LoopsInv, Manager!TypeOK, Manager!OneLoop, Manager!Running, Manager!Loops,
            Manager!Goto, Manager!exchange
<1>1. CASE Manager!WarmupTry
  BY <1>1 DEF Manager!WarmupTry
<1>2. CASE Manager!Connected
  BY <1>2 DEF Manager!Connected, Manager!FireOnWarm, Manager!StartHeartbeat
<1>3. CASE Manager!Refused
  BY <1>3 DEF Manager!Refused
<1>4. CASE Manager!AfterReset
  BY <1>4 DEF Manager!AfterReset
<1> QED BY <1>1, <1>2, <1>3, <1>4 DEF Manager!Warmup

(* Every step of _heartbeat_loop (connection.py:171-188).                   *)
LEMMA BeatInv ==
  ASSUME LoopsInv, Manager!Beat
  PROVE  LoopsInv'
<1> USE DEF LoopsInv, Manager!TypeOK, Manager!OneLoop, Manager!Running, Manager!Loops,
            Manager!Goto, Manager!exchange
<1>1. CASE Manager!HeartbeatBegin
  BY <1>1 DEF Manager!HeartbeatBegin
<1>2. CASE Manager!HeartbeatProbe
  BY <1>2 DEF Manager!HeartbeatProbe
<1>3. CASE Manager!StillWarm
  BY <1>3 DEF Manager!StillWarm
<1>4. CASE Manager!Degraded
  BY <1>4 DEF Manager!Degraded, Manager!HandOver
<1> QED BY <1>1, <1>2, <1>3, <1>4 DEF Manager!Beat

(* stop() and what happens to Exchange and the session.                     *)
LEMMA OutsideInv ==
  ASSUME LoopsInv, Manager!Stop \/ Manager!Outage \/ Manager!Return \/ UNCHANGED Manager!vars
  PROVE  LoopsInv'
<1> USE DEF LoopsInv, Manager!TypeOK, Manager!OneLoop, Manager!Running, Manager!Loops, Manager!exchange
<1>1. CASE Manager!Stop
  BY <1>1 DEF Manager!Stop
<1>2. CASE Manager!Outage
  <2>1. outages' \in Nat
    BY <1>2 DEF Manager!Outage
  <2>2. wedged' \in BOOLEAN
    BY <1>2, Zenon DEF Manager!Outage
  <2> QED BY <1>2, <2>1, <2>2 DEF Manager!Outage
<1>3. CASE Manager!Return
  BY <1>3 DEF Manager!Return
<1>4. CASE UNCHANGED Manager!vars
  BY <1>4 DEF Manager!vars
<1> QED BY <1>1, <1>2, <1>3, <1>4

-----------------------------------------------------------------------------
(* The parts together                                                       *)

ToolsInv ==
  /\ part = "mail" => MailInv
  /\ part = "items" => FieldsInv /\ RulesInv
  /\ part = "search" => CachesInv /\ AnswersInv
  /\ part = "tasks" => LaneInv
  /\ part = "times" => TimesInv
  /\ part = "people" => PeopleInv
  /\ part = "manager" => LoopsInv

(* Whichever part is chosen starts inside its invariant.                    *)
LEMMA ToolsInit == Init => ToolsInv
<1> SUFFICES ASSUME Init PROVE ToolsInv
  OBVIOUS
<1>1. part = "mail" => MailInv
  BY PartsAssumption, MailInit DEF Init
<1>2. part = "items" => FieldsInv /\ RulesInv
  BY PartsAssumption, FieldsInit, RulesInit DEF Init
<1>3. part = "tasks" => LaneInv
  BY PartsAssumption, LaneInit DEF Init
<1>4. part = "manager" => LoopsInv
  BY LoopsInit DEF Init
<1>5. part = "search" => CachesInv /\ AnswersInv
  BY PartsAssumption, CachesInit, AnswersInit DEF Init
<1>6. part = "times" => TimesInv
  BY PartsAssumption, TimesInit DEF Init
<1>7. part = "people" => PeopleInv
  BY PartsAssumption, PeopleStart DEF Init
<1> QED BY <1>1, <1>2, <1>3, <1>4, <1>5, <1>6, <1>7 DEF ToolsInv

(* A part takes a step of its own, or none.                                 *)
LEMMA ToolsSteps ==
  ASSUME [Next]_vars
  PROVE  /\ part' = part
         /\ part = "mail" => [Mail!Next]_(Mail!vars)
         /\ part = "items" => [Item!Next]_(Item!vars)
         /\ part = "search" => [Caches!Next]_(Caches!vars)
         /\ part = "tasks" => [Lane!Next]_(Lane!vars)
         /\ part = "times" => [Times!Next]_(Times!vars)
         /\ part = "people" => [People!Next]_(People!vars)
         /\ part = "manager" => [Manager!Next]_(Manager!vars)
<1>1. CASE Next
  BY <1>1 DEF Next, MailStep, ItemsStep, SearchStep, TimesStep, PeopleStep, TasksStep, ManagerStep
<1>2. CASE UNCHANGED vars
  <2>1. part' = part
    BY <1>2 DEF vars
  <2>2. UNCHANGED Mail!vars
    BY <1>2 DEF vars, ofMail, Mail!vars, Mail!mailbox
  <2>3. UNCHANGED Item!vars
    BY <1>2 DEF vars, ofItems, Item!vars
  <2>4. UNCHANGED Lane!vars
    BY <1>2 DEF vars, ofTasks, Lane!vars, Lane!history
  <2>5. UNCHANGED Manager!vars
    BY <1>2 DEF vars, ofManager, Manager!vars, Manager!exchange
  <2>6. UNCHANGED Caches!vars
    BY <1>2 DEF vars, ofSearch, Caches!vars, Caches!counts, Caches!history
  <2>7. UNCHANGED Times!vars
    BY <1>2 DEF vars, ofTimes, Times!vars
  <2>8. UNCHANGED People!vars
    BY <1>2 DEF vars, ofPeople, People!vars, People!exchange, People!caches, People!counts, People!history
  <2> QED BY <2>1, <2>2, <2>3, <2>4, <2>5, <2>6, <2>7, <2>8
<1> QED BY <1>1, <1>2

(* Every step of the manager keeps its invariant.                           *)
LEMMA LoopsNext == LoopsInv /\ [Manager!Next]_(Manager!vars) => LoopsInv'
BY ThreadsInv, WarmupInv, BeatInv, OutsideInv DEF Manager!Next, Manager!Warmup, Manager!Beat

(* Every state of the parts satisfies their invariants.                     *)
LEMMA Invariant == Spec => []ToolsInv
<1>1. ToolsInv /\ [Next]_vars => ToolsInv'
  <2> SUFFICES ASSUME ToolsInv, [Next]_vars PROVE ToolsInv'
    OBVIOUS
  <2>1. part = "mail" => MailInv'
    BY ToolsSteps, MailNext DEF ToolsInv
  <2>2. part = "items" => FieldsInv' /\ RulesInv'
    BY ToolsSteps, PartsAssumption, FieldsNext, RulesNext DEF ToolsInv
  <2>3. part = "tasks" => LaneInv'
    BY ToolsSteps, PartsAssumption, LaneNext DEF ToolsInv
  <2>4. part = "manager" => LoopsInv'
    BY ToolsSteps, LoopsNext DEF ToolsInv
  <2>5. part = "search" => CachesInv' /\ AnswersInv'
    BY ToolsSteps, CachesNext, AnswersNext DEF ToolsInv
  <2>6. part = "times" => TimesInv'
    BY ToolsSteps, PartsAssumption, TimesNext DEF ToolsInv
  <2>7. part = "people" => PeopleInv'
    BY ToolsSteps, PartsAssumption, PeopleSteps, PeopleRests DEF ToolsInv
  <2> QED BY <2>1, <2>2, <2>3, <2>4, <2>5, <2>6, <2>7, ToolsSteps DEF ToolsInv
<1> QED BY ToolsInit, <1>1, PTL DEF Spec

(* Items, folders, calls, and the manager's coroutines and threads have     *)
(* their types: Exchange gives every new item an unused id (MailTools), and *)
(* only a cancelled coroutine leaves a thread at work behind                *)
(* (connection.py:118-202).                                                 *)
THEOREM TypeCorrect ==
  Spec => []((part = "mail" => Mail!TypeOK) /\ (part = "manager" => Manager!TypeOK))
<1>1. ToolsInv => (part = "mail" => Mail!TypeOK) /\ (part = "manager" => Manager!TypeOK)
  <2>1. MailInv => Mail!TypeOK
    BY DEF MailInv, MailboxOK, CallsOK, Mail!TypeOK
  <2> QED BY <2>1 DEF ToolsInv, LoopsInv
<1> QED BY <1>1, Invariant, PTL

(* A message that was ever in the mailbox is still in one of its folders    *)
(* unless somebody asked for its permanent deletion, or a folder with it    *)
(* could not be moved to the trash and manage_folder deleted it instead     *)
(* (folder_tools.py:597-602); and no item is in a folder that is gone       *)
(* (delete_email, move_email, manage_folder, ...).                          *)
THEOREM RecoverableHolds == Spec => []Recoverable
<1>1. ToolsInv => Recoverable
  BY DEF ToolsInv, MailInv, MailboxOK, Recoverable
<1> QED BY <1>1, Invariant, PTL

(* A reply, a forward or a draft of one carries all the files that the      *)
(* original had when it was found and no other: what a call has copied so   *)
(* far is part of that, and it only goes out when all is copied, or when an *)
(* AttributeError or TypeError cuts the copy short, and then with no more   *)
(* than the original had (reply_email, forward_email, create_reply_draft,   *)
(* create_forward_draft, email_tools.py:600-635).                           *)
THEOREM AllOrNothingHolds == Spec => []AllOrNothing
<1>1. ToolsInv => AllOrNothing
  BY DEF ToolsInv, MailInv, CallsOK, AllOrNothing
<1> QED BY <1>1, Invariant, PTL

(* An update, an action of a rule or an OOF setting keeps every field it    *)
(* was not asked to change, but for what another client sets between the    *)
(* read and the save, and for the start and end of the OOF settings, which  *)
(* a set without them drops (update_task, update_appointment,               *)
(* oof_settings, ...).                                                      *)
THEOREM IntendedHolds == Spec => []Intended
<1>1. FieldsInv => Item!Intended
  BY DEF FieldsInv, FieldsOK, Item!Intended
<1>2. ToolsInv => Intended
  BY <1>1 DEF ToolsInv, Intended
<1> QED BY <1>2, Invariant, PTL

(* Which rules of rule_evaluate fire depends on the rules and the message   *)
(* as it was read, whatever requests fail and other clients do, and         *)
(* rule_simulate and dry runs report just those unless a rule writes what a *)
(* later one looks at (rule_tools.py).                                      *)
THEOREM RulesFireHolds == Spec => []RulesFireAsRead
<1>1. ToolsInv => RulesFireAsRead
  BY PartsAssumption, RulesImplied DEF ToolsInv, RulesFireAsRead
<1> QED BY <1>1, Invariant, PTL

(* No vector that was ever in embeddings.json leaves it, whatever writes    *)
(* and batches fail and whenever the process ends, and no search pays for a *)
(* text whose vector its process has imported (embedding_service.py:96,     *)
(* import_legacy_embeddings_json).                                          *)
THEOREM VectorsKeptHolds == Spec => []VectorsKept
<1>1. ToolsInv => VectorsKept
  BY DEF ToolsInv, CachesInv, VectorsKept
<1> QED BY <1>1, Invariant, PTL

(* semantic_search_emails answers with the best of the newest messages of   *)
(* the folder as they were when it began, whichever vectors the dict, the   *)
(* cache file and the provider gave, unless another model's vectors were    *)
(* imported; get_email_details answers with a body the message has, or had  *)
(* if it is Markdown, trimmed if this call asked for that                   *)
(* (src/tools/ai_tools.py:180-359, embedding_service.py:154-264,            *)
(* src/tools/email_tools.py).                                               *)
THEOREM AsUncachedHolds == Spec => []AsUncached
<1>1. ToolsInv => AsUncached
  BY DEF ToolsInv, AnswersInv, AsUncached
<1> QED BY <1>1, Invariant, PTL

(* find_meeting_times suggests slots that do not touch and that all         *)
(* attendees are free in, but for those after a change of the clock in the  *)
(* range, and if there is none ends with fewer than it may give only if no  *)
(* other is possible; check_availability gives exactly the free slots of    *)
(* its grid, in the working hours of one day unless they last a day or more *)
(* (src/tools/calendar_tools.py:949-1048, calendar_people.py:87-108).       *)
THEOREM SlotsAreRightHolds == Spec => []SlotsAreRight
<1>1. ToolsInv => SlotsAreRight
  BY PartsAssumption, TimesImplied DEF ToolsInv, SlotsAreRight
<1> QED BY <1>1, Invariant, PTL

(* find_person leaves out nobody whom the directory has had since before    *)
(* the caches were filled, unless a request failed or a limit cut a list;   *)
(* it shows nobody who left longer ago than a cache lives, and nobody       *)
(* twice, each with the mails that both scans of this search saw, unless    *)
(* one of these is from what is no e-mail address                           *)
(* (gal_adapter.py, person_service.py:589-608).                             *)
THEOREM PeopleAreRightHolds == Spec => []PeopleAreRight
<1>1. ToolsInv => PeopleAreRight
  BY DEF ToolsInv, PeopleInv, PeopleAreRight
<1> QED BY <1>1, Invariant, PTL

(* Once the saved state covers every change and no call is under way, the   *)
(* table has the tasks as they are, but for a row that a call wrote late    *)
(* and one that an interrupted round left behind                            *)
(* (v5/ewsmcp/tools/tasks.py:124).                                          *)
THEOREM LaneRepairsHolds == Spec => []LaneRepairs
<1>1. ToolsInv => LaneRepairs
  BY LaneImplied DEF ToolsInv, LaneRepairs
<1> QED BY <1>1, Invariant, PTL

(* One loop watches a live connection, and none a stopped manager           *)
(* (connection.py:108-146, 164-188).                                        *)
THEOREM Watched == Spec => []OneLoop
<1>1. ToolsInv => OneLoop
  BY DEF ToolsInv, LoopsInv, OneLoop
<1> QED BY <1>1, Invariant, PTL
=============================================================================
