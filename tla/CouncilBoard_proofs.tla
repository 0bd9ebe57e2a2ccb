------------------------ MODULE CouncilBoard_proofs ------------------------
(***************************************************************************)
(* Proofs about the council's message board (CouncilBoard): types, and     *)
(* that an acknowledged message stays, for every environment; increasing   *)
(* ids, an append-only file and gap-free followers when a failed write is  *)
(* not repeated after the lock is gone.                                    *)
(***************************************************************************)
EXTENDS CouncilBoard, FiniteSetTheorems, TLAPS

LEMMA AppendFacts ==
  ASSUME NEW S, NEW s \in Seq(S), NEW e \in S
  PROVE  /\ Append(s, e) \in Seq(S)
         /\ Len(Append(s, e)) = Len(s) + 1
         /\ DOMAIN s = 1..Len(s) /\ Len(s) \in Nat
         /\ DOMAIN Append(s, e) = 1..(Len(s) + 1)
         /\ \A i \in DOMAIN s : Append(s, e)[i] = s[i]
         /\ Append(s, e)[Len(s) + 1] = e
  OBVIOUS

\* Put appends a line.
LEMMA PutFacts ==
  ASSUME lines \in Seq(Line), NEW e \in Line, Put(e)
  PROVE  /\ lines' \in Seq(Line) /\ lines' # <<>>
         /\ Len(lines') = Len(lines) + 1
         /\ DOMAIN lines = 1..Len(lines) /\ Len(lines) \in Nat
         /\ DOMAIN lines' = 1..(Len(lines) + 1)
         /\ \A i \in DOMAIN lines : lines'[i] = lines[i]
         /\ lines'[Len(lines) + 1] = e
<1>1. lines' = Append(lines, e)
  BY DEF Put
<1>2. /\ lines' \in Seq(Line) /\ Len(lines') = Len(lines) + 1
      /\ DOMAIN lines = 1..Len(lines) /\ Len(lines) \in Nat
      /\ DOMAIN lines' = 1..(Len(lines) + 1)
      /\ \A i \in DOMAIN lines : lines'[i] = lines[i]
      /\ lines'[Len(lines) + 1] = e
  BY <1>1, AppendFacts
<1>3. lines' # <<>>
  BY <1>2
<1> QED BY <1>2, <1>3

LEMMA ReplaceFacts ==
  ASSUME NEW S, NEW s \in Seq(S), NEW e \in S, NEW k \in DOMAIN s
  PROVE  /\ [s EXCEPT ![k] = e] \in Seq(S)
         /\ Len([s EXCEPT ![k] = e]) = Len(s)
         /\ DOMAIN [s EXCEPT ![k] = e] = DOMAIN s
  OBVIOUS

LEMMA FinishedLine ==
  ASSUME open' \in {open, FALSE}
  PROVE  open' => open
<1>1. CASE open' = open
  BY <1>1
<1>2. CASE open' = FALSE
  BY <1>2
<1> QED BY <1>1, <1>2

-----------------------------------------------------------------------------
(* What a call that is under way holds.                                    *)

CallInv ==
  \A w \in Writers :
    /\ pc[w] # "idle" => text[w] \in Threads
    /\ pc[w] \notin {"idle", "tail"} => seq[w] \in Nat \ {0}

\* An unfinished last line exists.
OpenInv == open => lines # <<>>

TypeInv == TypeOK /\ CallInv /\ OpenInv

LEMMA LineFacts ==
  /\ Messages \subseteq Line
  /\ \A w \in Writers : Torn(w) \in Line
  /\ \A l \in Line : l.id \in Nat /\ l.by \in Writers
  BY DEF Line, Messages, Torn

LEMMA MessageType ==
  ASSUME TypeInv, NEW w \in Writers, pc[w] \notin {"idle", "tail"}
  PROVE  Message(w) \in Messages
  BY DEF TypeInv, CallInv, Message, Messages

\* The last line of an open file, spoilt, is still a line.
LEMMA SpoilType ==
  ASSUME TypeInv, open, SpoilLast
  PROVE  /\ lines' \in Seq(Line) /\ lines' # <<>> /\ Len(lines') = Len(lines)
         /\ \A i \in DOMAIN lines : i # Len(lines) => lines'[i] = lines[i]
  <1> DEFINE last == Len(lines)
  <1>1. lines \in Seq(Line) /\ last \in DOMAIN lines
    BY DEF TypeInv, TypeOK, OpenInv
  <1>2. lines[last] \in Line
    BY <1>1
  <1>3. Torn(lines[last].by) \in Line
    BY <1>2, LineFacts
  <1>4. lines' = [lines EXCEPT ![last] = Torn(lines[last].by)]
    BY DEF SpoilLast
  <1> QED BY <1>1, <1>3, <1>4, ReplaceFacts

LEMMA TypeInit == Init => TypeInv
<1> SUFFICES ASSUME Init PROVE TypeInv
  OBVIOUS
<1>1. lines \in Seq(Line) /\ open = FALSE /\ lock = NoWriter /\ acked = {}
  BY DEF Init
<1>2. /\ pc = [w \in Writers |-> "idle"] /\ text = [w \in Writers |-> NoThread]
      /\ seq = [w \in Writers |-> 0] /\ since = [r \in Readers |-> 0]
      /\ seen = [r \in Readers |-> {}]
  BY DEF Init
<1> QED BY <1>1, <1>2 DEF TypeInv, TypeOK, CallInv, OpenInv

LEMMA AnswerType ==
  ASSUME TypeOK, NEW r \in Readers
  PROVE  Matching(r) \subseteq Nat /\ Answer(r) \subseteq Matching(r)
  BY LineFacts DEF TypeOK, Matching, Scanned, Answer, Oldest, Newest

LEMMA TypeStep == TypeInv /\ [Next]_vars => TypeInv'
<1> SUFFICES ASSUME TypeInv, [Next]_vars PROVE TypeInv'
  OBVIOUS
<1> USE DEF TypeInv
<1>1. ASSUME NEW w \in Writers, Lock(w) PROVE TypeInv'
  BY <1>1 DEF Lock, TypeOK, CallInv, OpenInv, reading
<1>2. ASSUME NEW w \in Writers, ReadTail(w) PROVE TypeInv'
  <2>1. PICK n \in {0} \cup {lines[i].id : i \in DOMAIN lines} :
          seq' = [seq EXCEPT ![w] = n + 1]
    BY <1>2 DEF ReadTail
  <2>2. n \in Nat
    BY <2>1, LineFacts DEF TypeOK
  <2> QED BY <1>2, <2>1, <2>2 DEF ReadTail, TypeOK, CallInv, OpenInv, reading
<1>3. ASSUME NEW w \in Writers, Write(w) PROVE TypeInv'
  <2>1. Message(w) \in Line
    BY <1>3, MessageType, LineFacts DEF Write
  <2>2. lines' \in Seq(Line)
    BY <1>3, <2>1, PutFacts DEF Write, TypeOK
  <2> QED BY <1>3, <2>2 DEF Write, TypeOK, CallInv, OpenInv, reading
<1>4. ASSUME NEW w \in Writers, WriteFails(w) PROVE TypeInv'
  <2>1. Message(w) \in Line /\ Torn(w) \in Line
    BY <1>4, MessageType, LineFacts DEF WriteFails
  <2>2. lines' \in Seq(Line) /\ (open' => lines' # <<>>)
    <3>1. CASE UNCHANGED lines /\ open' \in {open, FALSE}
      <4>1. lines' = lines /\ (open' => open)
        BY <3>1, FinishedLine
      <4> QED BY <4>1 DEF TypeOK, OpenInv
    <3>2. CASE Put(Torn(w))
      BY <3>2, <2>1, PutFacts DEF TypeOK
    <3>3. CASE Put(Message(w))
      BY <3>3, <2>1, PutFacts DEF TypeOK
    <3> QED BY <1>4, <3>1, <3>2, <3>3 DEF WriteFails
  <2>3. pc' \in [Writers -> {"idle", "tail", "write", "written"} \cup Closing]
        /\ \A v \in Writers : v # w => pc'[v] = pc[v]
    BY <1>4 DEF WriteFails, TypeOK, Closing
  <2>4. open' \in BOOLEAN
    BY <1>4 DEF WriteFails, TypeOK
  <2>5. UNCHANGED <<text, seq, acked, reading>> /\ lock' = NoWriter /\ pc[w] = "write"
    BY <1>4 DEF WriteFails
  <2> QED BY <2>2, <2>3, <2>4, <2>5 DEF TypeOK, CallInv, OpenInv, reading
<1>5. ASSUME NEW w \in Writers, CloseFails(w) PROVE TypeInv'
  BY <1>5 DEF CloseFails, Leave, TypeOK, CallInv, OpenInv, reading
<1>6. ASSUME NEW w \in Writers, LateFlush(w) PROVE TypeInv'
  <2>1. Message(w) \in Line /\ Torn(w) \in Line
    BY <1>6, MessageType, LineFacts DEF LateFlush
  <2>2. lines' \in Seq(Line)
    <3>1. CASE Put(Message(w))
      BY <3>1, <2>1, PutFacts DEF TypeOK
    <3>5. CASE Put(Torn(w))
      BY <3>5, <2>1, PutFacts DEF TypeOK
    <3>2. CASE open /\ SpoilLast
      BY <3>2, SpoilType
    <3>3. CASE open /\ lines' = [lines EXCEPT ![Len(lines)] = Message(w)]
      <4>1. lines \in Seq(Line) /\ Len(lines) \in DOMAIN lines
        BY <3>3 DEF TypeOK, OpenInv
      <4> QED BY <3>3, <4>1, <2>1, ReplaceFacts
    <3>4. CASE UNCHANGED lines
      BY <3>4 DEF TypeOK
    <3> QED BY <1>6, <3>1, <3>2, <3>3, <3>4, <3>5 DEF LateFlush
  <2>3. open' = FALSE /\ Leave(w) /\ UNCHANGED <<lock, acked, reading>>
    BY <1>6 DEF LateFlush
  <2> QED BY <2>2, <2>3 DEF Leave, TypeOK, CallInv, OpenInv, reading
<1>7. ASSUME NEW w \in Writers, Crash(w) PROVE TypeInv'
  BY <1>7 DEF Crash, Leave, TypeOK, CallInv, OpenInv, reading
<1>8. ASSUME NEW w \in Writers, Unlock(w) PROVE TypeInv'
  <2>1. Message(w) \in Messages
    BY <1>8, MessageType DEF Unlock
  <2> QED BY <1>8, <2>1 DEF Unlock, Leave, TypeOK, CallInv, OpenInv, reading
<1>9. ASSUME NEW r \in Readers, Poll(r) PROVE TypeInv'
  <2>1. Answer(r) \subseteq Nat
    BY AnswerType
  <2> QED BY <1>9, <2>1 DEF Poll, TypeOK, CallInv, OpenInv, writing
<1>10. CASE UNCHANGED vars
  BY <1>10 DEF vars, TypeOK, CallInv, OpenInv
<1> QED
  BY <1>1, <1>2, <1>3, <1>4, <1>5, <1>6, <1>7, <1>8, <1>9, <1>10 DEF Next, WriterStep

\* The variables of the board keep their types, for any writers, readers,
\* threads, limits and faults (append_message, read_messages).
THEOREM BoardTypes == Spec => []TypeOK
<1>1. TypeInv => TypeOK
  BY DEF TypeInv
<1> QED BY <1>1, TypeInit, TypeStep, PTL DEF Spec

-----------------------------------------------------------------------------
(* An acknowledged message stays: its line is complete, and a late flush   *)
(* only ever touches a line that is not.                                   *)

\* m is on a line that nobody is going to touch.
Settled(m) == \E i \in DOMAIN lines : lines[i] = m /\ (open => i # Len(lines))

AckInv ==
  /\ \A m \in acked : Settled(m)
  /\ \A w \in Writers : pc[w] = "written" => Settled(Message(w))

\* What a step does to the lines, seen from a line that is settled.
Touches ==
  \/ UNCHANGED lines /\ (open' => open)
  \/ \E e \in Line : Put(e)
  \/ /\ open /\ ~open' /\ Len(lines') = Len(lines) /\ DOMAIN lines' = DOMAIN lines
     /\ \A i \in DOMAIN lines : i # Len(lines) => lines'[i] = lines[i]

LEMMA SettledStays ==
  ASSUME TypeInv, Touches, NEW m, Settled(m)
  PROVE  Settled(m)'
<1>1. PICK i \in DOMAIN lines : lines[i] = m /\ (open => i # Len(lines))
  BY DEF Settled
<1>2. CASE UNCHANGED lines /\ (open' => open)
  BY <1>1, <1>2 DEF Settled
<1>3. CASE \E e \in Line : Put(e)
  <2>1. PICK e \in Line : Put(e)
    BY <1>3
  <2>2. /\ i \in DOMAIN lines' /\ lines'[i] = m
        /\ i # Len(lines')
    BY <1>1, <2>1, PutFacts DEF TypeInv, TypeOK
  <2> QED BY <2>2 DEF Settled
<1>4. CASE /\ open /\ ~open' /\ DOMAIN lines' = DOMAIN lines
           /\ \A j \in DOMAIN lines : j # Len(lines) => lines'[j] = lines[j]
  BY <1>1, <1>4 DEF Settled
<1> QED BY <1>2, <1>3, <1>4 DEF Touches

LEMMA WriterTouches ==
  ASSUME TypeInv, NEW w \in Writers, WriterStep(w)
  PROVE  Touches
<1>1. pc[w] \notin {"idle", "tail"} => Message(w) \in Line /\ Torn(w) \in Line
  BY MessageType, LineFacts
<1>2. CASE Lock(w) \/ ReadTail(w) \/ Unlock(w) \/ CloseFails(w) \/ Crash(w)
  BY <1>2 DEF Lock, ReadTail, Unlock, CloseFails, Crash, Touches
<1>3. CASE Write(w)
  BY <1>1, <1>3 DEF Write, Touches
<1>4. CASE WriteFails(w)
  <2>1. CASE UNCHANGED lines /\ open' \in {open, FALSE}
    <3>1. UNCHANGED lines /\ (open' => open)
      BY <2>1, FinishedLine
    <3> QED BY <3>1 DEF Touches
  <2> QED BY <1>1, <1>4, <2>1 DEF WriteFails, Touches
<1>5. CASE LateFlush(w)
  <2>1. ~open' /\ Message(w) \in Line /\ Torn(w) \in Line
    BY <1>1, <1>5 DEF LateFlush
  <2>2. CASE open /\ SpoilLast
    BY <2>1, <2>2, SpoilType DEF TypeInv, TypeOK, Touches
  <2>3. CASE open /\ lines' = [lines EXCEPT ![Len(lines)] = Message(w)]
    BY <2>1, <2>3 DEF TypeInv, TypeOK, Touches
  <2>4. CASE UNCHANGED lines
    BY <2>1, <2>4 DEF Touches
  <2> QED BY <1>5, <2>1, <2>2, <2>3, <2>4 DEF LateFlush, Touches
<1> QED BY <1>2, <1>3, <1>4, <1>5 DEF WriterStep

LEMMA AckStep == TypeInv /\ AckInv /\ [Next]_vars => AckInv'
<1> SUFFICES ASSUME TypeInv, AckInv, [Next]_vars PROVE AckInv'
  OBVIOUS
<1>1. CASE \E r \in Readers : Poll(r)
  BY <1>1 DEF Poll, AckInv, Settled, Message, writing
<1>2. CASE UNCHANGED vars
  BY <1>2 DEF vars, AckInv, Settled, Message
<1>3. ASSUME NEW w \in Writers, WriterStep(w) PROVE AckInv'
  <2>1. Touches
    BY <1>3, WriterTouches
  <2>2. \A m : Settled(m) => Settled(m)'
    BY <2>1, SettledStays
  <2>3. \A m \in acked' : m \in acked \/ (pc[w] = "written" /\ m = Message(w))
    BY <1>3 DEF WriterStep, Lock, ReadTail, Write, Unlock, WriteFails, CloseFails, LateFlush, Crash
  <2>4. ASSUME NEW v \in Writers, pc'[v] = "written" PROVE Settled(Message(v))'
    <3>1. CASE Write(w) /\ v = w
      <4>1. Message(w) \in Line /\ Put(Message(w)) /\ open' = FALSE
        BY <3>1, MessageType, LineFacts DEF Write
      <4>2. Len(lines) + 1 \in DOMAIN lines' /\ lines'[Len(lines) + 1] = Message(w)
        BY <4>1, PutFacts DEF TypeInv, TypeOK
      <4>3. Message(v)' = Message(w)
        BY <3>1 DEF Message, Write
      <4> QED BY <4>1, <4>2, <4>3 DEF Settled
    <3>2. CASE ~(Write(w) /\ v = w)
      <4>1. pc[v] = "written" /\ Message(v)' = Message(v)
        BY <1>3, <2>4, <3>2 DEF WriterStep, Lock, ReadTail, Write, Unlock, WriteFails,
             CloseFails, LateFlush, Crash, Leave, Message, TypeInv, TypeOK, Closing
      <4> QED BY <2>2, <4>1 DEF AckInv
    <3> QED BY <3>1, <3>2
  <2> QED BY <2>2, <2>3, <2>4 DEF AckInv
<1> QED BY <1>1, <1>2, <1>3 DEF Next

\* What append_message returned is in the file for good, as it was returned,
\* whatever other writers fail, die or flush late.
THEOREM AckedStays == Spec => []AckedIsOnBoard
<1>1. Init => AckInv
  BY DEF Init, AckInv
<1>2. AckInv => AckedIsOnBoard
  BY DEF AckInv, Settled, AckedIsOnBoard
<1> QED BY <1>1, <1>2, TypeInit, TypeStep, AckStep, PTL DEF Spec

-----------------------------------------------------------------------------
(* Ids, when nothing is flushed late.  Only the holder of the lock is      *)
(* between reading the last id and writing, so its id stays the next one.  *)

Holding == {"tail", "write", "written"}

LockInv == \A w \in Writers : pc[w] \in Holding => lock = w

NextIdInv ==
  \A w \in Writers : pc[w] = "write" => \A i \in DOMAIN lines : lines[i].id < seq[w]

OrderInv == LockInv /\ NextIdInv /\ IdsIncrease

\* A line that may be put by w leaves the ids in order.
LEMMA PutKeepsOrder ==
  ASSUME TypeInv, IdsIncrease, NEW e \in Line, Put(e),
         e.id # 0 => \A i \in DOMAIN lines : lines[i].id < e.id
  PROVE  IdsIncrease'
<1>1. /\ DOMAIN lines = 1..Len(lines) /\ Len(lines) \in Nat
      /\ DOMAIN lines' = 1..(Len(lines) + 1)
      /\ \A i \in DOMAIN lines : lines'[i] = lines[i]
      /\ lines'[Len(lines) + 1] = e
  BY PutFacts DEF TypeInv, TypeOK
<1>2. ASSUME NEW i \in DOMAIN lines', NEW j \in DOMAIN lines', i < j,
             lines'[i].id # 0, lines'[j].id # 0
      PROVE  lines'[i].id < lines'[j].id
  <2>1. i \in DOMAIN lines /\ lines'[i] = lines[i]
    BY <1>1, <1>2
  <2>2. CASE j = Len(lines) + 1
    BY <1>1, <1>2, <2>1, <2>2
  <2>3. CASE j \in DOMAIN lines
    BY <1>1, <1>2, <2>1, <2>3 DEF IdsIncrease, Valid
  <2> QED BY <1>1, <2>2, <2>3
<1> QED BY <1>2 DEF IdsIncrease, Valid

\* The last id of an ordered board is its largest.
LEMMA LastIdIsLargest ==
  ASSUME TypeInv, IdsIncrease, NEW n, IsLastId(n)
  PROVE  n \in Nat /\ \A i \in DOMAIN lines : lines[i].id <= n
<1>1. /\ DOMAIN lines = 1..Len(lines) /\ Len(lines) \in Nat
      /\ \A i \in DOMAIN lines : lines[i].id \in Nat
  BY LineFacts DEF TypeInv, TypeOK
<1>2. CASE n = 0 /\ \A i \in DOMAIN lines : ~Valid(i)
  BY <1>1, <1>2 DEF Valid
<1>3. CASE \E i \in DOMAIN lines :
             /\ Valid(i) /\ lines[i].id = n
             /\ \A j \in DOMAIN lines : j > i => ~Valid(j)
  <2>1. PICK k \in DOMAIN lines :
          /\ Valid(k) /\ lines[k].id = n
          /\ \A j \in DOMAIN lines : j > k => ~Valid(j)
    BY <1>3
  <2>2. ASSUME NEW i \in DOMAIN lines PROVE lines[i].id <= n
    <3>1. CASE ~Valid(i)
      BY <1>1, <2>1, <3>1 DEF Valid
    <3>2. CASE Valid(i) /\ i = k
      BY <1>1, <2>1, <3>2
    <3>3. CASE Valid(i) /\ i < k
      BY <1>1, <2>1, <3>3 DEF IdsIncrease
    <3> QED BY <1>1, <2>1, <3>1, <3>2, <3>3
  <2> QED BY <1>1, <2>1, <2>2
<1> QED BY <1>2, <1>3 DEF IsLastId

LEMMA LockStep == TypeInv /\ LockInv /\ [Next]_vars => LockInv'
<1> SUFFICES ASSUME TypeInv, LockInv, [Next]_vars PROVE LockInv'
  OBVIOUS
<1>1. CASE \E r \in Readers : Poll(r)
  BY <1>1 DEF Poll, LockInv, writing
<1>2. CASE UNCHANGED vars
  BY <1>2 DEF vars, LockInv
<1>3. ASSUME NEW w \in Writers, WriterStep(w) PROVE LockInv'
  <2>1. pc \in [Writers -> {"idle", "tail", "write", "written"} \cup Closing]
    BY DEF TypeInv, TypeOK
  <2>2. CASE Lock(w)
    BY <2>1, <2>2, NoWriterAssumption DEF Lock, LockInv, Holding
  <2>3. CASE ReadTail(w) \/ Write(w)
    BY <2>1, <2>3 DEF ReadTail, Write, LockInv, Holding
  <2>4. CASE WriteFails(w)
    BY <2>1, <2>4 DEF WriteFails, LockInv, Holding
  <2>5. CASE CloseFails(w) \/ LateFlush(w)
    BY <2>1, <2>5 DEF CloseFails, LateFlush, Leave, LockInv, Holding, Closing
  <2>6. CASE Crash(w)
    BY <2>1, <2>6 DEF Crash, Leave, LockInv, Holding
  <2>7. CASE Unlock(w)
    BY <2>1, <2>7 DEF Unlock, Leave, LockInv, Holding
  <2> QED BY <1>3, <2>2, <2>3, <2>4, <2>5, <2>6, <2>7 DEF WriterStep
<1> QED BY <1>1, <1>2, <1>3 DEF Next

LEMMA OrderStep ==
  ASSUME ~SpaceReturns
  PROVE  TypeInv /\ OrderInv /\ [Next]_vars => OrderInv'
<1> SUFFICES ASSUME TypeInv, OrderInv, [Next]_vars PROVE OrderInv'
  OBVIOUS
<1>0. LockInv'
  BY LockStep DEF OrderInv
<1>1. CASE \E r \in Readers : Poll(r)
  BY <1>0, <1>1 DEF Poll, OrderInv, NextIdInv, IdsIncrease, Valid, writing
<1>2. CASE UNCHANGED vars
  BY <1>0, <1>2 DEF vars, OrderInv, NextIdInv, IdsIncrease, Valid
<1>3. ASSUME NEW w \in Writers, Lock(w) \/ Unlock(w) \/ CloseFails(w) \/ Crash(w)
      PROVE  OrderInv'
  <2>1. UNCHANGED lines
        /\ \A v \in Writers : pc'[v] = "write" => pc[v] = "write" /\ seq'[v] = seq[v]
    BY <1>3 DEF Lock, Unlock, CloseFails, Crash, Leave, TypeInv, TypeOK
  <2> QED BY <1>0, <2>1 DEF OrderInv, NextIdInv, IdsIncrease, Valid
<1>4. ASSUME NEW w \in Writers, ReadTail(w) PROVE OrderInv'
  <2>1. PICK n \in {0} \cup {lines[i].id : i \in DOMAIN lines} :
          IsLastId(n) /\ seq' = [seq EXCEPT ![w] = n + 1]
    BY <1>4 DEF ReadTail
  <2>2. n \in Nat /\ \A i \in DOMAIN lines : lines[i].id \in Nat /\ lines[i].id < n + 1
    BY <2>1, LastIdIsLargest, LineFacts DEF OrderInv, TypeInv, TypeOK
  <2>3. \A v \in Writers : v # w => pc'[v] = pc[v] /\ seq'[v] = seq[v]
    BY <1>4, <2>1 DEF ReadTail, TypeInv, TypeOK
  <2>4. UNCHANGED lines /\ seq'[w] = n + 1
    BY <1>4, <2>1 DEF ReadTail, TypeInv, TypeOK
  <2> QED BY <1>0, <2>2, <2>3, <2>4 DEF OrderInv, NextIdInv, IdsIncrease, Valid
<1>5. ASSUME NEW w \in Writers, Write(w) \/ WriteFails(w) PROVE OrderInv'
  <2>1. pc[w] = "write" /\ Message(w) \in Line /\ Torn(w) \in Line
    BY <1>5, MessageType, LineFacts DEF Write, WriteFails
  <2>2. \A v \in Writers : pc'[v] # "write"
    <3>1. \A v \in Writers : pc[v] = "write" => v = w
      BY <2>1 DEF OrderInv, LockInv, Holding
    <3> QED BY <1>5, <3>1 DEF Write, WriteFails, TypeInv, TypeOK
  <2>3. \A i \in DOMAIN lines : lines[i].id < Message(w).id
    BY <2>1 DEF OrderInv, NextIdInv, Message
  <2>4. Torn(w).id = 0
    BY DEF Torn
  <2>5. IdsIncrease'
    <3>1. CASE Put(Message(w))
      BY <2>1, <2>3, <3>1, PutKeepsOrder DEF OrderInv
    <3>2. CASE Put(Torn(w))
      BY <2>1, <2>4, <3>2, PutKeepsOrder DEF OrderInv
    <3>3. CASE UNCHANGED lines
      BY <3>3 DEF OrderInv, IdsIncrease, Valid
    <3> QED BY <1>5, <3>1, <3>2, <3>3 DEF Write, WriteFails
  <2> QED BY <1>0, <2>2, <2>5 DEF OrderInv, NextIdInv
<1>6. ASSUME NEW w \in Writers PROVE ~LateFlush(w)
  BY DEF LateFlush
<1> QED BY <1>1, <1>2, <1>3, <1>4, <1>5, <1>6 DEF Next, WriterStep

LEMMA OrderInit == Init => OrderInv
  BY DEF Init, OrderInv, LockInv, NextIdInv, IdsIncrease, Holding

\* Ids grow along the file, over torn lines, failed writes and crashes, as
\* long as nothing is written after the lock is released.
THEOREM IdsGrow ==
  ASSUME ~SpaceReturns
  PROVE  Spec => []IdsIncrease
<1>1. OrderInv => IdsIncrease
  BY DEF OrderInv
<1> QED BY <1>1, TypeInit, TypeStep, OrderInit, OrderStep, PTL DEF Spec

\* ... so concurrent appends never return the same id for two messages.
THEOREM AckedIdsNeverCollide ==
  ASSUME ~SpaceReturns
  PROVE  Spec => []AckedIdsDiffer
<1>1. TypeInv /\ OrderInv /\ AckInv => AckedIdsDiffer
  <2> SUFFICES ASSUME TypeInv, IdsIncrease, AckInv,
                      NEW m \in acked, NEW n \in acked, m.id = n.id
               PROVE  m = n
    BY DEF OrderInv, AckedIdsDiffer
  <2>1. PICK i \in DOMAIN lines : lines[i] = m
    BY DEF AckInv, Settled
  <2>2. PICK j \in DOMAIN lines : lines[j] = n
    BY DEF AckInv, Settled
  <2>3. m.id \in Nat \ {0} /\ DOMAIN lines = 1..Len(lines) /\ Len(lines) \in Nat
    BY DEF TypeInv, TypeOK, Messages
  <2>4. ~(i < j) /\ ~(j < i)
    BY <2>1, <2>2, <2>3 DEF IdsIncrease, Valid
  <2> QED BY <2>1, <2>2, <2>3, <2>4
<1>2. Init => AckInv
  BY DEF Init, AckInv
<1> QED BY <1>1, <1>2, TypeInit, TypeStep, OrderInit, OrderStep, AckStep, PTL DEF Spec

\* Without late flushes the file is append-only.
THEOREM BoardIsAppendOnly ==
  ASSUME ~SpaceReturns
  PROVE  Spec => AppendOnly
<1> DEFINE Kept == /\ Len(lines') >= Len(lines)
                   /\ \A i \in DOMAIN lines : lines'[i] = lines[i]
<1>1. TypeInv /\ [Next]_vars => [Kept]_vars
  <2> SUFFICES ASSUME TypeInv, [Next]_vars PROVE Kept
    OBVIOUS
  <2>1. CASE UNCHANGED lines
    BY <2>1 DEF TypeInv, TypeOK
  <2>2. CASE \E w \in Writers : Write(w) \/ WriteFails(w)
    <3>1. PICK w \in Writers : Write(w) \/ WriteFails(w)
      BY <2>2
    <3>2. Message(w) \in Line /\ Torn(w) \in Line
      BY <3>1, MessageType, LineFacts DEF Write, WriteFails
    <3>3. CASE Put(Message(w))
      BY <3>2, <3>3, PutFacts DEF TypeInv, TypeOK
    <3>4. CASE Put(Torn(w))
      BY <3>2, <3>4, PutFacts DEF TypeInv, TypeOK
    <3> QED BY <2>1, <3>1, <3>3, <3>4 DEF Write, WriteFails
  <2> QED
    BY <2>1, <2>2 DEF Next, WriterStep, Lock, ReadTail, Unlock, CloseFails, LateFlush,
       Crash, Poll, writing, vars
<1> QED BY <1>1, TypeInit, TypeStep, PTL DEF Spec, AppendOnly

-----------------------------------------------------------------------------
(* Followers.                                                              *)

View(r) ==
  {lines[i].id : i \in {j \in DOMAIN lines : Valid(j) /\ lines[j].thread = Follows[r]}}

\* A follower is between two messages of its thread, or has none yet.
FollowInv ==
  \A r \in Readers :
    /\ seen[r] \subseteq {n \in View(r) : n <= since[r]}
    /\ \A n \in View(r), k \in seen[r] : k <= n /\ n <= since[r] => n \in seen[r]
    /\ IF since[r] = 0 THEN seen[r] = {} ELSE since[r] \in seen[r]

LEMMA ViewFacts ==
  ASSUME TypeInv, NEW r \in Readers
  PROVE  /\ View(r) \subseteq Nat \ {0}
         /\ IsFiniteSet(View(r))
<1>1. DOMAIN lines = 1..Len(lines) /\ Len(lines) \in Nat
  BY DEF TypeInv, TypeOK
<1>2. IsFiniteSet(DOMAIN lines)
  BY <1>1, FS_Interval
<1> DEFINE shown == {j \in DOMAIN lines : Valid(j) /\ lines[j].thread = Follows[r]}
<1>3. IsFiniteSet(shown)
  BY <1>2, FS_Subset
<1> DEFINE Id == [i \in shown |-> lines[i].id]
<1>4. Id \in Surjection(shown, View(r))
  BY DEF View, Surjection
<1>5. IsFiniteSet(View(r))
  BY <1>3, <1>4, FS_Surjection
<1>6. View(r) \subseteq Nat \ {0}
  BY LineFacts DEF View, Valid, TypeInv, TypeOK
<1> QED BY <1>5, <1>6

\* On an ordered board, a scan finds exactly what is newer than since.
LEMMA ScanFindsNewer ==
  ASSUME TypeInv, IdsIncrease, NEW r \in Readers
  PROVE  Matching(r) = {n \in View(r) : n > since[r]}
<1>1. /\ DOMAIN lines = 1..Len(lines) /\ Len(lines) \in Nat
      /\ \A i \in DOMAIN lines : lines[i].id \in Nat
      /\ since[r] \in Nat
  BY LineFacts DEF TypeInv, TypeOK
<1>2. ASSUME NEW i \in DOMAIN lines, Valid(i)
      PROVE  i \in Scanned(r) <=> lines[i].id > since[r]
  <2>1. ASSUME lines[i].id > since[r], NEW j \in DOMAIN lines, j >= i, Valid(j)
        PROVE  lines[j].id > since[r]
    <3>1. CASE j = i
      BY <2>1, <3>1
    <3>2. CASE i < j
      <4>1. lines[i].id < lines[j].id
        BY <1>2, <2>1, <3>2 DEF IdsIncrease
      <4> QED BY <1>1, <2>1, <4>1
    <3> QED BY <1>1, <2>1, <3>1, <3>2
  <2>2. i \in Scanned(r) => lines[i].id > since[r]
    BY <1>1, <1>2 DEF Scanned
  <2> QED BY <1>2, <2>1, <2>2 DEF Scanned
<1>3. \A i \in Scanned(r) : i \in DOMAIN lines /\ Valid(i)
  BY DEF Scanned
<1> QED BY <1>2, <1>3 DEF Matching, View

\* Oldest takes a prefix, Newest a suffix.
LEMMA OldestIsPrefix ==
  ASSUME NEW ids \in SUBSET Nat, IsFiniteSet(ids),
         NEW n \in ids, NEW k \in Oldest(ids), n <= k
  PROVE  n \in Oldest(ids)
<1> DEFINE Below(x) == {m \in ids : m < x}
<1>1. Below(n) \subseteq Below(k) /\ IsFiniteSet(Below(k))
  <2>1. Below(k) \subseteq ids
    OBVIOUS
  <2>2. k \in Nat /\ n \in Nat
    BY DEF Oldest
  <2>3. \A x \in Nat : x < n /\ n <= k => x < k
    BY <2>2
  <2>4. Below(n) \subseteq Below(k)
    BY <2>3
  <2> QED BY <2>1, <2>4, FS_Subset
<1>2. Cardinality(Below(n)) <= Cardinality(Below(k)) /\ IsFiniteSet(Below(n))
  BY <1>1, FS_Subset
<1>3. Cardinality(Below(n)) \in Nat /\ Cardinality(Below(k)) \in Nat
  BY <1>1, <1>2, FS_CardinalityType
<1>4. Cardinality(Below(k)) < Limit
  BY DEF Oldest
<1>5. Cardinality(Below(n)) < Limit
  BY <1>2, <1>3, <1>4, LimitAssumption
<1> QED BY <1>5 DEF Oldest

LEMMA NewestIsSuffix ==
  ASSUME NEW ids \in SUBSET Nat, IsFiniteSet(ids),
         NEW n \in ids, NEW k \in Newest(ids), k <= n
  PROVE  n \in Newest(ids)
<1> DEFINE Above(x) == {m \in ids : m > x}
<1>1. Above(n) \subseteq Above(k) /\ IsFiniteSet(Above(k))
  <2>1. Above(k) \subseteq ids
    OBVIOUS
  <2>2. k \in Nat /\ n \in Nat
    BY DEF Newest
  <2>3. \A x \in Nat : x > n /\ k <= n => x > k
    BY <2>2
  <2>4. Above(n) \subseteq Above(k)
    BY <2>3
  <2> QED BY <2>1, <2>4, FS_Subset
<1>2. Cardinality(Above(n)) <= Cardinality(Above(k)) /\ IsFiniteSet(Above(n))
  BY <1>1, FS_Subset
<1>3. Cardinality(Above(n)) \in Nat /\ Cardinality(Above(k)) \in Nat
  BY <1>1, <1>2, FS_CardinalityType
<1>4. Cardinality(Above(k)) < Limit
  BY DEF Newest
<1>5. Cardinality(Above(n)) < Limit
  BY <1>2, <1>3, <1>4, LimitAssumption
<1> QED BY <1>5 DEF Newest

LEMMA PollKeepsFollowing ==
  ASSUME TypeInv, IdsIncrease, FollowInv, NEW p \in Readers, Poll(p)
  PROVE  FollowInv'
<1> DEFINE got == Answer(p)
<1>1. PICK last \in got :
        /\ \A m \in got : m <= last
        /\ since' = [since EXCEPT ![p] = last]
  BY DEF Poll
<1>2. seen' = [seen EXCEPT ![p] = @ \cup got] /\ UNCHANGED lines
  BY DEF Poll, writing
<1>3. \A r \in Readers : View(r)' = View(r)
  BY <1>2 DEF View, Valid
<1>4. /\ View(p) \subseteq Nat \ {0} /\ IsFiniteSet(View(p))
      /\ Matching(p) = {n \in View(p) : n > since[p]}
      /\ got \subseteq Matching(p) /\ since[p] \in Nat
  BY ViewFacts, ScanFindsNewer, AnswerType DEF TypeInv, TypeOK
<1>5. IsFiniteSet(Matching(p)) /\ Matching(p) \in SUBSET Nat
  BY <1>4, FS_Subset
<1>6. seen'[p] = seen[p] \cup got /\ since'[p] = last
  BY <1>1, <1>2 DEF TypeInv, TypeOK
<1>7. \A r \in Readers : r # p => seen'[r] = seen[r] /\ since'[r] = since[r]
  BY <1>1, <1>2 DEF TypeInv, TypeOK
<1>8. seen'[p] \subseteq {n \in View(p) : n <= since'[p]}
  <2>1. \A n \in seen[p] : n \in View(p) /\ n <= since[p]
    BY DEF FollowInv
  <2>2. last > since[p] /\ last \in Nat
    BY <1>1, <1>4
  <2>3. \A n \in seen[p] : n <= last
    BY <1>4, <2>1, <2>2
  <2> QED BY <1>1, <1>4, <1>6, <2>1, <2>3
<1>9. ASSUME NEW n \in View(p), NEW k \in seen'[p], k <= n, n <= since'[p]
      PROVE  n \in seen'[p]
  <2>1. CASE n <= since[p]
    <3>1. k \in seen[p]
      <4>1. k \in got => k > since[p] /\ k \in Nat
        BY <1>4
      <4> QED BY <1>4, <1>6, <1>9, <2>1, <4>1
    <3> QED BY <1>6, <1>9, <2>1, <3>1 DEF FollowInv
  <2>2. CASE n > since[p] /\ since[p] = 0
    <3>1. n \in Matching(p) /\ got = Newest(Matching(p))
      BY <1>4, <2>2 DEF Answer
    <3>2. k \in got
      BY <1>6, <2>2 DEF FollowInv
    <3>3. n \in got
      BY <1>5, <1>9, <3>1, <3>2, NewestIsSuffix
    <3> QED BY <1>6, <3>3
  <2>3. CASE n > since[p] /\ since[p] # 0
    <3>1. n \in Matching(p) /\ got = Oldest(Matching(p)) /\ n <= last
      BY <1>4, <1>6, <1>9, <2>3 DEF Answer
    <3>2. n \in got
      BY <1>1, <1>5, <3>1, OldestIsPrefix
    <3> QED BY <1>6, <3>2
  <2> QED BY <1>4, <2>1, <2>2, <2>3
<1>10. since'[p] # 0 /\ since'[p] \in seen'[p]
  BY <1>1, <1>4, <1>6
<1> QED BY <1>3, <1>7, <1>8, <1>9, <1>10 DEF FollowInv

\* A new line is newer than all that any follower has got.
LEMMA PutKeepsFollowing ==
  ASSUME TypeInv, FollowInv, NEW e \in Line, Put(e), UNCHANGED <<since, seen>>,
         e.id # 0 => \A i \in DOMAIN lines : lines[i].id < e.id
  PROVE  FollowInv'
<1>1. /\ DOMAIN lines = 1..Len(lines) /\ Len(lines) \in Nat
      /\ DOMAIN lines' = 1..(Len(lines) + 1)
      /\ \A i \in DOMAIN lines : lines'[i] = lines[i]
      /\ lines'[Len(lines) + 1] = e
  BY PutFacts DEF TypeInv, TypeOK
<1> SUFFICES ASSUME NEW r \in Readers
             PROVE  /\ seen[r] \subseteq {n \in View(r)' : n <= since[r]}
                    /\ \A n \in View(r)', k \in seen[r] :
                         k <= n /\ n <= since[r] => n \in seen[r]
                    /\ IF since[r] = 0 THEN seen[r] = {} ELSE since[r] \in seen[r]
  BY DEF FollowInv
<1>2. View(r) \subseteq View(r)'
  BY <1>1 DEF View, Valid
<1>3. ASSUME NEW n \in View(r)', n \notin View(r)
      PROVE  n = e.id /\ e.id # 0
  BY <1>1, <1>3 DEF View, Valid
<1>4. ASSUME NEW n \in View(r)', n \notin View(r), since[r] # 0
      PROVE  ~(n <= since[r])
  <2>1. since[r] \in View(r)
    BY <1>4 DEF FollowInv
  <2>2. since[r] < n
    BY <1>3, <1>4, <2>1 DEF View
  <2>3. n \in Nat /\ since[r] \in Nat
    BY <1>3, <1>4, LineFacts DEF TypeInv, TypeOK
  <2> QED BY <2>2, <2>3
<1> QED BY <1>2, <1>4 DEF FollowInv

LEMMA FollowStep ==
  ASSUME ~SpaceReturns
  PROVE  TypeInv /\ OrderInv /\ FollowInv /\ [Next]_vars => FollowInv'
<1> SUFFICES ASSUME TypeInv, OrderInv, FollowInv, [Next]_vars PROVE FollowInv'
  OBVIOUS
<1>1. CASE \E r \in Readers : Poll(r)
  BY <1>1, PollKeepsFollowing DEF OrderInv
<1>2. CASE UNCHANGED <<lines, since, seen>>
  BY <1>2 DEF FollowInv, View, Valid
<1>3. ASSUME NEW w \in Writers, Write(w) \/ WriteFails(w) PROVE FollowInv'
  <2>1. pc[w] = "write" /\ Message(w) \in Line /\ Torn(w) \in Line
    BY <1>3, MessageType, LineFacts DEF Write, WriteFails
  <2>2. UNCHANGED <<since, seen>>
    BY <1>3 DEF Write, WriteFails, reading
  <2>3. \A i \in DOMAIN lines : lines[i].id < Message(w).id
    BY <2>1 DEF OrderInv, NextIdInv, Message
  <2>4. Torn(w).id = 0
    BY DEF Torn
  <2>5. CASE Put(Message(w))
    BY <2>1, <2>2, <2>3, <2>5, PutKeepsFollowing
  <2>6. CASE Put(Torn(w))
    BY <2>1, <2>2, <2>4, <2>6, PutKeepsFollowing
  <2> QED BY <1>2, <1>3, <2>2, <2>5, <2>6 DEF Write, WriteFails
<1> QED
  BY <1>1, <1>2, <1>3 DEF Next, WriterStep, Lock, ReadTail, Unlock, CloseFails, LateFlush,
     Crash, reading, vars

\* A follower's messages are its thread without a gap, for any page size, and
\* any number of writers, failures and torn lines between two polls.
THEOREM FollowersSeeTheirThread ==
  ASSUME ~SpaceReturns
  PROVE  Spec => []FollowerSeesThread
<1>1. Init => FollowInv
  BY DEF Init, FollowInv, View
<1>2. FollowInv => FollowerSeesThread
  BY DEF FollowInv, FollowerSeesThread, View
<1> QED BY <1>1, <1>2, TypeInit, TypeStep, OrderInit, OrderStep, FollowStep, PTL DEF Spec
=============================================================================
