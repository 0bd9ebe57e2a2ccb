---------------------------- MODULE CouncilBoard ----------------------------
(***************************************************************************)
(* The council's message board (council/board.py): a JSON-lines file that  *)
(* daemon requests and runner threads append to under a file lock, and     *)
(* that readers scan backwards without one.  A writer can die or run out   *)
(* of disk in the middle of its line, so the file may hold torn lines, and *)
(* its last line may lack its newline.  A write that fails keeps its       *)
(* unwritten bytes in the handle's buffer, and closing the handle, after   *)
(* the lock is released, tries to write them once more.                    *)
(*                                                                         *)
(* A line is [id, by, thread]; id 0 is a line that does not parse.  A      *)
(* thread stands for the (project, thread) pair that a reader asks for.    *)
(***************************************************************************)
EXTENDS Naturals, Sequences, FiniteSets

CONSTANTS
  Writers,   \* threads that append messages
  Readers,   \* clients that follow one thread of the board
  Threads,   \* thread names (a reader's filter: project and thread)
  Follows,   \* reader -> the thread it follows
  NoWriter,  \* nobody holds the file lock
  NoThread,  \* thread of a torn line
  SpaceReturns, \* may a write that failed succeed when the handle is closed?
  Limit,     \* messages per read
  MaxLines   \* bound: lines in the file

ASSUME NoWriterAssumption == NoWriter \notin Writers
ASSUME FollowsAssumption == Follows \in [Readers -> Threads]
ASSUME SpaceReturnsAssumption == SpaceReturns \in BOOLEAN
ASSUME LimitAssumption == Limit \in Nat \ {0}
ASSUME MaxLinesAssumption == MaxLines \in Nat

VARIABLES
  lines,    \* the file, line by line
  open,     \* does the last line lack its newline?
  lock,     \* who holds the file's exclusive lock
  pc,       \* writer -> where append_message is
  text,     \* writer -> thread of the message it appends
  seq,      \* writer -> the id it has chosen
  acked,    \* messages whose append_message returned
  since,    \* reader -> id of the last message it got, 0 before the first
  seen      \* reader -> ids of the messages it got

vars == <<lines, open, lock, pc, text, seq, acked, since, seen>>
writing == <<lines, open, lock, pc, text, seq, acked>>
reading == <<since, seen>>

Messages == [id : Nat \ {0}, by : Writers, thread : Threads]
Torn(w) == [id |-> 0, by |-> w, thread |-> NoThread]
Line == Messages \cup {Torn(w) : w \in Writers}

Valid(i) == lines[i].id # 0

Init ==
  /\ lines = <<>> /\ open = FALSE
  /\ lock = NoWriter
  /\ pc = [w \in Writers |-> "idle"]
  /\ text = [w \in Writers |-> NoThread]
  /\ seq = [w \in Writers |-> 0]
  /\ acked = {}
  /\ since = [r \in Readers |-> 0]
  /\ seen = [r \in Readers |-> {}]

-----------------------------------------------------------------------------
(* append_message.                                                         *)

\* The call is over, one way or the other.
Leave(w) ==
  /\ pc' = [pc EXCEPT ![w] = "idle"]
  /\ text' = [text EXCEPT ![w] = NoThread]
  /\ seq' = [seq EXCEPT ![w] = 0]

Closing == {"closeLine", "closeRest", "closeEnd"}

Lock(w) ==
  /\ pc[w] = "idle" /\ lock = NoWriter
  /\ Len(lines) < MaxLines
  /\ lock' = w
  /\ \E t \in Threads : text' = [text EXCEPT ![w] = t]
  /\ pc' = [pc EXCEPT ![w] = "tail"]
  /\ UNCHANGED <<lines, open, seq, acked, reading>>

\* Mutant of IsLastId: the last line counts even when it does not parse.
IsIdOfLastLine(n) == n = IF lines = <<>> THEN 0 ELSE lines[Len(lines)].id

\* _last_message_id: the id of the last line that parses, 0 if none does.
IsLastId(n) ==
  \/ n = 0 /\ \A i \in DOMAIN lines : ~Valid(i)
  \/ \E i \in DOMAIN lines :
       /\ Valid(i) /\ lines[i].id = n
       /\ \A j \in DOMAIN lines : j > i => ~Valid(j)

ReadTail(w) ==
  /\ pc[w] = "tail"
  /\ \E n \in {0} \cup {lines[i].id : i \in DOMAIN lines} :
       IsLastId(n) /\ seq' = [seq EXCEPT ![w] = n + 1]
  /\ pc' = [pc EXCEPT ![w] = "write"]
  /\ UNCHANGED <<lines, open, lock, text, acked, reading>>

Message(w) == [id |-> seq[w], by |-> w, thread |-> text[w]]

\* Mutant of Put: an unfinished last line is overwritten.
PutOverOpen(line) ==
  lines' = IF open THEN [lines EXCEPT ![Len(lines)] = line] ELSE Append(lines, line)

\* A line without its newline is closed first, so the payload starts a line.
Put(line) == lines' = Append(lines, line)

Write(w) ==
  /\ pc[w] = "write"
  /\ Put(Message(w))
  /\ open' = FALSE
  /\ pc' = [pc EXCEPT ![w] = "written"]
  /\ UNCHANGED <<lock, text, seq, acked, reading>>

\* Mutant of WriteFails: the write error is swallowed and the message returned.
WriteFailsSilently(w) ==
  /\ pc[w] = "write"
  /\ Leave(w)
  /\ lock' = NoWriter
  /\ acked' = acked \cup {Message(w)}
  /\ UNCHANGED <<lines, open, reading>>

\* The disk is full: nothing or just the healing newline, a part of the line,
\* or all of it but its newline has reached the file; the rest is buffered.
WriteFails(w) ==
  /\ pc[w] = "write"
  /\ \/ UNCHANGED lines /\ open' \in {open, FALSE} /\ pc' = [pc EXCEPT ![w] = "closeLine"]
     \/ Put(Torn(w)) /\ open' = TRUE /\ pc' = [pc EXCEPT ![w] = "closeRest"]
     \/ Put(Message(w)) /\ open' = TRUE /\ pc' = [pc EXCEPT ![w] = "closeEnd"]
  /\ lock' = NoWriter
  /\ UNCHANGED <<text, seq, acked, reading>>

\* Closing the handle after a failed write: still no space ...
CloseFails(w) ==
  /\ pc[w] \in Closing
  /\ Leave(w)
  /\ UNCHANGED <<lines, open, lock, acked, reading>>

\* ... or the rest is appended, to whatever the file ends with by now.
SpoilLast == lines' = [lines EXCEPT ![Len(lines)] = Torn(@.by)]

LateFlush(w) ==
  /\ SpaceReturns
  /\ \/ pc[w] = "closeLine" /\ Put(Message(w))
     \/ pc[w] = "closeLine" /\ open /\ SpoilLast
     \/ /\ pc[w] = "closeRest" /\ open
        /\ IF lines[Len(lines)] = Torn(w)
             THEN lines' = [lines EXCEPT ![Len(lines)] = Message(w)]
             ELSE SpoilLast
     \/ pc[w] = "closeRest" /\ ~open /\ Put(Torn(w))
     \/ pc[w] = "closeEnd" /\ UNCHANGED lines
  /\ open' = FALSE
  /\ Leave(w)
  /\ UNCHANGED <<lock, acked, reading>>

\* The process dies, and the lock it holds with it (a death in the middle of
\* the write is a failed write followed by this).
Crash(w) ==
  /\ pc[w] # "idle"
  /\ lock' = IF lock = w THEN NoWriter ELSE lock
  /\ Leave(w)
  /\ UNCHANGED <<lines, open, acked, reading>>

Unlock(w) ==
  /\ pc[w] = "written"
  /\ lock' = NoWriter
  /\ acked' = acked \cup {Message(w)}
  /\ Leave(w)
  /\ UNCHANGED <<lines, open, reading>>

-----------------------------------------------------------------------------
(* read_messages: backwards from the end, up to the first line that is not *)
(* newer than `since`; then the oldest Limit of those, or, without a       *)
(* `since`, the newest Limit.  A client asks again with the last id it got.*)

\* Mutant of Scanned: the scan stops at a line that does not parse.
ScannedToTorn(r) ==
  {i \in DOMAIN lines :
     \A j \in DOMAIN lines : j >= i => Valid(j) /\ lines[j].id > since[r]}

Scanned(r) ==
  {i \in DOMAIN lines :
     /\ Valid(i)
     /\ \A j \in DOMAIN lines : j >= i /\ Valid(j) => lines[j].id > since[r]}

Matching(r) ==
  {lines[i].id : i \in {j \in Scanned(r) : lines[j].thread = Follows[r]}}

Oldest(ids) == {n \in ids : Cardinality({m \in ids : m < n}) < Limit}
Newest(ids) == {n \in ids : Cardinality({m \in ids : m > n}) < Limit}

\* Mutant of Answer: always the newest Limit.
AnswerNewest(r) == Newest(Matching(r))

Answer(r) == IF since[r] = 0 THEN Newest(Matching(r)) ELSE Oldest(Matching(r))

Poll(r) ==
  /\ seen' = [seen EXCEPT ![r] = @ \cup Answer(r)]
  /\ \E n \in Answer(r) :
       /\ \A m \in Answer(r) : m <= n
       /\ since' = [since EXCEPT ![r] = n]
  /\ UNCHANGED writing

-----------------------------------------------------------------------------
WriterStep(w) ==
  \/ Lock(w) \/ ReadTail(w) \/ Write(w) \/ Unlock(w)
  \/ WriteFails(w) \/ CloseFails(w) \/ LateFlush(w) \/ Crash(w)

Next ==
  \/ \E w \in Writers : WriterStep(w)
  \/ \E r \in Readers : Poll(r)

Spec == Init /\ [][Next]_vars

\* Followers poll; a writer that has begun goes on, one way or the other.
Fairness ==
  /\ \A r \in Readers : WF_vars(Poll(r))
  /\ \A w \in Writers : WF_vars(pc[w] # "idle" /\ WriterStep(w))

FairSpec == Spec /\ Fairness

-----------------------------------------------------------------------------
TypeOK ==
  /\ lines \in Seq(Line)
  /\ open \in BOOLEAN
  /\ lock \in Writers \cup {NoWriter}
  /\ pc \in [Writers -> {"idle", "tail", "write", "written"} \cup Closing]
  /\ text \in [Writers -> Threads \cup {NoThread}]
  /\ seq \in [Writers -> Nat]
  /\ acked \subseteq Messages
  /\ since \in [Readers -> Nat]
  /\ seen \in [Readers -> SUBSET Nat]

\* "concurrent appends from multiple sessions/threads never collide on the
\* same message id" (council/board.py): ids grow along the file, over torn
\* lines, failed writes and crashes of the writers.
IdsIncrease ==
  \A i, j \in DOMAIN lines : i < j /\ Valid(i) /\ Valid(j) => lines[i].id < lines[j].id

\* What append_message returned is in the file, as it was returned, for good.
AckedIsOnBoard ==
  \A m \in acked : \E i \in DOMAIN lines : lines[i] = m

\* Two returned messages never share an id.
AckedIdsDiffer == \A m, n \in acked : m.id = n.id => m = n

\* Nobody ever changes or removes a line: the board is append-only.
AppendOnly ==
  [][/\ Len(lines') >= Len(lines)
     /\ \A i \in DOMAIN lines : lines'[i] = lines[i]]_vars

\* What a follower got is its thread without a gap: nothing but messages of
\* its thread up to its last one, and, from the first one on, all of them.
FollowerSeesThread ==
  \A r \in Readers :
    LET view == {lines[i].id : i \in {j \in DOMAIN lines : Valid(j) /\ lines[j].thread = Follows[r]}}
    IN /\ seen[r] \subseteq {n \in view : n <= since[r]}
       /\ \A n \in view, k \in seen[r] : k <= n /\ n <= since[r] => n \in seen[r]

\* A message that its author was told is posted reaches everybody who already
\* follows its thread.
PostedIsDelivered ==
  \A r \in Readers, n \in 1..MaxLines :
    (since[r] \in 1..(n - 1) /\ \E m \in acked : m.id = n /\ m.thread = Follows[r])
      ~> n \in seen[r]
=============================================================================
