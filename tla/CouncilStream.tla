---------------------------- MODULE CouncilStream ----------------------------
(***************************************************************************)
(* One connection of the council's event stream (council/api.py,           *)
(* _council_stream_events): a generator that polls the mtimes of the board *)
(* and of one session file, and sends new messages and the changed         *)
(* session.  CouncilBoard is where reading a board is modelled in detail;  *)
(* here message n is the n-th valid line.  A session file is the number of *)
(* its writes.                                                             *)
(***************************************************************************)
EXTENDS Naturals, Sequences

CONSTANTS
  Limit,       \* messages per read (MAX_READ_LIMIT)
  Burst,       \* environment: messages posted between two reads, at most
  MaxPosts,    \* bound: messages on the board
  MaxWrites    \* bound: writes of the session file

VARIABLES
  posts,         \* messages on the board; also its mtime
  writes,        \* writes of the session file; also its mtime, 0 for no file
  pc,            \* where the generator is in its loop
  boardMtime,    \* mtimes it has noted (Never: none)
  sessionMtime,
  since,         \* id of the last message it sent, 0 before the first
  lastRead,      \* messages on the board when it was last read
  sent,          \* ids of the messages it sent
  sessionSent,   \* the write of the session file it sent last
  failed         \* the write of it whose reading failed last

vars == <<posts, writes, pc, boardMtime, sessionMtime, since, lastRead, sent, sessionSent, failed>>

Never == MaxPosts + MaxWrites + 1

Init ==
  /\ posts \in 0..Burst /\ writes \in 0..1
  /\ pc = "board"
  /\ boardMtime = Never /\ sessionMtime = Never
  /\ since = 0 /\ lastRead = 0
  /\ sent = <<>> /\ sessionSent = 0 /\ failed = 0

Post ==
  /\ posts < MaxPosts /\ posts - lastRead < Burst
  /\ posts' = posts + 1
  /\ UNCHANGED <<writes, pc, boardMtime, sessionMtime, since, lastRead, sent, sessionSent, failed>>

WriteSession ==
  /\ writes < MaxWrites
  /\ writes' = writes + 1
  /\ UNCHANGED <<posts, pc, boardMtime, sessionMtime, since, lastRead, sent, sessionSent, failed>>

-----------------------------------------------------------------------------
(* The loop of _council_stream_events.                                     *)

StatBoard ==
  /\ pc = "board"
  /\ boardMtime' = posts
  /\ pc' = IF posts = boardMtime THEN "session" ELSE "messages"
  /\ UNCHANGED <<posts, writes, sessionMtime, since, lastRead, sent, sessionSent, failed>>

\* Mutant of Answered: the limit counts the last message sent, too.
AnsweredOneLess(i) ==
  /\ i \in (since + 1)..posts
  /\ IF since = 0 THEN i > posts - Limit ELSE i < since + Limit

\* read_messages: the newest messages if nothing was sent yet, else the oldest new.
Answered(i) ==
  /\ i \in (since + 1)..posts
  /\ IF since = 0 THEN i > posts - Limit ELSE i <= since + Limit

ReadMessages ==
  /\ pc = "messages"
  /\ lastRead' = posts
  /\ sent' = sent \o SelectSeq([i \in 1..posts |-> i], Answered)
  /\ since' = IF sent' = <<>> THEN 0 ELSE sent'[Len(sent')]
  /\ pc' = "session"
  /\ UNCHANGED <<posts, writes, boardMtime, sessionMtime, sessionSent, failed>>

\* The new mtime is noted before the file is read.
StatSession ==
  /\ pc = "session"
  /\ sessionMtime' = writes
  /\ pc' = IF writes = sessionMtime \/ writes = 0 THEN "board" ELSE "read"
  /\ UNCHANGED <<posts, writes, boardMtime, since, lastRead, sent, sessionSent, failed>>

ReadSession ==
  /\ pc = "read"
  /\ sessionSent' = writes
  /\ pc' = "board"
  /\ UNCHANGED <<posts, writes, boardMtime, sessionMtime, since, lastRead, sent, failed>>

\* CouncilSessionError: logged, and the loop goes on.
ReadSessionFails ==
  /\ pc = "read"
  /\ failed' = writes
  /\ pc' = "board"
  /\ UNCHANGED <<posts, writes, boardMtime, sessionMtime, since, lastRead, sent, sessionSent>>

Poll == StatBoard \/ ReadMessages \/ StatSession \/ ReadSession
Next == Post \/ WriteSession \/ Poll \/ ReadSessionFails

Spec == Init /\ [][Next]_vars

\* The generator goes on; that a read keeps failing is possible, not owed.
FairSpec == Spec /\ WF_vars(Poll)

-----------------------------------------------------------------------------
(* Properties.                                                             *)

\* Every message posted after the connection has sent one is sent, if no more
\* than a read returns are posted between two reads.
EveryMessageSent ==
  \A n \in 1..MaxPosts : (since > 0 /\ posts >= n) ~> (since >= n)

\* The stream does not stop before the last state of the session, unless its
\* reading of that state failed.
SessionStateSent ==
  \A v \in 1..MaxWrites : (writes = v) ~> (sessionSent >= v \/ failed >= v)

\* A client that stays connected catches up with the board and with the session
\* (council/api.py, _council_stream_events).
StreamCatchesUp == EveryMessageSent /\ SessionStateSent
=============================================================================
