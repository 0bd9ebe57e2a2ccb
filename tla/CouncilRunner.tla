---------------------------- MODULE CouncilRunner ----------------------------
(***************************************************************************)
(* One council runner process from the moment its SIGTERM handler is       *)
(* installed (council/runner.py): the main thread that drives the rounds   *)
(* and the synthesis, the worker threads of the parallel first round, the  *)
(* member CLIs it spawns, the signal handler that interrupts the main      *)
(* thread, and the one thing outside that touches the session meanwhile, a *)
(* cancel request of the daemon (council/api.py).                          *)
(*                                                                         *)
(* A turn's answer is not modelled, only that there is one: the board is   *)
(* the sequence of <<member, round>> pairs posted to the session's thread, *)
(* and a message id is a position in it.  Prompts, logs and recalled       *)
(* memory carry no control.                                                *)
(***************************************************************************)
EXTENDS Naturals, Sequences, FiniteSets

CONSTANTS
  Roster,       \* the session's members, in order
  Rounds,       \* the session's number of deliberation rounds
  Spokesperson, \* the member that synthesises first
  Nobody,       \* no thread holds _ACTIVE_PROCESS_LOCK
  IoFaults      \* may a file operation of the main thread raise?

Members == {Roster[i] : i \in DOMAIN Roster}

ASSUME RosterAssumption ==
  /\ Roster \in Seq(Members)
  /\ \A i, j \in DOMAIN Roster : Roster[i] = Roster[j] => i = j
ASSUME RoundsAssumption == Rounds \in Nat \ {0}
ASSUME SpokespersonAssumption == Spokesperson \in Members
ASSUME NobodyAssumption == Nobody \notin Members
ASSUME IoFaultsAssumption == IoFaults \in BOOLEAN

\* Mutant of SynthesisRound: the synthesis is filed under the last round.
LastRound == Rounds

SynthesisRound == Rounds + 1

VARIABLES
  disk,         \* the session file: [status, turns, record]
  mem,          \* the copy the main thread works on, same shape
  caller,       \* run_council_session's copy while _run_synthesis works on its own
  locked,       \* is the project's session lock held by the main thread?
  board,        \* messages posted to the session's thread
  records,      \* how many records the daemon has created for this session
  main,         \* where the main thread is
  phase,        \* what the turns in progress are for
  round,        \* the round in progress
  participants, \* members that can speak, in roster order
  batch,        \* turns about to be merged into the session file
  attempted,    \* members the synthesis was already asked of
  turn,         \* member -> where the thread running its turn is
  result,       \* member -> how its turn of this phase ended: [result, msg]
  child,        \* member -> state of the CLI process of its last turn
  registered,   \* members whose process group is in _ACTIVE_PGIDS
  activeLock,   \* thread (named by its member) holding _ACTIVE_PROCESS_LOCK
  signal,       \* SIGTERM: none, sent, kill, cancel, raised
  api,          \* where the cancel request is
  apiCopy       \* the session file as the cancel request read it

session == <<disk, mem, caller, locked>>
outside == <<board, records>>
control == <<main, phase, round, participants, batch, attempted>>
turns == <<turn, result, child, registered, activeLock>>
canceller == <<api, apiCopy>>
vars == <<disk, mem, caller, locked, board, records, main, phase, round, participants,
          batch, attempted, turn, result, child, registered, activeLock,
          signal, api, apiCopy>>

TurnResult == {"done", "failed", "timeout", "cancelled", "skipped"}
Turn == [round : 1..SynthesisRound, member : Members, result : TurnResult, msg : Nat]
File == [status : {"pending", "running", "converged", "failed", "cancelled"},
         turns : Seq(Turn), record : BOOLEAN]
NoResult == [result |-> "none", msg |-> 0]

Gone == {"exited", "killed"}
MainRuns == main \notin Gone /\ signal \in {"none", "sent"}

-----------------------------------------------------------------------------
(* Turns and their merge into the session file.                            *)

\* Mutant of SameKey: one turn per member, whatever the round.
SameMember(t, u) == t.member = u.member

SameKey(t, u) == t.round = u.round /\ t.member = u.member

\* The k-th smallest of a set of positions, and what is at these positions of a
\* list, in their order: a list comprehension with a condition.
Nth(K, k) == CHOOSE p \in K : Cardinality({q \in K : q <= p}) = k
AtPositions(s, K) == [k \in 1..Cardinality(K) |-> s[Nth(K, k)]]

\* _dedupe_turns: one turn per (round, member); the newest state wins, at the
\* position of the first.
FirstOfKey(ts) == {i \in DOMAIN ts : \A j \in 1..(i - 1) : ~SameKey(ts[j], ts[i])}
LatestOfKey(ts, i) ==
  ts[CHOOSE j \in DOMAIN ts : /\ SameKey(ts[j], ts[i])
                              /\ \A k \in (j + 1)..Len(ts) : ~SameKey(ts[k], ts[i])]
Dedupe(ts) == AtPositions([i \in DOMAIN ts |-> LatestOfKey(ts, i)], FirstOfKey(ts))

\* _persist_turns' _merge: a cancelled session takes cancelled turns only.
Merge(file, new) ==
  LET kept == IF file.status = "cancelled"
                THEN AtPositions(new, {i \in DOMAIN new : new[i].result = "cancelled"})
                ELSE new
  IN IF kept = <<>> THEN file ELSE [file EXCEPT !.turns = Dedupe(file.turns \o kept)]

\* Mutant of AnyDone: a turn counts however it ended.
AnyTurn(ts) == ts # <<>>

AnyDone(ts) == \E i \in DOMAIN ts : ts[i].result = "done"

IsParticipant(m) == \E i \in DOMAIN participants : participants[i] = m

\* The members with one fate, in the order of the roster.
Share(fate, f) == AtPositions(Roster, {i \in DOMAIN Roster : fate[Roster[i]] = f})

\* The turns that ended, in the order of the participants.
RoundTurns(rnd) ==
  LET ended == {i \in DOMAIN participants : result[participants[i]].result # "none"}
      speakers == AtPositions(participants, ended)
  IN [i \in DOMAIN speakers |->
       [round |-> rnd, member |-> speakers[i],
        result |-> result[speakers[i]].result, msg |-> result[speakers[i]].msg]]

SkippedTurns(ms, rnd) ==
  [i \in DOMAIN ms |-> [round |-> rnd, member |-> ms[i], result |-> "skipped", msg |-> 0]]

\* Every participant, for every round from first to the last.
RemainingTurns(first) ==
  LET n == Len(participants)
  IN [k \in 1..(n * (Rounds + 1 - first)) |->
       [round |-> first + ((k - 1) \div n), member |-> participants[((k - 1) % n) + 1],
        result |-> "skipped", msg |-> 0]]

-----------------------------------------------------------------------------
Init ==
  /\ disk \in [status : {"pending", "cancelled"}, turns : {<<>>}, record : {FALSE}]
  /\ mem = [status |-> "pending", turns |-> <<>>, record |-> FALSE]
  /\ caller = mem
  /\ locked = FALSE
  /\ board = <<>>
  /\ records = 0
  /\ main = "start"
  /\ phase = "build"
  /\ round = 0
  /\ participants = <<>>
  /\ batch = <<>>
  /\ attempted = {}
  /\ turn = [m \in Members |-> "off"]
  /\ result = [m \in Members |-> NoResult]
  /\ child = [m \in Members |-> "none"]
  /\ registered = {}
  /\ activeLock = Nobody
  /\ signal = "none"
  /\ api = "idle"
  /\ apiCopy = disk

-----------------------------------------------------------------------------
(* The main thread.  A write of the session file takes two steps: the lock *)
(* is acquired, then the file is read, changed, written and released.      *)

LockSession ==
  /\ MainRuns /\ ~locked
  /\ \/ main \in {"start", "finalize"}
     \/ main = "persist" /\ batch # <<>>
  /\ locked' = TRUE
  /\ UNCHANGED <<disk, mem, caller, outside, control, turns, signal, canceller>>

\* _start_session; a session cancelled before it started ends here.
Start ==
  /\ MainRuns /\ main = "start" /\ locked
  /\ locked' = FALSE
  /\ IF disk.status = "cancelled"
       THEN /\ main' = "exit"
            /\ mem' = disk
            /\ UNCHANGED disk
       ELSE /\ main' = "build"
            /\ disk' = [disk EXCEPT !.status = "running"]
            /\ mem' = disk'
  /\ UNCHANGED <<caller, outside, phase, round, participants, batch, attempted, turns, signal, canceller>>

\* _build_participants: a member the project's config no longer has, or has
\* disabled, is dropped; one without its CLI is recorded as skipped.
BuildParticipants ==
  /\ MainRuns /\ main = "build"
  /\ \E fate \in [Members -> {"speaks", "skipped", "dropped"}] :
       /\ participants' = Share(fate, "speaks")
       /\ batch' = SkippedTurns(Share(fate, "skipped"), 1)
  /\ main' = "persist"
  /\ UNCHANGED <<session, outside, phase, round, attempted, turns, signal, canceller>>

Fail == mem' = [mem EXCEPT !.status = "failed"] /\ main' = "finalize"

ClearTurns ==
  /\ turn' = [m \in Members |-> "off"]
  /\ result' = [m \in Members |-> NoResult]

\* What the caller of _persist_turns does with the session it returns.
AfterPersist(file) ==
  LET synthesised == AnyDone(batch)
  IN CASE file.status = "cancelled" ->
            mem' = file /\ main' = "finalize" /\ UNCHANGED <<phase, round>>
       [] file.status # "cancelled" /\ phase = "build" ->
            IF participants = <<>>
              THEN mem' = [file EXCEPT !.status = "failed"] /\ main' = "finalize"
                   /\ UNCHANGED <<phase, round>>
              ELSE mem' = file /\ main' = "head" /\ round' = 1 /\ UNCHANGED phase
       [] file.status # "cancelled" /\ phase = "round" ->
            IF ~AnyDone(batch)
              THEN mem' = [file EXCEPT !.status = "failed"] /\ main' = "finalize"
                   /\ UNCHANGED <<phase, round>>
              ELSE mem' = file /\ main' = "head" /\ round' = round + 1 /\ UNCHANGED phase
       [] file.status # "cancelled" /\ phase = "skip" ->
            /\ mem' = IF AnyDone(file.turns) THEN file ELSE [file EXCEPT !.status = "failed"]
            /\ main' = IF AnyDone(file.turns) THEN "synthesis" ELSE "finalize"
            /\ UNCHANGED <<phase, round>>
       [] file.status # "cancelled" /\ phase = "primary" ->
            /\ mem' = file
            /\ main' = IF synthesised THEN "record" ELSE "fallback"
            /\ UNCHANGED <<phase, round>>
       [] file.status # "cancelled" /\ phase = "fallback" ->
            /\ mem' = IF synthesised THEN file ELSE [file EXCEPT !.status = "failed"]
            /\ main' = IF synthesised THEN "record" ELSE "finalize"
            /\ UNCHANGED <<phase, round>>

\* _persist_turns: nothing to add, nothing read or written.
PersistNothing ==
  /\ MainRuns /\ main = "persist" /\ batch = <<>>
  /\ AfterPersist(mem)
  /\ UNCHANGED <<disk, caller, locked, outside, participants, batch, attempted, turns, signal, canceller>>

PersistTurns ==
  /\ MainRuns /\ main = "persist" /\ batch # <<>> /\ locked
  /\ locked' = FALSE
  /\ disk' = Merge(disk, batch)
  /\ AfterPersist(disk')
  /\ batch' = <<>>
  /\ ClearTurns
  /\ UNCHANGED <<caller, outside, participants, attempted, child, registered, activeLock, signal, canceller>>

\* Top of the round loop, and the check after the last round.
SeeCancelled ==
  /\ MainRuns /\ main = "head"
  /\ disk.status = "cancelled"
  /\ main' = "finalize"
  /\ UNCHANGED <<session, outside, phase, round, participants, batch, attempted, turns, signal, canceller>>

\* MAX_SESSION_SECONDS have passed since the session was created.
WallClockExceeded ==
  /\ MainRuns /\ main = "head" /\ round <= Rounds
  /\ disk.status # "cancelled"
  /\ batch' = RemainingTurns(round)
  /\ phase' = "skip"
  /\ main' = "persist"
  /\ UNCHANGED <<session, outside, round, participants, attempted, turns, signal, canceller>>

BeginRound ==
  /\ MainRuns /\ main = "head" /\ round <= Rounds
  /\ disk.status # "cancelled"
  /\ phase' = "round"
  /\ main' = "turns"
  /\ IF round = 1 THEN turn' = [m \in Members |-> IF IsParticipant(m) THEN "spawn" ELSE "off"]
                  ELSE UNCHANGED turn
  /\ UNCHANGED <<session, outside, round, participants, batch, attempted,
                 result, child, registered, activeLock, signal, canceller>>

RoundsOver ==
  /\ MainRuns /\ main = "head" /\ round > Rounds
  /\ disk.status # "cancelled"
  /\ main' = "synthesis"
  /\ UNCHANGED <<session, outside, phase, round, participants, batch, attempted, turns, signal, canceller>>

\* Later rounds run on the main thread, one participant after the other, each
\* only after a look at the session file.
NextSpeaker ==
  /\ MainRuns /\ main = "turns" /\ phase = "round" /\ round > 1
  /\ disk.status # "cancelled"
  /\ \E i \in DOMAIN participants :
       /\ \A j \in 1..(i - 1) : turn[participants[j]] = "over"
       /\ turn[participants[i]] = "off"
       /\ turn' = [turn EXCEPT ![participants[i]] = "spawn"]
  /\ UNCHANGED <<session, outside, control, result, child, registered, activeLock, signal, canceller>>

\* Threads joined, the last speaker done, or the sequential round broken off.
CollectTurns ==
  /\ MainRuns /\ main = "turns"
  /\ \A m \in Members : turn[m] \in {"off", "over"}
  /\ \/ \A i \in DOMAIN participants : turn[participants[i]] = "over"
     \/ phase \in {"primary", "fallback"}
     \/ phase = "round" /\ round > 1 /\ disk.status = "cancelled"
  /\ batch' = RoundTurns(IF phase = "round" THEN round ELSE SynthesisRound)
  /\ main' = "persist"
  /\ UNCHANGED <<session, outside, phase, round, participants, attempted, turns, signal, canceller>>

\* _run_synthesis, whose session is a local from here on: the spokesperson, if
\* it can speak ...
AskSpokesperson ==
  /\ MainRuns /\ main = "synthesis"
  /\ IF IsParticipant(Spokesperson)
       THEN /\ phase' = "primary"
            /\ attempted' = {Spokesperson}
            /\ turn' = [turn EXCEPT ![Spokesperson] = "spawn"]
            /\ main' = "turns"
       ELSE /\ main' = "fallback"
            /\ UNCHANGED <<phase, attempted, turn>>
  /\ caller' = mem
  /\ UNCHANGED <<disk, mem, locked, outside, round, participants, batch,
                 result, child, registered, activeLock, signal, canceller>>

\* ... else the first member that ever answered and was not asked yet.
FirstResponder(m) ==
  \E i \in DOMAIN mem.turns :
    /\ mem.turns[i].member = m /\ mem.turns[i].result = "done" /\ m \notin attempted
    /\ \A j \in 1..(i - 1) : mem.turns[j].result = "done" => mem.turns[j].member \in attempted

AskFallback ==
  /\ MainRuns /\ main = "fallback"
  /\ \/ \E m \in Members :
          /\ FirstResponder(m) /\ IsParticipant(m)
          /\ phase' = "fallback"
          /\ attempted' = attempted \cup {m}
          /\ turn' = [turn EXCEPT ![m] = "spawn"]
          /\ main' = "turns"
          /\ UNCHANGED mem
     \/ /\ \A m \in Members : ~(FirstResponder(m) /\ IsParticipant(m))
        /\ Fail
        /\ UNCHANGED <<phase, attempted, turn>>
  /\ UNCHANGED <<disk, caller, locked, outside, round, participants, batch,
                 result, child, registered, activeLock, signal, canceller>>

\* _write_decision_record: the daemon may create the record and the answer
\* still be lost; the session converges either way.  It fails if the message of
\* the synthesis is not found on the board again, or is blank.
WriteRecord ==
  /\ MainRuns /\ main = "record"
  /\ \/ \E created, answered \in BOOLEAN :
          /\ answered => created
          /\ records' = IF created THEN records + 1 ELSE records
          /\ mem' = [mem EXCEPT !.status = "converged", !.record = answered]
          /\ main' = "finalize"
     \/ Fail /\ UNCHANGED records
  /\ UNCHANGED <<disk, caller, locked, board, phase, round, participants, batch, attempted, turns, signal, canceller>>

\* Mutant of Finalize: the verdict overwrites a cancellation.
FinalizeBlindly ==
  /\ MainRuns /\ main = "finalize" /\ locked
  /\ locked' = FALSE
  /\ disk' = mem
  /\ main' = "exit"
  /\ UNCHANGED <<mem, caller, outside, phase, round, participants, batch, attempted, turns, signal, canceller>>

\* _finalize_session.
Finalize ==
  /\ MainRuns /\ main = "finalize" /\ locked
  /\ locked' = FALSE
  /\ disk' = IF disk.status = "cancelled" THEN disk ELSE mem
  /\ main' = "exit"
  /\ UNCHANGED <<mem, caller, outside, phase, round, participants, batch, attempted, turns, signal, canceller>>

\* The interpreter waits for the worker threads.
Exit ==
  /\ main = "exit" /\ signal \in {"none", "sent", "raised"}
  /\ \A m \in Members : turn[m] \in {"off", "over"}
  /\ main' = "exited"
  /\ UNCHANGED <<session, outside, phase, round, participants, batch, attempted, turns, signal, canceller>>

\* The session of run_council_session's except and finally clauses: what
\* _run_synthesis merged since its call is lost to them.
OuterSession == IF phase \in {"primary", "fallback"} THEN caller ELSE mem

\* A file operation raises: caught by run_council_session's except clause,
\* or, before its try and inside its finally, by nobody.
Raise ==
  /\ IoFaults /\ MainRuns
  /\ \/ /\ main \in {"build", "persist", "head", "synthesis", "fallback", "record"}
        /\ mem' = [OuterSession EXCEPT !.status = "failed"]
        /\ main' = "finalize"
     \/ /\ main \in {"start", "finalize"}
        /\ main' = "exit"
        /\ UNCHANGED mem
  /\ locked' = FALSE
  /\ UNCHANGED <<disk, caller, outside, phase, round, participants, batch, attempted, turns, signal, canceller>>

-----------------------------------------------------------------------------
(* A turn (_run_single_turn): on a worker thread in the first round, on    *)
(* the main thread afterwards.                                             *)

OnWorker == phase = "round" /\ round = 1

TurnRuns(m) == IF OnWorker THEN main \notin Gone ELSE MainRuns

EndTurn(m, r, msg) ==
  /\ turn' = [turn EXCEPT ![m] = "over"]
  /\ result' = [result EXCEPT ![m] = [result |-> r, msg |-> msg]]

Spawn(m) ==
  /\ TurnRuns(m) /\ turn[m] = "spawn"
  /\ turn' = [turn EXCEPT ![m] = "register"]
  /\ child' = [child EXCEPT ![m] = "alive"]
  /\ UNCHANGED <<session, outside, control, result, registered, activeLock, signal, canceller>>

\* The prompt cannot be written or Popen raises.
SpawnFails(m) ==
  /\ TurnRuns(m) /\ turn[m] = "spawn"
  /\ EndTurn(m, "failed", 0)
  /\ UNCHANGED <<session, outside, control, child, registered, activeLock, signal, canceller>>

TakeActiveLock(m) ==
  /\ TurnRuns(m) /\ turn[m] \in {"register", "unregister"}
  /\ activeLock = Nobody
  /\ activeLock' = m
  /\ UNCHANGED <<session, outside, control, turn, result, child, registered, signal, canceller>>

Register(m) ==
  /\ TurnRuns(m) /\ turn[m] = "register" /\ activeLock = m
  /\ registered' = registered \cup {m}
  /\ activeLock' = Nobody
  /\ turn' = [turn EXCEPT ![m] = "wait"]
  /\ UNCHANGED <<session, outside, control, result, child, signal, canceller>>

\* proc.wait returned.
SeeExit(m) ==
  /\ TurnRuns(m) /\ turn[m] = "wait" /\ child[m] # "alive"
  /\ turn' = [turn EXCEPT ![m] = "unregister"]
  /\ UNCHANGED <<session, outside, control, result, child, registered, activeLock, signal, canceller>>

\* Mutant of StopChild: the turn ends and its process group is left alone.
LeaveChild(m, why) ==
  /\ TurnRuns(m) /\ turn[m] = "wait" /\ child[m] = "alive"
  /\ result' = [result EXCEPT ![m].result = why]
  /\ turn' = [turn EXCEPT ![m] = "unregister"]
  /\ UNCHANGED <<session, outside, control, child, registered, activeLock, signal, canceller>>

\* A poll slice ended and the session file says cancelled, or the turn's
\* time is up: the process group is killed.
StopChild(m, why) ==
  /\ TurnRuns(m) /\ turn[m] = "wait" /\ child[m] = "alive"
  /\ child' = [child EXCEPT ![m] = "killed"]
  /\ result' = [result EXCEPT ![m].result = why]
  /\ turn' = [turn EXCEPT ![m] = "unregister"]
  /\ UNCHANGED <<session, outside, control, registered, activeLock, signal, canceller>>

SeeCancel(m) == disk.status = "cancelled" /\ StopChild(m, "cancelled")

TurnTimesOut(m) == StopChild(m, "timeout")

\* The finally clause, then the verdict on the process.
Unregister(m) ==
  /\ TurnRuns(m) /\ turn[m] = "unregister" /\ activeLock = m
  /\ registered' = registered \ {m}
  /\ activeLock' = Nobody
  /\ IF child[m] = "answered"
       THEN turn' = [turn EXCEPT ![m] = "answer"] /\ UNCHANGED result
       ELSE EndTurn(m, IF result[m].result = "none" THEN "failed" ELSE result[m].result, 0)
  /\ UNCHANGED <<session, outside, control, child, signal, canceller>>

\* Mutant of PostAnswer: the message's id is taken before it is appended.
PostAnswerStaleId(m) ==
  /\ TurnRuns(m) /\ turn[m] = "answer"
  /\ board' = Append(board, <<m, IF phase = "round" THEN round ELSE SynthesisRound>>)
  /\ EndTurn(m, "done", Len(board))
  /\ UNCHANGED <<session, records, control, child, registered, activeLock, signal, canceller>>

\* append_message, then done with the message's id; it raises for an answer
\* past the board's size limit.
PostAnswer(m) ==
  /\ TurnRuns(m) /\ turn[m] = "answer"
  /\ \/ /\ board' = Append(board, <<m, IF phase = "round" THEN round ELSE SynthesisRound>>)
        /\ EndTurn(m, "done", Len(board'))
     \/ /\ EndTurn(m, "failed", 0)
        /\ UNCHANGED board
  /\ UNCHANGED <<session, records, control, child, registered, activeLock, signal, canceller>>

\* The CLI exits by itself: with an answer, or with an error status, no
\* output, or the text of a CLI error.
ChildExits(m) ==
  /\ child[m] = "alive"
  /\ child' \in {[child EXCEPT ![m] = c] : c \in {"answered", "broken"}}
  /\ UNCHANGED <<session, outside, control, turn, result, registered, activeLock, signal, canceller>>

-----------------------------------------------------------------------------
(* SIGTERM: Python runs the handler on the main thread, between any two of *)
(* its steps, so whatever that thread holds stays held.                    *)

HandlerStarts ==
  /\ signal = "sent" /\ main \notin Gone
  /\ signal' = "kill"
  /\ UNCHANGED <<session, outside, control, turns, canceller>>

\* _kill_all_active_process_groups.
HandlerKills ==
  /\ signal = "kill" /\ main \notin Gone
  /\ activeLock = Nobody
  /\ child' = [m \in Members |-> IF m \in registered /\ child[m] = "alive" THEN "killed" ELSE child[m]]
  /\ registered' = {}
  /\ signal' = "cancel"
  /\ UNCHANGED <<session, outside, control, turn, result, activeLock, canceller>>

\* The rest of _cancel_running_session: its own open of the lock file, so it
\* waits for a lock the interrupted main thread holds.
HandlerCancels ==
  /\ signal = "cancel" /\ main \notin Gone
  /\ ~locked
  /\ disk' = [disk EXCEPT !.status = "cancelled"]
  /\ signal' = "raised"
  /\ main' = IF main \in {"start", "finalize", "exit"} THEN "exit" ELSE "unwind"
  /\ UNCHANGED <<mem, caller, locked, outside, phase, round, participants, batch, attempted, turns, canceller>>

\* SystemExit leaves a turn on the main thread unfinished, and finalize finds
\* the session cancelled.
Unwind ==
  /\ main = "unwind" /\ signal = "raised" /\ ~locked
  /\ main' = "exit"
  /\ IF OnWorker THEN UNCHANGED <<turn, registered>>
                 ELSE /\ turn' = [m \in Members |-> IF turn[m] = "off" THEN "off" ELSE "over"]
                      /\ registered' = {}
  /\ disk' = IF disk.status = "cancelled" THEN disk ELSE OuterSession
  /\ UNCHANGED <<mem, caller, locked, outside, phase, round, participants, batch, attempted,
                 result, child, activeLock, signal, canceller>>

-----------------------------------------------------------------------------
(* POST .../cancel, for this session.                                      *)

ReadForCancel ==
  /\ api = "idle"
  /\ disk.status \in {"pending", "running"}
  /\ apiCopy' = disk
  /\ api' = "signal"
  /\ UNCHANGED <<session, outside, control, turns, signal>>

SendSigterm ==
  /\ api = "signal" /\ main \notin Gone
  /\ signal' = IF signal = "none" THEN "sent" ELSE signal
  /\ api' = "wait"
  /\ UNCHANGED <<session, outside, control, turns, apiCopy>>

\* The runner is gone already, or the daemon has neither handle nor pid.
SendNothing ==
  /\ api = "signal"
  /\ api' = "write"
  /\ UNCHANGED <<session, outside, control, turns, signal, apiCopy>>

SeeRunnerGone ==
  /\ api = "wait" /\ main \in Gone
  /\ api' = "write"
  /\ UNCHANGED <<session, outside, control, turns, signal, apiCopy>>

\* Mutant of KillRunner: after the grace period the request just goes on.
GiveUpOnRunner ==
  /\ api = "wait" /\ main \notin Gone
  /\ api' = "write"
  /\ UNCHANGED <<session, outside, control, turns, signal, apiCopy>>

\* Mutant of KillRunner: a killed runner is taken to have cancelled.
KillRunnerOnly ==
  /\ api = "wait" /\ main \notin Gone
  /\ main' = "killed"
  /\ turn' = [m \in Members |-> IF turn[m] = "off" THEN "off" ELSE "over"]
  /\ registered' = {}
  /\ activeLock' = Nobody
  /\ locked' = FALSE
  /\ api' = "done"
  /\ UNCHANGED <<disk, mem, caller, outside, phase, round, participants, batch, attempted,
                 result, child, signal, apiCopy>>

\* CANCEL_GRACE_SECONDS passed: SIGKILL to the runner's own group.  The CLIs
\* run in sessions of their own and survive it.
KillRunner ==
  /\ api = "wait" /\ main \notin Gone
  /\ main' = "killed"
  /\ turn' = [m \in Members |-> IF turn[m] = "off" THEN "off" ELSE "over"]
  /\ registered' = {}
  /\ activeLock' = Nobody
  /\ locked' = FALSE
  /\ api' = "write"
  /\ UNCHANGED <<disk, mem, caller, outside, phase, round, participants, batch, attempted,
                 result, child, signal, apiCopy>>

WriteCancelled ==
  /\ api = "write" /\ ~locked
  /\ disk' = [apiCopy EXCEPT !.status = "cancelled"]
  /\ api' = "done"
  /\ UNCHANGED <<mem, caller, locked, outside, control, turns, signal, apiCopy>>

-----------------------------------------------------------------------------
MainStep ==
  \/ LockSession \/ Start \/ BuildParticipants \/ PersistNothing \/ PersistTurns
  \/ SeeCancelled \/ WallClockExceeded \/ BeginRound \/ RoundsOver
  \/ NextSpeaker \/ CollectTurns \/ AskSpokesperson \/ AskFallback
  \/ WriteRecord \/ Finalize \/ Exit

TurnStep(m) ==
  \/ Spawn(m) \/ SpawnFails(m) \/ TakeActiveLock(m) \/ Register(m) \/ SeeExit(m)
  \/ SeeCancel(m) \/ TurnTimesOut(m) \/ Unregister(m) \/ PostAnswer(m)

HandlerStep == HandlerStarts \/ HandlerKills \/ HandlerCancels \/ Unwind

ApiStep == SendSigterm \/ SendNothing \/ SeeRunnerGone \/ KillRunner \/ WriteCancelled

Next ==
  \/ MainStep \/ Raise
  \/ \E m \in Members : TurnStep(m) \/ ChildExits(m)
  \/ HandlerStep
  \/ ReadForCancel \/ ApiStep

Spec == Init /\ [][Next]_vars

\* Threads of the runner and the request that cancels are scheduled; a wait
\* on a CLI ends at the latest with the turn's timeout.  Nobody has to cancel
\* and no CLI has to exit by itself.
Fairness ==
  /\ WF_vars(MainStep)
  /\ \A m \in Members : WF_vars(TurnStep(m))
  /\ WF_vars(HandlerStep)
  /\ WF_vars(ApiStep)

FairSpec == Spec /\ Fairness

-----------------------------------------------------------------------------
\* The values the variables take.
TypeOK ==
  /\ disk \in File /\ mem \in File /\ caller \in File /\ apiCopy \in File
  /\ locked \in BOOLEAN
  /\ board \in Seq(Members \X (1..SynthesisRound))
  /\ records \in Nat
  /\ main \in {"start", "build", "persist", "head", "turns", "synthesis", "fallback",
              "record", "finalize", "unwind", "exit", "exited", "killed"}
  /\ phase \in {"build", "round", "skip", "primary", "fallback"}
  /\ round \in 0..SynthesisRound
  /\ participants \in Seq(Members)
  /\ batch \in Seq(Turn)
  /\ attempted \subseteq Members
  /\ turn \in [Members -> {"off", "spawn", "register", "wait", "unregister", "answer", "over"}]
  /\ result \in [Members -> [result : TurnResult \cup {"none"}, msg : Nat]]
  /\ child \in [Members -> {"none", "alive", "answered", "broken", "killed"}]
  /\ registered \subseteq Members
  /\ activeLock \in Members \cup {Nobody}
  /\ signal \in {"none", "sent", "kill", "cancel", "raised"}
  /\ api \in {"idle", "signal", "wait", "write", "done"}

\* The session file and the board agree: a turn recorded as done names a
\* message of that member in that round, and no member has two turns in a
\* round, whatever was merged, cancelled or overwritten in between.
TurnsMatchBoard ==
  /\ \A i \in DOMAIN disk.turns :
       LET t == disk.turns[i]
       IN t.result = "done" => t.msg \in DOMAIN board /\ board[t.msg] = <<t.member, t.round>>
  /\ \A i, j \in DOMAIN disk.turns : SameKey(disk.turns[i], disk.turns[j]) => i = j

\* "The runner records each member's outcome" (README.md): every answer on the
\* board of a session that ended with a verdict is a done turn of its file,
\* unless the verdict is the failure of a file operation.
EveryAnswerRecorded ==
  disk.status = "converged" \/ (disk.status = "failed" /\ ~IoFaults) =>
    \A k \in DOMAIN board : \E i \in DOMAIN disk.turns :
      disk.turns[i].result = "done" /\ disk.turns[i].msg = k

\* "writes the final synthesis as a proposed record only when it can produce
\* one" (README.md): one record at most, only with a synthesis on the board,
\* and a converged session names a record only if the daemon has it.
RecordNeedsSynthesis ==
  /\ records <= 1
  /\ records = 1 \/ disk.status = "converged" =>
       \E k \in DOMAIN board : board[k][2] = SynthesisRound
  /\ disk.record => records = 1 /\ disk.status \in {"converged", "cancelled"}

\* A runner that ends by itself leaves no member CLI behind.
NoChildSurvivesNormalExit ==
  main = "exited" /\ signal # "raised" => \A m \in Members : child[m] # "alive"

\* Only a cancel request's stale copy takes deliberation turns out of the
\* session file: the runner's own writes extend what the file holds.  A file
\* operation that raises in the synthesis makes the runner take back a synthesis
\* turn it recorded, never one that a decision record was made from.
RunnerNeverDropsTurns ==
  [][api' = api =>
       \A i \in DOMAIN disk.turns :
         \/ i \in DOMAIN disk'.turns /\ disk'.turns[i] = disk.turns[i]
         \/ disk.turns[i].round = SynthesisRound /\ disk'.status = "failed" /\ records = 0]_vars

\* The session file behaves as CouncilVerdict says: answers appear round by
\* round, no agreement without a synthesis, nothing after a cancel.
Verdict == INSTANCE CouncilVerdict WITH
  status <- disk.status,
  answers <- {<<disk.turns[i].member, disk.turns[i].round>> :
                i \in {j \in DOMAIN disk.turns : disk.turns[j].result = "done"}},
  recorded <- disk.record

ImplementsVerdict == Verdict!Spec

\* The runner ends, also when its signal handler waits for a lock that the
\* interrupted main thread holds: the cancel request's grace period ends that.
RunnerEnds == <>(main \in Gone)

\* Every session reaches a verdict and keeps one.
VerdictReached == <>[](disk.status \in {"converged", "failed", "cancelled"})
=============================================================================
