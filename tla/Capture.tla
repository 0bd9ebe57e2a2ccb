-------------------------------- MODULE Capture --------------------------------
(***************************************************************************)
(* Capturing what is said: the hook processes of the host CLI, which count *)
(* the prompts of a project and signal the daemon (hooks/), and the        *)
(* daemon's extraction (daemon/services.py: prepare_extraction_input,      *)
(* trigger_extraction), which hands the messages above a watermark to an   *)
(* agent process.                                                          *)
(*                                                                         *)
(* All sessions belong to one project.  A transcript is the number of its  *)
(* spoken messages (text that is not a tool's); the agent's own work on a  *)
(* slice is not modelled, what matters is which messages agents are given. *)
(***************************************************************************)
EXTENDS Naturals, FiniteSets

CONSTANTS
  Sessions,    \* sessions of the project
  Host,        \* session -> the CLI it runs in
  Together,    \* the sets of sessions that may go on at the same time
  Interval,    \* prompts between two signals (EXTRACT_TRIGGER_INTERVAL)
  FirstRunMax, \* longest transcript a first run takes (FIRST_RUN_MAX_MESSAGES)
  Batch,       \* max_messages of a request that has one
  Faults,      \* which of "lost", "restart", "backend", "watermark", "slice",
               \* "hang" may happen
  MaxMessages, \* bound: messages of a transcript
  MaxFaults,   \* bound: faults of a behaviour, for each number of sessions in it
  MaxRequests  \* bound: requests that do not come from a hook, likewise

ASSUME HostAssumption ==
  Host \in [Sessions -> {"claude", "codex", "kimi", "grok"}] /\ {} \notin Together
  /\ Together \subseteq SUBSET Sessions
\* Session ids are UUIDs, none has the name of another host's transcripts.
ASSUME SessionAssumption == Sessions \cap {"wire", "chat_history"} = {}
ASSUME IntervalAssumption == Interval \in Nat \ {0} /\ Batch \in Nat \ {0}
\* The bound leaves room for a transcript that is too long for a first run.
ASSUME SizeAssumption == FirstRunMax \in Nat /\ MaxMessages \in Nat /\ FirstRunMax < MaxMessages

VARIABLES
  active,     \* sessions that take part in this behaviour
  written,    \* session -> messages of its transcript
  at,         \* session -> where its CLI and its hooks are
  next,       \* session -> where it goes on after a signal
  seen,       \* session -> the counter its hook read
  counter,    \* the project's message counter
  inbox,      \* requests on their way, <<session, kind>>
  lock,       \* the slice being recorded under _extraction_lock, or Free
  agent,      \* the registered agent: "none", "running", "hung", "exited"
  strays,     \* agents of this daemon that run and that its registry lost
  orphans,    \* agents of earlier daemons that run
  watermark,  \* watermark file -> its count
  given,      \* session -> message -> how often agents got it, up to 2
  baselined,  \* session -> messages a first run passed over
  excused,    \* session -> messages that may be given again
  faults,     \* faults so far
  restarts,   \* restarts of the daemon
  requests    \* requests so far that did not come from a hook

host == <<active, written, at, next, seen, counter>>
slices == <<watermark, given, baselined, excused>>
bounds == <<faults, restarts, requests>>
agents == <<agent, strays, orphans>>
vars == <<host, inbox, lock, agents, slices, bounds>>

Messages == 1..MaxMessages
Kinds == {"hook", "batch", "redo"}
Free == [of |-> "nobody", to |-> 0]

\* prepare_extraction_input names the watermark file after the transcript's
\* stem: the session's id with Claude and Codex, but all transcripts of Kimi are
\* called wire.jsonl and all of Grok chat_history.jsonl.
Stem(s) == CASE Host[s] = "kimi" -> "wire" [] Host[s] = "grok" -> "chat_history" [] OTHER -> s
Stems == {Stem(s) : s \in Sessions}
HasOwnFile(s) == Host[s] \in {"claude", "codex"}

\* A shared watermark file may hold the count of an earlier session.
Init ==
  /\ active \in Together
  /\ written \in [Sessions -> {0, FirstRunMax + 1}]
  /\ \A s \in Sessions \ active : written[s] = 0
  /\ at = [s \in Sessions |-> "user"] /\ next = [s \in Sessions |-> "user"]
  /\ seen = [s \in Sessions |-> 0] /\ counter = 0
  /\ inbox = {} /\ lock = Free /\ agent = "none" /\ strays = 0 /\ orphans = 0
  /\ watermark \in [Stems -> {0, FirstRunMax}]
  /\ \A s \in Sessions : HasOwnFile(s) \/ s \notin active => watermark[Stem(s)] = 0
  /\ given = [s \in Sessions |-> [n \in Messages |-> 0]]
  /\ baselined = [s \in Sessions |-> {}] /\ excused = [s \in Sessions |-> {}]
  /\ faults = 0 /\ restarts = 0 /\ requests = 0

May(fault) == fault \in Faults /\ faults < MaxFaults[Cardinality(active)]

-----------------------------------------------------------------------------
(* The host: a turn is a prompt, the UserPromptSubmit hook, the agent's    *)
(* replies (with a PreCompact hook now and then) and the Stop hook.        *)

Goes(s, from, to) == at[s] = from /\ at' = [at EXCEPT ![s] = to]
Says(s) == written' = [written EXCEPT ![s] = IF @ < MaxMessages THEN @ + 1 ELSE @]

\* The user's message; at the bound, a prompt that is no message (a command).
Prompt(s) ==
  /\ s \in active /\ Goes(s, "user", "read") /\ Says(s)
  /\ UNCHANGED <<active, next, seen, counter, inbox, lock, agents, slices, bounds>>

\* increment_message_counter reads the file ...
ReadCounter(s) ==
  /\ Goes(s, "read", "count")
  /\ seen' = [seen EXCEPT ![s] = counter]
  /\ UNCHANGED <<active, written, next, counter, inbox, lock, agents, slices, bounds>>

\* ... and replaces it; _advance_extraction compares with the interval (counts
\* above the interval are alike and not told apart).
WriteCounter(s) ==
  /\ Goes(s, "count", IF seen[s] + 1 < Interval THEN "agent" ELSE "signal")
  /\ next' = [next EXCEPT ![s] = IF seen[s] + 1 < Interval THEN @ ELSE "agent"]
  /\ counter' = (IF seen[s] < Interval THEN seen[s] + 1 ELSE Interval) /\ seen' = [seen EXCEPT ![s] = 0]
  /\ UNCHANGED <<active, written, inbox, lock, agents, slices, bounds>>

Reply(s) ==
  /\ Goes(s, "agent", "stop") /\ Says(s)
  /\ UNCHANGED <<active, next, seen, counter, inbox, lock, agents, slices, bounds>>

\* pre_compact signals without looking at the counter.
Compact(s) ==
  /\ Goes(s, "agent", "signal")
  /\ written[s] < MaxMessages /\ Says(s)
  /\ next' = [next EXCEPT ![s] = "agent"]
  /\ UNCHANGED <<active, seen, counter, inbox, lock, agents, slices, bounds>>

\* stop_or_session_end: nothing pending, nothing to do.
Stop(s) ==
  /\ Goes(s, "stop", IF counter = 0 THEN "user" ELSE "signal")
  /\ UNCHANGED <<active, written, next, seen, counter, inbox, lock, agents, slices, bounds>>

\* post_daemon_signal.  Whatever becomes of the request, the hook goes on.
Signal(s) ==
  /\ Goes(s, "signal", "reset")
  /\ inbox' = inbox \cup {<<s, "hook">>}
  /\ UNCHANGED <<active, written, next, seen, counter, lock, agents, slices, bounds>>

SignalLost(s) ==
  /\ May("lost") /\ Goes(s, "signal", "reset")
  /\ faults' = faults + 1
  /\ UNCHANGED <<active, written, next, seen, counter, inbox, lock, agents, slices, restarts, requests>>

ResetCounter(s) ==
  /\ Goes(s, "reset", next[s])
  /\ counter' = 0 /\ next' = [next EXCEPT ![s] = "user"]
  /\ UNCHANGED <<active, written, seen, inbox, lock, agents, slices, bounds>>

\* POST /api/extract by something else: force with max_messages, or with
\* reset_watermark.
Request(s, kind) ==
  /\ s \in active /\ kind # "hook" /\ requests < MaxRequests[Cardinality(active)]
  /\ requests' = requests + 1
  /\ inbox' = inbox \cup {<<s, kind>>}
  /\ UNCHANGED <<host, lock, agents, slices, faults, restarts>>

-----------------------------------------------------------------------------
(* The daemon: trigger_extraction for a request, under _extraction_lock.   *)

\* prepare_extraction_input: the watermark a request starts from.
Watermark(s, kind) ==
  IF kind = "redo" \/ watermark[Stem(s)] > written[s] THEN 0 ELSE watermark[Stem(s)]

\* A first run over a transcript that is too long (and not forced).
IsBaseline(s, kind) ==
  kind = "hook" /\ Watermark(s, kind) = 0 /\ written[s] > FirstRunMax

\* The last message of the slice.
SliceEnd(s, kind) ==
  LET from == Watermark(s, kind)
  IN IF kind = "batch" /\ from + Batch < written[s] THEN from + Batch ELSE written[s]

\* Mutant of Slice: the message the watermark names is taken again.
SliceFromWatermark(s, kind) ==
  {n \in Watermark(s, kind)..SliceEnd(s, kind) : n > 0 /\ Watermark(s, kind) < written[s]}

Slice(s, kind) == (Watermark(s, kind) + 1)..SliceEnd(s, kind)

\* Mutant of Busy: an agent past its deadline still counts.
BusyForEver == agent \in {"running", "hung"}

\* Mutant of Busy: the agent that runs is not asked for.
NeverBusy == FALSE

\* The project has an extraction that neither exited nor is past its deadline.
Busy == agent = "running"

\* Mutant of Prune: an agent past its deadline is forgotten and not killed.
PruneOnly ==
  IF agent = "hung" THEN [registered |-> "none", lost |-> 1]
  ELSE [registered |-> IF agent = "running" THEN agent ELSE "none", lost |-> 0]

\* _prune_finished_extractions: who is past the deadline is killed, and who is
\* dead leaves the registry.
Prune == [registered |-> IF agent = "running" THEN agent ELSE "none", lost |-> 0]

\* The new agent takes the project's place in the registry, whoever has it.
Register ==
  /\ agent' = "running" /\ UNCHANGED orphans
  /\ strays' = strays + Prune.lost + IF Prune.registered = "running" THEN 1 ELSE 0

Handles(s, kind) == lock = Free /\ <<s, kind>> \in inbox /\ inbox' = inbox \ {<<s, kind>>}
Refuses(s, kind) ==
  /\ Handles(s, kind) /\ ~Busy
  /\ agent' = Prune.registered /\ strays' = strays + Prune.lost
  /\ UNCHANGED <<host, lock, orphans>>

AlreadyRunning(s, kind) ==
  /\ Handles(s, kind) /\ Busy
  /\ UNCHANGED <<host, lock, agents, slices, bounds>>

SetBaseline(s, kind) ==
  /\ Refuses(s, kind) /\ IsBaseline(s, kind)
  /\ watermark' = [watermark EXCEPT ![Stem(s)] = written[s]]
  /\ baselined' = [baselined EXCEPT ![s] = @ \cup 1..written[s]]
  /\ UNCHANGED <<given, excused, bounds>>

NothingNew(s, kind) ==
  /\ Refuses(s, kind) /\ ~IsBaseline(s, kind) /\ Slice(s, kind) = {}
  /\ UNCHANGED <<slices, bounds>>

\* The host's CLI is missing or cannot be started.
NoBackend(s, kind) ==
  /\ May("backend") /\ Refuses(s, kind) /\ ~IsBaseline(s, kind) /\ Slice(s, kind) # {}
  /\ faults' = faults + 1
  /\ UNCHANGED <<slices, restarts, requests>>

Give(s, messages) ==
  given' = [given EXCEPT ![s] =
              [n \in Messages |-> IF n \in messages /\ @[n] < 2 THEN @[n] + 1 ELSE @[n]]]

\* The agent is started on the slice and registered ...
Start(s, kind) ==
  /\ Handles(s, kind) /\ ~Busy /\ Register
  /\ ~IsBaseline(s, kind) /\ Slice(s, kind) # {}
  /\ Give(s, Slice(s, kind))
  /\ excused' = [excused EXCEPT ![s] = IF kind = "redo" THEN @ \cup 1..written[s] ELSE @]
  /\ lock' = [of |-> s, to |-> SliceEnd(s, kind)]
  /\ UNCHANGED <<host, watermark, baselined, bounds>>

\* The slice cannot be prepared: the agent gets the whole transcript, and no
\* watermark is written.
StartWhole(s, kind) ==
  /\ May("slice") /\ Handles(s, kind) /\ ~Busy /\ Register
  /\ faults' = faults + 1
  /\ Give(s, 1..written[s])
  /\ excused' = [excused EXCEPT ![s] = @ \cup 1..written[s]]
  /\ UNCHANGED <<host, lock, watermark, baselined, restarts, requests>>

\* ... and then the watermark is written, while the transcript may grow.
RecordWatermark ==
  /\ lock # Free
  /\ watermark' = [watermark EXCEPT ![Stem(lock.of)] = lock.to]
  /\ lock' = Free
  /\ UNCHANGED <<host, inbox, agents, given, baselined, excused, bounds>>

\* What was given above the old watermark may be given again.
Unrecorded ==
  excused' = [s \in Sessions |->
                IF s = lock.of THEN excused[s] \cup 1..lock.to ELSE excused[s]]

\* Writing the watermark fails; the agent is running and stays registered.
WatermarkFails ==
  /\ May("watermark") /\ lock # Free
  /\ faults' = faults + 1
  /\ lock' = Free /\ Unrecorded
  /\ UNCHANGED <<host, inbox, agents, watermark, given, baselined, restarts, requests>>

\* Agents that run and that this daemon started.
Running == strays + IF agent \in {"running", "hung"} THEN 1 ELSE 0

\* The daemon restarts: the registry is empty, the requests are gone, and the
\* agent, which has a session of its own, goes on.
Restart ==
  /\ May("restart")
  /\ faults' = faults + 1 /\ restarts' = restarts + 1
  /\ orphans' = orphans + Running /\ strays' = 0
  /\ agent' = "none" /\ inbox' = {} /\ lock' = Free /\ Unrecorded
  /\ UNCHANGED <<host, watermark, given, baselined, requests>>

-----------------------------------------------------------------------------
(* The agents.                                                             *)

AgentExits ==
  /\ agent = "running" /\ agent' = "exited"
  /\ UNCHANGED <<host, inbox, lock, strays, orphans, slices, bounds>>

OrphanExits ==
  /\ orphans > 0 /\ orphans' = orphans - 1
  /\ UNCHANGED <<host, inbox, lock, agent, strays, slices, bounds>>

\* EXTRACTION_MAX_SECONDS go by and the agent is still there.
AgentHangs ==
  /\ May("hang") /\ agent = "running" /\ agent' = "hung"
  /\ faults' = faults + 1
  /\ UNCHANGED <<host, inbox, lock, strays, orphans, slices, restarts, requests>>

-----------------------------------------------------------------------------
Hook(s) ==
  \/ ReadCounter(s) \/ WriteCounter(s) \/ Stop(s) \/ Signal(s) \/ ResetCounter(s)
Handle(s, kind) ==
  \/ AlreadyRunning(s, kind) \/ SetBaseline(s, kind) \/ NothingNew(s, kind)
  \/ Start(s, kind)
Next ==
  \/ \E s \in Sessions :
       \/ Prompt(s) \/ Hook(s) \/ Reply(s) \/ Compact(s) \/ SignalLost(s)
       \/ \E kind \in Kinds :
            \/ Request(s, kind) \/ Handle(s, kind)
            \/ NoBackend(s, kind) \/ StartWhole(s, kind)
  \/ RecordWatermark \/ WatermarkFails \/ Restart
  \/ AgentExits \/ OrphanExits \/ AgentHangs

Spec == Init /\ [][Next]_vars

\* Hooks, request threads and agents go on (an agent that does not exit hangs),
\* the CLI answers, and the user keeps prompting.
Fairness ==
  /\ \A s \in Sessions :
       WF_vars(Prompt(s)) /\ WF_vars(Hook(s)) /\ WF_vars(Reply(s))
  /\ \A s \in Sessions : SF_vars(\E kind \in Kinds : Handle(s, kind))
  /\ WF_vars(RecordWatermark) /\ WF_vars(AgentExits)

FairSpec == Spec /\ Fairness

-----------------------------------------------------------------------------
(* Properties.                                                             *)

\* "The daemon keeps a per-session message-count watermark and processes only
\* the slice of messages added since the last run" (transcripts.py): what is
\* below a session's watermark was given to an agent or lies before its first
\* run.  Messages arrive while slices are cut and watermarks written.  The
\* watermark is the session's with Claude and Codex only: two sessions of Kimi,
\* or of Grok, share one, and it says nothing of either.
NothingSkipped ==
  \A s \in active : HasOwnFile(s) => \A n \in 1..written[s] :
    n <= watermark[Stem(s)] => given[s][n] > 0 \/ n \in baselined[s]

\* Nothing of such a session is given to agents twice, unless a watermark was
\* not written or the caller asked for it.
GivenOnce ==
  \A s \in active, n \in Messages :
    HasOwnFile(s) /\ given[s][n] = 2 => n \in excused[s]

\* A transcript is captured once: every message up to the watermark was given,
\* and none again, whatever fails on the way and whichever sessions share the
\* daemon with it (services.py, trigger_extraction).
CapturedOnce == NothingSkipped /\ GivenOnce

\* One extraction per project at a time (services.py, trigger_extraction): of
\* the agents a daemon has started at most one runs, and each restart leaves at
\* most one more behind.
OneAtATime == Running <= 1 /\ orphans <= restarts

\* A session that goes on has its messages captured, also when agents hang and
\* signals are lost.  (With a second session in the directory this is false:
\* its hooks reset the counter that is the first one's only reminder.)
MessagesCaptured ==
  (Cardinality(active) = 1 /\ \A s \in active : HasOwnFile(s) /\ written[s] = MaxMessages)
    ~> \A s \in active, n \in Messages : given[s][n] > 0 \/ n \in baselined[s]
=============================================================================
