-------------------------- MODULE CouncilLifecycle --------------------------
(***************************************************************************)
(* The life of council sessions as the daemon and the runner processes see *)
(* it: POST /api/council/sessions, GET /api/council/sessions, POST         *)
(* .../cancel (council/api.py), the session files and their project lock   *)
(* (council/session.py), and the outside of a runner process               *)
(* (council/runner.py main, start, finalize, SIGTERM handler).             *)
(*                                                                         *)
(* A request is a thread of the daemon's pool: everything it does between  *)
(* two accesses to shared state (a session file, _council_procs, a         *)
(* process) is one step, so requests and runners interleave at exactly the *)
(* points where the code lets them.  A session file is written under the   *)
(* project lock in one step; `update_session` writes a copy taken earlier, *)
(* `update_session_with` re-reads under the lock.                          *)
(*                                                                         *)
(* What the runner does between start and finalize is module               *)
(* CouncilRunner.                                                          *)
(***************************************************************************)
EXTENDS Naturals, FiniteSets

CONSTANTS
  Projects,      \* project slugs
  NoProject,     \* "no entry" in _council_procs, and a list request's project
  NoSession,     \* a request that holds no session
  Requests,      \* request threads of the daemon
  MaxSessions,   \* bound: session files per project
  Faults,        \* which of the faults below may happen
  EarlyCancel    \* may a client cancel a session whose POST has not returned?

FaultKinds == {"crash", "restart", "spawn", "ps"}

ASSUME NoProjectAssumption == NoProject \notin Projects
ASSUME MaxSessionsAssumption == MaxSessions \in Nat \ {0}
ASSUME FaultsAssumption == Faults \subseteq FaultKinds
ASSUME EarlyCancelAssumption == EarlyCancel \in BOOLEAN

Ids == 1..MaxSessions
Sessions == Projects \X Ids

ASSUME NoSessionAssumption == NoSession \notin Sessions

VARIABLES
  status,     \* session -> the "status" field of its file, "absent" if no file
  pid,        \* session -> does the file name a runner_pid and runner_pgid?
  runner,     \* session -> where its runner process is
  sigterm,    \* runners with a SIGTERM that is not handled yet
  procs,      \* _council_procs: session id -> project whose runner it holds
  pc,         \* request -> the step it is about to take
  project,    \* request -> the project it is about
  sid,        \* request -> the session id it is about (0: none yet)
  reap,       \* request -> finished launchers its prune has still to visit
  held,       \* request -> the session it holds a copy of, or waits for
  copyPid     \* request -> the pid field of that copy

files == <<status, pid>>
processes == <<runner, sigterm>>
locals == <<project, sid, reap, held, copyPid>>
vars == <<status, pid, runner, sigterm, procs, pc, project, sid, reap, held, copyPid>>

Active == {"pending", "running"}
Terminal == {"converged", "failed", "cancelled"}
Status == {"absent"} \cup Active \cup Terminal

RunnerAlive == {"boot", "misconfigured", "ready", "running"}
RunnerState == {"none", "exited"} \cup RunnerAlive

PC == {"idle", "prune", "pruneWrite", "launch", "spawn", "register",
       "cancelPop", "cancelWait", "cancelWrite"}

Subject(r) == <<project[r], sid[r]>>

\* The POST that creates s has written its file and has not returned yet.
BeingPosted(s) ==
  \E r \in Requests : pc[r] \in {"launch", "spawn", "register"} /\ Subject(r) = s

-----------------------------------------------------------------------------
Init ==
  /\ status = [s \in Sessions |-> "absent"]
  /\ pid = [s \in Sessions |-> FALSE]
  /\ runner = [s \in Sessions |-> "none"]
  /\ sigterm = {}
  /\ procs = [i \in Ids |-> NoProject]
  /\ pc = [r \in Requests |-> "idle"]
  /\ project = [r \in Requests |-> NoProject]
  /\ sid = [r \in Requests |-> 0]
  /\ reap = [r \in Requests |-> {}]
  /\ held = [r \in Requests |-> NoSession]
  /\ copyPid = [r \in Requests |-> FALSE]

\* A request ends: its locals die with its thread.
Return(r) ==
  /\ pc' = [pc EXCEPT ![r] = "idle"]
  /\ project' = [project EXCEPT ![r] = NoProject]
  /\ sid' = [sid EXCEPT ![r] = 0]
  /\ reap' = [reap EXCEPT ![r] = {}]
  /\ held' = [held EXCEPT ![r] = NoSession]
  /\ copyPid' = [copyPid EXCEPT ![r] = FALSE]

WriteFile(s, newStatus, newPid) ==
  /\ status' = [status EXCEPT ![s] = newStatus]
  /\ pid' = [pid EXCEPT ![s] = newPid]

-----------------------------------------------------------------------------
(* _prune_finished_councils: the first thing POST and GET-list do.         *)

\* Mutant of FinishedLaunchers: launchers that still run count as finished.
AllLaunchers == {i \in Ids : procs[i] # NoProject}

FinishedLaunchers ==
  {i \in Ids : procs[i] # NoProject /\ runner[<<procs[i], i>>] = "exited"}

\* Under _council_lock: collect the launchers that have exited, forget them.
Begin(r, p) ==
  /\ pc[r] = "idle"
  /\ pc' = [pc EXCEPT ![r] = "prune"]
  /\ project' = [project EXCEPT ![r] = p]
  /\ reap' = [reap EXCEPT ![r] = {<<procs[i], i>> : i \in FinishedLaunchers}]
  /\ procs' = [i \in Ids |-> IF i \in FinishedLaunchers THEN NoProject ELSE procs[i]]
  /\ UNCHANGED <<files, processes, sid, held, copyPid>>

BeginPost(r) == \E p \in Projects : Begin(r, p)

BeginList(r) == Begin(r, NoProject)

\* _mark_orphaned_session_failed, first half: read the file.
ReadOrphan(r) ==
  /\ pc[r] = "prune"
  /\ \E s \in reap[r] :
       /\ reap' = [reap EXCEPT ![r] = @ \ {s}]
       /\ IF status[s] \in Active
            THEN /\ pc' = [pc EXCEPT ![r] = "pruneWrite"]
                 /\ held' = [held EXCEPT ![r] = s]
                 /\ copyPid' = [copyPid EXCEPT ![r] = pid[s]]
            ELSE UNCHANGED <<pc, held, copyPid>>
  /\ UNCHANGED <<files, processes, procs, project, sid>>

\* Second half: write that copy back with status failed.
MarkOrphanFailed(r) ==
  /\ pc[r] = "pruneWrite"
  /\ WriteFile(held[r], "failed", copyPid[r])
  /\ pc' = [pc EXCEPT ![r] = "prune"]
  /\ held' = [held EXCEPT ![r] = NoSession]
  /\ copyPid' = [copyPid EXCEPT ![r] = FALSE]
  /\ UNCHANGED <<processes, procs, project, sid, reap>>

FinishList(r) ==
  /\ pc[r] = "prune" /\ reap[r] = {} /\ project[r] = NoProject
  /\ Return(r)
  /\ UNCHANGED <<files, processes, procs>>

-----------------------------------------------------------------------------
(* POST /api/council/sessions after the prune.                             *)

ActiveIn(p) == {i \in Ids : status[<<p, i>>] \in Active}

\* Mutant of IsNextSessionId: the id of a finished session is used again.
IsFreeSessionId(p, i) == i \notin ActiveIn(p)

\* next_session_id: one more than the highest id with a file (files are
\* never deleted, so the ids of a project are 1, 2, 3, ...).
IsNextSessionId(p, i) == \A j \in Ids : status[<<p, j>>] # "absent" <=> j < i

\* create_session: check, mint and write, all under the project lock.
CreateSession(r) ==
  /\ pc[r] = "prune" /\ reap[r] = {} /\ project[r] \in Projects
  /\ ActiveIn(project[r]) = {}
  /\ \E i \in Ids :
       /\ IsNextSessionId(project[r], i)
       /\ WriteFile(<<project[r], i>>, "pending", FALSE)
       /\ sid' = [sid EXCEPT ![r] = i]
  /\ pc' = [pc EXCEPT ![r] = "launch"]
  /\ UNCHANGED <<processes, procs, project, reap, held, copyPid>>

\* CouncilActiveSessionError, answered 409; a request past the model's bound
\* on files ends the same way.
RejectPost(r) ==
  /\ pc[r] = "prune" /\ reap[r] = {} /\ project[r] \in Projects
  /\ \/ ActiveIn(project[r]) # {}
     \/ status[<<project[r], MaxSessions>>] # "absent"
  /\ Return(r)
  /\ UNCHANGED <<files, processes, procs>>

\* The thread name is the session id: the created copy is written once more.
WriteThread(r) ==
  /\ pc[r] = "launch"
  /\ WriteFile(Subject(r), "pending", FALSE)
  /\ pc' = [pc EXCEPT ![r] = "spawn"]
  /\ UNCHANGED <<processes, procs, locals>>

SpawnRunner(r) ==
  /\ pc[r] = "spawn"
  /\ runner' = [runner EXCEPT ![Subject(r)] = "boot"]
  /\ pc' = [pc EXCEPT ![r] = "register"]
  /\ UNCHANGED <<files, sigterm, procs, locals>>

\* Popen raises (its cwd is gone, no process slot): answered 500.
SpawnFails(r) ==
  /\ "spawn" \in Faults
  /\ pc[r] = "spawn"
  /\ Return(r)
  /\ UNCHANGED <<files, processes, procs>>

\* Mutant of RegisterRunner: the handle is dropped.
ForgetRunner(r) ==
  /\ pc[r] = "register"
  /\ Return(r)
  /\ UNCHANGED <<files, processes, procs>>

RegisterRunner(r) ==
  /\ pc[r] = "register"
  /\ procs' = [procs EXCEPT ![sid[r]] = project[r]]
  /\ Return(r)
  /\ UNCHANGED <<files, processes>>

-----------------------------------------------------------------------------
(* POST /api/council/sessions/{id}/cancel.                                 *)

\* A finished session is answered 409 and nothing happens.
BeginCancel(r) ==
  /\ pc[r] = "idle"
  /\ \E s \in Sessions :
       /\ status[s] \in Active
       /\ EarlyCancel \/ ~BeingPosted(s)
       /\ project' = [project EXCEPT ![r] = s[1]]
       /\ sid' = [sid EXCEPT ![r] = s[2]]
       /\ copyPid' = [copyPid EXCEPT ![r] = pid[s]]
  /\ pc' = [pc EXCEPT ![r] = "cancelPop"]
  /\ UNCHANGED <<files, processes, procs, reap, held>>

\* _terminate_launcher / _terminate_runner_by_pgid: SIGTERM, then wait.
Signal(r, s) ==
  IF runner[s] \in RunnerAlive
    THEN /\ sigterm' = sigterm \cup {s}
         /\ held' = [held EXCEPT ![r] = s]
         /\ pc' = [pc EXCEPT ![r] = "cancelWait"]
    ELSE /\ pc' = [pc EXCEPT ![r] = "cancelWrite"]
         /\ UNCHANGED <<sigterm, held>>

\* The handle is looked up by session id alone.
PopLauncher(r) ==
  /\ pc[r] = "cancelPop"
  /\ procs[sid[r]] # NoProject
  /\ procs' = [procs EXCEPT ![sid[r]] = NoProject]
  /\ Signal(r, <<procs[sid[r]], sid[r]>>)
  /\ UNCHANGED <<files, runner, project, sid, reap, copyPid>>

\* No handle: the pid the file named when it was read, if ps knows it.
SignalByPid(r) ==
  /\ pc[r] = "cancelPop"
  /\ procs[sid[r]] = NoProject
  /\ copyPid[r]
  /\ Signal(r, Subject(r))
  /\ UNCHANGED <<files, runner, procs, project, sid, reap, copyPid>>

\* No handle and no pid, or ps failed and the pid is left alone.
NobodyToSignal(r) ==
  /\ pc[r] = "cancelPop"
  /\ procs[sid[r]] = NoProject
  /\ ~copyPid[r] \/ "ps" \in Faults
  /\ pc' = [pc EXCEPT ![r] = "cancelWrite"]
  /\ UNCHANGED <<files, processes, procs, locals>>

\* Mutant of RunnerGone: a runner that is gone is taken to have cancelled.
TrustRunnerGone(r) ==
  /\ pc[r] = "cancelWait"
  /\ runner[held[r]] = "exited"
  /\ Return(r)
  /\ UNCHANGED <<files, processes, procs>>

RunnerGone(r) ==
  /\ pc[r] = "cancelWait"
  /\ runner[held[r]] = "exited"
  /\ pc' = [pc EXCEPT ![r] = "cancelWrite"]
  /\ UNCHANGED <<files, processes, procs, locals>>

\* CANCEL_GRACE_SECONDS have passed.
ForceKill(r) ==
  /\ pc[r] = "cancelWait"
  /\ runner[held[r]] \in RunnerAlive
  /\ runner' = [runner EXCEPT ![held[r]] = "exited"]
  /\ sigterm' = sigterm \ {held[r]}
  /\ pc' = [pc EXCEPT ![r] = "cancelWrite"]
  /\ UNCHANGED <<files, procs, locals>>

\* update_session with the copy that was read when the request came in.
WriteCancelled(r) ==
  /\ pc[r] = "cancelWrite"
  /\ WriteFile(Subject(r), "cancelled", FALSE)
  /\ Return(r)
  /\ UNCHANGED <<processes, procs>>

-----------------------------------------------------------------------------
(* The runner process of session s.                                        *)

Exit(s) ==
  /\ runner' = [runner EXCEPT ![s] = "exited"]
  /\ sigterm' = sigterm \ {s}

\* main: read the session, load the project's council config.
LoadConfig(s) ==
  /\ runner[s] = "boot"
  /\ runner' = [runner EXCEPT ![s] = "ready"]
  /\ UNCHANGED <<files, sigterm, procs, pc, locals>>

LoadConfigFails(s) ==
  /\ runner[s] = "boot"
  /\ runner' = [runner EXCEPT ![s] = "misconfigured"]
  /\ UNCHANGED <<files, sigterm, procs, pc, locals>>

\* ... and main writes the copy it read before loading, as failed.
ReportBadConfig(s) ==
  /\ runner[s] = "misconfigured"
  /\ WriteFile(s, "failed", FALSE)
  /\ Exit(s)
  /\ UNCHANGED <<procs, pc, locals>>

\* Mutant of StartSession: the runner writes its copy without a look at the
\* file.
StartBlindly(s) ==
  /\ runner[s] = "ready"
  /\ WriteFile(s, "running", TRUE)
  /\ runner' = [runner EXCEPT ![s] = "running"]
  /\ UNCHANGED <<sigterm, procs, pc, locals>>

\* _start_session: merge under the lock; a cancelled session is left alone
\* and main returns.
StartSession(s) ==
  /\ runner[s] = "ready"
  /\ IF status[s] = "cancelled"
       THEN Exit(s) /\ UNCHANGED files
       ELSE /\ WriteFile(s, "running", TRUE)
            /\ runner' = [runner EXCEPT ![s] = "running"]
            /\ UNCHANGED sigterm
  /\ UNCHANGED <<procs, pc, locals>>

\* Mutant of FinalizeSession: the verdict overwrites a cancellation.
FinalizeBlindly(s) ==
  /\ runner[s] = "running"
  /\ \E verdict \in {"converged", "failed"} : WriteFile(s, verdict, FALSE)
  /\ Exit(s)
  /\ UNCHANGED <<procs, pc, locals>>

\* _finalize_session: merge under the lock, cancelled wins.
FinalizeSession(s) ==
  /\ runner[s] = "running"
  /\ \E verdict \in {"converged", "failed"} :
       IF status[s] = "cancelled" THEN UNCHANGED files
                                  ELSE WriteFile(s, verdict, FALSE)
  /\ Exit(s)
  /\ UNCHANGED <<procs, pc, locals>>

\* SIGTERM: the default action until the handler is installed after the
\* config is loaded; then _cancel_running_session, which writes a copy.
HandleSigterm(s) ==
  /\ s \in sigterm
  /\ IF runner[s] \in {"ready", "running"}
       THEN WriteFile(s, "cancelled", FALSE)
       ELSE UNCHANGED files
  /\ Exit(s)
  /\ UNCHANGED <<procs, pc, locals>>

\* The process dies without a word (OOM kill, power).
CrashRunner(s) ==
  /\ "crash" \in Faults
  /\ runner[s] \in RunnerAlive
  /\ Exit(s)
  /\ UNCHANGED <<files, procs, pc, locals>>

\* The daemon restarts: handles and requests are gone, runners live on in
\* their own process sessions.
RestartDaemon ==
  /\ "restart" \in Faults
  /\ procs' = [i \in Ids |-> NoProject]
  /\ pc' = [r \in Requests |-> "idle"]
  /\ project' = [r \in Requests |-> NoProject]
  /\ sid' = [r \in Requests |-> 0]
  /\ reap' = [r \in Requests |-> {}]
  /\ held' = [r \in Requests |-> NoSession]
  /\ copyPid' = [r \in Requests |-> FALSE]
  /\ UNCHANGED <<files, processes>>

-----------------------------------------------------------------------------
Request(r) ==
  \/ BeginPost(r) \/ BeginList(r) \/ ReadOrphan(r) \/ MarkOrphanFailed(r)
  \/ FinishList(r) \/ CreateSession(r) \/ RejectPost(r) \/ WriteThread(r)
  \/ SpawnRunner(r) \/ SpawnFails(r) \/ RegisterRunner(r) \/ BeginCancel(r)
  \/ PopLauncher(r) \/ SignalByPid(r) \/ NobodyToSignal(r) \/ RunnerGone(r)
  \/ ForceKill(r) \/ WriteCancelled(r)

Runner(s) ==
  \/ LoadConfig(s) \/ LoadConfigFails(s) \/ ReportBadConfig(s)
  \/ StartSession(s) \/ FinalizeSession(s) \/ HandleSigterm(s)
  \/ CrashRunner(s)

Next ==
  \/ \E r \in Requests : Request(r)
  \/ \E s \in Sessions : Runner(s)
  \/ RestartDaemon

Spec == Init /\ [][Next]_vars

\* A request thread that has begun runs to its end, runner processes are
\* scheduled (a crash, a signal or a failing config is never owed), and some
\* client keeps asking for the project's session list (the dashboard's
\* sessions view polls it).
Continue(r) == pc[r] # "idle" /\ Request(r)

RunnerProgress(s) ==
  LoadConfig(s) \/ ReportBadConfig(s) \/ StartSession(s) \/ FinalizeSession(s)

Fairness ==
  /\ \A r \in Requests : WF_vars(Continue(r))
  /\ \A s \in Sessions : WF_vars(RunnerProgress(s))
  /\ \E r \in Requests : SF_vars(BeginList(r))

FairSpec == Spec /\ Fairness

-----------------------------------------------------------------------------
TypeOK ==
  /\ status \in [Sessions -> Status]
  /\ pid \in [Sessions -> BOOLEAN]
  /\ runner \in [Sessions -> RunnerState]
  /\ sigterm \subseteq Sessions
  /\ procs \in [Ids -> Projects \cup {NoProject}]
  /\ pc \in [Requests -> PC]
  /\ project \in [Requests -> Projects \cup {NoProject}]
  /\ sid \in [Requests -> Ids \cup {0}]
  /\ reap \in [Requests -> SUBSET Sessions]
  /\ held \in [Requests -> Sessions \cup {NoSession}]
  /\ copyPid \in [Requests -> BOOLEAN]
  /\ \A r \in Requests :
       /\ pc[r] \notin {"idle", "prune", "pruneWrite"} => Subject(r) \in Sessions
       /\ pc[r] \in {"pruneWrite", "cancelWait"} => held[r] \in Sessions

\* Only one council session is active per project, whatever prunes, cancels,
\* crashes and daemon restarts interleave with the POSTs (README.md, "Only
\* one Council session can be active per project").
OneActivePerProject ==
  \A p \in Projects : \A i, j \in ActiveIn(p) : i = j

\* While a runner is working, its session file says running or cancelled:
\* nobody else finishes the session under it, and no late write of the POST
\* that launched it takes it back to pending.
WorkingRunnerIsVisible ==
  \A s \in Sessions : runner[s] = "running" => status[s] \in {"running", "cancelled"}

\* A session that is over never becomes active again, so a freed project slot
\* cannot be taken back by a stale copy of an earlier session.
FinishedStaysFinished ==
  [][\A s \in Sessions : status[s] \in Terminal => status'[s] \in Terminal]_vars

\* A cancelled session is never shown as converged, and a converged one never
\* as failed: of the three verdicts, cancelled and failed may overtake each
\* other, an agreement is never invented or downgraded to a failure.
VerdictNotReversed ==
  [][\A s \in Sessions :
       /\ status[s] = "cancelled" => status'[s] # "converged"
       /\ status[s] = "converged" => status'[s] # "failed"]_vars

\* A session whose runner died without a verdict does not look alive for ever:
\* some list request reports it.
DeadRunnerIsReported ==
  \A s \in Sessions :
    (status[s] \in Active /\ runner[s] = "exited") ~> status[s] \in Terminal

\* A cancel request that was accepted ends the session, even when the runner
\* ignores the signal.
CancelEndsSession ==
  \A r \in Requests, s \in Sessions :
    (pc[r] = "cancelPop" /\ Subject(r) = s) ~> status[s] \in Terminal
=============================================================================
