---------------------- MODULE CouncilLifecycle_proofs ----------------------
(***************************************************************************)
(* Proofs about the life of council sessions (CouncilLifecycle): types for *)
(* every environment, and, when no client cancels a session whose POST is  *)
(* still under way, one active session per project, verdicts that are not  *)
(* reversed and runners that are never declared dead while they work.      *)
(***************************************************************************)
EXTENDS CouncilLifecycle, TLAPS

Launching(r) == pc[r] \in {"launch", "spawn"}
Cancelling(r) == pc[r] \in {"cancelPop", "cancelWait", "cancelWrite"}

\* A POST between its file and its process owns a pending session that has no
\* runner, and owns it alone.
LaunchInv ==
  \A r \in Requests :
    Launching(r) => /\ status[Subject(r)] = "pending"
                    /\ runner[Subject(r)] = "none"

LaunchAlone ==
  \A q, r \in Requests :
    Launching(q) /\ Launching(r) /\ Subject(q) = Subject(r) => q = r

\* No file, no runner.
AbsentInv == \A s \in Sessions : status[s] = "absent" => runner[s] = "none"

\* Until a runner starts its session, only a cancel can have touched the file.
YoungRunnerInv ==
  \A s \in Sessions :
    runner[s] \in {"boot", "misconfigured", "ready"} => status[s] \in {"pending", "cancelled"}

SignalInv == \A s \in sigterm : runner[s] \in RunnerAlive

\* Prunes only hold sessions whose runner is dead and left no agreement.
ReapInv ==
  \A r \in Requests :
    /\ \A s \in reap[r] : runner[s] = "exited"
    /\ pc[r] = "pruneWrite" => runner[held[r]] = "exited" /\ status[held[r]] # "converged"

\* Cancels only hold sessions that exist and that no POST is launching.
CancelInv ==
  \A r \in Requests :
    Cancelling(r) => /\ status[Subject(r)] # "absent"
                     /\ \A q \in Requests : Launching(q) => Subject(q) # Subject(r)

IInv ==
  /\ LaunchInv /\ LaunchAlone /\ AbsentInv /\ YoungRunnerInv
  /\ SignalInv /\ ReapInv /\ CancelInv
  /\ WorkingRunnerIsVisible /\ OneActivePerProject

-----------------------------------------------------------------------------
(* Types.                                                                  *)

LEMMA SessionPairs ==
  /\ \A p \in Projects, i \in Ids : <<p, i>> \in Sessions
  /\ \A s \in Sessions : s[1] \in Projects /\ s[2] \in Ids /\ <<s[1], s[2]>> = s
  BY DEF Sessions

\* The steps of a request and of a runner that end it.
LEMMA ReturnTypes ==
  ASSUME TypeOK, NEW r \in Requests, Return(r)
  PROVE  /\ pc' \in [Requests -> PC]
         /\ project' \in [Requests -> Projects \cup {NoProject}]
         /\ sid' \in [Requests -> Ids \cup {0}]
         /\ reap' \in [Requests -> SUBSET Sessions]
         /\ held' \in [Requests -> Sessions \cup {NoSession}]
         /\ copyPid' \in [Requests -> BOOLEAN]
         /\ pc'[r] = "idle"
         /\ \A q \in Requests : q # r => /\ pc'[q] = pc[q] /\ reap'[q] = reap[q]
                                         /\ held'[q] = held[q]
                                         /\ project'[q] = project[q] /\ sid'[q] = sid[q]
  BY DEF TypeOK, Return, PC

LEMMA WriteTypes ==
  ASSUME TypeOK, NEW s \in Sessions, NEW st \in Status, NEW p \in BOOLEAN, WriteFile(s, st, p)
  PROVE  /\ status' \in [Sessions -> Status] /\ pid' \in [Sessions -> BOOLEAN]
         /\ status'[s] = st
         /\ \A t \in Sessions : t # s => status'[t] = status[t]
  BY DEF TypeOK, WriteFile

LEMMA ExitTypes ==
  ASSUME TypeOK, NEW s \in Sessions, Exit(s)
  PROVE  /\ runner' \in [Sessions -> RunnerState] /\ sigterm' \subseteq Sessions
         /\ runner'[s] = "exited" /\ s \notin sigterm'
         /\ \A t \in Sessions : t # s => runner'[t] = runner[t]
         /\ sigterm' \subseteq sigterm
  BY DEF TypeOK, Exit, RunnerState

LEMMA SubjectType ==
  ASSUME TypeOK, NEW r \in Requests, pc[r] \notin {"idle", "prune", "pruneWrite"}
  PROVE  Subject(r) \in Sessions /\ project[r] \in Projects /\ sid[r] \in Ids
<1>1. Subject(r) \in Sessions
  BY DEF TypeOK
<1>2. <<project[r], sid[r]>> \in Projects \X Ids
  BY <1>1 DEF Subject, Sessions
<1> QED BY <1>1, <1>2

\* A returning request leaves the last conjunct of TypeOK alone.
LEMMA ReturnKeepsTypes ==
  ASSUME TypeOK, NEW r \in Requests, Return(r),
         status' \in [Sessions -> Status], pid' \in [Sessions -> BOOLEAN],
         runner' \in [Sessions -> RunnerState], sigterm' \subseteq Sessions,
         procs' \in [Ids -> Projects \cup {NoProject}]
  PROVE  TypeOK'
<1>1. \A q \in Requests :
        /\ pc'[q] \notin {"idle", "prune", "pruneWrite"} => Subject(q)' \in Sessions
        /\ pc'[q] \in {"pruneWrite", "cancelWait"} => held'[q] \in Sessions
  BY ReturnTypes DEF TypeOK, Subject
<1> QED BY <1>1, ReturnTypes DEF TypeOK

\* A step of a runner, likewise.
LEMMA RunnerKeepsTypes ==
  ASSUME TypeOK, UNCHANGED <<procs, pc, locals>>,
         status' \in [Sessions -> Status], pid' \in [Sessions -> BOOLEAN],
         runner' \in [Sessions -> RunnerState], sigterm' \subseteq Sessions
  PROVE  TypeOK'
  BY DEF TypeOK, Subject, locals

LEMMA SignalTypes ==
  ASSUME TypeOK, NEW r \in Requests, NEW s \in Sessions, pc[r] = "cancelPop",
         Signal(r, s), UNCHANGED <<files, runner, project, sid, reap, copyPid>>,
         procs' \in [Ids -> Projects \cup {NoProject}]
  PROVE  TypeOK'
<1>1. Subject(r) \in Sessions
  BY SubjectType
<1>2. \A q \in Requests : Subject(q)' = Subject(q)
  BY DEF Subject
<1>3. CASE runner[s] \in RunnerAlive
  BY <1>1, <1>2, <1>3 DEF Signal, TypeOK, PC, files
<1>4. CASE runner[s] \notin RunnerAlive
  BY <1>1, <1>2, <1>4 DEF Signal, TypeOK, PC, files
<1> QED BY <1>3, <1>4

LEMMA TypeInit == Init => TypeOK
  BY DEF Init, TypeOK, Status, RunnerState, PC

LEMMA RequestKeepsTypes ==
  ASSUME TypeOK, NEW r \in Requests, Request(r)
  PROVE  TypeOK'
<1>1. ASSUME NEW p \in Projects \cup {NoProject}, Begin(r, p) PROVE TypeOK'
  <2>1. {<<procs[i], i>> : i \in FinishedLaunchers} \subseteq Sessions
    <3>1. \A i \in FinishedLaunchers : i \in Ids /\ procs[i] \in Projects
      BY DEF FinishedLaunchers, TypeOK
    <3> QED BY <3>1, SessionPairs
  <2>2. procs' \in [Ids -> Projects \cup {NoProject}]
    BY <1>1 DEF Begin, TypeOK
  <2> QED BY <1>1, <2>1, <2>2 DEF Begin, TypeOK, PC, Subject, files, processes
<1>2. CASE ReadOrphan(r)
  <2>1. PICK s \in reap[r] :
          /\ reap' = [reap EXCEPT ![r] = @ \ {s}]
          /\ IF status[s] \in Active
               THEN /\ pc' = [pc EXCEPT ![r] = "pruneWrite"]
                    /\ held' = [held EXCEPT ![r] = s]
                    /\ copyPid' = [copyPid EXCEPT ![r] = pid[s]]
               ELSE UNCHANGED <<pc, held, copyPid>>
    BY <1>2 DEF ReadOrphan
  <2>2. s \in Sessions /\ pid[s] \in BOOLEAN
    BY DEF TypeOK
  <2>3. pc[r] = "prune" /\ UNCHANGED <<files, processes, procs, project, sid>>
    BY <1>2 DEF ReadOrphan
  <2>4. CASE status[s] \in Active
    BY <2>1, <2>2, <2>3, <2>4 DEF TypeOK, PC, Subject, files, processes
  <2>5. CASE status[s] \notin Active
    BY <2>1, <2>2, <2>3, <2>5 DEF TypeOK, PC, Subject, files, processes
  <2> QED BY <2>4, <2>5
<1>3. CASE MarkOrphanFailed(r)
  <2>1. held[r] \in Sessions /\ copyPid[r] \in BOOLEAN /\ "failed" \in Status
    BY <1>3 DEF MarkOrphanFailed, TypeOK, Status, Terminal
  <2>2. status' \in [Sessions -> Status] /\ pid' \in [Sessions -> BOOLEAN]
    BY <1>3, <2>1, WriteTypes DEF MarkOrphanFailed
  <2> QED BY <1>3, <2>2 DEF MarkOrphanFailed, TypeOK, PC, Subject, processes
<1>4. CASE FinishList(r) \/ RejectPost(r) \/ SpawnFails(r)
  <2>1. Return(r) /\ UNCHANGED <<files, processes, procs>>
    BY <1>4 DEF FinishList, RejectPost, SpawnFails
  <2> QED BY <2>1, ReturnKeepsTypes DEF TypeOK, files, processes
<1>5. CASE CreateSession(r)
  <2>1. PICK i \in Ids : /\ WriteFile(<<project[r], i>>, "pending", FALSE)
                         /\ sid' = [sid EXCEPT ![r] = i]
    BY <1>5 DEF CreateSession
  <2>2. <<project[r], i>> \in Sessions /\ "pending" \in Status /\ FALSE \in BOOLEAN
    BY <1>5, SessionPairs DEF CreateSession, Status, Active
  <2>3. status' \in [Sessions -> Status] /\ pid' \in [Sessions -> BOOLEAN]
    BY <2>1, <2>2, WriteTypes
  <2> QED BY <1>5, <2>1, <2>2, <2>3 DEF CreateSession, TypeOK, PC, Subject, processes
<1>6. CASE WriteThread(r)
  <2>1. Subject(r) \in Sessions /\ "pending" \in Status /\ FALSE \in BOOLEAN
    BY <1>6, SubjectType DEF WriteThread, Status, Active
  <2>2. status' \in [Sessions -> Status] /\ pid' \in [Sessions -> BOOLEAN]
    BY <1>6, <2>1, WriteTypes DEF WriteThread
  <2> QED BY <1>6, <2>1, <2>2 DEF WriteThread, TypeOK, PC, Subject, processes, locals
<1>7. CASE SpawnRunner(r)
  <2>1. Subject(r) \in Sessions
    BY <1>7, SubjectType DEF SpawnRunner
  <2> QED BY <1>7, <2>1 DEF SpawnRunner, TypeOK, PC, RunnerState, RunnerAlive, Subject, files, locals
<1>8. CASE RegisterRunner(r)
  <2>1. project[r] \in Projects
    BY <1>8, SubjectType DEF RegisterRunner
  <2>2. procs' \in [Ids -> Projects \cup {NoProject}]
    BY <1>8, <2>1 DEF RegisterRunner, TypeOK
  <2> QED BY <1>8, <2>2, ReturnKeepsTypes DEF RegisterRunner, TypeOK, files, processes
<1>9. CASE BeginCancel(r)
  <2>1. PICK s \in Sessions : /\ project' = [project EXCEPT ![r] = s[1]]
                              /\ sid' = [sid EXCEPT ![r] = s[2]]
                              /\ copyPid' = [copyPid EXCEPT ![r] = pid[s]]
    BY <1>9 DEF BeginCancel
  <2>2. s[1] \in Projects /\ s[2] \in Ids /\ <<s[1], s[2]>> \in Sessions /\ pid[s] \in BOOLEAN
    BY SessionPairs DEF TypeOK
  <2> QED BY <1>9, <2>1, <2>2 DEF BeginCancel, TypeOK, PC, Subject, files, processes
<1>10. CASE PopLauncher(r)
  <2>1. sid[r] \in Ids /\ <<procs[sid[r]], sid[r]>> \in Sessions
    BY <1>10, SubjectType, SessionPairs DEF PopLauncher, TypeOK
  <2>2. procs' \in [Ids -> Projects \cup {NoProject}]
    BY <1>10 DEF PopLauncher, TypeOK
  <2> QED BY <1>10, <2>1, <2>2, SignalTypes DEF PopLauncher
<1>11. CASE SignalByPid(r)
  <2>1. Subject(r) \in Sessions
    BY <1>11, SubjectType DEF SignalByPid
  <2> QED BY <1>11, <2>1, SignalTypes DEF SignalByPid, TypeOK
<1>12. CASE NobodyToSignal(r) \/ RunnerGone(r)
  <2>1. Subject(r) \in Sessions
    BY <1>12, SubjectType DEF NobodyToSignal, RunnerGone
  <2> QED BY <1>12, <2>1 DEF NobodyToSignal, RunnerGone, TypeOK, PC, Subject, files, processes, locals
<1>13. CASE ForceKill(r)
  <2>1. Subject(r) \in Sessions
    BY <1>13, SubjectType DEF ForceKill
  <2> QED BY <1>13, <2>1 DEF ForceKill, TypeOK, PC, RunnerState, Subject, files, locals
<1>14. CASE WriteCancelled(r)
  <2>1. Subject(r) \in Sessions /\ "cancelled" \in Status /\ FALSE \in BOOLEAN
    BY <1>14, SubjectType DEF WriteCancelled, Status, Terminal
  <2>2. status' \in [Sessions -> Status] /\ pid' \in [Sessions -> BOOLEAN]
    BY <1>14, <2>1, WriteTypes DEF WriteCancelled
  <2> QED BY <1>14, <2>2, ReturnKeepsTypes DEF WriteCancelled, TypeOK, processes
<1> QED
  BY <1>1, <1>2, <1>3, <1>4, <1>5, <1>6, <1>7, <1>8, <1>9, <1>10, <1>11, <1>12, <1>13, <1>14
     DEF Request, BeginPost, BeginList

LEMMA RunnerStepKeepsTypes ==
  ASSUME TypeOK, NEW s \in Sessions, Runner(s)
  PROVE  TypeOK'
<1>0. UNCHANGED <<procs, pc, locals>>
  BY DEF Runner, LoadConfig, LoadConfigFails, ReportBadConfig, StartSession,
     FinalizeSession, HandleSigterm, CrashRunner
<1>1. {"failed", "running", "converged", "cancelled"} \subseteq Status
  BY DEF Status, Active, Terminal
<1>2. status' \in [Sessions -> Status] /\ pid' \in [Sessions -> BOOLEAN]
  <2>1. CASE UNCHANGED files
    BY <2>1 DEF files, TypeOK
  <2>2. CASE \E st \in {"failed", "running", "converged", "cancelled"}, p \in BOOLEAN :
               WriteFile(s, st, p)
    BY <1>1, <2>2, WriteTypes
  <2>3. UNCHANGED files \/ \E st \in {"failed", "running", "converged", "cancelled"}, p \in BOOLEAN :
               WriteFile(s, st, p)
    BY DEF Runner, LoadConfig, LoadConfigFails, ReportBadConfig, StartSession,
       FinalizeSession, HandleSigterm, CrashRunner
  <2> QED BY <2>1, <2>2, <2>3
<1>3. runner' \in [Sessions -> RunnerState] /\ sigterm' \subseteq Sessions
  <2>1. CASE Exit(s)
    BY <2>1, ExitTypes
  <2>2. CASE /\ UNCHANGED sigterm
             /\ \E n \in {"ready", "misconfigured", "running"} : runner' = [runner EXCEPT ![s] = n]
    BY <2>2 DEF TypeOK, RunnerState, RunnerAlive
  <2> QED BY <2>1, <2>2 DEF Runner, LoadConfig, LoadConfigFails, ReportBadConfig, StartSession,
       FinalizeSession, HandleSigterm, CrashRunner
<1> QED BY <1>0, <1>2, <1>3, RunnerKeepsTypes

LEMMA TypeStep == TypeOK /\ [Next]_vars => TypeOK'
<1> SUFFICES ASSUME TypeOK, [Next]_vars PROVE TypeOK'
  OBVIOUS
<1>1. CASE RestartDaemon
  BY <1>1 DEF RestartDaemon, TypeOK, PC, files, processes
<1>2. CASE UNCHANGED vars
  BY <1>2 DEF vars, TypeOK, Subject
<1> QED BY <1>1, <1>2, RequestKeepsTypes, RunnerStepKeepsTypes DEF Next

\* The session files, processes, registry and request locals keep their types,
\* and a request past its first step has what it works on.
THEOREM LifecycleTypes == Spec => []TypeOK
  BY TypeInit, TypeStep, PTL DEF Spec

-----------------------------------------------------------------------------
(* The inductive invariant.                                                *)

LEMMA IInit == Init => IInv
<1> SUFFICES ASSUME Init PROVE IInv
  OBVIOUS
<1>1. \A r \in Requests : ~Launching(r) /\ ~Cancelling(r) /\ reap[r] = {} /\ pc[r] = "idle"
  BY DEF Init, Launching, Cancelling
<1>2. \A s \in Sessions : status[s] = "absent" /\ runner[s] = "none"
  BY DEF Init
<1>3. OneActivePerProject
  BY <1>2, SessionPairs DEF OneActivePerProject, ActiveIn, Active
<1>4. SignalInv
  BY DEF Init, SignalInv
<1> QED BY <1>1, <1>2, <1>3, <1>4 DEF IInv, LaunchInv, LaunchAlone, AbsentInv,
           YoungRunnerInv, ReapInv, CancelInv, WorkingRunnerIsVisible

\* The request-local parts, for the steps that leave files and processes alone
\* and change no request but r.
LEMMA OthersKeep ==
  ASSUME TypeOK, IInv, NEW r \in Requests, UNCHANGED <<status, runner>>, SignalInv',
         \A q \in Requests : q # r => /\ pc'[q] = pc[q] /\ reap'[q] = reap[q]
                                     /\ held'[q] = held[q]
                                     /\ project'[q] = project[q] /\ sid'[q] = sid[q],
         Launching(r)' => Launching(r) /\ Subject(r)' = Subject(r),
         Cancelling(r)' => /\ status[Subject(r)'] # "absent"
                           /\ \A q \in Requests : Launching(q) => Subject(q) # Subject(r)',
         \A s \in reap'[r] : runner[s] = "exited",
         pc'[r] = "pruneWrite" => /\ runner[held'[r]] = "exited"
                                  /\ status[held'[r]] # "converged"
  PROVE  IInv'
<1>1. \A q \in Requests : q # r => /\ (Launching(q)' <=> Launching(q))
                                  /\ (Cancelling(q)' <=> Cancelling(q))
                                  /\ Subject(q)' = Subject(q)
  BY DEF Launching, Cancelling, Subject
<1>2. LaunchInv'
  BY <1>1 DEF IInv, LaunchInv
<1>3. LaunchAlone'
  BY <1>1 DEF IInv, LaunchAlone
<1>4. AbsentInv' /\ YoungRunnerInv' /\ SignalInv' /\ WorkingRunnerIsVisible'
  BY DEF IInv, AbsentInv, YoungRunnerInv, WorkingRunnerIsVisible
<1>5. OneActivePerProject'
  BY DEF IInv, OneActivePerProject, ActiveIn
<1>6. ReapInv'
  BY DEF IInv, ReapInv
<1>7. CancelInv'
  BY <1>1 DEF IInv, CancelInv
<1> QED BY <1>2, <1>3, <1>4, <1>5, <1>6, <1>7 DEF IInv

\* A step that ends session s, or one that keeps it as it is, and may end its
\* runner: no request changes but possibly one that returns or goes on.
LEMMA EndKeeps ==
  ASSUME TypeOK, IInv, NEW s \in Sessions,
         runner' \in [Sessions -> RunnerState], status' \in [Sessions -> Status],
         \A t \in Sessions : t # s => status'[t] = status[t] /\ runner'[t] = runner[t],
         status'[s] = status[s] \/ (status'[s] \in Terminal /\ status[s] # "absent"),
         status'[s] = "converged" => status[s] = "converged" \/ runner[s] # "exited",
         runner'[s] = runner[s] \/ (runner'[s] = "exited" /\ runner[s] # "none"),
         sigterm' \subseteq sigterm, runner'[s] = "exited" => s \notin sigterm',
         status'[s] # status[s] =>
           /\ runner'[s] = "exited" \/ status'[s] = "cancelled"
           /\ \A q \in Requests : Launching(q) => Subject(q) # s,
         \A q \in Requests : /\ Launching(q)' => Launching(q)
                             /\ Cancelling(q)' => Cancelling(q)
                             /\ Launching(q)' \/ Cancelling(q)' => Subject(q)' = Subject(q)
                             /\ reap'[q] \subseteq reap[q]
                             /\ pc'[q] = "pruneWrite" => pc[q] = "pruneWrite" /\ held'[q] = held[q]
  PROVE  IInv'
<1>0. \A q \in Requests : Launching(q) \/ Cancelling(q) => Subject(q) \in Sessions
  BY SubjectType DEF Launching, Cancelling
<1>1. LaunchInv'
  BY <1>0 DEF IInv, LaunchInv
<1>2. LaunchAlone'
  BY DEF IInv, LaunchAlone
<1>3. AbsentInv'
  BY DEF IInv, AbsentInv, Terminal
<1>4. YoungRunnerInv'
  BY DEF IInv, YoungRunnerInv
<1>5. SignalInv'
  BY DEF IInv, SignalInv, TypeOK
<1>6. ReapInv'
  BY DEF IInv, ReapInv, TypeOK
<1>7. CancelInv'
  BY <1>0 DEF IInv, CancelInv, Terminal
<1>8. WorkingRunnerIsVisible'
  BY DEF IInv, WorkingRunnerIsVisible
<1>9. OneActivePerProject'
  BY SessionPairs DEF IInv, OneActivePerProject, ActiveIn, Active, Terminal
<1> QED BY <1>1, <1>2, <1>3, <1>4, <1>5, <1>6, <1>7, <1>8, <1>9 DEF IInv

-----------------------------------------------------------------------------
(* Every step keeps it.                                                    *)

\* Steps of a request that write no file and start or end no process.
LEMMA LocalStepsKeep ==
  ASSUME ~EarlyCancel, TypeOK, IInv, NEW r \in Requests,
         \/ BeginPost(r) \/ BeginList(r) \/ ReadOrphan(r) \/ FinishList(r)
         \/ RejectPost(r) \/ SpawnFails(r) \/ RegisterRunner(r) \/ BeginCancel(r)
         \/ PopLauncher(r) \/ SignalByPid(r) \/ NobodyToSignal(r) \/ RunnerGone(r)
  PROVE  IInv'
<1> USE DEF Launching, Cancelling
<1>1. ASSUME NEW p \in Projects \cup {NoProject}, Begin(r, p) PROVE IInv'
  <2>1. SignalInv' /\ UNCHANGED <<status, runner>>
    BY <1>1 DEF Begin, IInv, SignalInv, files, processes
  <2>2. \A s \in reap'[r] : runner[s] = "exited"
    BY <1>1 DEF Begin, FinishedLaunchers, TypeOK
  <2> QED BY <1>1, <2>1, <2>2, OthersKeep DEF Begin, TypeOK
<1>2. CASE ReadOrphan(r)
  <2>1. PICK s \in reap[r] :
          /\ reap' = [reap EXCEPT ![r] = @ \ {s}]
          /\ IF status[s] \in Active
               THEN /\ pc' = [pc EXCEPT ![r] = "pruneWrite"]
                    /\ held' = [held EXCEPT ![r] = s]
                    /\ copyPid' = [copyPid EXCEPT ![r] = pid[s]]
               ELSE UNCHANGED <<pc, held, copyPid>>
    BY <1>2 DEF ReadOrphan
  <2>2. pc[r] = "prune" /\ SignalInv' /\ UNCHANGED <<status, runner, project, sid>>
    BY <1>2 DEF ReadOrphan, IInv, SignalInv, files, processes
  <2>3. runner[s] = "exited" /\ \A t \in reap'[r] : runner[t] = "exited"
    BY <2>1 DEF IInv, ReapInv, TypeOK
  <2>4. CASE status[s] \in Active
    BY <2>1, <2>2, <2>3, <2>4, OthersKeep DEF TypeOK, Active
  <2>5. CASE status[s] \notin Active
    BY <2>1, <2>2, <2>3, <2>5, OthersKeep DEF TypeOK
  <2> QED BY <2>4, <2>5
<1>3. CASE FinishList(r) \/ RejectPost(r) \/ SpawnFails(r) \/ RegisterRunner(r)
  <2>1. Return(r) /\ SignalInv' /\ UNCHANGED <<status, runner>>
    BY <1>3 DEF FinishList, RejectPost, SpawnFails, RegisterRunner, IInv, SignalInv,
       files, processes
  <2>2. reap'[r] = {} /\ pc'[r] = "idle"
    BY <2>1 DEF Return, TypeOK
  <2> QED BY <2>1, <2>2, ReturnTypes, OthersKeep
<1>4. CASE BeginCancel(r)
  <2>1. PICK s \in Sessions : /\ status[s] \in Active /\ ~BeingPosted(s)
                              /\ project' = [project EXCEPT ![r] = s[1]]
                              /\ sid' = [sid EXCEPT ![r] = s[2]]
    BY <1>4 DEF BeginCancel
  <2>2. Subject(r)' = s
    BY <2>1, SessionPairs DEF Subject, TypeOK
  <2>3. status[s] # "absent" /\ \A q \in Requests : Launching(q) => Subject(q) # s
    BY <2>1 DEF BeingPosted, Active
  <2>4. SignalInv' /\ UNCHANGED <<status, runner, reap, held>> /\ pc' = [pc EXCEPT ![r] = "cancelPop"]
    BY <1>4 DEF BeginCancel, IInv, SignalInv, files, processes
  <2>5. \A s2 \in reap'[r] : runner[s2] = "exited"
    BY <2>4 DEF IInv, ReapInv
  <2> QED BY <2>1, <2>2, <2>3, <2>4, <2>5, OthersKeep DEF TypeOK
<1>5. ASSUME NEW s \in Sessions, Signal(r, s), pc[r] = "cancelPop",
             UNCHANGED <<files, runner, project, sid, reap, copyPid>>
      PROVE  IInv'
  <2>1. SignalInv' /\ UNCHANGED <<status, runner>>
    BY <1>5 DEF Signal, IInv, SignalInv, files
  <2>2. Subject(r)' = Subject(r)
    BY <1>5 DEF Subject
  <2>3. \A t \in reap'[r] : runner[t] = "exited"
    BY <1>5 DEF IInv, ReapInv
  <2>4. pc'[r] \in {"cancelWait", "cancelWrite"}
        /\ \A q \in Requests : q # r => pc'[q] = pc[q] /\ held'[q] = held[q]
    BY <1>5 DEF Signal, TypeOK
  <2> QED BY <1>5, <2>1, <2>2, <2>3, <2>4, OthersKeep DEF IInv, CancelInv
<1>6. CASE PopLauncher(r)
  <2>1. <<procs[sid[r]], sid[r]>> \in Sessions
    BY <1>6, SubjectType, SessionPairs DEF PopLauncher, TypeOK
  <2> QED BY <1>5, <1>6, <2>1 DEF PopLauncher
<1>7. CASE SignalByPid(r)
  <2>1. Subject(r) \in Sessions
    BY <1>7, SubjectType DEF SignalByPid
  <2> QED BY <1>5, <1>7, <2>1 DEF SignalByPid
<1>8. CASE NobodyToSignal(r) \/ RunnerGone(r)
  <2>1. /\ SignalInv' /\ UNCHANGED <<status, runner, project, sid, reap, held>>
        /\ pc' = [pc EXCEPT ![r] = "cancelWrite"] /\ pc[r] \in {"cancelPop", "cancelWait"}
    BY <1>8 DEF NobodyToSignal, RunnerGone, IInv, SignalInv, files, processes, locals
  <2>2. Subject(r)' = Subject(r)
    BY <2>1 DEF Subject
  <2>3. \A t \in reap'[r] : runner[t] = "exited"
    BY <2>1 DEF IInv, ReapInv
  <2> QED BY <2>1, <2>2, <2>3, OthersKeep DEF IInv, CancelInv, TypeOK
<1> QED BY <1>1, <1>2, <1>3, <1>4, <1>6, <1>7, <1>8 DEF BeginPost, BeginList

\* Steps of a request that end a session or a runner.
LEMMA EndingRequestsKeep ==
  ASSUME TypeOK, IInv, NEW r \in Requests,
         MarkOrphanFailed(r) \/ ForceKill(r) \/ WriteCancelled(r)
  PROVE  IInv'
<1> USE DEF Launching, Cancelling
<1>1. CASE MarkOrphanFailed(r)
  <2>1. held[r] \in Sessions /\ runner[held[r]] = "exited" /\ copyPid[r] \in BOOLEAN
        /\ "failed" \in Status
    BY <1>1 DEF MarkOrphanFailed, IInv, ReapInv, TypeOK, Status, Terminal
  <2>2. /\ status' \in [Sessions -> Status] /\ status'[held[r]] = "failed"
        /\ \A t \in Sessions : t # held[r] => status'[t] = status[t]
    BY <1>1, <2>1, WriteTypes DEF MarkOrphanFailed
  <2>3. status[held[r]] # "absent" /\ \A q \in Requests : Launching(q) => Subject(q) # held[r]
    BY <2>1 DEF IInv, AbsentInv, LaunchInv
  <2>4. UNCHANGED <<runner, sigterm, reap>> /\ held[r] \notin sigterm
    BY <1>1, <2>1 DEF MarkOrphanFailed, processes, IInv, SignalInv, RunnerAlive
  <2>5. \A q \in Requests : Subject(q)' = Subject(q)
    BY <1>1 DEF MarkOrphanFailed, Subject
  <2>6. \A q \in Requests : /\ pc'[q] = IF q = r THEN "prune" ELSE pc[q]
                            /\ q # r => held'[q] = held[q]
    BY <1>1 DEF MarkOrphanFailed, TypeOK
  <2> QED BY <2>1, <2>2, <2>3, <2>4, <2>5, <2>6, EndKeeps DEF TypeOK, Terminal
<1>2. CASE ForceKill(r)
  <2>1. held[r] \in Sessions /\ runner[held[r]] \in RunnerAlive
    BY <1>2 DEF ForceKill, TypeOK
  <2>2. /\ runner' = [runner EXCEPT ![held[r]] = "exited"] /\ sigterm' = sigterm \ {held[r]}
        /\ pc' = [pc EXCEPT ![r] = "cancelWrite"] /\ pc[r] = "cancelWait"
        /\ UNCHANGED <<status, project, sid, reap, held>>
    BY <1>2 DEF ForceKill, files, locals
  <2>3. \A q \in Requests : Subject(q)' = Subject(q)
    BY <2>2 DEF Subject
  <2>4. runner' \in [Sessions -> RunnerState] /\ runner[held[r]] # "none"
    BY <2>1, <2>2 DEF TypeOK, RunnerState, RunnerAlive
  <2> QED BY <2>1, <2>2, <2>3, <2>4, EndKeeps DEF TypeOK
<1>3. CASE WriteCancelled(r)
  <2>1. Subject(r) \in Sessions /\ "cancelled" \in Status
    BY <1>3, SubjectType DEF WriteCancelled, Status, Terminal
  <2>2. /\ status' \in [Sessions -> Status] /\ status'[Subject(r)] = "cancelled"
        /\ \A t \in Sessions : t # Subject(r) => status'[t] = status[t]
    BY <1>3, <2>1, WriteTypes DEF WriteCancelled
  <2>3. status[Subject(r)] # "absent" /\ \A q \in Requests : Launching(q) => Subject(q) # Subject(r)
    BY <1>3 DEF WriteCancelled, IInv, CancelInv
  <2>4. UNCHANGED <<runner, sigterm>> /\ Return(r)
    BY <1>3 DEF WriteCancelled, processes
  <2>5. \A q \in Requests : q # r => Subject(q)' = Subject(q)
    BY <2>4, ReturnTypes DEF Subject
  <2>6. pc'[r] = "idle" /\ reap'[r] = {}
    BY <2>4 DEF Return, TypeOK
  <2>7. runner[Subject(r)] = "exited" => Subject(r) \notin sigterm
    BY DEF IInv, SignalInv, RunnerAlive
  <2> QED BY <2>1, <2>2, <2>3, <2>4, <2>5, <2>6, <2>7, ReturnTypes, EndKeeps DEF TypeOK, Terminal
<1> QED BY <1>1, <1>2, <1>3

\* Steps of a runner that end it.
LEMMA EndingRunnersKeep ==
  ASSUME TypeOK, IInv, NEW s \in Sessions, UNCHANGED <<pc, locals>>, Exit(s),
         runner[s] \in RunnerAlive,
         \/ UNCHANGED status
         \/ \E st \in Terminal, p \in BOOLEAN : WriteFile(s, st, p)
  PROVE  IInv'
<1>1. \A q \in Requests : Subject(q)' = Subject(q)
  BY DEF Subject, locals
<1>2. runner[s] \notin {"none", "exited"}
  BY DEF RunnerAlive
<1>3. status[s] # "absent" /\ \A q \in Requests : Launching(q) => Subject(q) # s
  BY <1>2 DEF IInv, AbsentInv, LaunchInv
<1>4. /\ status' \in [Sessions -> Status]
      /\ \A t \in Sessions : t # s => status'[t] = status[t]
      /\ status'[s] = status[s] \/ status'[s] \in Terminal
  <2>1. CASE UNCHANGED status
    BY <2>1 DEF TypeOK
  <2>2. CASE \E st \in Terminal, p \in BOOLEAN : WriteFile(s, st, p)
    BY <2>2, WriteTypes DEF Status
  <2> QED BY <2>1, <2>2
<1> QED BY <1>1, <1>2, <1>3, <1>4, ExitTypes, EndKeeps DEF Launching, Cancelling, locals

\* The POST that finds no active session takes the project.
LEMMA CreateKeeps ==
  ASSUME TypeOK, IInv, NEW r \in Requests, CreateSession(r)
  PROVE  IInv'
<1>1. PICK i \in Ids : /\ IsNextSessionId(project[r], i)
                       /\ WriteFile(<<project[r], i>>, "pending", FALSE)
                       /\ sid' = [sid EXCEPT ![r] = i]
  BY DEF CreateSession
<1> DEFINE new == <<project[r], i>>
<1>2. new \in Sessions /\ "pending" \in Status /\ FALSE \in BOOLEAN
  BY SessionPairs DEF CreateSession, Status, Active
<1>3. i \in Nat /\ status[new] = "absent"
  BY <1>1 DEF IsNextSessionId, Ids
<1>4. /\ status' \in [Sessions -> Status] /\ status'[new] = "pending"
      /\ \A t \in Sessions : t # new => status'[t] = status[t]
  BY <1>1, <1>2, WriteTypes
<1>5. /\ UNCHANGED <<runner, sigterm, project, reap, held>>
      /\ pc' = [pc EXCEPT ![r] = "launch"] /\ pc[r] = "prune"
  BY DEF CreateSession, processes
<1>6. runner[new] = "none" /\ Subject(r)' = new
  BY <1>1, <1>2, <1>3, <1>5 DEF IInv, AbsentInv, Subject, TypeOK
<1>7. \A q \in Requests : q # r => /\ (Launching(q)' <=> Launching(q))
                                  /\ (Cancelling(q)' <=> Cancelling(q))
                                  /\ Subject(q)' = Subject(q)
  BY <1>1, <1>5 DEF Launching, Cancelling, Subject, TypeOK
<1>8. \A q \in Requests : Launching(q) \/ Cancelling(q) => Subject(q) \in Sessions /\ Subject(q) # new
  BY <1>3, SubjectType DEF IInv, LaunchInv, CancelInv, Launching, Cancelling
<1>9. Launching(r)' /\ ~Cancelling(r)'
  BY <1>5 DEF Launching, Cancelling, TypeOK
<1>10. LaunchInv' /\ LaunchAlone' /\ CancelInv'
  <2>1. LaunchInv'
    BY <1>4, <1>5, <1>6, <1>7, <1>8 DEF IInv, LaunchInv
  <2>2. LaunchAlone'
    BY <1>6, <1>7, <1>8 DEF IInv, LaunchAlone
  <2>3. CancelInv'
    BY <1>4, <1>6, <1>7, <1>8, <1>9 DEF IInv, CancelInv
  <2> QED BY <2>1, <2>2, <2>3
<1>11. AbsentInv' /\ YoungRunnerInv' /\ SignalInv' /\ WorkingRunnerIsVisible'
  BY <1>4, <1>5, <1>6 DEF IInv, AbsentInv, YoungRunnerInv, SignalInv, WorkingRunnerIsVisible
<1>12. ReapInv'
  BY <1>4, <1>5 DEF IInv, ReapInv, TypeOK
<1>13. OneActivePerProject'
  <2> SUFFICES ASSUME NEW p \in Projects, NEW a \in ActiveIn(p)', NEW b \in ActiveIn(p)'
               PROVE  a = b
    BY DEF OneActivePerProject
  <2>1. CASE p = project[r]
    <3>1. \A k \in Ids : k # i => k \notin ActiveIn(p)'
      <4>1. \A k \in Ids : k # i => <<p, k>> # new /\ <<p, k>> \in Sessions
        BY <2>1, SessionPairs
      <4>2. ActiveIn(p) = {}
        BY <2>1 DEF CreateSession
      <4> QED BY <1>4, <4>1, <4>2 DEF ActiveIn
    <3> QED BY <3>1 DEF ActiveIn
  <2>2. CASE p # project[r]
    <3>1. \A k \in Ids : status'[<<p, k>>] = status[<<p, k>>]
      BY <1>4, <2>2, SessionPairs
    <3> QED BY <3>1 DEF IInv, OneActivePerProject, ActiveIn
  <2> QED BY <2>1, <2>2
<1> QED BY <1>10, <1>11, <1>12, <1>13 DEF IInv

LEMMA WriteThreadKeeps ==
  ASSUME TypeOK, IInv, NEW r \in Requests, WriteThread(r)
  PROVE  IInv'
<1>1. Subject(r) \in Sessions /\ "pending" \in Status /\ FALSE \in BOOLEAN
  BY SubjectType DEF WriteThread, Status, Active
<1>2. status[Subject(r)] = "pending"
  BY DEF WriteThread, IInv, LaunchInv, Launching
<1>3. status' = status
  BY <1>1, <1>2 DEF WriteThread, WriteFile, TypeOK
<1>4. /\ UNCHANGED <<runner, sigterm, project, sid, reap, held>>
      /\ pc' = [pc EXCEPT ![r] = "spawn"] /\ pc[r] = "launch"
  BY DEF WriteThread, processes, locals
<1>5. Subject(r)' = Subject(r) /\ SignalInv'
  BY <1>4 DEF Subject, IInv, SignalInv
<1>6. \A s \in reap'[r] : runner[s] = "exited"
  BY <1>4 DEF IInv, ReapInv
<1> QED BY <1>3, <1>4, <1>5, <1>6, OthersKeep DEF Launching, Cancelling, TypeOK

LEMMA SpawnKeeps ==
  ASSUME TypeOK, IInv, NEW r \in Requests, SpawnRunner(r)
  PROVE  IInv'
<1> DEFINE s == Subject(r)
<1>1. s \in Sessions
  BY SubjectType DEF SpawnRunner
<1>2. status[s] = "pending" /\ runner[s] = "none"
  BY DEF SpawnRunner, IInv, LaunchInv, Launching
<1>3. /\ UNCHANGED <<status, sigterm, project, sid, reap, held>>
      /\ pc' = [pc EXCEPT ![r] = "register"] /\ pc[r] = "spawn"
      /\ runner' = [runner EXCEPT ![s] = "boot"]
  BY DEF SpawnRunner, files, locals
<1>4. runner'[s] = "boot" /\ \A t \in Sessions : t # s => runner'[t] = runner[t]
  BY <1>1, <1>3 DEF TypeOK
<1>5. \A q \in Requests : /\ Subject(q)' = Subject(q)
                          /\ (Launching(q)' <=> Launching(q) /\ q # r)
                          /\ (Cancelling(q)' <=> Cancelling(q))
  BY <1>3 DEF Subject, Launching, Cancelling, TypeOK
<1>6. \A q \in Requests : Launching(q) /\ q # r => Subject(q) # s /\ Subject(q) \in Sessions
  BY <1>3, SubjectType DEF IInv, LaunchAlone, Launching
<1>7. LaunchInv' /\ LaunchAlone' /\ CancelInv'
  BY <1>3, <1>4, <1>5, <1>6 DEF IInv, LaunchInv, LaunchAlone, CancelInv
<1>8. AbsentInv' /\ YoungRunnerInv' /\ WorkingRunnerIsVisible'
  BY <1>2, <1>3, <1>4 DEF IInv, AbsentInv, YoungRunnerInv, WorkingRunnerIsVisible
<1>9. SignalInv' /\ OneActivePerProject'
  BY <1>2, <1>3, <1>4 DEF IInv, SignalInv, OneActivePerProject, ActiveIn, RunnerAlive, TypeOK
<1>10. ReapInv'
  BY <1>2, <1>3, <1>4 DEF IInv, ReapInv, TypeOK
<1> QED BY <1>7, <1>8, <1>9, <1>10 DEF IInv

\* A runner that goes on: its file says what it should.
LEMMA GoingOnKeeps ==
  ASSUME TypeOK, IInv, NEW s \in Sessions, UNCHANGED <<sigterm, pc, locals>>,
         runner[s] \in {"boot", "ready"}, NEW n \in {"ready", "misconfigured", "running"},
         runner' = [runner EXCEPT ![s] = n], NEW st \in Status,
         status' = [status EXCEPT ![s] = st],
         IF n = "running" THEN st = "running" /\ status[s] # "cancelled" ELSE st = status[s]
  PROVE  IInv'
<1>1. /\ runner'[s] = n /\ status'[s] = st
      /\ \A t \in Sessions : t # s => runner'[t] = runner[t] /\ status'[t] = status[t]
  BY DEF TypeOK
<1>2. \A q \in Requests : /\ Subject(q)' = Subject(q) /\ (Launching(q)' <=> Launching(q))
                          /\ (Cancelling(q)' <=> Cancelling(q))
  BY DEF Subject, Launching, Cancelling, locals
<1>3. status[s] \in {"pending", "cancelled"}
  BY DEF IInv, YoungRunnerInv
<1>4. \A q \in Requests : Launching(q) => Subject(q) # s /\ Subject(q) \in Sessions
  BY SubjectType DEF IInv, LaunchInv, Launching
<1>5. \A q \in Requests : Cancelling(q) => Subject(q) \in Sessions
  BY SubjectType DEF Cancelling
<1>6. LaunchInv' /\ LaunchAlone'
  BY <1>1, <1>2, <1>4 DEF IInv, LaunchInv, LaunchAlone
<1>7. CancelInv'
  BY <1>1, <1>2, <1>3, <1>5 DEF IInv, CancelInv
<1>8. AbsentInv' /\ YoungRunnerInv' /\ WorkingRunnerIsVisible'
  BY <1>1, <1>3 DEF IInv, AbsentInv, YoungRunnerInv, WorkingRunnerIsVisible
<1>9. SignalInv'
  BY <1>1 DEF IInv, SignalInv, RunnerAlive, TypeOK
<1>10. ReapInv'
  BY <1>1, <1>3 DEF IInv, ReapInv, TypeOK, locals
<1>11. OneActivePerProject'
  <2>1. \A t \in Sessions : status'[t] \in Active => status[t] \in Active
    BY <1>1, <1>3 DEF Active
  <2> QED BY <2>1, SessionPairs DEF IInv, OneActivePerProject, ActiveIn
<1> QED BY <1>6, <1>7, <1>8, <1>9, <1>10, <1>11 DEF IInv

LEMMA RunnerStepsKeep ==
  ASSUME TypeOK, IInv, NEW s \in Sessions, Runner(s)
  PROVE  IInv'
<1>1. UNCHANGED <<pc, locals>>
  BY DEF Runner, LoadConfig, LoadConfigFails, ReportBadConfig, StartSession,
     FinalizeSession, HandleSigterm, CrashRunner
<1>2. CASE LoadConfig(s) \/ LoadConfigFails(s)
  <2>1. status' = [status EXCEPT ![s] = status[s]] /\ status[s] \in Status
    BY <1>2 DEF LoadConfig, LoadConfigFails, files, TypeOK
  <2>2. CASE LoadConfig(s)
    BY <1>1, <2>1, <2>2, GoingOnKeeps DEF LoadConfig
  <2>3. CASE LoadConfigFails(s)
    BY <1>1, <2>1, <2>3, GoingOnKeeps DEF LoadConfigFails
  <2> QED BY <1>2, <2>2, <2>3
<1>3. CASE StartSession(s) /\ status[s] # "cancelled"
  <2>1. status' = [status EXCEPT ![s] = "running"] /\ "running" \in Status
    BY <1>3 DEF StartSession, WriteFile, Status, Active
  <2> QED BY <1>1, <1>3, <2>1, GoingOnKeeps DEF StartSession
<1>4. CASE StartSession(s) /\ status[s] = "cancelled"
  <2>1. Exit(s) /\ UNCHANGED status /\ runner[s] \in RunnerAlive
    BY <1>4 DEF StartSession, files, RunnerAlive
  <2> QED BY <1>1, <2>1, EndingRunnersKeep
<1>5. CASE ReportBadConfig(s) \/ FinalizeSession(s) \/ HandleSigterm(s) \/ CrashRunner(s)
  <2>1. Exit(s)
    BY <1>5 DEF ReportBadConfig, FinalizeSession, HandleSigterm, CrashRunner
  <2>2. runner[s] \in RunnerAlive
    BY <1>5 DEF ReportBadConfig, FinalizeSession, HandleSigterm, CrashRunner, RunnerAlive,
       IInv, SignalInv
  <2>3. UNCHANGED status \/ \E st \in Terminal, p \in BOOLEAN : WriteFile(s, st, p)
    BY <1>5 DEF ReportBadConfig, FinalizeSession, HandleSigterm, CrashRunner, files, Terminal
  <2> QED BY <1>1, <2>1, <2>2, <2>3, EndingRunnersKeep
<1> QED BY <1>2, <1>3, <1>4, <1>5 DEF Runner

LEMMA RestartKeeps == TypeOK /\ IInv /\ RestartDaemon => IInv'
<1> SUFFICES ASSUME TypeOK, IInv, RestartDaemon PROVE IInv'
  OBVIOUS
<1>1. UNCHANGED <<status, runner, sigterm>>
  BY DEF RestartDaemon, files, processes
<1>2. \A r \in Requests : ~Launching(r)' /\ ~Cancelling(r)' /\ reap'[r] = {} /\ pc'[r] = "idle"
  BY DEF RestartDaemon, Launching, Cancelling
<1> QED BY <1>1, <1>2 DEF IInv, LaunchInv, LaunchAlone, AbsentInv, YoungRunnerInv, SignalInv,
           ReapInv, CancelInv, WorkingRunnerIsVisible, OneActivePerProject, ActiveIn

LEMMA IStep ==
  ASSUME ~EarlyCancel
  PROVE  TypeOK /\ IInv /\ [Next]_vars => IInv'
<1> SUFFICES ASSUME TypeOK, IInv, [Next]_vars PROVE IInv'
  OBVIOUS
<1>1. CASE \E r \in Requests : Request(r)
  BY <1>1, LocalStepsKeep, EndingRequestsKeep, CreateKeeps, WriteThreadKeeps, SpawnKeeps
     DEF Request
<1>2. CASE \E s \in Sessions : Runner(s)
  BY <1>2, RunnerStepsKeep
<1>3. CASE UNCHANGED vars
  BY <1>3 DEF vars, IInv, LaunchInv, LaunchAlone, AbsentInv, YoungRunnerInv, SignalInv,
     ReapInv, CancelInv, WorkingRunnerIsVisible, OneActivePerProject, ActiveIn,
     Launching, Cancelling, Subject
<1> QED BY <1>1, <1>2, <1>3, RestartKeeps DEF Next

\* One active council per project, for any number of projects, sessions and
\* concurrent requests, with crashes, restarts and failing spawns and ps.
THEOREM OneCouncilPerProject ==
  ASSUME ~EarlyCancel
  PROVE  Spec => []OneActivePerProject
<1>1. IInv => OneActivePerProject
  BY DEF IInv
<1> QED BY <1>1, TypeInit, TypeStep, IInit, IStep, PTL DEF Spec

\* Nobody finishes a session under its working runner.
THEOREM WorkingRunnersAreVisible ==
  ASSUME ~EarlyCancel
  PROVE  Spec => []WorkingRunnerIsVisible
<1>1. IInv => WorkingRunnerIsVisible
  BY DEF IInv
<1> QED BY <1>1, TypeInit, TypeStep, IInit, IStep, PTL DEF Spec

-----------------------------------------------------------------------------
(* What a step does to the status of a session.                            *)

StatusStep(old, new) ==
  \/ new = old
  \/ old = "absent" /\ new = "pending"
  \/ old = "pending" /\ new = "running"
  \/ old \notin {"absent", "converged"} /\ new = "failed"
  \/ old = "running" /\ new = "converged"
  \/ old # "absent" /\ new = "cancelled"

LEMMA StatusSteps ==
  ASSUME TypeOK, IInv, [Next]_vars, NEW s \in Sessions
  PROVE  StatusStep(status[s], status'[s])
<1> USE DEF StatusStep
<1>1. CASE UNCHANGED status
  BY <1>1
<1>2. ASSUME NEW t \in Sessions, NEW st \in Status, NEW p \in BOOLEAN, WriteFile(t, st, p),
             StatusStep(status[t], st)
      PROVE  StatusStep(status[s], status'[s])
  BY <1>2, WriteTypes
<1>3. ASSUME NEW r \in Requests, MarkOrphanFailed(r) PROVE StatusStep(status[s], status'[s])
  <2>1. /\ held[r] \in Sessions /\ copyPid[r] \in BOOLEAN /\ "failed" \in Status
        /\ runner[held[r]] = "exited" /\ status[held[r]] # "converged"
    BY <1>3 DEF MarkOrphanFailed, IInv, ReapInv, TypeOK, Status, Terminal
  <2>2. status[held[r]] # "absent"
    BY <2>1 DEF IInv, AbsentInv
  <2> QED BY <1>2, <1>3, <2>1, <2>2 DEF MarkOrphanFailed
<1>4. ASSUME NEW r \in Requests, CreateSession(r) PROVE StatusStep(status[s], status'[s])
  <2>1. PICK i \in Ids : /\ IsNextSessionId(project[r], i)
                         /\ WriteFile(<<project[r], i>>, "pending", FALSE)
    BY <1>4 DEF CreateSession
  <2>2. <<project[r], i>> \in Sessions /\ "pending" \in Status /\ FALSE \in BOOLEAN
    BY <1>4, SessionPairs DEF CreateSession, Status, Active
  <2>3. status[<<project[r], i>>] = "absent"
    BY <2>1 DEF IsNextSessionId, Ids
  <2> QED BY <1>2, <2>1, <2>2, <2>3
<1>5. ASSUME NEW r \in Requests, WriteThread(r) PROVE StatusStep(status[s], status'[s])
  <2>1. Subject(r) \in Sessions /\ status[Subject(r)] = "pending" /\ "pending" \in Status
    BY <1>5, SubjectType DEF WriteThread, IInv, LaunchInv, Launching, Status, Active
  <2> QED BY <1>2, <1>5, <2>1 DEF WriteThread
<1>6. ASSUME NEW r \in Requests, WriteCancelled(r) PROVE StatusStep(status[s], status'[s])
  <2>1. Subject(r) \in Sessions /\ status[Subject(r)] # "absent" /\ "cancelled" \in Status
    BY <1>6, SubjectType DEF WriteCancelled, IInv, CancelInv, Cancelling, Status, Terminal
  <2> QED BY <1>2, <1>6, <2>1 DEF WriteCancelled
<1>7. ASSUME NEW t \in Sessions, ~UNCHANGED status, StartSession(t)
      PROVE  StatusStep(status[s], status'[s])
  <2>1. status[t] = "pending" /\ "running" \in Status /\ WriteFile(t, "running", TRUE)
    BY <1>7 DEF StartSession, IInv, YoungRunnerInv, files, Status, Active
  <2> QED BY <1>2, <2>1
<1>8. ASSUME NEW t \in Sessions, ReportBadConfig(t) PROVE StatusStep(status[s], status'[s])
  <2>1. status[t] \in {"pending", "cancelled"} /\ "failed" \in Status
    BY <1>8 DEF ReportBadConfig, IInv, YoungRunnerInv, Status, Terminal
  <2> QED BY <1>2, <1>8, <2>1 DEF ReportBadConfig
<1>9. ASSUME NEW t \in Sessions, ~UNCHANGED status, FinalizeSession(t)
      PROVE  StatusStep(status[s], status'[s])
  <2>1. PICK verdict \in {"converged", "failed"} : WriteFile(t, verdict, FALSE)
    BY <1>9 DEF FinalizeSession, files
  <2>2. status[t] = "running" /\ verdict \in Status
    BY <1>9 DEF FinalizeSession, files, IInv, WorkingRunnerIsVisible, Status, Terminal
  <2> QED BY <1>2, <2>1, <2>2
<1>10. ASSUME NEW t \in Sessions, ~UNCHANGED status, HandleSigterm(t)
       PROVE  StatusStep(status[s], status'[s])
  <2>1. WriteFile(t, "cancelled", FALSE) /\ runner[t] \in {"ready", "running"}
    BY <1>10 DEF HandleSigterm, files
  <2>2. status[t] # "absent" /\ "cancelled" \in Status
    BY <2>1 DEF IInv, AbsentInv, Status, Terminal
  <2> QED BY <1>2, <2>1, <2>2
<1> QED
  BY <1>1, <1>3, <1>4, <1>5, <1>6, <1>7, <1>8, <1>9, <1>10
     DEF Next, Request, Runner, BeginPost, BeginList, Begin, ReadOrphan, FinishList,
         RejectPost, SpawnRunner, SpawnFails, RegisterRunner, BeginCancel, PopLauncher,
         SignalByPid, NobodyToSignal, RunnerGone, ForceKill, LoadConfig, LoadConfigFails,
         CrashRunner, RestartDaemon, files, vars

\* A finished session never becomes active again.
THEOREM FinishedForGood ==
  ASSUME ~EarlyCancel
  PROVE  Spec => FinishedStaysFinished
<1> DEFINE Stays == \A s \in Sessions : status[s] \in Terminal => status'[s] \in Terminal
<1>1. TypeOK /\ IInv /\ [Next]_vars => [Stays]_vars
  BY StatusSteps DEF StatusStep, Terminal
<1> QED BY <1>1, TypeInit, TypeStep, IInit, IStep, PTL DEF Spec, FinishedStaysFinished

\* A cancelled session never converges, a converged one never fails.
THEOREM VerdictsAreNotReversed ==
  ASSUME ~EarlyCancel
  PROVE  Spec => VerdictNotReversed
<1> DEFINE Keeps == \A s \in Sessions :
                      /\ status[s] = "cancelled" => status'[s] # "converged"
                      /\ status[s] = "converged" => status'[s] # "failed"
<1>1. TypeOK /\ IInv /\ [Next]_vars => [Keeps]_vars
  BY StatusSteps DEF StatusStep
<1> QED BY <1>1, TypeInit, TypeStep, IInit, IStep, PTL DEF Spec, VerdictNotReversed
=============================================================================
