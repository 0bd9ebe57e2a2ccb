----------------------------- MODULE Capture_proofs -----------------------------
(***************************************************************************)
(* Proofs about the capture of transcripts (Capture): whatever is lost,    *)
(* restarted or fails, and however hooks, requests, slices and the growth  *)
(* of transcripts interleave, no message of a session that has a watermark *)
(* of its own was skipped below it, none is given twice without a reason,  *)
(* and a daemon never has two of its agents run.                           *)
(***************************************************************************)
EXTENDS Capture, TLAPS

TypeOK ==
  /\ active \subseteq Sessions
  /\ written \in [Sessions -> 0..MaxMessages]
  /\ at \in [Sessions -> {"user", "read", "count", "agent", "stop", "signal", "reset"}]
  /\ next \in [Sessions -> {"user", "agent"}]
  /\ seen \in [Sessions -> Nat] /\ counter \in Nat
  /\ inbox \subseteq Sessions \X Kinds
  /\ lock \in [of : Sessions \cup {"nobody"}, to : 0..MaxMessages]
  /\ agent \in {"none", "running", "hung", "exited"}
  /\ watermark \in [Stems -> 0..MaxMessages]
  /\ given \in [Sessions -> [Messages -> 0..2]]
  /\ baselined \in [Sessions -> SUBSET Messages]
  /\ excused \in [Sessions -> SUBSET Messages]
  /\ strays \in Nat /\ orphans \in Nat /\ restarts \in Nat

\* Was n of s handed on, or passed over by a first run?
Covered(s, n) == given[s][n] > 0 \/ n \in baselined[s]
Mark(s) == watermark[Stem(s)]

\* Sessions whose watermark is theirs alone; of the others nothing is claimed.
Owners == {s \in Sessions : HasOwnFile(s)}

\* Nothing is marked that was not said, and nothing marked was skipped.
MarkInv ==
  \A s \in Owners : Mark(s) <= written[s] /\ \A n \in 1..Mark(s) : Covered(s, n)

\* The slice whose watermark is yet to be written reaches beyond the old
\* watermark, and what it will mark was handed on.
LockInv ==
  lock # Free =>
    /\ lock.of \in Sessions /\ lock.to > 0 /\ lock.to <= written[lock.of]
    /\ lock.of \in Owners =>
         Mark(lock.of) <= lock.to /\ \A n \in 1..lock.to : Covered(lock.of, n)

\* What is above the watermark was not given yet, or is in the slice whose
\* watermark is yet to be written, or may be given again.
AboveInv ==
  \A s \in Owners, n \in Messages :
    n > Mark(s) /\ given[s][n] > 0 =>
      \/ n \in excused[s]
      \/ lock.of = s /\ n <= lock.to

TwiceInv == \A s \in Owners, n \in Messages : given[s][n] = 2 => n \in excused[s]

CaptureInv == MarkInv /\ LockInv /\ AboveInv /\ TwiceInv

-----------------------------------------------------------------------------
(* Operators.                                                              *)

LEMMA StemLookup == \A s \in Sessions : Stem(s) \in Stems
  BY DEF Stems

\* The file of a session that has one of its own is nobody else's.
LEMMA OwnStem == \A s \in Owners, t \in Sessions : Stem(s) = Stem(t) => s = t
  <1>1. SUFFICES ASSUME NEW s \in Owners, NEW t \in Sessions, Stem(s) = Stem(t) PROVE s = t
    OBVIOUS
  <1>2. Stem(s) = s /\ s \in Sessions BY DEF Owners, HasOwnFile, Stem
  <1>3. Stem(t) = t \/ Stem(t) \in {"wire", "chat_history"} BY DEF Stem
  <1>4. QED BY <1>1, <1>2, <1>3, SessionAssumption

\* A write to the file of any session leaves those of the owners alone.
LEMMA MarkWrite ==
  ASSUME TypeOK, NEW s \in Sessions, NEW n \in 0..MaxMessages,
         watermark' = [watermark EXCEPT ![Stem(s)] = n]
  PROVE  /\ watermark' \in [Stems -> 0..MaxMessages]
         /\ \A t \in Owners : Mark(t)' = IF t = s THEN n ELSE Mark(t)
  <1>1. watermark \in [Stems -> 0..MaxMessages] BY DEF TypeOK
  <1>2. \A t \in Owners : t \in Sessions BY DEF Owners
  <1>3. QED BY <1>1, <1>2, StemLookup, OwnStem DEF Mark

\* A slice starts above the watermark and ends within the transcript.
LEMMA SliceBounds ==
  ASSUME TypeOK, NEW s \in Sessions, NEW kind \in Kinds, Slice(s, kind) # {}
  PROVE  /\ SliceEnd(s, kind) \in 1..written[s]
         /\ kind # "redo" /\ Mark(s) <= written[s] => Mark(s) < SliceEnd(s, kind)
         /\ kind = "redo" => SliceEnd(s, kind) = written[s]
         /\ \A n \in Messages :
              n \in Slice(s, kind) <=>
                /\ n <= SliceEnd(s, kind)
                /\ n > Mark(s) \/ kind = "redo" \/ Mark(s) > written[s]
  <1>1. Mark(s) \in Nat /\ written[s] \in Nat BY StemLookup, SizeAssumption DEF TypeOK, Mark
  <1>2. Watermark(s, kind) \in Nat
    BY <1>1 DEF Watermark, Mark
  <1>3. SliceEnd(s, kind) \in Nat /\ SliceEnd(s, kind) <= written[s]
    BY <1>1, <1>2, IntervalAssumption DEF SliceEnd
  <1>4. Watermark(s, kind) < SliceEnd(s, kind)
    BY <1>2, <1>3 DEF Slice
  <1>5. kind = "redo" => SliceEnd(s, kind) = written[s]
    BY DEF SliceEnd
  <1>6. kind # "redo" /\ Mark(s) <= written[s] => Mark(s) < SliceEnd(s, kind)
    BY <1>1, <1>4 DEF Watermark, Mark
  <1>7. ASSUME NEW n \in Messages
        PROVE  n \in Slice(s, kind) <=>
                 /\ n <= SliceEnd(s, kind)
                 /\ n > Mark(s) \/ kind = "redo" \/ Mark(s) > written[s]
    <2>1. n \in Nat /\ n > 0 BY SizeAssumption DEF Messages
    <2>2. n \in Slice(s, kind) <=> n > Watermark(s, kind) /\ n <= SliceEnd(s, kind)
      BY <2>1, <1>2, <1>3 DEF Slice
    <2>3. n > Watermark(s, kind) <=> n > Mark(s) \/ kind = "redo" \/ Mark(s) > written[s]
      <3>1. CASE kind = "redo" \/ Mark(s) > written[s]
        BY <3>1, <2>1 DEF Watermark, Mark
      <3>2. CASE ~(kind = "redo" \/ Mark(s) > written[s])
        BY <3>2, <2>1 DEF Watermark, Mark
      <3>3. QED BY <3>1, <3>2
    <2>4. QED BY <2>2, <2>3
  <1>8. QED BY <1>1, <1>3, <1>2, <1>4, <1>5, <1>6, <1>7

\* Giving messages counts each of them once, up to two.
LEMMA GiveCounts ==
  ASSUME TypeOK, NEW s \in Sessions, NEW M, Give(s, M)
  PROVE  /\ given' \in [Sessions -> [Messages -> 0..2]]
         /\ \A t \in Sessions, n \in Messages :
              /\ t # s \/ n \notin M => given'[t][n] = given[t][n]
              /\ t = s /\ n \in M =>
                   /\ given'[t][n] > 0
                   /\ given'[t][n] = 2 => given[t][n] > 0
  <1>1. given \in [Sessions -> [Messages -> 0..2]] BY DEF TypeOK
  <1>2. \A n \in Messages : given[s][n] \in 0..2 BY <1>1
  <1>3. given' = [given EXCEPT ![s] = [n \in Messages |->
                    IF n \in M /\ given[s][n] < 2 THEN given[s][n] + 1 ELSE given[s][n]]]
    BY <1>1 DEF Give
  <1>4. \A n \in Messages : given'[s][n] =
          IF n \in M /\ given[s][n] < 2 THEN given[s][n] + 1 ELSE given[s][n]
    BY <1>1, <1>3
  <1>5. given' \in [Sessions -> [Messages -> 0..2]]
    BY <1>1, <1>2, <1>3
  <1>6. \A t \in Sessions : t # s => given'[t] = given[t] BY <1>1, <1>3
  <1>7. QED BY <1>2, <1>4, <1>5, <1>6

-----------------------------------------------------------------------------
(* Types.                                                                  *)

LEMMA InitTypes == Init => TypeOK
  <1>1. \A n \in {0, FirstRunMax, FirstRunMax + 1} : n \in 0..MaxMessages BY SizeAssumption
  <1>2. QED BY <1>1, HostAssumption DEF Init, TypeOK, Stems, Free

\* The steps of the host: prompts, replies and hooks.
LEMMA HostTypes ==
  ASSUME TypeOK, NEW s \in Sessions,
         Prompt(s) \/ Hook(s) \/ Reply(s) \/ Compact(s) \/ SignalLost(s)
  PROVE  TypeOK'
  <1>1. Says(s) => written' \in [Sessions -> 0..MaxMessages]
    BY SizeAssumption DEF TypeOK, Says
  <1>2. CASE Prompt(s)
    BY <1>1, <1>2 DEF TypeOK, Prompt, Goes, slices, bounds, agents
  <1>3. CASE Reply(s) \/ Compact(s)
    BY <1>1, <1>3 DEF TypeOK, Reply, Compact, Goes, slices, bounds, agents
  <1>4. CASE ReadCounter(s)
    BY <1>4 DEF TypeOK, ReadCounter, Goes, slices, bounds, agents
  <1>5. CASE WriteCounter(s)
    BY <1>5, IntervalAssumption DEF TypeOK, WriteCounter, Goes, slices, bounds, agents
  <1>6. CASE Stop(s)
    BY <1>6 DEF TypeOK, Stop, Goes, slices, bounds, agents
  <1>7. CASE Signal(s) \/ SignalLost(s)
    BY <1>7 DEF TypeOK, Signal, SignalLost, Goes, Kinds, slices, bounds, agents
  <1>8. CASE ResetCounter(s)
    BY <1>8 DEF TypeOK, ResetCounter, Goes, slices, bounds, agents
  <1>9. QED BY <1>2, <1>3, <1>4, <1>5, <1>6, <1>7, <1>8 DEF Hook

\* The steps of a request.
LEMMA RequestTypes ==
  ASSUME TypeOK, NEW s \in Sessions, NEW kind \in Kinds,
         \/ Request(s, kind) \/ Handle(s, kind)
         \/ NoBackend(s, kind) \/ StartWhole(s, kind)
  PROVE  TypeOK'
  <1>1. written[s] \in 0..MaxMessages /\ 1..written[s] \subseteq Messages
    BY SizeAssumption DEF TypeOK, Messages
  <1>2. CASE Request(s, kind)
    BY <1>2 DEF TypeOK, Request, host, slices, agents
  <1>3. CASE AlreadyRunning(s, kind)
    BY <1>3 DEF TypeOK, AlreadyRunning, Handles, host, slices, bounds, agents
  <1>4. CASE SetBaseline(s, kind)
    <2>1. watermark' \in [Stems -> 0..MaxMessages]
      BY <1>1, <1>4 DEF TypeOK, SetBaseline
    <2>2. baselined' \in [Sessions -> SUBSET Messages]
      BY <1>1, <1>4 DEF TypeOK, SetBaseline
    <2>3. QED
      BY <1>4, <2>1, <2>2 DEF TypeOK, SetBaseline, Refuses, Handles, Prune, host, bounds
  <1>5. CASE NothingNew(s, kind) \/ NoBackend(s, kind)
    BY <1>5 DEF TypeOK, NothingNew, NoBackend, Refuses, Handles, Prune, host, slices, bounds
  <1>6. CASE Start(s, kind)
    <2>1. SliceEnd(s, kind) \in 0..MaxMessages
      BY <1>1, <1>6, SliceBounds, SizeAssumption DEF Start
    <2>2. given' \in [Sessions -> [Messages -> 0..2]]
      BY <1>6, GiveCounts DEF Start
    <2>3. excused' \in [Sessions -> SUBSET Messages]
      BY <1>1, <1>6 DEF Start, TypeOK
    <2>4. lock' \in [of : Sessions \cup {"nobody"}, to : 0..MaxMessages]
      BY <1>6, <2>1 DEF Start
    <2>5. QED
      BY <1>6, <2>2, <2>3, <2>4 DEF TypeOK, Start, Handles, Prune, Register, host, bounds, agents
  <1>7. CASE StartWhole(s, kind)
    <2>1. given' \in [Sessions -> [Messages -> 0..2]]
      BY <1>7, GiveCounts DEF StartWhole
    <2>2. excused' \in [Sessions -> SUBSET Messages]
      BY <1>1, <1>7 DEF StartWhole, TypeOK
    <2>3. QED BY <1>7, <2>1, <2>2 DEF TypeOK, StartWhole, Handles, Prune, Register, host, bounds, agents
  <1>8. QED BY <1>2, <1>3, <1>4, <1>5, <1>6, <1>7 DEF Handle

\* The slice that was handed on is excused when its watermark is not written.
LEMMA UnrecordedTypes ==
  ASSUME TypeOK, Unrecorded
  PROVE  excused' \in [Sessions -> SUBSET Messages]
  <1>1. 1..lock.to \subseteq Messages BY SizeAssumption DEF TypeOK, Messages
  <1>2. QED BY <1>1 DEF TypeOK, Unrecorded

\* The steps of the daemon and its agents that no request is a part of.
LEMMA DaemonTypes ==
  ASSUME TypeOK,
         \/ RecordWatermark \/ WatermarkFails \/ Restart
         \/ AgentExits \/ OrphanExits \/ AgentHangs
  PROVE  TypeOK'
  <1>1. Free \in [of : Sessions \cup {"nobody"}, to : 0..MaxMessages]
    BY SizeAssumption DEF Free
  <1>2. CASE RecordWatermark
    <2>1. watermark' \in [Stems -> 0..MaxMessages]
      BY <1>2, SizeAssumption DEF TypeOK, RecordWatermark
    <2>2. QED BY <1>1, <1>2, <2>1 DEF TypeOK, RecordWatermark, host, bounds, agents
  <1>3. CASE WatermarkFails
    BY <1>1, <1>3, UnrecordedTypes DEF TypeOK, WatermarkFails, host, agents
  <1>4. CASE Restart
    BY <1>1, <1>4, UnrecordedTypes DEF TypeOK, Restart, host, agents, Running
  <1>5. CASE AgentExits
    BY <1>5 DEF TypeOK, AgentExits, host, slices, bounds, agents
  <1>6. CASE OrphanExits
    BY <1>6 DEF TypeOK, OrphanExits, host, slices, bounds, agents
  <1>7. CASE AgentHangs
    BY <1>7 DEF TypeOK, AgentHangs, host, slices, agents
  <1>8. QED BY <1>2, <1>3, <1>4, <1>5, <1>6, <1>7

\* The types of every variable are kept, whoever shares a watermark.
THEOREM TypeCorrect == Spec => []TypeOK
  <1>1. TypeOK /\ [Next]_vars => TypeOK'
    <2>1. SUFFICES ASSUME TypeOK, [Next]_vars PROVE TypeOK' OBVIOUS
    <2>2. ASSUME NEW s \in Sessions,
                 Prompt(s) \/ Hook(s) \/ Reply(s) \/ Compact(s) \/ SignalLost(s)
          PROVE  TypeOK'
      BY <2>1, <2>2, HostTypes
    <2>3. ASSUME NEW s \in Sessions, NEW kind \in Kinds,
                 \/ Request(s, kind) \/ Handle(s, kind)
                 \/ NoBackend(s, kind) \/ StartWhole(s, kind)
          PROVE  TypeOK'
      BY <2>1, <2>3, RequestTypes
    <2>4. CASE \/ RecordWatermark \/ WatermarkFails \/ Restart
               \/ AgentExits \/ OrphanExits \/ AgentHangs
      BY <2>1, <2>4, DaemonTypes
    <2>5. CASE UNCHANGED vars
      BY <2>1, <2>5 DEF TypeOK, vars, host, slices, bounds, agents
    <2>6. QED BY <2>1, <2>2, <2>3, <2>4, <2>5 DEF Next
  <1>2. QED BY InitTypes, <1>1, PTL DEF Spec

-----------------------------------------------------------------------------
(* The inductive invariant of the slices.                                  *)

LEMMA InitCapture == Init => CaptureInv
  <1>1. SUFFICES ASSUME Init PROVE CaptureInv OBVIOUS
  <1>2. TypeOK BY <1>1, InitTypes
  <1>3. \A s \in Owners : s \in Sessions /\ Mark(s) = 0
    BY <1>1 DEF Init, Mark, Owners
  <1>4. MarkInv BY <1>2, <1>3, SizeAssumption DEF MarkInv, TypeOK
  <1>5. LockInv BY <1>1 DEF Init, LockInv
  <1>6. AboveInv /\ TwiceInv BY <1>1 DEF Init, AboveInv, TwiceInv, Owners
  <1>7. QED BY <1>4, <1>5, <1>6 DEF CaptureInv

\* A transcript may grow at any time.
LEMMA GrowthKeeps ==
  ASSUME TypeOK, TypeOK', CaptureInv, UNCHANGED <<lock, slices>>,
         \A s \in Sessions : written[s] <= written'[s]
  PROVE  CaptureInv'
  <1>1. \A s \in Sessions : written[s] \in Nat /\ written'[s] \in Nat /\ Mark(s) \in Nat
    BY StemLookup, SizeAssumption DEF TypeOK, Mark
  <1>2. lock.to \in Nat BY SizeAssumption DEF TypeOK
  <1>3. \A s \in Sessions : Mark(s)' = Mark(s) BY DEF Mark, slices
  <1>4. \A s \in Sessions : \A n : Covered(s, n)' = Covered(s, n) BY DEF Covered, slices
  <1>5. \A s \in Owners : s \in Sessions BY DEF Owners
  <1>6. MarkInv' BY <1>1, <1>3, <1>4, <1>5 DEF CaptureInv, MarkInv
  <1>7. LockInv' BY <1>1, <1>2, <1>3, <1>4 DEF CaptureInv, LockInv
  <1>8. AboveInv' /\ TwiceInv' BY <1>3, <1>5 DEF CaptureInv, AboveInv, TwiceInv, slices
  <1>9. QED BY <1>6, <1>7, <1>8 DEF CaptureInv

\* A first run passes over what was said before it.
LEMMA BaselineKeeps ==
  ASSUME TypeOK, TypeOK', CaptureInv,
         NEW s \in Sessions, NEW kind \in Kinds, SetBaseline(s, kind)
  PROVE  CaptureInv'
  <1>1. \A t \in Sessions : written[t] \in 0..MaxMessages /\ Mark(t) \in Nat
    BY StemLookup, SizeAssumption DEF TypeOK, Mark
  <1>2. written' = written /\ given' = given /\ excused' = excused /\ lock = Free /\ lock' = Free
    BY DEF SetBaseline, Refuses, Handles, host
  <1>3. \A t \in Owners : Mark(t)' = IF t = s THEN written[s] ELSE Mark(t)
    BY <1>1, MarkWrite DEF SetBaseline
  <1>4. \A t \in Owners : t \in Sessions /\ Mark(t) <= written[t]
    BY DEF CaptureInv, MarkInv, Owners
  <1>5. \A t \in Sessions, n \in Nat :
          /\ Covered(t, n) => Covered(t, n)'
          /\ t = s /\ n \in 1..written[s] => Covered(t, n)'
    BY <1>2 DEF Covered, SetBaseline, TypeOK
  <1>6. MarkInv'
    <2>1. SUFFICES ASSUME NEW t \in Owners
                   PROVE  Mark(t)' <= written'[t] /\ \A n \in 1..Mark(t)' : Covered(t, n)'
      BY DEF MarkInv
    <2>2. CASE t = s
      <3>1. Mark(t)' = written[t] BY <1>3, <2>2
      <3>2. \A n \in 1..written[t] : Covered(t, n)' BY <1>1, <1>5, <2>2 DEF Covered
      <3>3. QED BY <1>1, <1>2, <1>4, <2>2, <3>1, <3>2
    <2>3. CASE t # s
      <3>1. Mark(t)' = Mark(t) BY <1>3, <2>3
      <3>2. \A n \in 1..Mark(t) : Covered(t, n)' BY <1>1, <1>4, <1>5 DEF CaptureInv, MarkInv, Covered
      <3>3. QED BY <1>2, <3>1, <3>2 DEF CaptureInv, MarkInv
    <2>4. QED BY <2>2, <2>3
  <1>7. LockInv' BY <1>2 DEF LockInv
  <1>8. AboveInv'
    BY <1>1, <1>2, <1>3, <1>4, SizeAssumption DEF CaptureInv, AboveInv, Messages
  <1>9. TwiceInv' BY <1>2 DEF CaptureInv, TwiceInv
  <1>10. QED BY <1>6, <1>7, <1>8, <1>9 DEF CaptureInv

\* An agent gets what is above the watermark, or what it was asked to redo.
LEMMA StartKeeps ==
  ASSUME TypeOK, TypeOK', CaptureInv, NEW s \in Sessions, NEW kind \in Kinds, Start(s, kind)
  PROVE  CaptureInv'
  <1>1. /\ \A t \in Sessions : written[t] \in 0..MaxMessages /\ Mark(t) \in Nat
        /\ \A t \in Owners : t \in Sessions /\ Mark(t) <= written[t]
    BY StemLookup, SizeAssumption DEF TypeOK, Mark, CaptureInv, MarkInv, Owners
  <1>2. /\ written' = written /\ watermark' = watermark /\ baselined' = baselined
        /\ lock = Free /\ lock' = [of |-> s, to |-> SliceEnd(s, kind)]
    BY DEF Start, Handles, host
  <1>a. SliceEnd(s, kind) \in 1..written[s]
    BY SliceBounds DEF Start
  <1>3. ASSUME s \in Owners
        PROVE  /\ Mark(s) <= SliceEnd(s, kind)
               /\ \A n \in Messages :
                    n \in Slice(s, kind) <=> n <= SliceEnd(s, kind) /\ (n > Mark(s) \/ kind = "redo")
    <2>1. Slice(s, kind) # {} BY DEF Start
    <2>2. SliceEnd(s, kind) \in 1..written[s]
      BY <2>1, SliceBounds
    <2>3. Mark(s) <= SliceEnd(s, kind)
      <3>1. CASE kind = "redo" BY <1>1, <1>3, <2>1, <3>1, SliceBounds
      <3>2. CASE kind # "redo"
        <4>1. Mark(s) < SliceEnd(s, kind) BY <1>1, <1>3, <2>1, <3>2, SliceBounds
        <4>2. QED BY <1>1, <2>2, <4>1
      <3>3. QED BY <3>1, <3>2
    <2>4. ~(Mark(s) > written[s]) BY <1>1, <1>3
    <2>5. QED BY <2>1, <2>3, <2>4, SliceBounds
  <1>4. \A t \in Sessions : Mark(t)' = Mark(t) BY <1>2 DEF Mark
  <1>5. \A t \in Sessions, n \in Messages :
          /\ t # s \/ n \notin Slice(s, kind) => given'[t][n] = given[t][n]
          /\ t = s /\ n \in Slice(s, kind) =>
               given'[t][n] > 0 /\ (given'[t][n] = 2 => given[t][n] > 0)
    BY GiveCounts DEF Start
  <1>6. \A t \in Sessions, n \in Messages : given[t][n] \in 0..2 /\ given'[t][n] \in 0..2
    BY DEF TypeOK
  <1>7. \A t \in Sessions : excused[t] \subseteq excused'[t]
    BY DEF Start, TypeOK
  <1>8. kind = "redo" => 1..written[s] \subseteq excused'[s]
    BY DEF Start, TypeOK
  <1>9. \A t \in Sessions, n \in Messages : Covered(t, n) => Covered(t, n)'
    BY <1>2, <1>5, <1>6 DEF Covered
  <1>10. s \in Owners => \A n \in 1..SliceEnd(s, kind) : Covered(s, n)'
    <2>1. SUFFICES ASSUME s \in Owners, NEW n \in 1..SliceEnd(s, kind) PROVE Covered(s, n)'
      OBVIOUS
    <2>2. n \in Messages BY <1>1, <1>a, SizeAssumption DEF Messages
    <2>3. CASE n \in Slice(s, kind) BY <1>5, <2>2, <2>3 DEF Covered
    <2>4. CASE n \notin Slice(s, kind)
      <3>1. n <= Mark(s) BY <1>1, <1>3, <2>1, <2>2, <2>4
      <3>2. Covered(s, n) BY <1>1, <2>1, <3>1 DEF CaptureInv, MarkInv
      <3>3. QED BY <1>9, <2>2, <3>2
    <2>5. QED BY <2>3, <2>4
  <1>11. MarkInv'
    <2>1. \A t \in Owners : 1..Mark(t) \subseteq Messages
      BY <1>1, SizeAssumption DEF Messages
    <2>2. QED BY <1>1, <1>2, <1>4, <1>9, <2>1 DEF CaptureInv, MarkInv
  <1>12. LockInv'
    <2>1. lock'.of = s /\ lock'.to = SliceEnd(s, kind) BY <1>2
    <2>2. SliceEnd(s, kind) > 0 /\ SliceEnd(s, kind) <= written'[s] BY <1>1, <1>2, <1>a
    <2>3. s \in Owners =>
            /\ Mark(s)' <= SliceEnd(s, kind)
            /\ \A n \in 1..SliceEnd(s, kind) : Covered(s, n)'
      BY <1>3, <1>4, <1>10
    <2>4. QED BY <2>1, <2>2, <2>3 DEF LockInv
  <1>13. AboveInv'
    <2>1. SUFFICES ASSUME NEW t \in Owners, NEW n \in Messages,
                          n > Mark(t), given'[t][n] > 0
                   PROVE  n \in excused'[t] \/ (lock'.of = t /\ n <= lock'.to)
      BY <1>1, <1>4 DEF AboveInv
    <2>2. CASE t = s /\ n \in Slice(s, kind) BY <1>2, <1>3, <2>2
    <2>3. CASE t # s \/ n \notin Slice(s, kind)
      <3>1. given[t][n] > 0 BY <1>1, <1>5, <2>1, <2>3
      <3>2. n \in excused[t]
        BY <1>2, <2>1, <3>1, SizeAssumption DEF CaptureInv, AboveInv, Free, Messages
      <3>3. QED BY <1>1, <1>7, <3>2
    <2>4. QED BY <2>2, <2>3
  <1>14. TwiceInv'
    <2>1. SUFFICES ASSUME NEW t \in Owners, NEW n \in Messages, given'[t][n] = 2
                   PROVE  n \in excused'[t]
      BY DEF TwiceInv
    <2>2. CASE t = s /\ n \in Slice(s, kind)
      <3>1. given[s][n] > 0 BY <1>5, <2>1, <2>2
      <3>2. CASE kind = "redo"
        <4>1. n \in 1..written[s] BY <1>1, <1>a, <1>3, <2>2, SizeAssumption DEF Messages
        <4>2. QED BY <1>8, <2>2, <3>2, <4>1
      <3>3. CASE kind # "redo"
        <4>1. n > Mark(s) BY <1>3, <2>2, <3>3
        <4>2. n \in excused[s]
          BY <1>2, <2>2, <3>1, <4>1, SizeAssumption DEF CaptureInv, AboveInv, Free, Messages
        <4>3. QED BY <1>7, <2>2, <4>2
      <3>4. QED BY <3>2, <3>3
    <2>3. CASE t # s \/ n \notin Slice(s, kind)
      BY <1>1, <1>5, <1>7, <2>1, <2>3 DEF CaptureInv, TwiceInv
    <2>4. QED BY <2>2, <2>3
  <1>15. QED BY <1>11, <1>12, <1>13, <1>14 DEF CaptureInv

\* An agent that gets the whole transcript gets what may be given again.
LEMMA StartWholeKeeps ==
  ASSUME TypeOK, TypeOK', CaptureInv,
         NEW s \in Sessions, NEW kind \in Kinds, StartWhole(s, kind)
  PROVE  CaptureInv'
  <1>1. /\ written' = written /\ watermark' = watermark /\ baselined' = baselined /\ lock' = lock
        /\ lock = Free
    BY DEF StartWhole, Handles, host
  <1>2. \A t \in Sessions : Mark(t)' = Mark(t) /\ Mark(t) \in 0..MaxMessages
    BY <1>1, StemLookup DEF Mark, TypeOK
  <1>3. \A t \in Sessions, n \in Messages :
          /\ t # s \/ n \notin 1..written[s] => given'[t][n] = given[t][n]
          /\ t = s /\ n \in 1..written[s] => given'[t][n] > 0
    BY GiveCounts DEF StartWhole
  <1>4. \A t \in Sessions : excused[t] \subseteq excused'[t]
    BY DEF StartWhole, TypeOK
  <1>5. 1..written[s] \subseteq excused'[s]
    BY DEF StartWhole, TypeOK
  <1>6. \A t \in Sessions, n \in Messages : Covered(t, n) => Covered(t, n)'
    BY <1>1, <1>3 DEF Covered
  <1>7. MarkInv'
    <2>1. \A t \in Owners : t \in Sessions /\ 1..Mark(t) \subseteq Messages
      BY <1>2, SizeAssumption DEF Messages, Owners
    <2>2. QED BY <1>1, <1>2, <1>6, <2>1 DEF CaptureInv, MarkInv
  <1>8. LockInv' BY <1>1 DEF LockInv
  <1>9. AboveInv'
    BY <1>1, <1>2, <1>3, <1>4, <1>5 DEF CaptureInv, AboveInv, Owners
  <1>10. TwiceInv'
    BY <1>3, <1>4, <1>5 DEF CaptureInv, TwiceInv, Owners
  <1>11. QED BY <1>7, <1>8, <1>9, <1>10 DEF CaptureInv

\* The watermark rises to the end of the slice that was handed on.
LEMMA RecordKeeps ==
  ASSUME TypeOK, TypeOK', CaptureInv, RecordWatermark
  PROVE  CaptureInv'
  <1> DEFINE s == lock.of
  <1>1. /\ s \in Sessions /\ lock.to \in 1..MaxMessages /\ lock.to <= written[s]
        /\ s \in Owners => Mark(s) <= lock.to /\ \A n \in 1..lock.to : Covered(s, n)
    BY SizeAssumption DEF RecordWatermark, CaptureInv, LockInv, TypeOK
  <1>2. /\ written' = written /\ given' = given /\ baselined' = baselined
        /\ excused' = excused /\ lock' = Free
    BY DEF RecordWatermark, host
  <1>3. \A t \in Owners : t \in Sessions /\ Mark(t)' = IF t = s THEN lock.to ELSE Mark(t)
    <2>1. lock.to \in 0..MaxMessages BY <1>1
    <2>2. QED BY <1>1, <2>1, MarkWrite DEF RecordWatermark, Owners
  <1>4. \A t \in Sessions : \A n : Covered(t, n)' = Covered(t, n) BY <1>2 DEF Covered
  <1>5. MarkInv' BY <1>1, <1>2, <1>3, <1>4 DEF CaptureInv, MarkInv
  <1>6. LockInv' BY <1>2 DEF LockInv
  <1>7. AboveInv'
    <2>1. SUFFICES ASSUME NEW t \in Owners, NEW n \in Messages,
                          n > Mark(t)', given[t][n] > 0
                   PROVE  n \in excused[t]
      BY <1>2 DEF AboveInv
    <2>2. n > Mark(t) /\ ~(lock.of = t /\ n <= lock.to)
      <3>1. n \in Nat /\ Mark(t) \in Nat
        BY <1>3, StemLookup, SizeAssumption DEF Messages, Mark, TypeOK
      <3>2. QED BY <1>1, <1>3, <2>1, <3>1
    <2>3. QED BY <2>1, <2>2 DEF CaptureInv, AboveInv
  <1>8. TwiceInv' BY <1>2 DEF CaptureInv, TwiceInv
  <1>9. QED BY <1>5, <1>6, <1>7, <1>8 DEF CaptureInv

\* The slice is forgotten: what was given of it may be given again.
LEMMA UnrecordedKeeps ==
  ASSUME TypeOK, TypeOK', CaptureInv, Unrecorded, lock' = Free,
         UNCHANGED <<host, watermark, given, baselined>>
  PROVE  CaptureInv'
  <1>1. written' = written BY DEF host
  <1>2. \A s \in Sessions : Mark(s)' = Mark(s) BY DEF Mark
  <1>3. \A s \in Sessions : \A n : Covered(s, n)' = Covered(s, n) BY DEF Covered
  <1>4. \A s \in Sessions : excused[s] \subseteq excused'[s] BY DEF Unrecorded
  <1>5. \A s \in Sessions, n \in Messages : lock.of = s /\ n <= lock.to => n \in excused'[s]
    <2>1. lock.to \in Nat BY SizeAssumption DEF TypeOK
    <2>2. \A n \in Messages : n <= lock.to => n \in 1..lock.to
      BY <2>1, SizeAssumption DEF Messages
    <2>3. QED BY <2>2 DEF Unrecorded
  <1>6. MarkInv' BY <1>1, <1>2, <1>3 DEF CaptureInv, MarkInv, Owners
  <1>7. LockInv' BY DEF LockInv
  <1>8. AboveInv' BY <1>2, <1>4, <1>5 DEF CaptureInv, AboveInv, Owners
  <1>9. TwiceInv' BY <1>4 DEF CaptureInv, TwiceInv, Owners
  <1>10. QED BY <1>6, <1>7, <1>8, <1>9 DEF CaptureInv

LEMMA CaptureNext == TypeOK /\ CaptureInv /\ [Next]_vars /\ TypeOK' => CaptureInv'
  <1>1. SUFFICES ASSUME TypeOK, CaptureInv, [Next]_vars, TypeOK'
                 PROVE  CaptureInv'
    OBVIOUS
  <1>2. (\A s \in Sessions : written[s] <= written'[s]) /\ UNCHANGED <<lock, slices>> => CaptureInv'
    BY <1>1, GrowthKeeps
  <1>3. \A s \in Sessions : written[s] \in Nat BY <1>1, SizeAssumption DEF TypeOK
  <1>4. written' = written /\ UNCHANGED <<lock, slices>> => CaptureInv'
    BY <1>2, <1>3
  <1>5. ASSUME NEW s \in Sessions, Prompt(s) \/ Reply(s) \/ Compact(s)
        PROVE  CaptureInv'
    <2>1. written' = [written EXCEPT ![s] = IF @ < MaxMessages THEN @ + 1 ELSE @]
      BY <1>5 DEF Prompt, Reply, Compact, Says
    <2>2. \A t \in Sessions : written[t] <= written'[t]
      BY <1>1, <1>3, <2>1 DEF TypeOK
    <2>3. UNCHANGED <<lock, slices>> BY <1>5 DEF Prompt, Reply, Compact
    <2>4. QED BY <1>2, <2>2, <2>3
  <1>6. ASSUME NEW s \in Sessions, Hook(s) \/ SignalLost(s)
        PROVE  CaptureInv'
    <2>1. written' = written /\ UNCHANGED <<lock, slices>>
      BY <1>6 DEF Hook, ReadCounter, WriteCounter, Stop, Signal, ResetCounter, SignalLost
    <2>2. QED BY <1>4, <2>1
  <1>7. ASSUME NEW s \in Sessions, NEW kind \in Kinds,
               \/ Request(s, kind) \/ Handle(s, kind)
               \/ NoBackend(s, kind) \/ StartWhole(s, kind)
        PROVE  CaptureInv'
    <2>1. CASE \/ Request(s, kind) \/ AlreadyRunning(s, kind)
               \/ NothingNew(s, kind) \/ NoBackend(s, kind)
      <3>1. written' = written /\ UNCHANGED <<lock, slices>>
        BY <2>1 DEF Request, AlreadyRunning, NothingNew, NoBackend, Refuses, host
      <3>2. QED BY <1>4, <3>1
    <2>2. CASE SetBaseline(s, kind) BY <1>1, <2>2, BaselineKeeps
    <2>3. CASE Start(s, kind) BY <1>1, <2>3, StartKeeps
    <2>4. CASE StartWhole(s, kind) BY <1>1, <2>4, StartWholeKeeps
    <2>5. QED BY <1>7, <2>1, <2>2, <2>3, <2>4 DEF Handle
  <1>8. CASE RecordWatermark BY <1>1, <1>8, RecordKeeps
  <1>9. CASE WatermarkFails \/ Restart
    BY <1>1, <1>9, UnrecordedKeeps DEF WatermarkFails, Restart
  <1>10. CASE AgentExits \/ OrphanExits \/ AgentHangs
    <2>1. written' = written /\ UNCHANGED <<lock, slices>>
      BY <1>10 DEF AgentExits, OrphanExits, AgentHangs, host
    <2>2. QED BY <1>4, <2>1
  <1>11. CASE UNCHANGED vars
    BY <1>4, <1>11 DEF vars, host
  <1>12. QED BY <1>1, <1>5, <1>6, <1>7, <1>8, <1>9, <1>10, <1>11 DEF Next

-----------------------------------------------------------------------------
(* The theorems.                                                           *)

\* What is below a session's watermark was given to an agent or lies before
\* its first run, and nothing is given twice without a reason: for every number
\* of sessions, transcripts of any length, any interval and batch size, and
\* any number of faults (services.py, trigger_extraction).
THEOREM CapturedOnceHolds == Spec => []CapturedOnce
  <1>2. Init => CaptureInv BY InitCapture
  <1>3. TypeOK /\ TypeOK' /\ CaptureInv /\ [Next]_vars => CaptureInv' BY CaptureNext
  <1>4. TypeOK /\ CaptureInv => CapturedOnce
    <2>1. SUFFICES ASSUME TypeOK, CaptureInv PROVE CapturedOnce OBVIOUS
    <2>2. active \subseteq Sessions BY <2>1 DEF TypeOK
    <2>3. NothingSkipped
      <3>1. SUFFICES ASSUME NEW s \in active, HasOwnFile(s), NEW n \in 1..written[s], n <= Mark(s)
                     PROVE  Covered(s, n)
        BY DEF NothingSkipped, Mark, Covered
      <3>2. Mark(s) \in Nat BY <2>1, <2>2, StemLookup, SizeAssumption DEF TypeOK, Mark
      <3>3. n \in 1..Mark(s) BY <3>1, <3>2
      <3>4. s \in Owners BY <2>2, <3>1 DEF Owners
      <3>5. QED BY <2>1, <3>3, <3>4 DEF CaptureInv, MarkInv
    <2>4. GivenOnce BY <2>1, <2>2 DEF CaptureInv, TwiceInv, GivenOnce, Owners
    <2>5. QED BY <2>3, <2>4 DEF CapturedOnce
  <1>5. Spec => []TypeOK BY TypeCorrect
  <1>6. QED BY <1>2, <1>3, <1>4, <1>5, PTL DEF Spec

\* Of the agents a daemon has started at most one runs, for any number of
\* sessions, requests and faults: an agent is only started when the registry is
\* empty, and leaves the registry only when it has exited or was killed.  Each
\* restart leaves at most one behind (services.py, trigger_extraction and
\* _prune_finished_extractions).
THEOREM OneAtATimeHolds == Spec => []OneAtATime
  <1> DEFINE Kept == strays = 0 /\ orphans <= restarts
  <1>1. Init => Kept BY DEF Init
  <1>2. TypeOK /\ Kept /\ [Next]_vars => Kept'
    <2>1. SUFFICES ASSUME TypeOK, Kept, [Next]_vars PROVE Kept' OBVIOUS
    <2>2. orphans \in Nat /\ restarts \in Nat BY <2>1 DEF TypeOK
    <2>3. UNCHANGED <<strays, orphans, restarts>> => Kept' BY <2>1
    <2>4. ASSUME NEW s \in Sessions,
                 Prompt(s) \/ Hook(s) \/ Reply(s) \/ Compact(s) \/ SignalLost(s)
          PROVE  Kept'
      BY <2>3, <2>4 DEF Prompt, Hook, Reply, Compact, SignalLost, ReadCounter, WriteCounter,
                        Stop, Signal, ResetCounter, agents, bounds
    <2>5. ASSUME NEW s \in Sessions, NEW kind \in Kinds,
                 \/ Request(s, kind) \/ Handle(s, kind)
                 \/ NoBackend(s, kind) \/ StartWhole(s, kind)
          PROVE  Kept'
      <3>1. Prune.lost = 0 /\ (~Busy => Prune.registered # "running") BY DEF Prune, Busy
      <3>2. CASE Request(s, kind) \/ AlreadyRunning(s, kind)
        BY <2>3, <3>2 DEF Request, AlreadyRunning, agents, bounds
      <3>3. CASE SetBaseline(s, kind) \/ NothingNew(s, kind) \/ NoBackend(s, kind)
        BY <2>1, <2>2, <3>1, <3>3 DEF SetBaseline, NothingNew, NoBackend, Refuses, bounds
      <3>4. CASE Start(s, kind) \/ StartWhole(s, kind)
        BY <2>1, <2>2, <3>1, <3>4 DEF Start, StartWhole, Register, bounds
      <3>5. QED BY <2>5, <3>2, <3>3, <3>4 DEF Handle
    <2>6. CASE RecordWatermark \/ WatermarkFails \/ AgentExits \/ AgentHangs
      BY <2>3, <2>6 DEF RecordWatermark, WatermarkFails, AgentExits, AgentHangs, agents, bounds
    <2>7. CASE OrphanExits
      BY <2>1, <2>2, <2>7 DEF OrphanExits, bounds
    <2>8. CASE Restart
      <3>1. Running \in {0, 1} BY <2>1 DEF Running
      <3>2. QED BY <2>1, <2>2, <2>8, <3>1 DEF Restart
    <2>9. CASE UNCHANGED vars BY <2>3, <2>9 DEF vars, agents, bounds
    <2>10. QED BY <2>1, <2>4, <2>5, <2>6, <2>7, <2>8, <2>9 DEF Next
  <1>3. Kept => OneAtATime BY DEF OneAtATime, Running
  <1>4. QED BY <1>1, <1>2, <1>3, TypeCorrect, PTL DEF Spec
=============================================================================
