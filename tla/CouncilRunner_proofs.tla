------------------------ MODULE CouncilRunner_proofs ------------------------
(***************************************************************************)
(* Proofs about one council runner (CouncilRunner), for any roster, any    *)
(* number of rounds and any spokesperson: types, what its session file and *)
(* the board say about each other, and what it leaves behind.              *)
(***************************************************************************)
EXTENDS CouncilRunner, FiniteSetTheorems, SequenceTheorems, TLAPS

-----------------------------------------------------------------------------
(* The inductive invariant, in layers: each layer is proved with the help  *)
(* of the ones before it.                                                  *)

Working == {"build", "persist", "head", "turns", "synthesis", "fallback", "record"}

NoRepeats(s) == \A i, j \in DOMAIN s : s[i] = s[j] => i = j

\* Which phase and which round go with which place of the main thread.
PhaseInv ==
  /\ main \in {"start", "build"} => phase = "build" /\ participants = <<>>
  /\ main \in {"head", "synthesis", "fallback"} \/ phase # "build" => round # 0
  /\ main = "turns" => phase \in {"round", "primary", "fallback"}
  /\ main \in {"turns", "persist"} /\ phase \in {"round", "skip"} => round \in 1..Rounds
  /\ NoRepeats(participants)

IsStart(short, long) ==
  Len(short) <= Len(long) /\ \A i \in DOMAIN short : short[i] = long[i]

\* What is missing at the end of short are turns of the synthesis.
ButSynthesis(short, long) ==
  /\ IsStart(short, long)
  /\ \A i \in DOMAIN long : i > Len(short) => long[i].round = SynthesisRound

\* A file operation raised inside _run_synthesis: the runner's copy is the
\* caller's.
SynthesisLost == IoFaults /\ mem.status = "failed" /\ ButSynthesis(mem.turns, disk.turns)

\* Statuses: the file of a working runner is running or cancelled, a cancelled
\* file stays so, and otherwise the runner's copy has the file's turns.
StatusInv ==
  /\ main = "start" => /\ disk.status \in {"pending", "cancelled"} /\ disk.turns = <<>>
                       /\ mem.status = "pending" /\ mem.turns = <<>>
  /\ main \in Working \cup {"finalize"} => disk.status \in {"running", "cancelled"}
  /\ main = "unwind" => disk.status = "cancelled"
  /\ main \in Working => mem.status = "running"
  /\ mem.status = "cancelled" => disk.status = "cancelled"
  /\ main = "finalize" => mem.status # "pending"
  /\ main = "finalize" /\ mem.status = "running" => disk.status = "cancelled"
  /\ disk.status # "cancelled" => mem.turns = disk.turns \/ SynthesisLost

\* Whichever session run_council_session's except clause finds, it has what the
\* file has but for the synthesis.
CallerInv ==
  main = "fallback" \/ (main \in Working /\ phase \in {"primary", "fallback"}) =>
    /\ caller.record = FALSE
    /\ disk.status # "cancelled" => ButSynthesis(caller.turns, disk.turns)

Busy(m) == turn[m] \notin {"off", "over"}
Heard(m) == result[m].result # "none"

\* Turns are under way only in the main thread's turns, or in worker threads a
\* cancelled runner still waits for; only participants have them.
IdleInv ==
  \A m \in Members :
    /\ Busy(m) => main = "turns" \/ (main \in {"unwind", "exit"} /\ disk.status = "cancelled")
    /\ turn[m] # "off" \/ Heard(m) => IsParticipant(m)

\* A CLI runs only while its turn waits for it, or after a signal cut that off.
ChildInv ==
  \A m \in Members :
    child[m] = "alive" => turn[m] \in {"register", "wait"} \/ main = "killed" \/ signal = "raised"

\* Whose turns they are.
SpeakerInv ==
  /\ main = "turns" /\ phase = "primary" =>
       \A m \in Members : Busy(m) \/ Heard(m) => m = Spokesperson
  /\ main = "turns" /\ phase = "fallback" =>
       \A m, n \in Members : (Busy(m) \/ Heard(m)) /\ (Busy(n) \/ Heard(n)) => m = n /\ m # Spokesperson
  /\ \/ main = "fallback" /\ IsParticipant(Spokesperson)
     \/ main \in {"turns", "persist"} /\ phase = "primary"
     => Spokesperson \in attempted

\* Between turns no results are kept, and a turn's result comes when its
\* process was seen to end.
ResultInv ==
  /\ \/ main \in {"start", "build", "head", "synthesis", "fallback", "record"}
     \/ main = "persist" /\ phase \in {"build", "skip"}
     => \A m \in Members : ~Heard(m)
  /\ \A m \in Members :
       Heard(m) => turn[m] \in {"unregister", "answer", "over"}
  /\ \A m \in Members : result[m].result = "done" => turn[m] = "over"

InRounds == main = "head" \/ (main \in {"turns", "persist"} /\ phase \in {"round", "skip"})
BeforeRounds == main \in {"start", "build"} \/ (main = "persist" /\ phase = "build")
BeforeSynthesis == main = "synthesis" \/ (main \in {"turns", "persist"} /\ phase = "primary")
BeforeFallback == main = "fallback" \/ (main \in {"turns", "persist"} /\ phase = "fallback")

OneTurnPerKey(ts) == \A i, j \in DOMAIN ts : SameKey(ts[i], ts[j]) => i = j

\* What the file can hold so far: no turn of the round in progress.
PastInv ==
  /\ OneTurnPerKey(disk.turns)
  /\ BeforeRounds => disk.turns = <<>>
  /\ \A i \in DOMAIN disk.turns :
       LET t == disk.turns[i]
       IN /\ InRounds => t.round < round \/ (t.round = 1 /\ ~IsParticipant(t.member))
          /\ BeforeSynthesis => t.round <= Rounds
          /\ BeforeFallback => t.round <= Rounds \/ t.member = Spokesperson

\* What a batch to be merged holds.
BatchInv ==
  main = "persist" =>
    /\ OneTurnPerKey(batch)
    /\ \A i \in DOMAIN batch :
         LET t == batch[i]
         IN /\ phase = "build" => t.round = 1 /\ ~IsParticipant(t.member)
            /\ phase \in {"build", "skip"} => t.result = "skipped"
            /\ phase = "round" => t.round = round /\ IsParticipant(t.member)
            /\ phase = "skip" => t.round \in round..Rounds /\ IsParticipant(t.member)
            /\ phase \in {"primary", "fallback"} => t.round = SynthesisRound
            /\ phase = "primary" => t.member = Spokesperson
            /\ phase = "fallback" => t.member # Spokesperson /\ \A j \in DOMAIN batch : batch[j].member = t.member
    /\ \A m \in Members :
         Heard(m) => \E i \in DOMAIN batch :
           batch[i].member = m /\ batch[i].result = result[m].result /\ batch[i].msg = result[m].msg

Posted(m, rnd, msg) == msg \in DOMAIN board /\ board[msg] = <<m, rnd>>

\* Answers on the board, in the results, in the batch and in the file.
PostedInv ==
  /\ \A i \in DOMAIN disk.turns :
       LET t == disk.turns[i] IN t.result = "done" => Posted(t.member, t.round, t.msg)
  /\ main = "persist" => \A i \in DOMAIN batch :
       LET t == batch[i] IN t.result = "done" => Posted(t.member, t.round, t.msg)
  /\ main \in {"turns", "persist"} => \A m \in Members :
       result[m].result = "done" =>
         Posted(m, IF phase = "round" THEN round ELSE SynthesisRound, result[m].msg)

\* A synthesis is answered once.
OneSynthesis(ts) ==
  \A i, j \in DOMAIN ts :
    /\ ts[i].result = "done" /\ ts[i].round = SynthesisRound
    /\ ts[j].result = "done" /\ ts[j].round = SynthesisRound
    => i = j

SynthesisInv == OneSynthesis(disk.turns)

TurnsArePosted(ts) ==
  \A i \in DOMAIN ts : ts[i].result = "done" => Posted(ts[i].member, ts[i].round, ts[i].msg)

\* The cancel request's copy is an earlier state of the file, which may have
\* lost its synthesis since.
FileCameAfter ==
  \/ IsStart(apiCopy.turns, disk.turns)
  \/ /\ main \in {"exit", "exited", "killed"} /\ disk.status \in {"failed", "cancelled"}
     /\ ButSynthesis(disk.turns, apiCopy.turns)

ApiInv ==
  api \in {"signal", "wait", "write"} =>
    /\ apiCopy.record = FALSE
    /\ OneTurnPerKey(apiCopy.turns) /\ OneSynthesis(apiCopy.turns) /\ TurnsArePosted(apiCopy.turns)
    /\ FileCameAfter

InFile(k) == \E i \in DOMAIN disk.turns : disk.turns[i].result = "done" /\ disk.turns[i].msg = k
InResult(k) == \E m \in Members : result[m].result = "done" /\ result[m].msg = k

AnswerInv ==
  /\ disk.status # "cancelled" /\ (disk.status = "failed" => ~IoFaults) =>
       \A k \in DOMAIN board : InFile(k) \/ InResult(k)
  /\ \/ disk.status = "converged"
     \/ disk.status = "failed" /\ ~IoFaults
     \/ main = "finalize" /\ disk.status # "cancelled" /\ (mem.status = "converged" \/ ~IoFaults)
     => \A m \in Members : result[m].result # "done"

SynthesisPosted == \E k \in DOMAIN board : board[k][2] = SynthesisRound

RecordInv ==
  /\ main \in {"start"} \cup Working => records = 0
  /\ main = "record" \/ records # 0 \/ mem.status = "converged" \/ disk.status = "converged" => SynthesisPosted
  /\ mem.record => records = 1 /\ mem.status = "converged"
  /\ disk.record => records = 1 /\ disk.status \in {"converged", "cancelled"}
  /\ mem.status = "failed" => records = 0
  /\ records <= 1

\* For CouncilVerdict: the answers the file has so far.
HasDone(ts, rnd) == \E i \in DOMAIN ts : ts[i].result = "done" /\ ts[i].round = rnd
VerdictInv ==
  disk.status # "cancelled" =>
    /\ InRounds /\ round = 1 => ~AnyDone(disk.turns)
    /\ InRounds /\ round > 1 => HasDone(disk.turns, round - 1)
    /\ AnyDone(disk.turns) => HasDone(disk.turns, 1)
    /\ BeforeSynthesis \/ BeforeFallback \/ main = "record" => AnyDone(disk.turns)
    /\ BeforeSynthesis \/ BeforeFallback => ~HasDone(disk.turns, SynthesisRound)
    /\ main = "record" \/ mem.status = "converged" => HasDone(disk.turns, SynthesisRound)

-----------------------------------------------------------------------------
(* Positions and the lists taken at them.                                  *)

\* Counting up to a position numbers the positions of a set from 1 on, and Nth
\* undoes the count.
LEMMA NthFacts ==
  ASSUME NEW n \in Nat, NEW K \in SUBSET (1..n)
  PROVE  /\ IsFiniteSet(K) /\ Cardinality(K) \in Nat
         /\ \A k \in 1..Cardinality(K) :
              Nth(K, k) \in K /\ Cardinality({q \in K : q <= Nth(K, k)}) = k
         /\ \A p \in K : \E k \in 1..Cardinality(K) : Nth(K, k) = p
<1> DEFINE Upto(p) == {q \in K : q <= p}
           size == Cardinality(K)
           count == [p \in K |-> Cardinality(Upto(p))]
<1>1. IsFiniteSet(K) /\ size \in Nat
  <2>1. IsFiniteSet(1..n)
    BY FS_Interval
  <2>2. IsFiniteSet(K)
    BY <2>1, FS_Subset
  <2> QED
    BY <2>2, FS_CardinalityType
<1>2. ASSUME NEW p \in K
      PROVE  IsFiniteSet(Upto(p)) /\ count[p] \in 1..size
  <2>1. Upto(p) \in SUBSET K
    OBVIOUS
  <2>2. IsFiniteSet(Upto(p)) /\ Cardinality(Upto(p)) <= size
    BY <1>1, <2>1, FS_Subset
  <2>3. Cardinality(Upto(p)) \in Nat
    BY <2>2, FS_CardinalityType
  <2>4. Upto(p) # {}
    <3>1. p \in Upto(p)
      OBVIOUS
    <3> QED
      BY <3>1
  <2>5. Cardinality(Upto(p)) # 0
    BY <2>2, <2>4, FS_EmptySet
  <2> QED
    BY <1>1, <2>2, <2>3, <2>5
<1>3. ASSUME NEW x \in K, NEW y \in K, count[x] = count[y]
      PROVE  x = y
  <2>1. ASSUME NEW a \in K, NEW b \in K, a < b, count[a] = count[b]
        PROVE  FALSE
    <3>0. a \in Nat /\ b \in Nat /\ K \subseteq Nat
      OBVIOUS
    <3>1. Upto(a) \in SUBSET Upto(b)
      <4> SUFFICES ASSUME NEW p \in Upto(a)
                   PROVE  p \in Upto(b)
        OBVIOUS
      <4> QED
        BY <2>1, <3>0
    <3>2. IsFiniteSet(Upto(b)) /\ Cardinality(Upto(b)) = Cardinality(Upto(a))
      BY <1>2, <2>1
    <3>3. Upto(b) = Upto(a)
      BY <3>1, <3>2, FS_Subset
    <3>4. b \in Upto(b) /\ b \notin Upto(a)
      BY <2>1
    <3> QED
      BY <3>3, <3>4
  <2> QED
    BY <1>3, <2>1
<1>4. count \in Injection(K, 1..size)
  <2>1. count \in [K -> 1..size]
    BY <1>2
  <2> HIDE DEF count
  <2>2. \A p, q \in K : count[p] = count[q] => p = q
    BY <1>3
  <2> QED
    BY <2>1, <2>2 DEF Injection, IsInjective
<1>5. count \in Surjection(K, 1..size)
  <2>1. IsFiniteSet(1..size) /\ Cardinality(1..size) = size
    BY <1>1, FS_Interval
  <2> HIDE DEF count
  <2> QED
    BY <1>4, <2>1, FS_Injection
<1>6. \A k \in 1..size : \E p \in K : count[p] = k
  <2> HIDE DEF count
  <2> QED
    BY <1>5 DEF Surjection
<1>7. ASSUME NEW k \in 1..size
      PROVE  Nth(K, k) \in K /\ Cardinality(Upto(Nth(K, k))) = k
  <2>1. \E p \in K : Cardinality(Upto(p)) = k
    BY <1>6
  <2> QED
    BY <2>1 DEF Nth
<1>8. ASSUME NEW p \in K
      PROVE  \E k \in 1..size : Nth(K, k) = p
  <2>1. count[p] \in 1..size
    BY <1>2
  <2>2. Nth(K, count[p]) \in K /\ count[Nth(K, count[p])] = count[p]
    BY <1>7, <2>1
  <2>3. Nth(K, count[p]) = p
    BY <1>3, <2>2
  <2> QED
    BY <2>1, <2>3
<1> QED
  BY <1>1, <1>7, <1>8

\* What a comprehension leaves of a list: one element for each position.
LEMMA AtPositionsFacts ==
  ASSUME NEW n \in Nat, NEW K \in SUBSET (1..n), NEW S, NEW s, \A p \in K : s[p] \in S
  PROVE  /\ AtPositions(s, K) \in Seq(S)
         /\ DOMAIN AtPositions(s, K) = 1..Cardinality(K)
         /\ \A k \in DOMAIN AtPositions(s, K) : \E p \in K : AtPositions(s, K)[k] = s[p] /\ p = Nth(K, k)
         /\ \A p \in K : \E k \in DOMAIN AtPositions(s, K) : AtPositions(s, K)[k] = s[p]
         /\ \A j, k \in DOMAIN AtPositions(s, K) : Nth(K, j) = Nth(K, k) => j = k
<1>1. /\ Cardinality(K) \in Nat
      /\ \A k \in 1..Cardinality(K) :
           Nth(K, k) \in K /\ Cardinality({q \in K : q <= Nth(K, k)}) = k
      /\ \A p \in K : \E k \in 1..Cardinality(K) : Nth(K, k) = p
  BY NthFacts
<1>2. AtPositions(s, K) = [k \in 1..Cardinality(K) |-> s[Nth(K, k)]]
  BY DEF AtPositions
<1>3. AtPositions(s, K) \in Seq(S)
  <2> DEFINE size == Cardinality(K)
             at == [k \in 1..size |-> s[Nth(K, k)]]
  <2>1. size \in Nat /\ \A k \in 1..size : s[Nth(K, k)] \in S
    BY <1>1
  <2> HIDE DEF size
  <2>2. at \in [1..size -> S]
    BY <2>1
  <2>3. at \in Seq(S)
    BY <2>1, <2>2, SeqDef
  <2> QED
    BY <1>2, <2>3 DEF size
<1>4. \A j, k \in 1..Cardinality(K) : Nth(K, j) = Nth(K, k) => j = k
  BY <1>1
<1>5. \A p \in K : \E k \in 1..Cardinality(K) : AtPositions(s, K)[k] = s[p]
  BY <1>1, <1>2
<1>6. \A k \in 1..Cardinality(K) : AtPositions(s, K)[k] = s[Nth(K, k)] /\ Nth(K, k) \in K
  BY <1>1, <1>2
<1>7. DOMAIN AtPositions(s, K) = 1..Cardinality(K)
  BY <1>2
<1> HIDE DEF AtPositions
<1> QED
  BY <1>3, <1>4, <1>5, <1>6, <1>7

\* A nonempty set of positions has a last one.
LEMMA LastPosition ==
  ASSUME NEW n \in Nat, NEW K \in SUBSET (1..n), K # {}
  PROVE  \E p \in K : \A q \in K : q <= p
<1> DEFINE size == Cardinality(K)
           p == Nth(K, size)
<1>1. IsFiniteSet(K) /\ size \in Nat /\ size # 0
  BY NthFacts, FS_EmptySet
<1>2. p \in K /\ Cardinality({q \in K : q <= p}) = size
  BY <1>1, NthFacts
<1> HIDE DEF p
<1>3. {q \in K : q <= p} \in SUBSET K
  OBVIOUS
<1>4. K = {q \in K : q <= p}
  BY <1>1, <1>2, <1>3, FS_Subset
<1> QED
  BY <1>2, <1>4

\* ... and a first one.
LEMMA FirstPosition ==
  ASSUME NEW n \in Nat, NEW K \in SUBSET (1..n), K # {}
  PROVE  \E p \in K : \A q \in K : p <= q
<1> DEFINE p == Nth(K, 1)
           below == {q \in K : q <= p}
<1>1. IsFiniteSet(K) /\ Cardinality(K) \in Nat /\ Cardinality(K) # 0
  BY NthFacts, FS_EmptySet
<1>2. p \in K /\ Cardinality(below) = 1
  <2>1. 1 \in 1..Cardinality(K)
    BY <1>1
  <2> QED
    BY <2>1, NthFacts
<1> HIDE DEF p
<1>3. IsFiniteSet(below)
  <2>1. below \in SUBSET K
    OBVIOUS
  <2> QED
    BY <1>1, <2>1, FS_Subset
<1>4. PICK x : below = {x}
  BY <1>2, <1>3, FS_Singleton
<1>5. p \in below /\ p \in Nat /\ K \subseteq Nat
  BY <1>2
<1>6. ASSUME NEW y \in K
      PROVE  p <= y
  <2>1. CASE y <= p
    BY <1>4, <1>5, <2>1
  <2>2. CASE ~(y <= p)
    BY <1>5, <2>2
  <2> QED
    BY <2>1, <2>2
<1> QED
  BY <1>2, <1>6

-----------------------------------------------------------------------------
(* What _dedupe_turns does to any list of turns.                           *)

LEMMA LatestOfKeyFacts ==
  ASSUME NEW S, NEW ts \in Seq(S), NEW i \in DOMAIN ts
  PROVE  \E j \in DOMAIN ts :
           /\ LatestOfKey(ts, i) = ts[j] /\ SameKey(ts[j], ts[i])
           /\ \A k \in (j + 1)..Len(ts) : ~SameKey(ts[k], ts[i])
<1> DEFINE K == {j \in DOMAIN ts : SameKey(ts[j], ts[i])}
           Latest(j) == /\ SameKey(ts[j], ts[i])
                        /\ \A k \in (j + 1)..Len(ts) : ~SameKey(ts[k], ts[i])
<1>1. Len(ts) \in Nat /\ DOMAIN ts = 1..Len(ts)
  OBVIOUS
<1>2. K \in SUBSET (1..Len(ts)) /\ i \in K
  BY <1>1 DEF SameKey
<1>3. PICK p \in K : \A q \in K : q <= p
  BY <1>1, <1>2, LastPosition
<1>4. p \in DOMAIN ts /\ Latest(p)
  BY <1>1, <1>3
<1>5. LatestOfKey(ts, i) = ts[CHOOSE j \in DOMAIN ts : Latest(j)]
  BY DEF LatestOfKey
<1> DEFINE j == CHOOSE x \in DOMAIN ts : Latest(x)
<1>6. j \in DOMAIN ts /\ Latest(j)
  BY <1>4
<1> HIDE DEF j
<1>7. LatestOfKey(ts, i) = ts[j]
  BY <1>5 DEF j
<1> QED
  BY <1>6, <1>7

\* "Keep at most one turn per (round, member_id), newest write wins"
\* (_dedupe_turns): for every list, one turn is left for each of its keys, and
\* it is the last turn of the list with that key.
THEOREM DedupeKeepsNewest ==
  ASSUME NEW S, NEW ts \in Seq(S)
  PROVE  /\ Dedupe(ts) \in Seq(S)
         /\ OneTurnPerKey(Dedupe(ts))
         /\ \A i \in DOMAIN ts : \E n \in DOMAIN Dedupe(ts) : SameKey(Dedupe(ts)[n], ts[i])
         /\ \A n \in DOMAIN Dedupe(ts) : \E j \in DOMAIN ts :
              /\ Dedupe(ts)[n] = ts[j]
              /\ \A k \in (j + 1)..Len(ts) : ~SameKey(ts[k], ts[j])
<1> DEFINE K == FirstOfKey(ts)
           latest == [i \in DOMAIN ts |-> LatestOfKey(ts, i)]
           N == 1..Cardinality(K)
<1>1. Len(ts) \in Nat /\ DOMAIN ts = 1..Len(ts)
  OBVIOUS
<1>2. K \in SUBSET (1..Len(ts))
  BY <1>1 DEF FirstOfKey
<1>3. \A p \in K : latest[p] \in S
  <2> SUFFICES ASSUME NEW p \in K
               PROVE  LatestOfKey(ts, p) \in S
    BY <1>1, <1>2
  <2>1. p \in DOMAIN ts
    BY <1>1, <1>2
  <2> QED
    BY <2>1, LatestOfKeyFacts
<1>4. Dedupe(ts) = AtPositions(latest, K)
  BY DEF Dedupe
<1> HIDE DEF K, latest
<1>5. /\ Dedupe(ts) \in Seq(S)
      /\ DOMAIN Dedupe(ts) = N
      /\ \A n \in N : \E p \in K : Dedupe(ts)[n] = latest[p] /\ p = Nth(K, n)
      /\ \A p \in K : \E n \in N : Dedupe(ts)[n] = latest[p]
      /\ \A m, n \in N : Nth(K, m) = Nth(K, n) => m = n
  <2> DEFINE at == AtPositions(latest, K)
  <2>1. /\ at \in Seq(S)
        /\ DOMAIN at = N
        /\ \A n \in DOMAIN at : \E p \in K : at[n] = latest[p] /\ p = Nth(K, n)
        /\ \A p \in K : \E n \in DOMAIN at : at[n] = latest[p]
        /\ \A m, n \in DOMAIN at : Nth(K, m) = Nth(K, n) => m = n
    BY <1>1, <1>2, <1>3, AtPositionsFacts
  <2> HIDE DEF at
  <2>2. Dedupe(ts) = at
    BY <1>4 DEF at
  <2> QED
    BY <2>1, <2>2
<1>6. \A p \in K : \E j \in DOMAIN ts :
        /\ latest[p] = ts[j] /\ SameKey(ts[j], ts[p])
        /\ \A k \in (j + 1)..Len(ts) : ~SameKey(ts[k], ts[p])
  BY <1>1, <1>2, LatestOfKeyFacts DEF latest
<1>7. \A p \in K : SameKey(latest[p], ts[p])
  BY <1>6
<1>8. \A p, q \in K : SameKey(ts[p], ts[q]) => p = q
  <2> SUFFICES ASSUME NEW p \in K, NEW q \in K, SameKey(ts[p], ts[q]), p < q
               PROVE  FALSE
    BY <1>1, <1>2 DEF SameKey
  <2>1. p \in 1..(q - 1)
    BY <1>1, <1>2
  <2>2. \A x \in 1..(q - 1) : ~SameKey(ts[x], ts[q])
    BY DEF K, FirstOfKey
  <2> QED
    BY <2>1, <2>2
<1>9. OneTurnPerKey(Dedupe(ts))
  <2> SUFFICES ASSUME NEW m \in N, NEW n \in N, SameKey(Dedupe(ts)[m], Dedupe(ts)[n])
               PROVE  m = n
    BY <1>5 DEF OneTurnPerKey
  <2>1. PICK p \in K : Dedupe(ts)[m] = latest[p] /\ p = Nth(K, m)
    BY <1>5
  <2>2. PICK q \in K : Dedupe(ts)[n] = latest[q] /\ q = Nth(K, n)
    BY <1>5
  <2>3. SameKey(ts[p], ts[q])
    BY <1>7, <2>1, <2>2 DEF SameKey
  <2> QED
    BY <1>5, <1>8, <2>1, <2>2, <2>3
<1>10. ASSUME NEW i \in DOMAIN ts
       PROVE  \E n \in DOMAIN Dedupe(ts) : SameKey(Dedupe(ts)[n], ts[i])
  <2> DEFINE L == {j \in DOMAIN ts : SameKey(ts[j], ts[i])}
  <2>1. L \in SUBSET (1..Len(ts)) /\ i \in L
    BY <1>1 DEF SameKey
  <2>2. PICK p \in L : \A q \in L : p <= q
    BY <1>1, <2>1, FirstPosition
  <2>3. p \in K
    <3>1. p \in DOMAIN ts /\ SameKey(ts[p], ts[i])
      BY <2>2
    <3>2. ASSUME NEW x \in 1..(p - 1), SameKey(ts[x], ts[p])
          PROVE  FALSE
      <4>1. x \in L
        BY <1>1, <3>1, <3>2 DEF SameKey
      <4> QED
        BY <1>1, <2>2, <3>1, <4>1
    <3> QED
      BY <3>1, <3>2 DEF K, FirstOfKey
  <2>4. PICK n \in N : Dedupe(ts)[n] = latest[p]
    BY <1>5, <2>3
  <2>5. SameKey(latest[p], ts[p]) /\ SameKey(ts[p], ts[i])
    BY <1>7, <2>2, <2>3
  <2> QED
    BY <1>5, <2>4, <2>5 DEF SameKey
<1>11. ASSUME NEW n \in DOMAIN Dedupe(ts)
       PROVE  \E j \in DOMAIN ts : /\ Dedupe(ts)[n] = ts[j]
                                   /\ \A k \in (j + 1)..Len(ts) : ~SameKey(ts[k], ts[j])
  <2>1. PICK p \in K : Dedupe(ts)[n] = latest[p]
    BY <1>5
  <2>2. PICK j \in DOMAIN ts : /\ latest[p] = ts[j] /\ SameKey(ts[j], ts[p])
                               /\ \A k \in (j + 1)..Len(ts) : ~SameKey(ts[k], ts[p])
    BY <1>6
  <2> QED
    BY <2>1, <2>2 DEF SameKey
<1> QED
  BY <1>5, <1>9, <1>10, <1>11

\* A list with one turn per key stays as it is.
LEMMA DedupeKeepsDistinct ==
  ASSUME NEW S, NEW ts \in Seq(S), OneTurnPerKey(ts)
  PROVE  Dedupe(ts) = ts
<1> DEFINE len == Len(ts)
           latest == [i \in DOMAIN ts |-> LatestOfKey(ts, i)]
<1>1. len \in Nat /\ DOMAIN ts = 1..len
  OBVIOUS
<1>2. FirstOfKey(ts) = 1..len
  BY <1>1 DEF FirstOfKey, OneTurnPerKey
<1>3. \A i \in 1..len : latest[i] = ts[i]
  BY <1>1, LatestOfKeyFacts DEF OneTurnPerKey
<1>4. Cardinality(1..len) = len
  BY <1>1, FS_Interval
<1>5. ASSUME NEW k \in 1..len
      PROVE  Nth(1..len, k) = k
  <2>1. (1..len) \in SUBSET (1..len)
    OBVIOUS
  <2>2. \A j \in 1..len : Nth(1..len, j) \in 1..len /\ Cardinality({q \in 1..len : q <= Nth(1..len, j)}) = j
    BY <1>1, <1>4, <2>1, NthFacts
  <2> DEFINE p == Nth(1..len, k)
  <2>3. p \in 1..len /\ Cardinality({q \in 1..len : q <= p}) = k
    BY <2>2
  <2> HIDE DEF p
  <2>4. {q \in 1..len : q <= p} = 1..p
    BY <1>1, <2>3
  <2>5. Cardinality(1..p) = p
    BY <1>1, <2>3, FS_Interval
  <2>6. p = k
    BY <2>3, <2>4, <2>5
  <2> QED
    BY <2>6 DEF p
<1>6. Dedupe(ts) = [k \in 1..len |-> latest[Nth(1..len, k)]]
  BY <1>2, <1>4 DEF Dedupe, AtPositions
<1> HIDE DEF latest, len
<1>7. Dedupe(ts) = [k \in 1..len |-> ts[k]]
  BY <1>3, <1>5, <1>6
<1> QED
  BY <1>1, <1>7 DEF len

-----------------------------------------------------------------------------
(* The lists of turns the runner makes, and what merging one does.         *)

LEMMA RosterFacts ==
  /\ Roster \in Seq(Members) /\ NoRepeats(Roster)
  /\ SynthesisRound \in Nat /\ Rounds \in Nat /\ Rounds >= 1 /\ SynthesisRound = Rounds + 1
  BY RosterAssumption, RoundsAssumption DEF NoRepeats, SynthesisRound

\* The members of the roster with some fate, in its order.
LEMMA ShareFacts ==
  ASSUME NEW fate \in [Members -> {"speaks", "skipped", "dropped"}], NEW f \in {"speaks", "skipped", "dropped"}
  PROVE  /\ Share(fate, f) \in Seq(Members) /\ NoRepeats(Share(fate, f))
         /\ \A k \in DOMAIN Share(fate, f) : fate[Share(fate, f)[k]] = f
<1> DEFINE s == Share(fate, f)
           K == {i \in DOMAIN Roster : fate[Roster[i]] = f}
<1>1. Len(Roster) \in Nat /\ K \in SUBSET (1..Len(Roster)) /\ \A p \in K : Roster[p] \in Members
  BY RosterFacts
<1>0. s = AtPositions(Roster, K)
  BY DEF Share
<1> HIDE DEF K, s
<1>2. /\ s \in Seq(Members)
      /\ \A k \in DOMAIN s : \E p \in K : s[k] = Roster[p] /\ p = Nth(K, k)
      /\ \A j, k \in DOMAIN s : Nth(K, j) = Nth(K, k) => j = k
  <2> DEFINE at == AtPositions(Roster, K)
  <2>1. /\ at \in Seq(Members)
        /\ \A k \in DOMAIN at : \E p \in K : at[k] = Roster[p] /\ p = Nth(K, k)
        /\ \A j, k \in DOMAIN at : Nth(K, j) = Nth(K, k) => j = k
    BY <1>1, AtPositionsFacts
  <2>2. s = at
    BY <1>0
  <2> HIDE DEF at
  <2> QED
    BY <2>1, <2>2
<1>3. \A p, q \in K : Roster[p] = Roster[q] => p = q
  BY RosterFacts DEF NoRepeats, K
<1>4. NoRepeats(s)
  BY <1>2, <1>3 DEF NoRepeats
<1>5. \A k \in DOMAIN s : fate[s[k]] = f
  BY <1>2 DEF K
<1> QED
  BY <1>2, <1>4, <1>5 DEF s

LEMMA SkippedTurnsFacts ==
  ASSUME NEW ms \in Seq(Members), NoRepeats(ms), NEW rnd \in 1..SynthesisRound
  PROVE  /\ SkippedTurns(ms, rnd) \in Seq(Turn)
         /\ OneTurnPerKey(SkippedTurns(ms, rnd))
         /\ \A i \in DOMAIN SkippedTurns(ms, rnd) :
              LET t == SkippedTurns(ms, rnd)[i]
              IN t.round = rnd /\ t.result = "skipped" /\ \E k \in DOMAIN ms : t.member = ms[k]
<1> DEFINE Skip(i) == [round |-> rnd, member |-> ms[i], result |-> "skipped", msg |-> 0]
           s == [i \in DOMAIN ms |-> Skip(i)]
<1>1. SkippedTurns(ms, rnd) = s
  BY DEF SkippedTurns
<1>2. Len(ms) \in Nat /\ DOMAIN ms = 1..Len(ms)
  OBVIOUS
<1>3. \A i \in DOMAIN ms : Skip(i) \in Turn
  BY DEF Turn, TurnResult
<1> HIDE DEF Skip
<1>4. s \in Seq(Turn)
  BY <1>2, <1>3, SeqDef
<1>5. OneTurnPerKey(s)
  BY DEF OneTurnPerKey, SameKey, NoRepeats, Skip
<1>6. \A i \in DOMAIN s : /\ s[i].round = rnd /\ s[i].result = "skipped"
                          /\ \E k \in DOMAIN ms : s[i].member = ms[k]
  BY DEF Skip
<1> QED
  BY <1>1, <1>4, <1>5, <1>6

\* The turns of a round: every participant that was heard, once.
LEMMA RoundTurnsFacts ==
  ASSUME participants \in Seq(Members), NoRepeats(participants),
         result \in [Members -> [result : TurnResult \cup {"none"}, msg : Nat]],
         NEW rnd \in 1..SynthesisRound
  PROVE  /\ RoundTurns(rnd) \in Seq(Turn)
         /\ OneTurnPerKey(RoundTurns(rnd))
         /\ \A i \in DOMAIN RoundTurns(rnd) :
              LET t == RoundTurns(rnd)[i]
              IN /\ t.round = rnd /\ t.member \in Members /\ IsParticipant(t.member) /\ Heard(t.member)
                 /\ t.result = result[t.member].result /\ t.msg = result[t.member].msg
         /\ \A m \in Members : IsParticipant(m) /\ Heard(m) =>
              \E i \in DOMAIN RoundTurns(rnd) :
                LET t == RoundTurns(rnd)[i]
                IN t.member = m /\ t.result = result[m].result /\ t.msg = result[m].msg
<1> DEFINE K == {i \in DOMAIN participants : result[participants[i]].result # "none"}
           s == AtPositions(participants, K)
           T(m) == [round |-> rnd, member |-> m, result |-> result[m].result, msg |-> result[m].msg]
           rt == [i \in DOMAIN s |-> T(s[i])]
<1>1. RoundTurns(rnd) = rt
  BY DEF RoundTurns
<1>2. /\ Len(participants) \in Nat /\ K \in SUBSET (1..Len(participants))
      /\ \A p \in K : participants[p] \in Members
  OBVIOUS
<1> HIDE DEF K, s
<1>3. /\ s \in Seq(Members)
      /\ DOMAIN s = 1..Cardinality(K)
      /\ \A k \in DOMAIN s : \E p \in K : s[k] = participants[p] /\ p = Nth(K, k)
      /\ \A p \in K : \E k \in DOMAIN s : s[k] = participants[p]
      /\ \A j, k \in DOMAIN s : Nth(K, j) = Nth(K, k) => j = k
  BY <1>2, AtPositionsFacts DEF s
<1>4. \A k \in DOMAIN s : s[k] \in Members /\ IsParticipant(s[k]) /\ Heard(s[k])
  BY <1>2, <1>3 DEF IsParticipant, K, Heard
<1>5. NoRepeats(s)
  <2>1. \A p, q \in K : participants[p] = participants[q] => p = q
    BY DEF NoRepeats, K
  <2>2. ASSUME NEW j \in DOMAIN s, NEW k \in DOMAIN s, s[j] = s[k]
        PROVE  j = k
    <3>1. PICK p \in K : s[j] = participants[p] /\ p = Nth(K, j)
      BY <1>3
    <3>2. PICK q \in K : s[k] = participants[q] /\ q = Nth(K, k)
      BY <1>3
    <3> QED
      BY <1>3, <2>1, <2>2, <3>1, <3>2
  <2> QED
    BY <2>2 DEF NoRepeats
<1>6. \A k \in DOMAIN s : T(s[k]) \in Turn
  BY <1>4 DEF Turn, Heard
<1>7. rt \in Seq(Turn)
  <2>1. Len(s) \in Nat /\ DOMAIN s = 1..Len(s)
    BY <1>3
  <2> HIDE DEF T
  <2> QED
    BY <1>6, <2>1, SeqDef
<1>8. OneTurnPerKey(rt)
  BY <1>5 DEF OneTurnPerKey, SameKey, NoRepeats
<1>9. \A i \in DOMAIN rt :
        /\ rt[i].round = rnd /\ rt[i].member \in Members /\ IsParticipant(rt[i].member) /\ Heard(rt[i].member)
        /\ rt[i].result = result[rt[i].member].result /\ rt[i].msg = result[rt[i].member].msg
  BY <1>4
<1>10. ASSUME NEW m \in Members, IsParticipant(m), Heard(m)
       PROVE  \E i \in DOMAIN rt : rt[i].member = m /\ rt[i].result = result[m].result /\ rt[i].msg = result[m].msg
  <2>1. PICK p \in DOMAIN participants : participants[p] = m
    BY <1>10 DEF IsParticipant
  <2>2. p \in K
    BY <1>10, <2>1 DEF K, Heard
  <2>3. PICK k \in DOMAIN s : s[k] = m
    BY <1>3, <2>1, <2>2
  <2> QED
    BY <2>3
<1> HIDE DEF rt
<1> QED
  BY <1>1, <1>7, <1>8, <1>9, <1>10

\* Division and remainder number the cells of a table row by row.
LEMMA TableCells ==
  ASSUME NEW n \in Nat, n # 0, NEW rows \in Nat, NEW k \in 1..(n * rows)
  PROVE  /\ (k - 1) \div n \in 0..(rows - 1)
         /\ ((k - 1) % n) + 1 \in 1..n
         /\ k - 1 = n * ((k - 1) \div n) + ((k - 1) % n)
<1> DEFINE a == k - 1
           q == a \div n
           r == a % n
<1>1. n \in Int /\ n > 0 /\ a \in Nat /\ a < n * rows /\ n * rows \in Nat
  OBVIOUS
<1>2. q \in Int /\ r \in 0..(n - 1) /\ a = n * q + r
  BY <1>1
<1>3. q >= 0
  BY <1>1, <1>2
<1>4. q <= rows - 1
  BY <1>1, <1>2
<1> QED
  BY <1>2, <1>3, <1>4

LEMMA RemainingTurnsFacts ==
  ASSUME participants \in Seq(Members), NoRepeats(participants), NEW first \in 1..Rounds
  PROVE  /\ RemainingTurns(first) \in Seq(Turn)
         /\ OneTurnPerKey(RemainingTurns(first))
         /\ \A i \in DOMAIN RemainingTurns(first) :
              LET t == RemainingTurns(first)[i]
              IN t.round \in first..Rounds /\ IsParticipant(t.member) /\ t.result = "skipped"
<1> DEFINE n == Len(participants)
           rows == Rounds + 1 - first
           row(k) == (k - 1) \div n
           column(k) == ((k - 1) % n) + 1
           T(k) == [round |-> first + row(k), member |-> participants[column(k)],
                    result |-> "skipped", msg |-> 0]
           s == [k \in 1..(n * rows) |-> T(k)]
<1>1. RemainingTurns(first) = s
  BY DEF RemainingTurns
<1>2. n \in Nat /\ rows \in Nat /\ n * rows \in Nat /\ DOMAIN participants = 1..n
  BY RosterFacts
<1>3. ASSUME NEW k \in 1..(n * rows)
      PROVE  row(k) \in 0..(rows - 1) /\ column(k) \in 1..n /\ k - 1 = n * row(k) + (column(k) - 1)
  <2>1. n # 0
    BY <1>2
  <2>2. row(k) \in 0..(rows - 1) /\ column(k) \in 1..n /\ k - 1 = n * row(k) + ((k - 1) % n)
    BY <1>2, <2>1, TableCells
  <2>3. (k - 1) % n = column(k) - 1
    BY <1>2, <2>1, <2>2
  <2> QED
    BY <2>2, <2>3
<1> HIDE DEF row, column, n
<1>4. ASSUME NEW k \in 1..(n * rows)
      PROVE  first + row(k) \in first..Rounds /\ participants[column(k)] \in Members /\ T(k) \in Turn
  <2>1. first + row(k) \in first..Rounds
    BY <1>3, RosterFacts
  <2>2. participants[column(k)] \in Members
    BY <1>2, <1>3
  <2> QED
    BY <2>1, <2>2, RosterFacts DEF Turn, TurnResult
<1>5. s \in Seq(Turn)
  <2> HIDE DEF T
  <2> QED
    BY <1>2, <1>4, SeqDef
<1>6. ASSUME NEW j \in 1..(n * rows), NEW k \in 1..(n * rows), SameKey(T(j), T(k))
      PROVE  j = k
  <2>1. first + row(j) = first + row(k) /\ participants[column(j)] = participants[column(k)]
    BY <1>6 DEF SameKey
  <2>2. row(j) = row(k)
    BY <1>2, <1>3, <2>1
  <2>3. column(j) = column(k)
    BY <1>2, <1>3, <2>1 DEF NoRepeats
  <2>4. j - 1 = k - 1
    BY <1>3, <2>2, <2>3
  <2> QED
    BY <1>2, <2>4
<1>7. \A i \in DOMAIN s : IsParticipant(s[i].member) /\ s[i].round \in first..Rounds /\ s[i].result = "skipped"
  BY <1>2, <1>3, <1>4 DEF IsParticipant
<1> HIDE DEF T
<1>8. OneTurnPerKey(s)
  BY <1>6 DEF OneTurnPerKey
<1> HIDE DEF s
<1> QED
  BY <1>1, <1>5, <1>7, <1>8

\* Turns with new keys are appended, and only a cancelled file leaves some of
\* them out.
LEMMA MergeFacts ==
  ASSUME NEW file \in File, NEW new \in Seq(Turn),
         OneTurnPerKey(file.turns), OneTurnPerKey(new),
         \A i \in DOMAIN file.turns, j \in DOMAIN new : ~SameKey(file.turns[i], new[j]),
         NEW f \in File, f = Merge(file, new)
  PROVE  /\ f \in File /\ f.status = file.status /\ f.record = file.record
         /\ OneTurnPerKey(f.turns)
         /\ Len(f.turns) >= Len(file.turns)
         /\ \A i \in DOMAIN file.turns : i \in DOMAIN f.turns /\ f.turns[i] = file.turns[i]
         /\ \A k \in DOMAIN f.turns : k \in DOMAIN file.turns \/ \E j \in DOMAIN new :
              f.turns[k] = new[j] /\ (file.status = "cancelled" => new[j].result = "cancelled")
         /\ file.status # "cancelled" =>
              \A j \in DOMAIN new : \E k \in DOMAIN f.turns : f.turns[k] = new[j]
<1> DEFINE old == file.turns
           K == {i \in DOMAIN new : new[i].result = "cancelled"}
           some == AtPositions(new, K)
           kept == IF file.status = "cancelled" THEN some ELSE new
<1>1. old \in Seq(Turn) /\ Len(old) \in Nat /\ DOMAIN old = 1..Len(old)
  BY DEF File
<1>2. Len(new) \in Nat /\ DOMAIN new = 1..Len(new) /\ K \in SUBSET (1..Len(new)) /\ \A p \in K : new[p] \in Turn
  OBVIOUS
<1>3. f = IF kept = <<>> THEN file ELSE [file EXCEPT !.turns = Dedupe(old \o kept)]
  BY DEF Merge
<1> HIDE DEF old, K, some
<1>4. /\ some \in Seq(Turn)
      /\ \A k \in DOMAIN some : \E p \in K : some[k] = new[p] /\ p = Nth(K, k)
      /\ \A j, k \in DOMAIN some : Nth(K, j) = Nth(K, k) => j = k
  BY <1>2, AtPositionsFacts DEF some
<1>5. OneTurnPerKey(some)
  <2> SUFFICES ASSUME NEW j \in DOMAIN some, NEW k \in DOMAIN some, SameKey(some[j], some[k])
               PROVE  j = k
    BY DEF OneTurnPerKey
  <2>1. PICK p \in K : some[j] = new[p] /\ p = Nth(K, j)
    BY <1>4
  <2>2. PICK q \in K : some[k] = new[q] /\ q = Nth(K, k)
    BY <1>4
  <2>3. p = q
    BY <1>2, <2>1, <2>2 DEF OneTurnPerKey
  <2> QED
    BY <1>4, <2>1, <2>2, <2>3
<1>6. /\ kept \in Seq(Turn) /\ OneTurnPerKey(kept)
      /\ \A k \in DOMAIN kept : \E j \in DOMAIN new :
           kept[k] = new[j] /\ (file.status = "cancelled" => new[j].result = "cancelled")
      /\ file.status # "cancelled" => kept = new
  BY <1>2, <1>4, <1>5 DEF K
<1> HIDE DEF kept
<1> DEFINE all == old \o kept
<1>7. /\ all \in Seq(Turn) /\ Len(all) = Len(old) + Len(kept) /\ DOMAIN all = 1..Len(all)
      /\ Len(kept) \in Nat /\ DOMAIN kept = 1..Len(kept)
      /\ \A i \in 1..Len(old) : all[i] = old[i]
      /\ \A i \in 1..Len(kept) : all[Len(old) + i] = kept[i]
      /\ \A i \in 1..Len(all) : i > Len(old) => i - Len(old) \in 1..Len(kept) /\ all[i] = kept[i - Len(old)]
  BY <1>1, <1>6
<1> HIDE DEF all
<1>8. \A i \in DOMAIN old, k \in DOMAIN kept : ~SameKey(old[i], kept[k]) /\ ~SameKey(kept[k], old[i])
  BY <1>6 DEF old, SameKey
<1>9. OneTurnPerKey(all)
  <2> SUFFICES ASSUME NEW i \in 1..Len(all), NEW j \in 1..Len(all), SameKey(all[i], all[j])
               PROVE  i = j
    BY <1>7 DEF OneTurnPerKey
  <2> DEFINE x == i - Len(old)
             y == j - Len(old)
  <2>1. CASE i <= Len(old) /\ j <= Len(old)
    <3>1. i \in DOMAIN old /\ j \in DOMAIN old /\ all[i] = old[i] /\ all[j] = old[j]
      BY <1>1, <1>7, <2>1
    <3>2. SameKey(old[i], old[j])
      BY <3>1
    <3> QED
      BY <3>1, <3>2 DEF OneTurnPerKey, old
  <2>2. CASE i > Len(old) /\ j > Len(old)
    <3>1. x \in DOMAIN kept /\ y \in DOMAIN kept /\ all[i] = kept[x] /\ all[j] = kept[y]
      BY <1>7, <2>2
    <3>2. SameKey(kept[x], kept[y])
      BY <3>1
    <3>3. x = y
      BY <1>6, <3>1, <3>2 DEF OneTurnPerKey
    <3> QED
      BY <1>1, <1>7, <3>3
  <2>3. CASE i <= Len(old) /\ j > Len(old)
    <3>1. i \in DOMAIN old /\ y \in DOMAIN kept /\ all[i] = old[i] /\ all[j] = kept[y]
      BY <1>1, <1>7, <2>3
    <3> QED
      BY <1>8, <3>1
  <2>4. CASE i > Len(old) /\ j <= Len(old)
    <3>1. x \in DOMAIN kept /\ j \in DOMAIN old /\ all[i] = kept[x] /\ all[j] = old[j]
      BY <1>1, <1>7, <2>4
    <3> QED
      BY <1>8, <3>1
  <2> QED
    BY <1>1, <1>7, <2>1, <2>2, <2>3, <2>4
<1>10. Dedupe(all) = all
  BY <1>7, <1>9, DedupeKeepsDistinct
<1>11. f \in File /\ f.status = file.status /\ f.record = file.record /\ f.turns = all
  <2>1. CASE kept = <<>>
    BY <1>1, <1>3, <2>1 DEF all, old, File
  <2>2. CASE kept # <<>>
    BY <1>3, <1>7, <1>10, <2>2 DEF all, File
  <2> QED
    BY <2>1, <2>2
<1>12. Len(all) >= Len(old) /\ \A i \in DOMAIN old : i \in DOMAIN all /\ all[i] = old[i]
  BY <1>1, <1>7
<1>13. \A k \in DOMAIN all : k \in DOMAIN old \/ \E j \in DOMAIN new :
         all[k] = new[j] /\ (file.status = "cancelled" => new[j].result = "cancelled")
  <2> SUFFICES ASSUME NEW k \in 1..Len(all), k > Len(old)
               PROVE  \E j \in DOMAIN new :
                        all[k] = new[j] /\ (file.status = "cancelled" => new[j].result = "cancelled")
    BY <1>1, <1>7
  <2> QED
    BY <1>6, <1>7
<1>14. ASSUME file.status # "cancelled", NEW j \in DOMAIN new
       PROVE  \E k \in DOMAIN all : all[k] = new[j]
  <2>1. kept = new
    BY <1>6, <1>14
  <2>2. j \in 1..Len(kept) /\ Len(old) + j \in 1..Len(all) /\ all[Len(old) + j] = new[j]
    BY <1>1, <1>2, <1>7, <2>1
  <2> QED
    BY <1>7, <2>2
<1>15. f.turns = all /\ file.turns = old
  BY <1>11 DEF old
<1> QED
  BY <1>9, <1>11, <1>12, <1>13, <1>14, <1>15

-----------------------------------------------------------------------------
(* Types.                                                                  *)

LEMMA MergeType ==
  ASSUME NEW file \in File, NEW new \in Seq(Turn)
  PROVE  Merge(file, new) \in File
<1> DEFINE K == {i \in DOMAIN new : new[i].result = "cancelled"}
           some == AtPositions(new, K)
           kept == IF file.status = "cancelled" THEN some ELSE new
<1>1. Len(new) \in Nat /\ K \in SUBSET (1..Len(new)) /\ \A p \in K : new[p] \in Turn
  OBVIOUS
<1>2. Merge(file, new) = IF kept = <<>> THEN file ELSE [file EXCEPT !.turns = Dedupe(file.turns \o kept)]
  BY DEF Merge
<1> HIDE DEF K
<1>3. some \in Seq(Turn)
  BY <1>1, AtPositionsFacts
<1> HIDE DEF some
<1>4. kept \in Seq(Turn)
  BY <1>3
<1> HIDE DEF kept
<1>5. file.turns \o kept \in Seq(Turn)
  BY <1>4 DEF File
<1>6. Dedupe(file.turns \o kept) \in Seq(Turn)
  BY <1>5, DedupeKeepsNewest
<1> QED
  BY <1>2, <1>6 DEF File

\* What follows a merge, case by case.
LEMMA AfterPersistCases ==
  ASSUME NEW file, AfterPersist(file), phase \in {"build", "round", "skip", "primary", "fallback"}
  PROVE  /\ phase' = phase
         /\ \/ /\ file.status = "cancelled" /\ mem' = file /\ main' = "finalize" /\ round' = round
            \/ /\ file.status # "cancelled" /\ mem' = [file EXCEPT !.status = "failed"]
               /\ main' = "finalize" /\ round' = round /\ phase # "primary"
            \/ /\ file.status # "cancelled" /\ mem' = file
               /\ phase = "build" /\ main' = "head" /\ round' = 1
            \/ /\ file.status # "cancelled" /\ mem' = file
               /\ phase = "round" /\ AnyDone(batch) /\ main' = "head" /\ round' = round + 1
            \/ /\ file.status # "cancelled" /\ mem' = file /\ round' = round
               /\ phase = "skip" /\ AnyDone(file.turns) /\ main' = "synthesis"
            \/ /\ file.status # "cancelled" /\ mem' = file /\ round' = round
               /\ phase = "primary" /\ ~AnyDone(batch) /\ main' = "fallback"
            \/ /\ file.status # "cancelled" /\ mem' = file /\ round' = round
               /\ phase \in {"primary", "fallback"} /\ AnyDone(batch) /\ main' = "record"
<1>1. CASE file.status = "cancelled"
  BY <1>1 DEF AfterPersist
<1>2. CASE file.status # "cancelled" /\ phase = "build"
  BY <1>2 DEF AfterPersist
<1>3. CASE file.status # "cancelled" /\ phase = "round"
  BY <1>3 DEF AfterPersist
<1>4. CASE file.status # "cancelled" /\ phase = "skip"
  BY <1>4 DEF AfterPersist
<1>5. CASE file.status # "cancelled" /\ phase = "primary"
  BY <1>5 DEF AfterPersist
<1>6. CASE file.status # "cancelled" /\ phase = "fallback"
  BY <1>6 DEF AfterPersist
<1> QED
  BY <1>1, <1>2, <1>3, <1>4, <1>5, <1>6

LEMMA AfterPersistTypes ==
  ASSUME TypeOK, PhaseInv, main = "persist", NEW file \in File, AfterPersist(file)
  PROVE  /\ mem' \in File /\ phase' = phase /\ round' \in 0..SynthesisRound
         /\ main' \in {"head", "synthesis", "fallback", "record", "finalize"}
         /\ main' \in {"head", "synthesis", "fallback"} \/ phase # "build" => round' # 0
<1>1. phase \in {"build", "round", "skip", "primary", "fallback"} /\ round \in 0..SynthesisRound
  BY DEF TypeOK
<1>2. [file EXCEPT !.status = "failed"] \in File
  BY DEF File
<1>3. (phase = "round" => round \in 1..Rounds) /\ (phase # "build" => round # 0)
  BY DEF PhaseInv
<1> QED
  BY <1>1, <1>2, <1>3, AfterPersistCases, RosterFacts

LEMMA EndResultType ==
  ASSUME NEW res \in [Members -> [result : TurnResult \cup {"none"}, msg : Nat]],
         NEW m \in Members, NEW r \in TurnResult, NEW id \in Nat
  PROVE  [res EXCEPT ![m] = [result |-> r, msg |-> id]]
           \in [Members -> [result : TurnResult \cup {"none"}, msg : Nat]]
  OBVIOUS

LEMMA StopResultType ==
  ASSUME NEW res \in [Members -> [result : TurnResult \cup {"none"}, msg : Nat]],
         NEW m \in Members, NEW r \in TurnResult
  PROVE  [res EXCEPT ![m].result = r] \in [Members -> [result : TurnResult \cup {"none"}, msg : Nat]]
  OBVIOUS

LEMMA WriteRecordFacts ==
  ASSUME TypeOK, WriteRecord
  PROVE  /\ main = "record" /\ main' = "finalize" /\ mem' \in File /\ mem'.turns = mem.turns
         /\ records' \in Nat
         /\ \/ mem'.status = "failed" /\ mem'.record = mem.record /\ records' = records
            \/ /\ mem'.status = "converged" /\ mem'.record \in BOOLEAN
               /\ records' \in {records, records + 1} /\ (mem'.record => records' = records + 1)
<1>1. mem \in File /\ records \in Nat
  BY DEF TypeOK
<1>2. ASSUME Fail, UNCHANGED records
      PROVE  /\ main' = "finalize" /\ mem' \in File /\ mem'.turns = mem.turns
             /\ mem'.status = "failed" /\ mem'.record = mem.record /\ records' = records
  <2>1. mem' = [mem EXCEPT !.status = "failed"] /\ main' = "finalize"
    BY <1>2 DEF Fail
  <2> QED
    BY <1>1, <1>2, <2>1 DEF File
<1>3. ASSUME NEW created \in BOOLEAN, NEW answered \in BOOLEAN, answered => created,
             records' = IF created THEN records + 1 ELSE records,
             mem' = [mem EXCEPT !.status = "converged", !.record = answered],
             main' = "finalize"
      PROVE  /\ mem' \in File /\ mem'.turns = mem.turns /\ mem'.status = "converged"
             /\ mem'.record = answered /\ records' \in {records, records + 1}
             /\ (answered => records' = records + 1)
  BY <1>1, <1>3 DEF File
<1>4. main = "record"
  BY DEF WriteRecord
<1>5. CASE Fail /\ UNCHANGED records
  BY <1>1, <1>2, <1>4, <1>5
<1>6. CASE \E created, answered \in BOOLEAN :
             /\ answered => created
             /\ records' = IF created THEN records + 1 ELSE records
             /\ mem' = [mem EXCEPT !.status = "converged", !.record = answered]
             /\ main' = "finalize"
  <2>1. PICK created, answered \in BOOLEAN :
             /\ answered => created
             /\ records' = IF created THEN records + 1 ELSE records
             /\ mem' = [mem EXCEPT !.status = "converged", !.record = answered]
             /\ main' = "finalize"
    BY <1>6
  <2>2. /\ mem' \in File /\ mem'.turns = mem.turns /\ mem'.status = "converged"
        /\ mem'.record = answered /\ records' \in {records, records + 1}
        /\ (answered => records' = records + 1)
    BY <2>1, <1>3
  <2>3. records' \in Nat /\ (mem'.record => records' = records + 1)
    BY <2>2, <1>1
  <2> QED
    BY <1>4, <2>1, <2>2, <2>3
<1> QED
  BY <1>5, <1>6 DEF WriteRecord

LEMMA TypeInit == Init => TypeOK /\ PhaseInv
<1> SUFFICES ASSUME Init
             PROVE  TypeOK /\ PhaseInv
  OBVIOUS
<1>1. <<>> \in Seq(Turn) /\ <<>> \in Seq(Members) /\ <<>> \in Seq(Members \X (1..SynthesisRound))
  OBVIOUS
<1>2. disk \in File /\ mem \in File /\ caller \in File /\ apiCopy \in File
  BY <1>1 DEF Init, File
<1>3. result \in [Members -> [result : TurnResult \cup {"none"}, msg : Nat]]
  BY DEF Init, NoResult
<1>4. TypeOK
  <2>1. board \in Seq(Members \X (1..SynthesisRound)) /\ participants \in Seq(Members) /\ batch \in Seq(Turn)
    BY <1>1 DEF Init
  <2>2. round \in 0..SynthesisRound
    BY RosterFacts DEF Init
  <2> QED
    BY <1>2, <1>3, <2>1, <2>2 DEF Init, TypeOK
<1>5. PhaseInv
  BY DEF Init, PhaseInv, NoRepeats
<1> QED
  BY <1>4, <1>5

LEMMA TypeStep ==
  ASSUME TypeOK, PhaseInv, [Next]_vars
  PROVE  TypeOK' /\ PhaseInv'
<1> USE DEF TypeOK, PhaseInv, session, outside, control, turns, canceller
<1>1. CASE LockSession
  BY <1>1 DEF LockSession
<1>2. CASE Start
  <2>1. disk \in File /\ [disk EXCEPT !.status = "running"] \in File
    BY DEF File
  <2>2. CASE disk.status = "cancelled"
    BY <1>2, <2>1, <2>2 DEF Start
  <2>3. CASE disk.status # "cancelled"
    BY <1>2, <2>1, <2>3 DEF Start
  <2> QED
    BY <2>2, <2>3
<1>3. CASE BuildParticipants
  <2>1. PICK fate \in [Members -> {"speaks", "skipped", "dropped"}] :
          participants' = Share(fate, "speaks") /\ batch' = SkippedTurns(Share(fate, "skipped"), 1)
    BY <1>3 DEF BuildParticipants
  <2>2. participants' \in Seq(Members) /\ NoRepeats(participants')
    BY <2>1, ShareFacts
  <2>3. Share(fate, "skipped") \in Seq(Members) /\ NoRepeats(Share(fate, "skipped"))
    BY ShareFacts
  <2>4. 1 \in 1..SynthesisRound
    BY RosterFacts
  <2>5. batch' \in Seq(Turn)
    BY <2>1, <2>3, <2>4, SkippedTurnsFacts
  <2> QED
    BY <1>3, <2>2, <2>5 DEF BuildParticipants
<1>4. CASE PersistNothing
  <2>1. MainRuns /\ main = "persist" /\ AfterPersist(mem)
    BY <1>4 DEF PersistNothing
  <2>2. mem \in File /\ phase \in {"build", "round", "skip", "primary", "fallback"}
    OBVIOUS
  <2>3. /\ mem' \in File /\ phase' = phase /\ round' \in 0..SynthesisRound
        /\ main' \in {"head", "synthesis", "fallback", "record", "finalize"}
        /\ main' \in {"head", "synthesis", "fallback"} \/ phase # "build" => round' # 0
    BY <2>1, <2>2, AfterPersistTypes
  <2> QED
    BY <1>4, <2>3 DEF PersistNothing
<1>5. CASE PersistTurns
  <2>1. MainRuns /\ main = "persist" /\ disk' = Merge(disk, batch) /\ AfterPersist(disk')
    BY <1>5 DEF PersistTurns
  <2>2. disk' \in File
    BY <2>1, MergeType
  <2>3. /\ mem' \in File /\ phase' = phase /\ round' \in 0..SynthesisRound
        /\ main' \in {"head", "synthesis", "fallback", "record", "finalize"}
        /\ main' \in {"head", "synthesis", "fallback"} \/ phase # "build" => round' # 0
    BY <2>1, <2>2, AfterPersistTypes
  <2>4. <<>> \in Seq(Turn)
    OBVIOUS
  <2> QED
    BY <1>5, <2>2, <2>3, <2>4 DEF PersistTurns, ClearTurns, NoResult
<1>6. CASE SeeCancelled
  BY <1>6 DEF SeeCancelled
<1>7. CASE WallClockExceeded
  <2>1. round \in 1..Rounds
    BY <1>7, RosterFacts DEF WallClockExceeded
  <2>2. batch' \in Seq(Turn)
    BY <1>7, <2>1, RemainingTurnsFacts DEF WallClockExceeded
  <2> QED
    BY <1>7, <2>1, <2>2 DEF WallClockExceeded
<1>8. CASE BeginRound
  <2>1. round \in 1..Rounds
    BY <1>8, RosterFacts DEF BeginRound
  <2> QED
    BY <1>8, <2>1 DEF BeginRound
<1>9. CASE RoundsOver
  BY <1>9 DEF RoundsOver
<1>10. CASE NextSpeaker
  BY <1>10 DEF NextSpeaker
<1>11. CASE CollectTurns
  <2> DEFINE rnd == IF phase = "round" THEN round ELSE SynthesisRound
  <2>1. rnd \in 1..SynthesisRound
    BY <1>11, RosterFacts DEF CollectTurns
  <2>2. batch' = RoundTurns(rnd)
    BY <1>11 DEF CollectTurns
  <2> HIDE DEF rnd
  <2>3. batch' \in Seq(Turn)
    BY <2>1, <2>2, RoundTurnsFacts
  <2> QED
    BY <1>11, <2>3 DEF CollectTurns
<1>12. CASE AskSpokesperson
  <2>1. CASE IsParticipant(Spokesperson)
    BY <1>12, <2>1, SpokespersonAssumption DEF AskSpokesperson
  <2>2. CASE ~IsParticipant(Spokesperson)
    BY <1>12, <2>2 DEF AskSpokesperson
  <2> QED
    BY <2>1, <2>2
<1>13. CASE AskFallback
  <2>1. [mem EXCEPT !.status = "failed"] \in File
    BY DEF File
  <2>2. ASSUME NEW m \in Members, phase' = "fallback", attempted' = attempted \cup {m},
               turn' = [turn EXCEPT ![m] = "spawn"], main' = "turns", UNCHANGED mem
        PROVE  TypeOK' /\ PhaseInv'
    <3>1. /\ main = "fallback"
          /\ UNCHANGED <<disk, caller, locked, outside, round, participants, batch,
                         result, child, registered, activeLock, signal, canceller>>
      BY <1>13 DEF AskFallback
    <3> QED
      BY <2>2, <3>1
  <2>3. CASE Fail /\ UNCHANGED <<phase, attempted, turn>>
    BY <1>13, <2>1, <2>3 DEF AskFallback, Fail
  <2> QED
    BY <1>13, <2>2, <2>3 DEF AskFallback
<1>14. CASE WriteRecord
  <2>1. mem' \in File /\ records' \in Nat /\ main' = "finalize"
    BY <1>14, WriteRecordFacts
  <2> QED
    BY <1>14, <2>1 DEF WriteRecord
<1>15. CASE Finalize
  <2>1. disk' \in File
    BY <1>15 DEF Finalize
  <2> QED
    BY <1>15, <2>1 DEF Finalize
<1>16. CASE Exit
  BY <1>16 DEF Exit
<1>17. CASE Raise
  <2>1. [OuterSession EXCEPT !.status = "failed"] \in File
    BY DEF File, OuterSession
  <2>2. mem' \in File /\ main' \in {"finalize", "exit"}
    BY <1>17, <2>1 DEF Raise
  <2> QED
    BY <1>17, <2>2 DEF Raise
<1>18. ASSUME NEW m \in Members, Spawn(m)
      PROVE  TypeOK' /\ PhaseInv'
  BY <1>18 DEF Spawn
<1>19. ASSUME NEW m \in Members, SpawnFails(m)
      PROVE  TypeOK' /\ PhaseInv'
  <2>1. result' \in [Members -> [result : TurnResult \cup {"none"}, msg : Nat]]
    BY <1>19, EndResultType DEF SpawnFails, EndTurn, TurnResult
  <2> QED
    BY <1>19, <2>1 DEF SpawnFails, EndTurn
<1>20. ASSUME NEW m \in Members, TakeActiveLock(m)
      PROVE  TypeOK' /\ PhaseInv'
  BY <1>20 DEF TakeActiveLock
<1>21. ASSUME NEW m \in Members, Register(m)
      PROVE  TypeOK' /\ PhaseInv'
  BY <1>21 DEF Register
<1>22. ASSUME NEW m \in Members, SeeExit(m)
      PROVE  TypeOK' /\ PhaseInv'
  BY <1>22 DEF SeeExit
<1>23. ASSUME NEW m \in Members, SeeCancel(m)
      PROVE  TypeOK' /\ PhaseInv'
  <2>1. result' \in [Members -> [result : TurnResult \cup {"none"}, msg : Nat]]
    BY <1>23, StopResultType DEF SeeCancel, StopChild, TurnResult
  <2> QED
    BY <1>23, <2>1 DEF SeeCancel, StopChild
<1>24. ASSUME NEW m \in Members, TurnTimesOut(m)
      PROVE  TypeOK' /\ PhaseInv'
  <2>1. result' \in [Members -> [result : TurnResult \cup {"none"}, msg : Nat]]
    BY <1>24, StopResultType DEF TurnTimesOut, StopChild, TurnResult
  <2> QED
    BY <1>24, <2>1 DEF TurnTimesOut, StopChild
<1>25. ASSUME NEW m \in Members, Unregister(m)
      PROVE  TypeOK' /\ PhaseInv'
  <2>1. CASE child[m] = "answered"
    BY <1>25, <2>1 DEF Unregister
  <2>2. CASE child[m] # "answered"
    <3> DEFINE why == IF result[m].result = "none" THEN "failed" ELSE result[m].result
    <3>1. why \in TurnResult
      BY DEF TurnResult
    <3>2. EndTurn(m, why, 0)
      BY <1>25, <2>2 DEF Unregister
    <3> HIDE DEF why
    <3>3. result' \in [Members -> [result : TurnResult \cup {"none"}, msg : Nat]]
      BY <3>1, <3>2, EndResultType DEF EndTurn
    <3> QED
      BY <1>25, <2>2, <3>2, <3>3 DEF Unregister, EndTurn
  <2> QED
    BY <2>1, <2>2
<1>26. ASSUME NEW m \in Members, PostAnswer(m)
      PROVE  TypeOK' /\ PhaseInv'
  <2>1. CASE /\ board' = Append(board, <<m, IF phase = "round" THEN round ELSE SynthesisRound>>)
             /\ EndTurn(m, "done", Len(board'))
    <3> DEFINE rnd == IF phase = "round" THEN round ELSE SynthesisRound
    <3>1. rnd \in 1..SynthesisRound
      BY <1>26, RosterFacts DEF PostAnswer
    <3>2. board' = Append(board, <<m, rnd>>)
      BY <2>1
    <3> HIDE DEF rnd
    <3>3. board' \in Seq(Members \X (1..SynthesisRound)) /\ Len(board') \in Nat
      BY <3>1, <3>2
    <3>4. result' \in [Members -> [result : TurnResult \cup {"none"}, msg : Nat]]
      BY <2>1, <3>3, EndResultType DEF EndTurn, TurnResult
    <3> QED
      BY <1>26, <2>1, <3>3, <3>4 DEF PostAnswer, EndTurn
  <2>2. CASE EndTurn(m, "failed", 0) /\ UNCHANGED board
    <3>1. result' \in [Members -> [result : TurnResult \cup {"none"}, msg : Nat]]
      BY <2>2, EndResultType DEF EndTurn, TurnResult
    <3> QED
      BY <1>26, <2>2, <3>1 DEF PostAnswer, EndTurn
  <2> QED
    BY <1>26, <2>1, <2>2 DEF PostAnswer
<1>27. ASSUME NEW m \in Members, ChildExits(m)
      PROVE  TypeOK' /\ PhaseInv'
  <2>1. PICK c \in {"answered", "broken"} : child' = [child EXCEPT ![m] = c]
    BY <1>27 DEF ChildExits
  <2> QED
    BY <1>27, <2>1 DEF ChildExits
<1>28. CASE HandlerStarts
  BY <1>28 DEF HandlerStarts
<1>29. CASE HandlerKills
  BY <1>29 DEF HandlerKills
<1>30. CASE HandlerCancels
  <2>1. [disk EXCEPT !.status = "cancelled"] \in File
    BY DEF File
  <2>2. main' \in {"exit", "unwind"}
    BY <1>30 DEF HandlerCancels
  <2> QED
    BY <1>30, <2>1, <2>2 DEF HandlerCancels
<1>31. CASE Unwind
  BY <1>31 DEF Unwind, File, OuterSession
<1>32. CASE ReadForCancel
  BY <1>32 DEF ReadForCancel
<1>33. CASE SendSigterm
  BY <1>33 DEF SendSigterm
<1>34. CASE SendNothing
  BY <1>34 DEF SendNothing
<1>35. CASE SeeRunnerGone
  BY <1>35 DEF SeeRunnerGone
<1>36. CASE KillRunner
  BY <1>36 DEF KillRunner
<1>37. CASE WriteCancelled
  <2>1. [apiCopy EXCEPT !.status = "cancelled"] \in File
    BY DEF File
  <2> QED
    BY <1>37, <2>1 DEF WriteCancelled
<1>38. CASE UNCHANGED vars
  BY <1>38 DEF vars
<1> QED
  BY <1>1, <1>2, <1>3, <1>4, <1>5, <1>6, <1>7, <1>8, <1>9, <1>10, <1>11, <1>12, <1>13, <1>14, <1>15, <1>16, <1>17, <1>18, <1>19, <1>20, <1>21, <1>22, <1>23, <1>24, <1>25, <1>26, <1>27, <1>28, <1>29, <1>30, <1>31, <1>32, <1>33, <1>34, <1>35, <1>36, <1>37, <1>38
     DEF Next, MainStep, TurnStep, HandlerStep, ApiStep

\* The runner's types, for every roster and every number of rounds.
THEOREM TypeCorrect == Spec => []TypeOK
<1>1. TypeOK /\ PhaseInv /\ [Next]_vars => (TypeOK /\ PhaseInv)'
  BY TypeStep
<1> QED
  BY <1>1, TypeInit, PTL DEF Spec

-----------------------------------------------------------------------------
(* What the steps leave alone and how they change the files.               *)

LEMMA TurnFrame ==
  ASSUME NEW m \in Members, TurnStep(m) \/ ChildExits(m)
  PROVE  UNCHANGED <<session, records, control, signal, canceller>>
<1> USE DEF outside
<1>1. CASE Spawn(m) \/ SpawnFails(m) \/ TakeActiveLock(m) \/ Register(m) \/ SeeExit(m)
  BY <1>1 DEF Spawn, SpawnFails, TakeActiveLock, Register, SeeExit
<1>2. CASE SeeCancel(m) \/ TurnTimesOut(m) \/ Unregister(m) \/ PostAnswer(m) \/ ChildExits(m)
  BY <1>2 DEF SeeCancel, TurnTimesOut, StopChild, Unregister, PostAnswer, ChildExits
<1> QED
  BY <1>1, <1>2 DEF TurnStep

\* Steps of the handler and of the cancel request that touch neither a file
\* nor the main thread's place.
QuietStep ==
  HandlerStarts \/ HandlerKills \/ ReadForCancel \/ SendSigterm \/ SendNothing \/ SeeRunnerGone

LEMMA QuietFrame ==
  QuietStep => UNCHANGED <<session, outside, control, turn, result>>
<1> SUFFICES ASSUME QuietStep
             PROVE  UNCHANGED <<session, outside, control, turn, result>>
  OBVIOUS
<1> USE DEF turns
<1>1. CASE HandlerStarts \/ HandlerKills
  BY <1>1 DEF HandlerStarts, HandlerKills
<1>2. CASE ReadForCancel \/ SendSigterm \/ SendNothing \/ SeeRunnerGone
  BY <1>2 DEF ReadForCancel, SendSigterm, SendNothing, SeeRunnerGone
<1> QED
  BY <1>1, <1>2 DEF QuietStep

\* A changed status leaves the rest of a file alone.
Restatus(f, s) == [f EXCEPT !.status = s]

LEMMA RestatusFacts ==
  ASSUME NEW f \in File, NEW s \in {"pending", "running", "converged", "failed", "cancelled"}
  PROVE  /\ Restatus(f, s) \in File
         /\ Restatus(f, s).status = s
         /\ Restatus(f, s).turns = f.turns
         /\ Restatus(f, s).record = f.record
  BY DEF File, Restatus

LEMMA MergeStatus ==
  ASSUME NEW file \in File, NEW new
  PROVE  Merge(file, new).status = file.status /\ Merge(file, new).record = file.record
  BY DEF Merge, File

LEMMA FailFacts ==
  ASSUME mem \in File, Fail
  PROVE  main' = "finalize" /\ mem'.status = "failed" /\ mem'.turns = mem.turns /\ mem'.record = mem.record
<1>1. mem' = Restatus(mem, "failed") /\ main' = "finalize"
  BY DEF Fail, Restatus
<1> QED
  BY <1>1, RestatusFacts

LEMMA OuterFacts ==
  ASSUME TypeOK
  PROVE  /\ OuterSession \in File
         /\ \/ OuterSession = mem
            \/ OuterSession = caller /\ phase \in {"primary", "fallback"}
  BY DEF TypeOK, OuterSession

LEMMA RaiseFacts ==
  ASSUME TypeOK, Raise
  PROVE  /\ IoFaults /\ UNCHANGED <<disk, caller, outside, phase, round, participants, batch, attempted, turns>>
         /\ \/ main' = "exit" /\ main \in {"start", "finalize"} /\ UNCHANGED mem
            \/ /\ main \in Working /\ main' = "finalize" /\ mem'.status = "failed"
               /\ mem'.turns = OuterSession.turns /\ mem'.record = OuterSession.record
<1>1. ASSUME main \in {"build", "persist", "head", "synthesis", "fallback", "record"},
             mem' = [OuterSession EXCEPT !.status = "failed"]
      PROVE  mem'.status = "failed" /\ mem'.turns = OuterSession.turns /\ mem'.record = OuterSession.record
             /\ main \in Working
  <2>1. mem' = Restatus(OuterSession, "failed")
    BY <1>1 DEF Restatus
  <2> QED
    BY <1>1, <2>1, OuterFacts, RestatusFacts DEF Working
<1> QED
  BY <1>1 DEF Raise

LEMMA IsStartItself ==
  ASSUME NEW ts \in Seq(Turn)
  PROVE  IsStart(ts, ts) /\ ButSynthesis(ts, ts)
  BY DEF IsStart, ButSynthesis

\* The final write: nothing but a lost synthesis goes.
LEMMA FinalizeFacts ==
  ASSUME TypeOK, StatusInv, Finalize
  PROVE  /\ main = "finalize" /\ main' = "exit" /\ UNCHANGED <<mem, caller, outside, turns, canceller>>
         /\ \/ disk.status = "cancelled" /\ disk' = disk
            \/ /\ disk.status = "running" /\ disk' = mem /\ mem.status \in {"converged", "failed"}
               /\ ButSynthesis(disk'.turns, disk.turns)
               /\ disk'.turns = disk.turns \/ (IoFaults /\ mem.status = "failed")
<1>1. disk \in File /\ mem \in File /\ disk.turns \in Seq(Turn)
  BY DEF TypeOK, File
<1>2. main = "finalize" /\ main' = "exit" /\ UNCHANGED <<mem, caller, outside, turns, canceller>>
      /\ disk' = IF disk.status = "cancelled" THEN disk ELSE mem
  BY DEF Finalize
<1>3. CASE disk.status # "cancelled"
  <2>1. disk.status = "running" /\ mem.status \in {"converged", "failed"}
    BY <1>1, <1>2, <1>3 DEF StatusInv, File
  <2>2. mem.turns = disk.turns \/ SynthesisLost
    BY <1>3 DEF StatusInv
  <2> QED
    BY <1>1, <1>2, <1>3, <2>1, <2>2, IsStartItself DEF SynthesisLost
<1> QED
  BY <1>2, <1>3

LEMMA StatusStep ==
  ASSUME TypeOK, PhaseInv, StatusInv, CallerInv, ApiInv, [Next]_vars
  PROVE  StatusInv'
<1>0. disk \in File /\ mem \in File /\ apiCopy \in File /\ batch \in Seq(Turn)
      /\ phase \in {"build", "round", "skip", "primary", "fallback"}
  BY DEF TypeOK
<1> USE DEF session, control
<1>1. CASE UNCHANGED <<disk, mem, main>>
  BY <1>1 DEF StatusInv, SynthesisLost
\* Before the runner is done, its copy has the turns of the file.
<1>01. main \in Working \cup {"start"} /\ disk.status # "cancelled" => mem.turns = disk.turns
  BY DEF StatusInv, SynthesisLost
<1>2. ASSUME NEW m \in Members, TurnStep(m) \/ ChildExits(m)
      PROVE  StatusInv'
  BY <1>1, <1>2, TurnFrame
<1>3. CASE LockSession \/ QuietStep
  BY <1>1, <1>3, QuietFrame DEF LockSession
<1>4. CASE Start
  <2>1. CASE disk.status = "cancelled"
    BY <1>4, <2>1 DEF Start, StatusInv, Working
  <2>2. CASE disk.status # "cancelled"
    <3>1. main = "start" /\ main' = "build" /\ disk' = Restatus(disk, "running") /\ mem' = disk'
      BY <1>4, <2>2 DEF Start, Restatus
    <3>2. disk'.status = "running" /\ disk'.turns = disk.turns
      BY <1>0, <3>1, RestatusFacts
    <3> QED
      BY <3>1, <3>2 DEF StatusInv, Working
  <2> QED
    BY <2>1, <2>2
<1>5. ASSUME main = "persist", NEW file \in File, AfterPersist(file),
             disk'.status = file.status, file.status \in {"running", "cancelled"},
             disk'.status # "cancelled" => file.turns = disk'.turns
      PROVE  StatusInv'
  <2>1. CASE main' = "finalize" /\ mem' = file /\ file.status = "cancelled"
    BY <1>5, <2>1 DEF StatusInv, Working
  <2>2. CASE main' = "finalize" /\ mem' = [file EXCEPT !.status = "failed"]
    <3>1. mem' = Restatus(file, "failed")
      BY <2>2 DEF Restatus
    <3>2. mem'.status = "failed" /\ mem'.turns = file.turns
      BY <1>5, <3>1, RestatusFacts
    <3> QED
      BY <1>5, <2>2, <3>2 DEF StatusInv, Working
  <2>3. CASE main' \in {"head", "synthesis", "fallback", "record"} /\ mem' = file /\ file.status # "cancelled"
    BY <1>5, <2>3 DEF StatusInv, Working
  <2> QED
    BY <1>0, <1>5, <2>1, <2>2, <2>3, AfterPersistCases
<1>6. CASE PersistNothing
  <2>1. main = "persist" /\ AfterPersist(mem) /\ disk' = disk
    BY <1>6 DEF PersistNothing
  <2>2. CASE disk.status # "cancelled"
    BY <1>0, <1>01, <1>5, <2>1, <2>2 DEF StatusInv, Working
  <2>3. CASE disk.status = "cancelled"
    <3>1. mem.status = "running"
      BY <2>1 DEF StatusInv, Working
    <3>2. main' \in {"finalize", "head", "synthesis", "fallback", "record"}
          /\ (mem' = mem \/ mem' = Restatus(mem, "failed"))
          /\ (main' # "finalize" => mem' = mem)
      BY <1>0, <2>1, AfterPersistCases DEF Restatus
    <3>3. Restatus(mem, "failed").status = "failed"
      BY <1>0, RestatusFacts
    <3>4. mem'.status \in {"running", "failed"} /\ (main' # "finalize" => mem'.status = "running")
      BY <3>1, <3>2, <3>3
    <3> QED
      BY <2>1, <2>3, <3>2, <3>4 DEF StatusInv, Working
  <2> QED
    BY <2>2, <2>3
<1>7. CASE PersistTurns
  <2>1. main = "persist" /\ disk' = Merge(disk, batch) /\ AfterPersist(disk')
    BY <1>7 DEF PersistTurns
  <2>2. disk' \in File /\ disk'.status = disk.status
    BY <1>0, <2>1, MergeType, MergeStatus
  <2>3. disk.status \in {"running", "cancelled"}
    BY <2>1 DEF StatusInv, Working
  <2> QED
    BY <1>5, <2>1, <2>2, <2>3
<1>8. CASE BuildParticipants \/ WallClockExceeded \/ BeginRound \/ RoundsOver \/ CollectTurns \/ AskSpokesperson
  <2>1. UNCHANGED <<disk, mem>> /\ main \in Working /\ main' \in Working
    BY <1>8 DEF BuildParticipants, WallClockExceeded, BeginRound, RoundsOver, CollectTurns, AskSpokesperson, Working
  <2> QED
    BY <1>01, <2>1 DEF StatusInv, Working
<1>9. CASE SeeCancelled \/ NextSpeaker
  BY <1>01, <1>9 DEF SeeCancelled, NextSpeaker, StatusInv, Working
<1>10. CASE AskFallback
  <2>1. main = "fallback" /\ UNCHANGED disk
        /\ ((main' = "turns" /\ UNCHANGED mem) \/ Fail)
    BY <1>10 DEF AskFallback
  <2>2. CASE main' = "turns" /\ UNCHANGED mem
    BY <1>01, <2>1, <2>2 DEF StatusInv, Working
  <2>3. CASE Fail
    BY <1>0, <1>01, <2>1, <2>3, FailFacts DEF StatusInv, Working
  <2> QED
    BY <2>1, <2>2, <2>3
<1>11. CASE WriteRecord
  <2>1. main = "record" /\ main' = "finalize" /\ mem'.turns = mem.turns /\ mem'.status \in {"converged", "failed"}
    BY <1>11, WriteRecordFacts
  <2>2. UNCHANGED disk
    BY <1>11 DEF WriteRecord
  <2> QED
    BY <1>01, <2>1, <2>2 DEF StatusInv, Working
<1>12. CASE Finalize
  <2>1. main' = "exit" /\ UNCHANGED mem
        /\ (disk' = mem \/ (disk.status = "cancelled" /\ disk' = disk))
    BY <1>12, FinalizeFacts
  <2> QED
    BY <2>1 DEF StatusInv, Working
<1>13. CASE Exit
  BY <1>13 DEF Exit, StatusInv, Working, SynthesisLost
<1>14. CASE Raise
  <2>1. IoFaults /\ UNCHANGED disk
    BY <1>14, RaiseFacts
  <2>2. CASE main' = "exit" /\ main \in {"start", "finalize"} /\ UNCHANGED mem
    BY <2>1, <2>2 DEF StatusInv, Working, SynthesisLost
  <2>3. CASE main \in Working /\ main' = "finalize" /\ mem'.status = "failed" /\ mem'.turns = OuterSession.turns
    <3>1. disk.status # "cancelled" => ButSynthesis(mem'.turns, disk.turns)
      <4>1. disk.turns \in Seq(Turn)
        BY <1>0 DEF File
      <4>2. CASE OuterSession = mem
        BY <1>01, <2>3, <4>1, <4>2, IsStartItself
      <4>3. CASE OuterSession = caller /\ phase \in {"primary", "fallback"}
        BY <2>3, <4>3 DEF CallerInv
      <4> QED
        BY <4>2, <4>3, OuterFacts
    <3>2. disk.status \in {"running", "cancelled"}
      BY <2>3 DEF StatusInv
    <3> QED
      BY <2>1, <2>3, <3>1, <3>2 DEF StatusInv, Working, SynthesisLost
  <2> QED
    BY <1>14, <2>2, <2>3, RaiseFacts
<1>15. CASE HandlerCancels
  <2>1. disk' = Restatus(disk, "cancelled") /\ main' \in {"exit", "unwind"} /\ UNCHANGED mem
    BY <1>15 DEF HandlerCancels, Restatus
  <2>2. disk'.status = "cancelled"
    BY <1>0, <2>1, RestatusFacts
  <2> QED
    BY <2>1, <2>2 DEF StatusInv, Working
<1>16. CASE Unwind
  BY <1>16 DEF Unwind, StatusInv, Working
<1>17. CASE KillRunner
  BY <1>17 DEF KillRunner, StatusInv, Working, SynthesisLost
<1>18. CASE WriteCancelled
  <2>1. disk' = Restatus(apiCopy, "cancelled") /\ api = "write" /\ UNCHANGED <<mem, main>>
    BY <1>18 DEF WriteCancelled, Restatus
  <2>2. disk'.status = "cancelled" /\ disk'.turns = apiCopy.turns
    BY <1>0, <2>1, RestatusFacts
  <2>3. main = "start" => apiCopy.turns = <<>>
    <3>1. main = "start" => Len(apiCopy.turns) <= 0
      BY <2>1 DEF StatusInv, ApiInv, FileCameAfter, IsStart
    <3>2. apiCopy.turns \in Seq(Turn)
      BY <1>0 DEF File
    <3> QED
      BY <3>1, <3>2
  <2> QED
    BY <2>1, <2>2, <2>3 DEF StatusInv, Working
<1>19. CASE UNCHANGED vars
  BY <1>1, <1>19 DEF vars
<1> QED
  BY <1>2, <1>3, <1>4, <1>6, <1>7, <1>8, <1>9, <1>10, <1>11, <1>12, <1>13, <1>14, <1>15, <1>16,
     <1>17, <1>18, <1>19
     DEF Next, MainStep, HandlerStep, ApiStep, QuietStep

-----------------------------------------------------------------------------
(* Turns.                                                                  *)

\* What the steps of one turn do.
LEMMA TurnEffect ==
  ASSUME TypeOK, ResultInv, NEW m \in Members, TurnStep(m) \/ ChildExits(m)
  PROVE  /\ turn' \in [Members -> {"off", "spawn", "register", "wait", "unregister", "answer", "over"}]
         /\ \A n \in Members : n # m => turn'[n] = turn[n] /\ result'[n] = result[n]
         /\ \/ turn'[m] = turn[m] /\ result'[m] = result[m] /\ board' = board
            \/ /\ Busy(m) /\ board' = board
               /\ turn'[m] \in {"register", "wait"} /\ result'[m] = result[m] /\ ~Heard(m)
            \/ /\ Busy(m) /\ board' = board
               /\ turn'[m] \in {"unregister", "answer"}
               /\ result'[m] = result[m] \/ result'[m].result \in {"cancelled", "timeout"}
            \/ Busy(m) /\ board' = board /\ turn'[m] = "over" /\ result'[m].result \notin {"none", "done"}
            \/ /\ Busy(m) /\ turn'[m] = "over"
               /\ board' = Append(board, <<m, IF phase = "round" THEN round ELSE SynthesisRound>>)
               /\ result'[m] = [result |-> "done", msg |-> Len(board')]
<1>0. /\ turn \in [Members -> {"off", "spawn", "register", "wait", "unregister", "answer", "over"}]
      /\ result \in [Members -> [result : TurnResult \cup {"none"}, msg : Nat]]
  BY DEF TypeOK
<1> USE DEF outside, Busy
<1>1. CASE Spawn(m)
  BY <1>0, <1>1 DEF Spawn, ResultInv
<1>2. CASE SpawnFails(m)
  BY <1>0, <1>2 DEF SpawnFails, EndTurn
<1>3. CASE TakeActiveLock(m) \/ ChildExits(m)
  BY <1>0, <1>3 DEF TakeActiveLock, ChildExits
<1>4. CASE Register(m)
  BY <1>0, <1>4 DEF Register, ResultInv
<1>5. CASE SeeExit(m)
  BY <1>0, <1>5 DEF SeeExit
<1>6. ASSUME NEW why \in {"cancelled", "timeout"}, StopChild(m, why)
      PROVE  /\ turn[m] = "wait" /\ board' = board
             /\ turn' = [turn EXCEPT ![m] = "unregister"]
             /\ \A n \in Members : n # m => result'[n] = result[n]
             /\ result'[m].result = why
  BY <1>0, <1>6 DEF StopChild
<1>7. CASE SeeCancel(m) \/ TurnTimesOut(m)
  BY <1>0, <1>6, <1>7 DEF SeeCancel, TurnTimesOut
<1>8. CASE Unregister(m)
  <2>1. CASE child[m] = "answered"
    BY <1>0, <1>8, <2>1 DEF Unregister
  <2>2. CASE child[m] # "answered"
    <3> DEFINE why == IF result[m].result = "none" THEN "failed" ELSE result[m].result
    <3>1. turn[m] = "unregister" /\ EndTurn(m, why, 0) /\ board' = board
      BY <1>8, <2>2 DEF Unregister
    <3>2. why \notin {"none", "done"}
      BY <3>1 DEF ResultInv
    <3> HIDE DEF why
    <3> QED
      BY <1>0, <3>1, <3>2 DEF EndTurn
  <2> QED
    BY <2>1, <2>2
<1>9. CASE PostAnswer(m)
  <2>1. turn[m] = "answer"
    BY <1>9 DEF PostAnswer
  <2>2. CASE EndTurn(m, "failed", 0) /\ UNCHANGED board
    BY <1>0, <2>1, <2>2 DEF EndTurn
  <2>3. CASE /\ board' = Append(board, <<m, IF phase = "round" THEN round ELSE SynthesisRound>>)
             /\ EndTurn(m, "done", Len(board'))
    BY <1>0, <2>1, <2>3 DEF EndTurn
  <2> QED
    BY <1>9, <2>2, <2>3 DEF PostAnswer
<1> QED
  BY <1>1, <1>2, <1>3, <1>4, <1>5, <1>7, <1>8, <1>9 DEF TurnStep

LEMMA IdleStep ==
  ASSUME TypeOK, PhaseInv, StatusInv, IdleInv, ResultInv, [Next]_vars
  PROVE  IdleInv'
<1>0. /\ turn \in [Members -> {"off", "spawn", "register", "wait", "unregister", "answer", "over"}]
      /\ \A i \in DOMAIN participants : participants[i] \in Members
  BY DEF TypeOK
<1> USE DEF session, control, turns, Busy, Heard
<1>1. CASE UNCHANGED <<disk, main, participants, turn, result>>
  BY <1>1 DEF IdleInv, IsParticipant
<1>2. ASSUME NEW m \in Members, TurnStep(m) \/ ChildExits(m)
      PROVE  IdleInv'
  <2>1. UNCHANGED <<disk, main, participants>>
    BY <1>2, TurnFrame
  <2>2. \A n \in Members : Busy(n)' \/ turn'[n] # "off" \/ Heard(n)' =>
          (Busy(n)' => Busy(n)) /\ (turn[n] # "off" \/ Heard(n))
    BY <1>2, TurnEffect
  <2> QED
    BY <2>1, <2>2 DEF IdleInv, IsParticipant
<1>3. CASE LockSession \/ QuietStep
  BY <1>1, <1>3, QuietFrame DEF LockSession
<1>4. ASSUME main \notin {"turns", "unwind", "exit"}, UNCHANGED <<participants, turn, result>>
      PROVE  IdleInv'
  BY <1>4 DEF IdleInv, IsParticipant
<1>5. CASE Start \/ PersistNothing \/ SeeCancelled \/ WallClockExceeded \/ RoundsOver \/ WriteRecord \/ Finalize \/ Raise
  BY <1>4, <1>5 DEF Start, PersistNothing, SeeCancelled, WallClockExceeded, RoundsOver, WriteRecord, Finalize, Raise
<1>6. CASE BuildParticipants
  <2>1. \A m \in Members : turn[m] = "off" /\ ~Heard(m)
    BY <1>6 DEF BuildParticipants, IdleInv, PhaseInv, IsParticipant
  <2>2. UNCHANGED <<turn, result>>
    BY <1>6 DEF BuildParticipants
  <2> QED
    BY <2>1, <2>2 DEF IdleInv
<1>7. CASE PersistTurns
  BY <1>7 DEF PersistTurns, ClearTurns, NoResult, IdleInv
<1>8. CASE BeginRound
  <2>1. CASE round = 1
    <3>1. /\ turn' = [m \in Members |-> IF IsParticipant(m) THEN "spawn" ELSE "off"]
          /\ main' = "turns" /\ UNCHANGED <<participants, result>>
      BY <1>8, <2>1 DEF BeginRound
    <3> QED
      BY <3>1 DEF IdleInv, IsParticipant
  <2>2. CASE round # 1
    BY <1>4, <1>8, <2>2 DEF BeginRound
  <2> QED
    BY <2>1, <2>2
<1>9. CASE NextSpeaker
  <2>1. PICK i \in DOMAIN participants : turn' = [turn EXCEPT ![participants[i]] = "spawn"]
    BY <1>9 DEF NextSpeaker
  <2>2. UNCHANGED <<main, participants, result>> /\ main = "turns"
    BY <1>9 DEF NextSpeaker
  <2>3. \A n \in Members : turn'[n] = turn[n] \/ (n = participants[i] /\ IsParticipant(n))
    BY <1>0, <2>1 DEF IsParticipant
  <2> QED
    BY <2>2, <2>3 DEF IdleInv, IsParticipant
<1>10. CASE CollectTurns
  BY <1>10 DEF CollectTurns, IdleInv, IsParticipant
<1>11. ASSUME NEW m \in Members, IsParticipant(m), turn' = [turn EXCEPT ![m] = "spawn"], main' = "turns",
              UNCHANGED <<participants, result>>
       PROVE  IdleInv'
  <2>1. \A n \in Members : turn'[n] = turn[n] \/ n = m
    BY <1>0, <1>11
  <2> QED
    BY <1>11, <2>1 DEF IdleInv, IsParticipant
<1>12. CASE AskSpokesperson
  <2>1. CASE IsParticipant(Spokesperson)
    BY <1>11, <1>12, <2>1, SpokespersonAssumption DEF AskSpokesperson
  <2>2. CASE ~IsParticipant(Spokesperson)
    BY <1>4, <1>12, <2>2 DEF AskSpokesperson
  <2> QED
    BY <2>1, <2>2
<1>13. CASE AskFallback
  <2>1. main = "fallback" /\ UNCHANGED <<participants, result>>
    BY <1>13 DEF AskFallback
  <2>2. \/ \E m \in Members : IsParticipant(m) /\ turn' = [turn EXCEPT ![m] = "spawn"] /\ main' = "turns"
        \/ UNCHANGED turn
    BY <1>13 DEF AskFallback
  <2> QED
    BY <1>4, <1>11, <2>1, <2>2
<1>14. CASE Exit
  BY <1>14 DEF Exit, IdleInv, IsParticipant
<1>15. CASE HandlerCancels
  <2>1. disk' = Restatus(disk, "cancelled") /\ UNCHANGED <<participants, turn, result>>
    BY <1>15 DEF HandlerCancels, Restatus
  <2>2. disk'.status = "cancelled"
    BY <2>1, RestatusFacts DEF TypeOK
  <2>3. main = "turns" \/ main = "unwind" \/ main = "exit" => main' \in {"unwind", "exit"}
    BY <1>15 DEF HandlerCancels
  <2> QED
    BY <2>1, <2>2, <2>3 DEF IdleInv, IsParticipant
<1>16. CASE Unwind
  <2>1. disk.status = "cancelled" /\ disk' = disk /\ main' = "exit" /\ UNCHANGED <<participants, result>>
    BY <1>16 DEF Unwind, StatusInv
  <2>2. turn' = turn \/ turn' = [m \in Members |-> IF turn[m] = "off" THEN "off" ELSE "over"]
    BY <1>16 DEF Unwind
  <2>3. \A m \in Members : turn'[m] # "off" => turn[m] # "off"
    BY <1>0, <2>2
  <2> QED
    BY <2>1, <2>3 DEF IdleInv, IsParticipant
<1>17. CASE KillRunner
  <2>1. turn' = [m \in Members |-> IF turn[m] = "off" THEN "off" ELSE "over"] /\ UNCHANGED <<participants, result>>
    BY <1>17 DEF KillRunner
  <2> QED
    BY <1>0, <2>1 DEF IdleInv, IsParticipant
<1>18. CASE WriteCancelled
  <2>1. disk' = Restatus(apiCopy, "cancelled") /\ UNCHANGED <<main, participants, turn, result>>
    BY <1>18 DEF WriteCancelled, Restatus
  <2>2. disk'.status = "cancelled"
    BY <2>1, RestatusFacts DEF TypeOK
  <2> QED
    BY <2>1, <2>2 DEF IdleInv, IsParticipant
<1>19. CASE UNCHANGED vars
  BY <1>1, <1>19 DEF vars
<1> QED
  BY <1>2, <1>3, <1>5, <1>6, <1>7, <1>8, <1>9, <1>10, <1>12, <1>13, <1>14, <1>15, <1>16, <1>17, <1>18, <1>19
     DEF Next, MainStep, HandlerStep, ApiStep, QuietStep

LEMMA ChildStep ==
  ASSUME TypeOK, IdleInv, ChildInv, [Next]_vars
  PROVE  ChildInv'
<1>0. /\ turn \in [Members -> {"off", "spawn", "register", "wait", "unregister", "answer", "over"}]
      /\ child \in [Members -> {"none", "alive", "answered", "broken", "killed"}]
      /\ \A i \in DOMAIN participants : participants[i] \in Members
  BY DEF TypeOK
<1> USE DEF turns
<1>1. CASE UNCHANGED <<main, turn, child, signal>>
  BY <1>1 DEF ChildInv
<1>2. ASSUME NEW m \in Members, TurnStep(m) \/ ChildExits(m)
      PROVE  ChildInv'
  <2>1. UNCHANGED <<main, signal>>
    BY <1>2, TurnFrame DEF control
  <2>2. CASE Spawn(m) \/ SpawnFails(m) \/ TakeActiveLock(m) \/ Register(m) \/ SeeExit(m) \/ ChildExits(m)
    BY <1>0, <2>1, <2>2 DEF Spawn, SpawnFails, EndTurn, TakeActiveLock, Register, SeeExit, ChildExits, ChildInv
  <2>3. CASE SeeCancel(m) \/ TurnTimesOut(m)
    BY <1>0, <2>1, <2>3 DEF SeeCancel, TurnTimesOut, StopChild, ChildInv
  <2>4. CASE Unregister(m)
    <3>1. /\ child' = child /\ turn[m] = "unregister"
          /\ \A n \in Members : n # m => turn'[n] = turn[n]
      BY <1>0, <2>4 DEF Unregister, EndTurn
    <3> QED
      BY <2>1, <3>1 DEF ChildInv
  <2>5. CASE PostAnswer(m)
    <3>1. /\ child' = child /\ turn[m] = "answer"
          /\ \A n \in Members : n # m => turn'[n] = turn[n]
      BY <1>0, <2>5 DEF PostAnswer, EndTurn
    <3> QED
      BY <2>1, <3>1 DEF ChildInv
  <2> QED
    BY <1>2, <2>2, <2>3, <2>4, <2>5 DEF TurnStep
\* No CLI runs between the turns of a runner nobody has interrupted.
<1>3. ASSUME main \in {"start", "build", "persist", "head", "synthesis", "fallback", "record", "finalize"},
             signal # "raised", UNCHANGED child
      PROVE  ChildInv'
  <2>1. \A m \in Members : child[m] # "alive"
    BY <1>3 DEF ChildInv, IdleInv, Busy
  <2> QED
    BY <1>3, <2>1 DEF ChildInv
<1>4. CASE LockSession \/ ReadForCancel \/ SendNothing \/ SeeRunnerGone \/ WriteCancelled
  BY <1>1, <1>4 DEF LockSession, ReadForCancel, SendNothing, SeeRunnerGone, WriteCancelled, control
<1>5. CASE Start \/ BuildParticipants \/ PersistNothing \/ PersistTurns \/ SeeCancelled \/ WallClockExceeded
  BY <1>3, <1>5 DEF Start, BuildParticipants, PersistNothing, PersistTurns, SeeCancelled, WallClockExceeded, MainRuns
<1>6. CASE BeginRound \/ RoundsOver \/ AskSpokesperson \/ AskFallback \/ WriteRecord \/ Finalize \/ Raise
  BY <1>3, <1>6 DEF BeginRound, RoundsOver, AskSpokesperson, AskFallback, WriteRecord, Finalize, Raise, MainRuns
<1>7. CASE NextSpeaker
  <2>1. PICK i \in DOMAIN participants :
          turn[participants[i]] = "off" /\ turn' = [turn EXCEPT ![participants[i]] = "spawn"]
    BY <1>7 DEF NextSpeaker
  <2>2. UNCHANGED <<main, child, signal>>
    BY <1>7 DEF NextSpeaker, control
  <2> QED
    BY <1>0, <2>1, <2>2 DEF ChildInv
<1>8. CASE CollectTurns \/ Exit
  BY <1>8 DEF CollectTurns, Exit, ChildInv
<1>9. CASE HandlerStarts \/ HandlerCancels \/ SendSigterm
  BY <1>9 DEF HandlerStarts, HandlerCancels, SendSigterm, ChildInv, control
<1>10. CASE HandlerKills
  <2>1. /\ child' = [m \in Members |-> IF m \in registered /\ child[m] = "alive" THEN "killed" ELSE child[m]]
        /\ UNCHANGED <<main, turn>> /\ signal = "kill"
    BY <1>10 DEF HandlerKills, control
  <2>2. \A m \in Members : child'[m] = "alive" => child[m] = "alive"
    BY <2>1
  <2> QED
    BY <2>1, <2>2 DEF ChildInv
<1>11. CASE Unwind \/ KillRunner
  BY <1>11 DEF Unwind, KillRunner, ChildInv
<1>12. CASE UNCHANGED vars
  BY <1>1, <1>12 DEF vars
<1> QED
  BY <1>2, <1>4, <1>5, <1>6, <1>7, <1>8, <1>9, <1>10, <1>11, <1>12 DEF Next, MainStep, HandlerStep, ApiStep

LEMMA ResultStep ==
  ASSUME TypeOK, PhaseInv, IdleInv, ResultInv, BatchInv, [Next]_vars
  PROVE  ResultInv'
<1>0. /\ turn \in [Members -> {"off", "spawn", "register", "wait", "unregister", "answer", "over"}]
      /\ result \in [Members -> [result : TurnResult \cup {"none"}, msg : Nat]]
      /\ \A i \in DOMAIN participants : participants[i] \in Members
      /\ phase \in {"build", "round", "skip", "primary", "fallback"}
  BY DEF TypeOK
<1> USE DEF turns, session, control, Heard
<1>1. CASE UNCHANGED <<main, phase, turn, result>>
  BY <1>1 DEF ResultInv
<1>2. ASSUME NEW m \in Members, TurnStep(m) \/ ChildExits(m)
      PROVE  ResultInv'
  <2>1. UNCHANGED <<main, phase>>
    BY <1>2, TurnFrame
  <2>2. CASE turn'[m] = turn[m] /\ result'[m] = result[m]
    BY <1>2, <2>1, <2>2, TurnEffect DEF ResultInv
  <2>3. CASE Busy(m) /\ turn'[m] \in {"register", "wait", "unregister", "answer"}
             /\ (result'[m] = result[m] \/ result'[m].result \in {"cancelled", "timeout"})
             /\ (turn'[m] \in {"register", "wait"} => ~Heard(m) /\ result'[m] = result[m])
    BY <1>2, <2>1, <2>3, TurnEffect DEF ResultInv, IdleInv, Busy
  <2>4. CASE Busy(m) /\ turn'[m] = "over"
    BY <1>2, <2>1, <2>4, TurnEffect DEF ResultInv, IdleInv, Busy
  <2> QED
    BY <1>2, <2>2, <2>3, <2>4, TurnEffect
<1>3. CASE LockSession \/ QuietStep \/ WriteCancelled
  BY <1>1, <1>3, QuietFrame DEF LockSession, WriteCancelled
\* Steps that start from a place without results.
<1>4. ASSUME \A m \in Members : ~Heard(m), UNCHANGED result
      PROVE  ResultInv'
  BY <1>4 DEF ResultInv
<1>5. CASE Start \/ BuildParticipants \/ SeeCancelled \/ WallClockExceeded \/ BeginRound \/ RoundsOver
           \/ AskSpokesperson \/ AskFallback \/ WriteRecord
  <2>1. main \in {"start", "build", "head", "synthesis", "fallback", "record"} /\ UNCHANGED result
    BY <1>5 DEF Start, BuildParticipants, SeeCancelled, WallClockExceeded, BeginRound, RoundsOver,
                AskSpokesperson, AskFallback, WriteRecord
  <2> QED
    BY <1>4, <2>1 DEF ResultInv
<1>6. CASE PersistNothing
  <2>1. main = "persist" /\ batch = <<>> /\ UNCHANGED result
    BY <1>6 DEF PersistNothing
  <2> QED
    BY <1>4, <2>1 DEF BatchInv
<1>7. CASE PersistTurns
  BY <1>7 DEF PersistTurns, ClearTurns, NoResult, ResultInv
<1>8. CASE NextSpeaker
  <2>1. PICK i \in DOMAIN participants :
          turn[participants[i]] = "off" /\ turn' = [turn EXCEPT ![participants[i]] = "spawn"]
    BY <1>8 DEF NextSpeaker
  <2>2. UNCHANGED <<main, phase, result>>
    BY <1>8 DEF NextSpeaker
  <2> QED
    BY <1>0, <2>1, <2>2 DEF ResultInv
<1>9. CASE CollectTurns
  <2>1. /\ main' = "persist" /\ UNCHANGED <<phase, turn, result>> /\ main = "turns"
    BY <1>9 DEF CollectTurns
  <2>2. phase \notin {"build", "skip"}
    BY <2>1 DEF PhaseInv
  <2> QED
    BY <2>1, <2>2 DEF ResultInv
<1>10. ASSUME main' \in {"finalize", "exit", "exited", "unwind", "killed"}, UNCHANGED result,
              \A m \in Members : turn'[m] = turn[m] \/ turn'[m] = "over"
       PROVE  ResultInv'
  BY <1>10 DEF ResultInv
<1>11. CASE Finalize \/ Exit \/ Raise \/ HandlerCancels
  BY <1>10, <1>11 DEF Finalize, Exit, Raise, Fail, HandlerCancels
<1>12. CASE Unwind
  <2>1. /\ main' = "exit" /\ UNCHANGED result
        /\ turn' = turn \/ turn' = [m \in Members |-> IF turn[m] = "off" THEN "off" ELSE "over"]
    BY <1>12 DEF Unwind
  <2> QED
    BY <1>0, <1>10, <2>1
<1>13. CASE KillRunner
  <2>1. /\ main' = "killed" /\ UNCHANGED result
        /\ turn' = [m \in Members |-> IF turn[m] = "off" THEN "off" ELSE "over"]
    BY <1>13 DEF KillRunner
  <2> QED
    BY <1>0, <1>10, <2>1
<1>14. CASE UNCHANGED vars
  BY <1>1, <1>14 DEF vars
<1> QED
  BY <1>2, <1>3, <1>5, <1>6, <1>7, <1>8, <1>9, <1>11, <1>12, <1>13, <1>14
     DEF Next, MainStep, HandlerStep, ApiStep, QuietStep

LEMMA SpeakerStep ==
  ASSUME TypeOK, PhaseInv, IdleInv, ResultInv, SpeakerInv, [Next]_vars
  PROVE  SpeakerInv'
<1>0. /\ turn \in [Members -> {"off", "spawn", "register", "wait", "unregister", "answer", "over"}]
      /\ phase \in {"build", "round", "skip", "primary", "fallback"}
  BY DEF TypeOK
<1> USE DEF turns, session, control, Busy, Heard
<1>1. CASE UNCHANGED <<main, phase, participants, attempted, turn, result>>
  BY <1>1 DEF SpeakerInv, IsParticipant
<1>2. ASSUME NEW m \in Members, TurnStep(m) \/ ChildExits(m)
      PROVE  SpeakerInv'
  <2>1. UNCHANGED <<main, phase, participants, attempted>>
    BY <1>2, TurnFrame
  <2>2. \A n \in Members : Busy(n)' \/ Heard(n)' => Busy(n) \/ Heard(n)
    BY <1>2, TurnEffect
  <2> QED
    BY <2>1, <2>2 DEF SpeakerInv, IsParticipant
<1>3. CASE LockSession \/ QuietStep \/ WriteCancelled
  BY <1>1, <1>3, QuietFrame DEF LockSession, WriteCancelled
<1>4. ASSUME main' \in {"build", "head", "synthesis", "record", "finalize", "exit", "exited", "unwind", "killed"}
      PROVE  SpeakerInv'
  BY <1>4 DEF SpeakerInv
<1>5. CASE Start \/ SeeCancelled \/ RoundsOver \/ WriteRecord \/ Finalize \/ Exit \/ Raise
           \/ HandlerCancels \/ Unwind \/ KillRunner
  BY <1>4, <1>5 DEF Start, SeeCancelled, RoundsOver, WriteRecord, Finalize, Exit, Raise, Fail,
                    HandlerCancels, Unwind, KillRunner
<1>6. ASSUME main' \in {"turns", "persist"}, phase' \in {"build", "round", "skip"}
      PROVE  SpeakerInv'
  BY <1>6 DEF SpeakerInv
<1>7. CASE BuildParticipants
  <2>1. main' = "persist" /\ phase' = phase
    BY <1>7 DEF BuildParticipants
  <2>2. phase = "build"
    BY <1>7 DEF BuildParticipants, PhaseInv
  <2> QED
    BY <1>6, <2>1, <2>2
<1>8. CASE WallClockExceeded \/ BeginRound \/ NextSpeaker
  BY <1>6, <1>8 DEF WallClockExceeded, BeginRound, NextSpeaker
<1>9. CASE PersistNothing \/ PersistTurns
  <2>1. PICK file : AfterPersist(file) /\ main = "persist" /\ UNCHANGED <<participants, attempted>>
    BY <1>9 DEF PersistNothing, PersistTurns
  <2>2. \/ main' \in {"finalize", "head", "synthesis", "record"}
        \/ main' = "fallback" /\ phase = "primary"
    BY <1>0, <2>1, AfterPersistCases
  <2>3. CASE main' = "fallback" /\ phase = "primary"
    BY <2>1, <2>3 DEF SpeakerInv, IsParticipant
  <2> QED
    BY <1>4, <2>2, <2>3
<1>10. CASE CollectTurns
  BY <1>10 DEF CollectTurns, SpeakerInv, IsParticipant
<1>11. CASE AskSpokesperson
  <2>1. \A m \in Members : ~Busy(m) /\ ~Heard(m)
    BY <1>11 DEF AskSpokesperson, IdleInv, ResultInv
  <2>2. CASE IsParticipant(Spokesperson)
    <3>1. /\ phase' = "primary" /\ attempted' = {Spokesperson} /\ main' = "turns"
          /\ turn' = [turn EXCEPT ![Spokesperson] = "spawn"] /\ UNCHANGED result
      BY <1>11, <2>2 DEF AskSpokesperson
    <3> QED
      BY <1>0, <2>1, <3>1 DEF SpeakerInv
  <2>3. CASE ~IsParticipant(Spokesperson)
    BY <1>11, <2>3 DEF AskSpokesperson, SpeakerInv, IsParticipant
  <2> QED
    BY <2>2, <2>3
<1>12. CASE AskFallback
  <2>1. \A m \in Members : ~Busy(m) /\ ~Heard(m)
    BY <1>12 DEF AskFallback, IdleInv, ResultInv
  <2>2. CASE Fail
    BY <1>4, <2>2 DEF Fail
  <2>3. ASSUME NEW m \in Members, FirstResponder(m), IsParticipant(m), phase' = "fallback",
               turn' = [turn EXCEPT ![m] = "spawn"], main' = "turns"
        PROVE  SpeakerInv'
    <3>1. m # Spokesperson
      BY <1>12, <2>3 DEF AskFallback, FirstResponder, SpeakerInv
    <3>2. UNCHANGED result
      BY <1>12 DEF AskFallback
    <3> QED
      BY <1>0, <2>1, <2>3, <3>1, <3>2 DEF SpeakerInv
  <2> QED
    BY <1>12, <2>2, <2>3 DEF AskFallback
<1>13. CASE UNCHANGED vars
  BY <1>1, <1>13 DEF vars
<1> QED
  BY <1>2, <1>3, <1>5, <1>7, <1>8, <1>9, <1>10, <1>11, <1>12, <1>13
     DEF Next, MainStep, HandlerStep, ApiStep, QuietStep

-----------------------------------------------------------------------------
(* The session file, the batch and the cancel request's copy.              *)

\* A batch has keys of its own, so merging it only appends.
LEMMA PersistFacts ==
  ASSUME TypeOK, PhaseInv, PastInv, BatchInv, PersistTurns
  PROVE  /\ disk' \in File /\ disk'.status = disk.status /\ disk'.record = disk.record
         /\ OneTurnPerKey(disk'.turns)
         /\ Len(disk'.turns) >= Len(disk.turns)
         /\ \A i \in DOMAIN disk.turns : i \in DOMAIN disk'.turns /\ disk'.turns[i] = disk.turns[i]
         /\ \A k \in DOMAIN disk'.turns : k \in DOMAIN disk.turns \/ \E j \in DOMAIN batch :
              disk'.turns[k] = batch[j] /\ (disk.status = "cancelled" => batch[j].result = "cancelled")
         /\ disk.status # "cancelled" =>
              \A j \in DOMAIN batch : \E k \in DOMAIN disk'.turns : disk'.turns[k] = batch[j]
<1>1. disk \in File /\ batch \in Seq(Turn) /\ phase \in {"build", "round", "skip", "primary", "fallback"}
  BY DEF TypeOK
<1>2. disk' = Merge(disk, batch) /\ main = "persist"
  BY DEF PersistTurns
<1>3. disk' \in File
  BY <1>1, <1>2, MergeType
<1>4. OneTurnPerKey(disk.turns) /\ OneTurnPerKey(batch)
  BY <1>2 DEF PastInv, BatchInv
<1>5. ASSUME NEW i \in DOMAIN disk.turns, NEW j \in DOMAIN batch, SameKey(disk.turns[i], batch[j])
      PROVE  FALSE
  <2> DEFINE t == disk.turns[i]
             u == batch[j]
  <2>1. t \in Turn /\ u \in Turn
    BY <1>1 DEF File
  <2>2. t.round = u.round /\ t.member = u.member /\ t.round \in Nat /\ u.round \in Nat
        /\ round \in 0..SynthesisRound
    BY <1>5, <2>1, RosterFacts DEF SameKey, Turn, TypeOK
  <2>3. CASE phase = "build"
    BY <1>2, <2>3 DEF PastInv, BeforeRounds
  <2>4. CASE phase = "round"
    BY <1>2, <2>2, <2>4, RosterFacts DEF PastInv, BatchInv, InRounds
  <2>5. CASE phase = "skip"
    BY <1>2, <2>2, <2>5, RosterFacts DEF PastInv, BatchInv, InRounds
  <2>6. CASE phase = "primary"
    BY <1>2, <2>2, <2>6, RosterFacts DEF PastInv, BatchInv, BeforeSynthesis
  <2>7. CASE phase = "fallback"
    BY <1>2, <2>2, <2>7, RosterFacts DEF PastInv, BatchInv, BeforeFallback
  <2> QED
    BY <1>1, <2>3, <2>4, <2>5, <2>6, <2>7
<1> QED
  BY <1>1, <1>2, <1>3, <1>4, <1>5, MergeFacts, MergeStatus

\* The cancel request's write takes turns back or brings a lost synthesis back.
LEMMA CancelFacts ==
  ASSUME TypeOK, ApiInv, WriteCancelled
  PROVE  /\ disk' \in File /\ disk'.status = "cancelled" /\ disk'.record = FALSE
         /\ disk'.turns = apiCopy.turns /\ disk'.turns \in Seq(Turn) /\ UNCHANGED <<mem, caller, main>>
         /\ OneTurnPerKey(disk'.turns) /\ OneSynthesis(disk'.turns) /\ TurnsArePosted(apiCopy.turns)
         /\ \/ \A i \in DOMAIN disk'.turns : i \in DOMAIN disk.turns /\ disk'.turns[i] = disk.turns[i]
            \/ /\ main \in {"exit", "exited", "killed"} /\ disk.status \in {"failed", "cancelled"}
               /\ ButSynthesis(disk.turns, disk'.turns)
<1>1. disk \in File /\ apiCopy \in File
  BY DEF TypeOK
<1>2. disk' = Restatus(apiCopy, "cancelled") /\ api = "write" /\ UNCHANGED <<mem, caller, main>>
  BY DEF WriteCancelled, Restatus, control
<1>3. disk' \in File /\ disk'.status = "cancelled" /\ disk'.turns = apiCopy.turns /\ disk'.record = apiCopy.record
  BY <1>1, <1>2, RestatusFacts
<1>4. /\ apiCopy.record = FALSE
      /\ OneTurnPerKey(apiCopy.turns) /\ OneSynthesis(apiCopy.turns) /\ TurnsArePosted(apiCopy.turns)
      /\ FileCameAfter
  BY <1>2 DEF ApiInv
<1>5. apiCopy.turns \in Seq(Turn) /\ disk.turns \in Seq(Turn)
  BY <1>1 DEF File
<1>6. CASE IsStart(apiCopy.turns, disk.turns)
  <2>1. \A i \in DOMAIN disk'.turns : i \in DOMAIN disk.turns /\ disk'.turns[i] = disk.turns[i]
    BY <1>3, <1>5, <1>6 DEF IsStart
  <2> QED
    BY <1>2, <1>3, <1>4, <1>5, <2>1
<1> QED
  BY <1>2, <1>3, <1>4, <1>5, <1>6 DEF FileCameAfter

\* Every other step of the runner keeps the turns of the file.
LEMMA SameTurns ==
  ASSUME TypeOK, StatusInv, [Next]_vars, ~PersistTurns, ~WriteCancelled, ~Finalize
  PROVE  disk'.turns = disk.turns
<1>0. disk \in File /\ mem \in File
  BY DEF TypeOK
<1> USE DEF session
<1>1. ASSUME NEW m \in Members, TurnStep(m) \/ ChildExits(m)
      PROVE  disk' = disk
  BY <1>1, TurnFrame
<1>2. CASE LockSession \/ QuietStep
  BY <1>2, QuietFrame DEF LockSession
<1>3. CASE Start
  <2>1. disk' = disk \/ disk' = Restatus(disk, "running")
    BY <1>3 DEF Start, Restatus
  <2> QED
    BY <1>0, <2>1, RestatusFacts
<1>4. CASE BuildParticipants \/ PersistNothing \/ SeeCancelled \/ WallClockExceeded \/ BeginRound \/ RoundsOver
           \/ NextSpeaker \/ CollectTurns \/ AskSpokesperson \/ AskFallback \/ WriteRecord \/ Exit \/ Raise \/ KillRunner
  BY <1>4 DEF BuildParticipants, PersistNothing, SeeCancelled, WallClockExceeded, BeginRound, RoundsOver,
              NextSpeaker, CollectTurns, AskSpokesperson, AskFallback, WriteRecord, Exit, Raise, KillRunner
<1>6. CASE HandlerCancels
  <2>1. disk' = Restatus(disk, "cancelled")
    BY <1>6 DEF HandlerCancels, Restatus
  <2> QED
    BY <1>0, <2>1, RestatusFacts
<1>7. CASE Unwind
  BY <1>7 DEF Unwind, StatusInv
<1>8. CASE UNCHANGED vars
  BY <1>8 DEF vars
<1> QED
  BY <1>1, <1>2, <1>3, <1>4, <1>6, <1>7, <1>8 DEF Next, MainStep, HandlerStep, ApiStep, QuietStep

LEMMA NoPositions ==
  ASSUME NEW S, NEW s \in Seq(S), \A i \in DOMAIN s : FALSE
  PROVE  s = <<>>
<1>1. Len(s) \in Nat /\ DOMAIN s = 1..Len(s)
  OBVIOUS
<1>2. ~(1 \in 1..Len(s))
  BY <1>1
<1>3. Len(s) = 0
  BY <1>1, <1>2
<1> QED
  BY <1>3, EmptySeq

LEMMA TurnFields ==
  ASSUME NEW t \in Turn
  PROVE  t.round \in 1..SynthesisRound /\ t.member \in Members /\ t.result \in TurnResult /\ t.msg \in Nat
  BY DEF Turn

LEMMA PastStep ==
  ASSUME TypeOK, PhaseInv, StatusInv, ApiInv, PastInv, BatchInv, [Next]_vars
  PROVE  PastInv'
<1>0. /\ disk \in File /\ round \in 0..SynthesisRound /\ batch \in Seq(Turn)
      /\ phase \in {"build", "round", "skip", "primary", "fallback"}
  BY DEF TypeOK
<1> USE DEF session, control
<1>01. \A i \in DOMAIN disk.turns : disk.turns[i] \in Turn /\ disk.turns[i].round \in 1..SynthesisRound
  <2>1. disk.turns \in Seq(Turn)
    BY <1>0 DEF File
  <2> QED
    BY <2>1, TurnFields
<1>1. CASE UNCHANGED <<disk, main, phase, round, participants>>
  BY <1>1 DEF PastInv, InRounds, BeforeRounds, BeforeSynthesis, BeforeFallback, IsParticipant
<1>2. ASSUME NEW m \in Members, TurnStep(m) \/ ChildExits(m)
      PROVE  PastInv'
  BY <1>1, <1>2, TurnFrame
<1>3. CASE LockSession \/ QuietStep
  BY <1>1, <1>3, QuietFrame DEF LockSession
\* Nothing is known of the file once the runner is done with it.
<1>5. ASSUME main' \in {"record", "finalize", "unwind", "exit", "exited", "killed"},
             OneTurnPerKey(disk'.turns)
      PROVE  PastInv'
  BY <1>5 DEF PastInv, OneTurnPerKey, InRounds, BeforeRounds, BeforeSynthesis, BeforeFallback
<1>4. CASE WriteCancelled
  <2>2. UNCHANGED <<main, phase, round, participants>>
    BY <1>4 DEF WriteCancelled
  <2>4. CASE \A i \in DOMAIN disk'.turns : i \in DOMAIN disk.turns /\ disk'.turns[i] = disk.turns[i]
    <3>1. disk'.turns \in Seq(Turn) /\ OneTurnPerKey(disk'.turns)
      BY <1>4, CancelFacts
    <3>2. disk.turns = <<>> => \A i \in DOMAIN disk'.turns : FALSE
      BY <2>4
    <3>3. disk.turns = <<>> => disk'.turns = <<>>
      BY <3>1, <3>2, NoPositions
    <3> QED
      BY <2>4, <2>2, <3>1, <3>3
         DEF PastInv, OneTurnPerKey, InRounds, BeforeRounds, BeforeSynthesis, BeforeFallback, IsParticipant
  <2>5. CASE main \in {"exit", "exited", "killed"}
    BY <1>4, <1>5, <2>2, <2>5, CancelFacts
  <2> QED
    BY <1>4, <2>4, <2>5, CancelFacts
<1>6. CASE SeeCancelled \/ WriteRecord \/ Finalize \/ Exit \/ Raise \/ HandlerCancels \/ Unwind \/ KillRunner
  <2>1. main' \in {"record", "finalize", "unwind", "exit", "exited", "killed"}
    <3>1. CASE WriteRecord
      BY <3>1, WriteRecordFacts
    <3>2. CASE Raise
      BY <3>2, RaiseFacts
    <3> QED
      BY <1>6, <3>1, <3>2 DEF SeeCancelled, Finalize, Exit, HandlerCancels, Unwind, KillRunner
  <2>2. CASE SeeCancelled \/ WriteRecord \/ Exit \/ Raise \/ Unwind \/ KillRunner
    <3>1. disk'.turns = disk.turns
      BY <2>2 DEF SeeCancelled, WriteRecord, Exit, Raise, Unwind, KillRunner, StatusInv
    <3> QED
      BY <1>5, <2>1, <3>1 DEF PastInv
  <2>4. CASE Finalize
    <3>1. \A i \in DOMAIN disk'.turns : i \in DOMAIN disk.turns /\ disk'.turns[i] = disk.turns[i]
      BY <2>4, FinalizeFacts DEF ButSynthesis, IsStart
    <3>2. OneTurnPerKey(disk'.turns)
      BY <3>1 DEF PastInv, OneTurnPerKey
    <3> QED
      BY <1>5, <2>1, <3>2
  <2>3. CASE HandlerCancels
    <3>1. disk' = Restatus(disk, "cancelled")
      BY <2>3 DEF HandlerCancels, Restatus
    <3>2. disk'.turns = disk.turns
      BY <1>0, <3>1, RestatusFacts
    <3> QED
      BY <1>5, <2>1, <3>2 DEF PastInv
  <2> QED
    BY <1>6, <2>2, <2>3, <2>4
<1>7. CASE Start
  <2>1. main = "start" /\ main' \in {"exit", "build"} /\ disk'.turns = <<>>
    <3>1. disk' = disk \/ disk' = Restatus(disk, "running")
      BY <1>7 DEF Start, Restatus
    <3> QED
      BY <1>0, <1>7, <3>1, RestatusFacts DEF Start, StatusInv
  <2> QED
    BY <2>1 DEF PastInv, OneTurnPerKey
<1>8. CASE BuildParticipants
  <2>1. disk' = disk /\ disk.turns = <<>>
    BY <1>8 DEF BuildParticipants, PastInv, BeforeRounds
  <2> QED
    BY <2>1 DEF PastInv, OneTurnPerKey
<1>9. CASE WallClockExceeded \/ BeginRound
  <2>1. InRounds /\ InRounds' /\ ~BeforeRounds' /\ ~BeforeSynthesis' /\ ~BeforeFallback'
    BY <1>9 DEF WallClockExceeded, BeginRound, InRounds, BeforeRounds, BeforeSynthesis, BeforeFallback
  <2>2. UNCHANGED <<disk, round, participants>>
    BY <1>9 DEF WallClockExceeded, BeginRound
  <2> QED
    BY <2>1, <2>2 DEF PastInv, IsParticipant
<1>10. CASE NextSpeaker \/ CollectTurns
  <2>1. main = "turns" /\ main' \in {"turns", "persist"} /\ phase \in {"round", "primary", "fallback"}
        /\ UNCHANGED <<disk, phase, round, participants>>
    BY <1>10 DEF NextSpeaker, CollectTurns, PhaseInv
  <2> QED
    BY <2>1 DEF PastInv, InRounds, BeforeRounds, BeforeSynthesis, BeforeFallback, IsParticipant
<1>11. CASE RoundsOver
  <2>1. InRounds /\ round > Rounds /\ main' = "synthesis" /\ disk' = disk
    BY <1>11 DEF RoundsOver, InRounds
  <2>2. \A i \in DOMAIN disk.turns : disk.turns[i].round <= Rounds
    BY <1>0, <1>01, <2>1, RosterFacts DEF PastInv
  <2> QED
    BY <2>1, <2>2 DEF PastInv, InRounds, BeforeRounds, BeforeSynthesis, BeforeFallback
<1>12. CASE AskSpokesperson
  <2>1. BeforeSynthesis /\ disk' = disk /\ (main' = "fallback" \/ (main' = "turns" /\ phase' = "primary"))
    BY <1>12 DEF AskSpokesperson, BeforeSynthesis
  <2> QED
    BY <2>1 DEF PastInv, InRounds, BeforeRounds, BeforeSynthesis, BeforeFallback
<1>13. CASE AskFallback
  <2>1. BeforeFallback /\ disk' = disk /\ (main' = "finalize" \/ (main' = "turns" /\ phase' = "fallback"))
    BY <1>13 DEF AskFallback, Fail, BeforeFallback
  <2> QED
    BY <2>1 DEF PastInv, InRounds, BeforeRounds, BeforeSynthesis, BeforeFallback
<1>14. ASSUME NEW file, main = "persist", AfterPersist(file), OneTurnPerKey(disk'.turns),
              UNCHANGED participants,
              \A k \in DOMAIN disk'.turns :
                \/ k \in DOMAIN disk.turns /\ disk'.turns[k] = disk.turns[k]
                \/ \E j \in DOMAIN batch : disk'.turns[k] = batch[j]
       PROVE  PastInv'
  <2>0. \A j \in DOMAIN batch : batch[j].round \in 1..SynthesisRound
    BY <1>0, TurnFields
  <2>1. CASE main' \in {"finalize", "record"}
    BY <1>14, <2>1 DEF PastInv, InRounds, BeforeRounds, BeforeSynthesis, BeforeFallback
  <2>2. CASE phase = "build" /\ main' = "head" /\ round' = 1
    <3>1. \A k \in DOMAIN disk'.turns :
            disk'.turns[k].round = 1 /\ ~IsParticipant(disk'.turns[k].member)
      BY <1>14, <2>2 DEF PastInv, BatchInv, BeforeRounds
    <3> QED
      BY <1>14, <2>2, <3>1 DEF PastInv, InRounds, BeforeRounds, BeforeSynthesis, BeforeFallback, IsParticipant
  <2>3. CASE phase = "round" /\ main' = "head" /\ round' = round + 1
    <3>1. \A k \in DOMAIN disk'.turns : disk'.turns[k].round < round'
      <4> SUFFICES ASSUME NEW k \in DOMAIN disk'.turns
                   PROVE  disk'.turns[k].round < round'
        OBVIOUS
      <4>1. round \in 1..Rounds
        BY <1>14, <2>3 DEF PhaseInv
      <4>2. CASE k \in DOMAIN disk.turns /\ disk'.turns[k] = disk.turns[k]
        BY <1>01, <1>14, <2>3, <4>1, <4>2, RosterFacts DEF PastInv, InRounds
      <4>3. CASE \E j \in DOMAIN batch : disk'.turns[k] = batch[j]
        BY <1>14, <2>3, <4>1, <4>3 DEF BatchInv
      <4> QED
        BY <1>14, <4>2, <4>3
    <3> QED
      BY <1>14, <2>3, <3>1 DEF PastInv, InRounds, BeforeRounds, BeforeSynthesis, BeforeFallback
  <2>4. CASE phase = "skip" /\ main' = "synthesis"
    <3>1. round \in 1..Rounds
      BY <1>14, <2>4 DEF PhaseInv
    <3>2. ASSUME NEW k \in DOMAIN disk'.turns
          PROVE  disk'.turns[k].round <= Rounds
      <4>1. CASE k \in DOMAIN disk.turns /\ disk'.turns[k] = disk.turns[k]
        BY <1>01, <1>14, <2>4, <3>1, <4>1, RosterFacts DEF PastInv, InRounds
      <4>2. CASE \E j \in DOMAIN batch : disk'.turns[k] = batch[j]
        BY <1>14, <2>4, <3>1, <4>2, RosterFacts DEF BatchInv
      <4> QED
        BY <1>14, <4>1, <4>2
    <3> QED
      BY <1>14, <2>4, <3>2 DEF PastInv, InRounds, BeforeRounds, BeforeSynthesis, BeforeFallback
  <2>5. CASE phase = "primary" /\ main' = "fallback"
    <3>1. \A k \in DOMAIN disk'.turns :
            disk'.turns[k].round <= Rounds \/ disk'.turns[k].member = Spokesperson
      BY <1>14, <2>5 DEF PastInv, BatchInv, BeforeSynthesis
    <3> QED
      BY <1>14, <2>5, <3>1 DEF PastInv, InRounds, BeforeRounds, BeforeSynthesis, BeforeFallback
  <2> QED
    BY <1>0, <1>14, <2>1, <2>2, <2>3, <2>4, <2>5, AfterPersistCases
<1>15. CASE PersistNothing
  <2>1. main = "persist" /\ AfterPersist(mem) /\ UNCHANGED <<disk, participants>>
    BY <1>15 DEF PersistNothing
  <2>2. OneTurnPerKey(disk'.turns)
    BY <2>1 DEF PastInv, OneTurnPerKey
  <2> QED
    BY <1>14, <2>1, <2>2
<1>16. CASE PersistTurns
  <2>1. main = "persist" /\ AfterPersist(disk') /\ UNCHANGED participants
    BY <1>16 DEF PersistTurns
  <2> QED
    BY <1>14, <1>16, <2>1, PersistFacts
<1>17. CASE UNCHANGED vars
  BY <1>1, <1>17 DEF vars
<1> QED
  BY <1>2, <1>3, <1>4, <1>6, <1>7, <1>8, <1>9, <1>10, <1>11, <1>12, <1>13, <1>15, <1>16, <1>17
     DEF Next, MainStep, HandlerStep, ApiStep, QuietStep

LEMMA BatchStep ==
  ASSUME TypeOK, PhaseInv, IdleInv, ResultInv, SpeakerInv, PastInv, BatchInv, [Next]_vars
  PROVE  BatchInv'
<1>0. /\ participants \in Seq(Members) /\ batch \in Seq(Turn)
      /\ phase \in {"build", "round", "skip", "primary", "fallback"}
      /\ result \in [Members -> [result : TurnResult \cup {"none"}, msg : Nat]]
  BY DEF TypeOK
<1> USE DEF session, control, turns
<1>1. CASE UNCHANGED <<main, phase, round, participants, batch, result>>
  BY <1>1 DEF BatchInv, OneTurnPerKey, Heard, IsParticipant
<1>2. ASSUME main' # "persist"
      PROVE  BatchInv'
  BY <1>2 DEF BatchInv
<1>3. ASSUME NEW m \in Members, TurnStep(m) \/ ChildExits(m)
      PROVE  BatchInv'
  <2>1. UNCHANGED <<main, phase, round, participants, batch>>
    BY <1>3, TurnFrame
  <2>2. CASE main = "persist"
    <3>1. \A n \in Members : result'[n] = result[n]
      BY <1>3, <2>2, TurnEffect DEF IdleInv
    <3> QED
      BY <2>1, <3>1 DEF BatchInv, OneTurnPerKey, Heard, IsParticipant
  <2>3. CASE main # "persist"
    BY <1>2, <2>1, <2>3
  <2> QED
    BY <2>2, <2>3
<1>4. CASE LockSession \/ QuietStep \/ WriteCancelled
  BY <1>1, <1>4, QuietFrame DEF LockSession, WriteCancelled
<1>5. CASE Start \/ SeeCancelled \/ BeginRound \/ RoundsOver \/ NextSpeaker \/ AskSpokesperson \/ AskFallback
           \/ WriteRecord \/ Finalize \/ Exit \/ Raise \/ HandlerCancels \/ Unwind \/ KillRunner
  BY <1>2, <1>5 DEF Start, SeeCancelled, BeginRound, RoundsOver, NextSpeaker, AskSpokesperson, AskFallback,
                    WriteRecord, Finalize, Exit, Raise, Fail, HandlerCancels, Unwind, KillRunner
<1>6. CASE PersistNothing \/ PersistTurns
  <2>1. PICK file : AfterPersist(file)
    BY <1>6 DEF PersistNothing, PersistTurns
  <2> QED
    BY <1>0, <1>2, <2>1, AfterPersistCases
<1>7. CASE BuildParticipants
  <2>1. PICK fate \in [Members -> {"speaks", "skipped", "dropped"}] :
          participants' = Share(fate, "speaks") /\ batch' = SkippedTurns(Share(fate, "skipped"), 1)
    BY <1>7 DEF BuildParticipants
  <2>2. phase' = "build" /\ \A m \in Members : ~Heard(m) /\ ~Heard(m)'
    BY <1>7 DEF BuildParticipants, PhaseInv, ResultInv, Heard
  <2> DEFINE absent == Share(fate, "skipped")
  <2>3. absent \in Seq(Members) /\ NoRepeats(absent) /\ \A k \in DOMAIN absent : fate[absent[k]] = "skipped"
    BY ShareFacts
  <2>4. \A i \in DOMAIN participants' : fate[participants'[i]] = "speaks"
    BY <2>1, ShareFacts
  <2>5. 1 \in 1..SynthesisRound
    BY RosterFacts
  <2> HIDE DEF absent
  <2>6. /\ OneTurnPerKey(SkippedTurns(absent, 1))
        /\ \A i \in DOMAIN SkippedTurns(absent, 1) :
             LET t == SkippedTurns(absent, 1)[i]
             IN t.round = 1 /\ t.result = "skipped" /\ \E k \in DOMAIN absent : t.member = absent[k]
    BY <2>3, <2>5, SkippedTurnsFacts
  <2>7. batch' = SkippedTurns(absent, 1)
    BY <2>1 DEF absent
  <2>8. \A i \in DOMAIN batch' : batch'[i].round = 1 /\ batch'[i].result = "skipped"
                                 /\ fate[batch'[i].member] = "skipped"
    BY <2>3, <2>6, <2>7
  <2> QED
    BY <2>2, <2>4, <2>6, <2>7, <2>8 DEF BatchInv, OneTurnPerKey, IsParticipant
<1>8. CASE WallClockExceeded
  <2>1. round \in 1..Rounds
    BY <1>8, RosterFacts DEF WallClockExceeded, TypeOK, PhaseInv
  <2>2. batch' = RemainingTurns(round) /\ phase' = "skip" /\ UNCHANGED <<round, participants, result>>
    BY <1>8 DEF WallClockExceeded
  <2>3. \A m \in Members : ~Heard(m)'
    BY <1>8 DEF WallClockExceeded, ResultInv, Heard
  <2>4. NoRepeats(participants)
    BY DEF PhaseInv
  <2>5. /\ OneTurnPerKey(RemainingTurns(round))
        /\ \A i \in DOMAIN RemainingTurns(round) :
             LET t == RemainingTurns(round)[i]
             IN t.round \in round..Rounds /\ IsParticipant(t.member) /\ t.result = "skipped"
    BY <1>0, <2>1, <2>4, RemainingTurnsFacts
  <2> QED
    BY <2>2, <2>3, <2>5 DEF BatchInv, OneTurnPerKey, IsParticipant
<1>9. CASE CollectTurns
  <2> DEFINE rnd == IF phase = "round" THEN round ELSE SynthesisRound
  <2>1. /\ batch' = RoundTurns(rnd) /\ main = "turns" /\ phase \in {"round", "primary", "fallback"}
        /\ UNCHANGED <<phase, round, participants, result>>
    BY <1>9 DEF CollectTurns, PhaseInv
  <2>2. rnd \in 1..SynthesisRound
    BY <2>1, RosterFacts DEF PhaseInv
  <2>3. NoRepeats(participants)
    BY DEF PhaseInv
  <2> HIDE DEF rnd
  <2>4. /\ OneTurnPerKey(RoundTurns(rnd))
        /\ \A i \in DOMAIN RoundTurns(rnd) :
             LET t == RoundTurns(rnd)[i]
             IN /\ t.round = rnd /\ t.member \in Members /\ IsParticipant(t.member) /\ Heard(t.member)
                /\ t.result = result[t.member].result /\ t.msg = result[t.member].msg
        /\ \A m \in Members : IsParticipant(m) /\ Heard(m) =>
             \E i \in DOMAIN RoundTurns(rnd) :
               LET t == RoundTurns(rnd)[i]
               IN t.member = m /\ t.result = result[m].result /\ t.msg = result[m].msg
    BY <1>0, <2>2, <2>3, RoundTurnsFacts
  <2>5. \A i \in DOMAIN batch' :
          /\ batch'[i].round = rnd /\ IsParticipant(batch'[i].member)
          /\ phase = "primary" => batch'[i].member = Spokesperson
          /\ phase = "fallback" => batch'[i].member # Spokesperson
                                   /\ \A j \in DOMAIN batch' : batch'[j].member = batch'[i].member
    BY <2>1, <2>4 DEF SpeakerInv
  <2>6. OneTurnPerKey(batch')
    BY <2>1, <2>4
  <2>7. \A m \in Members : Heard(m) =>
          \E i \in DOMAIN batch' :
            batch'[i].member = m /\ batch'[i].result = result[m].result /\ batch'[i].msg = result[m].msg
    BY <2>1, <2>4 DEF IdleInv
  <2> QED
    BY <2>1, <2>5, <2>6, <2>7 DEF BatchInv, OneTurnPerKey, IsParticipant, Heard, rnd
<1>10. CASE UNCHANGED vars
  BY <1>1, <1>10 DEF vars
<1> QED
  BY <1>3, <1>4, <1>5, <1>6, <1>7, <1>8, <1>9, <1>10 DEF Next, MainStep, HandlerStep, ApiStep, QuietStep

-----------------------------------------------------------------------------
(* The board.                                                              *)

\* A step posts one message or none.
LEMMA BoardStep ==
  ASSUME TypeOK, ResultInv, [Next]_vars
  PROVE  \/ board' = board
         \/ \E m \in Members :
              /\ TurnStep(m) /\ Busy(m)
              /\ board' = Append(board, <<m, IF phase = "round" THEN round ELSE SynthesisRound>>)
<1>1. ASSUME NEW m \in Members, TurnStep(m)
      PROVE  \/ board' = board
             \/ Busy(m) /\ board' = Append(board, <<m, IF phase = "round" THEN round ELSE SynthesisRound>>)
  BY <1>1, TurnEffect
<1>2. ASSUME NEW m \in Members, ChildExits(m)
      PROVE  board' = board
  BY <1>2 DEF ChildExits, outside
<1>3. CASE MainStep \/ Raise
  BY <1>3 DEF outside, MainStep, LockSession, Start, BuildParticipants, PersistNothing, PersistTurns, SeeCancelled,
              WallClockExceeded, BeginRound, RoundsOver, NextSpeaker, CollectTurns, AskSpokesperson,
              AskFallback, WriteRecord, Finalize, Exit, Raise
<1>4. CASE HandlerStep
  BY <1>4 DEF outside, HandlerStep, HandlerStarts, HandlerKills, HandlerCancels, Unwind
<1>5. CASE ReadForCancel \/ ApiStep
  BY <1>5 DEF outside, ReadForCancel, ApiStep, SendSigterm, SendNothing, SeeRunnerGone, KillRunner, WriteCancelled
<1>6. CASE UNCHANGED vars
  BY <1>6 DEF vars
<1> QED
  BY <1>1, <1>2, <1>3, <1>4, <1>5, <1>6 DEF Next

LEMMA BoardGrows ==
  ASSUME TypeOK, ResultInv, [Next]_vars
  PROVE  \A k \in DOMAIN board : k \in DOMAIN board' /\ board'[k] = board[k]
<1>1. board \in Seq(Members \X (1..SynthesisRound))
  BY DEF TypeOK
<1> QED
  BY <1>1, BoardStep

LEMMA PostedStep ==
  ASSUME TypeOK, PhaseInv, StatusInv, ApiInv, IdleInv, ResultInv, PastInv, BatchInv, PostedInv,
         BatchInv', [Next]_vars
  PROVE  PostedInv'
<1>0. /\ board \in Seq(Members \X (1..SynthesisRound)) /\ participants \in Seq(Members)
      /\ result \in [Members -> [result : TurnResult \cup {"none"}, msg : Nat]]
      /\ phase \in {"build", "round", "skip", "primary", "fallback"}
  BY DEF TypeOK
<1> DEFINE InDisk == \A i \in DOMAIN disk.turns :
             disk.turns[i].result = "done" => Posted(disk.turns[i].member, disk.turns[i].round, disk.turns[i].msg)
           InBatch == main = "persist" => \A i \in DOMAIN batch :
             batch[i].result = "done" => Posted(batch[i].member, batch[i].round, batch[i].msg)
           InResults == main \in {"turns", "persist"} => \A m \in Members :
             result[m].result = "done" =>
               Posted(m, IF phase = "round" THEN round ELSE SynthesisRound, result[m].msg)
<1>1. \A m, rnd, msg : Posted(m, rnd, msg) => Posted(m, rnd, msg)'
  BY BoardGrows DEF Posted
<1>2. PostedInv <=> InDisk /\ InBatch /\ InResults
  BY DEF PostedInv
<1>3. PostedInv' <=> InDisk' /\ InBatch' /\ InResults'
  BY DEF PostedInv
<1>4. InDisk'
  <2>1. CASE PersistTurns
    <3>1. \A k \in DOMAIN disk'.turns :
            \/ k \in DOMAIN disk.turns /\ disk'.turns[k] = disk.turns[k]
            \/ \E j \in DOMAIN batch : disk'.turns[k] = batch[j]
      BY <2>1, PersistFacts
    <3>2. main = "persist"
      BY <2>1 DEF PersistTurns
    <3> QED
      BY <1>1, <1>2, <3>1, <3>2
  <2>2. CASE WriteCancelled
    BY <1>1, <2>2, CancelFacts DEF TurnsArePosted
  <2>3. CASE ~PersistTurns /\ ~WriteCancelled /\ ~Finalize
    <3>1. disk'.turns = disk.turns
      BY <2>3, SameTurns
    <3> QED
      BY <1>1, <1>2, <3>1
  <2>4. CASE Finalize
    <3>1. \A i \in DOMAIN disk'.turns : i \in DOMAIN disk.turns /\ disk'.turns[i] = disk.turns[i]
      BY <2>4, FinalizeFacts DEF ButSynthesis, IsStart
    <3> QED
      BY <1>1, <1>2, <3>1
  <2> QED
    BY <2>1, <2>2, <2>3, <2>4
<1> HIDE DEF InDisk
<1> USE DEF session, control, turns
<1>5. CASE UNCHANGED <<main, phase, round, batch, result>>
  BY <1>1, <1>2, <1>3, <1>4, <1>5
<1>6. ASSUME NEW m \in Members, TurnStep(m) \/ ChildExits(m)
      PROVE  PostedInv'
  <2>1. UNCHANGED <<main, phase, round, batch>>
    BY <1>6, TurnFrame
  <2>2. InBatch'
    BY <1>1, <1>2, <2>1
  <2>3. ASSUME NEW n \in Members, result'[n].result = "done", main \in {"turns", "persist"}
        PROVE  Posted(n, IF phase = "round" THEN round ELSE SynthesisRound, result[n].msg)'
    <3>1. CASE result'[n] = result[n]
      BY <1>1, <1>2, <2>1, <2>3, <3>1
    <3>2. CASE n = m /\ result'[m] # result[m]
      <4> DEFINE rnd == IF phase = "round" THEN round ELSE SynthesisRound
      <4>1. board' = Append(board, <<m, rnd>>) /\ result'[m] = [result |-> "done", msg |-> Len(board')]
        BY <1>6, <2>3, <3>2, TurnEffect
      <4> HIDE DEF rnd
      <4>2. Len(board') \in DOMAIN board' /\ board'[Len(board')] = <<m, rnd>>
        BY <1>0, <4>1
      <4>3. result'[m].msg = Len(board')
        BY <4>1
      <4>4. Posted(m, rnd, result[m].msg)'
        BY <2>1, <4>2, <4>3 DEF Posted, rnd
      <4> QED
        BY <3>2, <4>4 DEF rnd
    <3> QED
      BY <1>6, <2>3, <3>1, <3>2, TurnEffect
  <2> QED
    BY <1>3, <1>4, <2>1, <2>2, <2>3
<1>7. CASE LockSession \/ QuietStep \/ WriteCancelled
  BY <1>5, <1>7, QuietFrame DEF LockSession, WriteCancelled
<1>8. ASSUME main' \notin {"turns", "persist"}
      PROVE  PostedInv'
  BY <1>3, <1>4, <1>8
<1>9. CASE Start \/ SeeCancelled \/ RoundsOver \/ WriteRecord \/ Finalize \/ Exit \/ Raise
           \/ HandlerCancels \/ Unwind \/ KillRunner
  <2>1. CASE WriteRecord \/ Raise
    BY <1>8, <2>1, WriteRecordFacts, RaiseFacts
  <2> QED
    BY <1>8, <1>9, <2>1 DEF Start, SeeCancelled, RoundsOver, Finalize, Exit, HandlerCancels, Unwind, KillRunner
<1>10. CASE PersistNothing \/ PersistTurns
  <2>1. PICK file : AfterPersist(file)
    BY <1>10 DEF PersistNothing, PersistTurns
  <2> QED
    BY <1>0, <1>8, <2>1, AfterPersistCases
<1>11. ASSUME main' = "persist", phase' \in {"build", "skip"}, \A m \in Members : ~Heard(m), UNCHANGED result
       PROVE  PostedInv'
  <2>1. \A i \in DOMAIN batch' : batch'[i].result = "skipped"
    BY <1>11 DEF BatchInv
  <2> QED
    BY <1>3, <1>4, <1>11, <2>1 DEF Heard
<1>12. CASE BuildParticipants
  BY <1>11, <1>12 DEF BuildParticipants, PhaseInv, ResultInv
<1>13. CASE WallClockExceeded
  BY <1>11, <1>13 DEF WallClockExceeded, ResultInv
<1>14. ASSUME main' = "turns", \A m \in Members : ~Heard(m), UNCHANGED result
       PROVE  PostedInv'
  BY <1>3, <1>4, <1>14 DEF Heard
<1>15. CASE BeginRound
  BY <1>14, <1>15 DEF BeginRound, ResultInv
<1>16. CASE AskSpokesperson \/ AskFallback
  <2>1. /\ main \in {"synthesis", "fallback"} /\ UNCHANGED result
        /\ main' \in {"turns", "fallback", "finalize"}
    BY <1>16 DEF AskSpokesperson, AskFallback, Fail
  <2> QED
    BY <1>8, <1>14, <2>1 DEF ResultInv
<1>17. CASE NextSpeaker
  BY <1>5, <1>17 DEF NextSpeaker
<1>18. CASE CollectTurns
  <2> DEFINE rnd == IF phase = "round" THEN round ELSE SynthesisRound
  <2>1. /\ batch' = RoundTurns(rnd) /\ main = "turns"
        /\ UNCHANGED <<phase, round, result>>
    BY <1>18 DEF CollectTurns
  <2>2. rnd \in 1..SynthesisRound
    BY <2>1, RosterFacts DEF PhaseInv
  <2>3. NoRepeats(participants)
    BY DEF PhaseInv
  <2>4. \A m \in Members : result[m].result = "done" => Posted(m, rnd, result[m].msg)
    BY <1>2, <2>1
  <2> HIDE DEF rnd
  <2>5. \A i \in DOMAIN RoundTurns(rnd) :
          LET t == RoundTurns(rnd)[i]
          IN /\ t.round = rnd /\ t.member \in Members
             /\ t.result = result[t.member].result /\ t.msg = result[t.member].msg
    BY <1>0, <2>2, <2>3, RoundTurnsFacts
  <2>6. InBatch'
    BY <1>1, <2>1, <2>4, <2>5
  <2>7. InResults'
    BY <1>1, <2>1, <2>4 DEF rnd
  <2> QED
    BY <1>3, <1>4, <2>6, <2>7
<1>19. CASE UNCHANGED vars
  BY <1>5, <1>19 DEF vars
<1> QED
  BY <1>6, <1>7, <1>9, <1>10, <1>12, <1>13, <1>15, <1>16, <1>17, <1>18, <1>19
     DEF Next, MainStep, HandlerStep, ApiStep, QuietStep

\* Once the runner is done, only a cancel changes the status of the file.
LEMMA OverFrame ==
  ASSUME TypeOK, [Next]_vars, main \in {"exit", "exited", "killed"}, ~WriteCancelled
  PROVE  main' \in {"exit", "exited", "killed"} /\ (disk' = disk \/ disk'.status = "cancelled")
<1>0. disk \in File
  BY DEF TypeOK
<1> USE DEF session, control
<1>1. ASSUME NEW m \in Members, TurnStep(m) \/ ChildExits(m)
      PROVE  UNCHANGED <<disk, main>>
  BY <1>1, TurnFrame
<1>2. CASE MainStep \/ Raise
  BY <1>2 DEF MainStep, LockSession, Start, BuildParticipants, PersistNothing, PersistTurns, SeeCancelled,
              WallClockExceeded, BeginRound, RoundsOver, NextSpeaker, CollectTurns, AskSpokesperson,
              AskFallback, WriteRecord, Finalize, Exit, Raise
<1>3. CASE QuietStep
  BY <1>3, QuietFrame
<1>4. CASE HandlerCancels
  <2>1. disk' = Restatus(disk, "cancelled") /\ main' = "exit"
    BY <1>4 DEF HandlerCancels, Restatus, Gone
  <2> QED
    BY <1>0, <2>1, RestatusFacts
<1>5. CASE Unwind \/ KillRunner
  BY <1>5 DEF Unwind, KillRunner
<1>6. CASE UNCHANGED vars
  BY <1>6 DEF vars
<1> QED
  BY <1>1, <1>2, <1>3, <1>4, <1>5, <1>6 DEF Next, HandlerStep, ApiStep, QuietStep

\* The cancel request's copy stays an earlier state of the file.
LEMMA CopyStep ==
  ASSUME TypeOK, PhaseInv, StatusInv, ApiInv, ResultInv, PastInv, BatchInv, PostedInv, RecordInv,
         SynthesisInv, [Next]_vars
  PROVE  ApiInv'
<1>0. disk \in File /\ apiCopy \in File
  BY DEF TypeOK
<1>1. apiCopy.turns \in Seq(Turn) /\ disk.turns \in Seq(Turn)
  BY <1>0 DEF File
<1>01. apiCopy' = apiCopy /\ TurnsArePosted(apiCopy.turns) => TurnsArePosted(apiCopy.turns)'
  BY BoardGrows DEF TurnsArePosted, Posted
<1> USE DEF canceller
<1>2. CASE WriteCancelled
  BY <1>2 DEF WriteCancelled, ApiInv
<1>3. CASE ReadForCancel
  <2>1. apiCopy' = disk /\ disk' = disk /\ disk.status \in {"pending", "running"} /\ board' = board
    BY <1>3 DEF ReadForCancel, session, outside
  <2>2. disk.record = FALSE
    BY <1>0, <2>1 DEF RecordInv, File
  <2>3. OneTurnPerKey(disk.turns) /\ OneSynthesis(disk.turns) /\ IsStart(disk.turns, disk.turns)
    BY <1>1, IsStartItself DEF PastInv, SynthesisInv
  <2>4. TurnsArePosted(apiCopy.turns)'
    BY <2>1 DEF PostedInv, TurnsArePosted, Posted
  <2> QED
    BY <2>1, <2>2, <2>3, <2>4 DEF ApiInv, FileCameAfter
<1>4. CASE ~WriteCancelled /\ ~ReadForCancel
  <2>1. /\ apiCopy' = apiCopy
        /\ api' = api \/ api \in {"signal", "wait"}
    <3>1. ASSUME NEW m \in Members, TurnStep(m) \/ ChildExits(m)
          PROVE  UNCHANGED canceller
      BY <3>1, TurnFrame
    <3>2. CASE MainStep \/ Raise
      BY <3>2 DEF MainStep, LockSession, Start, BuildParticipants, PersistNothing, PersistTurns, SeeCancelled,
                  WallClockExceeded, BeginRound, RoundsOver, NextSpeaker, CollectTurns, AskSpokesperson,
                  AskFallback, WriteRecord, Finalize, Exit, Raise
    <3>3. CASE HandlerStep
      BY <3>3 DEF HandlerStep, HandlerStarts, HandlerKills, HandlerCancels, Unwind
    <3>4. CASE ApiStep
      BY <1>4, <3>4 DEF ApiStep, SendSigterm, SendNothing, SeeRunnerGone, KillRunner
    <3>5. CASE UNCHANGED vars
      BY <3>5 DEF vars
    <3> QED
      BY <1>4, <3>1, <3>2, <3>3, <3>4, <3>5 DEF Next
  <2>2. CASE api \notin {"signal", "wait", "write"}
    BY <2>1, <2>2 DEF ApiInv
  <2>3. CASE api \in {"signal", "wait", "write"}
    <3>1. /\ apiCopy.record = FALSE
          /\ OneTurnPerKey(apiCopy.turns) /\ OneSynthesis(apiCopy.turns) /\ TurnsArePosted(apiCopy.turns)
          /\ FileCameAfter
      BY <2>3 DEF ApiInv
    <3>2. FileCameAfter'
      <4>1. CASE PersistTurns
        <5>1. main = "persist"
          BY <4>1 DEF PersistTurns
        <5>2. IsStart(apiCopy.turns, disk.turns)
          BY <3>1, <5>1 DEF FileCameAfter
        <5>3. /\ disk' \in File /\ Len(disk'.turns) >= Len(disk.turns)
              /\ \A i \in DOMAIN disk.turns : disk'.turns[i] = disk.turns[i]
          BY <4>1, PersistFacts
        <5>4. disk'.turns \in Seq(Turn)
          BY <5>3 DEF File
        <5> QED
          BY <1>1, <2>1, <5>2, <5>3, <5>4 DEF IsStart, FileCameAfter
      <4>2. CASE Finalize
        <5>1. main = "finalize" /\ main' = "exit"
          BY <4>2, FinalizeFacts
        <5>2. IsStart(apiCopy.turns, disk.turns)
          BY <3>1, <5>1 DEF FileCameAfter
        <5>3. CASE disk' = disk
          BY <2>1, <5>2, <5>3 DEF FileCameAfter
        <5>4. CASE disk'.turns = disk.turns
          BY <2>1, <5>2, <5>4 DEF FileCameAfter
        <5>5. CASE disk' = mem /\ mem.status = "failed" /\ ButSynthesis(disk'.turns, disk.turns)
          <6>1. disk'.turns \in Seq(Turn)
            BY <5>5 DEF TypeOK, File
          <6>2. IsStart(apiCopy.turns, disk'.turns) \/ ButSynthesis(disk'.turns, apiCopy.turns)
            BY <1>1, <5>2, <5>5, <6>1 DEF IsStart, ButSynthesis
          <6> QED
            BY <2>1, <5>1, <5>5, <6>2 DEF FileCameAfter
        <5> QED
          BY <4>2, <5>3, <5>4, <5>5, FinalizeFacts
      <4>3. CASE ~PersistTurns /\ ~Finalize
        <5>1. disk'.turns = disk.turns
          BY <1>4, <4>3, SameTurns
        <5>2. CASE IsStart(apiCopy.turns, disk.turns)
          BY <2>1, <5>1, <5>2 DEF FileCameAfter
        <5>3. CASE /\ main \in {"exit", "exited", "killed"} /\ disk.status \in {"failed", "cancelled"}
                   /\ ButSynthesis(disk.turns, apiCopy.turns)
          <6>1. main' \in {"exit", "exited", "killed"} /\ disk'.status \in {"failed", "cancelled"}
            BY <1>0, <1>4, <4>3, <5>3, OverFrame
          <6> QED
            BY <2>1, <5>1, <5>3, <6>1 DEF FileCameAfter
        <5> QED
          BY <3>1, <5>2, <5>3 DEF FileCameAfter
      <4> QED
        BY <4>1, <4>2, <4>3
    <3> QED
      BY <1>01, <2>1, <3>1, <3>2 DEF ApiInv
  <2> QED
    BY <2>2, <2>3
<1> QED
  BY <1>2, <1>3, <1>4

\* A merge brings one answered synthesis at most, and only when there is none.
LEMMA SynthesisStep ==
  ASSUME TypeOK, PhaseInv, StatusInv, ApiInv, PastInv, BatchInv, VerdictInv, SynthesisInv, [Next]_vars
  PROVE  SynthesisInv'
<1>0. /\ disk \in File /\ batch \in Seq(Turn) /\ disk.turns \in Seq(Turn)
      /\ phase \in {"build", "round", "skip", "primary", "fallback"}
  BY DEF TypeOK, File
<1>1. CASE PersistTurns
  <2>1. main = "persist"
    BY <1>1 DEF PersistTurns
  <2>2. /\ \A i \in DOMAIN disk.turns : i \in DOMAIN disk'.turns /\ disk'.turns[i] = disk.turns[i]
        /\ \A k \in DOMAIN disk'.turns : k \in DOMAIN disk.turns \/ \E j \in DOMAIN batch :
             disk'.turns[k] = batch[j] /\ (disk.status = "cancelled" => batch[j].result = "cancelled")
        /\ OneTurnPerKey(disk'.turns)
    BY <1>1, PersistFacts
  <2>3. ASSUME NEW j \in DOMAIN batch, batch[j].result = "done", batch[j].round = SynthesisRound
        PROVE  /\ phase \in {"primary", "fallback"}
               /\ \A k \in DOMAIN batch : batch[k].member = batch[j].member
    <3>1. phase = "round" => batch[j].round \in 1..Rounds
      BY <2>1 DEF BatchInv, PhaseInv
    <3>2. SynthesisRound \notin 1..Rounds
      BY RoundsAssumption DEF SynthesisRound
    <3> QED
      BY <1>0, <2>1, <2>3, <3>1, <3>2 DEF BatchInv
  <2>4. CASE disk.status = "cancelled"
    BY <2>2, <2>4 DEF SynthesisInv, OneSynthesis
  <2>5. CASE disk.status # "cancelled" /\ phase \in {"primary", "fallback"}
    <3>1. ~HasDone(disk.turns, SynthesisRound)
      BY <2>1, <2>5 DEF VerdictInv, BeforeSynthesis, BeforeFallback
    <3>2. ASSUME NEW k \in DOMAIN disk'.turns, disk'.turns[k].result = "done", disk'.turns[k].round = SynthesisRound
          PROVE  \E j \in DOMAIN batch : disk'.turns[k] = batch[j]
      BY <2>2, <3>1, <3>2 DEF HasDone
    <3>3. ASSUME NEW k \in DOMAIN disk'.turns, disk'.turns[k].result = "done", disk'.turns[k].round = SynthesisRound,
                 NEW l \in DOMAIN disk'.turns, disk'.turns[l].result = "done", disk'.turns[l].round = SynthesisRound
          PROVE  k = l
      <4>1. PICK i \in DOMAIN batch : disk'.turns[k] = batch[i]
        BY <3>2, <3>3
      <4>2. PICK j \in DOMAIN batch : disk'.turns[l] = batch[j]
        BY <3>2, <3>3
      <4>3. batch[i].member = batch[j].member
        BY <2>3, <3>3, <4>1, <4>2
      <4>4. SameKey(disk'.turns[k], disk'.turns[l])
        BY <3>3, <4>1, <4>2, <4>3 DEF SameKey
      <4> QED
        BY <2>2, <4>4 DEF OneTurnPerKey
    <3> QED
      BY <3>3 DEF SynthesisInv, OneSynthesis
  <2>6. CASE phase \notin {"primary", "fallback"}
    BY <2>2, <2>3, <2>6 DEF SynthesisInv, OneSynthesis
  <2> QED
    BY <2>4, <2>5, <2>6
<1>2. CASE WriteCancelled
  BY <1>2, CancelFacts DEF SynthesisInv
<1>3. CASE Finalize
  <2>1. CASE disk' = disk \/ disk'.turns = disk.turns
    BY <2>1 DEF SynthesisInv
  <2>2. CASE disk' = mem /\ ButSynthesis(disk'.turns, disk.turns)
    <3>1. disk'.turns \in Seq(Turn)
      BY <2>2 DEF TypeOK, File
    <3>2. \A i \in DOMAIN disk'.turns : i \in DOMAIN disk.turns /\ disk'.turns[i] = disk.turns[i]
      BY <1>0, <2>2, <3>1 DEF ButSynthesis, IsStart
    <3> QED
      BY <3>2 DEF SynthesisInv, OneSynthesis
  <2> QED
    BY <1>3, <2>1, <2>2, FinalizeFacts
<1>4. CASE ~PersistTurns /\ ~WriteCancelled /\ ~Finalize
  BY <1>4, SameTurns DEF SynthesisInv
<1> QED
  BY <1>1, <1>2, <1>3, <1>4

\* What the caller of _run_synthesis holds has what the file has but for the
\* synthesis, while the local copies go on.
LEMMA CallerStep ==
  ASSUME TypeOK, PhaseInv, StatusInv, CallerInv, ApiInv, PastInv, BatchInv, RecordInv, [Next]_vars
  PROVE  CallerInv'
<1>0. /\ disk \in File /\ mem \in File /\ caller \in File /\ disk.turns \in Seq(Turn) /\ caller.turns \in Seq(Turn)
      /\ batch \in Seq(Turn) /\ mem.record \in BOOLEAN
      /\ phase \in {"build", "round", "skip", "primary", "fallback"}
  BY DEF TypeOK, File
<1> USE DEF session, control
<1> DEFINE InSynthesis == main = "fallback" \/ (main \in Working /\ phase \in {"primary", "fallback"})
<1>1. ASSUME ~InSynthesis'
      PROVE  CallerInv'
  BY <1>1 DEF CallerInv
<1>2. ASSUME InSynthesis, caller' = caller, disk'.turns = disk.turns,
             disk.status = "cancelled" => disk'.status = "cancelled"
      PROVE  CallerInv'
  BY <1>2 DEF CallerInv
<1>3. ASSUME NEW m \in Members, TurnStep(m) \/ ChildExits(m)
      PROVE  CallerInv'
  BY <1>3, TurnFrame DEF CallerInv
<1>4. CASE LockSession \/ QuietStep
  BY <1>4, QuietFrame DEF LockSession, CallerInv
<1>5. CASE Start \/ BuildParticipants
  BY <1>5 DEF Start, BuildParticipants, PhaseInv, CallerInv
<1>6. CASE WallClockExceeded \/ BeginRound
  BY <1>6 DEF WallClockExceeded, BeginRound, CallerInv
<1>7. CASE SeeCancelled \/ WriteRecord \/ Finalize \/ Exit \/ Raise \/ HandlerCancels \/ Unwind \/ KillRunner
  <2>1. main' \notin Working
    BY <1>7, WriteRecordFacts, RaiseFacts, FinalizeFacts
       DEF SeeCancelled, Exit, HandlerCancels, Unwind, KillRunner, Working
  <2> QED
    BY <2>1 DEF CallerInv, Working
<1>8. CASE RoundsOver \/ NextSpeaker \/ CollectTurns
  BY <1>8 DEF RoundsOver, NextSpeaker, CollectTurns, CallerInv, Working
<1>9. CASE AskSpokesperson
  <2>1. main = "synthesis" /\ caller' = mem /\ disk' = disk
    BY <1>9 DEF AskSpokesperson
  <2>2. mem.record = FALSE /\ (disk.status # "cancelled" => mem.turns = disk.turns)
    BY <1>0, <2>1 DEF RecordInv, StatusInv, SynthesisLost, Working
  <2> QED
    BY <1>0, <2>1, <2>2, IsStartItself DEF CallerInv
<1>10. CASE AskFallback
  BY <1>10 DEF AskFallback, CallerInv
<1>11. CASE PersistNothing
  <2>1. main = "persist" /\ AfterPersist(mem) /\ UNCHANGED <<disk, caller>> /\ batch = <<>>
    BY <1>11 DEF PersistNothing
  <2>2. phase' = phase /\ (main' = "fallback" => phase = "primary")
    BY <1>0, <2>1, AfterPersistCases
  <2> QED
    BY <2>1, <2>2 DEF CallerInv, Working
<1>12. CASE PersistTurns
  <2>1. main = "persist" /\ AfterPersist(disk') /\ caller' = caller
    BY <1>12 DEF PersistTurns
  <2>2. phase' = phase /\ (main' = "fallback" => phase = "primary")
    BY <1>0, <2>1, AfterPersistCases
  <2>3. CASE phase \in {"primary", "fallback"}
    <3>1. /\ disk' \in File /\ disk'.status = disk.status /\ Len(disk'.turns) >= Len(disk.turns)
          /\ \A i \in DOMAIN disk.turns : i \in DOMAIN disk'.turns /\ disk'.turns[i] = disk.turns[i]
          /\ \A k \in DOMAIN disk'.turns : k \in DOMAIN disk.turns \/ \E j \in DOMAIN batch : disk'.turns[k] = batch[j]
      BY <1>12, PersistFacts
    <3>2. \A j \in DOMAIN batch : batch[j].round = SynthesisRound
      BY <2>1, <2>3 DEF BatchInv
    <3>3. caller.record = FALSE /\ (disk.status # "cancelled" => ButSynthesis(caller.turns, disk.turns))
      BY <2>1, <2>3 DEF CallerInv, Working
    <3>4. disk'.turns \in Seq(Turn)
      BY <3>1 DEF File
    <3>5. ASSUME ButSynthesis(caller.turns, disk.turns)
          PROVE  ButSynthesis(caller.turns, disk'.turns)
      <4>1. Len(caller.turns) \in Nat /\ Len(disk.turns) \in Nat /\ Len(disk'.turns) \in Nat
            /\ DOMAIN caller.turns = 1..Len(caller.turns) /\ DOMAIN disk.turns = 1..Len(disk.turns)
        BY <1>0, <3>4
      <4>2. IsStart(caller.turns, disk'.turns)
        BY <3>1, <3>5, <4>1 DEF ButSynthesis, IsStart
      <4>3. ASSUME NEW k \in DOMAIN disk'.turns, k > Len(caller.turns)
            PROVE  disk'.turns[k].round = SynthesisRound
        <5>1. CASE k \in DOMAIN disk.turns
          BY <3>1, <3>5, <4>3, <5>1 DEF ButSynthesis
        <5>2. CASE \E j \in DOMAIN batch : disk'.turns[k] = batch[j]
          BY <3>2, <5>2
        <5> QED
          BY <3>1, <5>1, <5>2
      <4> QED
        BY <4>2, <4>3 DEF ButSynthesis
    <3> QED
      BY <2>1, <3>1, <3>3, <3>5 DEF CallerInv
  <2>4. CASE phase \notin {"primary", "fallback"}
    BY <1>1, <2>2, <2>4
  <2> QED
    BY <2>3, <2>4
<1>13. CASE WriteCancelled
  BY <1>13, CancelFacts DEF WriteCancelled, CallerInv
<1>14. CASE UNCHANGED vars
  BY <1>14 DEF vars, CallerInv
<1> QED
  BY <1>3, <1>4, <1>5, <1>6, <1>7, <1>8, <1>9, <1>10, <1>11, <1>12, <1>13, <1>14
     DEF Next, MainStep, HandlerStep, ApiStep, QuietStep

LEMMA AnswerStep ==
  ASSUME TypeOK, PhaseInv, StatusInv, ApiInv, IdleInv, ResultInv, PastInv, BatchInv, AnswerInv, [Next]_vars
  PROVE  AnswerInv'
<1>0. /\ disk \in File /\ mem \in File /\ apiCopy \in File
      /\ board \in Seq(Members \X (1..SynthesisRound))
      /\ result \in [Members -> [result : TurnResult \cup {"none"}, msg : Nat]]
      /\ phase \in {"build", "round", "skip", "primary", "fallback"}
  BY DEF TypeOK
<1> DEFINE NoneDone == \A m \in Members : result[m].result # "done"
           Closing == \/ disk.status = "converged"
                      \/ disk.status = "failed" /\ ~IoFaults
                      \/ /\ main = "finalize" /\ disk.status # "cancelled"
                         /\ mem.status = "converged" \/ ~IoFaults
           Kept == disk.status # "cancelled" /\ (disk.status = "failed" => ~IoFaults) =>
                     \A k \in DOMAIN board : InFile(k) \/ InResult(k)
<1>1. (AnswerInv <=> Kept /\ (Closing => NoneDone)) /\ (AnswerInv' <=> Kept' /\ (Closing' => NoneDone'))
  BY DEF AnswerInv
<1> USE DEF session, outside, control, turns
<1>2. ASSUME UNCHANGED <<board, result>>, disk'.turns = disk.turns,
             disk.status = "cancelled" => disk'.status = "cancelled",
             disk.status = "failed" => disk'.status \in {"failed", "cancelled"},
             Closing' => Closing \/ NoneDone
      PROVE  AnswerInv'
  BY <1>1, <1>2 DEF InFile, InResult
<1>3. ASSUME disk'.status = "cancelled"
      PROVE  AnswerInv'
  BY <1>1, <1>3
<1>4. ASSUME NEW m \in Members, TurnStep(m) \/ ChildExits(m)
      PROVE  AnswerInv'
  <2>1. UNCHANGED <<disk, mem, main>>
    BY <1>4, TurnFrame
  <2>2. CASE result'[m] = result[m] /\ board' = board
    <3>1. \A n \in Members : result'[n] = result[n]
      BY <1>4, <2>2, TurnEffect
    <3> QED
      BY <1>1, <2>1, <2>2, <3>1 DEF InFile, InResult
  <2>3. CASE disk.status = "cancelled"
    BY <1>3, <2>1, <2>3
  <2>4. CASE disk.status # "cancelled" /\ Busy(m)
    <3>1. main = "turns" /\ disk.status = "running"
      BY <2>4 DEF IdleInv, StatusInv, Working
    <3>2. ~Closing'
      BY <2>1, <3>1
    <3>3. result[m].result # "done"
      BY <2>4 DEF ResultInv, Busy
    <3>4. \A n \in Members : n # m => result'[n] = result[n]
      BY <1>4, TurnEffect
    <3>5. \A k \in DOMAIN board : InFile(k)' \/ InResult(k)'
      <4>1. \A k \in DOMAIN board : InFile(k) \/ InResult(k)
        BY <1>1, <3>1
      <4> QED
        BY <2>1, <3>3, <3>4, <4>1 DEF InFile, InResult
    <3>6. CASE board' = board
      BY <1>1, <3>2, <3>5, <3>6
    <3>7. CASE /\ board' = Append(board, <<m, IF phase = "round" THEN round ELSE SynthesisRound>>)
               /\ result'[m] = [result |-> "done", msg |-> Len(board')]
      <4>2. DOMAIN board' = DOMAIN board \cup {Len(board')}
        BY <1>0, <3>7
      <4>3. \A k \in DOMAIN board' : k \in DOMAIN board \/ InResult(k)'
        BY <3>7, <4>2 DEF InResult
      <4> QED
        BY <1>1, <3>2, <3>5, <4>3
    <3> QED
      BY <1>4, <3>6, <3>7, TurnEffect
  <2> QED
    BY <1>4, <2>2, <2>3, <2>4, TurnEffect
<1>5. CASE LockSession \/ QuietStep
  BY <1>2, <1>5, QuietFrame DEF LockSession
<1>6. CASE Start
  <2>1. disk' = disk \/ disk' = Restatus(disk, "running")
    BY <1>6 DEF Start, Restatus
  <2>2. disk'.turns = disk.turns /\ (disk' = disk \/ disk'.status = "running") /\ main' # "finalize"
    BY <1>0, <1>6, <2>1, RestatusFacts DEF Start
  <2>3. (disk.status = "cancelled" => disk' = disk) /\ disk.status # "failed"
    BY <1>6 DEF Start, StatusInv
  <2> QED
    BY <1>2, <1>6, <2>2, <2>3 DEF Start
<1>7. CASE BuildParticipants \/ WallClockExceeded \/ BeginRound \/ RoundsOver \/ NextSpeaker \/ CollectTurns
           \/ AskSpokesperson \/ Exit \/ KillRunner
  <2>1. UNCHANGED <<disk, board, result>> /\ main' # "finalize"
    BY <1>7 DEF BuildParticipants, WallClockExceeded, BeginRound, RoundsOver, NextSpeaker, CollectTurns,
                AskSpokesperson, Exit, KillRunner
  <2> QED
    BY <1>2, <2>1
<1>8. CASE SeeCancelled
  BY <1>3, <1>8 DEF SeeCancelled
<1>9. CASE PersistNothing
  <2>1. UNCHANGED <<disk, board, result>> /\ main = "persist" /\ batch = <<>>
    BY <1>9 DEF PersistNothing
  <2>2. NoneDone
    BY <2>1 DEF BatchInv, Heard
  <2> QED
    BY <1>2, <2>1, <2>2
<1>10. CASE PersistTurns
  <2>1. main = "persist" /\ board' = board /\ result' = [m \in Members |-> NoResult]
    BY <1>10 DEF PersistTurns, ClearTurns
  <2>2. NoneDone'
    BY <2>1 DEF NoResult
  <2>3. ASSUME NEW k \in DOMAIN board, disk.status # "cancelled"
        PROVE  InFile(k)'
    <3>1. CASE InFile(k)
      <4>1. PICK i \in DOMAIN disk.turns : disk.turns[i].result = "done" /\ disk.turns[i].msg = k
        BY <3>1 DEF InFile
      <4>2. i \in DOMAIN disk'.turns /\ disk'.turns[i] = disk.turns[i]
        BY <1>10, PersistFacts
      <4> QED
        BY <4>1, <4>2 DEF InFile
    <3>2. CASE InResult(k)
      <4>1. PICK m \in Members : result[m].result = "done" /\ result[m].msg = k
        BY <3>2 DEF InResult
      <4>2. PICK j \in DOMAIN batch : batch[j].result = "done" /\ batch[j].msg = k
        BY <2>1, <4>1 DEF BatchInv, Heard
      <4>3. PICK i \in DOMAIN disk'.turns : disk'.turns[i] = batch[j]
        BY <1>10, <2>3, PersistFacts
      <4> QED
        BY <4>2, <4>3 DEF InFile
    <3>3. disk.status # "failed"
      BY <2>1 DEF StatusInv, Working
    <3> QED
      BY <1>1, <2>3, <3>1, <3>2, <3>3
  <2>4. disk'.status = disk.status
    BY <1>10, PersistFacts
  <2> QED
    BY <1>1, <2>1, <2>2, <2>3, <2>4
<1>11. CASE AskFallback \/ WriteRecord
  <2>1. UNCHANGED <<disk, board, result>> /\ main \in {"fallback", "record"}
    BY <1>11 DEF AskFallback, WriteRecord
  <2>2. NoneDone
    BY <2>1 DEF ResultInv, Heard
  <2> QED
    BY <1>2, <2>1, <2>2
<1>12. CASE Finalize
  <2>1. CASE disk.status = "cancelled"
    BY <1>3, <1>12, <2>1 DEF Finalize
  <2>2. CASE disk.status # "cancelled"
    <3>1. main = "finalize" /\ main' = "exit" /\ disk' = mem /\ UNCHANGED <<board, result>>
          /\ disk.status = "running" /\ mem.status \in {"converged", "failed"}
      BY <1>12, <2>2, FinalizeFacts
    <3>2. CASE disk'.turns = disk.turns
      BY <1>2, <2>2, <3>1, <3>2
    <3>3. CASE IoFaults /\ mem.status = "failed"
      BY <1>1, <3>1, <3>3
    <3> QED
      BY <1>12, <2>2, <3>2, <3>3, FinalizeFacts
  <2> QED
    BY <2>1, <2>2
<1>13. CASE Raise
  <2>1. UNCHANGED <<disk, board, result>> /\ IoFaults /\ (main' = "exit" \/ mem'.status = "failed")
    BY <1>13, RaiseFacts
  <2> QED
    BY <1>2, <2>1
<1>14. CASE HandlerCancels
  <2>1. disk' = Restatus(disk, "cancelled")
    BY <1>14 DEF HandlerCancels, Restatus
  <2> QED
    BY <1>0, <1>3, <2>1, RestatusFacts
<1>15. CASE WriteCancelled
  BY <1>3, <1>15, CancelFacts
<1>16. CASE Unwind
  BY <1>3, <1>16 DEF Unwind, StatusInv
<1>17. CASE UNCHANGED vars
  BY <1>2, <1>17 DEF vars
<1> QED
  BY <1>4, <1>5, <1>6, <1>7, <1>8, <1>9, <1>10, <1>11, <1>12, <1>13, <1>14, <1>15, <1>16, <1>17
     DEF Next, MainStep, HandlerStep, ApiStep, QuietStep

LEMMA RecordStep ==
  ASSUME TypeOK, PhaseInv, StatusInv, CallerInv, ApiInv, ResultInv, PastInv, BatchInv, PostedInv, RecordInv, [Next]_vars
  PROVE  RecordInv'
<1>0. /\ disk \in File /\ mem \in File /\ records \in Nat
      /\ phase \in {"build", "round", "skip", "primary", "fallback"}
      /\ disk.record \in BOOLEAN /\ mem.record \in BOOLEAN
  BY DEF TypeOK, File
<1>1. SynthesisPosted => SynthesisPosted'
  BY BoardGrows DEF SynthesisPosted
<1> USE DEF session, outside, control, turns
<1>2. ASSUME UNCHANGED <<disk, mem, records>>,
             main' \in {"start"} \cup Working => main \in {"start"} \cup Working,
             main' = "record" => main = "record"
      PROVE  RecordInv'
  BY <1>1, <1>2 DEF RecordInv
<1>3. main \in {"start"} \cup Working => records = 0 /\ disk.record = FALSE /\ mem.record = FALSE
  BY <1>0 DEF RecordInv
<1>4. main \in Working => disk.status \in {"running", "cancelled"} /\ mem.status = "running"
  BY DEF StatusInv
\* Before the record is written there is none, so a new status decides.
<1>5. ASSUME records = 0, UNCHANGED records, disk'.record = FALSE, mem'.record = FALSE,
             main' = "record" \/ mem'.status = "converged" \/ disk'.status = "converged" => SynthesisPosted
      PROVE  RecordInv'
  BY <1>1, <1>5 DEF RecordInv
<1>6. ASSUME NEW m \in Members, TurnStep(m) \/ ChildExits(m)
      PROVE  RecordInv'
  BY <1>2, <1>6, TurnFrame
<1>7. CASE LockSession \/ QuietStep
  BY <1>2, <1>7, QuietFrame DEF LockSession
<1>8. CASE Start
  <2>1. \/ mem' = disk /\ disk' = disk
        \/ mem' = disk' /\ disk' = Restatus(disk, "running")
    BY <1>8 DEF Start, Restatus
  <2>2. disk'.record = disk.record /\ mem' = disk' /\ disk'.status \in {disk.status, "running"}
    BY <1>0, <2>1, RestatusFacts
  <2>3. main = "start" /\ main' \in {"exit", "build"} /\ UNCHANGED records
    BY <1>8 DEF Start
  <2>4. disk.status \in {"pending", "cancelled"}
    BY <2>3 DEF StatusInv
  <2> QED
    BY <1>3, <1>5, <2>2, <2>3, <2>4
<1>9. CASE BuildParticipants \/ SeeCancelled \/ WallClockExceeded \/ BeginRound \/ RoundsOver \/ NextSpeaker
           \/ CollectTurns \/ AskSpokesperson \/ Exit \/ KillRunner
  BY <1>2, <1>9 DEF BuildParticipants, SeeCancelled, WallClockExceeded, BeginRound, RoundsOver, NextSpeaker,
                    CollectTurns, AskSpokesperson, Exit, KillRunner, Working
<1>10. CASE PersistNothing
  <2>1. main = "persist" /\ batch = <<>> /\ AfterPersist(mem) /\ UNCHANGED <<disk, records>>
    BY <1>10 DEF PersistNothing
  <2>2. main' # "record" /\ (mem' = mem \/ mem' = Restatus(mem, "failed"))
    BY <1>0, <2>1, AfterPersistCases DEF AnyDone, Restatus
  <2>3. mem'.record = mem.record /\ mem'.status \in {mem.status, "failed"}
    BY <1>0, <2>2, RestatusFacts
  <2> QED
    BY <1>3, <1>4, <1>5, <2>1, <2>2, <2>3 DEF Working
<1>11. CASE PersistTurns
  <2>1. main = "persist" /\ AfterPersist(disk') /\ UNCHANGED records
    BY <1>11 DEF PersistTurns
  <2>2. disk' \in File /\ disk'.status = disk.status /\ disk'.record = disk.record
    BY <1>11, PersistFacts
  <2>3. mem' = disk' \/ mem' = Restatus(disk', "failed")
    BY <1>0, <2>1, AfterPersistCases DEF Restatus
  <2>4. mem'.record = disk.record /\ mem'.status \in {disk.status, "failed"}
    BY <2>2, <2>3, RestatusFacts
  <2>5. ASSUME main' = "record"
        PROVE  SynthesisPosted
    <3>1. AnyDone(batch) /\ phase \in {"primary", "fallback"}
      BY <1>0, <2>1, <2>5, AfterPersistCases
    <3>2. PICK i \in DOMAIN batch : batch[i].result = "done"
      BY <3>1 DEF AnyDone
    <3>3. batch[i].round = SynthesisRound /\ Posted(batch[i].member, batch[i].round, batch[i].msg)
      BY <2>1, <3>1, <3>2 DEF BatchInv, PostedInv
    <3> QED
      BY <3>3 DEF Posted, SynthesisPosted
  <2> QED
    BY <1>3, <1>4, <1>5, <2>1, <2>2, <2>4, <2>5 DEF Working
<1>12. CASE AskFallback
  <2>1. main = "fallback" /\ UNCHANGED <<disk, records>> /\ ((main' = "turns" /\ UNCHANGED mem) \/ Fail)
    BY <1>12 DEF AskFallback
  <2> QED
    BY <1>0, <1>3, <1>4, <1>5, <2>1, FailFacts DEF Working
<1>13. CASE WriteRecord
  <2>1. main = "record" /\ main' = "finalize" /\ UNCHANGED disk
    BY <1>13, WriteRecordFacts DEF WriteRecord
  <2>2. SynthesisPosted /\ records = 0 /\ disk.record = FALSE /\ mem.record = FALSE
    BY <1>3, <2>1 DEF RecordInv, Working
  <2>3. CASE mem'.status = "failed" /\ mem'.record = mem.record /\ records' = records
    BY <1>1, <2>1, <2>2, <2>3 DEF RecordInv, Working
  <2>4. CASE /\ mem'.status = "converged" /\ mem'.record \in BOOLEAN
             /\ records' \in {records, records + 1} /\ (mem'.record => records' = records + 1)
    BY <1>1, <2>1, <2>2, <2>4 DEF RecordInv, Working
  <2> QED
    BY <1>13, <2>3, <2>4, WriteRecordFacts
<1>14. CASE Finalize
  <2>1. main' = "exit" /\ UNCHANGED <<mem, records>> /\ (disk' = disk \/ disk' = mem)
    BY <1>14 DEF Finalize
  <2> QED
    BY <1>1, <2>1 DEF RecordInv, Working
<1>15. CASE Raise
  <2>1. CASE /\ main \in Working /\ main' = "finalize" /\ mem'.status = "failed"
             /\ mem'.record = OuterSession.record
    <3>1. UNCHANGED <<disk, records>>
      BY <1>15 DEF Raise
    <3>2. OuterSession.record = FALSE
      BY <1>3, <2>1, OuterFacts DEF CallerInv
    <3> QED
      BY <1>0, <1>3, <1>4, <1>5, <2>1, <3>1, <3>2 DEF Working
  <2>2. CASE main' = "exit" /\ UNCHANGED mem
    BY <1>2, <1>15, <2>2 DEF Raise, Working
  <2> QED
    BY <1>15, <2>1, <2>2, RaiseFacts
<1>16. CASE HandlerCancels
  <2>1. disk' = Restatus(disk, "cancelled") /\ main' \in {"exit", "unwind"} /\ UNCHANGED <<mem, records>>
    BY <1>16 DEF HandlerCancels, Restatus
  <2>2. disk'.status = "cancelled" /\ disk'.record = disk.record
    BY <1>0, <2>1, RestatusFacts
  <2> QED
    BY <1>1, <2>1, <2>2 DEF RecordInv, Working
<1>17. CASE Unwind
  BY <1>2, <1>17 DEF Unwind, StatusInv, Working
<1>18. CASE WriteCancelled
  <2>1. disk'.status = "cancelled" /\ disk'.record = FALSE
    BY <1>18, CancelFacts
  <2>2. UNCHANGED <<mem, records, main>>
    BY <1>18 DEF WriteCancelled
  <2> QED
    BY <1>1, <2>1, <2>2 DEF RecordInv
<1>19. CASE UNCHANGED vars
  BY <1>2, <1>19 DEF vars
<1> QED
  BY <1>6, <1>7, <1>8, <1>9, <1>10, <1>11, <1>12, <1>13, <1>14, <1>15, <1>16, <1>17, <1>18, <1>19
     DEF Next, MainStep, HandlerStep, ApiStep, QuietStep

LEMMA VerdictStep ==
  ASSUME TypeOK, PhaseInv, StatusInv, ApiInv, ResultInv, PastInv, BatchInv, VerdictInv, [Next]_vars
  PROVE  VerdictInv'
<1>0. /\ disk \in File /\ mem \in File /\ round \in 0..SynthesisRound /\ batch \in Seq(Turn)
      /\ phase \in {"build", "round", "skip", "primary", "fallback"}
  BY DEF TypeOK
<1>01. /\ SynthesisRound = Rounds + 1 /\ Rounds \in Nat /\ Rounds >= 1 /\ round \in Nat
       /\ \A i \in DOMAIN disk.turns : disk.turns[i].round \in Nat
       /\ \A i \in DOMAIN batch : batch[i].round \in Nat
  <2>1. disk.turns \in Seq(Turn)
    BY <1>0 DEF File
  <2>2. \A i \in DOMAIN disk.turns : disk.turns[i] \in Turn
    BY <2>1
  <2>3. \A i \in DOMAIN batch : batch[i] \in Turn
    BY <1>0
  <2> QED
    BY <1>0, <2>2, <2>3, RosterFacts, RoundsAssumption, TurnFields DEF SynthesisRound
<1> USE DEF session, control
<1>1. ASSUME disk'.status = "cancelled"
      PROVE  VerdictInv'
  BY <1>1 DEF VerdictInv
\* Nothing new in the file, no new stage of the session.
<1>2. ASSUME disk'.turns = disk.turns,
             disk.status = "cancelled" => disk'.status = "cancelled",
             InRounds' => InRounds /\ round' = round,
             BeforeSynthesis' \/ BeforeFallback' => BeforeSynthesis \/ BeforeFallback,
             main' = "record" => main = "record",
             mem'.status = "converged" => main = "record" \/ mem.status = "converged"
      PROVE  VerdictInv'
  BY <1>2 DEF VerdictInv
<1>3. \A i \in DOMAIN disk.turns : InRounds => disk.turns[i].round <= Rounds
  BY <1>0, <1>01 DEF PastInv, PhaseInv, InRounds
<1>4. ASSUME NEW m \in Members, TurnStep(m) \/ ChildExits(m)
      PROVE  VerdictInv'
  <2>1. UNCHANGED <<disk, mem, main, phase, round>>
    BY <1>4, TurnFrame
  <2> QED
    BY <1>2, <2>1 DEF InRounds, BeforeSynthesis, BeforeFallback
<1>5. CASE LockSession \/ QuietStep
  BY <1>2, <1>5, QuietFrame DEF LockSession, InRounds, BeforeSynthesis, BeforeFallback
<1>6. CASE Start
  <2>1. \/ mem' = disk /\ disk' = disk
        \/ mem' = disk' /\ disk' = Restatus(disk, "running")
    BY <1>6 DEF Start, Restatus
  <2>2. disk'.turns = disk.turns /\ mem'.status \in {disk.status, "running"}
    BY <1>0, <2>1, RestatusFacts
  <2>3. main = "start" /\ main' \in {"exit", "build"} /\ UNCHANGED <<phase, round>>
        /\ (disk.status = "cancelled" => disk' = disk)
    BY <1>6 DEF Start
  <2>4. disk.status \in {"pending", "cancelled"}
    BY <2>3 DEF StatusInv
  <2> QED
    BY <1>2, <2>2, <2>3, <2>4 DEF InRounds, BeforeSynthesis, BeforeFallback
<1>7. CASE BuildParticipants
  BY <1>2, <1>7 DEF BuildParticipants, PhaseInv, InRounds, BeforeSynthesis, BeforeFallback
<1>8. CASE SeeCancelled \/ NextSpeaker \/ CollectTurns \/ Exit \/ KillRunner
  BY <1>2, <1>8 DEF SeeCancelled, NextSpeaker, CollectTurns, Exit, KillRunner, InRounds, BeforeSynthesis, BeforeFallback
<1>9. CASE WallClockExceeded \/ BeginRound
  BY <1>2, <1>9 DEF WallClockExceeded, BeginRound, InRounds, BeforeSynthesis, BeforeFallback
<1>10. CASE RoundsOver
  <2>1. main = "head" /\ round > Rounds /\ main' = "synthesis" /\ UNCHANGED <<disk, mem, phase, round>>
    BY <1>10 DEF RoundsOver
  <2>2. disk.status # "cancelled" => HasDone(disk.turns, round - 1)
    BY <1>01, <2>1 DEF VerdictInv, InRounds
  <2>3. HasDone(disk.turns, round - 1) => AnyDone(disk.turns)
    BY DEF HasDone, AnyDone
  <2>4. ~HasDone(disk.turns, SynthesisRound)
    BY <1>01, <1>3, <2>1 DEF HasDone, InRounds
  <2>5. ~InRounds' /\ ~BeforeFallback' /\ main' # "record" /\ (mem'.status = "converged" => mem.status = "converged")
    BY <2>1 DEF InRounds, BeforeFallback
  <2> QED
    BY <2>1, <2>2, <2>3, <2>4, <2>5 DEF VerdictInv
<1>11. CASE PersistNothing
  <2>1. main = "persist" /\ batch = <<>> /\ AfterPersist(mem) /\ UNCHANGED disk
    BY <1>11 DEF PersistNothing
  <2>2. mem.status = "running"
    BY <2>1 DEF StatusInv, Working
  <2>3. ~AnyDone(batch)
    BY <2>1 DEF AnyDone
  <2>4. CASE disk.status = "cancelled"
    BY <1>1, <2>1, <2>4
  <2>5. CASE main' = "finalize" /\ mem' = Restatus(mem, "failed")
    <3>1. mem'.status = "failed"
      BY <1>0, <2>5, RestatusFacts
    <3> QED
      BY <1>2, <2>1, <2>5, <3>1 DEF InRounds, BeforeSynthesis, BeforeFallback
  <2>6. CASE main' = "head" /\ round' = 1 /\ mem' = mem /\ phase = "build"
    <3>1. ~AnyDone(disk.turns)
      BY <2>1, <2>6 DEF PastInv, BeforeRounds, AnyDone
    <3> QED
      BY <2>1, <2>2, <2>6, <3>1 DEF VerdictInv, InRounds, BeforeSynthesis, BeforeFallback
  <2>7. CASE main' = "synthesis" /\ mem' = mem /\ phase = "skip" /\ phase' = phase /\ AnyDone(mem.turns)
             /\ disk.status # "cancelled"
    <3>1. AnyDone(disk.turns)
      BY <2>2, <2>7 DEF StatusInv, SynthesisLost
    <3>2. ~HasDone(disk.turns, SynthesisRound)
      BY <1>01, <1>3, <2>1, <2>7 DEF HasDone, InRounds
    <3> QED
      BY <2>1, <2>2, <2>7, <3>1, <3>2 DEF VerdictInv, InRounds, BeforeSynthesis, BeforeFallback
  <2>8. CASE main' = "fallback" /\ mem' = mem /\ phase = "primary" /\ phase' = phase
    BY <1>2, <2>1, <2>8 DEF InRounds, BeforeSynthesis, BeforeFallback
  <2> QED
    BY <1>0, <2>1, <2>2, <2>3, <2>4, <2>5, <2>6, <2>7, <2>8, AfterPersistCases DEF Restatus
<1>12. CASE PersistTurns
  <2>1. main = "persist" /\ AfterPersist(disk')
    BY <1>12 DEF PersistTurns
  <2>2. CASE disk.status = "cancelled"
    BY <1>1, <1>12, <2>2, PersistFacts
  <2>3. CASE disk.status # "cancelled"
    <3>1. /\ disk' \in File /\ disk'.status = "running"
          /\ \A i \in DOMAIN disk.turns : i \in DOMAIN disk'.turns /\ disk'.turns[i] = disk.turns[i]
          /\ \A k \in DOMAIN disk'.turns :
               \/ k \in DOMAIN disk.turns /\ disk'.turns[k] = disk.turns[k]
               \/ \E j \in DOMAIN batch : disk'.turns[k] = batch[j]
          /\ \A j \in DOMAIN batch : \E k \in DOMAIN disk'.turns : disk'.turns[k] = batch[j]
      <4>1. disk.status = "running"
        BY <2>1, <2>3 DEF StatusInv, Working
      <4> QED
        BY <1>12, <2>3, <4>1, PersistFacts
    <3>2. \A rnd : HasDone(disk.turns, rnd) => HasDone(disk'.turns, rnd)
      BY <3>1 DEF HasDone
    <3>3. AnyDone(disk.turns) => AnyDone(disk'.turns)
      BY <3>1 DEF AnyDone
    <3>4. \A j \in DOMAIN batch : batch[j].result = "done" => HasDone(disk'.turns, batch[j].round)
      BY <3>1 DEF HasDone
    <3>5. AnyDone(batch) => AnyDone(disk'.turns)
      BY <3>1 DEF AnyDone
    <3>6. AnyDone(disk'.turns) => HasDone(disk'.turns, 1)
      <4>1. CASE AnyDone(disk.turns)
        BY <2>3, <3>2, <4>1 DEF VerdictInv
      <4>2. ASSUME NEW j \in DOMAIN batch, batch[j].result = "done", ~AnyDone(disk.turns)
            PROVE  batch[j].round = 1
        <5>1. phase = "round"
          BY <1>0, <2>1, <2>3, <4>2 DEF BatchInv, VerdictInv, BeforeSynthesis, BeforeFallback
        <5>2. ~(round > 1)
          BY <2>1, <2>3, <4>2, <5>1 DEF VerdictInv, InRounds, HasDone, AnyDone
        <5>3. round = 1
          BY <1>01, <2>1, <5>1, <5>2 DEF PhaseInv
        <5> QED
          BY <2>1, <5>1, <5>3 DEF BatchInv
      <4>3. AnyDone(disk'.turns) => AnyDone(disk.turns) \/ \E j \in DOMAIN batch : batch[j].result = "done"
        BY <3>1 DEF AnyDone
      <4> QED
        BY <3>4, <4>1, <4>2, <4>3
    <3>7. CASE main' = "finalize" /\ mem' = Restatus(disk', "failed")
      <4>1. mem'.status = "failed"
        BY <3>1, <3>7, RestatusFacts
      <4> QED
        BY <3>6, <3>7, <4>1 DEF VerdictInv, InRounds, BeforeSynthesis, BeforeFallback
    <3>8. CASE main' = "head" /\ round' = 1 /\ mem' = disk' /\ phase = "build"
      <4>1. disk.turns = <<>> /\ \A j \in DOMAIN batch : batch[j].result # "done"
        BY <2>1, <3>8 DEF PastInv, BeforeRounds, BatchInv
      <4>2. ~AnyDone(disk'.turns)
        BY <3>1, <4>1 DEF AnyDone
      <4> QED
        BY <3>1, <3>6, <3>8, <4>2 DEF VerdictInv, InRounds, BeforeSynthesis, BeforeFallback
    <3>9. CASE main' = "head" /\ round' = round + 1 /\ mem' = disk' /\ phase = "round" /\ AnyDone(batch)
      <4>1. HasDone(disk'.turns, round)
        BY <2>1, <3>4, <3>9 DEF AnyDone, BatchInv
      <4>2. round' - 1 = round /\ round' # 1
        BY <1>01, <2>1, <3>9 DEF PhaseInv
      <4> QED
        BY <3>1, <3>6, <3>9, <4>1, <4>2 DEF VerdictInv, InRounds, BeforeSynthesis, BeforeFallback
    <3>10. CASE main' = "synthesis" /\ mem' = disk' /\ phase = "skip" /\ phase' = phase /\ AnyDone(disk'.turns)
      <4>1. \A j \in DOMAIN batch : batch[j].result # "done"
        BY <2>1, <3>10 DEF BatchInv
      <4>2. ~HasDone(disk'.turns, SynthesisRound)
        BY <1>01, <1>3, <2>1, <3>1, <3>10, <4>1 DEF HasDone, InRounds
      <4> QED
        BY <3>1, <3>6, <3>10, <4>2 DEF VerdictInv, InRounds, BeforeSynthesis, BeforeFallback
    <3>11. CASE main' = "fallback" /\ mem' = disk' /\ phase = "primary" /\ phase' = phase /\ ~AnyDone(batch)
      <4>1. AnyDone(disk.turns) /\ ~HasDone(disk.turns, SynthesisRound)
        BY <2>1, <2>3, <3>11 DEF VerdictInv, BeforeSynthesis
      <4>2. ~HasDone(disk'.turns, SynthesisRound)
        BY <3>1, <3>11, <4>1 DEF HasDone, AnyDone
      <4> QED
        BY <3>1, <3>3, <3>6, <3>11, <4>1, <4>2 DEF VerdictInv, InRounds, BeforeSynthesis, BeforeFallback
    <3>12. CASE main' = "record" /\ mem' = disk' /\ phase \in {"primary", "fallback"} /\ AnyDone(batch)
      <4>1. HasDone(disk'.turns, SynthesisRound)
        BY <2>1, <3>4, <3>12 DEF AnyDone, BatchInv
      <4> QED
        BY <3>1, <3>5, <3>6, <3>12, <4>1 DEF VerdictInv, InRounds, BeforeSynthesis, BeforeFallback
    <3> QED
      BY <1>0, <2>1, <3>1, <3>7, <3>8, <3>9, <3>10, <3>11, <3>12, AfterPersistCases DEF Restatus
  <2> QED
    BY <2>2, <2>3
<1>13. CASE AskSpokesperson
  BY <1>2, <1>13 DEF AskSpokesperson, InRounds, BeforeSynthesis, BeforeFallback
<1>14. CASE AskFallback
  <2>1. /\ main = "fallback" /\ UNCHANGED <<disk, round>>
        /\ \/ main' = "turns" /\ phase' = "fallback" /\ UNCHANGED mem
           \/ Fail /\ UNCHANGED phase
    BY <1>14 DEF AskFallback
  <2> QED
    BY <1>0, <1>2, <2>1, FailFacts DEF InRounds, BeforeSynthesis, BeforeFallback
<1>15. CASE WriteRecord
  <2>1. main = "record" /\ main' = "finalize" /\ UNCHANGED <<disk, phase, round>>
    BY <1>15, WriteRecordFacts DEF WriteRecord
  <2> QED
    BY <1>2, <2>1 DEF InRounds, BeforeSynthesis, BeforeFallback
<1>16. CASE Finalize
  <2>1. CASE disk.status = "cancelled"
    BY <1>1, <1>16, <2>1 DEF Finalize
  <2>2. CASE disk.status # "cancelled"
    <3>1. main' = "exit" /\ mem' = mem
      BY <1>16, FinalizeFacts
    <3>2. CASE disk'.turns = disk.turns
      BY <1>2, <2>2, <3>1, <3>2 DEF InRounds, BeforeSynthesis, BeforeFallback
    <3>3. CASE mem.status = "failed" /\ ButSynthesis(disk'.turns, disk.turns) /\ disk' = mem
      <4>1. /\ disk'.turns \in Seq(Turn) /\ disk.turns \in Seq(Turn)
        BY <1>0, <3>3 DEF File
      <4>2. /\ \A i \in DOMAIN disk'.turns : i \in DOMAIN disk.turns /\ disk'.turns[i] = disk.turns[i]
            /\ \A i \in DOMAIN disk.turns : i \in DOMAIN disk'.turns \/ disk.turns[i].round = SynthesisRound
        BY <3>3, <4>1 DEF ButSynthesis, IsStart
      <4>3. AnyDone(disk'.turns) => HasDone(disk.turns, 1)
        BY <2>2, <4>2 DEF VerdictInv, AnyDone
      <4>4. HasDone(disk.turns, 1) => HasDone(disk'.turns, 1)
        BY <1>01, <4>2 DEF HasDone
      <4> QED
        BY <3>1, <3>3, <4>3, <4>4 DEF VerdictInv, InRounds, BeforeSynthesis, BeforeFallback
    <3> QED
      BY <1>16, <2>2, <3>2, <3>3, FinalizeFacts
  <2> QED
    BY <2>1, <2>2
<1>17. CASE Raise
  <2>1. UNCHANGED disk /\ main' \in {"finalize", "exit"} /\ (mem'.status = "failed" \/ UNCHANGED mem)
    BY <1>17, RaiseFacts
  <2> QED
    BY <1>2, <2>1 DEF InRounds, BeforeSynthesis, BeforeFallback
<1>18. CASE HandlerCancels
  <2>1. disk' = Restatus(disk, "cancelled")
    BY <1>18 DEF HandlerCancels, Restatus
  <2> QED
    BY <1>0, <1>1, <2>1, RestatusFacts
<1>19. CASE WriteCancelled
  BY <1>1, <1>19, CancelFacts
<1>20. CASE Unwind
  BY <1>1, <1>20 DEF Unwind, StatusInv
<1>21. CASE UNCHANGED vars
  BY <1>2, <1>21 DEF vars, InRounds, BeforeSynthesis, BeforeFallback
<1> QED
  BY <1>4, <1>5, <1>6, <1>7, <1>8, <1>9, <1>10, <1>11, <1>12, <1>13, <1>14, <1>15, <1>16, <1>17, <1>18,
     <1>19, <1>20, <1>21
     DEF Next, MainStep, HandlerStep, ApiStep, QuietStep

-----------------------------------------------------------------------------
(* The whole invariant.                                                    *)

RunnerInv ==
  /\ TypeOK /\ PhaseInv /\ StatusInv /\ CallerInv /\ ApiInv /\ SynthesisInv
  /\ IdleInv /\ ChildInv /\ SpeakerInv
  /\ ResultInv /\ PastInv /\ BatchInv /\ PostedInv /\ AnswerInv /\ RecordInv /\ VerdictInv

LEMMA RunnerInvInit == Init => RunnerInv
<1> SUFFICES ASSUME Init
             PROVE  RunnerInv
  OBVIOUS
<1>1. TypeOK /\ PhaseInv
  BY TypeInit
<1>2. /\ disk.status \in {"pending", "cancelled"} /\ disk.turns = <<>> /\ disk.record = FALSE
      /\ mem.status = "pending" /\ mem.turns = <<>> /\ mem.record = FALSE
      /\ main = "start" /\ phase = "build" /\ records = 0 /\ api = "idle" /\ board = <<>>
  BY DEF Init
<1>3. \A m \in Members : turn[m] = "off" /\ child[m] = "none" /\ result[m].result = "none"
  BY DEF Init, NoResult
<1>4. StatusInv /\ CallerInv /\ ApiInv /\ SynthesisInv /\ RecordInv
  BY <1>2 DEF StatusInv, CallerInv, ApiInv, SynthesisInv, OneSynthesis, RecordInv, Working
<1>5. IdleInv /\ ChildInv /\ SpeakerInv /\ ResultInv
  BY <1>2, <1>3 DEF IdleInv, ChildInv, SpeakerInv, ResultInv, Busy, Heard
<1>6. PastInv /\ BatchInv /\ PostedInv /\ AnswerInv /\ VerdictInv
  BY <1>2, <1>3 DEF PastInv, BatchInv, PostedInv, AnswerInv, VerdictInv, OneTurnPerKey, Working,
                    InRounds, BeforeSynthesis, BeforeFallback, AnyDone
<1> QED
  BY <1>1, <1>4, <1>5, <1>6 DEF RunnerInv

LEMMA RunnerInvStep == RunnerInv /\ [Next]_vars => RunnerInv'
<1> SUFFICES ASSUME RunnerInv, [Next]_vars
             PROVE  RunnerInv'
  OBVIOUS
<1>1. TypeOK' /\ PhaseInv' /\ StatusInv' /\ IdleInv' /\ ChildInv' /\ SpeakerInv' /\ ResultInv'
  BY TypeStep, StatusStep, IdleStep, ChildStep, SpeakerStep, ResultStep DEF RunnerInv
<1>2. CallerInv' /\ ApiInv' /\ SynthesisInv' /\ PastInv' /\ BatchInv'
  BY CallerStep, CopyStep, SynthesisStep, PastStep, BatchStep DEF RunnerInv
<1>3. PostedInv' /\ AnswerInv' /\ RecordInv' /\ VerdictInv'
  BY <1>2, PostedStep, AnswerStep, RecordStep, VerdictStep DEF RunnerInv
<1> QED
  BY <1>1, <1>2, <1>3 DEF RunnerInv

THEOREM RunnerInvHolds == Spec => []RunnerInv
  BY RunnerInvInit, RunnerInvStep, PTL DEF Spec

\* In every reachable state of any runner, a done turn of the session file
\* names a message of that member in that round, and no member has two turns
\* in a round: _merge, the synthesis' own round number and the cancel
\* request's stale copy never mix turns up.
THEOREM TurnsMatchBoardHolds == Spec => []TurnsMatchBoard
<1>1. RunnerInv => TurnsMatchBoard
  BY DEF RunnerInv, TurnsMatchBoard, PostedInv, PastInv, OneTurnPerKey, Posted
<1> QED
  BY <1>1, RunnerInvHolds, PTL

\* Every answer on the board of a session that ended with a verdict is a done
\* turn of its file: no answer is lost between a turn's thread, the batch of
\* its round and _persist_turns.
THEOREM EveryAnswerRecordedHolds == Spec => []EveryAnswerRecorded
<1>1. RunnerInv => EveryAnswerRecorded
  BY DEF RunnerInv, EveryAnswerRecorded, AnswerInv, InFile, InResult
<1> QED
  BY <1>1, RunnerInvHolds, PTL

\* One record at most, only with a synthesis on the board, and a converged
\* session names a record only if the daemon has it, whoever synthesised and
\* however late a cancel came.
THEOREM RecordNeedsSynthesisHolds == Spec => []RecordNeedsSynthesis
<1>1. RunnerInv => RecordNeedsSynthesis
  BY DEF RunnerInv, RecordNeedsSynthesis, RecordInv, SynthesisPosted
<1> QED
  BY <1>1, RunnerInvHolds, PTL

\* A runner that ends without its SIGTERM handler cutting it off leaves no
\* member CLI running: every turn saw its process end or killed its group.
THEOREM NoChildSurvives == Spec => []NoChildSurvivesNormalExit
<1>1. RunnerInv => NoChildSurvivesNormalExit
  <2> SUFFICES ASSUME RunnerInv, main = "exited", signal # "raised", NEW m \in Members, child[m] = "alive"
               PROVE  FALSE
    BY DEF NoChildSurvivesNormalExit
  <2>1. turn[m] \in {"register", "wait"}
    BY DEF RunnerInv, ChildInv
  <2> QED
    BY <2>1 DEF RunnerInv, IdleInv, Busy
<1> QED
  BY <1>1, RunnerInvHolds, PTL

\* The runner's own writes keep every turn the session file holds, the final
\* write of its own copy included, but for the synthesis turn it recorded before
\* a file operation raised in _run_synthesis: then the caller's copy ends as
\* failed, and no decision record was made.
THEOREM RunnerKeepsTurns == Spec => RunnerNeverDropsTurns
<1> DEFINE Keeps(i) == i \in DOMAIN disk'.turns /\ disk'.turns[i] = disk.turns[i]
           Loses(i) == disk.turns[i].round = SynthesisRound /\ disk'.status = "failed" /\ records = 0
           Extends == api' = api =>
                        \A i \in DOMAIN disk.turns :
                          \/ i \in DOMAIN disk'.turns /\ disk'.turns[i] = disk.turns[i]
                          \/ disk.turns[i].round = SynthesisRound /\ disk'.status = "failed" /\ records = 0
<1>1. RunnerInv /\ [Next]_vars => [Extends]_vars
  <2> SUFFICES ASSUME RunnerInv, Next, api' = api, NEW i \in DOMAIN disk.turns
               PROVE  Keeps(i) \/ Loses(i)
    OBVIOUS
  <2>1. CASE PersistTurns
    BY <2>1, PersistFacts DEF RunnerInv
  <2>2. CASE ~PersistTurns /\ ~Finalize
    <3>1. ~WriteCancelled
      BY DEF WriteCancelled
    <3>2. disk'.turns = disk.turns
      BY <2>2, <3>1, SameTurns DEF RunnerInv
    <3> QED
      BY <3>2
  <2>3. CASE Finalize
    <3>1. CASE disk'.turns = disk.turns
      BY <3>1
    <3>2. CASE disk' = mem /\ mem.status = "failed" /\ ButSynthesis(disk'.turns, disk.turns)
      <4>1. disk.turns \in Seq(Turn) /\ disk'.turns \in Seq(Turn)
        BY <3>2 DEF RunnerInv, TypeOK, File
      <4>2. records = 0
        BY <3>2 DEF RunnerInv, RecordInv
      <4> QED
        BY <3>2, <4>1, <4>2 DEF ButSynthesis, IsStart
    <3> QED
      BY <2>3, <3>1, <3>2, FinalizeFacts DEF RunnerInv
  <2> QED
    BY <2>1, <2>2, <2>3
<1> QED
  BY <1>1, RunnerInvHolds, PTL DEF Spec, RunnerNeverDropsTurns

-----------------------------------------------------------------------------
(* The runner implements CouncilVerdict.                                   *)

\* The refinement mapping: what a reader of the session file sees.
Answers == {<<disk.turns[i].member, disk.turns[i].round>> :
              i \in {j \in DOMAIN disk.turns : disk.turns[j].result = "done"}}

LEMMA AnswersFacts ==
  /\ \A m, rnd : <<m, rnd>> \in Answers <=>
       \E i \in DOMAIN disk.turns :
         disk.turns[i].result = "done" /\ disk.turns[i].member = m /\ disk.turns[i].round = rnd
  /\ \A a \in Answers : \E m, rnd : a = <<m, rnd>>
  BY DEF Answers

LEMMA AnsweredFacts ==
  ASSUME TypeOK, NEW rnd
  PROVE  (\E m \in Members : <<m, rnd>> \in Answers) <=> HasDone(disk.turns, rnd)
<1>1. disk.turns \in Seq(Turn)
  BY DEF TypeOK, File
<1>2. \A i \in DOMAIN disk.turns : disk.turns[i].member \in Members
  <2>1. \A i \in DOMAIN disk.turns : disk.turns[i] \in Turn
    BY <1>1
  <2> QED
    BY <2>1, TurnFields
<1> QED
  BY <1>2, AnswersFacts DEF HasDone

\* A merged batch adds its answers to those of the file, unless the session
\* was cancelled.
LEMMA MergedAnswers ==
  ASSUME RunnerInv, PersistTurns
  PROVE  /\ disk.status = "cancelled" => Answers' = Answers
         /\ disk.status # "cancelled" =>
              Answers' = Answers \cup {<<batch[j].member, batch[j].round>> :
                                         j \in {i \in DOMAIN batch : batch[i].result = "done"}}
<1>1. /\ \A i \in DOMAIN disk.turns : i \in DOMAIN disk'.turns /\ disk'.turns[i] = disk.turns[i]
      /\ \A k \in DOMAIN disk'.turns : k \in DOMAIN disk.turns \/ \E j \in DOMAIN batch :
           disk'.turns[k] = batch[j] /\ (disk.status = "cancelled" => batch[j].result = "cancelled")
      /\ disk.status # "cancelled" =>
           \A j \in DOMAIN batch : \E k \in DOMAIN disk'.turns : disk'.turns[k] = batch[j]
  BY PersistFacts DEF RunnerInv
<1>2. Answers \subseteq Answers'
  BY <1>1 DEF Answers
<1>3. CASE disk.status = "cancelled"
  <2>1. Answers' \subseteq Answers
    BY <1>1, <1>3 DEF Answers
  <2> QED
    BY <1>2, <1>3, <2>1
<1>4. CASE disk.status # "cancelled"
  <2> DEFINE new == {<<batch[j].member, batch[j].round>> :
                       j \in {i \in DOMAIN batch : batch[i].result = "done"}}
  <2>1. Answers' \subseteq Answers \cup new
    BY <1>1 DEF Answers
  <2>2. new \subseteq Answers'
    BY <1>1, <1>4 DEF Answers
  <2> QED
    BY <1>2, <1>4, <2>1, <2>2
<1> QED
  BY <1>3, <1>4

\* _persist_turns records the answers of a round at once, the synthesis alone
\* and after an answered first round.
LEMMA PersistImplements ==
  ASSUME RunnerInv, PersistTurns
  PROVE  Verdict!RecordAnswers \/ UNCHANGED Verdict!vars
<1>1. /\ main = "persist" /\ batch \in Seq(Turn) /\ disk \in File
      /\ disk.status \in {"running", "cancelled"}
      /\ phase \in {"build", "round", "skip", "primary", "fallback"}
  BY DEF RunnerInv, TypeOK, StatusInv, Working, PersistTurns
<1>2. disk'.status = disk.status /\ disk'.record = disk.record
  BY PersistFacts DEF RunnerInv
<1>3. ASSUME Answers' = Answers
      PROVE  UNCHANGED Verdict!vars
  BY <1>2, <1>3 DEF Verdict!vars, Answers
<1> DEFINE done == {i \in DOMAIN batch : batch[i].result = "done"}
           ms == {batch[j].member : j \in done}
<1>4. \A j \in DOMAIN batch : batch[j].member \in Members
  <2>1. \A j \in DOMAIN batch : batch[j] \in Turn
    BY <1>1
  <2> QED
    BY <2>1, TurnFields
<1>5. ASSUME disk.status = "running", NEW rnd \in 1..SynthesisRound, done # {},
             \A j \in DOMAIN batch : batch[j].round = rnd,
             rnd \in 2..Rounds => HasDone(disk.turns, rnd - 1),
             rnd = SynthesisRound => HasDone(disk.turns, 1) /\ \E m \in Members : ms = {m},
             ~HasDone(disk.turns, rnd)
      PROVE  Verdict!RecordAnswers
  <2>1. Answers' = Answers \cup {<<m, rnd>> : m \in ms}
    BY <1>5, MergedAnswers
  <2>2. ms # {} /\ ms \in SUBSET Members
    BY <1>4, <1>5
  <2> HIDE DEF ms
  <2>3. \A r : Verdict!Answered(r) <=> HasDone(disk.turns, r)
    BY AnsweredFacts DEF RunnerInv, Verdict!Answered, Answers
  <2> QED
    BY <1>2, <1>5, <2>1, <2>2, <2>3 DEF Verdict!RecordAnswers, Answers, SynthesisRound
<1>6. CASE disk.status = "cancelled"
  BY <1>3, <1>6, MergedAnswers
<1>7. CASE disk.status = "running" /\ done = {}
  BY <1>3, <1>7, MergedAnswers
<1>8. CASE disk.status = "running" /\ done # {}
  <2>1. PICK i \in DOMAIN batch : batch[i].result = "done"
    BY <1>8
  <2>2. phase \in {"round", "primary", "fallback"}
    BY <1>1, <2>1 DEF RunnerInv, BatchInv
  <2>3. CASE phase = "round"
    <3>1. round \in 1..Rounds /\ \A j \in DOMAIN batch : batch[j].round = round
      BY <1>1, <2>3 DEF RunnerInv, PhaseInv, BatchInv
    <3>2. Rounds \in Nat /\ SynthesisRound = Rounds + 1
      BY RoundsAssumption DEF SynthesisRound
    <3>3. round > 1 => HasDone(disk.turns, round - 1)
      BY <1>1, <1>8, <2>3 DEF RunnerInv, VerdictInv, InRounds
    <3>4. ~HasDone(disk.turns, round)
      <4>1. round = 1 => ~AnyDone(disk.turns)
        BY <1>1, <1>8, <2>3 DEF RunnerInv, VerdictInv, InRounds
      <4>2. \A k \in DOMAIN disk.turns : disk.turns[k].round < round \/ disk.turns[k].round = 1
        BY <1>1, <2>3 DEF RunnerInv, PastInv, InRounds
      <4>3. \A k \in DOMAIN disk.turns : disk.turns[k].round = round => round = 1
        BY <3>1, <3>2, <4>2
      <4> QED
        BY <4>1, <4>3 DEF HasDone, AnyDone
    <3> QED
      BY <1>5, <1>8, <3>1, <3>2, <3>3, <3>4
  <2>4. CASE phase \in {"primary", "fallback"}
    <3>1. \A j \in DOMAIN batch : batch[j].round = SynthesisRound /\ batch[j].member = batch[i].member
      BY <1>1, <2>1, <2>4 DEF RunnerInv, BatchInv
    <3>2. ms = {batch[i].member} /\ batch[i].member \in Members
      BY <1>4, <2>1, <3>1
    <3>3. HasDone(disk.turns, 1) /\ ~HasDone(disk.turns, SynthesisRound)
      BY <1>1, <1>8, <2>4 DEF RunnerInv, VerdictInv, BeforeSynthesis, BeforeFallback
    <3>4. SynthesisRound \in 1..SynthesisRound /\ SynthesisRound \notin 2..Rounds
      BY RoundsAssumption DEF SynthesisRound
    <3> HIDE DEF ms
    <3>5. \E m \in Members : ms = {m}
      BY <3>2
    <3> QED
      BY <1>5, <1>8, <3>1, <3>3, <3>4, <3>5
  <2> QED
    BY <2>2, <2>3, <2>4
<1> QED
  BY <1>1, <1>6, <1>7, <1>8

\* A file that lost turns of the synthesis lost its answer or none.
LEMMA ShorterAnswers ==
  ASSUME TypeOK, SynthesisInv, disk' = mem, ButSynthesis(disk'.turns, disk.turns)
  PROVE  Answers' \in {Answers, {a \in Answers : a[2] <= Rounds}}
<1>1. disk.turns \in Seq(Turn) /\ disk'.turns \in Seq(Turn)
  BY DEF TypeOK, File
<1>2. /\ \A i \in DOMAIN disk'.turns : i \in DOMAIN disk.turns /\ disk'.turns[i] = disk.turns[i]
      /\ \A i \in DOMAIN disk.turns : i \in DOMAIN disk'.turns \/ disk.turns[i].round = SynthesisRound
  BY <1>1 DEF ButSynthesis, IsStart
<1>3. \A i \in DOMAIN disk.turns : disk.turns[i].round <= Rounds \/ disk.turns[i].round = SynthesisRound
  <2>1. \A i \in DOMAIN disk.turns : disk.turns[i] \in Turn
    BY <1>1
  <2>2. \A n \in 1..SynthesisRound : n <= Rounds \/ n = SynthesisRound
    BY RoundsAssumption DEF SynthesisRound
  <2> QED
    BY <2>1, <2>2, TurnFields
<1>4. ~(SynthesisRound <= Rounds)
  BY RoundsAssumption DEF SynthesisRound
<1>5. Answers' \subseteq Answers
  BY <1>2 DEF Answers
<1>6. CASE \E i \in DOMAIN disk'.turns : disk'.turns[i].result = "done" /\ disk'.turns[i].round = SynthesisRound
  <2>1. \A i \in DOMAIN disk.turns : disk.turns[i].result = "done" => i \in DOMAIN disk'.turns
    BY <1>2, <1>6 DEF SynthesisInv, OneSynthesis
  <2>2. Answers \subseteq Answers'
    BY <1>2, <2>1 DEF Answers
  <2> QED
    BY <1>5, <2>2
<1>7. CASE \A i \in DOMAIN disk'.turns : disk'.turns[i].result = "done" => disk'.turns[i].round # SynthesisRound
  <2>1. ASSUME NEW a \in Answers'
        PROVE  a[2] <= Rounds
    BY <1>2, <1>3, <1>7 DEF Answers
  <2>2. ASSUME NEW a \in Answers, a[2] <= Rounds
        PROVE  a \in Answers'
    <3>1. PICK i \in DOMAIN disk.turns : disk.turns[i].result = "done" /\ a = <<disk.turns[i].member, disk.turns[i].round>>
      BY DEF Answers
    <3>2. i \in DOMAIN disk'.turns /\ disk'.turns[i] = disk.turns[i]
      BY <1>2, <1>4, <2>2, <3>1
    <3> QED
      BY <3>1, <3>2 DEF Answers
  <2> QED
    BY <1>5, <2>1, <2>2
<1> QED
  BY <1>6, <1>7

\* A file that got turns of the synthesis back got one answer at most.
LEMMA LongerAnswers ==
  ASSUME TypeOK, disk' \in File, OneSynthesis(disk'.turns), ButSynthesis(disk.turns, disk'.turns),
         Answers' \notin SUBSET Answers
  PROVE  \E m \in Members : Answers' = Answers \cup {<<m, SynthesisRound>>} /\ ~HasDone(disk.turns, SynthesisRound)
<1>1. disk.turns \in Seq(Turn) /\ disk'.turns \in Seq(Turn)
  BY DEF TypeOK, File
<1>2. /\ \A i \in DOMAIN disk.turns : i \in DOMAIN disk'.turns /\ disk'.turns[i] = disk.turns[i]
      /\ \A i \in DOMAIN disk'.turns : i \in DOMAIN disk.turns \/ disk'.turns[i].round = SynthesisRound
  BY <1>1 DEF ButSynthesis, IsStart
<1>3. PICK a \in Answers' : a \notin Answers
  OBVIOUS
<1>4. PICK i \in DOMAIN disk'.turns :
        disk'.turns[i].result = "done" /\ a = <<disk'.turns[i].member, disk'.turns[i].round>>
  BY <1>3 DEF Answers
<1>5. i \notin DOMAIN disk.turns
  BY <1>2, <1>3, <1>4 DEF Answers
<1>6. disk'.turns[i].round = SynthesisRound /\ disk'.turns[i].member \in Members
  <2>1. disk'.turns[i] \in Turn
    BY <1>1
  <2> QED
    BY <1>2, <1>5, <2>1, TurnFields
<1>7. ASSUME NEW k \in DOMAIN disk.turns, disk.turns[k].result = "done", disk.turns[k].round = SynthesisRound
      PROVE  FALSE
  BY <1>2, <1>4, <1>5, <1>6, <1>7 DEF OneSynthesis
<1>8. \A k \in DOMAIN disk'.turns : disk'.turns[k].result = "done" => k = i \/ k \in DOMAIN disk.turns
  BY <1>2, <1>4, <1>6 DEF OneSynthesis
<1>9. Answers \subseteq Answers' /\ a \in Answers'
  BY <1>2, <1>3 DEF Answers
<1>10. Answers' \subseteq Answers \cup {a}
  BY <1>2, <1>4, <1>8 DEF Answers
<1>11. Answers' = Answers \cup {<<disk'.turns[i].member, SynthesisRound>>}
  BY <1>4, <1>6, <1>9, <1>10
<1> QED
  BY <1>6, <1>7, <1>11 DEF HasDone

LEMMA StepImplements ==
  ASSUME RunnerInv, [Next]_vars
  PROVE  [Verdict!Next]_(Verdict!vars)
<1>0. /\ disk \in File /\ mem \in File /\ apiCopy \in File
      /\ disk.record \in BOOLEAN /\ mem.record \in BOOLEAN
  BY DEF RunnerInv, TypeOK, File
<1> USE DEF session, Verdict!Next
<1>1. ASSUME disk' = disk
      PROVE  UNCHANGED Verdict!vars
  BY <1>1 DEF Verdict!vars
\* A new status over the same turns.
<1>2. ASSUME disk'.turns = disk.turns
      PROVE  Answers' = Answers
  BY <1>2 DEF Answers
<1>3. ASSUME NEW m \in Members, TurnStep(m) \/ ChildExits(m)
      PROVE  UNCHANGED Verdict!vars
  BY <1>1, <1>3, TurnFrame
<1>4. CASE LockSession \/ QuietStep
  BY <1>1, <1>4, QuietFrame DEF LockSession
<1>5. CASE Start
  <2>1. CASE disk.status = "cancelled"
    BY <1>1, <1>5, <2>1 DEF Start
  <2>2. CASE disk.status # "cancelled"
    <3>1. main = "start" /\ disk' = Restatus(disk, "running")
      BY <1>5, <2>2 DEF Start, Restatus
    <3>2. disk.status = "pending"
      BY <2>2, <3>1 DEF RunnerInv, StatusInv
    <3>3. disk'.status = "running" /\ disk'.turns = disk.turns /\ disk'.record = disk.record
      BY <1>0, <3>1, RestatusFacts
    <3>4. Verdict!Begin
      BY <1>2, <3>2, <3>3 DEF Verdict!Begin, Answers
    <3> QED
      BY <3>4
  <2> QED
    BY <2>1, <2>2
<1>6. CASE PersistTurns
  BY <1>6, PersistImplements
<1>7. CASE BuildParticipants \/ PersistNothing \/ SeeCancelled \/ WallClockExceeded \/ BeginRound \/ RoundsOver
           \/ NextSpeaker \/ CollectTurns \/ AskSpokesperson \/ AskFallback \/ WriteRecord \/ Exit \/ Raise \/ KillRunner
  BY <1>1, <1>7 DEF BuildParticipants, PersistNothing, SeeCancelled, WallClockExceeded, BeginRound, RoundsOver,
              NextSpeaker, CollectTurns, AskSpokesperson, AskFallback, WriteRecord, Exit, Raise, KillRunner
<1>8. CASE Finalize
  <2>1. CASE disk.status = "cancelled"
    BY <1>1, <1>8, <2>1 DEF Finalize
  <2>2. CASE disk.status # "cancelled"
    <3>1. main = "finalize" /\ disk' = mem
      BY <1>8, <2>2 DEF Finalize
    <3>2. /\ disk.status = "running" /\ mem.status \in {"converged", "failed"}
          /\ ButSynthesis(disk'.turns, disk.turns)
          /\ disk'.turns = disk.turns \/ mem.status = "failed"
      BY <1>8, <2>2, FinalizeFacts DEF RunnerInv
    <3>3. disk'.turns = disk.turns => Answers' = Answers
      BY <1>2
    <3>4. CASE mem.status = "converged"
      <4>1. HasDone(disk.turns, SynthesisRound)
        BY <2>2, <3>4 DEF RunnerInv, VerdictInv
      <4>2. Verdict!Answered(Rounds + 1)
        BY <4>1, AnsweredFacts DEF RunnerInv, Verdict!Answered, Answers, SynthesisRound
      <4>3. Verdict!Converge
        BY <1>0, <3>1, <3>2, <3>3, <3>4, <4>2 DEF Verdict!Converge, Answers
      <4> QED
        BY <4>3
    <3>5. CASE mem.status = "failed"
      <4>1. mem.record = FALSE /\ disk.record = FALSE
        BY <1>0, <3>2, <3>5 DEF RunnerInv, RecordInv
      <4>2. Answers' \in {Answers, {a \in Answers : a[2] <= Rounds}}
        BY <3>1, <3>2, ShorterAnswers DEF RunnerInv
      <4>3. Verdict!FailSession
        BY <3>1, <3>2, <3>5, <4>1, <4>2 DEF Verdict!FailSession, Answers
      <4> QED
        BY <4>3
    <3> QED
      BY <3>2, <3>4, <3>5
  <2> QED
    BY <2>1, <2>2
<1>9. CASE HandlerCancels
  <2>1. disk' = Restatus(disk, "cancelled")
    BY <1>9 DEF HandlerCancels, Restatus
  <2>2. disk'.status = "cancelled" /\ disk'.turns = disk.turns /\ disk'.record = disk.record
    BY <1>0, <2>1, RestatusFacts
  <2>3. Verdict!Cancel
    BY <1>2, <2>2 DEF Verdict!Cancel, Answers
  <2> QED
    BY <2>3
<1>10. CASE WriteCancelled
  <2>1. /\ disk' \in File /\ disk'.status = "cancelled" /\ disk'.record = FALSE /\ OneSynthesis(disk'.turns)
    BY <1>10, CancelFacts DEF RunnerInv
  <2>2. CASE Answers' \in SUBSET Answers
    BY <2>1, <2>2 DEF Verdict!Cancel, Answers
  <2>3. CASE disk.status \in {"failed", "cancelled"} /\ ButSynthesis(disk.turns, disk'.turns)
             /\ Answers' \notin SUBSET Answers
    <3>1. PICK m \in Members : Answers' = Answers \cup {<<m, SynthesisRound>>} /\ ~HasDone(disk.turns, SynthesisRound)
      BY <2>1, <2>3, LongerAnswers DEF RunnerInv
    <3>2. ~Verdict!Answered(Rounds + 1)
      BY <3>1, AnsweredFacts DEF RunnerInv, Verdict!Answered, Answers, SynthesisRound
    <3>3. Verdict!Cancel
      BY <2>1, <2>3, <3>1, <3>2 DEF Verdict!Cancel, Answers, SynthesisRound
    <3> QED
      BY <3>3
  <2>4. (\A i \in DOMAIN disk'.turns : i \in DOMAIN disk.turns /\ disk'.turns[i] = disk.turns[i])
        => Answers' \in SUBSET Answers
    BY DEF Answers
  <2> QED
    BY <1>10, <2>2, <2>3, <2>4, CancelFacts DEF RunnerInv, Verdict!Cancel
<1>11. CASE Unwind
  BY <1>1, <1>11 DEF Unwind, RunnerInv, StatusInv
<1>12. CASE UNCHANGED vars
  BY <1>1, <1>12 DEF vars
<1> QED
  BY <1>3, <1>4, <1>5, <1>6, <1>7, <1>8, <1>9, <1>10, <1>11, <1>12
     DEF Next, MainStep, HandlerStep, ApiStep, QuietStep

\* The session file of any runner behaves as CouncilVerdict says: answers
\* appear round by round, there is no agreement without a synthesis, and a
\* cancel wins over every verdict, whatever the threads, the signal handler
\* and the cancel request do in between.
THEOREM VerdictIsImplemented == Spec => ImplementsVerdict
<1>1. Init => Verdict!Init
  <2> SUFFICES ASSUME Init
               PROVE  Verdict!Init
    OBVIOUS
  <2>1. disk.status \in {"pending", "cancelled"} /\ disk.turns = <<>> /\ disk.record = FALSE
    BY DEF Init
  <2> QED
    BY <2>1 DEF Verdict!Init
<1>2. RunnerInv /\ [Next]_vars => [Verdict!Next]_(Verdict!vars)
  BY StepImplements
<1> QED
  BY <1>1, <1>2, RunnerInvHolds, PTL DEF Spec, ImplementsVerdict, Verdict!Spec

=============================================================================
