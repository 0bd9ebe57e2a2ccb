----------------------------- MODULE SequenceFolds ----------------------------
(***************************************************************************)
(* What adding up and flattening a sequence computes: lemmas about FoldSeq *)
(* and FlattenSeq of the community modules, by induction over sets of      *)
(* natural numbers.                                                        *)
(***************************************************************************)
EXTENDS Naturals, Sequences, FiniteSets, FiniteSetTheorems, WellFoundedInduction, TLAPS

\* A set of numbers has a least one.
LEMMA LeastNumber ==
  ASSUME NEW S \in SUBSET Nat, S # {}
  PROVE  \E x \in S : \A y \in S : x <= y
<1>1. PICK x \in S : \A y \in S : ~(<<y, x>> \in OpToRel(<, Nat))
  <2>1. IsWellFoundedOn(OpToRel(<, Nat), Nat)
    BY NatLessThanWellFounded
  <2> QED
    BY <2>1, WFMin, Zenon
<1>2. \A y \in S : ~(y < x)
  BY <1>1 DEF OpToRel
<1> QED
  BY <1>2

\* ... and, if there is a bound, a greatest one.
LEMMA GreatestNumber ==
  ASSUME NEW n \in Nat, NEW S \in SUBSET (0..n), S # {}
  PROVE  \E x \in S : \A y \in S : y <= x
<1> DEFINE T == {d \in 0..n : n - d \in S}
<1>1. T \in SUBSET Nat /\ T # {}
  <2>1. PICK x : x \in S
    OBVIOUS
  <2>2. n - x \in T
    BY <2>1
  <2> QED
    BY <2>2
<1>2. PICK d \in T : \A e \in T : d <= e
  BY <1>1, LeastNumber
<1>3. n - d \in S
  BY <1>2
<1>4. ASSUME NEW y \in S PROVE y <= n - d
  <2>1. n - y \in T /\ d \in 0..n /\ y \in 0..n
    BY <1>2
  <2>2. d <= n - y
    BY <1>2, <2>1
  <2> QED
    BY <2>1, <2>2
<1> QED
  BY <1>3, <1>4

\* What holds of 0 and of the successor of whatever it holds of holds of all.
LEMMA NatSetInduction ==
  ASSUME NEW S, 0 \in S, \A n \in Nat : n \in S => n + 1 \in S
  PROVE  Nat \subseteq S
<1> SUFFICES ASSUME Nat \ S # {} PROVE FALSE
  OBVIOUS
<1>1. PICK x \in Nat \ S : \A y \in Nat \ S : x <= y
  BY LeastNumber
<1>2. x # 0
  OBVIOUS
<1>3. x - 1 \in Nat /\ x - 1 < x /\ (x - 1) + 1 = x
  BY <1>2
<1> QED
  BY <1>1, <1>3

-----------------------------------------------------------------------------
(* Sums over finite sets, in the order that CHOOSE takes the elements.     *)

Some(s) == CHOOSE x \in s : TRUE

\* g sums f over the subsets of S, from b on.
IsSum(g, S, b, f) ==
  g = [s \in SUBSET S |-> IF s = {} THEN b ELSE f[Some(s)] + g[s \ {Some(s)}]]

\* ... of natural numbers, and finitely many.
Adds(g, S, b, f) == IsFiniteSet(S) /\ b \in Nat /\ (\A i \in S : f[i] \in Nat) /\ IsSum(g, S, b, f)

LEMMA SomeIsIn == ASSUME NEW s, s # {} PROVE Some(s) \in s
BY DEF Some

\* A set without one of its elements has one element less.
LEMMA OneLess ==
  ASSUME NEW S, IsFiniteSet(S), NEW s \in SUBSET S, NEW x \in s
  PROVE  /\ s \ {x} \in SUBSET S /\ IsFiniteSet(s)
         /\ Cardinality(s) \in Nat \ {0} /\ Cardinality(s \ {x}) = Cardinality(s) - 1
<1>1. IsFiniteSet(s)
  BY FS_Subset
<1>2. Cardinality(s) \in Nat /\ Cardinality(s \ {x}) = Cardinality(s) - 1
  BY <1>1, FS_CardinalityType, FS_RemoveElement
<1>3. Cardinality(s) # 0
  BY <1>1, FS_EmptySet
<1> QED
  BY <1>1, <1>2, <1>3

\* There is such a g: it can be built up set by set.
LEMMA SumExists ==
  ASSUME NEW S, IsFiniteSet(S), NEW b, NEW f
  PROVE  \E g : IsSum(g, S, b, f)
<1> DEFINE Upto(h, n) ==
             h = [s \in SUBSET S |->
                    IF Cardinality(s) > n THEN b
                    ELSE IF s = {} THEN b ELSE f[Some(s)] + h[s \ {Some(s)}]]
           Reached == {n \in Nat : \E h : Upto(h, n)}
<1>1. \A s \in SUBSET S : Cardinality(s) \in Nat /\ (Cardinality(s) = 0 => s = {})
  BY FS_Subset, FS_CardinalityType, FS_EmptySet
<1>2. 0 \in Reached
  <2> DEFINE h == [s \in SUBSET S |-> b]
  <2>1. Upto(h, 0)
    BY <1>1
  <2> HIDE DEF h, Upto
  <2> QED
    BY <2>1
<1>3. ASSUME NEW n \in Nat, n \in Reached PROVE n + 1 \in Reached
  <2>1. PICK h : Upto(h, n)
    BY <1>3
  <2> DEFINE k == [s \in SUBSET S |->
                     IF Cardinality(s) > n + 1 THEN b
                     ELSE IF s = {} THEN b ELSE f[Some(s)] + h[s \ {Some(s)}]]
  <2>2. ASSUME NEW t \in SUBSET S, Cardinality(t) <= n PROVE k[t] = h[t]
    <3>1. ~(Cardinality(t) > n) /\ ~(Cardinality(t) > n + 1)
      BY <1>1, <2>2
    <3>2. k[t] = IF t = {} THEN b ELSE f[Some(t)] + h[t \ {Some(t)}]
      BY <3>1
    <3>3. h[t] = IF t = {} THEN b ELSE f[Some(t)] + h[t \ {Some(t)}]
      BY <2>1, <3>1
    <3> QED
      BY <3>2, <3>3
  <2>3. ASSUME NEW s \in SUBSET S, ~(Cardinality(s) > n + 1), s # {}
        PROVE  k[s \ {Some(s)}] = h[s \ {Some(s)}]
    <3>1. s \ {Some(s)} \in SUBSET S /\ Cardinality(s \ {Some(s)}) = Cardinality(s) - 1
      BY <2>3, SomeIsIn, OneLess
    <3>2. Cardinality(s \ {Some(s)}) <= n
      BY <1>1, <2>3, <3>1
    <3> HIDE DEF k
    <3> QED
      BY <2>2, <3>1, <3>2
  <2>4. Upto(k, n + 1)
    <3>1. \A s \in SUBSET S :
            k[s] = IF Cardinality(s) > n + 1 THEN b
                   ELSE IF s = {} THEN b ELSE f[Some(s)] + k[s \ {Some(s)}]
      <4> TAKE s \in SUBSET S
      <4>1. k[s] = IF Cardinality(s) > n + 1 THEN b
                   ELSE IF s = {} THEN b ELSE f[Some(s)] + h[s \ {Some(s)}]
        OBVIOUS
      <4> HIDE DEF k
      <4> QED
        BY <2>3, <4>1
    <3>2. k = [s \in SUBSET S |-> k[s]]
      OBVIOUS
    <3> HIDE DEF k
    <3> QED
      BY <3>1, <3>2
  <2> HIDE DEF k, Upto
  <2> QED
    BY <2>4
<1>4. Nat \subseteq Reached
  <2> HIDE DEF Reached
  <2> QED
    BY <1>2, <1>3, NatSetInduction
<1>5. Cardinality(S) \in Nat /\ \A s \in SUBSET S : ~(Cardinality(s) > Cardinality(S))
  <2>1. Cardinality(S) \in Nat
    BY <1>1
  <2>2. ASSUME NEW s \in SUBSET S PROVE ~(Cardinality(s) > Cardinality(S))
    <3>1. Cardinality(s) <= Cardinality(S) /\ Cardinality(s) \in Nat
      BY <1>1, FS_Subset
    <3> QED
      BY <2>1, <3>1
  <2> QED
    BY <2>1, <2>2
<1>6. PICK g : Upto(g, Cardinality(S))
  BY <1>4, <1>5
<1>7. IsSum(g, S, b, f)
  BY <1>5, <1>6 DEF IsSum
<1> QED
  BY <1>7

\* Sums of natural numbers are natural numbers, whatever element is taken first.
LEMMA SumStep ==
  ASSUME NEW g, NEW S, NEW b, NEW f, Adds(g, S, b, f)
  PROVE  /\ g[{}] = b
         /\ \A s \in SUBSET S : g[s] \in Nat
         /\ \A s \in SUBSET S : \A x \in s : g[s] = f[x] + g[s \ {x}]
<1>0. b \in Nat /\ IsFiniteSet(S) /\ (\A i \in S : f[i] \in Nat) /\ IsSum(g, S, b, f)
  BY DEF Adds
<1>1. g[{}] = b
  BY <1>0 DEF IsSum
<1>2. ASSUME NEW s \in SUBSET S, s # {}
      PROVE  Some(s) \in s /\ g[s] = f[Some(s)] + g[s \ {Some(s)}]
  BY <1>0, <1>2, SomeIsIn DEF IsSum
<1> DEFINE Fine(s) == g[s] \in Nat /\ \A x \in s : g[s] = f[x] + g[s \ {x}]
           Reached == {n \in Nat : \A s \in SUBSET S : Cardinality(s) <= n => Fine(s)}
<1>3. \A s \in SUBSET S : IsFiniteSet(s) /\ Cardinality(s) \in Nat /\ (Cardinality(s) = 0 => s = {})
  BY <1>0, FS_Subset, FS_CardinalityType, FS_EmptySet
<1>4. 0 \in Reached
  <2>1. ASSUME NEW s \in SUBSET S, Cardinality(s) <= 0 PROVE Fine(s)
    <3>1. s = {}
      BY <1>3, <2>1
    <3> QED
      BY <1>0, <1>1, <3>1
  <2> HIDE DEF Fine
  <2> QED
    BY <2>1
<1>5. ASSUME NEW n \in Nat, n \in Reached PROVE n + 1 \in Reached
  <2>0. \A s \in SUBSET S : Cardinality(s) <= n => Fine(s)
    BY <1>5
  <2>1. ASSUME NEW s \in SUBSET S, Cardinality(s) <= n + 1 PROVE Fine(s)
    <3>1. CASE s = {}
      BY <1>0, <1>1, <3>1
    <3>2. CASE s # {}
      <4> DEFINE y == Some(s)
      <4>1. y \in s /\ g[s] = f[y] + g[s \ {y}]
        BY <1>2, <3>2
      <4> HIDE DEF y
      <4>2. ASSUME NEW x \in s PROVE s \ {x} \in SUBSET S /\ Fine(s \ {x})
        <5>1. s \ {x} \in SUBSET S /\ Cardinality(s \ {x}) = Cardinality(s) - 1
          BY <1>0, OneLess
        <5>2. Cardinality(s \ {x}) <= n
          BY <1>3, <2>1, <5>1
        <5> QED
          BY <2>0, <5>1, <5>2
      <4>3. g[s] \in Nat
        BY <1>0, <4>1, <4>2
      <4>4. ASSUME NEW x \in s PROVE g[s] = f[x] + g[s \ {x}]
        <5>1. CASE x = y
          BY <4>1, <5>1
        <5>2. CASE x # y
          <6>1. x \in s \ {y} /\ y \in s \ {x} /\ (s \ {y}) \ {x} = (s \ {x}) \ {y}
            BY <4>1, <5>2
          <6>2. /\ g[s \ {y}] = f[x] + g[(s \ {y}) \ {x}]
                /\ g[s \ {x}] = f[y] + g[(s \ {x}) \ {y}]
            BY <4>1, <4>2, <6>1
          <6>3. f[x] \in Nat /\ f[y] \in Nat /\ g[s \ {y}] \in Nat /\ g[s \ {x}] \in Nat
            BY <1>0, <4>1, <4>2
          <6>4. PICK rest : rest = g[(s \ {x}) \ {y}]
            OBVIOUS
          <6>5. rest \in Nat
            <7>1. Cardinality((s \ {x}) \ {y}) <= n /\ (s \ {x}) \ {y} \in SUBSET S
              <8>1. s \ {x} \in SUBSET S /\ Cardinality(s \ {x}) = Cardinality(s) - 1
                BY <1>0, OneLess
              <8>2. (s \ {x}) \ {y} \in SUBSET S /\ Cardinality((s \ {x}) \ {y}) = Cardinality(s \ {x}) - 1
                BY <1>0, <6>1, <8>1, OneLess
              <8> QED
                BY <1>3, <2>1, <8>1, <8>2
            <7> QED
              BY <2>0, <6>4, <7>1
          <6>6. g[s] = f[y] + (f[x] + rest) /\ g[s \ {x}] = f[y] + rest
            BY <4>1, <6>1, <6>2, <6>4
          <6> QED
            BY <6>3, <6>5, <6>6
        <5> QED
          BY <5>1, <5>2
      <4> QED
        BY <4>3, <4>4
    <3> QED
      BY <3>1, <3>2
  <2> HIDE DEF Fine
  <2> QED
    BY <2>1
<1>6. Nat \subseteq Reached
  <2> HIDE DEF Reached
  <2> QED
    BY <1>4, <1>5, NatSetInduction
<1>7. \A s \in SUBSET S : Fine(s)
  <2> TAKE s \in SUBSET S
  <2>1. Cardinality(s) \in Reached /\ Cardinality(s) <= Cardinality(s)
    BY <1>3, <1>6
  <2> HIDE DEF Fine
  <2> QED
    BY <2>1
<1> QED
  BY <1>1, <1>7

\* h gives every number that f has on S another name in T, where e has it.
Renames(h, S, f, T, e) ==
  /\ \A i \in S : h[i] \in T /\ f[i] = e[h[i]]
  /\ \A i, j \in S : h[i] = h[j] => i = j

Names(h, S) == {h[i] : i \in S}

\* Two sums of the same numbers, under other names, are the same.
LEMMA SumRenamed ==
  ASSUME NEW g, NEW S, NEW b, NEW f, NEW k, NEW T, NEW e, NEW h,
         Adds(g, S, b, f), Adds(k, T, b, e), Renames(h, S, f, T, e)
  PROVE  g[S] = k[Names(h, S)]
<1> DEFINE Image(s) == {h[i] : i \in s}
           Reached == {n \in Nat : \A s \in SUBSET S : Cardinality(s) <= n => g[s] = k[Image(s)]}
<1>0. /\ b \in Nat /\ IsFiniteSet(S)
      /\ \A i \in S : h[i] \in T /\ f[i] = e[h[i]]
      /\ \A i, j \in S : h[i] = h[j] => i = j
  BY DEF Adds, Renames
<1>1. \A s \in SUBSET S : IsFiniteSet(s) /\ Cardinality(s) \in Nat /\ (Cardinality(s) = 0 => s = {})
  BY <1>0, FS_Subset, FS_CardinalityType, FS_EmptySet
<1>2. /\ g[{}] = b /\ k[{}] = b
      /\ \A s \in SUBSET S : \A x \in s : g[s] = f[x] + g[s \ {x}]
      /\ \A t \in SUBSET T : \A x \in t : k[t] = e[x] + k[t \ {x}]
  BY SumStep
<1>3. 0 \in Reached
  <2>1. ASSUME NEW s \in SUBSET S, Cardinality(s) <= 0 PROVE g[s] = k[Image(s)]
    <3>1. s = {}
      BY <1>1, <2>1
    <3>2. Image({}) = {}
      OBVIOUS
    <3> HIDE DEF Image
    <3> QED
      BY <1>2, <3>1, <3>2
  <2> HIDE DEF Image
  <2> QED
    BY <2>1
<1>4. ASSUME NEW n \in Nat, n \in Reached PROVE n + 1 \in Reached
  <2>0. \A s \in SUBSET S : Cardinality(s) <= n => g[s] = k[Image(s)]
    BY <1>4
  <2>1. ASSUME NEW s \in SUBSET S, Cardinality(s) <= n + 1 PROVE g[s] = k[Image(s)]
    <3>1. CASE s = {}
      <4>1. Image({}) = {}
        OBVIOUS
      <4> HIDE DEF Image
      <4> QED
        BY <1>2, <3>1, <4>1
    <3>2. CASE s # {}
      <4>1. PICK x : x \in s
        BY <3>2
      <4>2. s \ {x} \in SUBSET S /\ Cardinality(s \ {x}) = Cardinality(s) - 1
        BY <1>0, <4>1, OneLess
      <4>3. Cardinality(s \ {x}) <= n
        BY <1>1, <2>1, <4>2
      <4>4. g[s \ {x}] = k[Image(s \ {x})]
        <5> HIDE DEF Image
        <5> QED
          BY <2>0, <4>2, <4>3
      <4>5. Image(s \ {x}) = Image(s) \ {h[x]}
        <5>1. \A i \in s : h[i] = h[x] => i = x
          BY <1>0, <4>1
        <5> QED
          BY <4>1, <5>1
      <4>6. h[x] \in Image(s) /\ Image(s) \in SUBSET T /\ f[x] = e[h[x]]
        BY <1>0, <4>1
      <4> HIDE DEF Image
      <4>7. g[s] = f[x] + g[s \ {x}]
        BY <1>2, <4>1
      <4>8. k[Image(s)] = e[h[x]] + k[Image(s) \ {h[x]}]
        BY <1>2, <4>6
      <4> QED
        BY <4>4, <4>5, <4>6, <4>7, <4>8
    <3> QED
      BY <3>1, <3>2
  <2> HIDE DEF Image
  <2> QED
    BY <2>1
<1>5. Nat \subseteq Reached
  <2> HIDE DEF Reached
  <2> QED
    BY <1>3, <1>4, NatSetInduction
<1>6. Cardinality(S) \in Reached /\ Cardinality(S) <= Cardinality(S)
  <2>1. Cardinality(S) \in Nat
    BY <1>1
  <2> HIDE DEF Reached
  <2> QED
    BY <1>5, <2>1
<1>7. g[S] = k[Image(S)]
  BY <1>6
<1> QED
  BY <1>7 DEF Names

-----------------------------------------------------------------------------
(* Sums of sequences.                                                      *)

SumOf(size, from) == (CHOOSE g : IsSum(g, DOMAIN size, from, size))[DOMAIN size]

\* The numbers of a sequence after its first n.
After(size, n) == SubSeq(size, n + 1, Len(size))

\* One of the sums that SumOf may choose.
Sums(g, size, from) == Adds(g, DOMAIN size, from, size) /\ SumOf(size, from) = g[DOMAIN size]

LEMMA SequenceDomain ==
  ASSUME NEW size \in Seq(Nat)
  PROVE  /\ DOMAIN size = 1..Len(size) /\ Len(size) \in Nat /\ IsFiniteSet(DOMAIN size)
         /\ \A i \in DOMAIN size : size[i] \in Nat
<1>1. DOMAIN size = 1..Len(size) /\ Len(size) \in Nat /\ \A i \in DOMAIN size : size[i] \in Nat
  OBVIOUS
<1>2. IsFiniteSet(1..Len(size))
  BY <1>1, FS_Interval
<1> QED
  BY <1>1, <1>2

LEMMA SumOfIsSum ==
  ASSUME NEW size \in Seq(Nat), NEW from \in Nat
  PROVE  \E g : Sums(g, size, from)
<1>1. IsFiniteSet(DOMAIN size) /\ \A i \in DOMAIN size : size[i] \in Nat
  BY SequenceDomain
<1>2. \E g : IsSum(g, DOMAIN size, from, size)
  BY <1>1, SumExists
<1>3. IsSum(CHOOSE g : IsSum(g, DOMAIN size, from, size), DOMAIN size, from, size)
  BY <1>2
<1> QED
  BY <1>1, <1>3 DEF SumOf, Adds, Sums

LEMMA SumIsNat ==
  ASSUME NEW g, NEW size, NEW from, Sums(g, size, from)
  PROVE  SumOf(size, from) \in Nat /\ (DOMAIN size = {} => SumOf(size, from) = from)
<1>1. Adds(g, DOMAIN size, from, size) /\ SumOf(size, from) = g[DOMAIN size]
  BY DEF Sums
<1> QED
  BY <1>1, SumStep

LEMMA SumOfNat ==
  ASSUME NEW size \in Seq(Nat), NEW from \in Nat
  PROVE  SumOf(size, from) \in Nat /\ (Len(size) = 0 => SumOf(size, from) = from)
<1>1. \E g : Sums(g, size, from)
  BY SumOfIsSum
<1>2. SumOf(size, from) \in Nat /\ (DOMAIN size = {} => SumOf(size, from) = from)
  BY <1>1, SumIsNat
<1>3. Len(size) = 0 => DOMAIN size = {}
  <2>1. DOMAIN size = 1..Len(size)
    BY SequenceDomain
  <2> QED
    BY <2>1
<1> QED
  BY <1>2, <1>3

\* A sum over one number more is that number more, whatever the numbers' names.
LEMMA SumWithOneMore ==
  ASSUME NEW all, NEW rest, NEW from, NEW first, NEW shift,
         \E g : Sums(g, all, from), \E g : Sums(g, rest, from),
         first \in DOMAIN all, Renames(shift, DOMAIN rest, rest, DOMAIN all, all),
         Names(shift, DOMAIN rest) = DOMAIN all \ {first}
  PROVE  SumOf(all, from) = all[first] + SumOf(rest, from)
<1>1. PICK g : Adds(g, DOMAIN all, from, all) /\ SumOf(all, from) = g[DOMAIN all]
  BY DEF Sums
<1>2. PICK k : Adds(k, DOMAIN rest, from, rest) /\ SumOf(rest, from) = k[DOMAIN rest]
  BY DEF Sums
<1>3. g[DOMAIN all] = all[first] + g[DOMAIN all \ {first}]
  BY <1>1, SumStep
<1>4. k[DOMAIN rest] = g[Names(shift, DOMAIN rest)]
  BY <1>1, <1>2, SumRenamed
<1> QED
  BY <1>1, <1>2, <1>3, <1>4

LEMMA AfterTypes ==
  ASSUME NEW size \in Seq(Nat), NEW n \in 0..Len(size)
  PROVE  /\ After(size, n) \in Seq(Nat) /\ Len(After(size, n)) = Len(size) - n
         /\ \A i \in 1..(Len(size) - n) : After(size, n)[i] = size[n + i]
BY DEF After

\* What is counted from one number earlier on is that number more.
LEMMA SumAfter ==
  ASSUME NEW size \in Seq(Nat), NEW from \in Nat, NEW n \in 0..(Len(size) - 1)
  PROVE  SumOf(After(size, n), from) = size[n + 1] + SumOf(After(size, n + 1), from)
<1> DEFINE all == After(size, n)
           rest == After(size, n + 1)
           many == Len(size) - n
<1>1. /\ Len(size) \in Nat /\ n \in 0..Len(size) /\ n + 1 \in 0..Len(size) /\ many \in Nat \ {0}
      /\ Len(size) - (n + 1) = many - 1
  OBVIOUS
<1>2. /\ all \in Seq(Nat) /\ Len(all) = many /\ \A i \in 1..many : all[i] = size[n + i]
      /\ rest \in Seq(Nat) /\ Len(rest) = many - 1 /\ \A i \in 1..(many - 1) : rest[i] = size[n + 1 + i]
  BY <1>1, AfterTypes
<1> HIDE DEF all, rest, many
<1>3. (\E g : Sums(g, all, from)) /\ (\E g : Sums(g, rest, from))
  BY <1>2, SumOfIsSum
<1>4. DOMAIN all = 1..many /\ DOMAIN rest = 1..(many - 1)
  BY <1>2, SequenceDomain
<1> DEFINE shift == [i \in 1..(many - 1) |-> i + 1]
<1>5. Renames(shift, DOMAIN rest, rest, DOMAIN all, all)
  <2>1. \A i \in 1..(many - 1) : shift[i] \in 1..many /\ rest[i] = all[shift[i]]
    <3>1. ASSUME NEW i \in 1..(many - 1) PROVE shift[i] = i + 1 /\ i + 1 \in 1..many /\ n + (i + 1) = n + 1 + i
      BY <1>1
    <3>2. ASSUME NEW i \in 1..(many - 1) PROVE rest[i] = all[i + 1]
      <4>1. rest[i] = size[n + 1 + i]
        BY <1>2
      <4>2. all[i + 1] = size[n + (i + 1)]
        BY <1>2, <3>1
      <4> QED
        BY <3>1, <4>1, <4>2
    <3> QED
      BY <3>1, <3>2
  <2>2. \A i, j \in 1..(many - 1) : shift[i] = shift[j] => i = j
    OBVIOUS
  <2> HIDE DEF shift
  <2> QED
    BY <1>4, <2>1, <2>2 DEF Renames
<1>6. Names(shift, DOMAIN rest) = DOMAIN all \ {1}
  <2>1. ASSUME NEW j \in (1..many) \ {1} PROVE j - 1 \in 1..(many - 1) /\ shift[j - 1] = j
    BY <1>1
  <2>2. ASSUME NEW i \in 1..(many - 1) PROVE shift[i] \in (1..many) \ {1}
    BY <1>1
  <2> HIDE DEF shift
  <2> QED
    BY <1>4, <2>1, <2>2 DEF Names
<1>7. 1 \in DOMAIN all /\ all[1] = size[n + 1]
  BY <1>1, <1>2, <1>4
<1> HIDE DEF shift
<1>8. SumOf(all, from) = all[1] + SumOf(rest, from)
  BY <1>3, <1>5, <1>6, <1>7, SumWithOneMore
<1> QED
  BY <1>7, <1>8 DEF all, rest

\* The later one begins, the less there is.
LEMMA SumShrinks ==
  ASSUME NEW size \in Seq(Nat), NEW from \in Nat, NEW n \in 0..Len(size), NEW m \in n..Len(size)
  PROVE  SumOf(After(size, m), from) <= SumOf(After(size, n), from)
<1> DEFINE Sum(i) == SumOf(After(size, i), from)
           Reached == {d \in Nat : n + d <= Len(size) => Sum(n + d) <= Sum(n)}
<1>1. ASSUME NEW i \in 0..Len(size) PROVE Sum(i) \in Nat
  BY AfterTypes, SumOfNat
<1>2. ASSUME NEW i \in 0..(Len(size) - 1) PROVE Sum(i + 1) <= Sum(i)
  <2>1. Sum(i) = size[i + 1] + Sum(i + 1)
    BY SumAfter
  <2>2. i \in 0..Len(size) /\ i + 1 \in 0..Len(size) /\ size[i + 1] \in Nat
    OBVIOUS
  <2>3. Sum(i) \in Nat /\ Sum(i + 1) \in Nat
    BY <1>1, <2>2
  <2> HIDE DEF Sum
  <2> QED
    BY <2>1, <2>2, <2>3
<1>3. 0 \in Reached
  <2>1. Sum(n) \in Nat /\ n + 0 = n
    BY <1>1
  <2> HIDE DEF Sum
  <2> QED
    BY <2>1
<1>4. ASSUME NEW d \in Nat, d \in Reached PROVE d + 1 \in Reached
  <2>1. ASSUME n + (d + 1) <= Len(size) PROVE Sum(n + (d + 1)) <= Sum(n)
    <3>1. n + d <= Len(size) /\ n + d \in 0..(Len(size) - 1) /\ n + (d + 1) = (n + d) + 1
      BY <2>1
    <3>2. Sum(n + d) <= Sum(n)
      BY <1>4, <3>1
    <3>3. Sum((n + d) + 1) <= Sum(n + d)
      BY <1>2, <3>1
    <3>4. n + d \in 0..Len(size) /\ (n + d) + 1 \in 0..Len(size)
      BY <3>1
    <3>5. Sum(n) \in Nat /\ Sum(n + d) \in Nat /\ Sum((n + d) + 1) \in Nat
      BY <1>1, <3>4
    <3> HIDE DEF Sum
    <3> QED
      BY <3>1, <3>2, <3>3, <3>5
  <2> HIDE DEF Sum
  <2> QED
    BY <2>1
<1>5. Nat \subseteq Reached
  <2> HIDE DEF Reached
  <2> QED
    BY <1>3, <1>4, NatSetInduction
<1>6. m - n \in Nat /\ n + (m - n) = m /\ m <= Len(size)
  OBVIOUS
<1>7. m - n \in Reached
  <2> HIDE DEF Reached
  <2> QED
    BY <1>5, <1>6
<1> QED
  BY <1>6, <1>7

-----------------------------------------------------------------------------
(* Flattening.                                                             *)

\* g flattens the beginnings of s.
Flattens(g, s) == g = [i \in 1..Len(s) |-> IF i = 1 THEN s[i] ELSE g[i - 1] \o s[i]]

Flat(s) == IF Len(s) = 0 THEN s ELSE (CHOOSE g : Flattens(g, s))[Len(s)]

Begins(s, t) == Len(s) <= Len(t) /\ \A i \in 1..Len(s) : s[i] = t[i]

LEMMA FlattensExists ==
  ASSUME NEW S, NEW s \in Seq(Seq(S))
  PROVE  \E g : Flattens(g, s)
<1> DEFINE Upto(g, n) == g = [i \in 1..Len(s) |-> IF i > n THEN <<>> ELSE IF i = 1 THEN s[i]
                                                 ELSE g[i - 1] \o s[i]]
           Reached == {n \in Nat : \E g : Upto(g, n)}
<1>0. Len(s) \in Nat
  OBVIOUS
<1>1. 0 \in Reached
  <2> DEFINE g == [i \in 1..Len(s) |-> <<>>]
  <2>1. Upto(g, 0)
    <3>1. \A i \in 1..Len(s) : i > 0
      OBVIOUS
    <3>2. [i \in 1..Len(s) |-> IF i > 0 THEN <<>> ELSE IF i = 1 THEN s[i] ELSE g[i - 1] \o s[i]] = g
      BY <3>1, Zenon
    <3> QED
      BY <3>2, Zenon
  <2> HIDE DEF g, Upto
  <2> QED
    BY <2>1
<1>2. ASSUME NEW n \in Nat, n \in Reached PROVE n + 1 \in Reached
  <2>1. PICK g : Upto(g, n)
    BY <1>2
  <2> DEFINE k == [i \in 1..Len(s) |-> IF i > n + 1 THEN <<>> ELSE IF i = 1 THEN s[i]
                                       ELSE g[i - 1] \o s[i]]
  <2>2. ASSUME NEW i \in 1..Len(s), i <= n PROVE k[i] = g[i]
    <3>1. ~(i > n) /\ ~(i > n + 1)
      BY <2>2
    <3>2. k[i] = IF i = 1 THEN s[i] ELSE g[i - 1] \o s[i]
      BY <3>1
    <3>3. g[i] = IF i = 1 THEN s[i] ELSE g[i - 1] \o s[i]
      BY <2>1, <3>1
    <3> QED
      BY <3>2, <3>3
  <2>3. Upto(k, n + 1)
    <3>1. ASSUME NEW i \in 1..Len(s)
          PROVE  k[i] = IF i > n + 1 THEN <<>> ELSE IF i = 1 THEN s[i] ELSE k[i - 1] \o s[i]
      <4>1. k[i] = IF i > n + 1 THEN <<>> ELSE IF i = 1 THEN s[i] ELSE g[i - 1] \o s[i]
        OBVIOUS
      <4> HIDE DEF k
      <4>2. CASE i > n + 1 \/ i = 1
        BY <4>1, <4>2
      <4>3. CASE ~(i > n + 1) /\ i # 1
        <5>1. i - 1 \in 1..Len(s) /\ i - 1 <= n
          BY <4>3
        <5>2. k[i - 1] = g[i - 1]
          BY <2>2, <5>1
        <5> QED
          BY <4>1, <4>3, <5>2
      <4> QED
        BY <4>2, <4>3
    <3>2. k = [i \in 1..Len(s) |-> k[i]]
      OBVIOUS
    <3> HIDE DEF k
    <3> QED
      BY <3>1, <3>2
  <2> HIDE DEF k, Upto
  <2> QED
    BY <2>3
<1>3. Len(s) \in Reached
  <2> HIDE DEF Reached
  <2> QED
    BY <1>0, <1>1, <1>2, NatSetInduction
<1>4. PICK g : Upto(g, Len(s))
  BY <1>3
<1>5. Flattens(g, s)
  <2>1. \A i \in 1..Len(s) : ~(i > Len(s))
    BY <1>0
  <2> QED
    BY <1>4, <2>1 DEF Flattens
<1> QED
  BY <1>5

LEMMA FlattensParts ==
  ASSUME NEW g, NEW s, Flattens(g, s), NEW i \in 1..Len(s)
  PROVE  (i = 1 => g[i] = s[i]) /\ (i # 1 => g[i] = g[i - 1] \o s[i])
<1> DEFINE Part(j) == IF j = 1 THEN s[j] ELSE g[j - 1] \o s[j]
<1>1. g = [j \in 1..Len(s) |-> Part(j)]
  BY DEF Flattens
<1>2. (i = 1 => Part(i) = s[i]) /\ (i # 1 => Part(i) = g[i - 1] \o s[i])
  BY Zenon
<1> HIDE DEF Part
<1>3. g[i] = Part(i)
  BY <1>1
<1> QED
  BY <1>2, <1>3, Zenon

LEMMA FlattensFirst ==
  ASSUME NEW g, NEW s, Flattens(g, s), 1 \in 1..Len(s)
  PROVE  g[1] = s[1]
<1>1. PICK j \in 1..Len(s) : j = 1
  OBVIOUS
<1>2. g[j] = s[j]
  BY <1>1, FlattensParts
<1> QED
  BY <1>1, <1>2

LEMMA FlattensNext ==
  ASSUME NEW g, NEW s, Flattens(g, s), NEW i \in Nat, i \in 1..Len(s), i + 1 \in 1..Len(s)
  PROVE  g[i + 1] = g[i] \o s[i + 1]
<1>1. PICK j \in 1..Len(s) : j = i + 1 /\ j # 1 /\ j - 1 = i
  OBVIOUS
<1>2. g[j] = g[j - 1] \o s[j]
  BY <1>1, FlattensParts
<1> QED
  BY <1>1, <1>2

\* What is flattened of a sequence is a sequence, and longer beginnings give longer ones.
LEMMA FlattensGrows ==
  ASSUME NEW S, NEW s \in Seq(Seq(S)), NEW g, Flattens(g, s), NEW i \in 1..Len(s)
  PROVE  \A j \in i..Len(s) : g[j] \in Seq(S) /\ Begins(g[i], g[j])
<1> DEFINE Reached == {d \in Nat : 1 + d <= Len(s) => g[1 + d] \in Seq(S)}
           Further == {d \in Nat : i + d <= Len(s) => Begins(g[i], g[i + d])}
<1>0. /\ Len(s) \in Nat /\ i \in Nat
      /\ \A j \in 1..Len(s) : s[j] \in Seq(S)
  OBVIOUS
<1>1. 0 \in Reached
  <2>1. 1 \in 1..Len(s) /\ s[1] \in Seq(S)
    BY <1>0
  <2>2. g[1] = s[1]
    BY <2>1, FlattensFirst
  <2>3. 1 + 0 = 1
    OBVIOUS
  <2> QED
    BY <2>1, <2>2, <2>3
<1>2. ASSUME NEW d \in Nat, d \in Reached PROVE d + 1 \in Reached
  <2>1. ASSUME (1 + d) + 1 <= Len(s) PROVE g[(1 + d) + 1] \in Seq(S)
    <3>1. 1 + d \in Nat /\ 1 + d \in 1..Len(s) /\ (1 + d) + 1 \in 1..Len(s) /\ 1 + d <= Len(s)
      BY <1>0, <2>1
    <3>2. g[(1 + d) + 1] = g[1 + d] \o s[(1 + d) + 1] /\ s[(1 + d) + 1] \in Seq(S)
      BY <1>0, <3>1, FlattensNext
    <3>3. g[1 + d] \in Seq(S)
      BY <1>2, <3>1
    <3> QED
      BY <3>2, <3>3
  <2>2. 1 + (d + 1) = (1 + d) + 1 /\ d + 1 \in Nat
    BY <1>0
  <2> QED
    BY <2>1, <2>2
<1>3. \A j \in 1..Len(s) : g[j] \in Seq(S)
  <2>1. Nat \subseteq Reached
    <3> HIDE DEF Reached
    <3> QED
      BY <1>1, <1>2, NatSetInduction
  <2>2. ASSUME NEW j \in 1..Len(s) PROVE g[j] \in Seq(S)
    <3>1. j - 1 \in Nat /\ 1 + (j - 1) = j
      OBVIOUS
    <3>2. j - 1 \in Reached
      <4> HIDE DEF Reached
      <4> QED
        BY <2>1, <3>1
    <3> QED
      BY <3>1, <3>2
  <2> QED
    BY <2>2
<1>4. 0 \in Further
  <2>1. i + 0 = i /\ Len(g[i]) \in Nat
    BY <1>3
  <2> QED
    BY <2>1 DEF Begins
<1>5. ASSUME NEW d \in Nat, d \in Further PROVE d + 1 \in Further
  <2>1. ASSUME (i + d) + 1 <= Len(s) PROVE Begins(g[i], g[(i + d) + 1])
    <3>1. /\ i + d \in Nat /\ i + d \in 1..Len(s) /\ (i + d) + 1 \in 1..Len(s) /\ i + d <= Len(s)
      BY <1>0, <2>1
    <3>2. g[(i + d) + 1] = g[i + d] \o s[(i + d) + 1] /\ s[(i + d) + 1] \in Seq(S)
      BY <1>0, <3>1, FlattensNext
    <3>3. Begins(g[i], g[i + d])
      BY <1>5, <3>1
    <3>4. g[i] \in Seq(S) /\ g[i + d] \in Seq(S)
      BY <1>3, <3>1
    <3> DEFINE short == g[i]
               mid == g[i + d]
               rest == s[(i + d) + 1]
    <3> HIDE DEF short, mid, rest
    <3>5. short \in Seq(S) /\ mid \in Seq(S) /\ rest \in Seq(S) /\ Begins(short, mid)
      BY <3>2, <3>3, <3>4 DEF short, mid, rest
    <3>6. Begins(short, mid \o rest)
      <4>1. /\ Len(mid \o rest) = Len(mid) + Len(rest) /\ Len(short) \in Nat /\ Len(mid) \in Nat /\ Len(rest) \in Nat
            /\ \A x \in 1..Len(mid) : (mid \o rest)[x] = mid[x]
        BY <3>5
      <4>2. Len(short) <= Len(mid) /\ \A x \in 1..Len(short) : short[x] = mid[x]
        BY <3>5 DEF Begins
      <4>3. \A x \in 1..Len(short) : x \in 1..Len(mid)
        BY <4>1, <4>2
      <4> QED
        BY <4>1, <4>2, <4>3 DEF Begins
    <3> QED
      BY <3>2, <3>6 DEF short, mid, rest
  <2>2. i + (d + 1) = (i + d) + 1 /\ d + 1 \in Nat
    BY <1>0
  <2> QED
    BY <2>1, <2>2
<1>6. ASSUME NEW j \in i..Len(s) PROVE g[j] \in Seq(S) /\ Begins(g[i], g[j])
  <2>1. j - i \in Nat /\ i + (j - i) = j /\ j <= Len(s) /\ j \in 1..Len(s)
    BY <1>0
  <2>2. j - i \in Further
    <3> HIDE DEF Further
    <3> QED
      BY <1>4, <1>5, <2>1, NatSetInduction
  <2> QED
    BY <1>3, <2>1, <2>2
<1> QED
  BY <1>6

\* The same beginning is flattened alike.
LEMMA FlattensAlike ==
  ASSUME NEW S, NEW s \in Seq(Seq(S)), NEW t \in Seq(Seq(S)), Begins(s, t),
         NEW g, NEW h, Flattens(g, s), Flattens(h, t)
  PROVE  \A i \in 1..Len(s) : g[i] = h[i]
<1> DEFINE Reached == {d \in Nat : 1 + d <= Len(s) => g[1 + d] = h[1 + d]}
<1>0. /\ Len(s) \in Nat /\ Len(t) \in Nat /\ \A j \in 1..Len(s) : j \in 1..Len(t) /\ s[j] = t[j]
  BY DEF Begins
<1>1. 0 \in Reached
  <2>1. ASSUME 1 + 0 <= Len(s) PROVE g[1 + 0] = h[1 + 0]
    <3>1. 1 \in 1..Len(s) /\ 1 \in 1..Len(t) /\ s[1] = t[1] /\ 1 + 0 = 1
      BY <1>0, <2>1
    <3>2. g[1] = s[1] /\ h[1] = t[1]
      BY <3>1, FlattensFirst
    <3> QED
      BY <3>1, <3>2
  <2> QED
    BY <2>1
<1>2. ASSUME NEW d \in Nat, d \in Reached PROVE d + 1 \in Reached
  <2>1. ASSUME (1 + d) + 1 <= Len(s) PROVE g[(1 + d) + 1] = h[(1 + d) + 1]
    <3>1. 1 + d \in Nat /\ 1 + d \in 1..Len(s) /\ (1 + d) + 1 \in 1..Len(s) /\ 1 + d <= Len(s)
      BY <1>0, <2>1
    <3>2. g[(1 + d) + 1] = g[1 + d] \o s[(1 + d) + 1]
      BY <3>1, FlattensNext
    <3>3. h[(1 + d) + 1] = h[1 + d] \o s[(1 + d) + 1]
      <4>1. 1 + d \in 1..Len(t) /\ (1 + d) + 1 \in 1..Len(t) /\ s[(1 + d) + 1] = t[(1 + d) + 1]
        BY <1>0, <3>1
      <4>2. h[(1 + d) + 1] = h[1 + d] \o t[(1 + d) + 1]
        BY <3>1, <4>1, FlattensNext
      <4> QED
        BY <4>1, <4>2
    <3> QED
      BY <1>2, <3>1, <3>2, <3>3
  <2>2. 1 + (d + 1) = (1 + d) + 1 /\ d + 1 \in Nat
    BY <1>0
  <2> QED
    BY <2>1, <2>2
<1>3. Nat \subseteq Reached
  <2> HIDE DEF Reached
  <2> QED
    BY <1>1, <1>2, NatSetInduction
<1>4. ASSUME NEW j \in 1..Len(s) PROVE g[j] = h[j]
  <2>1. j - 1 \in Nat /\ 1 + (j - 1) = j
    OBVIOUS
  <2>2. j - 1 \in Reached
    <3> HIDE DEF Reached
    <3> QED
      BY <1>3, <2>1
  <2> QED
    BY <2>1, <2>2
<1> QED
  BY <1>4

\* What a sequence of sequences begins with, it begins with flattened.
LEMMA FlatGrows ==
  ASSUME NEW S, NEW s \in Seq(Seq(S)), NEW t \in Seq(Seq(S)), Begins(s, t)
  PROVE  Flat(s) \in Seq(S) /\ Flat(t) \in Seq(S) /\ Begins(Flat(s), Flat(t))
<1>0. Len(s) \in Nat /\ Len(t) \in Nat /\ Len(s) <= Len(t)
  BY DEF Begins
<1>1. ASSUME NEW u \in Seq(Seq(S)), Len(u) # 0
      PROVE  \E g : Flattens(g, u) /\ Flat(u) = g[Len(u)] /\ Flat(u) \in Seq(S)
  <2>1. \E g : Flattens(g, u)
    BY FlattensExists
  <2> DEFINE k == CHOOSE g : Flattens(g, u)
  <2>2. Flattens(k, u)
    BY <2>1
  <2>3. Flat(u) = k[Len(u)]
    BY <1>1 DEF Flat
  <2> HIDE DEF k
  <2>4. Len(u) \in 1..Len(u) /\ Len(u) \in Len(u)..Len(u)
    BY <1>1
  <2>5. k[Len(u)] \in Seq(S)
    BY <2>2, <2>4, FlattensGrows
  <2> QED
    BY <2>2, <2>3, <2>5
<1>2. ASSUME NEW u \in Seq(Seq(S)), Len(u) = 0 PROVE Flat(u) \in Seq(S) /\ Len(Flat(u)) = 0
  <2>1. u = <<>>
    BY <1>2
  <2> QED
    BY <1>2, <2>1 DEF Flat
<1>3. ASSUME NEW u \in Seq(Seq(S)) PROVE Flat(u) \in Seq(S)
  BY <1>1, <1>2
<1>4. CASE Len(s) = 0
  <2>1. Len(Flat(s)) = 0 /\ Flat(t) \in Seq(S)
    BY <1>2, <1>3, <1>4
  <2>2. Begins(Flat(s), Flat(t))
    BY <2>1 DEF Begins
  <2> QED
    BY <1>3, <2>2
<1>5. CASE Len(s) # 0
  <2>1. PICK g : Flattens(g, s) /\ Flat(s) = g[Len(s)]
    BY <1>1, <1>5
  <2>2. Len(t) # 0
    BY <1>0, <1>5
  <2>3. PICK h : Flattens(h, t) /\ Flat(t) = h[Len(t)]
    BY <1>1, <2>2
  <2>4. Len(s) \in 1..Len(s) /\ Len(s) \in 1..Len(t) /\ Len(t) \in Len(s)..Len(t)
    BY <1>0, <1>5
  <2>5. g[Len(s)] = h[Len(s)]
    BY <2>1, <2>3, <2>4, FlattensAlike
  <2>6. Begins(h[Len(s)], h[Len(t)])
    BY <2>3, <2>4, FlattensGrows
  <2> QED
    BY <1>3, <2>1, <2>3, <2>5, <2>6
<1> QED
  BY <1>3, <1>4, <1>5

\* Every element of t, which flattens the first n sequences of s, has a place there
\* of its own, and every place an element.
Places(t, s, n, home, off) ==
  /\ home \in [1..Len(t) -> 1..n] /\ off \in [1..Len(t) -> Nat]
  /\ \A k \in 1..Len(t) : off[k] \in 1..Len(s[home[k]]) /\ t[k] = s[home[k]][off[k]]
  /\ \A k, l \in 1..Len(t) : home[k] = home[l] /\ off[k] = off[l] => k = l
  /\ \A i \in 1..n : \A p \in 1..Len(s[i]) : \E k \in 1..Len(t) : home[k] = i /\ off[k] = p

LEMMA PlacesNext ==
  ASSUME NEW S, NEW home, NEW off, NEW s \in Seq(Seq(S)), NEW t \in Seq(S), NEW n \in Nat,
         n + 1 \in 1..Len(s), Places(t, s, n, home, off)
  PROVE  \E a, o : Places(t \o s[n + 1], s, n + 1, a, o)
<1> DEFINE u == s[n + 1]
           m == Len(t)
           a == [k \in 1..(m + Len(u)) |-> IF k <= m THEN home[k] ELSE n + 1]
           o == [k \in 1..(m + Len(u)) |-> IF k <= m THEN off[k] ELSE k - m]
           v == t \o u
<1>1. u \in Seq(S) /\ m \in Nat /\ Len(u) \in Nat
  OBVIOUS
<1>2. /\ Len(v) = m + Len(u)
      /\ \A k \in 1..m : v[k] = t[k]
      /\ \A k \in (m + 1)..(m + Len(u)) : v[k] = u[k - m]
  BY <1>1
<1>3. /\ \A k \in 1..m : home[k] \in 1..n /\ off[k] \in Nat
      /\ \A k \in 1..m : off[k] \in 1..Len(s[home[k]]) /\ t[k] = s[home[k]][off[k]]
      /\ \A k, l \in 1..m : home[k] = home[l] /\ off[k] = off[l] => k = l
      /\ \A i \in 1..n : \A p \in 1..Len(s[i]) : \E k \in 1..m : home[k] = i /\ off[k] = p
  BY DEF Places
<1>4. /\ \A k \in 1..m : a[k] = home[k] /\ o[k] = off[k]
      /\ \A k \in (m + 1)..(m + Len(u)) : a[k] = n + 1 /\ o[k] = k - m
      /\ DOMAIN a = 1..(m + Len(u)) /\ DOMAIN o = 1..(m + Len(u))
      /\ \A k \in 1..(m + Len(u)) : k \in 1..m \/ k \in (m + 1)..(m + Len(u))
  BY <1>1
<1>u. u = s[n + 1]
  OBVIOUS
<1> HIDE DEF u, m, v
<1>5. a \in [1..(m + Len(u)) -> 1..(n + 1)] /\ o \in [1..(m + Len(u)) -> Nat]
  <2>1. ASSUME NEW k \in 1..(m + Len(u)) PROVE a[k] \in 1..(n + 1) /\ o[k] \in Nat
    <3>1. CASE k \in 1..m
      BY <1>3, <1>4, <3>1
    <3>2. CASE k \in (m + 1)..(m + Len(u))
      BY <1>1, <1>4, <3>2
    <3> QED
      BY <1>4, <3>1, <3>2
  <2> QED
    BY <2>1
<1> HIDE DEF a, o
<1>6. ASSUME NEW k \in 1..(m + Len(u))
      PROVE  o[k] \in 1..Len(s[a[k]]) /\ v[k] = s[a[k]][o[k]]
  <2>1. CASE k \in 1..m
    BY <1>2, <1>3, <1>4, <2>1
  <2>2. CASE k \in (m + 1)..(m + Len(u))
    <3>1. a[k] = n + 1 /\ o[k] = k - m /\ v[k] = u[k - m]
      BY <1>2, <1>4, <2>2
    <3>2. k - m \in 1..Len(u)
      BY <1>1, <2>2
    <3> QED
      BY <1>u, <3>1, <3>2
  <2> QED
    BY <1>4, <2>1, <2>2
<1>7. ASSUME NEW k \in 1..(m + Len(u)), NEW l \in 1..(m + Len(u)), a[k] = a[l], o[k] = o[l]
      PROVE  k = l
  <2>1. CASE k \in 1..m /\ l \in 1..m
    BY <1>3, <1>4, <1>7, <2>1
  <2>2. CASE k \in (m + 1)..(m + Len(u)) /\ l \in (m + 1)..(m + Len(u))
    <3>1. k - m = l - m
      BY <1>4, <1>7, <2>2
    <3> QED
      BY <1>1, <2>2, <3>1
  <2>3. \A j \in 1..m : a[j] \in 1..n
    BY <1>3, <1>4
  <2>4. \A j \in (m + 1)..(m + Len(u)) : a[j] = n + 1
    BY <1>4
  <2> QED
    BY <1>4, <1>7, <2>1, <2>2, <2>3, <2>4
<1>8. ASSUME NEW i \in 1..(n + 1), NEW p \in 1..Len(s[i])
      PROVE  \E k \in 1..(m + Len(u)) : a[k] = i /\ o[k] = p
  <2>1. CASE i \in 1..n
    <3>1. PICK k \in 1..m : home[k] = i /\ off[k] = p
      BY <1>3, <2>1
    <3>2. k \in 1..(m + Len(u))
      BY <1>1
    <3> QED
      BY <1>4, <3>1, <3>2
  <2>2. CASE i = n + 1
    <3>1. p \in 1..Len(u) /\ m + p \in (m + 1)..(m + Len(u)) /\ m + p \in 1..(m + Len(u)) /\ (m + p) - m = p
      BY <1>1, <1>u, <2>2
    <3> QED
      BY <1>4, <2>2, <3>1
  <2> QED
    BY <2>1, <2>2
<1>9. Places(v, s, n + 1, a, o)
  BY <1>2, <1>5, <1>6, <1>7, <1>8 DEF Places
<1> QED
  BY <1>9 DEF v, u

\* So it is with all of a flattened sequence.
LEMMA FlatPlaces ==
  ASSUME NEW S, NEW s \in Seq(Seq(S))
  PROVE  Flat(s) \in Seq(S) /\ \E home, off : Places(Flat(s), s, Len(s), home, off)
<1>0. Len(s) \in Nat /\ \A i \in 1..Len(s) : s[i] \in Seq(S)
  OBVIOUS
<1>t. Flat(s) \in Seq(S)
  <2>1. Begins(s, s)
    BY <1>0 DEF Begins
  <2> QED
    BY <2>1, FlatGrows
<1>1. CASE Len(s) = 0
  <2>1. Flat(s) = <<>> /\ s = <<>>
    BY <1>1 DEF Flat
  <2>2. Places(<<>>, s, 0, <<>>, <<>>)
    BY <2>1 DEF Places
  <2> QED
    BY <1>t, <1>1, <2>1, <2>2
<1>2. CASE Len(s) # 0
  <2> DEFINE g == CHOOSE h : Flattens(h, s)
             Reached == {d \in Nat : d + 1 <= Len(s) => \E home, off : Places(g[d + 1], s, d + 1, home, off)}
  <2>1. Flattens(g, s)
    BY FlattensExists
  <2>2. Flat(s) = g[Len(s)]
    BY <1>2 DEF Flat
  <2> HIDE DEF g
  <2>3. \A j \in 1..Len(s) : g[j] \in Seq(S)
    <3>1. 1 \in 1..Len(s)
      BY <1>0, <1>2
    <3> QED
      BY <2>1, <3>1, FlattensGrows
  <2>4. 0 \in Reached
    <3>1. 1 \in 1..Len(s) /\ g[1] = s[1] /\ s[1] \in Seq(S)
      BY <1>0, <1>2, <2>1, FlattensFirst
    <3> DEFINE none == <<>>
    <3>2. Places(<<>>, s, 0, <<>>, <<>>)
      BY DEF Places
    <3>3. <<>> \in Seq(S) /\ 0 \in Nat /\ 0 + 1 \in 1..Len(s)
      BY <3>1
    <3>4. \E home, off : Places(<<>> \o s[0 + 1], s, 0 + 1, home, off)
      BY <3>2, <3>3, PlacesNext
    <3>5. <<>> \o s[0 + 1] = g[0 + 1]
      BY <3>1
    <3> QED
      BY <3>4, <3>5
  <2>5. ASSUME NEW d \in Nat, d \in Reached PROVE d + 1 \in Reached
    <3>1. ASSUME (d + 1) + 1 <= Len(s) PROVE \E home, off : Places(g[(d + 1) + 1], s, (d + 1) + 1, home, off)
      <4>1. d + 1 \in Nat /\ d + 1 \in 1..Len(s) /\ (d + 1) + 1 \in 1..Len(s) /\ d + 1 <= Len(s)
        BY <1>0, <3>1
      <4>2. g[(d + 1) + 1] = g[d + 1] \o s[(d + 1) + 1]
        BY <2>1, <4>1, FlattensNext
      <4>3. \E home, off : Places(g[d + 1], s, d + 1, home, off)
        BY <2>5, <4>1
      <4>4. g[d + 1] \in Seq(S)
        BY <2>3, <4>1
      <4>5. PICK home, off : Places(g[d + 1], s, d + 1, home, off)
        BY <4>3
      <4>6. \E a, o : Places(g[d + 1] \o s[(d + 1) + 1], s, (d + 1) + 1, a, o)
        <5> DEFINE n == d + 1
                   t == g[n]
        <5>1. n \in Nat /\ n + 1 \in 1..Len(s) /\ t \in Seq(S) /\ Places(t, s, n, home, off)
          BY <4>1, <4>4, <4>5
        <5> HIDE DEF n, t
        <5>2. \E a, o : Places(t \o s[n + 1], s, n + 1, a, o)
          BY <5>1, PlacesNext
        <5> QED
          BY <5>2 DEF n, t
      <4> QED
        BY <4>2, <4>6
    <3> QED
      BY <3>1
  <2>6. Len(s) - 1 \in Nat /\ (Len(s) - 1) + 1 = Len(s)
    BY <1>0, <1>2
  <2>7. Len(s) - 1 \in Reached
    <3> HIDE DEF Reached
    <3> QED
      BY <2>4, <2>5, <2>6, NatSetInduction
  <2> QED
    BY <1>t, <1>0, <2>2, <2>6, <2>7
<1> QED
  BY <1>1, <1>2

Has(s, x) == \E k \in 1..Len(s) : s[k] = x

\* What a flattened sequence holds is what its parts hold.
LEMMA FlatMembers ==
  ASSUME NEW S, NEW x, NEW s \in Seq(Seq(S))
  PROVE  Has(Flat(s), x) <=> \E i \in 1..Len(s) : Has(s[i], x)
<1>1. PICK home, off : Places(Flat(s), s, Len(s), home, off)
  BY FlatPlaces
<1> DEFINE t == Flat(s)
<1>2. t = Flat(s)
  OBVIOUS
<1> HIDE DEF t
<1>3. /\ \A k \in 1..Len(t) : home[k] \in 1..Len(s)
      /\ \A k \in 1..Len(t) : off[k] \in 1..Len(s[home[k]]) /\ t[k] = s[home[k]][off[k]]
      /\ \A i \in 1..Len(s) : \A p \in 1..Len(s[i]) : \E k \in 1..Len(t) : home[k] = i /\ off[k] = p
  BY <1>1, <1>2 DEF Places
<1>4. ASSUME NEW k \in 1..Len(t), t[k] = x
      PROVE  \E i \in 1..Len(s) : \E p \in 1..Len(s[i]) : s[i][p] = x
  <2>1. home[k] \in 1..Len(s) /\ off[k] \in 1..Len(s[home[k]]) /\ s[home[k]][off[k]] = x
    BY <1>3, <1>4
  <2> QED
    BY <2>1
<1>5. ASSUME NEW i \in 1..Len(s), NEW p \in 1..Len(s[i]), s[i][p] = x
      PROVE  \E k \in 1..Len(t) : t[k] = x
  <2>1. PICK k \in 1..Len(t) : home[k] = i /\ off[k] = p
    BY <1>3
  <2> QED
    BY <1>3, <1>5, <2>1
<1> QED
  BY <1>2, <1>4, <1>5 DEF Has
===============================================================================
