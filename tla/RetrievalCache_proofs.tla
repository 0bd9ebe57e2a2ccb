------------------------- MODULE RetrievalCache_proofs -------------------------
(***************************************************************************)
(* What holds of RetrievalCache for every number of records, searchers,    *)
(* writes, searches and faults: its types, that a synced index agrees with *)
(* the views it was synced with, and that a search ranks by nothing older  *)
(* than the files were when its scan began, but for named exceptions.      *)
(***************************************************************************)
EXTENDS RetrievalCache, TLAPS, FiniteSetTheorems, SequenceTheorems

Places == {"idle", "scan", "wait", "keyError", "views", "load", "adapter", "sync", "ids",
           "synced", "rank", "embed", "forget", "forgetViews", "forgetAdapter"}
Contents == [Records -> 0..(MaxWrites + 1)]
Vectors == Records \X (1..MaxWrites)
Rows == [id : Records, vec : Vectors, hash : 1..MaxWrites]
Ids == [id : Records, hash : 1..MaxWrites]

TypeOK ==
  /\ file \in [Records -> 0..MaxWrites]
  /\ events \in SUBSET Records /\ lastSeen \in SUBSET Records
  /\ scanner \in Searchers \cup {None} /\ result \in Contents
  /\ viewsLock \in Searchers \cup {None} /\ viewsCache \in [key : Contents, views : Contents]
  /\ indexLock \in Threads \cup {None} /\ adapter \in Contents
  /\ index \in Seq(Rows) /\ vectorFile \in Seq(Vectors) /\ idsFile \in Seq(Ids)
  /\ current \in BOOLEAN /\ dirty \in BOOLEAN /\ overwritten \in BOOLEAN
  /\ pc \in [Threads -> Places]
  /\ key \in [Threads -> Contents] /\ views \in [Threads -> Contents] /\ since \in [Threads -> Contents]
  /\ oldIndex \in [Threads -> Seq(Rows)]
  /\ misled \in SUBSET Searchers /\ outrun \in SUBSET (Searchers \X Records)

Upto(old, new) == \A r \in Records : old[r] <= new[r]

-----------------------------------------------------------------------------
(* The operators.                                                          *)

\* There is a last write: of the numbers up to some write, as many as there are.
LEMMA LastWriteExists ==
  ASSUME TypeOK, NEW r \in Records
  PROVE  LastWrite \in 0..MaxWrites /\ \A s \in Records : file[s] <= LastWrite
<1> USE BoundsAssumption DEF TypeOK
<1> DEFINE S == {n \in 0..MaxWrites : \E s \in Records : n <= file[s]}
           c == Cardinality(S)
<1>1. IsFiniteSet(S) /\ c \in Nat
  <2>1. IsFiniteSet(0..MaxWrites) /\ S \subseteq 0..MaxWrites
    BY FS_Interval
  <2> QED
    BY <2>1, FS_Subset, FS_CardinalityType
<1>2. 0 \in S
  BY <1>1
<1>3. ASSUME NEW n \in S PROVE n <= c - 1
  <2>1. 0..n \subseteq S
    OBVIOUS
  <2>2. Cardinality(0..n) = n + 1
    <3>1. n \in Int /\ 0 \in Int /\ ~(0 > n)
      OBVIOUS
    <3> QED
      BY <3>1, FS_Interval
  <2>3. Cardinality(0..n) <= c
    BY <1>1, <2>1, FS_Subset
  <2> QED
    BY <1>1, <2>2, <2>3
<1>4. c - 1 \in S
  <2>1. SUFFICES ASSUME c - 1 \notin S PROVE FALSE
    OBVIOUS
  <2>2. ASSUME NEW n \in S PROVE n <= c - 2
    <3>1. n \in Nat
      OBVIOUS
    <3> HIDE DEF c, S
    <3>2. n # c - 1
      BY <2>1
    <3>3. n <= c - 1
      BY <1>3
    <3> QED
      BY <1>1, <3>1, <3>2, <3>3
  <2>3. c - 2 \in Nat /\ S \subseteq 0..(c - 2)
    <3>1. \A n \in S : n \in Nat
      OBVIOUS
    <3> HIDE DEF c, S
    <3>2. 0 <= c - 2
      BY <1>2, <2>2
    <3> QED
      BY <1>1, <2>2, <3>1, <3>2
  <2>4. IsFiniteSet(0..(c - 2)) /\ Cardinality(0..(c - 2)) = c - 1
    <3> HIDE DEF c
    <3>1. 0 \in Int /\ c - 2 \in Int /\ ~(0 > c - 2)
      BY <2>3
    <3>2. Cardinality(0..(c - 2)) = c - 2 - 0 + 1
      BY <3>1, FS_Interval
    <3> QED
      BY <1>1, <3>1, <3>2, FS_Interval
  <2>5. Cardinality(S) <= Cardinality(0..(c - 2))
    <3>1. S \in SUBSET (0..(c - 2))
      BY <2>3
    <3> HIDE DEF S, c
    <3> QED
      BY <2>4, <3>1, FS_Subset
  <2>6. c <= c - 1
    BY <2>4, <2>5
  <2> HIDE DEF c
  <2> QED
    BY <1>1, <2>6
<1> HIDE DEF c
<1>5. PICK s \in Records : c - 1 <= file[s]
  BY <1>4
<1>6. \A q \in Records : file[q] <= c - 1
  <2>1. \A q \in Records : file[q] \in S
    OBVIOUS
  <2> QED
    BY <1>3, <2>1
<1>7. file[s] = c - 1
  BY <1>1, <1>5, <1>6
<1>8. c - 1 \in 0..MaxWrites /\ (\E q \in Records : file[q] = c - 1) /\ \A q \in Records : file[q] <= c - 1
  BY <1>4, <1>6, <1>7
<1> QED
  BY <1>8 DEF LastWrite

\* A write changes one file, and makes it newer.
LEMMA WriteFacts ==
  ASSUME TypeOK, NEW r \in Records, Write(r)
  PROVE  /\ file' \in [Records -> 0..MaxWrites] /\ Upto(file, file')
         /\ file \in Contents /\ file' \in Contents
         /\ \A s \in Records : file[s] \in 0..MaxWrites /\ file'[s] \in 0..MaxWrites
<1>1. LastWrite \in 0..MaxWrites /\ \A s \in Records : file[s] <= LastWrite
  BY LastWriteExists
<1> HIDE DEF LastWrite
<1>2. LastWrite + 1 \in 0..MaxWrites /\ file' = [file EXCEPT ![r] = LastWrite + 1]
  BY <1>1, BoundsAssumption DEF Write
<1>3. file \in [Records -> 0..MaxWrites] /\ file' \in [Records -> 0..MaxWrites]
  BY <1>2 DEF TypeOK
<1>4. \A s \in Records : file[s] \in 0..MaxWrites /\ file'[s] \in 0..MaxWrites /\ file[s] <= file'[s]
  BY <1>1, <1>2, <1>3, BoundsAssumption
<1>5. \A f \in [Records -> 0..MaxWrites] : f \in Contents
  BY BoundsAssumption DEF Contents
<1> QED
  BY <1>3, <1>4, <1>5 DEF Upto

LEMMA UptoTransitive ==
  ASSUME NEW a \in Contents, NEW b \in Contents, NEW c \in Contents, Upto(a, b), Upto(b, c)
  PROVE  Upto(a, c)
<1>1. ASSUME NEW r \in Records PROVE a[r] <= c[r]
  <2>1. a[r] \in 0..(MaxWrites + 1) /\ b[r] \in 0..(MaxWrites + 1) /\ c[r] \in 0..(MaxWrites + 1)
    BY DEF Contents
  <2>2. a[r] <= b[r] /\ b[r] <= c[r]
    BY DEF Upto
  <2> QED
    BY <2>1, <2>2, BoundsAssumption
<1> QED
  BY <1>1 DEF Upto

\* No two rows are of one record, and a row's vector is the record's, of its
\* content or a later one.
Distinct(rows) == \A i, j \in DOMAIN rows : rows[i].id = rows[j].id => i = j
Sound(rows) == \A i \in DOMAIN rows : rows[i].vec[1] = rows[i].id /\ rows[i].vec[2] >= rows[i].hash

HasRow(rows, r) == \E i \in DOMAIN rows : rows[i].id = r
HashIn(rows, r) == IF HasRow(rows, r) THEN rows[CHOOSE i \in DOMAIN rows : rows[i].id = r].hash ELSE 0

LEMMA HashOfIsHashIn == \A r \in Records : HashOf(r) = HashIn(index, r) /\ (HashOf(r) = HashIn(index, r))'
BY DEF HashOf, HashIn, HasRow, Indexed, Position

LEMMA HashFacts ==
  ASSUME NEW rows \in Seq(Rows), Distinct(rows), NEW r \in Records
  PROVE  /\ HashIn(rows, r) \in 0..MaxWrites
         /\ HashIn(rows, r) # 0 <=> HasRow(rows, r)
         /\ \A i \in DOMAIN rows : rows[i].id = r => HashIn(rows, r) = rows[i].hash
<1> USE BoundsAssumption
<1>1. CASE ~HasRow(rows, r)
  BY <1>1 DEF HasRow, HashIn
<1>2. CASE HasRow(rows, r)
  <2> DEFINE j == CHOOSE i \in DOMAIN rows : rows[i].id = r
  <2>1. j \in DOMAIN rows /\ rows[j].id = r /\ HashIn(rows, r) = rows[j].hash
    BY <1>2 DEF HasRow, HashIn
  <2> HIDE DEF j
  <2>2. rows[j] \in Rows
    BY <2>1
  <2>3. rows[j].hash \in 1..MaxWrites
    BY <2>2 DEF Rows
  <2>4. \A i \in DOMAIN rows : rows[i].id = r => i = j
    BY <2>1 DEF Distinct
  <2> QED
    BY <1>2, <2>1, <2>3, <2>4
<1> QED
  BY <1>1, <1>2

\* A row with a content of a record is a vector of it that is as new.
LEMMA RowHasVector ==
  ASSUME NEW rows \in Seq(Rows), Distinct(rows), Sound(rows), NEW r \in Records, NEW n \in 1..MaxWrites,
         HashIn(rows, r) >= n
  PROVE  HasVector(rows, r, n)
<1>1. HashIn(rows, r) \in 0..MaxWrites /\ HashIn(rows, r) # 0
  BY HashFacts, BoundsAssumption
<1>2. PICK i \in DOMAIN rows : rows[i].id = r
  BY <1>1, HashFacts DEF HasRow
<1>3. rows[i].hash >= n /\ rows[i] \in Rows
  BY <1>2, HashFacts
<1>4. rows[i].vec[1] = r /\ rows[i].vec[2] >= rows[i].hash
  BY <1>2 DEF Sound
<1>5. rows[i].vec[2] \in 1..MaxWrites /\ rows[i].hash \in 1..MaxWrites
  BY <1>3 DEF Rows, Vectors
<1> QED
  BY <1>2, <1>3, <1>4, <1>5, BoundsAssumption DEF HasVector

\* upsert: the record's row has the new content, and the others have theirs.
Put(rows, r, row) ==
  IF HasRow(rows, r) THEN [rows EXCEPT ![CHOOSE i \in DOMAIN rows : rows[i].id = r] = row] ELSE Append(rows, row)

LEMMA PutFacts ==
  ASSUME NEW rows \in Seq(Rows), Distinct(rows), NEW r \in Records, NEW n \in 1..MaxWrites,
         NEW row \in Rows, row = [id |-> r, vec |-> <<r, n>>, hash |-> n]
  PROVE  LET new == Put(rows, r, row)
         IN /\ new \in Seq(Rows) /\ Distinct(new)
            /\ Sound(rows) => Sound(new)
            /\ HashIn(new, r) = n
            /\ \A s \in Records \ {r} : HashIn(new, s) = HashIn(rows, s)
<1> USE BoundsAssumption
<1> DEFINE new == Put(rows, r, row)
<1>0. row.id = r /\ row.hash = n /\ row.vec[1] = r /\ row.vec[2] >= row.hash
  OBVIOUS
<1>1. CASE ~HasRow(rows, r)
  <2>1. new = Append(rows, row)
    BY <1>1 DEF Put
  <2>2. new \in Seq(Rows) /\ Len(new) = Len(rows) + 1 /\ new[Len(rows) + 1] = row
        /\ \A i \in 1..Len(rows) : new[i] = rows[i]
    <3> HIDE DEF new
    <3> QED
      BY <2>1, AppendProperties
  <2> HIDE DEF new
  <2>3. /\ DOMAIN new = DOMAIN rows \cup {Len(rows) + 1} /\ Len(rows) + 1 \notin DOMAIN rows
        /\ \A i \in DOMAIN rows : new[i] = rows[i]
    <3>1. DOMAIN rows = 1..Len(rows) /\ DOMAIN new = 1..(Len(rows) + 1) /\ Len(rows) \in Nat
      BY <2>2, LenProperties
    <3> QED
      BY <2>2, <3>1
  <2>4. Distinct(new) /\ (Sound(rows) => Sound(new))
    BY <1>0, <1>1, <2>2, <2>3 DEF HasRow, Distinct, Sound
  <2>5. HashIn(new, r) = n
    BY <1>0, <2>2, <2>3, <2>4, HashFacts
  <2>6. ASSUME NEW s \in Records \ {r} PROVE HashIn(new, s) = HashIn(rows, s)
    <3>1. CASE HasRow(rows, s)
      <4>1. PICK i \in DOMAIN rows : rows[i].id = s
        BY <3>1 DEF HasRow
      <4>2. HashIn(rows, s) = rows[i].hash
        BY <4>1, HashFacts
      <4>3. HashIn(new, s) = new[i].hash
        BY <4>1, <2>2, <2>3, <2>4, HashFacts
      <4> QED
        BY <4>1, <4>2, <4>3, <2>2
    <3>2. CASE ~HasRow(rows, s)
      <4>1. ~HasRow(new, s)
        BY <1>0, <3>2, <2>2, <2>3 DEF HasRow
      <4> QED
        BY <3>2, <4>1 DEF HashIn
    <3> QED
      BY <3>1, <3>2
  <2> QED
    BY <2>2, <2>4, <2>5, <2>6 DEF new
<1>2. CASE HasRow(rows, r)
  <2> DEFINE j == CHOOSE i \in DOMAIN rows : rows[i].id = r
  <2>1. j \in DOMAIN rows /\ rows[j].id = r /\ new = [rows EXCEPT ![j] = row]
    BY <1>2 DEF HasRow, Put
  <2> HIDE DEF j
  <2>2. new \in Seq(Rows) /\ DOMAIN new = DOMAIN rows /\ new[j] = row
        /\ \A i \in DOMAIN rows : i # j => new[i] = rows[i]
    <3> HIDE DEF new
    <3>1. DOMAIN rows = 1..Len(rows)
      BY LenProperties
    <3>2. new \in Seq(Rows)
      BY <2>1, <3>1, ExceptSeq
    <3> QED
      BY <2>1, <3>1, <3>2
  <2> HIDE DEF new
  <2>3. \A i \in DOMAIN rows : new[i].id = rows[i].id
    BY <1>0, <2>1, <2>2
  <2>4. Distinct(new) /\ (Sound(rows) => Sound(new))
    BY <1>0, <2>1, <2>2, <2>3 DEF Distinct, Sound
  <2>5. HashIn(new, r) = n
    BY <1>0, <2>1, <2>2, <2>4, HashFacts
  <2>6. ASSUME NEW s \in Records \ {r} PROVE HashIn(new, s) = HashIn(rows, s)
    <3>1. CASE HasRow(rows, s)
      <4>1. PICK i \in DOMAIN rows : rows[i].id = s
        BY <3>1 DEF HasRow
      <4>2. i # j
        BY <2>1, <4>1
      <4>3. HashIn(rows, s) = rows[i].hash
        BY <4>1, HashFacts
      <4>4. HashIn(new, s) = new[i].hash
        BY <4>1, <2>2, <2>3, <2>4, HashFacts
      <4> QED
        BY <4>1, <4>2, <4>3, <4>4, <2>2
    <3>2. CASE ~HasRow(rows, s)
      <4>1. ~HasRow(new, s)
        BY <3>2, <2>2, <2>3 DEF HasRow
      <4> QED
        BY <3>2, <4>1 DEF HashIn
    <3> QED
      BY <3>1, <3>2
  <2> QED
    BY <2>2, <2>4, <2>5, <2>6 DEF new
<1> QED
  BY <1>1, <1>2

-----------------------------------------------------------------------------
(* Types.                                                                  *)

\* What VectorIndex.load gives is an index, with the ids of ids.json.
LEMMA LoadedFacts ==
  ASSUME TypeOK
  PROVE  /\ Loaded \in Seq(Rows)
         /\ \A i \in DOMAIN Loaded : /\ i \in DOMAIN idsFile
                                     /\ Len(vectorFile) = Len(idsFile)
                                     /\ Loaded[i].id = idsFile[i].id /\ Loaded[i].hash = idsFile[i].hash
                                     /\ Loaded[i].vec = vectorFile[i]
<1>1. CASE Len(vectorFile) # Len(idsFile)
  BY <1>1 DEF Loaded
<1>2. CASE Len(vectorFile) = Len(idsFile)
  <2> DEFINE row(i) == [id |-> idsFile[i].id, vec |-> vectorFile[i], hash |-> idsFile[i].hash]
  <2>1. Loaded = [i \in 1..Len(idsFile) |-> row(i)] /\ Len(idsFile) \in Nat /\ DOMAIN idsFile = 1..Len(idsFile)
    BY <1>2, LenProperties DEF Loaded, TypeOK
  <2>2. ASSUME NEW i \in 1..Len(idsFile) PROVE row(i) \in Rows
    <3>1. idsFile[i] \in Ids /\ vectorFile[i] \in Vectors
      BY <1>2, ElementOfSeq DEF TypeOK
    <3> QED
      BY <3>1 DEF Rows, Ids
  <2> HIDE DEF row
  <2>3. Loaded \in [1..Len(idsFile) -> Rows]
    BY <2>1, <2>2
  <2>4. Loaded \in Seq(Rows)
    BY <2>1, <2>3, IsASeq
  <2>5. \A i \in 1..Len(idsFile) : Loaded[i] = row(i)
    BY <2>1
  <2> QED
    BY <1>2, <2>1, <2>4, <2>5 DEF row
<1> QED
  BY <1>1, <1>2

\* Upsert puts the row of the record's content.
LEMMA UpsertPuts ==
  ASSUME TypeOK, NEW t \in Threads, NEW r \in Records, Upsert(t, r)
  PROVE  LET row == [id |-> r, vec |-> <<r, views[t][r]>>, hash |-> views[t][r]]
         IN views[t][r] \in 1..MaxWrites /\ row \in Rows /\ index' = Put(index, r, row)
<1>1. views[t][r] \in 0..(MaxWrites + 1) /\ views[t][r] \notin {0, Unread}
  BY DEF TypeOK, Contents, Upsert, Differs
<1>2. views[t][r] \in 1..MaxWrites
  BY <1>1, BoundsAssumption DEF Unread
<1> QED
  BY <1>2 DEF Upsert, Put, HasRow, Indexed, Position, Rows, Vectors

LEMMA FunctionIsSeq ==
  ASSUME NEW S, NEW n \in Nat, NEW f \in [1..n -> S]
  PROVE  f \in Seq(S)
BY SeqDef

LEMMA TypeInit == Init => TypeOK
<1> SUFFICES ASSUME Init PROVE TypeOK
  OBVIOUS
<1>2. Nothing \in Contents
  BY BoundsAssumption DEF Nothing, Unread, Contents
<1> HIDE DEF Nothing
<1>3. file \in [Records -> 0..MaxWrites]
  <2>1. file \in [Records -> 0..1] /\ 0..1 \subseteq 0..MaxWrites
    BY BoundsAssumption DEF Init
  <2> QED
    BY <2>1
<1>4. \A S : <<>> \in Seq(S)
  BY EmptySeq
<1>5. index \in Seq(Rows) /\ vectorFile \in Seq(Vectors) /\ idsFile \in Seq(Ids)
  BY <1>4 DEF Init
<1> QED
  BY <1>2, <1>3, <1>5 DEF Init, TypeOK, NoViews, Threads, Places

\* One entry of a thread's reading is filled in.
LEMMA ReadOne ==
  ASSUME NEW f \in [Threads -> Contents], NEW t \in Threads, NEW r \in Records, NEW n \in 0..(MaxWrites + 1)
  PROVE  [f EXCEPT ![t][r] = n] \in [Threads -> Contents]
<1>1. [f[t] EXCEPT ![r] = n] \in Contents
  BY DEF Contents
<1> QED
  BY <1>1

LEMMA SomeContents ==
  ASSUME TypeOK
  PROVE  /\ Nothing \in Contents /\ NoViews \in [key : Contents, views : Contents]
         /\ file \in Contents /\ [r \in Records |-> 0] \in Contents
         /\ \A r \in Records : file[r] \in 0..(MaxWrites + 1)
BY BoundsAssumption DEF TypeOK, Nothing, NoViews, Contents, Unread

LEMMA EmptyRows == <<>> \in Seq(Rows)
OBVIOUS

LEMMA RankedByType ==
  ASSUME TypeOK, NEW u \in Threads
  PROVE  RankedBy(u) \in Seq(Rows)
BY DEF TypeOK, RankedBy

LEMMA TypeStep ==
  ASSUME TypeOK, [Next]_vars
  PROVE  TypeOK'
<1> USE ThreadsAssumption, BoundsAssumption DEF TypeOK, Threads, Places, disk, locks, store, promise, threads, bounds, vars, Goes, Idle, Release, May
<1>1. ASSUME NEW r \in Records, Write(r) PROVE TypeOK'
  <2>1. LastWrite \in 0..MaxWrites
    BY <1>1, LastWriteExists DEF Write
  <2> HIDE DEF LastWrite
  <2> QED
    BY <1>1, <2>1 DEF Write
<1>2. ASSUME NEW t \in Searchers, Call(t) PROVE TypeOK'
  BY <1>2, SomeContents DEF Call
<1>3. ASSUME NEW t \in Searchers, Publish(t) PROVE TypeOK'
  BY <1>3 DEF Publish
<1>4. ASSUME NEW t \in Searchers, Join(t) PROVE TypeOK'
  BY <1>4 DEF Join
<1>5. ASSUME NEW t \in Searchers, JoinFails(t) PROVE TypeOK'
  BY <1>5 DEF JoinFails
<1>6. ASSUME NEW t \in Searchers, GiveUp(t) PROVE TypeOK'
  BY <1>6, SomeContents, EmptyRows DEF GiveUp
<1>7. ASSUME NEW t \in Searchers, UseViews(t) PROVE TypeOK'
  BY <1>7 DEF UseViews
<1>8. ASSUME NEW t \in Searchers, LoadViews(t) PROVE TypeOK'
  BY <1>8 DEF LoadViews
<1>9. ASSUME NEW t \in Searchers, StoreViews(t) PROVE TypeOK'
  BY <1>9 DEF StoreViews
<1>10. ASSUME NEW t \in Searchers, UseAdapter(t) PROVE TypeOK'
  BY <1>10 DEF UseAdapter
<1>11. ASSUME NEW t \in Searchers, LockIndex(t) PROVE TypeOK'
  <2>1. Loaded \in Seq(Rows)
    BY LoadedFacts
  <2> HIDE DEF Loaded
  <2> QED
    BY <1>11, <2>1, RankedByType DEF LockIndex, TakeIndex
<1>12. ASSUME NEW t \in Searchers, SyncedAlready(t) PROVE TypeOK'
  BY <1>12 DEF SyncedAlready
<1>13. ASSUME NEW t \in Searchers, CacheAdapter(t) PROVE TypeOK'
  BY <1>13 DEF CacheAdapter
<1>14. ASSUME NEW t \in Searchers, Rank(t) PROVE TypeOK'
  BY <1>14, SomeContents, EmptyRows DEF Rank
<1>15. ASSUME NEW t \in Searchers, NEW r \in Records, Scan(t, r) PROVE TypeOK'
  <2>1. key' \in [Threads -> Contents]
    BY <1>15, ReadOne, SomeContents DEF Scan
  <2> QED
    BY <1>15, <2>1 DEF Scan
<1>16. ASSUME NEW t \in Searchers, NEW r \in Records, LoadRecord(t, r) PROVE TypeOK'
  <2>1. views' \in [Threads -> Contents]
    BY <1>16, ReadOne, SomeContents DEF LoadRecord
  <2> QED
    BY <1>16, <2>1 DEF LoadRecord
<1>17. ASSUME NEW t \in Threads, SaveVectors(t) PROVE TypeOK'
  <2>1. ASSUME NEW i \in DOMAIN index PROVE index[i].vec \in Vectors
    <3>1. index[i] \in Rows
      BY ElementOfSeq, LenProperties
    <3> QED
      BY <3>1 DEF Rows
  <2>2. DOMAIN index = 1..Len(index) /\ Len(index) \in Nat
    BY LenProperties
  <2>3. vectorFile' \in [1..Len(index) -> Vectors]
    BY <1>17, <2>1, <2>2 DEF SaveVectors
  <2>4. vectorFile' \in Seq(Vectors)
    BY <2>2, <2>3, FunctionIsSeq
  <2> QED
    BY <1>17, <2>4, SomeContents DEF SaveVectors
<1>18. ASSUME NEW t \in Threads, SaveIds(t) PROVE TypeOK'
  <2>1. ASSUME NEW i \in DOMAIN index PROVE [id |-> index[i].id, hash |-> index[i].hash] \in Ids
    <3>1. index[i] \in Rows
      BY ElementOfSeq, LenProperties
    <3> QED
      BY <3>1 DEF Rows, Ids
  <2>2. DOMAIN index = 1..Len(index) /\ Len(index) \in Nat
    BY LenProperties
  <2>3. idsFile' \in [1..Len(index) -> Ids]
    BY <1>18, <2>1, <2>2 DEF SaveIds
  <2>4. idsFile' \in Seq(Ids)
    BY <2>2, <2>3, FunctionIsSeq
  <2> QED
    BY <1>18, <2>4 DEF SaveIds
<1>19. ASSUME NEW t \in Threads, NEW r \in Records, Upsert(t, r) PROVE TypeOK'
  <2>1. index' = Put(index, r, [id |-> r, vec |-> <<r, views[t][r]>>, hash |-> views[t][r]])
        /\ [id |-> r, vec |-> <<r, views[t][r]>>, hash |-> views[t][r]] \in Rows
    BY <1>19, UpsertPuts
  <2>2. index' \in Seq(Rows)
    <3> DEFINE row == [id |-> r, vec |-> <<r, views[t][r]>>, hash |-> views[t][r]]
    <3>1. row \in Rows /\ index \in Seq(Rows)
      BY <2>1
    <3> HIDE DEF row
    <3>2. DOMAIN index = 1..Len(index)
      BY LenProperties
    <3>3. CASE HasRow(index, r)
      <4> DEFINE j == CHOOSE i \in DOMAIN index : index[i].id = r
      <4>1. j \in 1..Len(index) /\ index' = [index EXCEPT ![j] = row]
        BY <2>1, <3>2, <3>3 DEF Put, HasRow, row
      <4> HIDE DEF j
      <4> QED
        BY <3>1, <4>1, ExceptSeq
    <3>4. CASE ~HasRow(index, r)
      <4>1. index' = Append(index, row)
        BY <2>1, <3>4 DEF Put, row
      <4> QED
        BY <3>1, <4>1, AppendProperties
    <3> QED
      BY <3>3, <3>4
  <2> QED
    BY <1>19, <2>2 DEF Upsert
<1>20. ASSUME Embed PROVE TypeOK'
  <2>1. Loaded \in Seq(Rows)
    BY LoadedFacts
  <2> HIDE DEF Loaded
  <2> QED
    BY <1>20, <2>1, RankedByType DEF Embed, TakeIndex
<1>21. ASSUME HasIt PROVE TypeOK'
  BY <1>21, SomeContents, EmptyRows DEF HasIt
<1>22. ASSUME Embedded PROVE TypeOK'
  BY <1>22 DEF Embedded
<1>23. ASSUME ForgetResult PROVE TypeOK'
  BY <1>23, SomeContents DEF ForgetResult
<1>24. ASSUME ForgetViews PROVE TypeOK'
  BY <1>24, SomeContents DEF ForgetViews
<1>25. ASSUME ForgetAdapter PROVE TypeOK'
  BY <1>25, SomeContents, EmptyRows DEF ForgetAdapter
<1>26. ASSUME NEW r \in Records, Coalesce(r) PROVE TypeOK'
  BY <1>26 DEF Coalesce
<1>27. ASSUME NEW r \in Records, Take(r) PROVE TypeOK'
  <2>1. views' \in [Threads -> Contents]
    BY <1>27, ReadOne, SomeContents DEF Take
  <2> QED
    BY <1>27, <2>1 DEF Take
<1>28. ASSUME Crash PROVE TypeOK'
  <2>1. overwritten' \in BOOLEAN
    BY <1>28, Zenon DEF Crash
  <2>2. Nothing \in Contents /\ NoViews \in [key : Contents, views : Contents]
    BY SomeContents
  <2>3. <<>> \in Seq(Rows)
    OBVIOUS
  <2> QED
    BY <1>28, <2>1, <2>2, <2>3 DEF Crash
<1>29. ASSUME NEW t \in Threads, EmbedFails(t) PROVE TypeOK'
  <2>1. overwritten' \in BOOLEAN
    BY <1>29, Zenon DEF EmbedFails
  <2>2. Nothing \in Contents /\ NoViews \in [key : Contents, views : Contents]
    BY SomeContents
  <2>3. <<>> \in Seq(Rows)
    OBVIOUS
  <2> QED
    BY <1>29, <2>1, <2>2, <2>3 DEF EmbedFails
<1>30. ASSUME NEW t \in Threads, SaveFails(t) PROVE TypeOK'
  <2>1. overwritten' \in BOOLEAN
    BY <1>30, Zenon DEF SaveFails
  <2>2. Nothing \in Contents /\ NoViews \in [key : Contents, views : Contents]
    BY SomeContents
  <2>3. <<>> \in Seq(Rows)
    OBVIOUS
  <2> QED
    BY <1>30, <2>1, <2>2, <2>3 DEF SaveFails
<1>31. ASSUME NEW t \in Threads, ScanFails(t) PROVE TypeOK'
  BY <1>31, SomeContents DEF ScanFails
<1>32. ASSUME UNCHANGED vars PROVE TypeOK'
  BY <1>32
<1> QED
  BY <1>1, <1>2, <1>3, <1>4, <1>5, <1>6, <1>7, <1>8, <1>9, <1>10, <1>11, <1>12, <1>13, <1>14, <1>15, <1>16, <1>17, <1>18, <1>19, <1>20, <1>21, <1>22, <1>23, <1>24, <1>25, <1>26, <1>27, <1>28, <1>29, <1>30, <1>31, <1>32 DEF Next, Search, Sync, Watch, Fault

-----------------------------------------------------------------------------
(* The inductive invariant.                                                *)

Keyed == {"views", "load", "adapter", "sync", "ids", "synced", "rank"}
Viewed == {"adapter", "sync", "ids", "synced", "rank"}
WatcherOnly == {"embed", "forget", "forgetViews", "forgetAdapter"}

\* Who is where, and which lock is taken for it.
PlaceInv ==
  /\ \A t \in Threads : pc[t] = "scan" <=> scanner = t
  /\ \A t \in Threads : pc[t] \in {"sync", "ids", "synced"} <=> indexLock = t
  /\ \A t \in Searchers : pc[t] \notin WatcherOnly
  /\ pc[Watcher] \notin {"scan", "wait", "keyError", "views", "load", "adapter", "rank"}
  /\ dirty => indexLock # None
  /\ ~current => adapter = Nothing
  /\ \A t \in Threads : pc[t] = "ids" => ~current
  /\ \A t \in Threads : pc[t] \in {"sync", "synced"} => current
  /\ \A t \in Threads : pc[t] = "synced" /\ dirty => adapter = Nothing

\* What is cached was read from files that are no newer now, and views are no
\* older than the fingerprint they are cached under.
CachedInv ==
  /\ result = Nothing \/ (ReadAll(result) /\ Upto(result, file))
  /\ viewsCache = NoViews \/
     (ReadAll(viewsCache.key) /\ ReadAll(viewsCache.views) /\ Upto(viewsCache.key, viewsCache.views))
  /\ adapter = Nothing \/ ReadAll(adapter)

\* What a searcher has read is no older than the files were when the scan it
\* uses began, unless that scan failed under it.
Known(t) ==
  /\ pc[t] \in {"idle", "scan", "wait", "views"} => views[t] = Nothing
  /\ pc[t] \in {"idle", "wait"} => key[t] = Nothing
  /\ pc[t] \in {"scan", "wait"} => Upto(since[t], file)
  /\ pc[t] = "scan" =>
       \A r \in Records : key[t][r] = Unread \/ (since[t][r] <= key[t][r] /\ key[t][r] <= file[r])
  /\ pc[t] \in Keyed => ReadAll(key[t]) /\ Upto(key[t], file)
  /\ pc[t] \in Keyed /\ t \notin misled => Upto(since[t], key[t])
  /\ pc[t] = "load" =>
       \A r \in Records : views[t][r] = Unread \/ key[t][r] <= views[t][r]
  /\ pc[t] \in Viewed => ReadAll(views[t]) /\ Upto(key[t], views[t])
KnownInv == \A t \in Searchers : Known(t)

\* What a searcher that waits will be given is no older than it was promised.
WaitInv == \A t \in Searchers : pc[t] = "wait" =>
  /\ scanner # None => Upto(since[t], since[scanner])
  /\ scanner = None /\ result # Nothing /\ t \notin misled => Upto(since[t], result)

\* The index in memory and on disk.
IndexInv ==
  /\ Distinct(index) /\ Distinct(idsFile)
  /\ \A t \in Threads : pc[t] \in {"ids", "synced"} => Synced(t)
  /\ \A t \in Threads : pc[t] = "ids" => vectorFile = [i \in DOMAIN index |-> index[i].vec]

\* Unless a cut left older content behind, every row is sound, and so are the
\* files, but for the moment between their two saves.
SoundInv ==
  ~overwritten => Sound(index) /\ ((\A t \in Threads : pc[t] # "ids") => ~Torn)

\* ... and the cached adapter promises no more than the index has, except while a
\* sync of other views is at work on it.
AdapterInv ==
  ~overwritten /\ adapter # Nothing /\ ~dirty => \A r \in Records : HashOf(r) >= adapter[r]

\* The index a searcher ranks with has no older content than it was promised,
\* but for the rows that were replaced under it.
Fresh(t) ==
  /\ Distinct(RankedBy(t)) /\ Sound(RankedBy(t))
  /\ t \notin misled =>
       \A r \in Records : <<t, r>> \in outrun \/ HashIn(RankedBy(t), r) >= since[t][r]

RankInv ==
  /\ \A t \in Searchers : pc[t] # "rank" => oldIndex[t] = <<>>
  /\ ~overwritten => \A t \in Searchers : pc[t] = "rank" => Fresh(t)

CacheInv ==
  /\ TypeOK /\ PlaceInv /\ CachedInv /\ KnownInv /\ WaitInv
  /\ IndexInv /\ SoundInv /\ AdapterInv /\ RankInv

LEMMA PlaceStep ==
  ASSUME TypeOK, PlaceInv, [Next]_vars
  PROVE  PlaceInv'
<1> USE ThreadsAssumption, BoundsAssumption DEF TypeOK, PlaceInv, Threads, None, WatcherOnly, disk, locks, store, promise, threads, bounds, vars, Goes, Idle, Release, May
<1>1. ASSUME NEW r \in Records, Write(r) PROVE PlaceInv'
  BY <1>1 DEF Write
<1>2. ASSUME NEW t \in Searchers, Call(t) PROVE PlaceInv'
  BY <1>2 DEF Call
<1>3. ASSUME NEW t \in Searchers, Publish(t) PROVE PlaceInv'
  BY <1>3 DEF Publish
<1>4. ASSUME NEW t \in Searchers, Join(t) PROVE PlaceInv'
  BY <1>4 DEF Join
<1>5. ASSUME NEW t \in Searchers, JoinFails(t) PROVE PlaceInv'
  BY <1>5 DEF JoinFails
<1>6. ASSUME NEW t \in Searchers, GiveUp(t) PROVE PlaceInv'
  BY <1>6 DEF GiveUp
<1>7. ASSUME NEW t \in Searchers, UseViews(t) PROVE PlaceInv'
  BY <1>7 DEF UseViews
<1>8. ASSUME NEW t \in Searchers, LoadViews(t) PROVE PlaceInv'
  BY <1>8 DEF LoadViews
<1>9. ASSUME NEW t \in Searchers, StoreViews(t) PROVE PlaceInv'
  BY <1>9 DEF StoreViews
<1>10. ASSUME NEW t \in Searchers, UseAdapter(t) PROVE PlaceInv'
  BY <1>10 DEF UseAdapter
<1>11. ASSUME NEW t \in Searchers, LockIndex(t) PROVE PlaceInv'
  BY <1>11 DEF LockIndex, TakeIndex
<1>12. ASSUME NEW t \in Searchers, SyncedAlready(t) PROVE PlaceInv'
  BY <1>12 DEF SyncedAlready
<1>13. ASSUME NEW t \in Searchers, CacheAdapter(t) PROVE PlaceInv'
  BY <1>13 DEF CacheAdapter
<1>14. ASSUME NEW t \in Searchers, Rank(t) PROVE PlaceInv'
  BY <1>14 DEF Rank
<1>15. ASSUME NEW t \in Searchers, NEW r \in Records, Scan(t, r) PROVE PlaceInv'
  BY <1>15 DEF Scan
<1>16. ASSUME NEW t \in Searchers, NEW r \in Records, LoadRecord(t, r) PROVE PlaceInv'
  BY <1>16 DEF LoadRecord
<1>17. ASSUME NEW t \in Threads, SaveVectors(t) PROVE PlaceInv'
  BY <1>17 DEF SaveVectors
<1>18. ASSUME NEW t \in Threads, SaveIds(t) PROVE PlaceInv'
  BY <1>18 DEF SaveIds
<1>19. ASSUME NEW t \in Threads, NEW r \in Records, Upsert(t, r) PROVE PlaceInv'
  BY <1>19 DEF Upsert
<1>20. ASSUME Embed PROVE PlaceInv'
  BY <1>20 DEF Embed, TakeIndex
<1>21. ASSUME HasIt PROVE PlaceInv'
  BY <1>21 DEF HasIt
<1>22. ASSUME Embedded PROVE PlaceInv'
  BY <1>22 DEF Embedded
<1>23. ASSUME ForgetResult PROVE PlaceInv'
  BY <1>23 DEF ForgetResult
<1>24. ASSUME ForgetViews PROVE PlaceInv'
  BY <1>24 DEF ForgetViews
<1>25. ASSUME ForgetAdapter PROVE PlaceInv'
  BY <1>25 DEF ForgetAdapter
<1>26. ASSUME NEW r \in Records, Coalesce(r) PROVE PlaceInv'
  BY <1>26 DEF Coalesce
<1>27. ASSUME NEW r \in Records, Take(r) PROVE PlaceInv'
  BY <1>27 DEF Take
<1>28. ASSUME Crash PROVE PlaceInv'
  BY <1>28 DEF Crash
<1>29. ASSUME NEW t \in Threads, EmbedFails(t) PROVE PlaceInv'
  BY <1>29 DEF EmbedFails
<1>30. ASSUME NEW t \in Threads, SaveFails(t) PROVE PlaceInv'
  BY <1>30 DEF SaveFails
<1>31. ASSUME NEW t \in Threads, ScanFails(t) PROVE PlaceInv'
  BY <1>31 DEF ScanFails
<1>32. ASSUME UNCHANGED vars PROVE PlaceInv'
  BY <1>32
<1> QED
  BY <1>1, <1>2, <1>3, <1>4, <1>5, <1>6, <1>7, <1>8, <1>9, <1>10, <1>11, <1>12, <1>13, <1>14, <1>15, <1>16, <1>17, <1>18, <1>19, <1>20, <1>21, <1>22, <1>23, <1>24, <1>25, <1>26, <1>27, <1>28, <1>29, <1>30, <1>31, <1>32 DEF Next, Search, Sync, Watch, Fault

LEMMA CachedStep ==
  ASSUME TypeOK, PlaceInv, CachedInv, KnownInv, [Next]_vars
  PROVE  CachedInv'
<1> USE ThreadsAssumption, BoundsAssumption DEF TypeOK, CachedInv, Threads, ReadAll, Upto, disk, locks, store, promise, threads, bounds, vars, Goes, Idle, Release, May
<1>1. ASSUME NEW r \in Records, Write(r) PROVE CachedInv'
  <2>1. UNCHANGED <<result, viewsCache, adapter>>
    BY <1>1 DEF Write
  <2>2. result # Nothing => Upto(result, file')
    <3>1. result \in Contents /\ (result # Nothing => Upto(result, file))
      OBVIOUS
    <3> QED
      BY <1>1, <3>1, WriteFacts, UptoTransitive
  <2> QED
    BY <2>1, <2>2
<1>2. ASSUME NEW t \in Searchers, Call(t) PROVE CachedInv'
  BY <1>2 DEF Call
<1>3. ASSUME NEW t \in Searchers, Publish(t) PROVE CachedInv'
  <2>1. UNCHANGED <<viewsCache, adapter, file>> /\ result' = key[t] /\ ReadAll(key[t]) /\ pc[t] = "scan"
    BY <1>3 DEF Publish
  <2>2. Upto(key[t], file)
    BY <2>1 DEF KnownInv, Known, Upto, ReadAll
  <2> QED
    BY <2>1, <2>2 DEF ReadAll, Upto
<1>4. ASSUME NEW t \in Searchers, Join(t) PROVE CachedInv'
  BY <1>4 DEF Join
<1>5. ASSUME NEW t \in Searchers, JoinFails(t) PROVE CachedInv'
  BY <1>5 DEF JoinFails
<1>6. ASSUME NEW t \in Searchers, GiveUp(t) PROVE CachedInv'
  BY <1>6 DEF GiveUp
<1>7. ASSUME NEW t \in Searchers, UseViews(t) PROVE CachedInv'
  BY <1>7 DEF UseViews
<1>8. ASSUME NEW t \in Searchers, LoadViews(t) PROVE CachedInv'
  BY <1>8 DEF LoadViews
<1>9. ASSUME NEW t \in Searchers, StoreViews(t) PROVE CachedInv'
  <2>1. UNCHANGED <<result, adapter, file>> /\ viewsCache' = [key |-> key[t], views |-> views[t]]
        /\ ReadAll(views[t]) /\ pc[t] = "load"
    BY <1>9 DEF StoreViews
  <2>2. ReadAll(key[t]) /\ Upto(key[t], views[t])
    BY <2>1 DEF KnownInv, Known, Upto, ReadAll, Keyed
  <2> QED
    BY <2>1, <2>2 DEF ReadAll, Upto
<1>10. ASSUME NEW t \in Searchers, UseAdapter(t) PROVE CachedInv'
  BY <1>10 DEF UseAdapter
<1>11. ASSUME NEW t \in Searchers, LockIndex(t) PROVE CachedInv'
  BY <1>11 DEF LockIndex, TakeIndex, Loaded
<1>12. ASSUME NEW t \in Searchers, SyncedAlready(t) PROVE CachedInv'
  BY <1>12 DEF SyncedAlready
<1>13. ASSUME NEW t \in Searchers, CacheAdapter(t) PROVE CachedInv'
  <2>1. UNCHANGED <<result, viewsCache, file>> /\ adapter' = key[t] /\ pc[t] = "synced"
    BY <1>13 DEF CacheAdapter
  <2>2. ReadAll(key[t])
    BY <2>1 DEF KnownInv, Known, Keyed
  <2> QED
    BY <2>1, <2>2 DEF ReadAll, Upto
<1>14. ASSUME NEW t \in Searchers, Rank(t) PROVE CachedInv'
  BY <1>14 DEF Rank
<1>15. ASSUME NEW t \in Searchers, NEW r \in Records, Scan(t, r) PROVE CachedInv'
  BY <1>15 DEF Scan
<1>16. ASSUME NEW t \in Searchers, NEW r \in Records, LoadRecord(t, r) PROVE CachedInv'
  BY <1>16 DEF LoadRecord
<1>17. ASSUME NEW t \in Threads, SaveVectors(t) PROVE CachedInv'
  BY <1>17 DEF SaveVectors
<1>18. ASSUME NEW t \in Threads, SaveIds(t) PROVE CachedInv'
  BY <1>18 DEF SaveIds
<1>19. ASSUME NEW t \in Threads, NEW r \in Records, Upsert(t, r) PROVE CachedInv'
  BY <1>19 DEF Upsert
<1>20. ASSUME Embed PROVE CachedInv'
  BY <1>20 DEF Embed, TakeIndex, Loaded
<1>21. ASSUME HasIt PROVE CachedInv'
  BY <1>21 DEF HasIt
<1>22. ASSUME Embedded PROVE CachedInv'
  BY <1>22 DEF Embedded
<1>23. ASSUME ForgetResult PROVE CachedInv'
  BY <1>23 DEF ForgetResult
<1>24. ASSUME ForgetViews PROVE CachedInv'
  BY <1>24 DEF ForgetViews
<1>25. ASSUME ForgetAdapter PROVE CachedInv'
  BY <1>25 DEF ForgetAdapter
<1>26. ASSUME NEW r \in Records, Coalesce(r) PROVE CachedInv'
  BY <1>26 DEF Coalesce
<1>27. ASSUME NEW r \in Records, Take(r) PROVE CachedInv'
  BY <1>27 DEF Take
<1>28. ASSUME Crash PROVE CachedInv'
  BY <1>28 DEF Crash
<1>29. ASSUME NEW t \in Threads, EmbedFails(t) PROVE CachedInv'
  BY <1>29 DEF EmbedFails
<1>30. ASSUME NEW t \in Threads, SaveFails(t) PROVE CachedInv'
  BY <1>30 DEF SaveFails
<1>31. ASSUME NEW t \in Threads, ScanFails(t) PROVE CachedInv'
  BY <1>31 DEF ScanFails
<1>32. ASSUME UNCHANGED vars PROVE CachedInv'
  BY <1>32
<1> QED
  BY <1>1, <1>2, <1>3, <1>4, <1>5, <1>6, <1>7, <1>8, <1>9, <1>10, <1>11, <1>12, <1>13, <1>14, <1>15, <1>16, <1>17, <1>18, <1>19, <1>20, <1>21, <1>22, <1>23, <1>24, <1>25, <1>26, <1>27, <1>28, <1>29, <1>30, <1>31, <1>32 DEF Next, Search, Sync, Watch, Fault

\* A searcher that does not move keeps what it knows, also while files are written.
MisledKept(u) == pc[u] \in Keyed /\ u \in misled => u \in misled'

LEMMA KnownKept ==
  ASSUME TypeOK, NEW u \in Searchers, Known(u), TypeOK', Upto(file, file'), file' \in Contents,
         pc'[u] = pc[u], key'[u] = key[u], views'[u] = views[u], since'[u] = since[u],
         MisledKept(u)
  PROVE  Known(u)'
<1> USE BoundsAssumption DEF Threads
<1>1. key[u] \in Contents /\ since[u] \in Contents /\ views[u] \in Contents /\ file \in Contents
  BY SomeContents DEF TypeOK
<1>2. Upto(since[u], file) => Upto(since'[u], file')
  BY <1>1, UptoTransitive
<1>3. Upto(key[u], file) => Upto(key'[u], file')
  BY <1>1, UptoTransitive
<1>4. ASSUME NEW r \in Records, key[u][r] <= file[r] PROVE key[u][r] <= file'[r]
  <2>1. key[u][r] \in 0..(MaxWrites + 1) /\ file[r] \in 0..(MaxWrites + 1) /\ file'[r] \in 0..(MaxWrites + 1)
    BY <1>1 DEF Contents
  <2> QED
    BY <1>4, <2>1 DEF Upto
<1> QED
  BY <1>2, <1>3, <1>4 DEF Known, MisledKept

LEMMA UptoSelf == ASSUME NEW f \in Contents PROVE Upto(f, f)
BY BoundsAssumption DEF Contents, Upto

LEMMA KnownStep ==
  ASSUME TypeOK, TypeOK', PlaceInv, CachedInv, KnownInv, WaitInv, [Next]_vars
  PROVE  KnownInv'
<1> USE ThreadsAssumption, BoundsAssumption DEF TypeOK, Threads, disk, locks, store, promise, threads, bounds, vars, Goes, Idle, Release, May, MisledKept
<1>1. ASSUME NEW r \in Records, Write(r) PROVE KnownInv'
  <2>1. UNCHANGED <<pc, key, views, since, misled>>
    BY <1>1 DEF Write
  <2> QED
    BY <1>1, <2>1, WriteFacts, KnownKept DEF KnownInv
<1>2. ASSUME NEW t \in Searchers, Call(t) PROVE KnownInv'
  <2>1. UNCHANGED file /\ \A u \in Searchers : u # t => (UNCHANGED <<pc[u], key[u], views[u], since[u]>> /\ MisledKept(u))
    BY <1>2 DEF Call
  <2>2. Known(t)'
    <3>1. key'[t] = Nothing /\ views'[t] = Nothing /\ pc'[t] \in {"scan", "wait"}
      BY <1>2 DEF Call, KnownInv, Known
    <3>2. Upto(since'[t], file)
      <4>1. CASE scanner = None
        BY <1>2, <4>1, SomeContents, UptoSelf DEF Call
      <4>2. CASE scanner # None
        <5>1. scanner \in Searchers /\ pc[scanner] = "scan" /\ since'[t] = since[scanner]
          BY <1>2, <4>2 DEF Call, PlaceInv
        <5> QED
          BY <5>1 DEF KnownInv, Known
      <4> QED
        BY <4>1, <4>2
    <3>3. \A r \in Records : key'[t][r] = Unread
      BY <3>1 DEF Nothing
    <3> QED
      BY <2>1, <3>1, <3>2, <3>3 DEF Known, Keyed, Viewed
  <2> QED
    BY <2>1, <2>2, SomeContents, UptoSelf, KnownKept DEF KnownInv
<1>3. ASSUME NEW t \in Searchers, Publish(t) PROVE KnownInv'
  <2>1. UNCHANGED file /\ \A u \in Searchers : u # t => (UNCHANGED <<pc[u], key[u], views[u], since[u]>> /\ MisledKept(u))
    BY <1>3 DEF Publish, Keyed
  <2>2. Known(t)'
    <3>1. /\ UNCHANGED <<key, views, since>> /\ pc[t] = "scan" /\ pc'[t] = "views" /\ ReadAll(key[t])
          /\ views[t] = Nothing
      BY <1>3 DEF Publish, KnownInv, Known
    <3>2. Upto(since[t], key[t]) /\ Upto(key[t], file)
      BY <3>1 DEF KnownInv, Known, ReadAll, Upto
    <3> QED
      BY <2>1, <3>1, <3>2 DEF Known, Keyed, Viewed, ReadAll
  <2> QED
    BY <2>1, <2>2, SomeContents, UptoSelf, KnownKept DEF KnownInv
<1>4. ASSUME NEW t \in Searchers, Join(t) PROVE KnownInv'
  <2>1. UNCHANGED file /\ \A u \in Searchers : u # t => (UNCHANGED <<pc[u], key[u], views[u], since[u]>> /\ MisledKept(u))
    BY <1>4 DEF Join
  <2>2. Known(t)'
    <3>1. /\ UNCHANGED <<views, since>> /\ pc[t] = "wait" /\ pc'[t] = "views" /\ key'[t] = result
          /\ views[t] = Nothing /\ scanner = None /\ result # Nothing
      BY <1>4 DEF Join, KnownInv, Known
    <3>2. (t \notin misled => Upto(since[t], result)) /\ ReadAll(result) /\ Upto(result, file) /\ misled' = misled
      BY <1>4, <3>1 DEF WaitInv, CachedInv, Join
    <3> QED
      BY <2>1, <3>1, <3>2 DEF Known, Keyed, Viewed, ReadAll
  <2> QED
    BY <2>1, <2>2, SomeContents, UptoSelf, KnownKept DEF KnownInv
<1>5. ASSUME NEW t \in Searchers, JoinFails(t) PROVE KnownInv'
  <2>1. UNCHANGED file /\ \A u \in Searchers : u # t => (UNCHANGED <<pc[u], key[u], views[u], since[u]>> /\ MisledKept(u))
    BY <1>5 DEF JoinFails
  <2>2. Known(t)'
    BY <1>5, <2>1 DEF JoinFails, KnownInv, Known, Keyed, Viewed
  <2> QED
    BY <2>1, <2>2, SomeContents, UptoSelf, KnownKept DEF KnownInv
<1>6. ASSUME NEW t \in Searchers, GiveUp(t) PROVE KnownInv'
  <2>1. UNCHANGED file /\ \A u \in Searchers : u # t => (UNCHANGED <<pc[u], key[u], views[u], since[u]>> /\ MisledKept(u))
    BY <1>6 DEF GiveUp
  <2>2. Known(t)'
    BY <1>6, <2>1 DEF GiveUp, KnownInv, Known, Keyed, Viewed
  <2> QED
    BY <2>1, <2>2, SomeContents, UptoSelf, KnownKept DEF KnownInv
<1>7. ASSUME NEW t \in Searchers, UseViews(t) PROVE KnownInv'
  <2>1. UNCHANGED file /\ \A u \in Searchers : u # t => (UNCHANGED <<pc[u], key[u], views[u], since[u]>> /\ MisledKept(u))
    BY <1>7 DEF UseViews
  <2>2. Known(t)'
    <3>1. /\ UNCHANGED <<key, since, misled>> /\ pc[t] = "views" /\ pc'[t] = "adapter" /\ views'[t] = viewsCache.views
          /\ viewsCache.key = key[t]
      BY <1>7 DEF UseViews, CachedViews
    <3>2. ReadAll(key[t]) /\ (t \notin misled => Upto(since[t], key[t])) /\ Upto(key[t], file)
      BY <3>1 DEF KnownInv, Known, Keyed
    <3>3. ReadAll(viewsCache.views) /\ Upto(key[t], viewsCache.views)
      <4>1. CASE viewsCache = NoViews
        BY <3>1, <3>2, <4>1 DEF NoViews, Nothing, ReadAll, Upto
      <4>2. CASE viewsCache # NoViews
        BY <3>1, <4>2 DEF CachedInv
      <4> QED
        BY <4>1, <4>2
    <3> QED
      BY <2>1, <3>1, <3>2, <3>3 DEF Known, Keyed, Viewed, ReadAll
  <2> QED
    BY <2>1, <2>2, SomeContents, UptoSelf, KnownKept DEF KnownInv
<1>8. ASSUME NEW t \in Searchers, LoadViews(t) PROVE KnownInv'
  <2>1. UNCHANGED file /\ \A u \in Searchers : u # t => (UNCHANGED <<pc[u], key[u], views[u], since[u]>> /\ MisledKept(u))
    BY <1>8 DEF LoadViews
  <2>2. Known(t)'
    <3>1. /\ UNCHANGED <<key, views, since, misled>> /\ pc[t] = "views" /\ pc'[t] = "load" /\ views[t] = Nothing
      BY <1>8 DEF LoadViews, KnownInv, Known
    <3>2. ReadAll(key[t]) /\ (t \notin misled => Upto(since[t], key[t])) /\ Upto(key[t], file)
      BY <3>1 DEF KnownInv, Known, Keyed
    <3>3. \A r \in Records : views'[t][r] = Unread
      BY <3>1 DEF Nothing
    <3> QED
      BY <2>1, <3>1, <3>2, <3>3 DEF Known, Keyed, Viewed, ReadAll
  <2> QED
    BY <2>1, <2>2, SomeContents, UptoSelf, KnownKept DEF KnownInv
<1>9. ASSUME NEW t \in Searchers, StoreViews(t) PROVE KnownInv'
  <2>1. UNCHANGED file /\ \A u \in Searchers : u # t => (UNCHANGED <<pc[u], key[u], views[u], since[u]>> /\ MisledKept(u))
    BY <1>9 DEF StoreViews
  <2>2. Known(t)'
    <3>1. /\ UNCHANGED <<key, views, since, misled>> /\ pc[t] = "load" /\ pc'[t] = "adapter" /\ ReadAll(views[t])
      BY <1>9 DEF StoreViews
    <3>2. ReadAll(key[t]) /\ (t \notin misled => Upto(since[t], key[t])) /\ Upto(key[t], file)
      BY <3>1 DEF KnownInv, Known, Keyed
    <3>3. Upto(key[t], views[t])
      BY <3>1 DEF KnownInv, Known, ReadAll, Upto
    <3> QED
      BY <2>1, <3>1, <3>2, <3>3 DEF Known, Keyed, Viewed, ReadAll
  <2> QED
    BY <2>1, <2>2, SomeContents, UptoSelf, KnownKept DEF KnownInv
<1>10. ASSUME NEW t \in Searchers, UseAdapter(t) PROVE KnownInv'
  <2>1. UNCHANGED file /\ \A u \in Searchers : u # t => (UNCHANGED <<pc[u], key[u], views[u], since[u]>> /\ MisledKept(u))
    BY <1>10 DEF UseAdapter
  <2>2. Known(t)'
    BY <1>10, <2>1 DEF UseAdapter, KnownInv, Known, Keyed, Viewed
  <2> QED
    BY <2>1, <2>2, SomeContents, UptoSelf, KnownKept DEF KnownInv
<1>11. ASSUME NEW t \in Searchers, LockIndex(t) PROVE KnownInv'
  <2>1. UNCHANGED file /\ \A u \in Searchers : u # t => (UNCHANGED <<pc[u], key[u], views[u], since[u]>> /\ MisledKept(u))
    BY <1>11 DEF LockIndex, TakeIndex
  <2>2. Known(t)'
    BY <1>11, <2>1 DEF LockIndex, TakeIndex, KnownInv, Known, Keyed, Viewed
  <2> QED
    BY <2>1, <2>2, SomeContents, UptoSelf, KnownKept DEF KnownInv
<1>12. ASSUME NEW t \in Searchers, SyncedAlready(t) PROVE KnownInv'
  <2>1. UNCHANGED file /\ \A u \in Searchers : u # t => (UNCHANGED <<pc[u], key[u], views[u], since[u]>> /\ MisledKept(u))
    BY <1>12 DEF SyncedAlready
  <2>2. Known(t)'
    BY <1>12, <2>1 DEF SyncedAlready, KnownInv, Known, Keyed, Viewed
  <2> QED
    BY <2>1, <2>2, SomeContents, UptoSelf, KnownKept DEF KnownInv
<1>13. ASSUME NEW t \in Searchers, CacheAdapter(t) PROVE KnownInv'
  <2>1. UNCHANGED file /\ \A u \in Searchers : u # t => (UNCHANGED <<pc[u], key[u], views[u], since[u]>> /\ MisledKept(u))
    BY <1>13 DEF CacheAdapter
  <2>2. Known(t)'
    BY <1>13, <2>1 DEF CacheAdapter, KnownInv, Known, Keyed, Viewed
  <2> QED
    BY <2>1, <2>2, SomeContents, UptoSelf, KnownKept DEF KnownInv
<1>14. ASSUME NEW t \in Searchers, Rank(t) PROVE KnownInv'
  <2>1. UNCHANGED file /\ \A u \in Searchers : u # t => (UNCHANGED <<pc[u], key[u], views[u], since[u]>> /\ MisledKept(u))
    BY <1>14 DEF Rank
  <2>2. Known(t)'
    BY <1>14, <2>1 DEF Rank, KnownInv, Known, Keyed, Viewed
  <2> QED
    BY <2>1, <2>2, SomeContents, UptoSelf, KnownKept DEF KnownInv
<1>15. ASSUME NEW t \in Searchers, NEW r \in Records, Scan(t, r) PROVE KnownInv'
  <2>1. UNCHANGED file /\ \A u \in Searchers : u # t => (UNCHANGED <<pc[u], key[u], views[u], since[u]>> /\ MisledKept(u))
    BY <1>15 DEF Scan
  <2>2. Known(t)'
    <3>1. /\ UNCHANGED <<pc, views, since>> /\ pc[t] = "scan" /\ key' = [key EXCEPT ![t][r] = file[r]]
          /\ views[t] = Nothing /\ Upto(since[t], file)
      BY <1>15 DEF Scan, KnownInv, Known
    <3>2. key'[t] = [key[t] EXCEPT ![r] = file[r]] /\ key[t] \in Contents
      BY <3>1
    <3>3. \A s \in Records : key'[t][s] = IF s = r THEN file[r] ELSE key[t][s]
      BY <3>2 DEF Contents
    <3>4. since[t][r] <= file[r] /\ file[r] <= file[r]
      BY <3>1 DEF Upto
    <3>5. \A s \in Records : key'[t][s] = Unread \/ (since[t][s] <= key'[t][s] /\ key'[t][s] <= file[s])
      BY <3>1, <3>3, <3>4 DEF KnownInv, Known
    <3> QED
      BY <2>1, <3>1, <3>5 DEF Known, Keyed, Viewed
  <2> QED
    BY <2>1, <2>2, SomeContents, UptoSelf, KnownKept DEF KnownInv
<1>16. ASSUME NEW t \in Searchers, NEW r \in Records, LoadRecord(t, r) PROVE KnownInv'
  <2>1. UNCHANGED file /\ \A u \in Searchers : u # t => (UNCHANGED <<pc[u], key[u], views[u], since[u]>> /\ MisledKept(u))
    BY <1>16 DEF LoadRecord
  <2>2. Known(t)'
    <3>1. /\ UNCHANGED <<pc, key, since, misled>> /\ pc[t] = "load" /\ views' = [views EXCEPT ![t][r] = file[r]]
      BY <1>16 DEF LoadRecord
    <3>2. ReadAll(key[t]) /\ (t \notin misled => Upto(since[t], key[t])) /\ Upto(key[t], file)
      BY <3>1 DEF KnownInv, Known, Keyed
    <3>3. views'[t] = [views[t] EXCEPT ![r] = file[r]] /\ views[t] \in Contents
      BY <3>1
    <3>4. \A s \in Records : views'[t][s] = IF s = r THEN file[r] ELSE views[t][s]
      BY <3>3 DEF Contents
    <3>5. key[t][r] <= file[r]
      BY <3>2 DEF Upto
    <3>6. \A s \in Records : views'[t][s] = Unread \/ key[t][s] <= views'[t][s]
      BY <3>1, <3>4, <3>5 DEF KnownInv, Known
    <3> QED
      BY <2>1, <3>1, <3>2, <3>6 DEF Known, Keyed, Viewed, ReadAll
  <2> QED
    BY <2>1, <2>2, SomeContents, UptoSelf, KnownKept DEF KnownInv
<1>17. ASSUME NEW t \in Threads, SaveVectors(t) PROVE KnownInv'
  <2>1. UNCHANGED file /\ \A u \in Searchers : u # t => (UNCHANGED <<pc[u], key[u], views[u], since[u]>> /\ MisledKept(u))
    BY <1>17 DEF SaveVectors
  <2>2. ASSUME t \in Searchers PROVE Known(t)'
    BY <1>17, <2>1, <2>2 DEF SaveVectors, KnownInv, Known, Keyed, Viewed
  <2> QED
    BY <2>1, <2>2, SomeContents, UptoSelf, KnownKept DEF KnownInv
<1>18. ASSUME NEW t \in Threads, SaveIds(t) PROVE KnownInv'
  <2>1. UNCHANGED file /\ \A u \in Searchers : u # t => (UNCHANGED <<pc[u], key[u], views[u], since[u]>> /\ MisledKept(u))
    BY <1>18 DEF SaveIds
  <2>2. ASSUME t \in Searchers PROVE Known(t)'
    BY <1>18, <2>1, <2>2 DEF SaveIds, KnownInv, Known, Keyed, Viewed
  <2> QED
    BY <2>1, <2>2, SomeContents, UptoSelf, KnownKept DEF KnownInv
<1>19. ASSUME NEW t \in Threads, NEW r \in Records, Upsert(t, r) PROVE KnownInv'
  <2>1. UNCHANGED <<file, pc, key, views, since, misled>>
    BY <1>19 DEF Upsert
  <2> QED
    BY <2>1, SomeContents, UptoSelf, KnownKept DEF KnownInv
<1>20. ASSUME Embed PROVE KnownInv'
  <2>1. \A u \in Searchers : (UNCHANGED <<file, pc[u], key[u], views[u], since[u]>> /\ MisledKept(u))
    BY <1>20 DEF Embed, TakeIndex
  <2> QED
    BY <2>1, SomeContents, UptoSelf, KnownKept DEF KnownInv
<1>21. ASSUME HasIt PROVE KnownInv'
  <2>1. \A u \in Searchers : (UNCHANGED <<file, pc[u], key[u], views[u], since[u]>> /\ MisledKept(u))
    BY <1>21 DEF HasIt
  <2> QED
    BY <2>1, SomeContents, UptoSelf, KnownKept DEF KnownInv
<1>22. ASSUME Embedded PROVE KnownInv'
  <2>1. \A u \in Searchers : (UNCHANGED <<file, pc[u], key[u], views[u], since[u]>> /\ MisledKept(u))
    BY <1>22 DEF Embedded
  <2> QED
    BY <2>1, SomeContents, UptoSelf, KnownKept DEF KnownInv
<1>23. ASSUME ForgetResult PROVE KnownInv'
  <2>1. \A u \in Searchers : (UNCHANGED <<file, pc[u], key[u], views[u], since[u]>> /\ MisledKept(u))
    BY <1>23 DEF ForgetResult
  <2> QED
    BY <2>1, SomeContents, UptoSelf, KnownKept DEF KnownInv
<1>24. ASSUME ForgetViews PROVE KnownInv'
  <2>1. \A u \in Searchers : (UNCHANGED <<file, pc[u], key[u], views[u], since[u]>> /\ MisledKept(u))
    BY <1>24 DEF ForgetViews
  <2> QED
    BY <2>1, SomeContents, UptoSelf, KnownKept DEF KnownInv
<1>25. ASSUME ForgetAdapter PROVE KnownInv'
  <2>1. \A u \in Searchers : (UNCHANGED <<file, pc[u], key[u], views[u], since[u]>> /\ MisledKept(u))
    BY <1>25 DEF ForgetAdapter
  <2> QED
    BY <2>1, SomeContents, UptoSelf, KnownKept DEF KnownInv
<1>26. ASSUME NEW r \in Records, Coalesce(r) PROVE KnownInv'
  <2>1. UNCHANGED <<file, pc, key, views, since, misled>>
    BY <1>26 DEF Coalesce
  <2> QED
    BY <2>1, SomeContents, UptoSelf, KnownKept DEF KnownInv
<1>27. ASSUME NEW r \in Records, Take(r) PROVE KnownInv'
  <2>1. \A u \in Searchers : (UNCHANGED <<file, pc[u], key[u], views[u], since[u]>> /\ MisledKept(u))
    BY <1>27 DEF Take
  <2> QED
    BY <2>1, SomeContents, UptoSelf, KnownKept DEF KnownInv
<1>28. ASSUME Crash PROVE KnownInv'
  <2>1. \A u \in Searchers : pc'[u] = "idle" /\ key'[u] = Nothing /\ views'[u] = Nothing
    BY <1>28 DEF Crash
  <2> QED
    BY <2>1 DEF KnownInv, Known, Keyed, Viewed
<1>29. ASSUME NEW t \in Threads, EmbedFails(t) PROVE KnownInv'
  <2>1. UNCHANGED file /\ \A u \in Searchers : u # t => (UNCHANGED <<pc[u], key[u], views[u], since[u]>> /\ MisledKept(u))
    BY <1>29 DEF EmbedFails
  <2>2. ASSUME t \in Searchers PROVE Known(t)'
    BY <1>29, <2>1, <2>2 DEF EmbedFails, KnownInv, Known, Keyed, Viewed
  <2> QED
    BY <2>1, <2>2, SomeContents, UptoSelf, KnownKept DEF KnownInv
<1>30. ASSUME NEW t \in Threads, SaveFails(t) PROVE KnownInv'
  <2>1. UNCHANGED file /\ \A u \in Searchers : u # t => (UNCHANGED <<pc[u], key[u], views[u], since[u]>> /\ MisledKept(u))
    BY <1>30 DEF SaveFails
  <2>2. ASSUME t \in Searchers PROVE Known(t)'
    BY <1>30, <2>1, <2>2 DEF SaveFails, KnownInv, Known, Keyed, Viewed
  <2> QED
    BY <2>1, <2>2, SomeContents, UptoSelf, KnownKept DEF KnownInv
<1>31. ASSUME NEW t \in Threads, ScanFails(t) PROVE KnownInv'
  <2>1. t \in Searchers /\ UNCHANGED file
    BY <1>31 DEF ScanFails, PlaceInv
  <2>2. ASSUME NEW u \in Searchers, u # t PROVE Known(u)'
    <3>1. UNCHANGED <<pc[u], key[u], views[u], since[u]>> /\ MisledKept(u)
      BY <1>31, <2>2 DEF ScanFails
    <3> QED
      BY <2>1, <3>1, SomeContents, UptoSelf, KnownKept DEF KnownInv
  <2>3. Known(t)'
    <3>1. pc'[t] = "idle" /\ key'[t] = Nothing /\ views'[t] = Nothing
      BY <1>31, <2>1 DEF ScanFails, KnownInv, Known
    <3> QED
      BY <3>1 DEF Known, Keyed, Viewed
  <2> QED
    BY <2>2, <2>3 DEF KnownInv
<1>32. ASSUME UNCHANGED vars PROVE KnownInv'
  BY <1>32, SomeContents, UptoSelf, KnownKept DEF KnownInv
<1> QED
  BY <1>1, <1>2, <1>3, <1>4, <1>5, <1>6, <1>7, <1>8, <1>9, <1>10, <1>11, <1>12, <1>13, <1>14, <1>15, <1>16, <1>17, <1>18, <1>19, <1>20, <1>21, <1>22, <1>23, <1>24, <1>25, <1>26, <1>27, <1>28, <1>29, <1>30, <1>31, <1>32 DEF Next, Search, Sync, Watch, Fault

LEMMA WaitStep ==
  ASSUME TypeOK, TypeOK', PlaceInv, CachedInv, KnownInv, WaitInv, [Next]_vars
  PROVE  WaitInv'
<1> USE ThreadsAssumption, BoundsAssumption DEF TypeOK, Threads, None, disk, locks, store, promise, threads, bounds, vars, Goes, Idle, Release, May
<1>1. ASSUME NEW r \in Records, Write(r) PROVE WaitInv'
  <2>1. /\ UNCHANGED <<scanner, result>>
        /\ \A u \in Searchers : pc'[u] = "wait" \/ pc'[u] = "scan" => pc[u] = pc'[u] /\ since'[u] = since[u]
        /\ \A u \in Searchers : pc'[u] = "wait" /\ u \in misled => u \in misled'
    BY <1>1 DEF Write
  <2>2. scanner # None => scanner \in Searchers /\ since'[scanner] = since[scanner]
    BY <1>1 DEF Write, PlaceInv
  <2> QED
    BY <2>1, <2>2 DEF WaitInv
<1>2. ASSUME NEW t \in Searchers, Call(t) PROVE WaitInv'
  <2>1. UNCHANGED <<file, result>> /\ scanner' # None /\ pc[t] = "idle"
        /\ \A u \in Searchers : u # t => UNCHANGED <<pc[u], since[u]>>
    BY <1>2 DEF Call
  <2>2. CASE scanner = None
    <3>1. scanner' = t /\ since'[t] = file /\ pc'[t] = "scan"
      BY <1>2, <2>2 DEF Call
    <3>2. ASSUME NEW u \in Searchers, pc'[u] = "wait" PROVE Upto(since'[u], since'[t])
      BY <2>1, <3>1, <3>2 DEF KnownInv, Known
    <3> QED
      BY <2>1, <3>1, <3>2 DEF WaitInv
  <2>3. CASE scanner # None
    <3>1. scanner' = scanner /\ scanner \in Searchers /\ scanner # t /\ since'[t] = since[scanner]
      BY <1>2, <2>1, <2>3 DEF Call, PlaceInv
    <3>2. Upto(since[scanner], since[scanner])
      BY <3>1, UptoSelf
    <3> QED
      BY <2>1, <2>3, <3>1, <3>2 DEF WaitInv
  <2> QED
    BY <2>2, <2>3
<1>3. ASSUME NEW t \in Searchers, Publish(t) PROVE WaitInv'
  <2>1. /\ scanner = t /\ scanner' = None /\ result' = key[t] /\ UNCHANGED since
        /\ ReadAll(key[t]) /\ \A u \in Searchers : pc'[u] = "wait" => pc[u] = "wait"
    BY <1>3 DEF Publish, PlaceInv
  <2>2. Upto(since[t], key[t])
    BY <1>3, <2>1 DEF Publish, KnownInv, Known, ReadAll, Upto
  <2>3. ASSUME NEW u \in Searchers, pc'[u] = "wait" PROVE Upto(since'[u], key[t])
    <3>1. Upto(since[u], since[t])
      BY <2>1, <2>3 DEF WaitInv
    <3>2. since[u] \in Contents /\ since[t] \in Contents /\ key[t] \in Contents
      OBVIOUS
    <3> QED
      BY <2>1, <2>2, <3>1, <3>2, UptoTransitive
  <2> QED
    BY <2>1, <2>3 DEF WaitInv
<1>4. ASSUME NEW t \in Searchers, Join(t) PROVE WaitInv'
  <2>1. /\ UNCHANGED <<scanner, result>>
        /\ \A u \in Searchers : pc'[u] = "wait" \/ pc'[u] = "scan" => pc[u] = pc'[u] /\ since'[u] = since[u]
        /\ \A u \in Searchers : pc'[u] = "wait" /\ u \in misled => u \in misled'
    BY <1>4 DEF Join
  <2>2. scanner # None => scanner \in Searchers /\ since'[scanner] = since[scanner]
    BY <1>4 DEF Join, PlaceInv
  <2> QED
    BY <2>1, <2>2 DEF WaitInv
<1>5. ASSUME NEW t \in Searchers, JoinFails(t) PROVE WaitInv'
  <2>1. /\ UNCHANGED <<scanner, result>>
        /\ \A u \in Searchers : pc'[u] = "wait" \/ pc'[u] = "scan" => pc[u] = pc'[u] /\ since'[u] = since[u]
        /\ \A u \in Searchers : pc'[u] = "wait" /\ u \in misled => u \in misled'
    BY <1>5 DEF JoinFails
  <2>2. scanner # None => scanner \in Searchers /\ since'[scanner] = since[scanner]
    BY <1>5 DEF JoinFails, PlaceInv
  <2> QED
    BY <2>1, <2>2 DEF WaitInv
<1>6. ASSUME NEW t \in Searchers, GiveUp(t) PROVE WaitInv'
  <2>1. /\ UNCHANGED <<scanner, result>>
        /\ \A u \in Searchers : pc'[u] = "wait" \/ pc'[u] = "scan" => pc[u] = pc'[u] /\ since'[u] = since[u]
        /\ \A u \in Searchers : pc'[u] = "wait" /\ u \in misled => u \in misled'
    BY <1>6 DEF GiveUp
  <2>2. scanner # None => scanner \in Searchers /\ since'[scanner] = since[scanner]
    BY <1>6 DEF GiveUp, PlaceInv
  <2> QED
    BY <2>1, <2>2 DEF WaitInv
<1>7. ASSUME NEW t \in Searchers, UseViews(t) PROVE WaitInv'
  <2>1. /\ UNCHANGED <<scanner, result>>
        /\ \A u \in Searchers : pc'[u] = "wait" \/ pc'[u] = "scan" => pc[u] = pc'[u] /\ since'[u] = since[u]
        /\ \A u \in Searchers : pc'[u] = "wait" /\ u \in misled => u \in misled'
    BY <1>7 DEF UseViews
  <2>2. scanner # None => scanner \in Searchers /\ since'[scanner] = since[scanner]
    BY <1>7 DEF UseViews, PlaceInv
  <2> QED
    BY <2>1, <2>2 DEF WaitInv
<1>8. ASSUME NEW t \in Searchers, LoadViews(t) PROVE WaitInv'
  <2>1. /\ UNCHANGED <<scanner, result>>
        /\ \A u \in Searchers : pc'[u] = "wait" \/ pc'[u] = "scan" => pc[u] = pc'[u] /\ since'[u] = since[u]
        /\ \A u \in Searchers : pc'[u] = "wait" /\ u \in misled => u \in misled'
    BY <1>8 DEF LoadViews
  <2>2. scanner # None => scanner \in Searchers /\ since'[scanner] = since[scanner]
    BY <1>8 DEF LoadViews, PlaceInv
  <2> QED
    BY <2>1, <2>2 DEF WaitInv
<1>9. ASSUME NEW t \in Searchers, StoreViews(t) PROVE WaitInv'
  <2>1. /\ UNCHANGED <<scanner, result>>
        /\ \A u \in Searchers : pc'[u] = "wait" \/ pc'[u] = "scan" => pc[u] = pc'[u] /\ since'[u] = since[u]
        /\ \A u \in Searchers : pc'[u] = "wait" /\ u \in misled => u \in misled'
    BY <1>9 DEF StoreViews
  <2>2. scanner # None => scanner \in Searchers /\ since'[scanner] = since[scanner]
    BY <1>9 DEF StoreViews, PlaceInv
  <2> QED
    BY <2>1, <2>2 DEF WaitInv
<1>10. ASSUME NEW t \in Searchers, UseAdapter(t) PROVE WaitInv'
  <2>1. /\ UNCHANGED <<scanner, result>>
        /\ \A u \in Searchers : pc'[u] = "wait" \/ pc'[u] = "scan" => pc[u] = pc'[u] /\ since'[u] = since[u]
        /\ \A u \in Searchers : pc'[u] = "wait" /\ u \in misled => u \in misled'
    BY <1>10 DEF UseAdapter
  <2>2. scanner # None => scanner \in Searchers /\ since'[scanner] = since[scanner]
    BY <1>10 DEF UseAdapter, PlaceInv
  <2> QED
    BY <2>1, <2>2 DEF WaitInv
<1>11. ASSUME NEW t \in Searchers, LockIndex(t) PROVE WaitInv'
  <2>1. /\ UNCHANGED <<scanner, result>>
        /\ \A u \in Searchers : pc'[u] = "wait" \/ pc'[u] = "scan" => pc[u] = pc'[u] /\ since'[u] = since[u]
        /\ \A u \in Searchers : pc'[u] = "wait" /\ u \in misled => u \in misled'
    BY <1>11 DEF LockIndex, TakeIndex
  <2>2. scanner # None => scanner \in Searchers /\ since'[scanner] = since[scanner]
    BY <1>11 DEF LockIndex, TakeIndex, PlaceInv
  <2> QED
    BY <2>1, <2>2 DEF WaitInv
<1>12. ASSUME NEW t \in Searchers, SyncedAlready(t) PROVE WaitInv'
  <2>1. /\ UNCHANGED <<scanner, result>>
        /\ \A u \in Searchers : pc'[u] = "wait" \/ pc'[u] = "scan" => pc[u] = pc'[u] /\ since'[u] = since[u]
        /\ \A u \in Searchers : pc'[u] = "wait" /\ u \in misled => u \in misled'
    BY <1>12 DEF SyncedAlready
  <2>2. scanner # None => scanner \in Searchers /\ since'[scanner] = since[scanner]
    BY <1>12 DEF SyncedAlready, PlaceInv
  <2> QED
    BY <2>1, <2>2 DEF WaitInv
<1>13. ASSUME NEW t \in Searchers, CacheAdapter(t) PROVE WaitInv'
  <2>1. /\ UNCHANGED <<scanner, result>>
        /\ \A u \in Searchers : pc'[u] = "wait" \/ pc'[u] = "scan" => pc[u] = pc'[u] /\ since'[u] = since[u]
        /\ \A u \in Searchers : pc'[u] = "wait" /\ u \in misled => u \in misled'
    BY <1>13 DEF CacheAdapter
  <2>2. scanner # None => scanner \in Searchers /\ since'[scanner] = since[scanner]
    BY <1>13 DEF CacheAdapter, PlaceInv
  <2> QED
    BY <2>1, <2>2 DEF WaitInv
<1>14. ASSUME NEW t \in Searchers, Rank(t) PROVE WaitInv'
  <2>1. /\ UNCHANGED <<scanner, result>>
        /\ \A u \in Searchers : pc'[u] = "wait" \/ pc'[u] = "scan" => pc[u] = pc'[u] /\ since'[u] = since[u]
        /\ \A u \in Searchers : pc'[u] = "wait" /\ u \in misled => u \in misled'
    BY <1>14 DEF Rank
  <2>2. scanner # None => scanner \in Searchers /\ since'[scanner] = since[scanner]
    BY <1>14 DEF Rank, PlaceInv
  <2> QED
    BY <2>1, <2>2 DEF WaitInv
<1>15. ASSUME NEW t \in Searchers, NEW r \in Records, Scan(t, r) PROVE WaitInv'
  <2>1. /\ UNCHANGED <<scanner, result>>
        /\ \A u \in Searchers : pc'[u] = "wait" \/ pc'[u] = "scan" => pc[u] = pc'[u] /\ since'[u] = since[u]
        /\ \A u \in Searchers : pc'[u] = "wait" /\ u \in misled => u \in misled'
    BY <1>15 DEF Scan
  <2>2. scanner # None => scanner \in Searchers /\ since'[scanner] = since[scanner]
    BY <1>15 DEF Scan, PlaceInv
  <2> QED
    BY <2>1, <2>2 DEF WaitInv
<1>16. ASSUME NEW t \in Searchers, NEW r \in Records, LoadRecord(t, r) PROVE WaitInv'
  <2>1. /\ UNCHANGED <<scanner, result>>
        /\ \A u \in Searchers : pc'[u] = "wait" \/ pc'[u] = "scan" => pc[u] = pc'[u] /\ since'[u] = since[u]
        /\ \A u \in Searchers : pc'[u] = "wait" /\ u \in misled => u \in misled'
    BY <1>16 DEF LoadRecord
  <2>2. scanner # None => scanner \in Searchers /\ since'[scanner] = since[scanner]
    BY <1>16 DEF LoadRecord, PlaceInv
  <2> QED
    BY <2>1, <2>2 DEF WaitInv
<1>17. ASSUME NEW t \in Threads, SaveVectors(t) PROVE WaitInv'
  <2>1. /\ UNCHANGED <<scanner, result>>
        /\ \A u \in Searchers : pc'[u] = "wait" \/ pc'[u] = "scan" => pc[u] = pc'[u] /\ since'[u] = since[u]
        /\ \A u \in Searchers : pc'[u] = "wait" /\ u \in misled => u \in misled'
    BY <1>17 DEF SaveVectors
  <2>2. scanner # None => scanner \in Searchers /\ since'[scanner] = since[scanner]
    BY <1>17 DEF SaveVectors, PlaceInv
  <2> QED
    BY <2>1, <2>2 DEF WaitInv
<1>18. ASSUME NEW t \in Threads, SaveIds(t) PROVE WaitInv'
  <2>1. /\ UNCHANGED <<scanner, result>>
        /\ \A u \in Searchers : pc'[u] = "wait" \/ pc'[u] = "scan" => pc[u] = pc'[u] /\ since'[u] = since[u]
        /\ \A u \in Searchers : pc'[u] = "wait" /\ u \in misled => u \in misled'
    BY <1>18 DEF SaveIds
  <2>2. scanner # None => scanner \in Searchers /\ since'[scanner] = since[scanner]
    BY <1>18 DEF SaveIds, PlaceInv
  <2> QED
    BY <2>1, <2>2 DEF WaitInv
<1>19. ASSUME NEW t \in Threads, NEW r \in Records, Upsert(t, r) PROVE WaitInv'
  <2>1. /\ UNCHANGED <<scanner, result>>
        /\ \A u \in Searchers : pc'[u] = "wait" \/ pc'[u] = "scan" => pc[u] = pc'[u] /\ since'[u] = since[u]
        /\ \A u \in Searchers : pc'[u] = "wait" /\ u \in misled => u \in misled'
    BY <1>19 DEF Upsert
  <2>2. scanner # None => scanner \in Searchers /\ since'[scanner] = since[scanner]
    BY <1>19 DEF Upsert, PlaceInv
  <2> QED
    BY <2>1, <2>2 DEF WaitInv
<1>20. ASSUME Embed PROVE WaitInv'
  <2>1. /\ UNCHANGED <<scanner, result>>
        /\ \A u \in Searchers : pc'[u] = "wait" \/ pc'[u] = "scan" => pc[u] = pc'[u] /\ since'[u] = since[u]
        /\ \A u \in Searchers : pc'[u] = "wait" /\ u \in misled => u \in misled'
    BY <1>20 DEF Embed, TakeIndex
  <2>2. scanner # None => scanner \in Searchers /\ since'[scanner] = since[scanner]
    BY <1>20 DEF Embed, TakeIndex, PlaceInv
  <2> QED
    BY <2>1, <2>2 DEF WaitInv
<1>21. ASSUME HasIt PROVE WaitInv'
  <2>1. /\ UNCHANGED <<scanner, result>>
        /\ \A u \in Searchers : pc'[u] = "wait" \/ pc'[u] = "scan" => pc[u] = pc'[u] /\ since'[u] = since[u]
        /\ \A u \in Searchers : pc'[u] = "wait" /\ u \in misled => u \in misled'
    BY <1>21 DEF HasIt
  <2>2. scanner # None => scanner \in Searchers /\ since'[scanner] = since[scanner]
    BY <1>21 DEF HasIt, PlaceInv
  <2> QED
    BY <2>1, <2>2 DEF WaitInv
<1>22. ASSUME Embedded PROVE WaitInv'
  <2>1. /\ UNCHANGED <<scanner, result>>
        /\ \A u \in Searchers : pc'[u] = "wait" \/ pc'[u] = "scan" => pc[u] = pc'[u] /\ since'[u] = since[u]
        /\ \A u \in Searchers : pc'[u] = "wait" /\ u \in misled => u \in misled'
    BY <1>22 DEF Embedded
  <2>2. scanner # None => scanner \in Searchers /\ since'[scanner] = since[scanner]
    BY <1>22 DEF Embedded, PlaceInv
  <2> QED
    BY <2>1, <2>2 DEF WaitInv
<1>23. ASSUME ForgetResult PROVE WaitInv'
  <2>1. result' = Nothing /\ UNCHANGED <<scanner, since>> /\ \A u \in Searchers : pc'[u] = pc[u]
    BY <1>23 DEF ForgetResult
  <2> QED
    BY <2>1 DEF WaitInv
<1>24. ASSUME ForgetViews PROVE WaitInv'
  <2>1. /\ UNCHANGED <<scanner, result>>
        /\ \A u \in Searchers : pc'[u] = "wait" \/ pc'[u] = "scan" => pc[u] = pc'[u] /\ since'[u] = since[u]
        /\ \A u \in Searchers : pc'[u] = "wait" /\ u \in misled => u \in misled'
    BY <1>24 DEF ForgetViews
  <2>2. scanner # None => scanner \in Searchers /\ since'[scanner] = since[scanner]
    BY <1>24 DEF ForgetViews, PlaceInv
  <2> QED
    BY <2>1, <2>2 DEF WaitInv
<1>25. ASSUME ForgetAdapter PROVE WaitInv'
  <2>1. /\ UNCHANGED <<scanner, result>>
        /\ \A u \in Searchers : pc'[u] = "wait" \/ pc'[u] = "scan" => pc[u] = pc'[u] /\ since'[u] = since[u]
        /\ \A u \in Searchers : pc'[u] = "wait" /\ u \in misled => u \in misled'
    BY <1>25 DEF ForgetAdapter
  <2>2. scanner # None => scanner \in Searchers /\ since'[scanner] = since[scanner]
    BY <1>25 DEF ForgetAdapter, PlaceInv
  <2> QED
    BY <2>1, <2>2 DEF WaitInv
<1>26. ASSUME NEW r \in Records, Coalesce(r) PROVE WaitInv'
  <2>1. /\ UNCHANGED <<scanner, result>>
        /\ \A u \in Searchers : pc'[u] = "wait" \/ pc'[u] = "scan" => pc[u] = pc'[u] /\ since'[u] = since[u]
        /\ \A u \in Searchers : pc'[u] = "wait" /\ u \in misled => u \in misled'
    BY <1>26 DEF Coalesce
  <2>2. scanner # None => scanner \in Searchers /\ since'[scanner] = since[scanner]
    BY <1>26 DEF Coalesce, PlaceInv
  <2> QED
    BY <2>1, <2>2 DEF WaitInv
<1>27. ASSUME NEW r \in Records, Take(r) PROVE WaitInv'
  <2>1. /\ UNCHANGED <<scanner, result>>
        /\ \A u \in Searchers : pc'[u] = "wait" \/ pc'[u] = "scan" => pc[u] = pc'[u] /\ since'[u] = since[u]
        /\ \A u \in Searchers : pc'[u] = "wait" /\ u \in misled => u \in misled'
    BY <1>27 DEF Take
  <2>2. scanner # None => scanner \in Searchers /\ since'[scanner] = since[scanner]
    BY <1>27 DEF Take, PlaceInv
  <2> QED
    BY <2>1, <2>2 DEF WaitInv
<1>28. ASSUME Crash PROVE WaitInv'
  <2>1. \A u \in Searchers : pc'[u] = "idle"
    BY <1>28 DEF Crash
  <2> QED
    BY <2>1 DEF WaitInv
<1>29. ASSUME NEW t \in Threads, EmbedFails(t) PROVE WaitInv'
  <2>1. /\ UNCHANGED <<scanner, result>>
        /\ \A u \in Searchers : pc'[u] = "wait" \/ pc'[u] = "scan" => pc[u] = pc'[u] /\ since'[u] = since[u]
        /\ \A u \in Searchers : pc'[u] = "wait" /\ u \in misled => u \in misled'
    BY <1>29 DEF EmbedFails
  <2>2. scanner # None => scanner \in Searchers /\ since'[scanner] = since[scanner]
    BY <1>29 DEF EmbedFails, PlaceInv
  <2> QED
    BY <2>1, <2>2 DEF WaitInv
<1>30. ASSUME NEW t \in Threads, SaveFails(t) PROVE WaitInv'
  <2>1. /\ UNCHANGED <<scanner, result>>
        /\ \A u \in Searchers : pc'[u] = "wait" \/ pc'[u] = "scan" => pc[u] = pc'[u] /\ since'[u] = since[u]
        /\ \A u \in Searchers : pc'[u] = "wait" /\ u \in misled => u \in misled'
    BY <1>30 DEF SaveFails
  <2>2. scanner # None => scanner \in Searchers /\ since'[scanner] = since[scanner]
    BY <1>30 DEF SaveFails, PlaceInv
  <2> QED
    BY <2>1, <2>2 DEF WaitInv
<1>31. ASSUME NEW t \in Threads, ScanFails(t) PROVE WaitInv'
  <2>1. scanner' = None /\ \A u \in Searchers : pc'[u] = "wait" => u \in misled'
    BY <1>31 DEF ScanFails
  <2> QED
    BY <2>1 DEF WaitInv
<1>32. ASSUME UNCHANGED vars PROVE WaitInv'
  BY <1>32 DEF WaitInv
<1> QED
  BY <1>1, <1>2, <1>3, <1>4, <1>5, <1>6, <1>7, <1>8, <1>9, <1>10, <1>11, <1>12, <1>13, <1>14, <1>15, <1>16, <1>17, <1>18, <1>19, <1>20, <1>21, <1>22, <1>23, <1>24, <1>25, <1>26, <1>27, <1>28, <1>29, <1>30, <1>31, <1>32 DEF Next, Search, Sync, Watch, Fault

LEMMA UpsertFacts ==
  ASSUME TypeOK, Distinct(index), NEW t \in Threads, NEW r \in Records, Upsert(t, r)
  PROVE  /\ Distinct(index') /\ (Sound(index) => Sound(index'))
         /\ HashIn(index', r) = views[t][r]
         /\ \A s \in Records \ {r} : HashIn(index', s) = HashIn(index, s)
<1> DEFINE n == views[t][r]
           row == [id |-> r, vec |-> <<r, n>>, hash |-> n]
<1>1. n \in 1..MaxWrites /\ row \in Rows /\ index' = Put(index, r, row)
  BY UpsertPuts
<1>2. row = [id |-> r, vec |-> <<r, n>>, hash |-> n] /\ index \in Seq(Rows)
  BY DEF TypeOK
<1> HIDE DEF row, n
<1>3. LET new == Put(index, r, row)
      IN /\ Distinct(new) /\ (Sound(index) => Sound(new))
         /\ HashIn(new, r) = n
         /\ \A s \in Records \ {r} : HashIn(new, s) = HashIn(index, s)
  BY <1>1, <1>2, PutFacts
<1> QED
  BY <1>1, <1>3 DEF n

\* A thread has synced as long as neither its views nor the index change.
LEMMA SyncedKept ==
  ASSUME NEW u \in Threads, Synced(u), index' = index, views'[u] = views[u]
  PROVE  Synced(u)'
BY DEF Synced, Differs, HashOf, Indexed, Position

LEMMA IndexStep ==
  ASSUME TypeOK, TypeOK', PlaceInv, IndexInv, [Next]_vars
  PROVE  IndexInv'
<1> USE ThreadsAssumption, BoundsAssumption DEF TypeOK, Threads, disk, locks, store, promise, threads, bounds, vars, Goes, Idle, Release, May
<1>1. ASSUME NEW r \in Records, Write(r) PROVE IndexInv'
  <2>1. /\ UNCHANGED <<index, vectorFile, idsFile>>
        /\ \A u \in Threads : pc'[u] \in {"ids", "synced"} => pc[u] = pc'[u] /\ views'[u] = views[u]
    BY <1>1 DEF Write
  <2> QED
    BY <2>1, SyncedKept DEF IndexInv
<1>2. ASSUME NEW t \in Searchers, Call(t) PROVE IndexInv'
  <2>1. /\ UNCHANGED <<index, vectorFile, idsFile>>
        /\ \A u \in Threads : pc'[u] \in {"ids", "synced"} => pc[u] = pc'[u] /\ views'[u] = views[u]
    BY <1>2 DEF Call
  <2> QED
    BY <2>1, SyncedKept DEF IndexInv
<1>3. ASSUME NEW t \in Searchers, Publish(t) PROVE IndexInv'
  <2>1. /\ UNCHANGED <<index, vectorFile, idsFile>>
        /\ \A u \in Threads : pc'[u] \in {"ids", "synced"} => pc[u] = pc'[u] /\ views'[u] = views[u]
    BY <1>3 DEF Publish
  <2> QED
    BY <2>1, SyncedKept DEF IndexInv
<1>4. ASSUME NEW t \in Searchers, Join(t) PROVE IndexInv'
  <2>1. /\ UNCHANGED <<index, vectorFile, idsFile>>
        /\ \A u \in Threads : pc'[u] \in {"ids", "synced"} => pc[u] = pc'[u] /\ views'[u] = views[u]
    BY <1>4 DEF Join
  <2> QED
    BY <2>1, SyncedKept DEF IndexInv
<1>5. ASSUME NEW t \in Searchers, JoinFails(t) PROVE IndexInv'
  <2>1. /\ UNCHANGED <<index, vectorFile, idsFile>>
        /\ \A u \in Threads : pc'[u] \in {"ids", "synced"} => pc[u] = pc'[u] /\ views'[u] = views[u]
    BY <1>5 DEF JoinFails
  <2> QED
    BY <2>1, SyncedKept DEF IndexInv
<1>6. ASSUME NEW t \in Searchers, GiveUp(t) PROVE IndexInv'
  <2>1. /\ UNCHANGED <<index, vectorFile, idsFile>>
        /\ \A u \in Threads : pc'[u] \in {"ids", "synced"} => pc[u] = pc'[u] /\ views'[u] = views[u]
    BY <1>6 DEF GiveUp
  <2> QED
    BY <2>1, SyncedKept DEF IndexInv
<1>7. ASSUME NEW t \in Searchers, UseViews(t) PROVE IndexInv'
  <2>1. /\ UNCHANGED <<index, vectorFile, idsFile>>
        /\ \A u \in Threads : pc'[u] \in {"ids", "synced"} => pc[u] = pc'[u] /\ views'[u] = views[u]
    BY <1>7 DEF UseViews
  <2> QED
    BY <2>1, SyncedKept DEF IndexInv
<1>8. ASSUME NEW t \in Searchers, LoadViews(t) PROVE IndexInv'
  <2>1. /\ UNCHANGED <<index, vectorFile, idsFile>>
        /\ \A u \in Threads : pc'[u] \in {"ids", "synced"} => pc[u] = pc'[u] /\ views'[u] = views[u]
    BY <1>8 DEF LoadViews
  <2> QED
    BY <2>1, SyncedKept DEF IndexInv
<1>9. ASSUME NEW t \in Searchers, StoreViews(t) PROVE IndexInv'
  <2>1. /\ UNCHANGED <<index, vectorFile, idsFile>>
        /\ \A u \in Threads : pc'[u] \in {"ids", "synced"} => pc[u] = pc'[u] /\ views'[u] = views[u]
    BY <1>9 DEF StoreViews
  <2> QED
    BY <2>1, SyncedKept DEF IndexInv
<1>10. ASSUME NEW t \in Searchers, UseAdapter(t) PROVE IndexInv'
  <2>1. /\ UNCHANGED <<index, vectorFile, idsFile>>
        /\ \A u \in Threads : pc'[u] \in {"ids", "synced"} => pc[u] = pc'[u] /\ views'[u] = views[u]
    BY <1>10 DEF UseAdapter
  <2> QED
    BY <2>1, SyncedKept DEF IndexInv
<1>11. ASSUME NEW t \in Searchers, LockIndex(t) PROVE IndexInv'
  <2>1. /\ indexLock = None /\ UNCHANGED <<vectorFile, idsFile>>
        /\ \A u \in Threads : pc'[u] \in {"ids", "synced"} => pc[u] \in {"ids", "synced"}
        /\ index' = IF current THEN index ELSE Loaded
    BY <1>11 DEF LockIndex, TakeIndex
  <2>2. \A u \in Threads : pc'[u] \notin {"ids", "synced"}
    BY <2>1, ThreadsAssumption DEF PlaceInv, None
  <2>3. Distinct(Loaded)
    BY LoadedFacts DEF IndexInv, Distinct
  <2>4. Distinct(index')
    BY <2>1, <2>3 DEF IndexInv
  <2> QED
    BY <2>1, <2>2, <2>4 DEF IndexInv
<1>12. ASSUME NEW t \in Searchers, SyncedAlready(t) PROVE IndexInv'
  <2>1. /\ UNCHANGED <<index, vectorFile, idsFile, views>> /\ Synced(t)
        /\ \A u \in Threads : u # t => pc'[u] = pc[u]
        /\ pc'[t] = "synced"
    BY <1>12 DEF SyncedAlready
  <2> QED
    BY <2>1, SyncedKept DEF IndexInv
<1>13. ASSUME NEW t \in Searchers, CacheAdapter(t) PROVE IndexInv'
  <2>1. /\ UNCHANGED <<index, vectorFile, idsFile>>
        /\ \A u \in Threads : pc'[u] \in {"ids", "synced"} => pc[u] = pc'[u] /\ views'[u] = views[u]
    BY <1>13 DEF CacheAdapter
  <2> QED
    BY <2>1, SyncedKept DEF IndexInv
<1>14. ASSUME NEW t \in Searchers, Rank(t) PROVE IndexInv'
  <2>1. /\ UNCHANGED <<index, vectorFile, idsFile>>
        /\ \A u \in Threads : pc'[u] \in {"ids", "synced"} => pc[u] = pc'[u] /\ views'[u] = views[u]
    BY <1>14 DEF Rank
  <2> QED
    BY <2>1, SyncedKept DEF IndexInv
<1>15. ASSUME NEW t \in Searchers, NEW r \in Records, Scan(t, r) PROVE IndexInv'
  <2>1. /\ UNCHANGED <<index, vectorFile, idsFile>>
        /\ \A u \in Threads : pc'[u] \in {"ids", "synced"} => pc[u] = pc'[u] /\ views'[u] = views[u]
    BY <1>15 DEF Scan
  <2> QED
    BY <2>1, SyncedKept DEF IndexInv
<1>16. ASSUME NEW t \in Searchers, NEW r \in Records, LoadRecord(t, r) PROVE IndexInv'
  <2>1. /\ UNCHANGED <<index, vectorFile, idsFile>>
        /\ \A u \in Threads : pc'[u] \in {"ids", "synced"} => pc[u] = pc'[u] /\ views'[u] = views[u]
    BY <1>16 DEF LoadRecord
  <2> QED
    BY <2>1, SyncedKept DEF IndexInv
<1>17. ASSUME NEW t \in Threads, SaveVectors(t) PROVE IndexInv'
  <2>1. /\ UNCHANGED <<index, idsFile, views>> /\ Synced(t) /\ pc[t] = "sync"
        /\ \A u \in Threads : u # t => pc'[u] = pc[u]
        /\ vectorFile' = [i \in DOMAIN index |-> index[i].vec]
    BY <1>17 DEF SaveVectors
  <2>2. \A u \in Threads : u # t => pc'[u] \notin {"ids", "synced"}
    BY <2>1 DEF PlaceInv
  <2> QED
    BY <2>1, <2>2, SyncedKept DEF IndexInv
<1>18. ASSUME NEW t \in Threads, SaveIds(t) PROVE IndexInv'
  <2>1. /\ UNCHANGED <<index, views>> /\ pc[t] = "ids" /\ pc'[t] = "synced"
        /\ \A u \in Threads : u # t => pc'[u] = pc[u]
        /\ idsFile' = [i \in DOMAIN index |-> [id |-> index[i].id, hash |-> index[i].hash]]
    BY <1>18 DEF SaveIds
  <2>2. \A u \in Threads : u # t => pc'[u] \notin {"ids", "synced"}
    BY <2>1 DEF PlaceInv
  <2>3. Distinct(idsFile')
    BY <2>1 DEF IndexInv, Distinct
  <2> QED
    BY <2>1, <2>2, <2>3, SyncedKept DEF IndexInv
<1>19. ASSUME NEW t \in Threads, NEW r \in Records, Upsert(t, r) PROVE IndexInv'
  <2>1. /\ pc[t] = "sync" /\ UNCHANGED <<vectorFile, idsFile, pc>>
    BY <1>19 DEF Upsert
  <2>2. \A u \in Threads : pc'[u] \notin {"ids", "synced"}
    BY <2>1 DEF PlaceInv
  <2>3. Distinct(index')
    BY <1>19, UpsertFacts DEF IndexInv
  <2> QED
    BY <2>1, <2>2, <2>3 DEF IndexInv
<1>20. ASSUME Embed PROVE IndexInv'
  <2>1. /\ indexLock = None /\ UNCHANGED <<vectorFile, idsFile>>
        /\ \A u \in Threads : pc'[u] \in {"ids", "synced"} => pc[u] \in {"ids", "synced"}
        /\ index' = IF current THEN index ELSE Loaded
    BY <1>20 DEF Embed, TakeIndex
  <2>2. \A u \in Threads : pc'[u] \notin {"ids", "synced"}
    BY <2>1, ThreadsAssumption DEF PlaceInv, None
  <2>3. Distinct(Loaded)
    BY LoadedFacts DEF IndexInv, Distinct
  <2>4. Distinct(index')
    BY <2>1, <2>3 DEF IndexInv
  <2> QED
    BY <2>1, <2>2, <2>4 DEF IndexInv
<1>21. ASSUME HasIt PROVE IndexInv'
  <2>1. /\ UNCHANGED <<index, vectorFile, idsFile>>
        /\ \A u \in Threads : pc'[u] \in {"ids", "synced"} => pc[u] = pc'[u] /\ views'[u] = views[u]
    BY <1>21 DEF HasIt
  <2> QED
    BY <2>1, SyncedKept DEF IndexInv
<1>22. ASSUME Embedded PROVE IndexInv'
  <2>1. /\ UNCHANGED <<index, vectorFile, idsFile>>
        /\ \A u \in Threads : pc'[u] \in {"ids", "synced"} => pc[u] = pc'[u] /\ views'[u] = views[u]
    BY <1>22 DEF Embedded
  <2> QED
    BY <2>1, SyncedKept DEF IndexInv
<1>23. ASSUME ForgetResult PROVE IndexInv'
  <2>1. /\ UNCHANGED <<index, vectorFile, idsFile>>
        /\ \A u \in Threads : pc'[u] \in {"ids", "synced"} => pc[u] = pc'[u] /\ views'[u] = views[u]
    BY <1>23 DEF ForgetResult
  <2> QED
    BY <2>1, SyncedKept DEF IndexInv
<1>24. ASSUME ForgetViews PROVE IndexInv'
  <2>1. /\ UNCHANGED <<index, vectorFile, idsFile>>
        /\ \A u \in Threads : pc'[u] \in {"ids", "synced"} => pc[u] = pc'[u] /\ views'[u] = views[u]
    BY <1>24 DEF ForgetViews
  <2> QED
    BY <2>1, SyncedKept DEF IndexInv
<1>25. ASSUME ForgetAdapter PROVE IndexInv'
  <2>1. /\ UNCHANGED <<index, vectorFile, idsFile>>
        /\ \A u \in Threads : pc'[u] \in {"ids", "synced"} => pc[u] = pc'[u] /\ views'[u] = views[u]
    BY <1>25 DEF ForgetAdapter
  <2> QED
    BY <2>1, SyncedKept DEF IndexInv
<1>26. ASSUME NEW r \in Records, Coalesce(r) PROVE IndexInv'
  <2>1. /\ UNCHANGED <<index, vectorFile, idsFile>>
        /\ \A u \in Threads : pc'[u] \in {"ids", "synced"} => pc[u] = pc'[u] /\ views'[u] = views[u]
    BY <1>26 DEF Coalesce
  <2> QED
    BY <2>1, SyncedKept DEF IndexInv
<1>27. ASSUME NEW r \in Records, Take(r) PROVE IndexInv'
  <2>1. /\ UNCHANGED <<index, vectorFile, idsFile>>
        /\ \A u \in Threads : pc'[u] \in {"ids", "synced"} => pc[u] = pc'[u] /\ views'[u] = views[u]
    BY <1>27 DEF Take
  <2> QED
    BY <2>1, SyncedKept DEF IndexInv
<1>28. ASSUME Crash PROVE IndexInv'
  <2>1. /\ index' = <<>> /\ UNCHANGED <<vectorFile, idsFile>>
        /\ \A u \in Threads : pc'[u] = "idle"
    BY <1>28 DEF Crash
  <2>2. Distinct(<<>>)
    BY DEF Distinct
  <2> QED
    BY <2>1, <2>2 DEF IndexInv
<1>29. ASSUME NEW t \in Threads, EmbedFails(t) PROVE IndexInv'
  <2>1. /\ UNCHANGED <<index, vectorFile, idsFile>>
        /\ \A u \in Threads : pc'[u] \in {"ids", "synced"} => pc[u] = pc'[u] /\ views'[u] = views[u]
    BY <1>29 DEF EmbedFails
  <2> QED
    BY <2>1, SyncedKept DEF IndexInv
<1>30. ASSUME NEW t \in Threads, SaveFails(t) PROVE IndexInv'
  <2>1. /\ UNCHANGED <<index, vectorFile, idsFile>>
        /\ \A u \in Threads : pc'[u] \in {"ids", "synced"} => pc[u] = pc'[u] /\ views'[u] = views[u]
    BY <1>30 DEF SaveFails
  <2> QED
    BY <2>1, SyncedKept DEF IndexInv
<1>31. ASSUME NEW t \in Threads, ScanFails(t) PROVE IndexInv'
  <2>1. /\ UNCHANGED <<index, vectorFile, idsFile>>
        /\ \A u \in Threads : pc'[u] \in {"ids", "synced"} => pc[u] = pc'[u] /\ views'[u] = views[u]
    BY <1>31 DEF ScanFails
  <2> QED
    BY <2>1, SyncedKept DEF IndexInv
<1>32. ASSUME UNCHANGED vars PROVE IndexInv'
  BY <1>32, SyncedKept DEF IndexInv
<1> QED
  BY <1>1, <1>2, <1>3, <1>4, <1>5, <1>6, <1>7, <1>8, <1>9, <1>10, <1>11, <1>12, <1>13, <1>14, <1>15, <1>16, <1>17, <1>18, <1>19, <1>20, <1>21, <1>22, <1>23, <1>24, <1>25, <1>26, <1>27, <1>28, <1>29, <1>30, <1>31, <1>32 DEF Next, Search, Sync, Watch, Fault

LEMMA SoundStep ==
  ASSUME TypeOK, TypeOK', PlaceInv, IndexInv, SoundInv, [Next]_vars
  PROVE  SoundInv'
<1> USE ThreadsAssumption, BoundsAssumption DEF TypeOK, Threads, disk, locks, store, promise, threads, bounds, vars, Goes, Idle, Release, May
<1>1. ASSUME NEW r \in Records, Write(r) PROVE SoundInv'
  <2>1. /\ UNCHANGED <<index, vectorFile, idsFile, overwritten>>
        /\ (\A u \in Threads : pc'[u] # "ids") => \A u \in Threads : pc[u] # "ids"
    BY <1>1 DEF Write
  <2> QED
    BY <2>1 DEF SoundInv, Torn
<1>2. ASSUME NEW t \in Searchers, Call(t) PROVE SoundInv'
  <2>1. /\ UNCHANGED <<index, vectorFile, idsFile, overwritten>>
        /\ (\A u \in Threads : pc'[u] # "ids") => \A u \in Threads : pc[u] # "ids"
    BY <1>2 DEF Call
  <2> QED
    BY <2>1 DEF SoundInv, Torn
<1>3. ASSUME NEW t \in Searchers, Publish(t) PROVE SoundInv'
  <2>1. /\ UNCHANGED <<index, vectorFile, idsFile, overwritten>>
        /\ (\A u \in Threads : pc'[u] # "ids") => \A u \in Threads : pc[u] # "ids"
    BY <1>3 DEF Publish
  <2> QED
    BY <2>1 DEF SoundInv, Torn
<1>4. ASSUME NEW t \in Searchers, Join(t) PROVE SoundInv'
  <2>1. /\ UNCHANGED <<index, vectorFile, idsFile, overwritten>>
        /\ (\A u \in Threads : pc'[u] # "ids") => \A u \in Threads : pc[u] # "ids"
    BY <1>4 DEF Join
  <2> QED
    BY <2>1 DEF SoundInv, Torn
<1>5. ASSUME NEW t \in Searchers, JoinFails(t) PROVE SoundInv'
  <2>1. /\ UNCHANGED <<index, vectorFile, idsFile, overwritten>>
        /\ (\A u \in Threads : pc'[u] # "ids") => \A u \in Threads : pc[u] # "ids"
    BY <1>5 DEF JoinFails
  <2> QED
    BY <2>1 DEF SoundInv, Torn
<1>6. ASSUME NEW t \in Searchers, GiveUp(t) PROVE SoundInv'
  <2>1. /\ UNCHANGED <<index, vectorFile, idsFile, overwritten>>
        /\ (\A u \in Threads : pc'[u] # "ids") => \A u \in Threads : pc[u] # "ids"
    BY <1>6 DEF GiveUp
  <2> QED
    BY <2>1 DEF SoundInv, Torn
<1>7. ASSUME NEW t \in Searchers, UseViews(t) PROVE SoundInv'
  <2>1. /\ UNCHANGED <<index, vectorFile, idsFile, overwritten>>
        /\ (\A u \in Threads : pc'[u] # "ids") => \A u \in Threads : pc[u] # "ids"
    BY <1>7 DEF UseViews
  <2> QED
    BY <2>1 DEF SoundInv, Torn
<1>8. ASSUME NEW t \in Searchers, LoadViews(t) PROVE SoundInv'
  <2>1. /\ UNCHANGED <<index, vectorFile, idsFile, overwritten>>
        /\ (\A u \in Threads : pc'[u] # "ids") => \A u \in Threads : pc[u] # "ids"
    BY <1>8 DEF LoadViews
  <2> QED
    BY <2>1 DEF SoundInv, Torn
<1>9. ASSUME NEW t \in Searchers, StoreViews(t) PROVE SoundInv'
  <2>1. /\ UNCHANGED <<index, vectorFile, idsFile, overwritten>>
        /\ (\A u \in Threads : pc'[u] # "ids") => \A u \in Threads : pc[u] # "ids"
    BY <1>9 DEF StoreViews
  <2> QED
    BY <2>1 DEF SoundInv, Torn
<1>10. ASSUME NEW t \in Searchers, UseAdapter(t) PROVE SoundInv'
  <2>1. /\ UNCHANGED <<index, vectorFile, idsFile, overwritten>>
        /\ (\A u \in Threads : pc'[u] # "ids") => \A u \in Threads : pc[u] # "ids"
    BY <1>10 DEF UseAdapter
  <2> QED
    BY <2>1 DEF SoundInv, Torn
<1>11. ASSUME NEW t \in Searchers, LockIndex(t) PROVE SoundInv'
  <2>1. /\ indexLock = None /\ UNCHANGED <<vectorFile, idsFile, overwritten>>
        /\ index' = IF current THEN index ELSE Loaded
    BY <1>11 DEF LockIndex, TakeIndex
  <2>2. \A u \in Threads : pc[u] # "ids"
    BY <2>1, ThreadsAssumption DEF PlaceInv, None
  <2>3. ~Torn => Sound(Loaded)
    <3>1. \A i \in DOMAIN idsFile : idsFile[i] \in Ids
      BY ElementOfSeq, LenProperties
    <3>2. DOMAIN idsFile = 1..Len(idsFile) /\ DOMAIN vectorFile = 1..Len(vectorFile)
      BY LenProperties
    <3>3. \A i \in DOMAIN vectorFile : vectorFile[i] \in Vectors
      BY ElementOfSeq, LenProperties
    <3>4. SUFFICES ASSUME ~Torn, NEW i \in DOMAIN Loaded
                   PROVE  Loaded[i].vec[1] = Loaded[i].id /\ Loaded[i].vec[2] >= Loaded[i].hash
      BY DEF Sound
    <3>5. /\ i \in DOMAIN idsFile /\ i \in DOMAIN vectorFile /\ Len(vectorFile) = Len(idsFile)
          /\ Loaded[i].id = idsFile[i].id /\ Loaded[i].hash = idsFile[i].hash /\ Loaded[i].vec = vectorFile[i]
      BY <3>2, LoadedFacts
    <3>6. vectorFile[i][1] = idsFile[i].id /\ ~(vectorFile[i][2] < idsFile[i].hash)
      BY <3>4, <3>5 DEF Torn
    <3>7. vectorFile[i][2] \in 1..MaxWrites /\ idsFile[i].hash \in 1..MaxWrites
      BY <3>1, <3>3, <3>5 DEF Ids, Vectors
    <3> QED
      BY <3>5, <3>6, <3>7
  <2>4. ~overwritten => Sound(index')
    BY <2>1, <2>2, <2>3 DEF SoundInv
  <2>5. Torn' = Torn
    BY <2>1 DEF Torn
  <2> QED
    BY <2>1, <2>2, <2>4, <2>5 DEF SoundInv
<1>12. ASSUME NEW t \in Searchers, SyncedAlready(t) PROVE SoundInv'
  <2>1. /\ UNCHANGED <<index, vectorFile, idsFile, overwritten>>
        /\ (\A u \in Threads : pc'[u] # "ids") => \A u \in Threads : pc[u] # "ids"
    BY <1>12 DEF SyncedAlready
  <2> QED
    BY <2>1 DEF SoundInv, Torn
<1>13. ASSUME NEW t \in Searchers, CacheAdapter(t) PROVE SoundInv'
  <2>1. /\ UNCHANGED <<index, vectorFile, idsFile, overwritten>>
        /\ (\A u \in Threads : pc'[u] # "ids") => \A u \in Threads : pc[u] # "ids"
    BY <1>13 DEF CacheAdapter
  <2> QED
    BY <2>1 DEF SoundInv, Torn
<1>14. ASSUME NEW t \in Searchers, Rank(t) PROVE SoundInv'
  <2>1. /\ UNCHANGED <<index, vectorFile, idsFile, overwritten>>
        /\ (\A u \in Threads : pc'[u] # "ids") => \A u \in Threads : pc[u] # "ids"
    BY <1>14 DEF Rank
  <2> QED
    BY <2>1 DEF SoundInv, Torn
<1>15. ASSUME NEW t \in Searchers, NEW r \in Records, Scan(t, r) PROVE SoundInv'
  <2>1. /\ UNCHANGED <<index, vectorFile, idsFile, overwritten>>
        /\ (\A u \in Threads : pc'[u] # "ids") => \A u \in Threads : pc[u] # "ids"
    BY <1>15 DEF Scan
  <2> QED
    BY <2>1 DEF SoundInv, Torn
<1>16. ASSUME NEW t \in Searchers, NEW r \in Records, LoadRecord(t, r) PROVE SoundInv'
  <2>1. /\ UNCHANGED <<index, vectorFile, idsFile, overwritten>>
        /\ (\A u \in Threads : pc'[u] # "ids") => \A u \in Threads : pc[u] # "ids"
    BY <1>16 DEF LoadRecord
  <2> QED
    BY <2>1 DEF SoundInv, Torn
<1>17. ASSUME NEW t \in Threads, SaveVectors(t) PROVE SoundInv'
  <2>1. UNCHANGED <<index, overwritten>> /\ pc'[t] = "ids"
    BY <1>17 DEF SaveVectors
  <2> QED
    BY <2>1 DEF SoundInv
<1>18. ASSUME NEW t \in Threads, SaveIds(t) PROVE SoundInv'
  <2>1. /\ UNCHANGED <<index, vectorFile, overwritten>> /\ vectorFile = [i \in DOMAIN index |-> index[i].vec]
        /\ idsFile' = [i \in DOMAIN index |-> [id |-> index[i].id, hash |-> index[i].hash]]
    BY <1>18 DEF SaveIds, IndexInv
  <2>2. \A i \in DOMAIN index : index[i].vec[2] \in 1..MaxWrites /\ index[i].hash \in 1..MaxWrites
    <3>1. \A i \in DOMAIN index : index[i] \in Rows
      BY ElementOfSeq, LenProperties
    <3> QED
      BY <3>1 DEF Rows, Vectors
  <2>3. Sound(index) => ~Torn'
    <3>1. SUFFICES ASSUME Sound(index), NEW i \in DOMAIN idsFile'
                   PROVE  vectorFile'[i][1] = idsFile'[i].id /\ ~(vectorFile'[i][2] < idsFile'[i].hash)
      BY DEF Torn
    <3>2. i \in DOMAIN index /\ vectorFile'[i] = index[i].vec
          /\ idsFile'[i].id = index[i].id /\ idsFile'[i].hash = index[i].hash
      BY <2>1
    <3>3. index[i].vec[1] = index[i].id /\ index[i].vec[2] >= index[i].hash
      BY <3>1, <3>2 DEF Sound
    <3>4. index[i].vec[2] \in 1..MaxWrites /\ index[i].hash \in 1..MaxWrites
      BY <2>2, <3>2
    <3> HIDE DEF TypeOK
    <3>5. ~(index[i].vec[2] < index[i].hash)
      BY <3>3, <3>4
    <3> QED
      BY <3>2, <3>3, <3>5
  <2> QED
    BY <2>1, <2>3 DEF SoundInv
<1>19. ASSUME NEW t \in Threads, NEW r \in Records, Upsert(t, r) PROVE SoundInv'
  <2>1. UNCHANGED <<vectorFile, idsFile, overwritten, pc>>
    BY <1>19 DEF Upsert
  <2>2. Sound(index) => Sound(index')
    BY <1>19, UpsertFacts DEF IndexInv
  <2> QED
    BY <2>1, <2>2 DEF SoundInv, Torn
<1>20. ASSUME Embed PROVE SoundInv'
  <2>1. /\ indexLock = None /\ UNCHANGED <<vectorFile, idsFile, overwritten>>
        /\ index' = IF current THEN index ELSE Loaded
    BY <1>20 DEF Embed, TakeIndex
  <2>2. \A u \in Threads : pc[u] # "ids"
    BY <2>1, ThreadsAssumption DEF PlaceInv, None
  <2>3. ~Torn => Sound(Loaded)
    <3>1. \A i \in DOMAIN idsFile : idsFile[i] \in Ids
      BY ElementOfSeq, LenProperties
    <3>2. DOMAIN idsFile = 1..Len(idsFile) /\ DOMAIN vectorFile = 1..Len(vectorFile)
      BY LenProperties
    <3>3. \A i \in DOMAIN vectorFile : vectorFile[i] \in Vectors
      BY ElementOfSeq, LenProperties
    <3>4. SUFFICES ASSUME ~Torn, NEW i \in DOMAIN Loaded
                   PROVE  Loaded[i].vec[1] = Loaded[i].id /\ Loaded[i].vec[2] >= Loaded[i].hash
      BY DEF Sound
    <3>5. /\ i \in DOMAIN idsFile /\ i \in DOMAIN vectorFile /\ Len(vectorFile) = Len(idsFile)
          /\ Loaded[i].id = idsFile[i].id /\ Loaded[i].hash = idsFile[i].hash /\ Loaded[i].vec = vectorFile[i]
      BY <3>2, LoadedFacts
    <3>6. vectorFile[i][1] = idsFile[i].id /\ ~(vectorFile[i][2] < idsFile[i].hash)
      BY <3>4, <3>5 DEF Torn
    <3>7. vectorFile[i][2] \in 1..MaxWrites /\ idsFile[i].hash \in 1..MaxWrites
      BY <3>1, <3>3, <3>5 DEF Ids, Vectors
    <3> QED
      BY <3>5, <3>6, <3>7
  <2>4. ~overwritten => Sound(index')
    BY <2>1, <2>2, <2>3 DEF SoundInv
  <2>5. Torn' = Torn
    BY <2>1 DEF Torn
  <2> QED
    BY <2>1, <2>2, <2>4, <2>5 DEF SoundInv
<1>21. ASSUME HasIt PROVE SoundInv'
  <2>1. /\ UNCHANGED <<index, vectorFile, idsFile, overwritten>>
        /\ (\A u \in Threads : pc'[u] # "ids") => \A u \in Threads : pc[u] # "ids"
    BY <1>21 DEF HasIt
  <2> QED
    BY <2>1 DEF SoundInv, Torn
<1>22. ASSUME Embedded PROVE SoundInv'
  <2>1. /\ UNCHANGED <<index, vectorFile, idsFile, overwritten>>
        /\ (\A u \in Threads : pc'[u] # "ids") => \A u \in Threads : pc[u] # "ids"
    BY <1>22 DEF Embedded
  <2> QED
    BY <2>1 DEF SoundInv, Torn
<1>23. ASSUME ForgetResult PROVE SoundInv'
  <2>1. /\ UNCHANGED <<index, vectorFile, idsFile, overwritten>>
        /\ (\A u \in Threads : pc'[u] # "ids") => \A u \in Threads : pc[u] # "ids"
    BY <1>23 DEF ForgetResult
  <2> QED
    BY <2>1 DEF SoundInv, Torn
<1>24. ASSUME ForgetViews PROVE SoundInv'
  <2>1. /\ UNCHANGED <<index, vectorFile, idsFile, overwritten>>
        /\ (\A u \in Threads : pc'[u] # "ids") => \A u \in Threads : pc[u] # "ids"
    BY <1>24 DEF ForgetViews
  <2> QED
    BY <2>1 DEF SoundInv, Torn
<1>25. ASSUME ForgetAdapter PROVE SoundInv'
  <2>1. /\ UNCHANGED <<index, vectorFile, idsFile, overwritten>>
        /\ (\A u \in Threads : pc'[u] # "ids") => \A u \in Threads : pc[u] # "ids"
    BY <1>25 DEF ForgetAdapter
  <2> QED
    BY <2>1 DEF SoundInv, Torn
<1>26. ASSUME NEW r \in Records, Coalesce(r) PROVE SoundInv'
  <2>1. /\ UNCHANGED <<index, vectorFile, idsFile, overwritten>>
        /\ (\A u \in Threads : pc'[u] # "ids") => \A u \in Threads : pc[u] # "ids"
    BY <1>26 DEF Coalesce
  <2> QED
    BY <2>1 DEF SoundInv, Torn
<1>27. ASSUME NEW r \in Records, Take(r) PROVE SoundInv'
  <2>1. /\ UNCHANGED <<index, vectorFile, idsFile, overwritten>>
        /\ (\A u \in Threads : pc'[u] # "ids") => \A u \in Threads : pc[u] # "ids"
    BY <1>27 DEF Take
  <2> QED
    BY <2>1 DEF SoundInv, Torn
<1>28. ASSUME Crash PROVE SoundInv'
  <2>1. /\ index' = <<>> /\ UNCHANGED <<vectorFile, idsFile>>
        /\ overwritten' = (overwritten \/ Torn)
    BY <1>28 DEF Crash
  <2>2. Sound(<<>>)
    BY DEF Sound
  <2> QED
    BY <2>1, <2>2 DEF SoundInv, Torn
<1>29. ASSUME NEW t \in Threads, EmbedFails(t) PROVE SoundInv'
  <2>1. /\ UNCHANGED <<index, vectorFile, idsFile>> /\ (overwritten => overwritten')
        /\ (\A u \in Threads : pc'[u] # "ids") => \A u \in Threads : pc[u] # "ids"
    BY <1>29 DEF EmbedFails
  <2> QED
    BY <2>1 DEF SoundInv, Torn
<1>30. ASSUME NEW t \in Threads, SaveFails(t) PROVE SoundInv'
  <2>1. /\ UNCHANGED <<index, vectorFile, idsFile>>
        /\ overwritten' = (overwritten \/ Torn \/ OlderRow)
    BY <1>30 DEF SaveFails
  <2> QED
    BY <2>1 DEF SoundInv, Torn
<1>31. ASSUME NEW t \in Threads, ScanFails(t) PROVE SoundInv'
  <2>1. /\ UNCHANGED <<index, vectorFile, idsFile, overwritten>>
        /\ (\A u \in Threads : pc'[u] # "ids") => \A u \in Threads : pc[u] # "ids"
    BY <1>31 DEF ScanFails
  <2> QED
    BY <2>1 DEF SoundInv, Torn
<1>32. ASSUME UNCHANGED vars PROVE SoundInv'
  BY <1>32 DEF SoundInv, Torn
<1> QED
  BY <1>1, <1>2, <1>3, <1>4, <1>5, <1>6, <1>7, <1>8, <1>9, <1>10, <1>11, <1>12, <1>13, <1>14, <1>15, <1>16, <1>17, <1>18, <1>19, <1>20, <1>21, <1>22, <1>23, <1>24, <1>25, <1>26, <1>27, <1>28, <1>29, <1>30, <1>31, <1>32 DEF Next, Search, Sync, Watch, Fault

LEMMA AdapterStep ==
  ASSUME TypeOK, PlaceInv, CachedInv, KnownInv, IndexInv, AdapterInv, [Next]_vars
  PROVE  AdapterInv'
<1> USE ThreadsAssumption, BoundsAssumption DEF TypeOK, Threads, disk, locks, store, promise, threads, bounds, vars, Goes, Idle, Release, May
<1>1. ASSUME NEW r \in Records, Write(r) PROVE AdapterInv'
  <2>1. UNCHANGED <<index, adapter, overwritten>> /\ (dirty => dirty')
    BY <1>1 DEF Write
  <2> QED
    BY <2>1, HashOfIsHashIn DEF AdapterInv
<1>2. ASSUME NEW t \in Searchers, Call(t) PROVE AdapterInv'
  <2>1. UNCHANGED <<index, adapter, overwritten>> /\ (dirty => dirty')
    BY <1>2 DEF Call
  <2> QED
    BY <2>1, HashOfIsHashIn DEF AdapterInv
<1>3. ASSUME NEW t \in Searchers, Publish(t) PROVE AdapterInv'
  <2>1. UNCHANGED <<index, adapter, overwritten>> /\ (dirty => dirty')
    BY <1>3 DEF Publish
  <2> QED
    BY <2>1, HashOfIsHashIn DEF AdapterInv
<1>4. ASSUME NEW t \in Searchers, Join(t) PROVE AdapterInv'
  <2>1. UNCHANGED <<index, adapter, overwritten>> /\ (dirty => dirty')
    BY <1>4 DEF Join
  <2> QED
    BY <2>1, HashOfIsHashIn DEF AdapterInv
<1>5. ASSUME NEW t \in Searchers, JoinFails(t) PROVE AdapterInv'
  <2>1. UNCHANGED <<index, adapter, overwritten>> /\ (dirty => dirty')
    BY <1>5 DEF JoinFails
  <2> QED
    BY <2>1, HashOfIsHashIn DEF AdapterInv
<1>6. ASSUME NEW t \in Searchers, GiveUp(t) PROVE AdapterInv'
  <2>1. UNCHANGED <<index, adapter, overwritten>> /\ (dirty => dirty')
    BY <1>6 DEF GiveUp
  <2> QED
    BY <2>1, HashOfIsHashIn DEF AdapterInv
<1>7. ASSUME NEW t \in Searchers, UseViews(t) PROVE AdapterInv'
  <2>1. UNCHANGED <<index, adapter, overwritten>> /\ (dirty => dirty')
    BY <1>7 DEF UseViews
  <2> QED
    BY <2>1, HashOfIsHashIn DEF AdapterInv
<1>8. ASSUME NEW t \in Searchers, LoadViews(t) PROVE AdapterInv'
  <2>1. UNCHANGED <<index, adapter, overwritten>> /\ (dirty => dirty')
    BY <1>8 DEF LoadViews
  <2> QED
    BY <2>1, HashOfIsHashIn DEF AdapterInv
<1>9. ASSUME NEW t \in Searchers, StoreViews(t) PROVE AdapterInv'
  <2>1. UNCHANGED <<index, adapter, overwritten>> /\ (dirty => dirty')
    BY <1>9 DEF StoreViews
  <2> QED
    BY <2>1, HashOfIsHashIn DEF AdapterInv
<1>10. ASSUME NEW t \in Searchers, UseAdapter(t) PROVE AdapterInv'
  <2>1. UNCHANGED <<index, adapter, overwritten>> /\ (dirty => dirty')
    BY <1>10 DEF UseAdapter
  <2> QED
    BY <2>1, HashOfIsHashIn DEF AdapterInv
<1>11. ASSUME NEW t \in Searchers, LockIndex(t) PROVE AdapterInv'
  <2>1. UNCHANGED <<adapter, overwritten, dirty>> /\ (current => index' = index)
    BY <1>11 DEF LockIndex, TakeIndex
  <2>2. ~current => adapter = Nothing
    BY DEF PlaceInv
  <2> QED
    BY <2>1, <2>2, HashOfIsHashIn DEF AdapterInv
<1>12. ASSUME NEW t \in Searchers, SyncedAlready(t) PROVE AdapterInv'
  <2>1. UNCHANGED <<index, adapter, overwritten>> /\ (dirty => dirty')
    BY <1>12 DEF SyncedAlready
  <2> QED
    BY <2>1, HashOfIsHashIn DEF AdapterInv
<1>13. ASSUME NEW t \in Searchers, CacheAdapter(t) PROVE AdapterInv'
  <2>1. UNCHANGED <<index, views>> /\ adapter' = key[t] /\ pc[t] = "synced"
    BY <1>13 DEF CacheAdapter
  <2>2. Synced(t) /\ ReadAll(key[t]) /\ Upto(key[t], views[t]) /\ ReadAll(views[t])
    BY <2>1 DEF IndexInv, KnownInv, Known, Keyed, Viewed
  <2>3. ASSUME NEW r \in Records PROVE HashOf(r) >= key[t][r]
    <3>1. HashOf(r) \in 0..MaxWrites
      BY HashFacts, HashOfIsHashIn DEF IndexInv
    <3>2. key[t][r] \in 0..(MaxWrites + 1) /\ views[t][r] \in 0..(MaxWrites + 1)
      <4>1. key[t] \in Contents /\ views[t] \in Contents
        OBVIOUS
      <4> QED
        BY <4>1 DEF Contents
    <3>3. key[t][r] <= views[t][r] /\ (views[t][r] = 0 \/ HashOf(r) = views[t][r])
      BY <2>2 DEF Upto, ReadAll, Synced, Differs
    <3> QED
      BY <3>1, <3>2, <3>3
  <2> QED
    BY <2>1, <2>3, HashOfIsHashIn DEF AdapterInv
<1>14. ASSUME NEW t \in Searchers, Rank(t) PROVE AdapterInv'
  <2>1. UNCHANGED <<index, adapter, overwritten>> /\ (dirty => dirty')
    BY <1>14 DEF Rank
  <2> QED
    BY <2>1, HashOfIsHashIn DEF AdapterInv
<1>15. ASSUME NEW t \in Searchers, NEW r \in Records, Scan(t, r) PROVE AdapterInv'
  <2>1. UNCHANGED <<index, adapter, overwritten>> /\ (dirty => dirty')
    BY <1>15 DEF Scan
  <2> QED
    BY <2>1, HashOfIsHashIn DEF AdapterInv
<1>16. ASSUME NEW t \in Searchers, NEW r \in Records, LoadRecord(t, r) PROVE AdapterInv'
  <2>1. UNCHANGED <<index, adapter, overwritten>> /\ (dirty => dirty')
    BY <1>16 DEF LoadRecord
  <2> QED
    BY <2>1, HashOfIsHashIn DEF AdapterInv
<1>17. ASSUME NEW t \in Threads, SaveVectors(t) PROVE AdapterInv'
  <2>1. adapter' = Nothing
    BY <1>17 DEF SaveVectors
  <2>2. Nothing' = Nothing
    BY DEF Nothing
  <2> QED
    BY <2>1, <2>2 DEF AdapterInv
<1>18. ASSUME NEW t \in Threads, SaveIds(t) PROVE AdapterInv'
  <2>1. UNCHANGED <<index, adapter, overwritten>> /\ (dirty => dirty')
    BY <1>18 DEF SaveIds
  <2> QED
    BY <2>1, HashOfIsHashIn DEF AdapterInv
<1>19. ASSUME NEW t \in Threads, NEW r \in Records, Upsert(t, r) PROVE AdapterInv'
  <2>1. dirty'
    BY <1>19 DEF Upsert
  <2> QED
    BY <2>1 DEF AdapterInv
<1>20. ASSUME Embed PROVE AdapterInv'
  <2>1. UNCHANGED <<adapter, overwritten, dirty>> /\ (current => index' = index)
    BY <1>20 DEF Embed, TakeIndex
  <2>2. ~current => adapter = Nothing
    BY DEF PlaceInv
  <2> QED
    BY <2>1, <2>2, HashOfIsHashIn DEF AdapterInv
<1>21. ASSUME HasIt PROVE AdapterInv'
  <2>1. UNCHANGED <<index, adapter, overwritten>> /\ (dirty => dirty')
    BY <1>21 DEF HasIt
  <2> QED
    BY <2>1, HashOfIsHashIn DEF AdapterInv
<1>22. ASSUME Embedded PROVE AdapterInv'
  <2>1. UNCHANGED <<index, adapter, overwritten>> /\ pc[Watcher] = "synced"
    BY <1>22 DEF Embedded
  <2>2. dirty => adapter = Nothing
    BY <2>1 DEF PlaceInv
  <2> QED
    BY <2>1, <2>2, HashOfIsHashIn DEF AdapterInv
<1>23. ASSUME ForgetResult PROVE AdapterInv'
  <2>1. UNCHANGED <<index, adapter, overwritten>> /\ (dirty => dirty')
    BY <1>23 DEF ForgetResult
  <2> QED
    BY <2>1, HashOfIsHashIn DEF AdapterInv
<1>24. ASSUME ForgetViews PROVE AdapterInv'
  <2>1. UNCHANGED <<index, adapter, overwritten>> /\ (dirty => dirty')
    BY <1>24 DEF ForgetViews
  <2> QED
    BY <2>1, HashOfIsHashIn DEF AdapterInv
<1>25. ASSUME ForgetAdapter PROVE AdapterInv'
  <2>1. adapter' = Nothing
    BY <1>25 DEF ForgetAdapter
  <2>2. Nothing' = Nothing
    BY DEF Nothing
  <2> QED
    BY <2>1, <2>2 DEF AdapterInv
<1>26. ASSUME NEW r \in Records, Coalesce(r) PROVE AdapterInv'
  <2>1. UNCHANGED <<index, adapter, overwritten>> /\ (dirty => dirty')
    BY <1>26 DEF Coalesce
  <2> QED
    BY <2>1, HashOfIsHashIn DEF AdapterInv
<1>27. ASSUME NEW r \in Records, Take(r) PROVE AdapterInv'
  <2>1. UNCHANGED <<index, adapter, overwritten>> /\ (dirty => dirty')
    BY <1>27 DEF Take
  <2> QED
    BY <2>1, HashOfIsHashIn DEF AdapterInv
<1>28. ASSUME Crash PROVE AdapterInv'
  <2>1. adapter' = Nothing
    BY <1>28 DEF Crash
  <2>2. Nothing' = Nothing
    BY DEF Nothing
  <2> QED
    BY <2>1, <2>2 DEF AdapterInv
<1>29. ASSUME NEW t \in Threads, EmbedFails(t) PROVE AdapterInv'
  <2>1. UNCHANGED <<index, adapter>> /\ (~overwritten' => ~OlderRow)
    BY <1>29 DEF EmbedFails
  <2>2. ASSUME adapter # Nothing, ~OlderRow, NEW r \in Records PROVE HashOf(r)' >= adapter[r]
    <3>1. HashOf(r) \in 0..MaxWrites /\ adapter[r] \in 0..(MaxWrites + 1)
      BY HashFacts, HashOfIsHashIn DEF IndexInv, Contents
    <3>2. ~(HashOf(r) < adapter[r])
      BY <2>2 DEF OlderRow
    <3>3. HashOf(r)' = HashOf(r)
      BY <2>1, HashOfIsHashIn
    <3> QED
      BY <3>1, <3>2, <3>3
  <2> QED
    BY <2>1, <2>2 DEF AdapterInv
<1>30. ASSUME NEW t \in Threads, SaveFails(t) PROVE AdapterInv'
  <2>1. UNCHANGED <<index, adapter>> /\ (~overwritten' => ~OlderRow)
    BY <1>30 DEF SaveFails
  <2>2. ASSUME adapter # Nothing, ~OlderRow, NEW r \in Records PROVE HashOf(r)' >= adapter[r]
    <3>1. HashOf(r) \in 0..MaxWrites /\ adapter[r] \in 0..(MaxWrites + 1)
      BY HashFacts, HashOfIsHashIn DEF IndexInv, Contents
    <3>2. ~(HashOf(r) < adapter[r])
      BY <2>2 DEF OlderRow
    <3>3. HashOf(r)' = HashOf(r)
      BY <2>1, HashOfIsHashIn
    <3> QED
      BY <3>1, <3>2, <3>3
  <2> QED
    BY <2>1, <2>2 DEF AdapterInv
<1>31. ASSUME NEW t \in Threads, ScanFails(t) PROVE AdapterInv'
  <2>1. UNCHANGED <<index, adapter, overwritten>> /\ (dirty => dirty')
    BY <1>31 DEF ScanFails
  <2> QED
    BY <2>1, HashOfIsHashIn DEF AdapterInv
<1>32. ASSUME UNCHANGED vars PROVE AdapterInv'
  BY <1>32, HashOfIsHashIn DEF AdapterInv
<1> QED
  BY <1>1, <1>2, <1>3, <1>4, <1>5, <1>6, <1>7, <1>8, <1>9, <1>10, <1>11, <1>12, <1>13, <1>14, <1>15, <1>16, <1>17, <1>18, <1>19, <1>20, <1>21, <1>22, <1>23, <1>24, <1>25, <1>26, <1>27, <1>28, <1>29, <1>30, <1>31, <1>32 DEF Next, Search, Sync, Watch, Fault

-----------------------------------------------------------------------------
(* What a searcher ranks with.                                             *)

\* What leaves the promise to a searcher as it is.
RankingKept(u) ==
  /\ pc'[u] # "rank" => oldIndex'[u] = <<>>
  /\ pc'[u] = "rank" =>
       /\ pc[u] = "rank" /\ since'[u] = since[u] /\ oldIndex'[u] = oldIndex[u]
       /\ u \in misled => u \in misled'
       /\ \A r \in Records : <<u, r>> \in outrun => <<u, r>> \in outrun'

LEMMA RankKept ==
  ASSUME RankInv, index' = index, overwritten => overwritten', \A u \in Searchers : RankingKept(u)
  PROVE  RankInv'
<1>1. ASSUME NEW u \in Searchers, ~overwritten, pc'[u] = "rank" PROVE Fresh(u)'
  <2>1. RankedBy(u)' = RankedBy(u) /\ Fresh(u)
    BY <1>1 DEF RankedBy, RankingKept, RankInv
  <2> QED
    BY <1>1, <2>1 DEF Fresh, RankingKept
<1> QED
  BY <1>1 DEF RankInv, RankingKept

LEMMA RankEntered ==
  ASSUME RankInv, NEW t \in Searchers, ~overwritten => Fresh(t),
         UNCHANGED <<index, oldIndex, since, misled, outrun, overwritten>>,
         pc'[t] = "rank", \A u \in Searchers : u # t => pc'[u] = pc[u]
  PROVE  RankInv'
<1>1. ASSUME NEW u \in Searchers, ~overwritten, pc'[u] = "rank" PROVE Fresh(u)'
  <2>1. Fresh(u)
    BY <1>1 DEF RankInv
  <2> QED
    BY <2>1 DEF Fresh, RankedBy
<1> QED
  BY <1>1 DEF RankInv

LEMMA EntersFresh ==
  ASSUME TypeOK, PlaceInv, KnownInv, IndexInv, SoundInv, AdapterInv, RankInv, ~overwritten,
         NEW t \in Searchers, pc[t] \in {"adapter", "synced"},
         pc[t] = "adapter" => adapter = key[t] /\ indexLock = None
  PROVE  Fresh(t)
<1>1. RankedBy(t) = index /\ Distinct(index) /\ Sound(index) /\ index \in Seq(Rows)
  BY DEF RankInv, RankedBy, IndexInv, SoundInv, TypeOK
<1>2. ASSUME t \notin misled, NEW r \in Records PROVE HashIn(index, r) >= since[t][r]
  <2>1. /\ ReadAll(key[t]) /\ ReadAll(views[t]) /\ Upto(since[t], key[t]) /\ Upto(key[t], views[t])
        /\ pc[t] = "synced" => Synced(t)
    BY <1>2 DEF KnownInv, Known, Keyed, Viewed, IndexInv, Threads
  <2>2. /\ key[t][r] \in 0..(MaxWrites + 1) /\ views[t][r] \in 0..(MaxWrites + 1)
        /\ since[t][r] \in 0..(MaxWrites + 1) /\ views[t][r] # Unread /\ key[t][r] # Unread
        /\ since[t][r] <= key[t][r] /\ key[t][r] <= views[t][r]
    <3>1. key[t] \in Contents /\ views[t] \in Contents /\ since[t] \in Contents
      BY DEF TypeOK, Threads
    <3> QED
      BY <2>1, <3>1 DEF Contents, ReadAll, Upto
  <2>3. HashOf(r) = HashIn(index, r) /\ HashIn(index, r) \in 0..MaxWrites
    BY <1>1, HashFacts, HashOfIsHashIn
  <2>4. CASE pc[t] = "synced"
    <3>1. views[t][r] = 0 \/ HashOf(r) = views[t][r]
      BY <2>1, <2>2, <2>4 DEF Synced, Differs
    <3> QED
      BY <2>2, <2>3, <3>1, BoundsAssumption
  <2>5. CASE pc[t] = "adapter"
    <3>1. adapter[r] = key[t][r] /\ adapter # Nothing /\ ~dirty
      BY <2>2, <2>5 DEF PlaceInv, Nothing
    <3>2. HashOf(r) >= adapter[r]
      BY <3>1 DEF AdapterInv
    <3> QED
      BY <2>2, <2>3, <3>1, <3>2, BoundsAssumption
  <2> QED
    BY <2>4, <2>5
<1> QED
  BY <1>1, <1>2 DEF Fresh

LEMMA TakeKeepsRank ==
  ASSUME TypeOK, TypeOK', IndexInv', SoundInv', RankInv, NEW t \in Threads, NEW from \in Places, NEW to \in Places,
         from # "rank", to # "rank", TakeIndex(t, from, to)
  PROVE  RankInv'
<1>1. /\ \A u \in Threads : pc'[u] = "rank" <=> pc[u] = "rank"
      /\ UNCHANGED <<since, misled, outrun, overwritten>>
      /\ current => index' = index /\ oldIndex' = oldIndex
  BY DEF TakeIndex, Goes, TypeOK, bounds
<1>2. \A u \in Threads : pc[u] # "rank" => oldIndex'[u] = oldIndex[u]
  BY DEF TakeIndex
<1>3. CASE current
  BY <1>1, <1>2, <1>3, RankKept DEF RankingKept, RankInv, Threads
<1>4. CASE ~current
  <2>1. ASSUME NEW u \in Searchers, ~overwritten, pc[u] = "rank" PROVE Fresh(u)'
    <3>1. oldIndex'[u] = RankedBy(u) /\ Fresh(u)
      BY <1>4, <2>1 DEF TakeIndex, RankInv, Threads
    <3>2. CASE RankedBy(u) # <<>>
      BY <1>1, <3>1, <3>2 DEF Fresh, RankedBy
    <3>3. CASE RankedBy(u) = <<>>
      <4>1. RankedBy(u)' = index' /\ Distinct(index') /\ Sound(index') /\ index' \in Seq(Rows)
        BY <1>1, <2>1, <3>1, <3>3 DEF RankedBy, IndexInv, SoundInv, TypeOK
      <4>2. ASSUME u \notin misled, NEW r \in Records, <<u, r>> \notin outrun PROVE HashIn(index', r) >= since[u][r]
        <5>1. HashIn(<<>>, r) = 0
          BY DEF HashIn, HasRow
        <5>2. 0 >= since[u][r]
          BY <3>1, <3>3, <4>2, <5>1 DEF Fresh
        <5>3. HashIn(index', r) \in 0..MaxWrites
          BY <4>1, HashFacts
        <5>4. since[u][r] \in 0..(MaxWrites + 1)
          BY DEF TypeOK, Contents, Threads
        <5> QED
          BY <5>2, <5>3, <5>4, BoundsAssumption
      <4> QED
        BY <1>1, <4>1, <4>2 DEF Fresh
    <3> QED
      BY <3>2, <3>3
  <2> QED
    BY <1>1, <1>2, <2>1 DEF RankInv, Fresh, Threads
<1> QED
  BY <1>3, <1>4

LEMMA UpsertKeepsRank ==
  ASSUME TypeOK, IndexInv, SoundInv, RankInv, NEW t \in Threads, NEW r \in Records, Upsert(t, r)
  PROVE  RankInv'
<1>1. UNCHANGED <<pc, views, oldIndex, since, misled, overwritten>>
      /\ outrun' = outrun \cup {<<u, r>> : u \in {s \in Searchers : Outruns(t, r, s)}}
  BY DEF Upsert, bounds
<1>2. /\ Distinct(index') /\ (Sound(index) => Sound(index'))
      /\ HashIn(index', r) = views[t][r]
      /\ \A s \in Records \ {r} : HashIn(index', s) = HashIn(index, s)
  BY UpsertFacts DEF IndexInv
<1>3. ASSUME NEW u \in Searchers, ~overwritten, pc[u] = "rank" PROVE Fresh(u)'
  <2>1. Fresh(u)
    BY <1>3 DEF RankInv
  <2>2. CASE oldIndex[u] # <<>>
    BY <1>1, <2>1, <2>2 DEF Fresh, RankedBy
  <2>3. CASE oldIndex[u] = <<>>
    <3>1. RankedBy(u) = index /\ RankedBy(u)' = index' /\ Sound(index)
      BY <1>1, <1>3, <2>3 DEF RankedBy, SoundInv
    <3>2. ASSUME u \notin misled, NEW s \in Records, <<u, s>> \notin outrun'
          PROVE  HashIn(index', s) >= since[u][s]
      <4>1. HashIn(index, s) >= since[u][s]
        BY <1>1, <2>1, <3>1, <3>2 DEF Fresh
      <4>2. CASE s # r
        BY <1>2, <4>1, <4>2
      <4>3. CASE s = r
        <5>1. ~(HashIn(index, r) > views[t][r])
          BY <1>1, <1>3, <2>3, <3>2, <4>3, HashOfIsHashIn DEF Outruns
        <5>2. HashIn(index, r) \in 0..MaxWrites /\ views[t][r] \in 0..(MaxWrites + 1) /\ since[u][r] \in 0..(MaxWrites + 1)
          <6>1. HashIn(index, r) \in 0..MaxWrites
            BY HashFacts DEF IndexInv, TypeOK
          <6>2. views[t] \in Contents /\ since[u] \in Contents
            BY DEF TypeOK, Threads
          <6> QED
            BY <6>1, <6>2 DEF Contents
        <5> QED
          BY <1>2, <4>1, <4>3, <5>1, <5>2, BoundsAssumption
      <4> QED
        BY <4>2, <4>3
    <3> QED
      BY <1>1, <1>2, <3>1, <3>2 DEF Fresh
  <2> QED
    BY <2>2, <2>3
<1> QED
  BY <1>1, <1>3 DEF RankInv

LEMMA RankStep ==
  ASSUME TypeOK, TypeOK', PlaceInv, KnownInv, IndexInv, IndexInv', SoundInv, SoundInv', AdapterInv, RankInv, [Next]_vars
  PROVE  RankInv'
<1> USE ThreadsAssumption DEF TypeOK, Threads, disk, locks, store, promise, threads, bounds, vars, Goes, Idle, Release, May
<1>1. ASSUME NEW r \in Records, Write(r) PROVE RankInv'
  <2>1. index' = index /\ (overwritten => overwritten') /\ \A u \in Searchers : RankingKept(u)
    BY <1>1 DEF Write, RankingKept, RankInv
  <2> QED
    BY <2>1, RankKept
<1>2. ASSUME NEW t \in Searchers, Call(t) PROVE RankInv'
  <2>1. index' = index /\ (overwritten => overwritten') /\ \A u \in Searchers : RankingKept(u)
    BY <1>2 DEF Call, RankingKept, RankInv
  <2> QED
    BY <2>1, RankKept
<1>3. ASSUME NEW t \in Searchers, Publish(t) PROVE RankInv'
  <2>1. index' = index /\ (overwritten => overwritten') /\ \A u \in Searchers : RankingKept(u)
    BY <1>3 DEF Publish, RankingKept, RankInv
  <2> QED
    BY <2>1, RankKept
<1>4. ASSUME NEW t \in Searchers, Join(t) PROVE RankInv'
  <2>1. index' = index /\ (overwritten => overwritten') /\ \A u \in Searchers : RankingKept(u)
    BY <1>4 DEF Join, RankingKept, RankInv
  <2> QED
    BY <2>1, RankKept
<1>5. ASSUME NEW t \in Searchers, JoinFails(t) PROVE RankInv'
  <2>1. index' = index /\ (overwritten => overwritten') /\ \A u \in Searchers : RankingKept(u)
    BY <1>5 DEF JoinFails, RankingKept, RankInv
  <2> QED
    BY <2>1, RankKept
<1>6. ASSUME NEW t \in Searchers, GiveUp(t) PROVE RankInv'
  <2>1. index' = index /\ (overwritten => overwritten') /\ \A u \in Searchers : RankingKept(u)
    BY <1>6 DEF GiveUp, RankingKept, RankInv
  <2> QED
    BY <2>1, RankKept
<1>7. ASSUME NEW t \in Searchers, UseViews(t) PROVE RankInv'
  <2>1. index' = index /\ (overwritten => overwritten') /\ \A u \in Searchers : RankingKept(u)
    BY <1>7 DEF UseViews, RankingKept, RankInv
  <2> QED
    BY <2>1, RankKept
<1>8. ASSUME NEW t \in Searchers, LoadViews(t) PROVE RankInv'
  <2>1. index' = index /\ (overwritten => overwritten') /\ \A u \in Searchers : RankingKept(u)
    BY <1>8 DEF LoadViews, RankingKept, RankInv
  <2> QED
    BY <2>1, RankKept
<1>9. ASSUME NEW t \in Searchers, StoreViews(t) PROVE RankInv'
  <2>1. index' = index /\ (overwritten => overwritten') /\ \A u \in Searchers : RankingKept(u)
    BY <1>9 DEF StoreViews, RankingKept, RankInv
  <2> QED
    BY <2>1, RankKept
<1>10. ASSUME NEW t \in Searchers, UseAdapter(t) PROVE RankInv'
  <2>1. /\ UNCHANGED <<index, oldIndex, since, misled, outrun, overwritten, key, views>>
        /\ pc[t] \in {"adapter", "synced"} /\ pc'[t] = "rank" /\ \A u \in Searchers : u # t => pc'[u] = pc[u]
        /\ pc[t] = "adapter" => adapter = key[t] /\ indexLock = None
    BY <1>10 DEF UseAdapter
  <2>2. ASSUME ~overwritten PROVE Fresh(t)
    BY <2>1, <2>2, EntersFresh
  <2> QED
    BY <2>1, <2>2, RankEntered
<1>11. ASSUME NEW t \in Searchers, LockIndex(t) PROVE RankInv'
  <2>1. \E w \in Threads, from, to \in Places : from # "rank" /\ to # "rank" /\ TakeIndex(w, from, to)
    BY <1>11 DEF LockIndex, Places
  <2> QED
    BY <2>1, TakeKeepsRank
<1>12. ASSUME NEW t \in Searchers, SyncedAlready(t) PROVE RankInv'
  <2>1. index' = index /\ (overwritten => overwritten') /\ \A u \in Searchers : RankingKept(u)
    BY <1>12 DEF SyncedAlready, RankingKept, RankInv
  <2> QED
    BY <2>1, RankKept
<1>13. ASSUME NEW t \in Searchers, CacheAdapter(t) PROVE RankInv'
  <2>1. /\ UNCHANGED <<index, oldIndex, since, misled, outrun, overwritten, key, views>>
        /\ pc[t] \in {"adapter", "synced"} /\ pc'[t] = "rank" /\ \A u \in Searchers : u # t => pc'[u] = pc[u]
        /\ pc[t] = "adapter" => adapter = key[t] /\ indexLock = None
    BY <1>13 DEF CacheAdapter
  <2>2. ASSUME ~overwritten PROVE Fresh(t)
    BY <2>1, <2>2, EntersFresh
  <2> QED
    BY <2>1, <2>2, RankEntered
<1>14. ASSUME NEW t \in Searchers, Rank(t) PROVE RankInv'
  <2>1. index' = index /\ (overwritten => overwritten') /\ \A u \in Searchers : RankingKept(u)
    BY <1>14 DEF Rank, RankingKept, RankInv
  <2> QED
    BY <2>1, RankKept
<1>15. ASSUME NEW t \in Searchers, NEW r \in Records, Scan(t, r) PROVE RankInv'
  <2>1. index' = index /\ (overwritten => overwritten') /\ \A u \in Searchers : RankingKept(u)
    BY <1>15 DEF Scan, RankingKept, RankInv
  <2> QED
    BY <2>1, RankKept
<1>16. ASSUME NEW t \in Searchers, NEW r \in Records, LoadRecord(t, r) PROVE RankInv'
  <2>1. index' = index /\ (overwritten => overwritten') /\ \A u \in Searchers : RankingKept(u)
    BY <1>16 DEF LoadRecord, RankingKept, RankInv
  <2> QED
    BY <2>1, RankKept
<1>17. ASSUME NEW t \in Threads, SaveVectors(t) PROVE RankInv'
  <2>1. index' = index /\ (overwritten => overwritten') /\ \A u \in Searchers : RankingKept(u)
    BY <1>17 DEF SaveVectors, RankingKept, RankInv
  <2> QED
    BY <2>1, RankKept
<1>18. ASSUME NEW t \in Threads, SaveIds(t) PROVE RankInv'
  <2>1. index' = index /\ (overwritten => overwritten') /\ \A u \in Searchers : RankingKept(u)
    BY <1>18 DEF SaveIds, RankingKept, RankInv
  <2> QED
    BY <2>1, RankKept
<1>19. ASSUME NEW t \in Threads, NEW r \in Records, Upsert(t, r) PROVE RankInv'
  BY <1>19, UpsertKeepsRank
<1>20. ASSUME Embed PROVE RankInv'
  <2>1. \E w \in Threads, from, to \in Places : from # "rank" /\ to # "rank" /\ TakeIndex(w, from, to)
    BY <1>20 DEF Embed, Places
  <2> QED
    BY <2>1, TakeKeepsRank
<1>21. ASSUME HasIt PROVE RankInv'
  <2>1. index' = index /\ (overwritten => overwritten') /\ \A u \in Searchers : RankingKept(u)
    BY <1>21 DEF HasIt, RankingKept, RankInv
  <2> QED
    BY <2>1, RankKept
<1>22. ASSUME Embedded PROVE RankInv'
  <2>1. index' = index /\ (overwritten => overwritten') /\ \A u \in Searchers : RankingKept(u)
    BY <1>22 DEF Embedded, RankingKept, RankInv
  <2> QED
    BY <2>1, RankKept
<1>23. ASSUME ForgetResult PROVE RankInv'
  <2>1. index' = index /\ (overwritten => overwritten') /\ \A u \in Searchers : RankingKept(u)
    BY <1>23 DEF ForgetResult, RankingKept, RankInv
  <2> QED
    BY <2>1, RankKept
<1>24. ASSUME ForgetViews PROVE RankInv'
  <2>1. index' = index /\ (overwritten => overwritten') /\ \A u \in Searchers : RankingKept(u)
    BY <1>24 DEF ForgetViews, RankingKept, RankInv
  <2> QED
    BY <2>1, RankKept
<1>25. ASSUME ForgetAdapter PROVE RankInv'
  <2>1. index' = index /\ (overwritten => overwritten') /\ \A u \in Searchers : RankingKept(u)
    BY <1>25 DEF ForgetAdapter, RankingKept, RankInv
  <2> QED
    BY <2>1, RankKept
<1>26. ASSUME NEW r \in Records, Coalesce(r) PROVE RankInv'
  <2>1. index' = index /\ (overwritten => overwritten') /\ \A u \in Searchers : RankingKept(u)
    BY <1>26 DEF Coalesce, RankingKept, RankInv
  <2> QED
    BY <2>1, RankKept
<1>27. ASSUME NEW r \in Records, Take(r) PROVE RankInv'
  <2>1. index' = index /\ (overwritten => overwritten') /\ \A u \in Searchers : RankingKept(u)
    BY <1>27 DEF Take, RankingKept, RankInv
  <2> QED
    BY <2>1, RankKept
<1>28. ASSUME Crash PROVE RankInv'
  <2>1. \A u \in Searchers : pc'[u] = "idle" /\ oldIndex'[u] = <<>>
    BY <1>28 DEF Crash
  <2> QED
    BY <2>1 DEF RankInv
<1>29. ASSUME NEW t \in Threads, EmbedFails(t) PROVE RankInv'
  <2>1. index' = index /\ (overwritten => overwritten') /\ \A u \in Searchers : RankingKept(u)
    BY <1>29 DEF EmbedFails, RankingKept, RankInv
  <2> QED
    BY <2>1, RankKept
<1>30. ASSUME NEW t \in Threads, SaveFails(t) PROVE RankInv'
  <2>1. index' = index /\ (overwritten => overwritten') /\ \A u \in Searchers : RankingKept(u)
    BY <1>30 DEF SaveFails, RankingKept, RankInv
  <2> QED
    BY <2>1, RankKept
<1>31. ASSUME NEW t \in Threads, ScanFails(t) PROVE RankInv'
  <2>1. index' = index /\ (overwritten => overwritten') /\ \A u \in Searchers : RankingKept(u)
    BY <1>31 DEF ScanFails, RankingKept, RankInv
  <2> QED
    BY <2>1, RankKept
<1>32. ASSUME UNCHANGED vars PROVE RankInv'
  <2>1. \A u \in Searchers : RankingKept(u)
    BY <1>32 DEF RankingKept, RankInv
  <2> QED
    BY <1>32, <2>1, RankKept
<1> QED
  BY <1>1, <1>2, <1>3, <1>4, <1>5, <1>6, <1>7, <1>8, <1>9, <1>10, <1>11, <1>12, <1>13, <1>14, <1>15, <1>16, <1>17, <1>18, <1>19, <1>20, <1>21, <1>22, <1>23, <1>24, <1>25, <1>26, <1>27, <1>28, <1>29, <1>30, <1>31, <1>32 DEF Next, Search, Sync, Watch, Fault

-----------------------------------------------------------------------------

-----------------------------------------------------------------------------
(* The theorems.                                                           *)

LEMMA CacheInit == Init => CacheInv
<1> SUFFICES ASSUME Init PROVE CacheInv
  OBVIOUS
<1>1. TypeOK
  BY TypeInit
<1>2. PlaceInv
  BY ThreadsAssumption DEF Init, PlaceInv, None, Threads, WatcherOnly
<1>3. CachedInv
  BY DEF Init, CachedInv
<1>4. KnownInv /\ WaitInv
  BY DEF Init, KnownInv, Known, WaitInv, Threads, Keyed, Viewed
<1>5. IndexInv /\ SoundInv /\ AdapterInv
  BY DEF Init, IndexInv, SoundInv, AdapterInv, Distinct, Sound, Torn
<1>6. RankInv
  BY DEF Init, RankInv, Threads
<1> QED
  BY <1>1, <1>2, <1>3, <1>4, <1>5, <1>6 DEF CacheInv

LEMMA CacheStep == CacheInv /\ [Next]_vars => CacheInv'
<1> SUFFICES ASSUME CacheInv, [Next]_vars PROVE CacheInv'
  OBVIOUS
<1>1. TypeOK'
  BY TypeStep DEF CacheInv
<1> QED
  BY <1>1, PlaceStep, CachedStep, KnownStep, WaitStep, IndexStep, SoundStep, AdapterStep, RankStep DEF CacheInv

THEOREM CacheInvHolds == Spec => []CacheInv
BY CacheInit, CacheStep, PTL DEF Spec

\* Type correctness: among others, a searcher's fingerprint has no write that no
\* file can have, and every row is of a record and of a write.
THEOREM TypeCorrect == Spec => []TypeOK
BY CacheInvHolds, PTL DEF CacheInv

\* A synced index has a row for each record of the searcher's views, with a vector
\* that is no older (_build_retrieval_adapter, VectorIndex.save and load): after any
\* number of crashes and failed saves, as long as none left torn files behind.
THEOREM SyncedIndexAgreesHolds == Spec => []SyncedIndexAgrees
<1>1. ASSUME CacheInv PROVE SyncedIndexAgrees
  <2>1. SUFFICES ASSUME ~overwritten, NEW t \in Searchers, pc[t] = "synced",
                        NEW r \in Records, views[t][r] # 0
                 PROVE  HasVector(index, r, views[t][r])
    BY DEF SyncedIndexAgrees
  <2>2. Synced(t) /\ ReadAll(views[t]) /\ Distinct(index) /\ Sound(index) /\ index \in Seq(Rows)
    BY <1>1, <2>1 DEF CacheInv, TypeOK, KnownInv, Known, Viewed, IndexInv, SoundInv, Threads
  <2>3. views[t][r] \in 0..(MaxWrites + 1) /\ views[t][r] # Unread
    <3>1. views[t] \in Contents
      BY <1>1 DEF CacheInv, TypeOK, Threads
    <3> QED
      BY <2>2, <3>1 DEF Contents, ReadAll
  <2>4. views[t][r] \in 1..MaxWrites
    BY <2>1, <2>3, BoundsAssumption DEF Unread
  <2>5. HashIn(index, r) >= views[t][r]
    <3>1. HashOf(r) = views[t][r]
      BY <2>1, <2>2, <2>3 DEF Synced, Differs
    <3> QED
      BY <2>4, <3>1, HashOfIsHashIn
  <2> QED
    BY <2>2, <2>4, <2>5, RowHasVector
<1> QED
  BY <1>1, CacheInvHolds, PTL

\* "Direct file edits are visible immediately; there is no time-based stale
\* window" (_records_fingerprint_singleflight, _cached_views_and_demote,
\* _build_retrieval_adapter, run_search): at whatever moment it ranks, a search's
\* views and the vectors it ranks by are no older than the files were when the scan
\* it uses began, but for a scan that failed under it, a row that a sync of older
\* views replaced since it took its adapter, and what a cut left behind.
THEOREM AnswerIsFreshHolds == Spec => []AnswerIsFresh
<1>1. ASSUME CacheInv PROVE AnswerIsFresh
  <2>1. SUFFICES ASSUME ~overwritten, NEW t \in Searchers, pc[t] = "rank", t \notin misled, NEW r \in Records
                 PROVE  /\ views[t][r] >= since[t][r]
                        /\ since[t][r] # 0 /\ <<t, r>> \notin outrun => HasVector(RankedBy(t), r, since[t][r])
    BY DEF AnswerIsFresh
  <2>2. ReadAll(key[t]) /\ ReadAll(views[t]) /\ Upto(since[t], key[t]) /\ Upto(key[t], views[t])
    BY <1>1, <2>1 DEF CacheInv, KnownInv, Known, Keyed, Viewed
  <2>3. /\ key[t][r] \in 0..(MaxWrites + 1) /\ views[t][r] \in 0..(MaxWrites + 1)
        /\ since[t][r] \in 0..(MaxWrites + 1) /\ key[t][r] # MaxWrites + 1
        /\ since[t][r] <= key[t][r] /\ key[t][r] <= views[t][r]
    <3>1. key[t] \in Contents /\ views[t] \in Contents /\ since[t] \in Contents
      BY <1>1 DEF CacheInv, TypeOK, Threads
    <3> QED
      BY <2>2, <3>1 DEF Contents, ReadAll, Upto, Unread
  <2>4. views[t][r] >= since[t][r]
    BY <2>3, BoundsAssumption
  <2>5. ASSUME since[t][r] # 0, <<t, r>> \notin outrun PROVE HasVector(RankedBy(t), r, since[t][r])
    <3>1. since[t][r] \in 1..MaxWrites
      BY <2>3, <2>5, BoundsAssumption
    <3>2. /\ Distinct(RankedBy(t)) /\ Sound(RankedBy(t)) /\ RankedBy(t) \in Seq(Rows)
          /\ HashIn(RankedBy(t), r) >= since[t][r]
      BY <1>1, <2>1, <2>5, RankedByType DEF CacheInv, RankInv, Fresh, Threads
    <3> QED
      BY <3>1, <3>2, RowHasVector
  <2> QED
    BY <2>4, <2>5
<1> QED
  BY <1>1, CacheInvHolds, PTL

=============================================================================
