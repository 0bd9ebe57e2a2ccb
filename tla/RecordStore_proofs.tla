--------------------------- MODULE RecordStore_proofs ---------------------------
(***************************************************************************)
(* Proofs about the record files (RecordStore): types, whatever requests   *)
(* overlap, that a decided record only changes when a request overwrites   *)
(* what it had not seen; and, when no two requests work on one record at a *)
(* time, that lint tells exactly the links that were cut between their two *)
(* writes.                                                                 *)
(***************************************************************************)
EXTENDS RecordStore, TLAPS

HasOld == {"change", "accept", "readNew", "mint", "replace", "readBack", "linkNew", "linkOld"}
HasNew == {"create", "readNew", "replace", "readBack", "linkNew", "linkOld"}
HasNewCopy == HasNew \ {"readNew"}
MakesNew == {"create", "replace"}

\* What a request holds goes with where it is; what it found on disk stays
\* there, for records are never removed.
Typed(r) ==
  /\ pc[r] \in HasOld => old[r] \in Ids /\ oldCopy[r] \in Record
  /\ pc[r] \notin HasOld => old[r] = 0
  /\ pc[r] \in HasNew => new[r] \in Numbers /\ (pc[r] \notin MakesNew => new[r] \in Ids)
  /\ pc[r] \in HasNewCopy => newCopy[r] \in Record
  /\ pc[r] \notin HasNew => new[r] = 0
  /\ pc[r] \in {"all", "accept"} => todo[r] \subseteq Ids
  /\ pc[r] \notin {"all", "accept"} => todo[r] = {}

TypeOK ==
  /\ Ids \subseteq Numbers /\ file \in [Ids -> Record]
  /\ pc \in [Requests -> {"idle", "all"} \cup HasOld \cup HasNew]
  /\ old \in [Requests -> Numbers \cup {0}]
  /\ new \in [Requests -> Numbers \cup {0}]
  /\ oldCopy \in [Requests -> Record \cup {NoCopy}]
  /\ newCopy \in [Requests -> Record \cup {NoCopy}]
  /\ todo \in [Requests -> SUBSET Numbers]
  /\ \A r \in Requests : Typed(r)

-----------------------------------------------------------------------------
(* The invariants, for requests that work on different records.            *)

Alone == \A q, r \in Requests : q # r => Holds(q) \cap Holds(r) = {}

\* A copy that will be written over a decided record keeps its body and stays decided.
Keeps(copy, record) ==
  record.status \in Locked => copy.body = record.body /\ copy.status \in Locked

\* A copy that changes no link.
SameLinks(copy, record) ==
  copy.supersedes = record.supersedes /\ copy.supersededBy = record.supersededBy

\* A copy of o that is superseded by n as well, and by nobody else who was not
\* there before; earlier links only go where the record was reopened.
LinksTo(copy, o, n) ==
  /\ copy.status = "superseded"
  /\ copy.supersedes = file[o].supersedes
  /\ n \in copy.supersededBy /\ copy.supersededBy \subseteq file[o].supersededBy \cup {n}
  /\ file[o].supersededBy \subseteq copy.supersededBy \/ o \in reopened

\* What a request's copies know of the files they will be written over.
RequestInv(r) ==
  /\ pc[r] \in {"change", "accept"} =>
       SameLinks(oldCopy[r], file[old[r]]) /\ Keeps(oldCopy[r], file[old[r]])
  /\ pc[r] \in MakesNew =>
       /\ new[r] \notin Ids
       /\ newCopy[r].supersedes = {} /\ newCopy[r].supersededBy = {}
       /\ newCopy[r].status = "proposed"
  /\ pc[r] = "readNew" => old[r] # new[r] /\ oldCopy[r] = file[old[r]]
  /\ pc[r] \in {"mint", "replace", "readBack"} =>
       /\ file[old[r]].status \notin {"superseded", "reverted"}
       /\ oldCopy[r] = [file[old[r]] EXCEPT !.status = "superseded"]
  /\ pc[r] = "readBack" =>
       old[r] # new[r] /\ file[new[r]] = newCopy[r] /\ newCopy[r].supersedes = {}
  /\ pc[r] \in {"linkNew", "linkOld"} =>
       /\ old[r] # new[r] /\ new[r] \notin file[old[r]].supersededBy
       /\ LinksTo(oldCopy[r], old[r], new[r])
       /\ Keeps(oldCopy[r], file[old[r]])
  /\ pc[r] = "linkNew" =>
       /\ newCopy[r].supersedes = file[new[r]].supersedes \cup {old[r]}
       /\ newCopy[r].supersededBy = file[new[r]].supersededBy
       /\ newCopy[r].status = file[new[r]].status
       /\ newCopy[r].body = file[new[r]].body
  /\ pc[r] = "linkOld" => old[r] \in file[new[r]].supersedes

\* The replacing record's side of a link is written first: who is superseded by
\* another is named by it.
Mirrored ==
  \A o \in Ids : \A n \in file[o].supersededBy : n \in Ids /\ o \in file[n].supersedes

\* The other side follows, or the link is explained.
Settled(o, n) ==
  n \in file[o].supersededBy \/ Linking(o, n) \/ <<o, n>> \in cut \/ o \in reopened
Answered == \A n \in Ids : \A o \in file[n].supersedes : o \in Ids /\ Settled(o, n)

\* Who is superseded by another and says otherwise was reopened.
Reopened ==
  \A o \in Ids : file[o].supersededBy # {} /\ file[o].status # "superseded" => o \in reopened

\* A link that was cut is there on the replacing record's side only.
CutInv ==
  \A p \in cut :
    /\ p[1] \in Ids /\ p[2] \in Ids /\ p = <<p[1], p[2]>>
    /\ p[1] \in file[p[2]].supersedes /\ p[2] \notin file[p[1]].supersededBy

StoreInv ==
  Alone /\ (\A r \in Requests : RequestInv(r)) /\ Mirrored /\ Answered /\ Reopened /\ CutInv

-----------------------------------------------------------------------------
(* Operators.                                                              *)

\* A write adds a number or replaces its record, and touches no other file.
LEMMA WriteTypes ==
  ASSUME TypeOK, NEW i \in Numbers, NEW record \in Record, WriteRecord(i, record)
  PROVE  /\ Ids' = Ids \cup {i} /\ Ids' \subseteq Numbers
         /\ file' \in [Ids' -> Record]
         /\ file'[i] = record
         /\ \A j \in Ids : j # i => file'[j] = file[j]
  <1>1. Ids \subseteq Numbers /\ file \in [Ids -> Record] BY DEF TypeOK
  <1>2. file' = [j \in Ids \cup {i} |-> IF j = i THEN record ELSE file[j]] BY DEF WriteRecord
  <1>3. Ids' = Ids \cup {i} BY <1>2 DEF Ids
  <1>4. file' \in [Ids' -> Record] BY <1>1, <1>2, <1>3
  <1>5. QED BY <1>1, <1>2, <1>3, <1>4

\* What requests other than r hold.
OthersWait(r) ==
  \A q \in Requests \ {r} :
    /\ pc'[q] = pc[q] /\ old'[q] = old[q] /\ new'[q] = new[q]
    /\ oldCopy'[q] = oldCopy[q] /\ newCopy'[q] = newCopy[q] /\ todo'[q] = todo[q]

\* The variables of the requests as functions.
Threads ==
  /\ pc \in [Requests -> {"idle", "all"} \cup HasOld \cup HasNew]
  /\ old \in [Requests -> Numbers \cup {0}]
  /\ new \in [Requests -> Numbers \cup {0}]
  /\ oldCopy \in [Requests -> Record \cup {NoCopy}]
  /\ newCopy \in [Requests -> Record \cup {NoCopy}]
  /\ todo \in [Requests -> SUBSET Numbers]

LEMMA ThreadTypes == TypeOK => Threads
  BY DEF TypeOK, Threads

\* A request that ends holds nothing.
LEMMA LeaveTypes ==
  ASSUME Threads, NEW r \in Requests, Leave(r)
  PROVE  /\ Threads' /\ Typed(r)' /\ OthersWait(r)
         /\ pc'[r] = "idle" /\ old'[r] = 0 /\ new'[r] = 0 /\ todo'[r] = {}
  <1>1. Threads' BY DEF Threads, Leave
  <1>2. pc'[r] = "idle" /\ old'[r] = 0 /\ new'[r] = 0 /\ todo'[r] = {} BY DEF Threads, Leave
  <1>3. Typed(r)' BY <1>2 DEF Typed, HasOld, HasNew, HasNewCopy, MakesNew
  <1>4. OthersWait(r) BY DEF Threads, Leave, OthersWait
  <1>5. QED BY <1>1, <1>2, <1>3, <1>4

\* A request that reads a record and holds what it will write over it.
LEMMA ChangeTypes ==
  ASSUME Threads, NEW r \in Requests, NEW i \in Numbers, NEW record \in Record,
         NEW step \in {"change", "accept", "mint"}, Change(r, i, record, step)
  PROVE  /\ Threads' /\ OthersWait(r) /\ file' = file
         /\ pc'[r] = step /\ old'[r] = i /\ oldCopy'[r] = record
         /\ new' = new /\ todo' = todo /\ cut' = cut /\ reopened' = reopened
  <1>1. Threads' BY DEF Threads, Change, HasOld
  <1>2. OthersWait(r) BY DEF Threads, Change, OthersWait
  <1>3. QED BY <1>1, <1>2 DEF Threads, Change, history

\* Records stay, so what others hold stays typed.
LEMMA OthersTyped ==
  ASSUME TypeOK, NEW r \in Requests, OthersWait(r), Ids \subseteq Ids', Typed(r)'
  PROVE  \A q \in Requests : Typed(q)'
  <1>1. SUFFICES ASSUME NEW q \in Requests, q # r PROVE Typed(q)' OBVIOUS
  <1>2. Typed(q) BY DEF TypeOK
  <1>3. /\ pc'[q] = pc[q] /\ old'[q] = old[q] /\ new'[q] = new[q]
        /\ oldCopy'[q] = oldCopy[q] /\ newCopy'[q] = newCopy[q] /\ todo'[q] = todo[q]
    BY <1>1 DEF OthersWait
  <1>4. QED BY <1>2, <1>3 DEF Typed

\* One step of r: if its own part stays typed, everything does.
LEMMA TypesKept ==
  ASSUME TypeOK, NEW r \in Requests, OthersWait(r), Threads', Typed(r)',
         Ids \subseteq Ids', Ids' \subseteq Numbers, file' \in [Ids' -> Record]
  PROVE  TypeOK'
  BY OthersTyped DEF TypeOK, Threads

LEMMA FreshRecord ==
  \A b \in Bodies : /\ Fresh(b) \in Record /\ Fresh(b).supersedes = {}
                    /\ Fresh(b).supersededBy = {} /\ Fresh(b).status = "proposed"
  BY DEF Fresh, Record, Status

LEMMA NoCopyIsNone == NoCopy \notin Record
  BY DEF NoCopy, Record, Status

-----------------------------------------------------------------------------
(* Types.                                                                  *)

LEMMA InitTypes == Init => TypeOK
  <1>1. SUFFICES ASSUME Init PROVE TypeOK OBVIOUS
  <1>2. Ids = {} /\ file \in [Ids -> Record] BY <1>1 DEF Init, Ids
  <1>3. \A r \in Requests : Typed(r)
    BY <1>1 DEF Init, Typed, HasOld, HasNew, HasNewCopy, MakesNew
  <1>4. QED BY <1>1, <1>2, <1>3 DEF Init, TypeOK

\* A step that keeps the files as they are.
LEMMA QuietTypes ==
  ASSUME TypeOK, NEW r \in Requests, OthersWait(r), Threads', Typed(r)', file' = file
  PROVE  TypeOK' /\ OthersWait(r) /\ Ids \subseteq Ids'
  <1>1. Ids' = Ids BY DEF Ids
  <1>2. Ids \subseteq Numbers /\ file' \in [Ids' -> Record] BY <1>1 DEF TypeOK
  <1>3. QED BY <1>1, <1>2, TypesKept

\* A step that writes one record.
LEMMA WriterTypes ==
  ASSUME TypeOK, NEW r \in Requests, OthersWait(r), Threads', Typed(r)',
         NEW i \in Numbers, NEW record \in Record, WriteRecord(i, record)
  PROVE  TypeOK' /\ OthersWait(r) /\ Ids \subseteq Ids'
  <1>1. Ids \subseteq Ids' /\ Ids' \subseteq Numbers /\ file' \in [Ids' -> Record]
    BY WriteTypes
  <1>2. QED BY <1>1, TypesKept

\* The steps that begin with a record and hold a copy of it.
LEMMA BeginTypes ==
  ASSUME TypeOK, NEW r \in Requests,
         BeginDecide(r) \/ BeginEdit(r) \/ BeginSupersede(r) \/ ReadPending(r)
  PROVE  TypeOK' /\ OthersWait(r) /\ Ids \subseteq Ids'
  <1>1. Threads /\ Typed(r) /\ Ids \subseteq Numbers /\ file \in [Ids -> Record]
    BY ThreadTypes DEF TypeOK
  <1>2. ASSUME NEW i \in Ids, NEW record \in Record,
               NEW step \in {"change", "accept", "mint"}, Change(r, i, record, step),
               step = "accept" <=> pc[r] = "all", pc[r] \in {"idle", "all"}
        PROVE  TypeOK' /\ OthersWait(r) /\ Ids \subseteq Ids'
    <2>1. i \in Numbers /\ Ids' = Ids BY <1>1, <1>2 DEF Change, Ids
    <2>2. /\ Threads' /\ OthersWait(r) /\ file' = file
          /\ pc'[r] = step /\ old'[r] = i /\ oldCopy'[r] = record
          /\ new' = new /\ todo' = todo
      BY <1>1, <1>2, <2>1, ChangeTypes
    <2>3. Typed(r)'
      BY <1>1, <1>2, <2>1, <2>2 DEF Typed, HasOld, HasNew, HasNewCopy, MakesNew
    <2>4. QED BY <2>2, <2>3, QuietTypes
  <1>3. \A i \in Ids, s \in Status : [file[i] EXCEPT !.status = s] \in Record
    BY <1>1 DEF Record
  <1>4. CASE BeginDecide(r)
    BY <1>2, <1>3, <1>4 DEF BeginDecide, Status
  <1>5. CASE BeginEdit(r)
    <2>1. \A i \in Ids, b \in Bodies : [file[i] EXCEPT !.body = b] \in Record
      BY <1>1 DEF Record
    <2>2. QED BY <1>2, <1>5, <2>1 DEF BeginEdit
  <1>6. CASE BeginSupersede(r)
    BY <1>2, <1>3, <1>6 DEF BeginSupersede, Status
  <1>7. CASE ReadPending(r)
    <2>1. pc[r] = "all" /\ todo[r] \subseteq Ids BY <1>1, <1>7 DEF ReadPending, Typed
    <2>2. QED BY <1>2, <1>3, <1>7, <2>1 DEF ReadPending, Status
  <1>8. QED BY <1>4, <1>5, <1>6, <1>7

\* The other steps that read.
LEMMA ReaderTypes ==
  ASSUME TypeOK, NEW r \in Requests,
         BeginCreate(r) \/ MintReplacement(r) \/ BeginAcceptAll(r) \/ BeginLink(r)
           \/ ReadNew(r) \/ ReadBack(r)
  PROVE  TypeOK' /\ OthersWait(r) /\ Ids \subseteq Ids'
  <1>1. Threads /\ Typed(r) /\ Ids \subseteq Numbers /\ file \in [Ids -> Record]
    BY ThreadTypes DEF TypeOK
  <1>2. CASE BeginCreate(r) \/ MintReplacement(r)
    <2>1. PICK n \in Numbers, b \in Bodies :
            /\ new' = [new EXCEPT ![r] = n] /\ newCopy' = [newCopy EXCEPT ![r] = Fresh(b)]
      BY <1>2 DEF BeginCreate, MintReplacement
    <2>2. Threads' /\ OthersWait(r) /\ file' = file
      BY <1>1, <1>2, <2>1, FreshRecord
      DEF Threads, OthersWait, BeginCreate, MintReplacement, HasOld, HasNew
    <2>3. Ids' = Ids BY <2>2 DEF Ids
    <2>4. Typed(r)'
      BY <1>1, <1>2, <2>1, <2>3, FreshRecord
      DEF Threads, Typed, BeginCreate, MintReplacement, HasOld, HasNew, HasNewCopy, MakesNew
    <2>5. QED BY <2>2, <2>4, QuietTypes
  <1>3. CASE BeginAcceptAll(r)
    <2>1. Threads' /\ OthersWait(r) /\ file' = file
      BY <1>1, <1>3 DEF Threads, OthersWait, BeginAcceptAll
    <2>2. Ids' = Ids BY <2>1 DEF Ids
    <2>3. Typed(r)'
      BY <1>1, <1>3, <2>2
      DEF Threads, Typed, BeginAcceptAll, HasOld, HasNew, HasNewCopy, MakesNew
    <2>4. QED BY <2>1, <2>3, QuietTypes
  <1>4. CASE BeginLink(r)
    <2>1. PICK o \in Ids, n \in Ids :
            /\ old' = [old EXCEPT ![r] = o] /\ new' = [new EXCEPT ![r] = n]
            /\ oldCopy' = [oldCopy EXCEPT ![r] = file[o]]
      BY <1>4 DEF BeginLink
    <2>2. Threads' /\ OthersWait(r) /\ file' = file
      BY <1>1, <1>4, <2>1 DEF Threads, OthersWait, BeginLink, HasOld
    <2>3. Ids' = Ids BY <2>2 DEF Ids
    <2>4. Typed(r)'
      BY <1>1, <1>4, <2>1, <2>3
      DEF Threads, Typed, BeginLink, HasOld, HasNew, HasNewCopy, MakesNew
    <2>5. QED BY <2>2, <2>4, QuietTypes
  <1>5. CASE ReadNew(r)
    <2>1. file' = file BY <1>5 DEF ReadNew
    <2> DEFINE refused == \/ AlreadyLinked(old[r], new[r], oldCopy[r], file[new[r]])
                          \/ LinkRefused(old[r], file[new[r]], oldCopy[r])
    <2>2. CASE refused
      <3>1. Leave(r) BY <1>5, <2>2 DEF ReadNew
      <3>2. QED BY <1>1, <2>1, <3>1, LeaveTypes, QuietTypes
    <2>3. CASE ~refused
      <3>1. /\ old[r] \in Ids /\ new[r] \in Ids /\ oldCopy[r] \in Record /\ file[new[r]] \in Record
            /\ pc[r] = "readNew"
        BY <1>1, <1>5 DEF ReadNew, Typed, HasOld, HasNew, MakesNew
      <3>2. /\ newCopy' = [newCopy EXCEPT ![r] = Superseding(file[new[r]], old[r])]
            /\ oldCopy' = [oldCopy EXCEPT ![r] = Superseded(oldCopy[r], new[r])]
            /\ pc' = [pc EXCEPT ![r] = "linkNew"] /\ UNCHANGED <<old, new, todo>>
        BY <1>5, <2>3 DEF ReadNew
      <3>3. Superseding(file[new[r]], old[r]) \in Record
        BY <1>1, <3>1 DEF Superseding, Record
      <3>4. Superseded(oldCopy[r], new[r]) \in Record
        BY <1>1, <3>1 DEF Superseded, Record, Status
      <3>5. Threads' /\ OthersWait(r)
        BY <1>1, <3>2, <3>3, <3>4 DEF Threads, OthersWait, HasOld
      <3>6. Ids' = Ids BY <2>1 DEF Ids
      <3>7. Typed(r)'
        BY <1>1, <3>1, <3>2, <3>3, <3>4, <3>6
        DEF Threads, Typed, HasOld, HasNew, HasNewCopy, MakesNew
      <3>8. QED BY <2>1, <3>5, <3>7, QuietTypes
    <2>4. QED BY <2>2, <2>3
  <1>6. CASE ReadBack(r)
    <2>1. /\ old[r] \in Ids /\ new[r] \in Ids /\ oldCopy[r] \in Record /\ newCopy[r] \in Record
          /\ file[new[r]] \in Record /\ pc[r] = "readBack"
      BY <1>1, <1>6 DEF ReadBack, Typed, HasOld, HasNew, HasNewCopy, MakesNew
    <2>2. [file[new[r]] EXCEPT !.supersedes = {old[r]}, !.body = newCopy[r].body] \in Record
      BY <1>1, <2>1 DEF Record
    <2>3. [oldCopy[r] EXCEPT !.supersededBy = {new[r]}] \in Record
      BY <1>1, <2>1 DEF Record
    <2>4. oldCopy' = [oldCopy EXCEPT ![r] = [oldCopy[r] EXCEPT !.supersededBy = {new[r]}]]
      BY <1>6 DEF ReadBack
    <2>5. Threads' /\ OthersWait(r) /\ file' = file
      BY <1>1, <1>6, <2>2, <2>3, <2>4 DEF Threads, OthersWait, ReadBack, HasOld
    <2>6. Ids' = Ids BY <2>5 DEF Ids
    <2>7. Typed(r)'
      BY <1>1, <1>6, <2>1, <2>2, <2>3, <2>4, <2>6
      DEF ReadBack, Threads, Typed, HasOld, HasNew, HasNewCopy, MakesNew
    <2>8. QED BY <2>5, <2>7, QuietTypes
  <1>7. QED BY <1>2, <1>3, <1>4, <1>5, <1>6

\* The steps that write a record.
LEMMA WriterStepTypes ==
  ASSUME TypeOK, NEW r \in Requests,
         WriteCreated(r) \/ WriteChanged(r) \/ WriteAccepted(r) \/ WriteReplacement(r)
           \/ WriteLinkNew(r) \/ WriteLinkOld(r)
  PROVE  TypeOK' /\ OthersWait(r) /\ Ids \subseteq Ids'
  <1>1. Threads /\ Typed(r) /\ Ids \subseteq Numbers /\ file \in [Ids -> Record]
    BY ThreadTypes DEF TypeOK
  <1>2. CASE WriteCreated(r)
    <2>1. new[r] \in Numbers /\ newCopy[r] \in Record
      BY <1>1, <1>2 DEF WriteCreated, Typed, HasNew, HasNewCopy
    <2>2. WriteRecord(new[r], newCopy[r]) /\ Leave(r) BY <1>2 DEF WriteCreated
    <2>3. QED BY <1>1, <2>1, <2>2, LeaveTypes, WriterTypes
  <1>3. CASE WriteChanged(r) \/ WriteLinkOld(r)
    <2>1. old[r] \in Numbers /\ oldCopy[r] \in Record
      BY <1>1, <1>3 DEF WriteChanged, WriteLinkOld, Typed, HasOld
    <2>2. WriteRecord(old[r], oldCopy[r]) /\ Leave(r) BY <1>3 DEF WriteChanged, WriteLinkOld
    <2>3. QED BY <1>1, <2>1, <2>2, LeaveTypes, WriterTypes
  <1>4. CASE WriteAccepted(r)
    <2>1. old[r] \in Numbers /\ oldCopy[r] \in Record /\ pc[r] = "accept" /\ todo[r] \subseteq Ids
      BY <1>1, <1>4 DEF WriteAccepted, Typed, HasOld
    <2>2. WriteRecord(old[r], oldCopy[r]) BY <1>4 DEF WriteAccepted
    <2>3. CASE todo[r] = {old[r]}
      <3>1. Leave(r) BY <1>4, <2>3 DEF WriteAccepted
      <3>2. QED BY <1>1, <2>1, <2>2, <3>1, LeaveTypes, WriterTypes
    <2>4. CASE todo[r] # {old[r]}
      <3>1. /\ todo' = [todo EXCEPT ![r] = @ \ {old[r]}] /\ pc' = [pc EXCEPT ![r] = "all"]
            /\ old' = [old EXCEPT ![r] = 0] /\ oldCopy' = [oldCopy EXCEPT ![r] = NoCopy]
            /\ UNCHANGED <<new, newCopy>>
        BY <1>4, <2>4 DEF WriteAccepted
      <3>2. Threads' /\ OthersWait(r) BY <1>1, <3>1 DEF Threads, OthersWait
      <3>3. Ids \subseteq Ids' BY <2>1, <2>2, WriteTypes
      <3>4. Typed(r)'
        BY <1>1, <2>1, <3>1, <3>3 DEF Threads, Typed, HasOld, HasNew, HasNewCopy, MakesNew
      <3>5. QED BY <2>1, <2>2, <3>2, <3>4, WriterTypes
    <2>5. QED BY <2>3, <2>4
  <1>5. CASE WriteReplacement(r) \/ WriteLinkNew(r)
    <2>1. new[r] \in Numbers /\ newCopy[r] \in Record
      BY <1>1, <1>5 DEF WriteReplacement, WriteLinkNew, Typed, HasNew, HasNewCopy
    <2>2. WriteRecord(new[r], newCopy[r]) BY <1>5 DEF WriteReplacement, WriteLinkNew
    <2>3. Threads' /\ OthersWait(r)
      BY <1>1, <1>5 DEF Threads, OthersWait, WriteReplacement, WriteLinkNew, HasOld
    <2>4. Ids \subseteq Ids' /\ new[r] \in Ids' BY <2>1, <2>2, WriteTypes
    <2>5. Typed(r)'
      BY <1>1, <1>5, <2>1, <2>4
      DEF WriteReplacement, WriteLinkNew, Threads, Typed, HasOld, HasNew, HasNewCopy, MakesNew
    <2>6. QED BY <2>1, <2>2, <2>3, <2>5, WriterTypes
  <1>6. QED BY <1>2, <1>3, <1>4, <1>5

LEMMA StepTypes ==
  ASSUME TypeOK, NEW r \in Requests, Step(r)
  PROVE  TypeOK' /\ OthersWait(r) /\ Ids \subseteq Ids'
  <1>1. CASE Abort(r)
    <2>1. Leave(r) /\ file' = file BY <1>1 DEF Abort
    <2>2. QED BY <2>1, ThreadTypes, LeaveTypes, QuietTypes
  <1>2. QED BY <1>1, BeginTypes, ReaderTypes, WriterStepTypes DEF Step

\* Files and requests keep their types, and no record disappears, also when
\* requests work on the same records and die at any point.
THEOREM TypeCorrect == Spec => []TypeOK
  <1>1. TypeOK /\ [Next]_vars => TypeOK'
    <2>1. SUFFICES ASSUME TypeOK, [Next]_vars PROVE TypeOK' OBVIOUS
    <2>2. CASE Next BY <2>1, <2>2, StepTypes DEF Next
    <2>3. CASE UNCHANGED vars
      <3>1. Ids' = Ids BY <2>3 DEF vars, Ids
      <3>2. \A r \in Requests : Typed(r)' BY <2>1, <2>3, <3>1 DEF TypeOK, Typed, vars
      <3>3. QED BY <2>1, <2>3, <3>1, <3>2 DEF TypeOK, vars
    <2>4. QED BY <2>1, <2>2, <2>3
  <1>2. QED BY InitTypes, <1>1, PTL DEF Spec

-----------------------------------------------------------------------------
(* Requests that work on different records.                                *)

\* A request only takes on records nobody else works on.
LEMMA AloneKept ==
  ASSUME Alone, NEW r \in Requests, OthersWait(r), NEW ids,
         \A q \in Requests \ {r} : Holds(q) \cap ids = {},
         Holds(r)' \subseteq Holds(r) \cup ids
  PROVE  Alone'
  <1>1. \A q \in Requests \ {r} : Holds(q)' = Holds(q) BY DEF OthersWait, Holds
  <1>2. \A q \in Requests \ {r} : Holds(q) \cap Holds(r)' = {} BY DEF Alone
  <1>3. SUFFICES ASSUME NEW p \in Requests, NEW q \in Requests, p # q
                 PROVE  Holds(p)' \cap Holds(q)' = {}
    BY DEF Alone
  <1>4. CASE p # r /\ q # r BY <1>1, <1>3, <1>4 DEF Alone
  <1>5. CASE p = r \/ q = r
    <2>1. CASE p = r
      <3>1. q \in Requests \ {r} BY <1>3, <2>1
      <3>2. Holds(q)' = Holds(q) /\ Holds(q) \cap Holds(r)' = {} BY <1>1, <1>2, <3>1
      <3>3. QED BY <2>1, <3>2
    <2>2. CASE q = r
      <3>1. p \in Requests \ {r} BY <1>3, <2>2
      <3>2. Holds(p)' = Holds(p) /\ Holds(p) \cap Holds(r)' = {} BY <1>1, <1>2, <3>1
      <3>3. QED BY <2>2, <3>2
    <2>3. QED BY <1>5, <2>1, <2>2
  <1>6. QED BY <1>4, <1>5

LEMMA AloneNext ==
  ASSUME ~Overlap, TypeOK, Alone, NEW r \in Requests, Step(r)
  PROVE  Alone'
  <1>1. OthersWait(r) BY StepTypes
  <1>2. Threads /\ Typed(r) BY ThreadTypes DEF TypeOK
  <1>3. ASSUME Holds(r)' \subseteq Holds(r) PROVE Alone'
    <2>1. /\ \A q \in Requests \ {r} : Holds(q) \cap {} = {}
          /\ Holds(r)' \subseteq Holds(r) \cup {}
      BY <1>3
    <2>2. QED BY <1>1, <2>1, AloneKept
  <1>4. ASSUME NEW ids, Free(r, ids), Holds(r)' \subseteq Holds(r) \cup ids
        PROVE  Alone'
    BY <1>1, <1>4, AloneKept DEF Free
  <1>5. ASSUME Leave(r) PROVE Alone'
    <2>1. Holds(r)' = {} BY <1>2, <1>5, LeaveTypes DEF Holds
    <2>2. QED BY <1>3, <2>1
  <1>6. ASSUME NEW i, NEW record, NEW step, Change(r, i, record, step) PROVE Alone'
    <2>1. Holds(r)' \subseteq Holds(r) \cup {i}
      BY <1>2, <1>6 DEF Change, Threads, Holds
    <2>2. QED BY <1>4, <1>6, <2>1 DEF Change
  <1>7. CASE BeginDecide(r) \/ BeginEdit(r) \/ BeginSupersede(r) \/ ReadPending(r)
    BY <1>6, <1>7 DEF BeginDecide, BeginEdit, BeginSupersede, ReadPending
  <1>8. CASE WriteCreated(r) \/ WriteChanged(r) \/ WriteLinkOld(r) \/ Abort(r)
    BY <1>5, <1>8 DEF WriteCreated, WriteChanged, WriteLinkOld, Abort
  <1>9. CASE BeginCreate(r) \/ MintReplacement(r)
    <2>1. PICK n \in Numbers, b \in Bodies :
            Free(r, {n}) /\ new' = [new EXCEPT ![r] = n]
      BY <1>9 DEF BeginCreate, MintReplacement
    <2>2. Holds(r)' \subseteq Holds(r) \cup {n}
      BY <1>2, <1>9, <2>1 DEF BeginCreate, MintReplacement, Threads, Holds
    <2>3. QED BY <1>4, <2>1, <2>2
  <1>10. CASE BeginAcceptAll(r)
    <2>1. PICK ids : Free(r, ids) /\ todo' = [todo EXCEPT ![r] = ids]
      BY <1>10 DEF BeginAcceptAll
    <2>2. Holds(r)' \subseteq Holds(r) \cup ids
      BY <1>2, <1>10, <2>1 DEF BeginAcceptAll, Threads, Holds
    <2>3. QED BY <1>4, <2>1, <2>2
  <1>11. CASE BeginLink(r)
    <2>1. PICK o \in Ids, n \in Ids :
            Free(r, {o, n}) /\ old' = [old EXCEPT ![r] = o] /\ new' = [new EXCEPT ![r] = n]
      BY <1>11 DEF BeginLink
    <2>2. Holds(r)' \subseteq Holds(r) \cup {o, n}
      BY <1>2, <1>11, <2>1 DEF BeginLink, Threads, Holds
    <2>3. QED BY <1>4, <2>1, <2>2
  <1>12. CASE WriteAccepted(r)
    <2>1. CASE todo[r] = {old[r]} BY <1>5, <1>12, <2>1 DEF WriteAccepted
    <2>2. CASE todo[r] # {old[r]}
      <3>1. Holds(r)' \subseteq Holds(r)
        BY <1>2, <1>12, <2>2 DEF WriteAccepted, Threads, Holds
      <3>2. QED BY <1>3, <3>1
    <2>3. QED BY <2>1, <2>2
  <1>13. CASE ReadNew(r)
    <2>1. Leave(r) \/ Holds(r)' = Holds(r) BY <1>2, <1>13 DEF ReadNew, Holds
    <2>2. QED BY <1>3, <1>5, <2>1
  <1>14. CASE ReadBack(r) \/ WriteReplacement(r) \/ WriteLinkNew(r)
    <2>1. Holds(r)' = Holds(r) BY <1>14 DEF ReadBack, WriteReplacement, WriteLinkNew, Holds
    <2>2. QED BY <1>3, <2>1
  <1>15. QED BY <1>7, <1>8, <1>9, <1>10, <1>11, <1>12, <1>13, <1>14 DEF Step

\* Files that nobody else works on stay as a request read them.
LEMMA OthersKnow ==
  ASSUME TypeOK, NEW r \in Requests, OthersWait(r), NEW q \in Requests, q # r, RequestInv(q),
         \A i \in Holds(q) : /\ i \in Ids <=> i \in Ids'
                             /\ i \in Ids => file'[i] = file[i],
         reopened \subseteq reopened'
  PROVE  RequestInv(q)'
  <1>1. /\ pc'[q] = pc[q] /\ old'[q] = old[q] /\ new'[q] = new[q]
        /\ oldCopy'[q] = oldCopy[q] /\ newCopy'[q] = newCopy[q]
    BY DEF OthersWait
  <1>2. Typed(q) /\ Ids \subseteq Numbers BY DEF TypeOK
  <1>3. 0 \notin Numbers BY DEF Numbers
  <1>4. pc[q] \in HasOld => file'[old[q]] = file[old[q]]
    BY <1>2, <1>3 DEF Typed, Holds
  <1>5. pc[q] \in HasNew /\ pc[q] \notin MakesNew => file'[new[q]] = file[new[q]]
    BY <1>2, <1>3 DEF Typed, Holds
  <1>6. pc[q] \in MakesNew /\ new[q] \notin Ids => new[q] \notin Ids'
    BY <1>2, <1>3 DEF Typed, Holds, MakesNew, HasNew
  <1>7. pc[q] \in {"change", "accept", "mint", "replace", "readBack", "linkNew", "linkOld", "readNew"}
          => pc[q] \in HasOld
    BY DEF HasOld
  <1>8. pc[q] \in {"readNew", "readBack", "linkNew", "linkOld"}
          => pc[q] \in HasNew /\ pc[q] \notin MakesNew
    BY DEF HasNew, MakesNew
  <1>9. MakesNew \subseteq HasNew BY DEF HasNew, MakesNew
  <1>10. QED
    BY <1>1, <1>4, <1>5, <1>6, <1>7, <1>8, <1>9 DEF RequestInv, Keeps, SameLinks, LinksTo

\* A step writes nothing, or one of the two records the request holds.
LEMMA StepWrites ==
  ASSUME TypeOK, NEW r \in Requests, Step(r)
  PROVE  \/ file' = file /\ reopened' = reopened
         \/ /\ pc[r] \in HasOld /\ old[r] \in Ids /\ oldCopy[r] \in Record
            /\ WriteRecord(old[r], oldCopy[r]) /\ reopened \subseteq reopened'
         \/ /\ pc[r] \in HasNewCopy /\ new[r] \in Numbers /\ newCopy[r] \in Record
            /\ WriteRecord(new[r], newCopy[r]) /\ reopened' = reopened
  <1>1. Typed(r) BY DEF TypeOK
  <1>2. CASE WriteChanged(r) \/ WriteAccepted(r) \/ WriteLinkOld(r)
    <2>1. pc[r] \in HasOld BY <1>2 DEF WriteChanged, WriteAccepted, WriteLinkOld, HasOld
    <2>2. old[r] \in Ids /\ oldCopy[r] \in Record BY <1>1, <2>1 DEF Typed
    <2>3. WriteRecord(old[r], oldCopy[r]) /\ reopened \subseteq reopened'
      BY <1>2 DEF WriteChanged, WriteAccepted, WriteLinkOld, NoteReopened
    <2>4. QED BY <2>1, <2>2, <2>3
  <1>3. CASE WriteCreated(r) \/ WriteReplacement(r) \/ WriteLinkNew(r)
    <2>1. pc[r] \in HasNewCopy
      BY <1>3 DEF WriteCreated, WriteReplacement, WriteLinkNew, HasNewCopy, HasNew
    <2>2. new[r] \in Numbers /\ newCopy[r] \in Record BY <1>1, <2>1 DEF Typed, HasNewCopy
    <2>3. WriteRecord(new[r], newCopy[r]) /\ reopened' = reopened
      BY <1>3 DEF WriteCreated, WriteReplacement, WriteLinkNew, history
    <2>4. QED BY <2>1, <2>2, <2>3
  <1>4. CASE ~(\/ WriteChanged(r) \/ WriteAccepted(r) \/ WriteLinkOld(r)
               \/ WriteCreated(r) \/ WriteReplacement(r) \/ WriteLinkNew(r))
    BY <1>4 DEF Step, BeginCreate, BeginDecide, BeginEdit, BeginAcceptAll, ReadPending, BeginLink,
                ReadNew, BeginSupersede, MintReplacement, ReadBack, Abort, Change, history
  <1>5. QED BY <1>2, <1>3, <1>4

\* What r writes is none of the others' records.
LEMMA OthersKnowStep ==
  ASSUME TypeOK, Alone, \A q \in Requests : RequestInv(q), NEW r \in Requests, Step(r)
  PROVE  \A q \in Requests \ {r} : RequestInv(q)'
  <1>1. SUFFICES ASSUME NEW q \in Requests, q # r PROVE RequestInv(q)' OBVIOUS
  <1>2. OthersWait(r) BY StepTypes
  <1>3. RequestInv(q) OBVIOUS
  <1>4. Holds(q) \cap Holds(r) = {} BY <1>1 DEF Alone
  <1>5. Ids \subseteq Numbers /\ 0 \notin Numbers BY DEF TypeOK, Numbers
  <1>6. CASE file' = file /\ reopened' = reopened
    <2>1. Ids' = Ids BY <1>6 DEF Ids
    <2>2. QED BY <1>1, <1>2, <1>3, <1>6, <2>1, OthersKnow
  <1>7. ASSUME NEW i \in Holds(r), NEW record \in Record, i \in Numbers,
               WriteRecord(i, record), reopened \subseteq reopened'
        PROVE  RequestInv(q)'
    <2>1. i \notin Holds(q) BY <1>4
    <2>2. Ids' = Ids \cup {i} /\ \A j \in Ids : j # i => file'[j] = file[j]
      BY <1>7, WriteTypes
    <2>3. QED BY <1>1, <1>2, <1>3, <1>7, <2>1, <2>2, OthersKnow
  <1>8. old[r] \in Numbers => old[r] \in Holds(r) BY <1>5 DEF Holds
  <1>9. new[r] \in Numbers => new[r] \in Holds(r) BY <1>5 DEF Holds
  <1>10. QED BY <1>5, <1>6, <1>7, <1>8, <1>9, StepWrites

-----------------------------------------------------------------------------
(* What the acting request knows after its step.                           *)

\* The steps after which a request holds nothing.
LEMMA LeavingKnows ==
  ASSUME Threads, NEW r \in Requests, Leave(r)
  PROVE  RequestInv(r)'
  <1>1. pc'[r] = "idle" BY LeaveTypes
  <1>2. QED BY <1>1 DEF RequestInv, MakesNew

LEMMA BeginKnows ==
  ASSUME TypeOK, NEW r \in Requests,
         BeginDecide(r) \/ BeginEdit(r) \/ BeginSupersede(r) \/ ReadPending(r)
  PROVE  RequestInv(r)'
  <1>1. Threads /\ Typed(r) /\ Ids \subseteq Numbers /\ file \in [Ids -> Record]
    BY ThreadTypes DEF TypeOK
  <1>2. ASSUME NEW i, NEW record, NEW step, Change(r, i, record, step)
        PROVE  /\ pc'[r] = step /\ old'[r] = i /\ oldCopy'[r] = record /\ file' = file
    BY <1>1, <1>2 DEF Change, Threads
  <1>3. ASSUME NEW i \in Ids, NEW s \in {"accepted", "reverted"}, NEW step \in {"change", "accept"},
               Change(r, i, [file[i] EXCEPT !.status = s], step)
        PROVE  RequestInv(r)'
    <2>1. /\ pc'[r] = step /\ old'[r] = i /\ file' = file
          /\ oldCopy'[r] = [file[i] EXCEPT !.status = s]
      BY <1>2, <1>3
    <2>2. file[i] \in Record BY <1>1
    <2>3. QED BY <2>1, <2>2 DEF RequestInv, MakesNew, SameLinks, Keeps, Locked, Record
  <1>4. CASE BeginDecide(r) BY <1>3, <1>4 DEF BeginDecide
  <1>5. CASE ReadPending(r)
    <2>1. todo[r] \subseteq Ids BY <1>1, <1>5 DEF ReadPending, Typed
    <2>2. QED BY <1>3, <1>5, <2>1 DEF ReadPending
  <1>6. CASE BeginEdit(r)
    <2>1. PICK i \in Ids, b \in Bodies :
            file[i].status \notin Locked /\ Change(r, i, [file[i] EXCEPT !.body = b], "change")
      BY <1>6 DEF BeginEdit
    <2>2. /\ pc'[r] = "change" /\ old'[r] = i /\ file' = file
          /\ oldCopy'[r] = [file[i] EXCEPT !.body = b]
      BY <1>2, <2>1
    <2>3. file[i] \in Record BY <1>1
    <2>4. QED BY <2>1, <2>2, <2>3 DEF RequestInv, MakesNew, SameLinks, Keeps, Record
  <1>7. CASE BeginSupersede(r)
    <2>1. PICK o \in Ids :
            /\ file[o].status \notin {"superseded", "reverted"}
            /\ Change(r, o, [file[o] EXCEPT !.status = "superseded"], "mint")
      BY <1>7 DEF BeginSupersede
    <2>2. /\ pc'[r] = "mint" /\ old'[r] = o /\ file' = file
          /\ oldCopy'[r] = [file[o] EXCEPT !.status = "superseded"]
      BY <1>2, <2>1
    <2>3. QED BY <2>1, <2>2 DEF RequestInv, MakesNew
  <1>8. QED BY <1>4, <1>5, <1>6, <1>7

LEMMA NextIsNew ==
  ASSUME TypeOK, NEW n, IsNextNumber(n)
  PROVE  n \in Numbers /\ n \notin Ids
  BY MaxNumberAssumption DEF TypeOK, IsNextNumber, Numbers

LEMMA MakerKnows ==
  ASSUME TypeOK, NEW r \in Requests, RequestInv(r), BeginCreate(r) \/ MintReplacement(r)
  PROVE  RequestInv(r)'
  <1>1. Threads /\ Typed(r) BY ThreadTypes DEF TypeOK
  <1>2. PICK n \in Numbers, b \in Bodies :
          /\ IsNextNumber(n)
          /\ new' = [new EXCEPT ![r] = n] /\ newCopy' = [newCopy EXCEPT ![r] = Fresh(b)]
    BY DEF BeginCreate, MintReplacement
  <1>3. n \notin Ids BY <1>2, NextIsNew
  <1>4. file' = file /\ Ids' = Ids BY DEF BeginCreate, MintReplacement, Ids
  <1>5. new'[r] = n /\ newCopy'[r] = Fresh(b) BY <1>1, <1>2 DEF Threads
  <1>6. CASE BeginCreate(r)
    <2>1. pc'[r] = "create" BY <1>1, <1>6 DEF BeginCreate, Threads
    <2>2. QED BY <1>3, <1>4, <1>5, <2>1, FreshRecord DEF RequestInv, MakesNew
  <1>7. CASE MintReplacement(r)
    <2>1. pc[r] = "mint" /\ pc'[r] = "replace" /\ old' = old /\ oldCopy' = oldCopy
      BY <1>1, <1>7 DEF MintReplacement, Threads
    <2>2. QED BY <1>3, <1>4, <1>5, <2>1, FreshRecord DEF RequestInv, MakesNew
  <1>8. QED BY <1>6, <1>7

LEMMA AcceptAllKnows ==
  ASSUME TypeOK, NEW r \in Requests, BeginAcceptAll(r)
  PROVE  RequestInv(r)'
  <1>1. pc'[r] = "all" BY ThreadTypes DEF BeginAcceptAll, Threads
  <1>2. QED BY <1>1 DEF RequestInv, MakesNew

LEMMA BeginLinkKnows ==
  ASSUME TypeOK, NEW r \in Requests, BeginLink(r)
  PROVE  RequestInv(r)'
  <1>1. Threads BY ThreadTypes
  <1>2. PICK o \in Ids, n \in Ids :
          /\ o # n /\ old' = [old EXCEPT ![r] = o] /\ new' = [new EXCEPT ![r] = n]
          /\ oldCopy' = [oldCopy EXCEPT ![r] = file[o]]
    BY DEF BeginLink
  <1>3. /\ pc'[r] = "readNew" /\ file' = file
        /\ old'[r] = o /\ new'[r] = n /\ oldCopy'[r] = file[o]
    BY <1>1, <1>2 DEF BeginLink, Threads
  <1>4. QED BY <1>2, <1>3 DEF RequestInv, MakesNew

\* A link that one side knows is known by the other, so a link that is not
\* refused is on neither side.
LEMMA ReadNewKnows ==
  ASSUME TypeOK, NEW r \in Requests, RequestInv(r), Mirrored, ReadNew(r)
  PROVE  RequestInv(r)'
  <1>1. Threads /\ Typed(r) /\ file \in [Ids -> Record] BY ThreadTypes DEF TypeOK
  <1> DEFINE refused == \/ AlreadyLinked(old[r], new[r], oldCopy[r], file[new[r]])
                        \/ LinkRefused(old[r], file[new[r]], oldCopy[r])
  <1>2. CASE refused
    <2>1. Leave(r) BY <1>2 DEF ReadNew
    <2>2. QED BY <1>1, <2>1, LeavingKnows
  <1>3. CASE ~refused
    <2>1. /\ pc[r] = "readNew" /\ old[r] \in Ids /\ new[r] \in Ids /\ old[r] # new[r]
          /\ oldCopy[r] = file[old[r]]
      BY <1>1 DEF ReadNew, Typed, RequestInv, HasOld, HasNew, MakesNew
    <2>2. /\ newCopy' = [newCopy EXCEPT ![r] = Superseding(file[new[r]], old[r])]
          /\ oldCopy' = [oldCopy EXCEPT ![r] = Superseded(oldCopy[r], new[r])]
          /\ pc' = [pc EXCEPT ![r] = "linkNew"] /\ UNCHANGED <<old, new, file, reopened>>
      BY <1>3 DEF ReadNew, history
    <2>3. /\ pc'[r] = "linkNew" /\ newCopy'[r] = Superseding(file[new[r]], old[r])
          /\ oldCopy'[r] = Superseded(file[old[r]], new[r])
      BY <1>1, <2>1, <2>2 DEF Threads
    <2>4. file[old[r]] \in Record /\ file[new[r]] \in Record BY <1>1, <2>1
    <2>5. new[r] \notin file[old[r]].supersededBy
      BY <1>3, <2>1 DEF Mirrored, AlreadyLinked
    <2>6. /\ Superseding(file[new[r]], old[r]).supersedes = file[new[r]].supersedes \cup {old[r]}
          /\ Superseding(file[new[r]], old[r]).supersededBy = file[new[r]].supersededBy
          /\ Superseding(file[new[r]], old[r]).status = file[new[r]].status
          /\ Superseding(file[new[r]], old[r]).body = file[new[r]].body
      BY <2>4 DEF Superseding, Record
    <2>7. /\ Superseded(file[old[r]], new[r]).status = "superseded"
          /\ Superseded(file[old[r]], new[r]).supersedes = file[old[r]].supersedes
          /\ Superseded(file[old[r]], new[r]).supersededBy = file[old[r]].supersededBy \cup {new[r]}
          /\ Superseded(file[old[r]], new[r]).body = file[old[r]].body
      BY <2>4 DEF Superseded, Record
    <2>8. QED
      BY <2>1, <2>2, <2>3, <2>5, <2>6, <2>7
      DEF RequestInv, MakesNew, LinksTo, Keeps, Locked
  <1>4. QED BY <1>2, <1>3

\* The replacement that is read back is the one that was written, and nobody
\* is superseded by it yet.
LEMMA ReadBackKnows ==
  ASSUME TypeOK, NEW r \in Requests, RequestInv(r), Mirrored, Reopened, ReadBack(r)
  PROVE  RequestInv(r)'
  <1>1. Threads /\ Typed(r) /\ file \in [Ids -> Record] BY ThreadTypes DEF TypeOK
  <1>2. /\ pc[r] = "readBack" /\ old[r] \in Ids /\ new[r] \in Ids /\ old[r] # new[r]
        /\ file[old[r]].status \notin {"superseded", "reverted"}
        /\ oldCopy[r] = [file[old[r]] EXCEPT !.status = "superseded"]
        /\ file[new[r]] = newCopy[r] /\ newCopy[r].supersedes = {}
    BY <1>1 DEF ReadBack, Typed, RequestInv, HasOld, HasNew, MakesNew
  <1>3. file[old[r]] \in Record /\ file[new[r]] \in Record BY <1>1, <1>2
  <1>4. oldCopy' = [oldCopy EXCEPT ![r] = [oldCopy[r] EXCEPT !.supersededBy = {new[r]}]]
    BY DEF ReadBack
  <1>5. /\ pc'[r] = "linkNew" /\ UNCHANGED <<old, new, file, reopened>>
        /\ newCopy'[r] = [file[new[r]] EXCEPT !.supersedes = {old[r]}, !.body = newCopy[r].body]
        /\ oldCopy'[r] = [oldCopy[r] EXCEPT !.supersededBy = {new[r]}]
    BY <1>1, <1>4 DEF ReadBack, Threads, history
  <1>6. new[r] \notin file[old[r]].supersededBy BY <1>2 DEF Mirrored
  <1>7. file[old[r]].supersededBy = {} \/ old[r] \in reopened BY <1>2 DEF Reopened
  <1>8. /\ oldCopy'[r].status = "superseded" /\ oldCopy'[r].body = file[old[r]].body
        /\ oldCopy'[r].supersedes = file[old[r]].supersedes
        /\ oldCopy'[r].supersededBy = {new[r]}
    BY <1>2, <1>3, <1>5 DEF Record
  <1>9. /\ newCopy'[r].supersedes = file[new[r]].supersedes \cup {old[r]}
        /\ newCopy'[r].supersededBy = file[new[r]].supersededBy
        /\ newCopy'[r].status = file[new[r]].status /\ newCopy'[r].body = file[new[r]].body
    BY <1>2, <1>3, <1>5 DEF Record
  <1>10. QED
    BY <1>2, <1>5, <1>6, <1>7, <1>8, <1>9 DEF RequestInv, MakesNew, LinksTo, Keeps, Locked

\* The steps that write and go on.
LEMMA WriterKnows ==
  ASSUME TypeOK, NEW r \in Requests, RequestInv(r),
         WriteReplacement(r) \/ WriteLinkNew(r) \/ WriteAccepted(r)
  PROVE  RequestInv(r)'
  <1>1. Threads /\ Typed(r) /\ file \in [Ids -> Record] BY ThreadTypes DEF TypeOK
  <1>2. CASE WriteAccepted(r)
    <2>1. CASE todo[r] = {old[r]}
      <3>1. Leave(r) BY <1>2, <2>1 DEF WriteAccepted
      <3>2. QED BY <1>1, <3>1, LeavingKnows
    <2>2. CASE todo[r] # {old[r]}
      <3>1. pc'[r] = "all" BY <1>1, <1>2, <2>2 DEF WriteAccepted, Threads
      <3>2. QED BY <3>1 DEF RequestInv, MakesNew
    <2>3. QED BY <2>1, <2>2
  <1>3. CASE WriteReplacement(r)
    <2>1. /\ pc[r] = "replace" /\ pc'[r] = "readBack"
          /\ UNCHANGED <<old, new, oldCopy, newCopy>> /\ WriteRecord(new[r], newCopy[r])
      BY <1>1, <1>3 DEF WriteReplacement, Threads
    <2>2. /\ old[r] \in Ids /\ new[r] \in Numbers /\ newCopy[r] \in Record
          /\ new[r] \notin Ids /\ newCopy[r].supersedes = {}
      BY <1>1, <2>1 DEF Typed, RequestInv, HasOld, HasNew, HasNewCopy, MakesNew
    <2>3. old[r] # new[r] /\ file'[new[r]] = newCopy[r] /\ file'[old[r]] = file[old[r]]
      BY <2>1, <2>2, WriteTypes
    <2>4. QED BY <2>1, <2>2, <2>3 DEF RequestInv, MakesNew
  <1>4. CASE WriteLinkNew(r)
    <2>1. /\ pc[r] = "linkNew" /\ pc'[r] = "linkOld" /\ reopened' = reopened
          /\ UNCHANGED <<old, new, oldCopy, newCopy>> /\ WriteRecord(new[r], newCopy[r])
      BY <1>1, <1>4 DEF WriteLinkNew, Threads, history
    <2>2. /\ old[r] \in Ids /\ new[r] \in Numbers /\ newCopy[r] \in Record /\ old[r] # new[r]
      BY <1>1, <2>1 DEF Typed, RequestInv, HasOld, HasNew, HasNewCopy, MakesNew
    <2>3. file'[new[r]] = newCopy[r] /\ file'[old[r]] = file[old[r]]
      BY <2>1, <2>2, WriteTypes
    <2>4. QED BY <2>1, <2>2, <2>3 DEF RequestInv, MakesNew, LinksTo, Keeps
  <1>5. QED BY <1>2, <1>3, <1>4

-----------------------------------------------------------------------------
(* The links on disk.                                                      *)

DiskInv == Mirrored /\ Answered /\ Reopened /\ CutInv

\* A link that is being written stays so while others step.
LEMMA LinkingKept ==
  ASSUME NEW r \in Requests, OthersWait(r), pc[r] # "linkOld", NEW o, NEW n, Linking(o, n)
  PROVE  Linking(o, n)'
  BY DEF Linking, OthersWait

\* Steps that write nothing, and do not end a half-written link.
LEMMA QuietDisk ==
  ASSUME TypeOK, DiskInv, NEW r \in Requests, OthersWait(r), pc[r] # "linkOld",
         file' = file, UNCHANGED history
  PROVE  DiskInv'
  <1>1. Ids' = Ids /\ cut' = cut /\ reopened' = reopened BY DEF Ids, history
  <1>2. Mirrored' /\ Reopened' /\ CutInv' BY <1>1 DEF DiskInv, Mirrored, Reopened, CutInv
  <1>3. Answered'
    <2>1. SUFFICES ASSUME NEW n \in Ids, NEW o \in file[n].supersedes
                   PROVE  o \in Ids /\ Settled(o, n)'
      BY <1>1 DEF Answered
    <2>2. o \in Ids /\ Settled(o, n) BY DEF DiskInv, Answered
    <2>3. Linking(o, n) => Linking(o, n)' BY LinkingKept
    <2>4. QED BY <1>1, <2>2, <2>3 DEF Settled
  <1>4. QED BY <1>2, <1>3 DEF DiskInv

\* A request that dies half way leaves a cut link.
LEMMA AbortDisk ==
  ASSUME TypeOK, DiskInv, NEW r \in Requests, RequestInv(r), Abort(r)
  PROVE  DiskInv'
  <1>1. OthersWait(r) BY ThreadTypes, LeaveTypes DEF Abort
  <1>2. file' = file /\ reopened' = reopened /\ Ids' = Ids BY DEF Abort, Ids
  <1>3. CASE pc[r] # "linkOld"
    BY <1>1, <1>2, <1>3, QuietDisk DEF Abort, history
  <1>4. CASE pc[r] = "linkOld"
    <2>1. cut' = cut \cup {<<old[r], new[r]>>} BY <1>4 DEF Abort
    <2>2. /\ old[r] \in Ids /\ new[r] \in Ids /\ old[r] \in file[new[r]].supersedes
          /\ new[r] \notin file[old[r]].supersededBy
      BY <1>4 DEF TypeOK, Typed, RequestInv, HasOld, HasNew, MakesNew
    <2>3. Mirrored' /\ Reopened' BY <1>2 DEF DiskInv, Mirrored, Reopened
    <2>4. CutInv' BY <1>2, <2>1, <2>2 DEF DiskInv, CutInv
    <2>5. Answered'
      <3>1. SUFFICES ASSUME NEW n \in Ids, NEW o \in file[n].supersedes
                     PROVE  o \in Ids /\ Settled(o, n)'
        BY <1>2 DEF Answered
      <3>2. o \in Ids /\ Settled(o, n) BY DEF DiskInv, Answered
      <3>3. Linking(o, n) => Linking(o, n)' \/ <<o, n>> \in cut'
        BY <1>1, <2>1 DEF Linking, OthersWait
      <3>4. QED BY <1>2, <2>1, <3>2, <3>3 DEF Settled
    <2>6. QED BY <2>3, <2>4, <2>5 DEF DiskInv
  <1>5. QED BY <1>3, <1>4

\* A new record has no links, and nobody has one to it.
LEMMA MakeDisk ==
  ASSUME TypeOK, DiskInv, NEW r \in Requests, RequestInv(r), WriteCreated(r) \/ WriteReplacement(r)
  PROVE  DiskInv'
  <1>1. OthersWait(r) BY StepTypes DEF Step
  <1>2. /\ new[r] \in Numbers /\ new[r] \notin Ids /\ newCopy[r] \in Record
        /\ newCopy[r].supersedes = {} /\ newCopy[r].supersededBy = {}
    BY DEF WriteCreated, WriteReplacement, TypeOK, Typed, RequestInv, HasNew, HasNewCopy, MakesNew
  <1>3. WriteRecord(new[r], newCopy[r]) /\ cut' = cut /\ reopened' = reopened /\ pc[r] # "linkOld"
    BY DEF WriteCreated, WriteReplacement, history
  <1>4. /\ Ids' = Ids \cup {new[r]} /\ file'[new[r]] = newCopy[r]
        /\ \A j \in Ids : file'[j] = file[j]
    BY <1>2, <1>3, WriteTypes
  <1>5. Mirrored' BY <1>2, <1>4 DEF DiskInv, Mirrored
  <1>6. Reopened' BY <1>2, <1>3, <1>4 DEF DiskInv, Reopened
  <1>7. CutInv' BY <1>2, <1>3, <1>4 DEF DiskInv, CutInv
  <1>8. Answered'
    <2>1. SUFFICES ASSUME NEW n \in Ids', NEW o \in file'[n].supersedes
                   PROVE  o \in Ids' /\ Settled(o, n)'
      BY DEF Answered
    <2>2. n \in Ids /\ o \in file[n].supersedes BY <1>2, <1>4
    <2>3. o \in Ids /\ Settled(o, n) BY <2>2 DEF DiskInv, Answered
    <2>4. Linking(o, n) => Linking(o, n)' BY <1>1, <1>3, LinkingKept
    <2>5. QED BY <1>3, <1>4, <2>3, <2>4 DEF Settled
  <1>9. QED BY <1>5, <1>6, <1>7, <1>8 DEF DiskInv

\* A change of status or body changes no link; a superseded record that is
\* given another status is noted.
LEMMA ChangeDisk ==
  ASSUME TypeOK, DiskInv, NEW r \in Requests, RequestInv(r), WriteChanged(r) \/ WriteAccepted(r)
  PROVE  DiskInv'
  <1>1. OthersWait(r) BY StepTypes DEF Step
  <1>2. /\ old[r] \in Numbers /\ old[r] \in Ids /\ oldCopy[r] \in Record
        /\ SameLinks(oldCopy[r], file[old[r]])
    BY DEF WriteChanged, WriteAccepted, TypeOK, Typed, RequestInv, HasOld
  <1>3. /\ WriteRecord(old[r], oldCopy[r]) /\ NoteReopened(old[r], oldCopy[r])
        /\ cut' = cut /\ pc[r] # "linkOld"
    BY DEF WriteChanged, WriteAccepted
  <1>4. /\ Ids' = Ids /\ file'[old[r]] = oldCopy[r]
        /\ \A j \in Ids : j # old[r] => file'[j] = file[j]
    BY <1>2, <1>3, WriteTypes
  <1>5. \A j \in Ids : /\ file'[j].supersedes = file[j].supersedes
                      /\ file'[j].supersededBy = file[j].supersededBy
    BY <1>2, <1>4 DEF SameLinks
  <1>6. reopened \subseteq reopened' BY <1>3 DEF NoteReopened
  <1>7. Mirrored' BY <1>4, <1>5 DEF DiskInv, Mirrored
  <1>8. Reopened'
    BY <1>2, <1>3, <1>4, <1>5, <1>6 DEF DiskInv, Reopened, NoteReopened
  <1>9. CutInv' BY <1>3, <1>4, <1>5 DEF DiskInv, CutInv
  <1>10. Answered'
    <2>1. SUFFICES ASSUME NEW n \in Ids, NEW o \in file[n].supersedes
                   PROVE  o \in Ids /\ Settled(o, n)'
      BY <1>4, <1>5 DEF Answered
    <2>2. o \in Ids /\ Settled(o, n) BY DEF DiskInv, Answered
    <2>3. Linking(o, n) => Linking(o, n)' BY <1>1, <1>3, LinkingKept
    <2>4. QED BY <1>3, <1>5, <1>6, <2>2, <2>3 DEF Settled
  <1>11. QED BY <1>7, <1>8, <1>9, <1>10 DEF DiskInv

\* The first write of a link: the replacing record names the old one.
LEMMA LinkNewDisk ==
  ASSUME TypeOK, DiskInv, NEW r \in Requests, RequestInv(r), WriteLinkNew(r)
  PROVE  DiskInv'
  <1>1. OthersWait(r) BY StepTypes DEF Step
  <1>2. /\ pc[r] = "linkNew" /\ WriteRecord(new[r], newCopy[r])
        /\ cut' = cut /\ reopened' = reopened /\ old' = old /\ new' = new
        /\ pc'[r] = "linkOld"
    BY ThreadTypes DEF WriteLinkNew, history, Threads
  <1>3. /\ old[r] \in Ids /\ new[r] \in Ids /\ new[r] \in Numbers /\ newCopy[r] \in Record
        /\ newCopy[r].supersedes = file[new[r]].supersedes \cup {old[r]}
        /\ newCopy[r].supersededBy = file[new[r]].supersededBy
        /\ newCopy[r].status = file[new[r]].status
    BY <1>2 DEF TypeOK, Typed, RequestInv, HasOld, HasNew, HasNewCopy, MakesNew
  <1>4. /\ Ids' = Ids /\ file'[new[r]] = newCopy[r]
        /\ \A j \in Ids : j # new[r] => file'[j] = file[j]
    <2>1. Ids' = Ids \cup {new[r]} BY <1>2, <1>3, WriteTypes
    <2>2. Ids' = Ids BY <1>3, <2>1
    <2>3. QED BY <1>2, <1>3, <2>2, WriteTypes
  <1>5. \A j \in Ids :
          /\ file'[j].supersededBy = file[j].supersededBy /\ file'[j].status = file[j].status
          /\ file'[j].supersedes = IF j = new[r] THEN file[j].supersedes \cup {old[r]}
                                   ELSE file[j].supersedes
    BY <1>3, <1>4
  <1>6. Mirrored' BY <1>4, <1>5 DEF DiskInv, Mirrored
  <1>7. Reopened' BY <1>2, <1>4, <1>5 DEF DiskInv, Reopened
  <1>8. CutInv' BY <1>2, <1>4, <1>5 DEF DiskInv, CutInv
  <1>9. Answered'
    <2>1. SUFFICES ASSUME NEW n \in Ids, NEW o \in file'[n].supersedes
                   PROVE  o \in Ids /\ Settled(o, n)'
      BY <1>4 DEF Answered
    <2>2. CASE o = old[r] /\ n = new[r]
      <3>1. Linking(o, n)' BY <1>2, <2>2 DEF Linking
      <3>2. QED BY <1>3, <2>2, <3>1 DEF Settled
    <2>3. CASE ~(o = old[r] /\ n = new[r])
      <3>1. o \in file[n].supersedes BY <1>5, <2>3
      <3>2. o \in Ids /\ Settled(o, n) BY <3>1 DEF DiskInv, Answered
      <3>3. Linking(o, n) => Linking(o, n)' BY <1>1, <1>2, LinkingKept
      <3>4. QED BY <1>2, <1>5, <3>2, <3>3 DEF Settled
    <2>4. QED BY <2>2, <2>3
  <1>10. QED BY <1>6, <1>7, <1>8, <1>9 DEF DiskInv

\* The second write: the old record names the replacing one, and may forget
\* earlier ones if it had been reopened.
LEMMA LinkOldDisk ==
  ASSUME TypeOK, DiskInv, NEW r \in Requests, RequestInv(r), WriteLinkOld(r)
  PROVE  DiskInv'
  <1>1. OthersWait(r) BY StepTypes DEF Step
  <1>2. /\ pc[r] = "linkOld" /\ WriteRecord(old[r], oldCopy[r])
        /\ cut' = cut \ {<<old[r], new[r]>>} /\ reopened' = reopened
    BY DEF WriteLinkOld
  <1>3. /\ old[r] \in Ids /\ old[r] \in Numbers /\ new[r] \in Ids /\ oldCopy[r] \in Record
        /\ old[r] # new[r] /\ old[r] \in file[new[r]].supersedes
        /\ LinksTo(oldCopy[r], old[r], new[r])
    BY <1>2 DEF TypeOK, Typed, RequestInv, HasOld, HasNew, MakesNew
  <1>4. /\ Ids' = Ids /\ file'[old[r]] = oldCopy[r]
        /\ \A j \in Ids : j # old[r] => file'[j] = file[j]
    BY <1>2, <1>3, WriteTypes
  <1>5. \A j \in Ids : file'[j].supersedes = file[j].supersedes
    BY <1>3, <1>4 DEF LinksTo
  <1>6. Mirrored'
    <2>1. SUFFICES ASSUME NEW o \in Ids, NEW n \in file'[o].supersededBy
                   PROVE  n \in Ids /\ o \in file[n].supersedes
      BY <1>4, <1>5 DEF Mirrored
    <2>2. n \in file[o].supersededBy \/ (o = old[r] /\ n = new[r])
      BY <1>3, <1>4, <2>1 DEF LinksTo
    <2>3. QED BY <1>3, <2>2 DEF DiskInv, Mirrored
  <1>7. Reopened' BY <1>2, <1>3, <1>4 DEF DiskInv, Reopened, LinksTo
  <1>8. CutInv'
    <2>1. SUFFICES ASSUME NEW p \in cut, p # <<old[r], new[r]>>
                   PROVE  /\ p[1] \in Ids /\ p[2] \in Ids /\ p = <<p[1], p[2]>>
                          /\ p[1] \in file'[p[2]].supersedes
                          /\ p[2] \notin file'[p[1]].supersededBy
      BY <1>2, <1>4 DEF CutInv
    <2>2. /\ p[1] \in Ids /\ p[2] \in Ids /\ p = <<p[1], p[2]>>
          /\ p[1] \in file[p[2]].supersedes /\ p[2] \notin file[p[1]].supersededBy
      BY DEF DiskInv, CutInv
    <2>3. ~(p[1] = old[r] /\ p[2] = new[r]) BY <2>1, <2>2
    <2>4. QED BY <1>3, <1>4, <1>5, <2>2, <2>3 DEF LinksTo
  <1>9. Answered'
    <2>1. SUFFICES ASSUME NEW n \in Ids, NEW o \in file[n].supersedes
                   PROVE  o \in Ids /\ Settled(o, n)'
      BY <1>4, <1>5 DEF Answered
    <2>2. o \in Ids /\ Settled(o, n) BY DEF DiskInv, Answered
    <2>3. CASE o = old[r] /\ n = new[r]
      <3>1. n \in file'[o].supersededBy BY <1>3, <1>4, <2>3 DEF LinksTo
      <3>2. QED BY <2>2, <3>1 DEF Settled
    <2>4. CASE ~(o = old[r] /\ n = new[r])
      <3>1. <<o, n>> \in cut => <<o, n>> \in cut' BY <1>2, <2>4
      <3>2. Linking(o, n) => Linking(o, n)' BY <1>1, <2>4 DEF Linking, OthersWait
      <3>3. n \in file[o].supersededBy => n \in file'[o].supersededBy \/ o \in reopened'
        BY <1>2, <1>3, <1>4, <2>2 DEF LinksTo
      <3>4. QED BY <1>2, <2>2, <3>1, <3>2, <3>3 DEF Settled
    <2>5. QED BY <2>3, <2>4
  <1>10. QED BY <1>6, <1>7, <1>8, <1>9 DEF DiskInv

-----------------------------------------------------------------------------
(* The inductive invariant, and the theorems.                              *)

LEMMA InitStore == Init => StoreInv
  <1>1. SUFFICES ASSUME Init PROVE StoreInv OBVIOUS
  <1>2. Ids = {} BY <1>1 DEF Init, Ids
  <1>3. \A r \in Requests : pc[r] = "idle" /\ Holds(r) = {} BY <1>1 DEF Init, Holds
  <1>4. Alone BY <1>3 DEF Alone
  <1>5. \A r \in Requests : RequestInv(r) BY <1>3 DEF RequestInv, MakesNew
  <1>6. Mirrored /\ Answered /\ Reopened BY <1>2 DEF Mirrored, Answered, Reopened
  <1>7. CutInv BY <1>1 DEF Init, CutInv
  <1>8. QED BY <1>4, <1>5, <1>6, <1>7 DEF StoreInv

LEMMA StoreStep ==
  ASSUME ~Overlap, TypeOK, StoreInv, NEW r \in Requests, Step(r)
  PROVE  StoreInv'
  <1>1. Alone /\ (\A q \in Requests : RequestInv(q)) /\ DiskInv /\ RequestInv(r)
    BY DEF StoreInv, DiskInv
  <1>2. Alone' BY <1>1, AloneNext
  <1>3. \A q \in Requests \ {r} : RequestInv(q)' BY <1>1, OthersKnowStep
  <1>4. OthersWait(r) /\ Threads BY StepTypes, ThreadTypes
  <1>5. ASSUME Leave(r) PROVE RequestInv(r)' BY <1>4, <1>5, LeavingKnows
  <1>6. ASSUME pc[r] # "linkOld", file' = file, UNCHANGED history PROVE DiskInv'
    BY <1>1, <1>4, <1>6, QuietDisk
  <1>7. CASE BeginDecide(r) \/ BeginEdit(r) \/ BeginSupersede(r) \/ ReadPending(r)
    <2>1. DiskInv'
      BY <1>6, <1>7 DEF BeginDecide, BeginEdit, BeginSupersede, ReadPending, Change
    <2>2. RequestInv(r)' BY <1>7, BeginKnows
    <2>3. QED BY <1>2, <1>3, <2>1, <2>2 DEF StoreInv, DiskInv
  <1>8. CASE BeginCreate(r) \/ MintReplacement(r) \/ BeginAcceptAll(r) \/ BeginLink(r)
               \/ ReadNew(r) \/ ReadBack(r)
    <2>1. DiskInv'
      BY <1>6, <1>8 DEF BeginCreate, MintReplacement, BeginAcceptAll, BeginLink, ReadNew, ReadBack
    <2>2. RequestInv(r)'
      BY <1>1, <1>8, MakerKnows, AcceptAllKnows, BeginLinkKnows, ReadNewKnows, ReadBackKnows DEF DiskInv
    <2>3. QED BY <1>2, <1>3, <2>1, <2>2 DEF StoreInv, DiskInv
  <1>9. CASE Abort(r)
    <2>1. DiskInv' BY <1>1, <1>9, AbortDisk
    <2>2. RequestInv(r)' BY <1>5, <1>9 DEF Abort
    <2>3. QED BY <1>2, <1>3, <2>1, <2>2 DEF StoreInv, DiskInv
  <1>10. CASE WriteCreated(r) \/ WriteReplacement(r)
    <2>1. DiskInv' BY <1>1, <1>10, MakeDisk
    <2>2. RequestInv(r)' BY <1>1, <1>5, <1>10, WriterKnows DEF WriteCreated
    <2>3. QED BY <1>2, <1>3, <2>1, <2>2 DEF StoreInv, DiskInv
  <1>11. CASE WriteChanged(r) \/ WriteAccepted(r)
    <2>1. DiskInv' BY <1>1, <1>11, ChangeDisk
    <2>2. RequestInv(r)' BY <1>1, <1>5, <1>11, WriterKnows DEF WriteChanged
    <2>3. QED BY <1>2, <1>3, <2>1, <2>2 DEF StoreInv, DiskInv
  <1>12. CASE WriteLinkNew(r) \/ WriteLinkOld(r)
    <2>1. DiskInv' BY <1>1, <1>12, LinkNewDisk, LinkOldDisk
    <2>2. RequestInv(r)' BY <1>1, <1>5, <1>12, WriterKnows DEF WriteLinkOld
    <2>3. QED BY <1>2, <1>3, <2>1, <2>2 DEF StoreInv, DiskInv
  <1>13. QED BY <1>7, <1>8, <1>9, <1>10, <1>11, <1>12 DEF Step

LEMMA StoreStutters ==
  ASSUME StoreInv, UNCHANGED vars
  PROVE  StoreInv'
  <1>1. Ids' = Ids BY DEF vars, Ids
  <1>2. Alone' BY DEF vars, StoreInv, Alone, Holds
  <1>3. \A r \in Requests : RequestInv(r)'
    BY <1>1 DEF vars, StoreInv, RequestInv, SameLinks, Keeps, LinksTo
  <1>4. Mirrored' /\ Reopened' /\ CutInv'
    BY <1>1 DEF vars, StoreInv, Mirrored, Reopened, CutInv
  <1>5. Answered'
    <2>1. \A o, n : Linking(o, n) => Linking(o, n)' BY DEF vars, Linking
    <2>2. SUFFICES ASSUME NEW n \in Ids, NEW o \in file[n].supersedes
                   PROVE  o \in Ids /\ Settled(o, n)'
      BY <1>1 DEF vars, Answered
    <2>3. o \in Ids /\ Settled(o, n) BY DEF StoreInv, Answered
    <2>4. QED BY <2>1, <2>3 DEF Settled, vars
  <1>6. QED BY <1>2, <1>3, <1>4, <1>5 DEF StoreInv

LEMMA StoreNext == ~Overlap /\ TypeOK /\ StoreInv /\ [Next]_vars => StoreInv'
  BY StoreStep, StoreStutters DEF Next

\* The invariants hold in every behaviour in which requests work on different records.
LEMMA StoreInvariant == ~Overlap => (Spec => [](TypeOK /\ StoreInv))
  <1>1. SUFFICES ASSUME ~Overlap PROVE Spec => [](TypeOK /\ StoreInv) OBVIOUS
  <1>2. TypeOK /\ StoreInv /\ [Next]_vars => StoreInv' BY <1>1, StoreNext
  <1>3. QED BY <1>2, InitStore, TypeCorrect, PTL DEF Spec

-----------------------------------------------------------------------------
(* What is decided, whatever requests overlap.                             *)

\* What a request will write keeps what was decided in what it was made from.
Careful(r) ==
  /\ pc[r] \in {"change", "accept", "linkNew", "linkOld"} => Keeps(oldCopy[r], oldSeen[r])
  /\ pc[r] = "readNew" => oldCopy[r] = oldSeen[r]
  /\ pc[r] \in {"mint", "replace", "readBack"} =>
       oldCopy[r].status = "superseded" /\ oldCopy[r].body = oldSeen[r].body
  /\ pc[r] \in MakesNew => newSeen[r] = NoCopy
  /\ pc[r] = "linkNew" =>
       newCopy[r].status = newSeen[r].status /\ newCopy[r].body = newSeen[r].body

SeenTypes ==
  /\ oldSeen \in [Requests -> Record \cup {NoCopy}]
  /\ newSeen \in [Requests -> Record \cup {NoCopy}]

SeenInv == SeenTypes /\ \A r \in Requests : Careful(r)

\* A step of r leaves what other requests have seen alone.
OthersSee(r) ==
  \A q \in Requests \ {r} : oldSeen'[q] = oldSeen[q] /\ newSeen'[q] = newSeen[q]

LEMMA OthersCareful ==
  ASSUME SeenInv, SeenTypes', NEW r \in Requests, OthersWait(r), OthersSee(r), Careful(r)'
  PROVE  SeenInv'
  <1>1. SUFFICES ASSUME NEW q \in Requests, q # r PROVE Careful(q)' BY DEF SeenInv
  <1>2. Careful(q) BY DEF SeenInv
  <1>3. /\ pc'[q] = pc[q] /\ oldCopy'[q] = oldCopy[q] /\ newCopy'[q] = newCopy[q]
        /\ oldSeen'[q] = oldSeen[q] /\ newSeen'[q] = newSeen[q]
    BY <1>1 DEF OthersWait, OthersSee
  <1>4. QED BY <1>2, <1>3 DEF Careful, Keeps

LEMMA LeavingCareful ==
  ASSUME SeenInv, TypeOK, NEW r \in Requests, Leave(r)
  PROVE  SeenTypes' /\ OthersSee(r) /\ Careful(r)'
  <1>1. pc'[r] = "idle" BY ThreadTypes, LeaveTypes
  <1>2. SeenTypes' /\ OthersSee(r) BY DEF SeenInv, SeenTypes, Leave, OthersSee
  <1>3. QED BY <1>1, <1>2 DEF Careful, MakesNew

\* Requests that read a record first: a decision, an edit of what was not yet
\* decided, and the first half of a replacement.
LEMMA BeginCareful ==
  ASSUME SeenInv, TypeOK, NEW r \in Requests,
         BeginDecide(r) \/ BeginEdit(r) \/ BeginSupersede(r) \/ ReadPending(r)
  PROVE  SeenTypes' /\ OthersSee(r) /\ Careful(r)'
  <1>1. Threads /\ Typed(r) /\ Ids \subseteq Numbers /\ file \in [Ids -> Record]
    BY ThreadTypes DEF TypeOK
  <1>2. ASSUME NEW i \in Ids, NEW record, NEW step, Change(r, i, record, step)
        PROVE  /\ SeenTypes' /\ OthersSee(r) /\ pc'[r] = step
               /\ oldCopy'[r] = record /\ oldSeen'[r] = file[i]
    BY <1>1, <1>2 DEF SeenInv, SeenTypes, Change, OthersSee, Threads
  <1>3. ASSUME NEW i \in Ids, NEW s \in Locked, NEW step \in {"change", "accept"},
               Change(r, i, [file[i] EXCEPT !.status = s], step)
        PROVE  SeenTypes' /\ OthersSee(r) /\ Careful(r)'
    <2>1. Keeps([file[i] EXCEPT !.status = s], file[i]) BY <1>1 DEF Keeps, Record
    <2>2. QED BY <1>2, <1>3, <2>1 DEF Careful, MakesNew
  <1>4. CASE BeginDecide(r)
    BY <1>3, <1>4 DEF BeginDecide, Locked
  <1>5. CASE BeginEdit(r)
    <2>1. PICK i \in Ids, b \in Bodies :
            /\ file[i].status \notin Locked
            /\ Change(r, i, [file[i] EXCEPT !.body = b], "change")
      BY <1>5 DEF BeginEdit
    <2>2. Keeps([file[i] EXCEPT !.body = b], file[i]) BY <2>1 DEF Keeps
    <2>3. QED BY <1>2, <2>1, <2>2 DEF Careful, MakesNew
  <1>6. CASE BeginSupersede(r)
    <2>1. PICK i \in Ids : Change(r, i, [file[i] EXCEPT !.status = "superseded"], "mint")
      BY <1>6 DEF BeginSupersede
    <2>2. QED BY <1>1, <1>2, <2>1 DEF Careful, MakesNew, Record
  <1>7. CASE ReadPending(r)
    <2>1. todo[r] \subseteq Ids BY <1>1, <1>7 DEF ReadPending, Typed
    <2>2. QED BY <1>3, <1>7, <2>1 DEF ReadPending, Locked
  <1>8. QED BY <1>4, <1>5, <1>6, <1>7

\* A number that is taken was free when it was looked for.
LEMMA MakerCareful ==
  ASSUME SeenInv, TypeOK, NEW r \in Requests, BeginCreate(r) \/ MintReplacement(r)
  PROVE  SeenTypes' /\ OthersSee(r) /\ Careful(r)'
  <1>1. Threads /\ Ids \subseteq Numbers BY ThreadTypes DEF TypeOK
  <1>2. PICK n \in Numbers : IsNextNumber(n) /\ newSeen' = [newSeen EXCEPT ![r] = Found(n)]
    BY DEF BeginCreate, MintReplacement
  <1>3. Found(n) = NoCopy
    BY <1>1, <1>2, MaxNumberAssumption DEF IsNextNumber, Found, Numbers
  <1>4. oldSeen' = oldSeen BY DEF BeginCreate, MintReplacement
  <1>5. SeenTypes' /\ OthersSee(r) /\ newSeen'[r] = NoCopy
    BY <1>2, <1>3, <1>4 DEF SeenInv, SeenTypes, OthersSee
  <1>6. CASE BeginCreate(r)
    <2>1. pc'[r] = "create" BY <1>1, <1>6 DEF BeginCreate, Threads
    <2>2. QED BY <1>5, <2>1 DEF Careful
  <1>7. CASE MintReplacement(r)
    <2>1. pc'[r] = "replace" /\ pc[r] = "mint" /\ oldCopy' = oldCopy
      BY <1>1, <1>7 DEF MintReplacement, Threads
    <2>2. QED BY <1>4, <1>5, <2>1 DEF Careful, SeenInv
  <1>8. QED BY <1>6, <1>7

\* The steps of a link, and of what a replacement reads back.
LEMMA LinkerCareful ==
  ASSUME SeenInv, TypeOK, NEW r \in Requests,
         BeginLink(r) \/ ReadNew(r) \/ ReadBack(r)
  PROVE  SeenTypes' /\ OthersSee(r) /\ Careful(r)'
  <1>1. /\ Threads /\ Typed(r) /\ Careful(r) /\ SeenTypes
        /\ Ids \subseteq Numbers /\ file \in [Ids -> Record]
    BY ThreadTypes DEF TypeOK, SeenInv
  <1>2. CASE BeginLink(r)
    <2>1. PICK o \in Ids :
            /\ oldCopy' = [oldCopy EXCEPT ![r] = file[o]]
            /\ oldSeen' = [oldSeen EXCEPT ![r] = file[o]]
      BY <1>2 DEF BeginLink
    <2>2. pc'[r] = "readNew" /\ newSeen' = newSeen BY <1>1, <1>2 DEF BeginLink, Threads
    <2>3. SeenTypes' /\ OthersSee(r) BY <1>1, <2>1, <2>2 DEF SeenTypes, OthersSee
    <2>4. oldCopy'[r] = oldSeen'[r] BY <1>1, <2>1 DEF SeenTypes, Threads
    <2>5. QED BY <2>2, <2>3, <2>4 DEF Careful, MakesNew
  <1>3. CASE ReadNew(r)
    <2>1. CASE Leave(r) BY <2>1, LeavingCareful
    <2>2. CASE ~Leave(r)
      <3>1. /\ pc[r] = "readNew"
            /\ newCopy' = [newCopy EXCEPT ![r] = Superseding(file[new[r]], old[r])]
            /\ oldCopy' = [oldCopy EXCEPT ![r] = Superseded(oldCopy[r], new[r])]
            /\ newSeen' = [newSeen EXCEPT ![r] = file[new[r]]]
            /\ pc' = [pc EXCEPT ![r] = "linkNew"] /\ oldSeen' = oldSeen
        BY <1>3, <2>2 DEF ReadNew
      <3>2. new[r] \in Ids /\ oldCopy[r] \in Record /\ oldCopy[r] = oldSeen[r]
        BY <1>1, <3>1 DEF Typed, Careful, HasOld, HasNew, MakesNew
      <3>3. SeenTypes' /\ OthersSee(r)
        BY <1>1, <3>1, <3>2 DEF SeenTypes, OthersSee
      <3>4. pc'[r] = "linkNew" /\ oldSeen'[r] = oldSeen[r] /\ newSeen'[r] = file[new[r]]
        BY <1>1, <3>1 DEF SeenTypes, Threads
      <3>5. oldCopy'[r] = Superseded(oldCopy[r], new[r])
            /\ newCopy'[r] = Superseding(file[new[r]], old[r])
        BY <1>1, <3>1 DEF Threads
      <3>6. Keeps(oldCopy'[r], oldSeen'[r])
        BY <3>2, <3>4, <3>5 DEF Keeps, Superseded, Locked, Record
      <3>7. newCopy'[r].status = newSeen'[r].status /\ newCopy'[r].body = newSeen'[r].body
        BY <1>1, <3>2, <3>4, <3>5 DEF Superseding, Record
      <3>8. QED BY <3>3, <3>4, <3>6, <3>7 DEF Careful, MakesNew
    <2>3. QED BY <2>1, <2>2
  <1>4. CASE ReadBack(r)
    <2> DEFINE back == [file[new[r]] EXCEPT !.body = newCopy[r].body]
    <2>1. /\ pc[r] = "readBack" /\ oldSeen' = oldSeen
          /\ newCopy' = [newCopy EXCEPT ![r] = [back EXCEPT !.supersedes = {old[r]}]]
          /\ newSeen' = [newSeen EXCEPT ![r] = back]
          /\ oldCopy' = [oldCopy EXCEPT ![r].supersededBy = {new[r]}]
          /\ pc' = [pc EXCEPT ![r] = "linkNew"]
      BY <1>4 DEF ReadBack
    <2>2. new[r] \in Ids /\ oldCopy[r] \in Record /\ newCopy[r] \in Record
      BY <1>1, <2>1 DEF Typed, HasOld, HasNew, HasNewCopy, MakesNew
    <2>3. back \in Record BY <1>1, <2>2 DEF Record
    <2>4. SeenTypes' /\ OthersSee(r)
      BY <1>1, <2>1, <2>3 DEF SeenTypes, OthersSee
    <2>5. /\ pc'[r] = "linkNew" /\ oldSeen'[r] = oldSeen[r] /\ newSeen'[r] = back
          /\ newCopy'[r] = [back EXCEPT !.supersedes = {old[r]}]
          /\ oldCopy'[r] = [oldCopy[r] EXCEPT !.supersededBy = {new[r]}]
      BY <1>1, <2>1 DEF SeenTypes, Threads
    <2>6. newCopy'[r].status = newSeen'[r].status /\ newCopy'[r].body = newSeen'[r].body
      BY <2>3, <2>5 DEF Record
    <2>7. Keeps(oldCopy'[r], oldSeen'[r])
      BY <1>1, <2>1, <2>2, <2>5 DEF Careful, Keeps, Locked, Record
    <2>8. QED BY <2>4, <2>5, <2>6, <2>7 DEF Careful, MakesNew
  <1>5. QED BY <1>2, <1>3, <1>4

\* The other steps read nothing.
LEMMA WriterCareful ==
  ASSUME SeenInv, TypeOK, NEW r \in Requests,
         BeginAcceptAll(r) \/ WriteAccepted(r) \/ WriteReplacement(r) \/ WriteLinkNew(r)
  PROVE  SeenTypes' /\ OthersSee(r) /\ Careful(r)'
  <1>1. Threads /\ Careful(r) /\ SeenTypes BY ThreadTypes DEF TypeOK, SeenInv
  <1>2. CASE BeginAcceptAll(r)
    <2>1. pc'[r] = "all" /\ UNCHANGED seen BY <1>1, <1>2 DEF BeginAcceptAll, Threads
    <2>2. QED BY <1>1, <2>1 DEF SeenTypes, OthersSee, Careful, MakesNew, seen
  <1>3. CASE WriteAccepted(r)
    <2>1. CASE Leave(r) BY <2>1, LeavingCareful
    <2>2. CASE ~Leave(r)
      <3>1. /\ pc' = [pc EXCEPT ![r] = "all"]
            /\ oldSeen' = [oldSeen EXCEPT ![r] = NoCopy] /\ newSeen' = newSeen
        BY <1>3, <2>2 DEF WriteAccepted
      <3>2. pc'[r] = "all" BY <1>1, <3>1 DEF Threads
      <3>3. QED BY <1>1, <3>1, <3>2 DEF SeenTypes, OthersSee, Careful, MakesNew
    <2>3. QED BY <2>1, <2>2
  <1>4. CASE WriteReplacement(r) \/ WriteLinkNew(r)
    <2>1. /\ \/ pc[r] = "replace" /\ pc'[r] = "readBack"
             \/ pc[r] = "linkNew" /\ pc'[r] = "linkOld"
          /\ UNCHANGED <<oldCopy, seen>>
      BY <1>1, <1>4 DEF WriteReplacement, WriteLinkNew, Threads
    <2>2. QED BY <1>1, <2>1 DEF SeenTypes, OthersSee, Careful, MakesNew, seen, Keeps
  <1>5. QED BY <1>2, <1>3, <1>4

LEMMA SeenNext == TypeOK /\ SeenInv /\ [Next]_vars => SeenInv'
  <1>1. SUFFICES ASSUME TypeOK, SeenInv, [Next]_vars PROVE SeenInv' OBVIOUS
  <1>2. ASSUME NEW r \in Requests, Step(r) PROVE SeenInv'
    <2>1. OthersWait(r) BY <1>1, <1>2, StepTypes
    <2>2. SeenTypes' /\ OthersSee(r) /\ Careful(r)'
      BY <1>1, <1>2, LeavingCareful, BeginCareful, MakerCareful, LinkerCareful, WriterCareful
      DEF Step, WriteCreated, WriteChanged, WriteLinkOld, Abort
    <2>3. QED BY <1>1, <2>1, <2>2, OthersCareful
  <1>3. CASE UNCHANGED vars
    BY <1>1, <1>3 DEF vars, seen, SeenInv, SeenTypes, Careful, Keeps
  <1>4. QED BY <1>1, <1>2, <1>3 DEF Next

LEMMA InitSeen == Init => SeenInv
  BY DEF Init, SeenInv, SeenTypes, Careful, MakesNew

\* What a step writes over a decided record keeps its text and stays decided,
\* unless the request had not seen what it writes over.
LEMMA DecidedKept ==
  ASSUME TypeOK, SeenInv, [Next]_vars,
         NEW i \in Ids, file[i].status \in Locked, ~LosesUpdate(i)
  PROVE  file'[i].body = file[i].body /\ file'[i].status \in Locked
  <1>1. CASE file' = file BY <1>1
  <1>2. CASE file' # file
    <2>1. PICK r \in Requests : Step(r) BY <1>2 DEF Next, vars
    <2>2. Careful(r) /\ Typed(r) /\ Threads /\ SeenTypes /\ file[i] \in Record
      BY ThreadTypes DEF TypeOK, SeenInv
    <2>3. CASE WriteChanged(r) \/ WriteAccepted(r) \/ WriteLinkOld(r)
      <3>1. /\ pc[r] \in {"change", "accept", "linkOld"} /\ pc[r] \in HasOld
            /\ WriteRecord(old[r], oldCopy[r])
        BY <2>3 DEF WriteChanged, WriteAccepted, WriteLinkOld, HasOld
      <3>2. old[r] \in Numbers /\ oldCopy[r] \in Record BY <2>2, <3>1 DEF TypeOK, Typed
      <3>3. file'[old[r]] = oldCopy[r] /\ \A j \in Ids : j # old[r] => file'[j] = file[j]
        BY <3>1, <3>2, WriteTypes
      <3>4. pc'[r] # pc[r]
        BY <2>2, <2>3 DEF WriteChanged, WriteAccepted, WriteLinkOld, Leave, Threads
      <3>5. i = old[r] => oldSeen[r] = file[i] BY <3>4 DEF LosesUpdate
      <3>6. Keeps(oldCopy[r], oldSeen[r]) BY <2>2, <3>1 DEF Careful
      <3>7. QED BY <3>3, <3>5, <3>6 DEF Keeps
    <2>4. CASE WriteCreated(r) \/ WriteReplacement(r) \/ WriteLinkNew(r)
      <3>1. /\ pc[r] \in MakesNew \cup {"linkNew"} /\ pc[r] \in HasNew /\ pc[r] \in HasNewCopy
            /\ WriteRecord(new[r], newCopy[r])
        BY <2>4 DEF WriteCreated, WriteReplacement, WriteLinkNew, MakesNew, HasNew, HasNewCopy
      <3>2. new[r] \in Numbers /\ newCopy[r] \in Record BY <2>2, <3>1 DEF Typed
      <3>3. file'[new[r]] = newCopy[r] /\ \A j \in Ids : j # new[r] => file'[j] = file[j]
        BY <3>1, <3>2, WriteTypes
      <3>4. pc'[r] # pc[r]
        BY <2>2, <2>4 DEF WriteCreated, WriteReplacement, WriteLinkNew, Leave, Threads
      <3>5. i = new[r] => newSeen[r] = file[i] BY <3>4 DEF LosesUpdate
      <3>6. i = new[r] => pc[r] = "linkNew" BY <2>2, <3>1, <3>5, NoCopyIsNone DEF Careful
      <3>7. QED BY <2>2, <3>3, <3>5, <3>6 DEF Careful
    <2>5. QED
      BY <1>2, <2>1, <2>3, <2>4
      DEF Step, BeginCreate, BeginDecide, BeginEdit, BeginAcceptAll, ReadPending, BeginLink,
          ReadNew, BeginSupersede, MintReplacement, ReadBack, Abort, Change
  <1>3. QED BY <1>1, <1>2

\* A decided record is final unless a request writes from a copy that is older
\* than somebody else's write: however requests overlap and wherever they die,
\* for any number of requests, texts and records, its text stays and it is never
\* proposed again (records.py: write_body, update_status, link_supersession,
\* supersede; next_record_id never gives an id that it finds taken).
THEOREM DecidedIsFinalHolds == Spec => DecidedIsFinal
  <1>1. TypeOK /\ SeenInv /\ [Next]_vars =>
          [\A i \in Ids : file[i].status \in Locked /\ ~LosesUpdate(i) =>
             file'[i].body = file[i].body /\ file'[i].status \in Locked]_file
    BY DecidedKept
  <1>2. Spec => [](TypeOK /\ SeenInv)
    BY InitSeen, SeenNext, TypeCorrect, PTL DEF Spec
  <1>3. QED BY <1>1, <1>2, PTL DEF Spec, DecidedIsFinal

-----------------------------------------------------------------------------
(* What lint tells.                                                        *)

\* Every finding about supersession is a link the old record does not answer,
\* or a status that does not fit: the other kind, a superseded record whose
\* replacement does not name it, cannot arise.
LEMMA WhatLintFinds ==
  ASSUME TypeOK, Mirrored, NEW f \in Supersession(file)
  PROVE  \/ \E n \in Ids : \E o \in file[n].supersedes :
              /\ f = Finding(ERROR, "supersession", n, o)
              /\ o \in Ids => n \notin file[o].supersededBy
         \/ \E i \in Ids :
              /\ f = Finding(WARNING, "supersession", i, i)
              /\ file[i].supersededBy # {} /\ file[i].status \notin SupersededStatuses
  <1> DEFINE loaded == {[id |-> i, status |-> file[i].status, supersedes |-> file[i].supersedes,
                         supersededBy |-> file[i].supersededBy] : i \in Ids}
  <1>1. f \in HalfLinks(loaded, file) \/ f \in LinkedButCurrent(loaded)
    BY DEF Supersession, CheckSupersession, Ids
  <1>2. CASE f \in HalfLinks(loaded, file)
    <2>1. PICK item \in loaded :
            \E t \in MissingSupersedes(item, file) \cup MissingSupersededBy(item, file) :
              f = Finding(ERROR, "supersession", item.id, t)
      BY <1>2 DEF HalfLinks
    <2>2. PICK t \in MissingSupersedes(item, file) \cup MissingSupersededBy(item, file) :
            f = Finding(ERROR, "supersession", item.id, t)
      BY <2>1
    <2>3. /\ item.id \in Ids /\ item.supersedes = file[item.id].supersedes
          /\ item.supersededBy = file[item.id].supersededBy
      OBVIOUS
    <2>4. MissingSupersedes(item, file) = {}
      BY <2>3 DEF MissingSupersedes, Mirrored, Ids
    <2>5. t \in item.supersedes /\ (t \in Ids => item.id \notin file[t].supersededBy)
      BY <2>2, <2>4 DEF MissingSupersededBy, Ids
    <2>6. QED BY <2>2, <2>3, <2>5
  <1>3. CASE f \in LinkedButCurrent(loaded)
    <2>1. PICK item \in loaded :
            /\ item.supersededBy # {} /\ item.status \notin SupersededStatuses
            /\ f = Finding(WARNING, "supersession", item.id, item.id)
      BY <1>3 DEF LinkedButCurrent
    <2>2. /\ item.id \in Ids /\ item.status = file[item.id].status
          /\ item.supersededBy = file[item.id].supersededBy
      OBVIOUS
    <2>3. QED BY <2>1, <2>2
  <1>4. QED BY <1>1, <1>2, <1>3

\* A link that only the replacing record knows is found.
LEMMA LintFindsHalfLinks ==
  ASSUME NEW n \in Ids, NEW o \in file[n].supersedes, n \notin file[o].supersededBy
  PROVE  Finding(ERROR, "supersession", n, o) \in Supersession(file)
  <1> DEFINE item(i) == [id |-> i, status |-> file[i].status, supersedes |-> file[i].supersedes,
                         supersededBy |-> file[i].supersededBy]
  <1> DEFINE loaded == {item(i) : i \in Ids}
  <1>1. item(n) \in loaded OBVIOUS
  <1>2. o \in MissingSupersededBy(item(n), file) BY DEF MissingSupersededBy
  <1>3. Finding(ERROR, "supersession", item(n).id, o) \in HalfLinks(loaded, file)
    BY <1>1, <1>2 DEF HalfLinks
  <1>4. item(n).id = n OBVIOUS
  <1>5. QED BY <1>3, <1>4 DEF Supersession, CheckSupersession, Ids

LEMMA SeverityOf ==
  \A severity, id, target : /\ Finding(severity, "supersession", id, target).severity = severity
                           /\ Finding(severity, "supersession", id, target).id = id
                           /\ Finding(severity, "supersession", id, target).target = target
  BY DEF Finding

\* Lint tells which links were cut between their two writes: it misses none,
\* and reports none without a cause, for any number of requests and records
\* and wherever requests die (records.py, link_supersession, supersede; lint.py,
\* check_supersession).
THEOREM LintTellsCutLinksHolds == ~Overlap => (Spec => []LintTellsCutLinks)
  <1>1. SUFFICES ASSUME ~Overlap PROVE Spec => []LintTellsCutLinks OBVIOUS
  <1>2. TypeOK /\ StoreInv => LintTellsCutLinks
    <2>1. SUFFICES ASSUME TypeOK, StoreInv PROVE LintTellsCutLinks OBVIOUS
    <2>2. CutLinksAreFlagged
      <3>1. SUFFICES ASSUME NEW p \in cut
                     PROVE  /\ Finding(ERROR, "supersession", p[2], p[1]) \in Supersession(file)
                            /\ ExitCode(Supersession(file)) = 1
        BY DEF CutLinksAreFlagged
      <3>2. Finding(ERROR, "supersession", p[2], p[1]) \in Supersession(file)
        BY <2>1, LintFindsHalfLinks DEF StoreInv, CutInv
      <3>3. \E f \in Supersession(file) : f.severity >= WARNING
        BY <3>2, SeverityOf DEF ERROR, WARNING
      <3>4. QED BY <3>2, <3>3 DEF ExitCode
    <2>3. LintFindingsExplained
      <3>1. SUFFICES ASSUME NEW f \in Supersession(file) PROVE Explained(f)
        BY DEF LintFindingsExplained
      <3>2. Mirrored BY <2>1 DEF StoreInv
      <3>3. ASSUME NEW n \in Ids, NEW o \in file[n].supersedes,
                   f = Finding(ERROR, "supersession", n, o),
                   o \in Ids => n \notin file[o].supersededBy
            PROVE  Explained(f)
        <4>1. f.id = n /\ f.target = o BY <3>3, SeverityOf
        <4>2. Linking(o, n) \/ <<o, n>> \in cut \/ o \in reopened
          BY <2>1, <3>3 DEF StoreInv, Answered, Settled
        <4>3. QED BY <4>1, <4>2 DEF Explained
      <3>4. ASSUME NEW i \in Ids, f = Finding(WARNING, "supersession", i, i),
                   file[i].supersededBy # {}, file[i].status \notin SupersededStatuses
            PROVE  Explained(f)
        <4>1. f.severity = WARNING /\ f.id = i BY <3>4, SeverityOf
        <4>2. i \in reopened BY <2>1, <3>4 DEF StoreInv, Reopened, SupersededStatuses
        <4>3. QED BY <4>1, <4>2 DEF Explained
      <3>5. QED BY <2>1, <3>2, <3>3, <3>4, WhatLintFinds
    <2>4. QED BY <2>2, <2>3 DEF LintTellsCutLinks
  <1>3. Spec => [](TypeOK /\ StoreInv) BY <1>1, StoreInvariant
  <1>4. QED BY <1>2, <1>3, PTL
=============================================================================
