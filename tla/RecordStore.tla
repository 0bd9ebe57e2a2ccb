---------------------------- MODULE RecordStore ----------------------------
(***************************************************************************)
(* The record files of one type (records.py) and the requests of the       *)
(* daemon that write them (daemon/app.py, daemon/services.py): create,     *)
(* accept, reject, accept all, edit a body, link a supersession, and       *)
(* create a replacement.                                                   *)
(*                                                                         *)
(* A request runs in a thread of its own and takes no lock.  Each file is  *)
(* written whole (a temporary file, then a rename), so one write is one    *)
(* step; what a request read, it holds as a copy until it writes.  A       *)
(* request may end at any point: its write fails, or the daemon dies.      *)
(*                                                                         *)
(* A record's number stands for its id.  MaxNumber stands for 9999, the    *)
(* last number of four digits, beyond which no id is valid.                *)
(***************************************************************************)
EXTENDS Naturals, FiniteSets, RecordLint

CONSTANTS
  Requests,   \* threads that serve write requests
  Bodies,     \* texts of records
  MaxNumber,  \* the last number an id can have
  Overlap     \* may two requests work on the same record at a time?

Numbers == 1..MaxNumber

ASSUME MaxNumberAssumption == MaxNumber \in Nat \ {0}
ASSUME OverlapAssumption == Overlap \in BOOLEAN

Status == {"proposed", "accepted", "superseded", "reverted"}
Locked == {"accepted", "superseded", "reverted"}

Record == [status : Status, body : Bodies,
           supersedes : SUBSET Numbers, supersededBy : SUBSET Numbers]

VARIABLES
  file,      \* the files: number of a written record -> record
  pc,        \* request -> where it is
  old,       \* request -> number of the record it changes, 0 for none
  new,       \* request -> number of the replacing or created record, 0 for none
  oldCopy,   \* request -> what it will write as the old record
  newCopy,   \* request -> what it will write as the new record
  todo,      \* request -> numbers accept_all has still to accept
  oldSeen,   \* history: request -> what its copy of the old record was made from
  newSeen,   \* history: request -> likewise, NoCopy where its number was free
  cut,       \* history: <<old, new>> whose link was written on one side only
  reopened   \* history: superseded records that were given another status

seen == <<oldSeen, newSeen>>
vars == <<file, pc, old, new, oldCopy, newCopy, todo, seen, cut, reopened>>
history == <<cut, reopened>>

Ids == DOMAIN file
NoCopy == [status |-> "none"]

Init ==
  /\ file = [i \in {} |-> NoCopy]
  /\ pc = [r \in Requests |-> "idle"]
  /\ old = [r \in Requests |-> 0]
  /\ new = [r \in Requests |-> 0]
  /\ oldCopy = [r \in Requests |-> NoCopy]
  /\ newCopy = [r \in Requests |-> NoCopy]
  /\ todo = [r \in Requests |-> {}]
  /\ oldSeen = [r \in Requests |-> NoCopy]
  /\ newSeen = [r \in Requests |-> NoCopy]
  /\ cut = {} /\ reopened = {}

-----------------------------------------------------------------------------
(* Helpers.                                                                *)

\* The records a request works on.
Holds(r) == ({old[r], new[r]} \cup todo[r]) \ {0}

\* The environment's part: without Overlap nobody else works on these records.
Free(r, ids) == Overlap \/ \A q \in Requests \ {r} : Holds(q) \cap ids = {}

Leave(r) ==
  /\ pc' = [pc EXCEPT ![r] = "idle"]
  /\ old' = [old EXCEPT ![r] = 0]
  /\ new' = [new EXCEPT ![r] = 0]
  /\ oldCopy' = [oldCopy EXCEPT ![r] = NoCopy]
  /\ newCopy' = [newCopy EXCEPT ![r] = NoCopy]
  /\ todo' = [todo EXCEPT ![r] = {}]
  /\ oldSeen' = [oldSeen EXCEPT ![r] = NoCopy]
  /\ newSeen' = [newSeen EXCEPT ![r] = NoCopy]

\* Only history: what a request that takes number n for a new record found there.
Found(n) == IF n \in Ids THEN file[n] ELSE NoCopy

\* _write_text_atomic: the file is there, whole, in place of what was there.
WriteRecord(i, record) ==
  file' = [j \in Ids \cup {i} |-> IF j = i THEN record ELSE file[j]]

\* Mutant of IsNextNumber: the highest number is not counted up.
IsHighestNumber(n) == n \in Numbers /\ \A i \in Ids : i <= n

\* next_record_id; a number of more than four digits is refused by Record.
IsNextNumber(n) ==
  /\ n \in Numbers
  /\ \A i \in Ids : i < n
  /\ n = 1 \/ n - 1 \in Ids

\* _create_record: a record as it is first written.
Fresh(body) ==
  [status |-> "proposed", body |-> body, supersedes |-> {}, supersededBy |-> {}]

-----------------------------------------------------------------------------
(* create_decision, create_lesson.                                         *)

BeginCreate(r) ==
  /\ pc[r] = "idle"
  /\ \E n \in Numbers, b \in Bodies :
       /\ IsNextNumber(n) /\ Free(r, {n})
       /\ new' = [new EXCEPT ![r] = n]
       /\ newCopy' = [newCopy EXCEPT ![r] = Fresh(b)]
       /\ newSeen' = [newSeen EXCEPT ![r] = Found(n)]
  /\ pc' = [pc EXCEPT ![r] = "create"]
  /\ UNCHANGED <<file, old, oldCopy, todo, oldSeen, history>>

WriteCreated(r) ==
  /\ pc[r] = "create"
  /\ WriteRecord(new[r], newCopy[r])
  /\ Leave(r)
  /\ UNCHANGED history

-----------------------------------------------------------------------------
(* Requests that read one record and write it back.                        *)

Change(r, i, record, step) ==
  /\ Free(r, {i})
  /\ old' = [old EXCEPT ![r] = i]
  /\ oldCopy' = [oldCopy EXCEPT ![r] = record]
  /\ oldSeen' = [oldSeen EXCEPT ![r] = file[i]]
  /\ pc' = [pc EXCEPT ![r] = step]
  /\ UNCHANGED <<file, new, newCopy, todo, newSeen, history>>

\* update_status as the accept and reject routes call it: no status is refused.
BeginDecide(r) ==
  /\ pc[r] = "idle"
  /\ \E i \in Ids, s \in {"accepted", "reverted"} :
       Change(r, i, [file[i] EXCEPT !.status = s], "change")

\* write_body: only a proposed record's body may change.
BeginEdit(r) ==
  /\ pc[r] = "idle"
  /\ \E i \in Ids, b \in Bodies :
       /\ file[i].status \notin Locked
       /\ Change(r, i, [file[i] EXCEPT !.body = b], "change")

\* Only history: a superseded record gets another status.
NoteReopened(i, record) ==
  reopened' = IF file[i].supersededBy # {} /\ record.status # "superseded"
              THEN reopened \cup {i} ELSE reopened

WriteChanged(r) ==
  /\ pc[r] = "change"
  /\ WriteRecord(old[r], oldCopy[r])
  /\ NoteReopened(old[r], oldCopy[r])
  /\ Leave(r)
  /\ UNCHANGED cut

\* accept_all: list what is proposed, then update each status in turn.
BeginAcceptAll(r) ==
  LET pending == {i \in Ids : file[i].status = "proposed"} IN
  /\ pc[r] = "idle" /\ pending # {}
  /\ Free(r, pending)
  /\ todo' = [todo EXCEPT ![r] = pending]
  /\ pc' = [pc EXCEPT ![r] = "all"]
  /\ UNCHANGED <<file, old, new, oldCopy, newCopy, seen, history>>

ReadPending(r) ==
  /\ pc[r] = "all"
  /\ \E i \in todo[r] :
       /\ \A j \in todo[r] : i <= j
       /\ Change(r, i, [file[i] EXCEPT !.status = "accepted"], "accept")

WriteAccepted(r) ==
  /\ pc[r] = "accept"
  /\ WriteRecord(old[r], oldCopy[r])
  /\ NoteReopened(old[r], oldCopy[r])
  /\ IF todo[r] = {old[r]}
     THEN Leave(r)
     ELSE /\ todo' = [todo EXCEPT ![r] = @ \ {old[r]}]
          /\ pc' = [pc EXCEPT ![r] = "all"]
          /\ old' = [old EXCEPT ![r] = 0]
          /\ oldCopy' = [oldCopy EXCEPT ![r] = NoCopy]
          /\ oldSeen' = [oldSeen EXCEPT ![r] = NoCopy]
          /\ UNCHANGED <<new, newCopy, newSeen>>
  /\ UNCHANGED cut

-----------------------------------------------------------------------------
(* link_supersession and supersede.                                        *)

BeginLink(r) ==
  /\ pc[r] = "idle"
  /\ \E o, n \in Ids :
       /\ o # n /\ Free(r, {o, n})
       /\ old' = [old EXCEPT ![r] = o]
       /\ new' = [new EXCEPT ![r] = n]
       /\ oldCopy' = [oldCopy EXCEPT ![r] = file[o]]
       /\ oldSeen' = [oldSeen EXCEPT ![r] = file[o]]
  /\ pc' = [pc EXCEPT ![r] = "readNew"]
  /\ UNCHANGED <<file, newCopy, todo, newSeen, history>>

AlreadyLinked(o, n, oldRecord, newRecord) ==
  n \in oldRecord.supersededBy /\ o \in newRecord.supersedes

LinkRefused(o, newRecord, oldRecord) ==
  o \in newRecord.supersededBy \/ oldRecord.status = "reverted"

Superseding(newRecord, o) == [newRecord EXCEPT !.supersedes = @ \cup {o}]

Superseded(oldRecord, n) ==
  [oldRecord EXCEPT !.status = "superseded", !.supersededBy = @ \cup {n}]

ReadNew(r) ==
  LET newRecord == file[new[r]] IN
  /\ pc[r] = "readNew"
  /\ IF AlreadyLinked(old[r], new[r], oldCopy[r], newRecord)
        \/ LinkRefused(old[r], newRecord, oldCopy[r])
     THEN Leave(r)
     ELSE /\ newCopy' = [newCopy EXCEPT ![r] = Superseding(newRecord, old[r])]
          /\ oldCopy' = [oldCopy EXCEPT ![r] = Superseded(oldCopy[r], new[r])]
          /\ newSeen' = [newSeen EXCEPT ![r] = newRecord]
          /\ pc' = [pc EXCEPT ![r] = "linkNew"]
          /\ UNCHANGED <<old, new, todo, oldSeen>>
  /\ UNCHANGED <<file, history>>

\* supersede: only a record that is still current is replaced.
BeginSupersede(r) ==
  /\ pc[r] = "idle"
  /\ \E o \in Ids :
       /\ file[o].status \notin {"superseded", "reverted"}
       /\ Change(r, o, [file[o] EXCEPT !.status = "superseded"], "mint")

MintReplacement(r) ==
  /\ pc[r] = "mint"
  /\ \E n \in Numbers, b \in Bodies :
       /\ IsNextNumber(n) /\ Free(r, {n})
       /\ new' = [new EXCEPT ![r] = n]
       /\ newCopy' = [newCopy EXCEPT ![r] = Fresh(b)]
       /\ newSeen' = [newSeen EXCEPT ![r] = Found(n)]
  /\ pc' = [pc EXCEPT ![r] = "replace"]
  /\ UNCHANGED <<file, old, oldCopy, todo, oldSeen, history>>

WriteReplacement(r) ==
  /\ pc[r] = "replace"
  /\ WriteRecord(new[r], newCopy[r])
  /\ pc' = [pc EXCEPT ![r] = "readBack"]
  /\ UNCHANGED <<old, new, oldCopy, newCopy, todo, seen, history>>

\* Both link lists are set, not extended: the old record's earlier links go.
\* The text is not read back but the one that was written.
ReadBack(r) ==
  LET readBack == [file[new[r]] EXCEPT !.body = newCopy[r].body] IN
  /\ pc[r] = "readBack"
  /\ newCopy' = [newCopy EXCEPT ![r] = [readBack EXCEPT !.supersedes = {old[r]}]]
  /\ newSeen' = [newSeen EXCEPT ![r] = readBack]
  /\ oldCopy' = [oldCopy EXCEPT ![r].supersededBy = {new[r]}]
  /\ pc' = [pc EXCEPT ![r] = "linkNew"]
  /\ UNCHANGED <<file, old, new, todo, oldSeen, history>>

WriteLinkNew(r) ==
  /\ pc[r] = "linkNew"
  /\ WriteRecord(new[r], newCopy[r])
  /\ pc' = [pc EXCEPT ![r] = "linkOld"]
  /\ UNCHANGED <<old, new, oldCopy, newCopy, todo, seen, history>>

WriteLinkOld(r) ==
  /\ pc[r] = "linkOld"
  /\ WriteRecord(old[r], oldCopy[r])
  /\ cut' = cut \ {<<old[r], new[r]>>}
  /\ Leave(r)
  /\ UNCHANGED reopened

\* The request dies: a write fails, or the daemon is stopped.
Abort(r) ==
  /\ pc[r] # "idle"
  /\ cut' = IF pc[r] = "linkOld" THEN cut \cup {<<old[r], new[r]>>} ELSE cut
  /\ Leave(r)
  /\ UNCHANGED <<file, reopened>>

Step(r) ==
  \/ BeginCreate(r) \/ WriteCreated(r)
  \/ BeginDecide(r) \/ BeginEdit(r) \/ WriteChanged(r)
  \/ BeginAcceptAll(r) \/ ReadPending(r) \/ WriteAccepted(r)
  \/ BeginLink(r) \/ ReadNew(r) \/ WriteLinkNew(r) \/ WriteLinkOld(r)
  \/ BeginSupersede(r) \/ MintReplacement(r) \/ WriteReplacement(r) \/ ReadBack(r)
  \/ Abort(r)

Next == \E r \in Requests : Step(r)

Spec == Init /\ [][Next]_vars

-----------------------------------------------------------------------------
(* Properties.                                                             *)

\* A request's step that writes record i from a copy of something else than what
\* is there: somebody wrote it after the request had read it.
LosesUpdate(i) ==
  \E r \in Requests :
    /\ pc'[r] # pc[r]
    /\ \/ old[r] = i /\ oldSeen[r] # file[i]
       \/ new[r] = i /\ newSeen[r] # file[i]

\* "accepted, superseded, and reverted records are immutable" (records.py):
\* whatever requests follow, and whichever of them die half way, a decided
\* record's body stays as it was decided and it is never proposed again,
\* neither by an edit nor by a new record that takes its id.  Requests take no
\* lock: one that read the record before somebody else's write undoes that
\* write, and it may have been the decision.  Nothing else does.
DecidedIsFinal ==
  [][\A i \in Ids : file[i].status \in Locked /\ ~LosesUpdate(i) =>
       file'[i].body = file[i].body /\ file'[i].status \in Locked]_file

Linking(o, n) ==
  \E r \in Requests : old[r] = o /\ new[r] = n /\ pc[r] = "linkOld"

\* Why may lint find a link that is not mirrored, or a status that does not fit?
Explained(f) ==
  \/ f.severity = WARNING /\ f.id \in reopened
  \/ \E o, n \in {f.id, f.target} : Linking(o, n) \/ <<o, n>> \in cut \/ o \in reopened

\* Whatever lint reports about supersession has a cause: the link is being
\* written, it was cut between its two writes, or somebody gave a superseded
\* record another status (and perhaps superseded it anew).
LintFindingsExplained == \A f \in Supersession(file) : Explained(f)

\* A link that was cut between its two writes fails lint until it is written
\* again (records.py: lint flags the dangling link and a retry heals it), unless
\* it has been superseded anew.
CutLinksAreFlagged ==
  \A p \in cut :
    /\ Finding(ERROR, "supersession", p[2], p[1]) \in Supersession(file)
    /\ ExitCode(Supersession(file)) = 1

\* Lint tells which links were cut: it misses none, and reports none without a
\* cause (records.py, lint.py).
LintTellsCutLinks == CutLinksAreFlagged /\ LintFindingsExplained
=============================================================================
