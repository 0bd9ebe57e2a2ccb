---------------------------- MODULE RetrievalCache ----------------------------
(***************************************************************************)
(* How a search gets a corpus and an index that belong together            *)
(* (daemon/services.py: run_search, _records_fingerprint_singleflight,     *)
(* _cached_views_and_demote, _build_retrieval_adapter, embed_record), with *)
(* the watcher that embeds changed records (daemon/watcher.py) and the     *)
(* index on disk (embeddings.py: VectorIndex).                             *)
(*                                                                         *)
(* A record file is the number of its last write, 0 before the first; so   *)
(* is its content hash, and a vector is the record and write it is of.     *)
(* A file's fingerprint entry changes with every write.                    *)
(***************************************************************************)
EXTENDS Naturals, Sequences, FiniteSets

CONSTANTS
  Records,    \* record files
  Searchers,  \* request threads
  Watcher,    \* the observer's thread
  Faults,     \* which of "scan", "embed", "save", "crash" may happen
  MaxWrites,  \* bound: writes of record files
  MaxSearches,\* bound: searches
  MaxFaults   \* bound: faults

ASSUME ThreadsAssumption == Watcher \notin Searchers /\ "none" \notin Searchers \cup {Watcher}
ASSUME BoundsAssumption == MaxWrites \in Nat \ {0}

VARIABLES
  file,       \* record -> its last write
  events,     \* records the observer has an event for
  lastSeen,   \* records of which the watcher has seen an event
  scanner,    \* the thread whose corpus scan is in flight, or None
  result,     \* _FINGERPRINT_RESULTS, or Nothing
  viewsLock,  \* holder of _RECORDS_CACHE_LOCK, or None
  viewsCache, \* _RECORDS_CACHE: [key, views]
  indexLock,  \* holder of _INDEX_LOCK, or None
  index,      \* the shared index in memory: rows [id, vec, hash]
  current,    \* is it the one whose stamp is that of the files on disk?
  adapter,    \* key of the cached adapter if its stamp is current, or Nothing
  vectorFile, \* vectors.npy: the rows' vectors
  idsFile,    \* ids.json: the rows' ids and hashes
  pc,         \* thread -> where it is
  key,        \* thread -> its fingerprint
  views,      \* thread -> the records it loaded
  dirty,      \* has the thread that holds indexLock changed the index?
  oldIndex,   \* thread -> the index it ranks with if that is no longer the shared one, or <<>>
  since,      \* thread -> the files when the scan it uses began (history)
  misled,     \* the searchers whose scan failed and that no later scan served (history)
  outrun,     \* <<searcher, record>>: a sync of older views put an older row into the
              \* index since the searcher took its adapter (history)
  overwritten,\* did a sync or a save that was cut leave an older content? (history)
  searches, faults

locks == <<scanner, result, viewsLock, viewsCache, indexLock, adapter>>
store == <<index, current, vectorFile, idsFile, dirty>>
promise == <<oldIndex, since, misled, outrun>>
threads == <<pc, key, views, promise>>
disk == <<file, events, lastSeen>>
bounds == <<overwritten, searches, faults>>
vars == <<disk, locks, store, threads, bounds>>

None == "none"
Threads == Searchers \cup {Watcher}
Unread == MaxWrites + 1
Nothing == [r \in Records |-> Unread]
NoViews == [key |-> Nothing, views |-> Nothing]
ReadAll(v) == \A r \in Records : v[r] # Unread

Init ==
  /\ file \in [Records -> 0..1] /\ events = {} /\ lastSeen = {}
  /\ scanner = None /\ result = Nothing
  /\ viewsLock = None /\ viewsCache = NoViews
  /\ indexLock = None /\ index = <<>> /\ current = FALSE /\ adapter = Nothing
  /\ vectorFile = <<>> /\ idsFile = <<>> /\ dirty = FALSE
  /\ pc = [t \in Threads |-> "idle"]
  /\ key = [t \in Threads |-> Nothing] /\ views = [t \in Threads |-> Nothing]
  /\ oldIndex = [t \in Threads |-> <<>>]
  /\ since = [t \in Threads |-> Nothing] /\ misled = {} /\ outrun = {}
  /\ overwritten = FALSE /\ searches = 0 /\ faults = 0

Goes(t, from, to) == pc[t] = from /\ pc' = [pc EXCEPT ![t] = to]
May(fault) == fault \in Faults /\ faults < MaxFaults /\ faults' = faults + 1

\* A record is written (its rename is atomic) and the observer gets an event.
LastWrite == CHOOSE n \in 0..MaxWrites : (\E r \in Records : file[r] = n) /\ \A r \in Records : file[r] <= n
Write(r) ==
  /\ LastWrite < MaxWrites
  /\ file' = [file EXCEPT ![r] = LastWrite + 1]
  /\ events' = events \cup {r}
  /\ UNCHANGED <<lastSeen, locks, store, threads, bounds>>

-----------------------------------------------------------------------------
(* _records_fingerprint_singleflight.                                      *)

Call(t) ==
  /\ searches < MaxSearches /\ searches' = searches + 1
  /\ Goes(t, "idle", IF scanner = None THEN "scan" ELSE "wait")
  /\ scanner' = IF scanner = None THEN t ELSE scanner
  /\ since' = [since EXCEPT ![t] = IF scanner = None THEN file ELSE since[scanner]]
  /\ UNCHANGED <<disk, result, viewsLock, viewsCache, indexLock, adapter, store, key, views,
                 oldIndex, misled, outrun, overwritten, faults>>

\* _records_fingerprint stats one file after the other.
Scan(t, r) ==
  /\ pc[t] = "scan" /\ key[t][r] = Unread
  /\ key' = [key EXCEPT ![t][r] = file[r]]
  /\ UNCHANGED <<disk, locks, store, pc, views, promise, bounds>>

Publish(t) ==
  /\ Goes(t, "scan", "views") /\ ReadAll(key[t])
  /\ result' = key[t] /\ scanner' = None
  /\ misled' = {u \in misled : pc[u] # "wait"}
  /\ UNCHANGED <<disk, viewsLock, viewsCache, indexLock, adapter, store, key, views,
                 oldIndex, since, outrun, bounds>>

Idle(t) ==
  /\ pc' = [pc EXCEPT ![t] = "idle"]
  /\ key' = [key EXCEPT ![t] = Nothing] /\ views' = [views EXCEPT ![t] = Nothing]
  /\ oldIndex' = [oldIndex EXCEPT ![t] = <<>>]
  /\ since' = [since EXCEPT ![t] = Nothing] /\ misled' = misled \ {t}
  /\ outrun' = {p \in outrun : p[1] # t}

\* The exception goes to its own caller only: those that wait find the result of
\* an earlier scan, or none, unless another scan begins first.
ScanFails(t) ==
  /\ pc[t] = "scan" /\ May("scan")
  /\ scanner' = None
  /\ pc' = [pc EXCEPT ![t] = "idle"] /\ key' = [key EXCEPT ![t] = Nothing]
  /\ since' = [since EXCEPT ![t] = Nothing]
  /\ misled' = (misled \ {t}) \cup {u \in Searchers : pc[u] = "wait"}
  /\ UNCHANGED <<disk, result, viewsLock, viewsCache, indexLock, adapter, store, views,
                 oldIndex, outrun, overwritten, searches>>

\* A waiter wakes when no scan is in flight and takes whatever result is there.
Join(t) ==
  /\ scanner = None /\ result # Nothing
  /\ Goes(t, "wait", "views")
  /\ key' = [key EXCEPT ![t] = result]
  /\ UNCHANGED <<disk, locks, store, views, promise, bounds>>

\* KeyError: the scan failed, or its result was invalidated meanwhile.
JoinFails(t) ==
  /\ scanner = None /\ result = Nothing /\ pc[t] = "wait"
  /\ pc' = [pc EXCEPT ![t] = "keyError"]
  /\ UNCHANGED <<disk, locks, store, key, views, promise, bounds>>

GiveUp(t) ==
  /\ pc[t] = "keyError" /\ Idle(t)
  /\ UNCHANGED <<disk, locks, store, bounds>>

-----------------------------------------------------------------------------
(* _cached_views_and_demote.                                               *)

\* Mutant of CachedViews: any cached views will do.
CachedViewsOfAny(t) == viewsCache # NoViews

CachedViews(t) == viewsCache.key = key[t]

UseViews(t) ==
  /\ viewsLock = None /\ CachedViews(t)
  /\ Goes(t, "views", "adapter")
  /\ views' = [views EXCEPT ![t] = viewsCache.views]
  /\ UNCHANGED <<disk, locks, store, key, promise, bounds>>

LoadViews(t) ==
  /\ viewsLock = None /\ ~CachedViews(t)
  /\ Goes(t, "views", "load")
  /\ viewsLock' = t
  /\ UNCHANGED <<disk, scanner, result, viewsCache, indexLock, adapter, store, key, views, promise, bounds>>

LoadRecord(t, r) ==
  /\ pc[t] = "load" /\ views[t][r] = Unread
  /\ views' = [views EXCEPT ![t][r] = file[r]]
  /\ UNCHANGED <<disk, locks, store, pc, key, promise, bounds>>

StoreViews(t) ==
  /\ Goes(t, "load", "adapter") /\ ReadAll(views[t])
  /\ viewsCache' = [key |-> key[t], views |-> views[t]]
  /\ viewsLock' = None
  /\ UNCHANGED <<disk, scanner, result, indexLock, adapter, store, key, views, promise, bounds>>

-----------------------------------------------------------------------------
(* _build_retrieval_adapter.                                               *)

\* The cached adapter is of this fingerprint and of the files as they are.
UseAdapter(t) ==
  /\ indexLock = None /\ adapter = key[t]
  /\ Goes(t, "adapter", "rank")
  /\ UNCHANGED <<disk, locks, store, key, views, promise, bounds>>

\* VectorIndex.load: files that do not fit together are no index.
Loaded ==
  IF Len(vectorFile) # Len(idsFile) THEN <<>>
  ELSE [i \in DOMAIN idsFile |->
          [id |-> idsFile[i].id, vec |-> vectorFile[i], hash |-> idsFile[i].hash]]

\* The index a search ranks with: the shared one its adapter was built on, unless
\* that has been replaced.
RankedBy(t) == IF oldIndex[t] = <<>> THEN index ELSE oldIndex[t]

\* _shared_index_locked: the index in memory is kept if its stamp is current.
\* (A new index starts empty also when nothing is loaded.)  A search that is about
\* to rank keeps the one its adapter has.
TakeIndex(t, from, to) ==
  /\ indexLock = None /\ Goes(t, from, to)
  /\ indexLock' = t
  /\ index' = IF current THEN index ELSE Loaded
  /\ current' = TRUE
  /\ oldIndex' = [u \in Threads |->
                   IF ~current /\ pc[u] = "rank" THEN RankedBy(u) ELSE oldIndex[u]]
  /\ UNCHANGED <<disk, scanner, result, viewsLock, viewsCache, adapter, vectorFile, idsFile, dirty,
                 key, views, since, misled, outrun, bounds>>

LockIndex(t) == adapter # key[t] /\ TakeIndex(t, "adapter", "sync")

Position(r) == CHOOSE i \in DOMAIN index : index[i].id = r
Indexed(r) == \E i \in DOMAIN index : index[i].id = r
HashOf(r) == IF Indexed(r) THEN index[Position(r)].hash ELSE 0

\* Mutant of Differs: a record that has a row is not embedded again.
DiffersIfNew(t, r) == views[t][r] \notin {0, Unread} /\ HashOf(r) = 0

\* The record exists and the index has another content of it, or none.
Differs(t, r) == views[t][r] \notin {0, Unread} /\ HashOf(r) # views[t][r]

\* The row that s is about to rank with is replaced by one of an older content.
Outruns(t, r, s) == pc[s] = "rank" /\ oldIndex[s] = <<>> /\ HashOf(r) > views[t][r]

\* Embedding a record, and upsert: its row is replaced, or one is added.
Upsert(t, r) ==
  LET row == [id |-> r, vec |-> <<r, views[t][r]>>, hash |-> views[t][r]]
  IN /\ pc[t] = "sync" /\ Differs(t, r)
     /\ index' = IF Indexed(r) THEN [index EXCEPT ![Position(r)] = row] ELSE Append(index, row)
     /\ dirty' = TRUE
     /\ outrun' = outrun \cup {<<u, r>> : u \in {s \in Searchers : Outruns(t, r, s)}}
     /\ UNCHANGED <<disk, locks, current, vectorFile, idsFile, pc, key, views,
                    oldIndex, since, misled, bounds>>

Release == indexLock' = None /\ dirty' = FALSE

\* The adapter that stays cached promises a content that a sync of older views
\* has replaced in the index in memory.
OlderRow == adapter # Nothing /\ \E r \in Records : HashOf(r) < adapter[r]

\* The embedder fails: the exception leaves the index as far as it was changed.
EmbedFails(t) ==
  /\ pc[t] = "sync" /\ \E r \in Records : Differs(t, r)
  /\ May("embed")
  /\ Idle(t) /\ Release
  /\ overwritten' = (overwritten \/ OlderRow)
  /\ UNCHANGED <<disk, scanner, result, viewsLock, viewsCache, adapter, index, current, vectorFile, idsFile, searches>>

Synced(t) == \A r \in Records : ~Differs(t, r)

\* VectorIndex.save replaces vectors.npy; from now on no stamp is current ...
SaveVectors(t) ==
  /\ Goes(t, "sync", "ids") /\ Synced(t) /\ dirty
  /\ vectorFile' = [i \in DOMAIN index |-> index[i].vec]
  /\ current' = FALSE /\ adapter' = Nothing
  /\ UNCHANGED <<disk, scanner, result, viewsLock, viewsCache, indexLock, index, idsFile, dirty,
                 key, views, promise, bounds>>

\* The files pair the ids and hashes of one save with the vectors of another: the
\* vector at a record's place is another record's, or of an older content.
Torn ==
  Len(vectorFile) = Len(idsFile) /\
  \E i \in DOMAIN idsFile :
    vectorFile[i][1] # idsFile[i].id \/ vectorFile[i][2] < idsFile[i].hash

\* The save fails at the first file, or at the second: vectors.npy stays replaced.
SaveFails(t) ==
  /\ pc[t] = "ids" \/ (pc[t] = "sync" /\ Synced(t) /\ dirty)
  /\ May("save")
  /\ Idle(t) /\ Release
  /\ overwritten' = (overwritten \/ Torn \/ OlderRow)
  /\ UNCHANGED <<disk, scanner, result, viewsLock, viewsCache, adapter, index, current, vectorFile, idsFile, searches>>

\* ... then ids.json, and the new stamp is taken.
SaveIds(t) ==
  /\ Goes(t, "ids", "synced")
  /\ idsFile' = [i \in DOMAIN index |-> [id |-> index[i].id, hash |-> index[i].hash]]
  /\ current' = TRUE
  /\ UNCHANGED <<disk, locks, index, vectorFile, dirty, key, views, promise, bounds>>

SyncedAlready(t) ==
  /\ Goes(t, "sync", "synced") /\ Synced(t) /\ ~dirty
  /\ UNCHANGED <<disk, locks, store, key, views, promise, bounds>>

CacheAdapter(t) ==
  /\ t \in Searchers /\ Goes(t, "synced", "rank")
  /\ adapter' = key[t] /\ Release
  /\ UNCHANGED <<disk, scanner, result, viewsLock, viewsCache, index, current, vectorFile, idsFile,
                 key, views, promise, bounds>>

\* The search ranks with its views and the index of its adapter, which other
\* threads may have changed since it was taken.
Rank(t) ==
  /\ pc[t] = "rank" /\ Idle(t)
  /\ UNCHANGED <<disk, locks, store, bounds>>

-----------------------------------------------------------------------------
(* The watcher: RecordChangeHandler._handle, embed_record.                 *)

\* A second event of a file within half a second is dropped.
Coalesce(r) ==
  /\ pc[Watcher] = "idle" /\ r \in events \cap lastSeen
  /\ events' = events \ {r}
  /\ UNCHANGED <<file, lastSeen, locks, store, threads, bounds>>

\* The record is read ...
Take(r) ==
  /\ r \in events /\ events' = events \ {r} /\ lastSeen' = lastSeen \cup {r}
  /\ Goes(Watcher, "idle", "embed")
  /\ views' = [views EXCEPT ![Watcher][r] = file[r]]
  /\ UNCHANGED <<file, locks, store, key, promise, bounds>>

\* ... embedded and saved under the lock, unless the index has it.
Embed == TakeIndex(Watcher, "embed", "sync")

HasIt ==
  /\ pc[Watcher] = "sync" /\ Synced(Watcher) /\ ~dirty
  /\ Idle(Watcher) /\ Release
  /\ UNCHANGED <<disk, scanner, result, viewsLock, viewsCache, adapter, index, current, vectorFile, idsFile, bounds>>

Embedded ==
  /\ Goes(Watcher, "synced", "forget")
  /\ Release
  /\ UNCHANGED <<disk, scanner, result, viewsLock, viewsCache, adapter, index, current, vectorFile, idsFile,
                 key, views, promise, bounds>>

\* _invalidate_runtime_caches, one cache after the other.
ForgetResult ==
  /\ Goes(Watcher, "forget", "forgetViews")
  /\ result' = Nothing
  /\ UNCHANGED <<disk, scanner, viewsLock, viewsCache, indexLock, adapter, store, key, views, promise, bounds>>
ForgetViews ==
  /\ Goes(Watcher, "forgetViews", "forgetAdapter") /\ viewsLock = None
  /\ viewsCache' = NoViews
  /\ UNCHANGED <<disk, scanner, result, viewsLock, indexLock, adapter, store, key, views, promise, bounds>>
ForgetAdapter ==
  /\ pc[Watcher] = "forgetAdapter" /\ indexLock = None /\ Idle(Watcher)
  /\ adapter' = Nothing
  /\ UNCHANGED <<disk, scanner, result, viewsLock, viewsCache, indexLock, store, bounds>>

\* The daemon dies and is started again: what is on disk is left.
Crash ==
  /\ May("crash")
  /\ events' = {} /\ lastSeen' = {}
  /\ scanner' = None /\ result' = Nothing /\ viewsLock' = None /\ viewsCache' = NoViews
  /\ indexLock' = None /\ adapter' = Nothing
  /\ index' = <<>> /\ current' = FALSE /\ dirty' = FALSE
  /\ pc' = [t \in Threads |-> "idle"]
  /\ key' = [t \in Threads |-> Nothing] /\ views' = [t \in Threads |-> Nothing]
  /\ oldIndex' = [t \in Threads |-> <<>>]
  /\ since' = [t \in Threads |-> Nothing] /\ misled' = {} /\ outrun' = {}
  /\ overwritten' = (overwritten \/ Torn)
  /\ UNCHANGED <<file, vectorFile, idsFile, searches>>

-----------------------------------------------------------------------------
Search(t) ==
  \/ Publish(t) \/ Join(t) \/ JoinFails(t) \/ GiveUp(t)
  \/ UseViews(t) \/ LoadViews(t) \/ StoreViews(t)
  \/ UseAdapter(t) \/ LockIndex(t) \/ SyncedAlready(t) \/ CacheAdapter(t) \/ Rank(t)
  \/ \E r \in Records : Scan(t, r) \/ LoadRecord(t, r)
Sync(t) == SaveVectors(t) \/ SaveIds(t) \/ \E r \in Records : Upsert(t, r)
Watch ==
  \/ Embed \/ HasIt \/ Embedded \/ ForgetResult \/ ForgetViews \/ ForgetAdapter
  \/ \E r \in Records : Coalesce(r) \/ Take(r)
Fault == Crash \/ \E t \in Threads : EmbedFails(t) \/ SaveFails(t) \/ ScanFails(t)

Next ==
  \/ \E r \in Records : Write(r)
  \/ \E t \in Searchers : Call(t) \/ Search(t)
  \/ \E t \in Threads : Sync(t)
  \/ Watch \/ Fault

Spec == Init /\ [][Next]_vars

-----------------------------------------------------------------------------
(* Properties.                                                             *)

\* A row of r whose vector is of write n or a later one.
HasVector(rows, r, n) ==
  \E i \in DOMAIN rows : rows[i].id = r /\ rows[i].vec[1] = r /\ rows[i].vec[2] >= n

\* Whenever a search ranks, its views and the vectors it ranks by are as new as the
\* files were when the scan it uses began, whatever is written, cached, joined,
\* invalidated, reloaded and cut off meanwhile ("direct file edits are visible
\* immediately; there is no time-based stale window").  The exceptions: a search
\* that joined a scan that failed gets the result of an earlier one; a sync of older
\* views replaced the row between its taking the adapter and its ranking, which
\* holds no lock; such a sync failed under an adapter that stays cached, or a save
\* was cut between its two files and left them torn.
AnswerIsFresh ==
  ~overwritten =>
  \A t \in Searchers : pc[t] = "rank" /\ t \notin misled =>
    \A r \in Records :
      /\ views[t][r] >= since[t][r]
      /\ since[t][r] # 0 /\ <<t, r>> \notin outrun => HasVector(RankedBy(t), r, since[t][r])

\* A synced index has a row for each record of the searcher's views, with a vector
\* that is no older, also when it was loaded after a save that was cut in two.
SyncedIndexAgrees ==
  ~overwritten =>
  \A t \in Searchers : pc[t] = "synced" =>
    \A r \in Records : views[t][r] # 0 => HasVector(index, r, views[t][r])

\* "The index is a flat numpy matrix persisted atomically (temp file +
\* os.replace) so a crash mid-save never leaves a torn index": no record is
\* ranked by the vector of another record.
NoTornIndex == \A i \in DOMAIN index : index[i].vec[1] = index[i].id
=============================================================================
