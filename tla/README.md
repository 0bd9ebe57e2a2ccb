# A TLA+ development for persistent-memory

persistent-memory is a local daemon (FastAPI on 127.0.0.1) over a directory of
Markdown records, with hooks that feed it from agent CLIs and a *Council* in
which several agent CLIs deliberate in rounds, write to a shared board and
propose a decision record.  This directory holds the models, model-checking
configurations and proofs about it.

Every definition is translated from the Python under `src/src/persistent_memory`
(below: paths relative to it).  `PROJECT.json` gives for each definition the
lines it stands for, for each run what it checks, and for each hazard of the
code the properties that would notice it going wrong.

Contents: 1 the system, 2 the modules, 3 what the runs show, 4 what is proved,
5 disagreements found, 6 what is not modelled, 7 the plan.

## 1. The system

### 1.1 Components

| Component | State it keeps | Operations | Talks to |
|---|---|---|---|
| Council session life cycle (`council/api.py`, `council/session.py`, outside of `council/runner.py`) | one JSON file per session (status, pid, turns) under a per-project file lock; `_council_procs` (in memory, keyed by session id) under `_council_lock` | POST session, list sessions (with prune), cancel; runner start, finalize, SIGTERM | spawns and signals runner processes; both sides write the session file |
| Council runner (`council/runner.py`, `council/backends.py`) | its own copy of the session; `_ACTIVE_PGIDS` under `_ACTIVE_PROCESS_LOCK`; one process group per member CLI | rounds (the first parallel, later ones sequential), synthesis with fallback, record write, cancel polling, signal handler | member CLIs, session file, board, daemon (HTTP) |
| Council board (`council/board.py`) | `board.jsonl`, append-only, under its own file lock | `append_message`, `read_messages(since_id, limit)` | runner threads, MCP tools, dashboard |
| Council event stream (`council/api.py` `_council_stream_events`) | per connection: mtimes, last id | poll board and session file, emit events | dashboard |
| Council configuration and prompts (`council/config.py`, `council/prompt.py`) | config file, prompt file and its version (mtime) | validate, load; load, save with expected version, reset; compose a turn's prompt | requests, runner, dashboard |
| Record store (`records.py`, `schema.py`, routes) | one Markdown file per record; status and links in its front matter | create, accept, reject, accept all, edit body, link, supersede | daemon routes, CLI, watcher |
| Record lint (`lint.py`) | none | consistency checks over all records, exit code | CI, doctor |
| Retrieval caches and index (`daemon/services.py`, `embeddings.py`, `retriever.py`) | corpus fingerprint (single flight), project views, adapters, vector index in two files | search, embed, save, load, reconcile, invalidate | watcher, routes |
| Ranking and recall budget (`retriever.py`, `daemon/services.py`) | none | rank fusion, budgeted block | hooks, MCP |
| Watcher and heartbeat (`daemon/watcher.py`, `daemon/app.py`) | last event per path, change counter | coalesce, embed, consolidate every N changes | services |
| Live record stream (`daemon/live.py`, `daemon/static/pm/app.jsx`) | per connection: last number per prefix, mtimes; in the page: one watermark per prefix | poll directories, emit; receive, reconnect | dashboard |
| Extraction (`daemon/services.py`) | running extraction per project, watermark per transcript | trigger, slice, deadline kill | spawns an agent CLI |
| Hooks (`hooks/`) | message counter file per project | count, signal the daemon, reset | daemon (HTTP) |
| Application, token, launch agent | token file | start, check a token | all routes |
| Transcripts (`transcripts.py`) | none; the hosts' files grow | parse four formats, last timestamp | extraction, dashboard |
| Passage index (`transcript_rag.py`) | vectors and metadata in two files | chunk, build, save; load, query | record view |
| Supersession candidates (`consolidate.py`, `daemon/services.py`) | graph file, dismissals file | list, dismiss | dashboard |
| Observation export (`graph_ingest.py`) | exported files, ledger, directory of links | export, build the corpus | LightRAG |
| MCP server (`mcp_server.py`) | none | one HTTP call per tool | daemon |
| Agent assets (`daemon/agent_assets.py`) | asset files, backups, a temporary file | list, save | dashboard |
| Dashboard data, doctor, i18n | none | read-only views | dashboard |
| Web dashboard, installer, scripts, evaluation | none here | user interface and tooling | daemon |

### 1.2 How they interact, and what is hard

* **Requests are threads.**  Council routes are plain `def` handlers, so FastAPI
  runs each in a pool thread.  Between two accesses to a session file, to
  `_council_procs` or to a process, any other request or runner may act.
* **Two writers of one file, two ways to write.**  The runner mostly merges
  under the project lock (`update_session_with`), while the daemon's POST,
  prune and cancel, and two paths of the runner, write a copy they read earlier
  (`update_session`).  Which stale copy may overwrite what is the core question.
* **A runner is a process** that may be killed, may fail to load its config,
  may ignore SIGTERM, and survives a restart of the daemon that launched it.
* **Inside a runner** the signal handler interrupts the main thread anywhere,
  including while it holds the session lock or the process lock, while worker
  threads of the first round go on.
* **The board** is written by processes that may die or run out of disk space
  half way through a line, and read backwards without a lock.
* **Records, caches, counters and watermarks** outside the council are mostly
  read and written without a lock by several requests and hook processes; a
  daemon or a request may die between two of the writes that belong together.
* **A search** puts together a fingerprint another thread may have scanned, views
  and an index cached under it, and files that change meanwhile.
* **Files that grow under their reader**: transcripts, the board, record
  directories; each reader keeps a watermark that must stay right.

### 1.3 What makes each component correct

* Life cycle: one active session per project; no session looks alive for ever;
  a finished session stays finished; a verdict is not reversed; cancel cancels.
* Runner: the file's turns and the board agree; nothing answered is lost; rounds
  build on answers; a record only with a synthesis; no CLI outlives the runner;
  a cancelled session gains nothing; the runner ends.
* Board: ids grow and never collide; an acknowledged message stays; a follower
  misses nothing.
* Record store: a decided record stays decided; a supersession link that was cut
  in two is what lint reports, until a retry heals it.
* Retrieval: a search answers from files at least as new as when it was asked;
  the rows of a synchronised index agree with the records, also after a crash.
* Capture: one extraction per project; no message is skipped, none given twice; a
  session that goes on is captured to its end.
* Streams: a client that stays, or comes back, gets every item.
* Passage index, recall: what is shown is current, of the right project, closest.
* Exports, dismissals, assets, prompts, MCP tools: what somebody was told is done
  stays done, and no text is lost but in gaps that can be named.

## 2. The modules

### CouncilLifecycle

The daemon's requests, the session files and the runner processes from outside.

* `status`, `pid` are the two fields of a session file that decide anything
  here ("absent": no file).  `runner[s]` is the process: `boot` (Popen has
  returned), `misconfigured`, `ready` (config loaded, SIGTERM handler
  installed), `running`, `exited`.  `sigterm` holds pending signals, `procs` is
  `_council_procs`, and `pc`, `project`, `sid`, `reap`, `held`, `copyPid` are
  the local variables of the request threads.
* One step of a request is what it does between two accesses to shared state.
  The project lock of `session.py` is released inside every call that takes it,
  so a whole locked write is one step here; the runner's merges under the lock
  (`StartSession`, `FinalizeSession`) re-read the file, the others
  (`WriteThread`, `MarkOrphanFailed`, `WriteCancelled`, `ReportBadConfig`) write
  a copy taken in an earlier step.
* The prune is `Begin` (collect finished launchers, forget them, under
  `_council_lock`), then for each of them `ReadOrphan` and `MarkOrphanFailed`.
  POST goes on with `CreateSession` (or `RejectPost`), `WriteThread`,
  `SpawnRunner`/`SpawnFails`, `RegisterRunner`; cancel is `BeginCancel`,
  `PopLauncher` or `SignalByPid` or `NobodyToSignal`, `RunnerGone` or
  `ForceKill`, `WriteCancelled`.
* `Faults` selects environments: `crash` (a runner dies silently), `restart`
  (the daemon is restarted: registry and requests are lost, runners and files
  stay), `spawn` (Popen raises), `ps` (the process table cannot be read).
  `EarlyCancel` says whether a client may cancel a session whose POST has not
  returned yet: the id is visible in the session list from `CreateSession` on.

### CouncilRunner

Everything inside one runner process from the installation of its SIGTERM
handler on: the main thread (`start`, `build`, rounds, synthesis, record,
finalize), one thread per member turn (spawn, register, wait, unregister,
post), the member CLIs, the handler (kill groups, write cancelled, unwind), and
a cancel request of the daemon outside.

* `disk` is the session file, `mem` the main thread's copy; `_merge` and
  `_dedupe_turns` are the operators `Merge` and `Dedupe`.  Here the session lock
  is a variable: the handler runs on the main thread and can find the lock held
  by the very frame it interrupts.  A locked update is therefore two steps,
  `LockSession` and the write.
* A member's answer is a `<<member, round>>` pair on `board`; a message id is a
  position in it.  `CouncilBoard` is where that abstraction is justified.  An
  append is a single step here, so a failed append is not in this module.
* `_run_synthesis` works on a session of its own: the copies `_persist_turns`
  returns to it (`runner.py` 718, 727) reach `run_council_session` only when it
  returns.  `caller` is what that function has meanwhile, `OuterSession` what an
  exception handler finds there.
* `Raise` is an exception of a file operation of the main thread; it unwinds to
  the `except` of `run_council_session`, which writes `failed` over the file with
  `OuterSession`: a synthesis that was recorded already is taken back (section 5).
* `WriteRecord` may also find no message of the synthesis, or an empty one, on the
  board; the session then fails although the synthesis was given.

### CouncilVerdict

The abstract specification of one session, for somebody who only reads its
file: status, answers, "a record is named".  `CouncilRunner` implements it under
the mapping in `Verdict == INSTANCE CouncilVerdict WITH ...` (answers are the
`done` turns of the file); all threads, copies, signals and processes are
hidden.  `FailSession` may take the synthesis back, and a `Cancel` that looked
the session up before may bring it back.

### CouncilBoard

`board.jsonl` as a sequence of lines, of which some are torn (`id` 0), `open`
saying that the last line has no newline yet; the writers' calls of
`append_message` (`Lock`, `ReadTail`, `Write`, `Unlock`), a write that fails
with part of the line on disk (`WriteFails`), what closing the handle then does
(`CloseFails`, or `LateFlush` when space has come back), a death at any point
(`Crash`), and followers that poll `read_messages` with `since_id` and `Limit`.

* A thread of the model is a (project, thread) pair: both are filters of the
  same kind in the code.
* A reader takes no lock.  What it may see of a line being written is a prefix
  without its newline, which does not parse; that is the same answer as before
  the write, so a poll is one step on whole lines.
* Writers contain calls of any process; a writer whose call ended may call
  again.  `SpaceReturns` separates two disks: one where a failed write stays
  failed, and one where space comes back between the failed flush and the
  close.

### RecordStore, RecordLint, CorpusLint

`RecordStore` is the files of one record type and the requests that write them.
A request is a thread without a lock: `BeginCreate` lists the directory and
mints a number, `WriteCreated` writes; a decision or an edit reads a copy
(`BeginDecide`, `BeginEdit`) and writes it (`WriteChanged`); accept-all reads and
writes one pending record after the other; a link writes the new record, then
the old one (`WriteLinkNew`, `WriteLinkOld`); a replacement is minted, written,
read back and linked.  `Abort` is a failing write or a death anywhere.
`cut` and `reopened` remember which links were cut in two and which superseded
records were given another status, `oldSeen` and `newSeen` what a request's copies
were made from.  `Overlap` FALSE admits requests that touch
different records only; section 5 says what overlapping requests do.

`RecordLint` holds all checks of `run_lint` as operators from a directory to
findings; `Supersession` is also what `RecordStore`'s files are held against.
`CorpusLint` is the linter as a program, over directories that contain broken
files, duplicate ids, dangling and one-sided links, stale and orphaned records.

### Capture

Sessions of one project, their hook processes (`ReadCounter`, `WriteCounter`,
`Signal`, `ResetCounter`: the counter file is shared and unlocked), the signals in
flight (which may be lost), and the daemon: `Handle` is what `trigger_extraction`
does under its lock - one is running, first run sets a baseline, nothing new, or
an agent starts and `RecordWatermark` follows.  The watermark file has the
transcript's stem for a name (`Stem`): a session of Claude or Codex has a file of
its own (`HasOwnFile`), all sessions of Kimi share one and so do those of Grok; a
shared file starts with whatever an earlier session left.  Agents exit or hang
past the deadline; `Prune` kills those and clears the registry, `Register` puts
the new one in the project's place, and an agent that held it still runs
(`strays`); a restart forgets the running one (`orphans`).  A transcript is a
number of messages; `given` and `baselined` say what agents were given and what
lies before a first run, `excused` what may be given again because a watermark
could not be written or the caller gave none.

### RetrievalCache

A record file is the number of its last write.  A search publishes or joins a
scan (`Publish`, `Join`), scans file after file, uses or loads the views under the
fingerprint it got, uses the cached adapter or takes the index lock, loads
the index, embeds what changed (`Upsert`), saves it as two files (`SaveVectors`,
`SaveIds`) and ranks.  The watcher coalesces events, embeds the record and forgets
the fingerprint, the views and the adapter in three steps.  `Crash` leaves the
files.  `since` remembers how new the files were when the scan of a search
began, `misled` who waited for a scan that failed and was served by no later one,
`outrun` which rows a sync of older views replaced between a search's taking its
adapter and its ranking, `overwritten` whether a cut left older content behind: a
synchronisation of older views that did not finish, or the two index files of
different saves.  The index is shared and the ranking holds no lock, so `RankedBy`
is the shared index as it is at that moment, or the object the search holds if
another one has been loaded since (`oldIndex`).

### CouncilStream and LiveStream

One connection of each event stream, step by step.  `CouncilStream` notes mtimes
before it reads, sends at most `Limit` messages a read, and may fail to read a
session (which is not retried until it changes again).  In `LiveStream` the
dashboard keeps one channel per record prefix, each channel reports every prefix,
and both raise the same watermarks of the page (`Receive`).  `known`, `noted`,
`dir`, `found` are the locals of a connection's generator (`known_seq`,
`dir_mtimes`, the directory it scans and its listing); `Send` raises `known_seq`
and sends one record, or skips it if it cannot be read (`unread`).  A connection
may fail with events under way (`Drop`) and resumes from the watermark of its
prefix (`OpenSince`).  `jumped` remembers what an event of the other channel
raised the watermark over, `missed` what of it was not shown when the channel it
belongs to opened again.

### CouncilRequest, CouncilPrompt, PromptEditor

`CouncilRequest` follows one council from the validated config over the request's
members and rounds to the calls the runner makes, with the file edited before the
runner reads it again.  `CouncilPrompt` composes a turn's prompt: the sections in
their order and the bisection for the longest end of the board that fits.
`PromptEditor` has browser tabs load, save (check the version, write a
temporary file, replace, stat, answer) and reset the shared prompt.

### McpBridge

The writing tools of the MCP server: health call, token read, POST with a timeout,
reply; a daemon that dies in the middle, restarts, creates a token, finishes
after the tool has given up; tools inside a council member are read-only.

### SupersessionCandidates, ObservationExport, Recall

`SupersessionCandidates`: the edges of the graph that are listed as candidates,
and dismissals that read, extend and replace one file.  `ObservationExport`: the
exporter with its ledger, the builder of the link directory, deaths of both,
files that are emptied before they are written.  `Recall`: the fused ranking with
exact scores, the project's own hits, the slots for others, the relevance that a
request asks for, the budget; a text without words has no lexical ranking.

### Transcripts and TranscriptIndex

`Transcripts`: the spoken messages of the four hosts' formats as a file grows by
half lines, and the last timestamp read in growing chunks from the end.
`TranscriptIndex`: directories of Claude and of Codex, named after their first
transcript with a cwd and indexed once or once per transcript; their messages cut into
windows, deduplicated and embedded, saved as two files, loaded and queried while the
next build is under way and transcripts grow.

### AssetEditor

`write_asset` on inodes: two savers write under one temporary name, and the daemon
may die at any step.

### Modules that check and prove

`MCLifecycle`, `MCRunner`, `MCBoard`, `MCRecords`, `MCCapture` and `MCRetrieval`
define instances and symmetry sets.  `MCParts` puts the thirteen smaller modules
side by side: they share no state, so a behaviour is one of a single part, the
others rest, and one run checks them all with one set of constants.  What a part
assumes of its constants is assumed there.

The theorems stand in `CouncilBoard_proofs`, `CouncilLifecycle_proofs`,
`CouncilRunner_proofs`, `Capture_proofs`, `RecordStore_proofs`,
`RetrievalCache_proofs`, and `Parts_proofs` for the parts of `MCParts`.
`SequenceFolds` has lemmas about what adding up and flattening a sequence
computes, which `Parts_proofs` uses.  A definition commented "Mutant of X" is X with a plausible bug; it stands next to
X, nothing uses it, and replacing X by it must break the property `PROJECT.json`
names: that is how each property is shown to depend on the code.

## 3. What the runs show

All runs finish on two cores within four minutes.

| Run | Instance | Shows |
|---|---|---|
| `lifecycle` | 1 project, 3 requests, 3 sessions, all faults | one active session, working runner visible, finished stays finished, verdict not reversed |
| `lifecycle_liveness` | 1 project, 2 requests, 2 sessions; crash, spawn, ps | a dead runner is reported; an accepted cancel ends the session |
| `runner_synthesis` | 3 members, 1 round, file errors | implements `CouncilVerdict`; the runner drops no turn but a synthesis whose recording an exception followed; a record needs a synthesis; no CLI survives a normal exit |
| `runner_rounds` | 2 members, 2 rounds | turns match the board, every answer recorded, it ends and a verdict is reached |
| `board` | 2 writers, 1 reader, 3 lines, limit 1 | ids grow, follower without gaps, append-only, delivery |
| `board_errors` | 3 writers, 3 lines, space returns | an acknowledged message stays |
| `records` | 2 requests, 2 bodies, 3 records | `LintTellsCutLinks`: lint finds every link that was cut and none without a cause; `DecidedIsFinal` |
| `capture` | a session of Claude with 2 faults and 2 extra requests, or with one of Kimi, or two of Kimi, without; 3 messages | `CapturedOnce`: nothing skipped, nothing twice of a session with its own watermark; one agent at a time; all messages captured |
| `retrieval` | 2 records, 2 searchers, the watcher, 2 writes, 3 searches, 1 fault | `AnswerIsFresh`, `SyncedIndexAgrees` |
| `retrieval_torn_index` | 2 records, 1 searcher, 3 writes, 2 crashes or failing saves | the disagreement of section 5: `NoTornIndex` |
| `parts` | thirteen modules, bounds in `parts.cfg` | one property a module, below |
| `lifecycle_early_cancel` | 3 requests, 2 sessions | the disagreement of section 5: `OneActivePerProject` |

The properties of `parts`:

| Module | Property | Says |
|---|---|---|
| Transcripts | `SpokenGrows`, `TimestampIsLast` | counted messages keep their places; chunked reading finds the last timestamp |
| TranscriptIndex | `PassagesAreClosest` | passages shown are the project's, are in its transcripts, and none closer is missing; a directory several projects share counts as one of the project it is named after |
| AssetEditor | `NothingLost` | assets are whole, and each text is there or in a backup |
| McpBridge | `RepliesAreTrue` | after a refusal nothing was or will be written, after a success it was |
| PromptEditor | `OnlyRacesAreLost` | only a change made during a request can be overwritten unseen |
| SupersessionCandidates | `DismissedStaysDismissed` | a dismissed pair is not offered again, either way round |
| ObservationExport | `LedgerIsInCorpus` | what the ledger knows has a whole file and a link; an export that ends well leaves nothing out |
| Recall | `OwnRecordsFirst` | the block keeps its budget, and another project's record is shown only with all own hits that reach the request's minimum |
| CouncilRequest | `CallsWithinCap` | a council never makes more calls than the cap |
| CouncilPrompt | `PromptKeepsWhatFits` | the limit is kept, only the oldest messages go, the order of layers stands |
| CorpusLint | `ExitTellsConsistency` | lint passes exactly the consistent corpora |
| LiveStream | `EveryRecordShown` | once the channels have come to rest every record is shown, over reconnects, but those section 5 tells |
| CouncilStream | `StreamCatchesUp` | every message and the last session state are sent |

### Bounds, and why they are enough

* `MaxSessions` (session files per project), 3: a finished session, the one
  being finished and a new one that must not clash with either.  A POST beyond
  the bound is rejected.  Three requests let a prune, a cancel and a POST hold
  three copies at once.  One project is enough: files and locks are per project
  (the registry is not, see section 5).
* The runner: two rounds give a parallel round, a sequential one, and a synthesis
  after a sequential round; three members give a fallback that has a choice and a
  third thread while one holds the process lock and one waits.  Rounds and members
  are in separate runs, since rounds after the first involve one thread at a time.
  `IoFaults` is on where failures matter and off in the longer run.
* The board: `MaxLines` 3 gives two valid lines around a torn one and a third
  writer's message after them.  `Limit` 1 makes the limit bite at once.
* `RecordStore`: three numbers give an old record, its replacement and a third
  that supersedes either; `MaxNumber` 3 also stands for 9999, so minting at the
  limit happens.  Two requests, because a request shares records only one with
  another.
* `Capture`: `Interval` 2 and three messages give a signal, a message after it and
  one more before the next; with one session two faults may combine (a lost
  signal and a restart).  Two sessions share the counter and the project's slot,
  and two of Kimi the watermark as well.
* `RetrievalCache`: two searchers, so that one joins or overtakes the other; two
  writes, so that a vector can be older than its record; one fault.  The torn index
  needs two faults and three writes, but one searcher only.
* `MCParts`: each constant is the least at which the case of interest exists: two
  lines of different sizes around a chunk border, two savers or editors, caps of
  the program (six members, 24 calls) in full, prompts with up to four messages
  around a limit of six, both channels of the dashboard with two new records, one
  that cannot be read and one dropped connection (a channel that opens late is as
  good as a second one), a build of the passage index while another is loaded, ages and saliences on both sides of the
  linter's limits.
* The theorems of section 4 remove these bounds for the properties they state.
* Deadlock is checked in `lifecycle_early_cancel`.  Everywhere else the system may
  rest: a runner ends, a board is full in the model, bounded requests and writes
  are used up.  The liveness properties cover real deadlocks.

### Fairness, and why the code justifies it

* `CouncilLifecycle`: a request thread that has begun goes on; a live runner
  process is scheduled; and some client asks for the session list again and
  again.  The last one is the dashboard: its council view reloads the list
  every five seconds while visible
  (`daemon/static/pm/views-council.jsx` 303-313), and only a list or a POST
  prunes.  It is strong fairness of one request's `BeginList`, because the
  thread that will serve it may be busy in between.  Crashes, signals, failing
  configs and POSTs are never owed.  Restarts are left out of the liveness run:
  the registry is in memory and the code promises no recovery of it (a hazard in
  `PROJECT.json`, without property).
* `CouncilRunner`: the main thread, each turn's thread, the handler and the
  cancel request are scheduled; a wait for a CLI ends with its timeout.  No CLI
  has to exit and nobody has to cancel.  That the runner ends although its
  handler may wait for a lock held by the frame below it rests on the cancel
  request's SIGKILL after `CANCEL_GRACE_SECONDS`.
* `CouncilBoard`: followers poll, a writer that has begun goes on (it may fail).
* `Capture`: hook processes, request threads and agents go on, the CLI answers,
  and the user keeps prompting up to the bound.  A request is owed strong
  fairness, since it competes for the extraction slot; lost signals, hanging
  agents and restarts are never owed.  What is claimed is only that a session that
  goes on is captured.
* `MCParts`: the generator of the council's stream is polled (it is a loop with a
  sleep).  Failing reads are never owed.

## 4. What is proved

The proofs hold for every value of the constants that meets the named
assumptions of the modules: any number of projects, requests, sessions, members,
rounds, writers, readers, records, threads, faults, any limit.  The assumptions of
the modules only say what a constant is (a natural number, a member of a set, names
that differ).  Whatever a theorem assumes beyond them is a hypothesis in its
statement: `~SpaceReturns`, `~EarlyCancel`, `~Overlap`, `Slack`.

Each proof follows one plan.  The property is seldom inductive; an invariant names
what the code relies on at each line, every action is shown to keep it, and the
property is read off it.

### CouncilBoard_proofs

* `BoardTypes`, `AckedStays`: on any disk, with torn lines, late flushes and
  crashes.  `TypeInv` adds to `TypeOK` what a call knows of itself (`CallInv`)
  and that an open line exists (`OpenInv`).  `AckInv` strengthens
  `AckedIsOnBoard`: an acknowledged message is on a line that is *settled*,
  i.e. not the open last line, which is the only one a later write can change.
  The argument is that every writer step leaves settled lines alone
  (`WriterTouches`, `SettledStays`).
* `IdsGrow`, `AckedIdsNeverCollide`, `BoardIsAppendOnly`,
  `FollowersSeeTheirThread`: assuming `~SpaceReturns`, which is needed: see the
  late flush of section 5.  The invariant is `OrderInv`: whoever is
  between reading the tail and unlocking holds the lock (`LockInv`), the id it
  has taken is above every id in the file (`NextIdInv`), ids grow.  Ids grow
  because the tail's last valid line is the largest (`LastIdIsLargest`, with
  torn lines in between), and nobody else appends meanwhile.  `FollowInv` adds
  that a follower has seen everything of its thread between its first message
  and `since`: with `since` 0 the newest messages are a suffix of the thread,
  later the oldest above `since` are the next segment (`NewestIsSuffix`,
  `OldestIsPrefix`).

### CouncilLifecycle_proofs

* `LifecycleTypes`: in every environment, early cancels included.
* `OneCouncilPerProject`, `WorkingRunnersAreVisible`, `FinishedForGood`,
  `VerdictsAreNotReversed`: assuming `~EarlyCancel`, with all faults.
  `lifecycle_early_cancel` shows that the first needs the assumption.
  `OneActivePerProject` is not inductive: a blind write (`WriteThread`,
  `MarkOrphanFailed`) could revive or finish a session.  `IInv` says why it
  does not: a POST between create and spawn has a pending session without a
  runner (`LaunchInv`) and owns it alone (`LaunchAlone`); no file means no
  runner (`AbsentInv`); until a runner starts its session, only a cancel can
  have touched the file (`YoungRunnerInv`); only live runners have a signal
  pending (`SignalInv`); what a prune has collected is dead, and what it is
  about to write has not converged (`ReapInv`); what a cancel holds has a file
  and is not being launched (`CancelInv`).

### CouncilRunner_proofs

One runner, for any roster, any number of rounds, with or without file errors,
signals at every line.  `RunnerInv` has layers; each is proved with the help of the
ones before it.

* *Control*: which phase and round go with which line (`PhaseInv`), what the file
  and the runner's copy can say there (`StatusInv`: unless the file is cancelled,
  both have the same turns, or the copy lacks the synthesis an exception lost),
  what the caller of `_run_synthesis` holds (`CallerInv`: the file without its
  synthesis), that the file has at most one synthesis (`SynthesisInv`), that a
  cancel request holds an earlier state of the file, which may have lost its
  synthesis since (`ApiInv`, `FileCameAfter`), whose turns are under way and when (`IdleInv`, `SpeakerInv`,
  `ResultInv`), that a CLI lives only while its turn waits or after a signal cut that
  off (`ChildInv`).  `NoChildSurvives` follows from these.
* *Turns*: the file has one turn per round and member and none of the round in
  progress (`PastInv`), and what a batch to be merged holds (`BatchInv`).  This is why
  `Merge` loses nothing: `DedupeKeepsNewest` says of `_dedupe_turns`, for any
  list, that it keeps one turn of every key, the newest, and invents none.
* *Answers*: a `done` turn's message is on the board (`PostedInv`); unless the
  session was cancelled, each message on the board is in the file or in a
  thread's result, and when the runner has finished it is in the file
  (`AnswerInv`); a record only with a synthesis on the board (`RecordInv`); a round
  only after one with an answer (`VerdictInv`).

From it: `TurnsMatchBoardHolds`, `EveryAnswerRecordedHolds`,
`RecordNeedsSynthesisHolds`, `RunnerKeepsTurns` (with file errors: no write of
the runner drops a turn but a synthesis), and `VerdictIsImplemented`: every
behaviour of a runner is one of `CouncilVerdict` under the mapping of section 2.
Its steps: the initial states agree; each write of the session file is a
`CouncilVerdict` action; any other step leaves the mapped variables alone.

### Capture_proofs

* `CapturedOnceHolds`, with `CaptureInv`: nothing is marked that was not said or
  that was skipped (`MarkInv`); the slice whose watermark is yet to be written
  reaches beyond the old one and was handed on (`LockInv`); what was given above a
  watermark is in that slice or excused (`AboveInv`); what was given twice is excused
  (`TwiceInv`).  Every part speaks of the sessions with a watermark file of
  their own (`Owners`), and `OwnStem` and `MarkWrite` show that the writes of all
  others, who share theirs, leave those files alone.  Of the others it says
  nothing, for good reason (section 5).
* `OneAtATimeHolds`: the property is not inductive (a stray and an empty registry
  would do); what is kept is that the registry never loses an agent that runs
  (`strays = 0`), because one is only started when `Prune` left the registry empty,
  and `Prune` removes none that it has not killed or found dead.

### RecordStore_proofs

* `TypeCorrect`: overlapping requests included.
* `DecidedIsFinalHolds`, however requests overlap: a decided record's text stays
  and it is never proposed again, unless a request writes over a change it had not
  seen (`LosesUpdate`).  `SeenInv`: what a request will write keeps what was decided
  in the record its copy was made from (`Careful`), step by step from the read to the
  write; a new record's number was free when it was looked for.
* `LintTellsCutLinksHolds`: assuming `~Overlap`, for any requests and records.
  `StoreInv`: requests hold different records (`Alone`); a
  request's copy is what is in the file, and its line says which sides of a link
  are written (`RequestInv`); who is superseded is named by its replacement
  (`Mirrored`: the new record is written first); the other side follows unless
  the link is under way, was cut, or the record was given another status since
  (`Answered`, `Reopened`); a cut link has the new side only (`CutInv`).  Section 5
  says what overlapping requests do.

### RetrievalCache_proofs

* `SyncedIndexAgreesHolds`, `AnswerIsFreshHolds`, from `CacheInv`, for any
  threads, records, writes and faults.  Its parts: which lock goes with which line
  (`PlaceInv`); what is cached was read from files that are no newer now, views are no
  older than the fingerprint they are kept under (`CachedInv`); what a searcher knows
  is no older than the files were when its scan began (`KnownInv`), also when another
  thread scans for it (`WaitInv`); one row per record in memory and on disk
  (`IndexInv`); every row's vector is the record's and as old as its hash says
  (`SoundInv`); the cached adapter promises no more than the index has, except while
  a sync of other views works on it (`AdapterInv`); from the moment a search has its
  adapter, the index it ranks with has what it was promised but for rows replaced
  under it (`RankInv`).
* Both properties except states after a cut left older content behind
  (`overwritten`).  The exception is needed: `retrieval_torn_index` shows a
  behaviour outside it.  So are the two of `AnswerIsFresh`; section 5 tells them.

### Parts_proofs

The parts share no variable, so a step of one leaves the others' alone
(`StepOfPart`), and each has an inductive invariant of its own.

* `NothingLostHolds` (`AssetInv`): while saves follow one another, what is under the
  temporary name is not the asset, and what the asset was is in a backup.  A text is
  known by its saver, so names of savers differ from what is no saver's
  (`SaversAssumption`).
* `RepliesAreTrueHolds` (`BridgeInv`): what a request's reply says of its write, at
  each line of tool and daemon.
* `OnlyRacesAreLostHolds` (`EditorInv`): the version a tab holds is the file's only
  if nobody wrote since it was loaded; times of writes never repeat.
* `DismissedStaysDismissedHolds` (`CandidatesInv`): the copy a dismissal works on has
  what was promised before, unless another dismissal was at work.
* `LedgerIsInCorpusHolds` (`ExportInv`): what each line of exporter and builder
  guarantees of the files, should it be the last.
* `CallsWithinCapHolds` (`RequestInv` with `CallsInv`): what was accepted leaves room
  for two syntheses.  The code reserves one, so this needs `Slack`: no members times
  rounds is one less than the cap.  `CodeHasSlack` shows that the numbers of
  `config.py` (6 members, 5 rounds, 24 calls) meet it, since 23 is a prime; with
  another cap the property may fail.
* `ExitTellsConsistencyHolds` (`LintInv`): each check of the linter finds something
  exactly if the directory has the flaw it is for (ids met twice, links to nowhere,
  one-sided supersession, ...), for directories of any size.

* `PromptKeepsWhatFitsHolds` (`PromptInv`): an excerpt that begins before the lower
  end of the bisection is too long, one that begins at the upper end fits, because
  one that begins later is never longer (`SumShrinks`).  If even the prompt without
  an excerpt is too long, nothing is promised of its length.
* `TimestampIsLastHolds` (`TranscriptInv`): each read takes a longer end of the file
  and the last one all of it (`LastReadIsWhole`); a read with a stamped line has the
  last one, since later lines lie in shorter ends (`BytesShrink`).
* `SpokenGrowsHolds`: a line that is complete stays, each host's reader makes the
  same messages of it, and more lines only add messages at the end (`FlatGrows`).
  The host is fixed by the first line that parses.
* `OwnRecordsFirstHolds` (`RecallInv`): scores and ids put candidates in a strict
  order, so ranking gives each one place and loses none (`RankedTypes`); the
  weights and the damping keep one candidate per record that some source has found;
  the filter for the minimum keeps the order (`KeptGrows`), so every own hit that
  reaches it stands before the first of another project.
* `EveryRecordShownHolds` (`RecordsInv`): up to `known_seq` of its own prefix a
  channel has nothing left to come but what is on the wire, where its own records are
  in order (`WireInOrder`), so an event of its own raises the watermark over nothing;
  an event of the other channel may, and what it passes over is in `jumped` until the
  own channel opens again and settles it (`Settled`).  The mtime a channel noted is
  never later than its listing (`Looked`), so at rest `known_seq` is the last number.
* `PassagesAreClosestHolds` (`PassagesInv`): the builder's index has each passage of
  the transcripts as they were read last, none twice (`Complete`), and besides only
  excerpts of them (`Genuine`: a directory read again leaves the shorter windows of
  the first time); what has been read of a transcript is what it begins with, a saved
  meta.json is complete for its build, and vectors of a build are those of its
  meta.json, saved already or still to come (`IsVectors`), also for the pair a query
  has loaded.  `Named` gives a session the name of its directory; `NamedAlike` leads
  from there to the project its own cwd names where the directory is not shared.

### SequenceFolds

`FoldSeq` and `FlattenSeq` of the community modules are recursive functions inside a
CHOOSE.  The lemmas show that such a function exists, that a sum does not depend
on the order CHOOSE takes the elements in (`SumStep`, `SumRenamed`), that less of a
sequence sums up to less (`SumShrinks`), that flattened beginnings are
beginnings (`FlatGrows`) and that every element of a flattened sequence has a place of
its own in one of the parts (`FlatPlaces`).  Induction is over the set of
numbers a statement holds of (`NatSetInduction`), which needs no operator as a
parameter.  Operators whose library definition the provers cannot expand are not
used where something is proved: a sorted sequence is the function that gives each
place its element (`Ranked`, `Sorted`), and a filtered one is flattened from
sequences of one element or none.

### Only model-checked

* Liveness (`DeadRunnerIsReported`, `CancelEndsSession`, `RunnerEnds`,
  `VerdictReached`, `PostedIsDelivered`, `MessagesCaptured`, `StreamCatchesUp`):
  temporal proofs under fairness need ENABLED, which the
  prover does not treat.

All other properties of the passing runs are theorems.  Proved and not run are the
type theorems, the invariants `RunnerInvHolds` and `CacheInvHolds`,
`AckedIdsNeverCollide`, `DedupeKeepsNewest` and `CodeHasSlack`.

## 5. Disagreements between the code and what it says

Two have runs of their own:

* `lifecycle_early_cancel`: a cancel between the POST's create and its second
  write is undone by that write; a second POST may already be in, so a project
  has two active sessions (`README.md` 55: only one can be active).

* `retrieval_torn_index`: vectors and ids of the index are replaced one after the
  other, although `embeddings.py` 6 says that a crash mid-save never leaves a torn
  index.  After one save that was cut in between, the lengths differ, so the index is
  loaded as an empty one (`embeddings.py` 239).  A second cut, in a later save of as
  many rows as the ids file has, makes the lengths agree: a record's id and hash
  stand beside another record's vector, and since the hash is right no search
  embeds it again.

The others were met while modelling; where a property would be false because of
one, its formula names the exception.

* A runner that cannot load its config writes the copy it read before as
  `failed`, over a cancellation made meanwhile (`council/runner.py` 933;
  `tests/council/test_runner.py` 1410: never resurrected by a stale write).
* An exception in `_run_synthesis` after the synthesis turn was recorded (the
  record cannot be written, the board cannot be read) finalizes the session of
  `run_council_session`, which does not have that turn (`council/runner.py` 718,
  727, 804): the answer stays on the board, the file says `failed` without it.
  `RunnerNeverDropsTurns` and `CouncilVerdict` except it.
* Ids are per project, the registry is keyed by id alone (`council/api.py` 716).
  A second project's session replaces the first one's launcher, whose death is
  then never reported.
* SIGTERM between a member's Popen and the registration of its group leaves the
  CLI running (`council/runner.py` 832).
* After a failed flush the board's lock is released while the text is still
  buffered; closing the handle writes it unlocked, with an id another writer may
  have taken (`council/board.py` 122).  `SpaceReturns` is this environment.
* A failed read of the session is logged as "retrying next poll", but the mtime
  was noted before, so it is not retried until the file changes
  (`council/api.py` 378-386).  `StreamCatchesUp` excepts that state.
* "Direct file edits are visible immediately; there is no time-based stale window"
  (`services.py` 182) does not hold of two searches.  One joined a scan that fails:
  it is woken to the result of an earlier scan, or to a KeyError
  (`services.py` 189-198).  The other has its adapter and is about to rank, which
  takes no lock, when a search with older views gets the index lock and puts the
  older rows back (`services.py` 327-331).  `AnswerIsFresh` excepts the first
  (`misled`) and in the second the rows that were replaced (`outrun`); without
  either exception TLC finds it violated within the bounds of `retrieval`.
* A record that was superseded can outrank its replacement, when min-max
  normalisation gives it more than the damping takes (`daemon/services.py` 345).
* "accepted, superseded, and reverted records are immutable" (`records.py` 192)
  does not survive a lost update: an edit writes back the status it read before an
  accept (`records.py` 201), two creates mint one id (`records.py` 61).
  `DecidedIsFinal` excepts exactly such writes (`LosesUpdate`).  After 9999 ids are
  refused.
* The council's fallback synthesis makes one call more than the cap counts; no
  product of members and rounds comes close enough for it to matter
  (`CodeHasSlack`).
* Sessions of one project share the prompt counter: the second one's hooks reset
  it, and what is left at the end of the first may not be captured.  The
  watermark advances when the agent starts, not when it has succeeded.
* "the daemon keeps a per-session message-count watermark" (`transcripts.py` 7) is
  true of Claude and Codex only: `prepare_extraction_input` names the file after
  the transcript's stem (`services.py` 1160), and every transcript of Kimi is
  `wire.jsonl`, every one of Grok `chat_history.jsonl` (`hooks/common.py` 31, 194).
  A second session of such a host starts at the first one's count: what it says
  up to there is skipped, or given again when its transcript is the shorter one.
  `CapturedOnce` leaves these sessions out.
* Overlapping saves of an asset can cut the file; overlapping dismissals, or a
  dismissals file that cannot be read, lose dismissals.
* Malformed YAML raises `yaml.YAMLError`, which is no `ValueError`, so lint ends
  with a traceback where `check_schema` is said to report the file.  A record
  that only links to itself is no orphan.
* Codex keeps the transcripts of several projects in the directory of a day, but
  all chunks of a directory get the first transcript's project
  (`transcript_rag.py` 58-66): passages of the other projects are shown with records
  of that one, and with their own they are missing.  `PassagesAreClosest` says so.
* The page's two record channels share a watermark per prefix
  (`daemon/static/pm/app.jsx` 145), and a channel counts what it lists when it opens
  as known.  With D's channel down, D-2 is created, L's channel opens (D-2 is known
  to it), D-3 is created and sent by L's channel: D's channel resumes after D-3 and
  D-2 is not shown until the page is loaded again.  A record that cannot be read when
  its turn comes is logged and not tried again by that connection (`live.py` 141-144).
  `EveryRecordShown` excepts both (`GivenUp`).
* The passage index is loaded from two files that can be of different builds.
* A death while the export ledger is written leaves an empty one, and exports fail
  until it is removed; a row with broken JSON stops every export at that row,
  before the ledger is saved.

What holds within these limits is what sections 3 and 4 say.

## 6. What is not modelled

* Within the modelled parts: texts of prompts and answers, logs, argv of the
  CLIs, the ANSI and JSON parsing of their output (only whether there is an
  answer), the wall clock (a deadline may pass at any time).
* BM25, cosine similarity and token counts: floating-point scores are replaced by
  small levels.  Query expansion.
* The heartbeat's change counter, knowledge gaps, salience boosts and index
  pages of the consolidation: batch output that nothing reads back.
* Path resolution and listing of agent assets; launch agent and installer.
* Dashboard data, doctor, i18n, evaluation: read-only views, diagnostics and
  texts, with no state of their own.

## 7. The plan

Done: all modules of section 2, and the proofs of section 4: every safety
property of the passing runs.  Left, in this order:

1. The hypotheses of section 4 made weaker where the code allows: `~EarlyCancel`
   where no second POST is under way, `~Overlap` of lint's theorem for requests on
   different records.
2. Records of several types and overlapping requests, with what is then still
   true.
3. Heartbeat and consolidation with the watcher; path resolution of assets; the
   backends' argv and output as operators.
