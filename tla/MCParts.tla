------------------------------- MODULE MCParts -------------------------------
(* The parts of the system that share nothing with one another, side by side: *)
(* a behaviour is one of the part that `part` names; the others rest in one   *)
(* of their initial states.                                                   *)
EXTENDS Naturals, FiniteSets, Sequences

CONSTANTS
  Parts,                                   \* the parts that run
  Chunk, Growth, LineSizes, MaxLines,      \* Transcripts
  Savers, MaxDeaths,                       \* AssetEditor
  Calls, MaxRestarts,                      \* McpBridge
  Editors, MaxSaves, MaxResets,            \* PromptEditor
  Nodes, Labels, Threshold, Scores, Requests, MaxBuilds,         \* SupersessionCandidates
  Projects, Asking, Levels, Weights, Costs, Minima, Budgets, MaxIds,   \* Recall
  MaxMembers, MaxTotalTurnCalls, Rounds,                         \* CouncilRequest
  MaxChars, MessageSizes, MaxMessages, Bases,                    \* CouncilPrompt
  Prefixes, MaxRecords, MaxDrops, MaxUnread,                     \* LiveStream
  Limit, Burst, MaxPosts, MaxWrites,                             \* CouncilStream
  Stems, LintedIds, Ages, Saliences,                             \* CorpusLint
  MaxRows, MaxExports,                                           \* ObservationExport
  Transcripts, ProjectNames, Noise, Directories, Days, AskedProject, Utterances, Window, \* TranscriptIndex
  KeptMessages, MaxPassages, FirstLengths, MaxGrowth, MaxIndexings

\* What the parts assume of their constants.
ASSUME SaversAssumption == Savers \cap {"none", "original", "nothing"} = {}
ASSUME EditorAssumption == MaxSaves \in Nat
ASSUME TranscriptAssumption == Chunk \in Nat \ {0} /\ Growth \in Nat \ {0, 1} /\ LineSizes \subseteq Nat
ASSUME RecallAssumption == Levels \subseteq Nat /\ Weights \subseteq 0..1 /\ Costs \subseteq Nat
ASSUME BlockAssumption == Minima \subseteq Nat /\ Budgets \subseteq Nat
ASSUME RequestAssumption == MaxMembers \in Nat /\ MaxTotalTurnCalls \in Nat /\ Rounds \subseteq Nat \ {0}
ASSUME LintAssumption == Stems \subseteq Nat /\ IsFiniteSet(Stems) /\ Ages \subseteq Nat /\ Saliences \subseteq Nat
ASSUME PromptAssumption ==
  MaxChars \in Nat /\ MaxMessages \in Nat /\ MessageSizes \subseteq Nat /\ Bases \subseteq Nat
ASSUME PassageAssumption ==
  /\ Transcripts \subseteq Nat /\ IsFiniteSet(Transcripts) /\ FirstLengths \subseteq Nat
  /\ Window \in Nat \ {0} /\ {KeptMessages, MaxPassages, MaxIndexings} \subseteq Nat
ASSUME StreamAssumption == {Limit, Burst, MaxRecords} \subseteq Nat \ {0}

VARIABLES
  part,
  place, lines, torn,
  text, target, assetTemp, backups, published, assetPc, open, overlapped, deaths,
  readonly, tool, valid, bridgePc, sends, reply, request, wrote, active, up, token, file, restarts,
  sharedPrompt, mtime, clock, resets, editorPc, seen, version, editorTemp, raced,
  graph, builds, dismissed, dismissalPc, pair, copy, promised, disturbed,
  corpus, query,
  stage, councilConfig, members, rounds, spokesperson, participants, calls,
  promptConfig, round, base, board, low, high, turnPrompt,
  loaded, count, at, known, noted, dir, found, wire, watermark, shown, drops, unread, jumped, missed,
  posts, writes, streamPc, boardMtime, sessionMtime, since, lastRead, sent, sessionSent, failed,
  files, exit,
  rows, obsFile, ledger, ledgerTorn, exporterPc, pulled, ids, runs, asked, served, links, building, promisedIds,
  transcript, directoryOf, projectOf, growth, vectors, meta, builderPc, directories, index, build, snapshot,
  readerPc, readVectors, readMeta, question, answer

transcriptVars == <<place, lines, torn>>
assetVars == <<text, target, assetTemp, backups, published, assetPc, open, overlapped, deaths>>
bridgeVars ==
  <<readonly, tool, valid, bridgePc, sends, reply, request, wrote, active, up, token, file, restarts>>
editorVars == <<sharedPrompt, mtime, clock, resets, editorPc, seen, version, editorTemp, raced>>
candidateVars == <<graph, builds, dismissed, dismissalPc, pair, copy, promised, disturbed>>
recallVars == <<corpus, query>>
requestVars == <<stage, councilConfig, members, rounds, spokesperson, participants, calls>>
promptVars == <<promptConfig, round, base, board, low, high, turnPrompt>>
recordStreamVars == <<loaded, count, at, known, noted, dir, found, wire, watermark, shown, drops, unread, jumped, missed>>
councilStreamVars ==
  <<posts, writes, streamPc, boardMtime, sessionMtime, since, lastRead, sent, sessionSent, failed>>
lintVars == <<files, exit>>
exportVars ==
  <<rows, obsFile, ledger, ledgerTorn, exporterPc, pulled, ids, runs, asked, served, links, building, promisedIds>>
indexVars ==
  <<transcript, directoryOf, projectOf, growth, vectors, meta, builderPc, directories, index, build, snapshot,
    readerPc, readVectors, readMeta, question, answer>>
ingestVars == <<lintVars, exportVars, indexVars>>

vars == <<part, transcriptVars, assetVars, bridgeVars, editorVars, candidateVars, recallVars,
          requestVars, promptVars, recordStreamVars, councilStreamVars, ingestVars>>

Transcript == INSTANCE Transcripts WITH Sizes <- LineSizes
Assets == INSTANCE AssetEditor WITH temp <- assetTemp, pc <- assetPc
Bridge == INSTANCE McpBridge WITH pc <- bridgePc
Editor == INSTANCE PromptEditor WITH prompt <- sharedPrompt, pc <- editorPc, temp <- editorTemp
Candidates == INSTANCE SupersessionCandidates WITH pc <- dismissalPc
RecallBlock == INSTANCE Recall
Request == INSTANCE CouncilRequest WITH config <- councilConfig
Prompt == INSTANCE CouncilPrompt
            WITH config <- promptConfig, prompt <- turnPrompt, Sizes <- MessageSizes
RecordStream == INSTANCE LiveStream
SessionStream == INSTANCE CouncilStream WITH pc <- streamPc
Linter == INSTANCE CorpusLint
Observations == INSTANCE ObservationExport
                  WITH file <- obsFile, torn <- ledgerTorn, pc <- exporterPc, promised <- promisedIds
Passages == INSTANCE TranscriptIndex WITH MaxChars <- KeptMessages

ASSUME AskedAssumption == AskedProject # Passages!NoCwd

-----------------------------------------------------------------------------
Rests(p) == part # p

Init ==
  /\ part \in Parts
  /\ \/ part = "transcripts"
     \/ Rests("transcripts") /\ place = "elsewhere"
  /\ Transcript!Init
  /\ Assets!Init
  /\ \/ part = "bridge"
     \/ /\ Rests("bridge") /\ readonly = FALSE
        /\ tool = [c \in Calls |-> "create_record"] /\ valid = [c \in Calls |-> TRUE]
  /\ Bridge!Init
  /\ Editor!Init
  /\ \/ part = "candidates"
     \/ Rests("candidates") /\ pair = [r \in Requests |-> CHOOSE p \in Labels \X Labels : p[1] # p[2]]
  /\ Candidates!Init
  /\ \/ part = "recall"
     \/ Rests("recall") /\ query = CHOOSE q \in RecallBlock!Query : TRUE
  /\ RecallBlock!Init
  /\ \/ part = "request"
     \/ Rests("request") /\ councilConfig = [known |-> 1, enabled |-> 1, rounds |-> 1, spokesperson |-> 0]
  /\ Request!Init
  /\ \/ part = "prompt"
     \/ /\ Rests("prompt") /\ round = 1 /\ base \in {b \in Bases : \A o \in Bases : b <= o}
        /\ promptConfig = [global |-> FALSE, replaceGlobal |-> FALSE, guidance |-> FALSE,
                           role |-> FALSE, memory |-> FALSE]
  /\ Prompt!Init
  /\ \/ part = "records"
     \/ Rests("records") /\ loaded = [p \in Prefixes |-> 0]
  /\ RecordStream!Init
  /\ \/ part = "sessions"
     \/ Rests("sessions") /\ posts = 0 /\ writes = 0
  /\ SessionStream!Init
  /\ \/ part = "lint" /\ Linter!Init
     \/ Rests("lint") /\ files = <<>> /\ exit = Linter!NotRun
  /\ Observations!Init
  /\ \/ part = "passages"
     \/ /\ Rests("passages") /\ projectOf = [s \in Transcripts |-> AskedProject]
        /\ directoryOf = [s \in Transcripts |-> CHOOSE d \in Directories : TRUE]
        /\ transcript = [s \in Transcripts |-> [i \in 1..2 |-> "tool"]]
  /\ Passages!Init

(* A step of one part leaves the variables of all others alone.               *)

TranscriptsNext ==
  /\ part = "transcripts" /\ Transcript!Next
  /\ UNCHANGED <<part, assetVars, bridgeVars, editorVars, candidateVars, recallVars,
                  requestVars, promptVars, recordStreamVars, councilStreamVars, ingestVars>>
AssetsNext ==
  /\ part = "assets" /\ Assets!Next
  /\ UNCHANGED <<part, transcriptVars, bridgeVars, editorVars, candidateVars, recallVars,
                  requestVars, promptVars, recordStreamVars, councilStreamVars, ingestVars>>
BridgeNext ==
  /\ part = "bridge" /\ Bridge!Next
  /\ UNCHANGED <<part, transcriptVars, assetVars, editorVars, candidateVars, recallVars,
                  requestVars, promptVars, recordStreamVars, councilStreamVars, ingestVars>>
EditorNext ==
  /\ part = "editor" /\ Editor!Next
  /\ UNCHANGED <<part, transcriptVars, assetVars, bridgeVars, candidateVars, recallVars,
                  requestVars, promptVars, recordStreamVars, councilStreamVars, ingestVars>>
CandidatesNext ==
  /\ part = "candidates" /\ Candidates!Next
  /\ UNCHANGED <<part, transcriptVars, assetVars, bridgeVars, editorVars, recallVars,
                  requestVars, promptVars, recordStreamVars, councilStreamVars, ingestVars>>
RecallNext ==
  /\ part = "recall" /\ RecallBlock!Next
  /\ UNCHANGED <<part, transcriptVars, assetVars, bridgeVars, editorVars, candidateVars,
                  requestVars, promptVars, recordStreamVars, councilStreamVars, ingestVars>>
RequestNext ==
  /\ part = "request" /\ Request!Next
  /\ UNCHANGED <<part, transcriptVars, assetVars, bridgeVars, editorVars, candidateVars,
                  recallVars, promptVars, recordStreamVars, councilStreamVars, ingestVars>>
PromptNext ==
  /\ part = "prompt" /\ Prompt!Next
  /\ UNCHANGED <<part, transcriptVars, assetVars, bridgeVars, editorVars, candidateVars,
                  recallVars, requestVars, recordStreamVars, councilStreamVars, ingestVars>>
RecordsNext ==
  /\ part = "records" /\ RecordStream!Next
  /\ UNCHANGED <<part, transcriptVars, assetVars, bridgeVars, editorVars, candidateVars,
                  recallVars, requestVars, promptVars, councilStreamVars, ingestVars>>
OnlySessions ==
  /\ part = "sessions"
  /\ UNCHANGED <<part, transcriptVars, assetVars, bridgeVars, editorVars, candidateVars,
                  recallVars, requestVars, promptVars, recordStreamVars, ingestVars>>
SessionsNext == OnlySessions /\ SessionStream!Next

otherVars == <<transcriptVars, assetVars, bridgeVars, editorVars, candidateVars, recallVars,
              requestVars, promptVars, recordStreamVars, councilStreamVars>>
LintNext ==
  /\ part = "lint" /\ Linter!Next
  /\ UNCHANGED <<part, otherVars, exportVars, indexVars>>
ObservationsNext ==
  /\ part = "observations" /\ Observations!Next
  /\ UNCHANGED <<part, otherVars, lintVars, indexVars>>
PassagesNext ==
  /\ part = "passages" /\ Passages!Next
  /\ UNCHANGED <<part, otherVars, lintVars, exportVars>>

Next ==
  \/ TranscriptsNext \/ AssetsNext \/ BridgeNext \/ EditorNext
  \/ CandidatesNext \/ RecallNext \/ RequestNext \/ PromptNext
  \/ RecordsNext \/ SessionsNext
  \/ LintNext \/ ObservationsNext \/ PassagesNext

\* The server's generator of a council's events is polled.
Fairness == WF_vars(OnlySessions /\ SessionStream!Poll)

Spec == Init /\ [][Next]_vars /\ Fairness

-----------------------------------------------------------------------------
(* The properties of the parts; what each says is told in its own module.     *)

\* Transcripts: the messages a watermark counts keep their places (transcripts.py).
SpokenGrows == Transcript!SpokenGrows
\* Transcripts: reading in growing chunks finds the last timestamp.
TimestampIsLast == Transcript!TimestampIsLast
\* AssetEditor: no text of an asset is lost or cut (agent_assets.py).
NothingLost == Assets!NothingLost
\* McpBridge: what the agent is told of a write is so (mcp_server.py).
RepliesAreTrue == Bridge!RepliesAreTrue
\* PromptEditor: only a change made during a request is overwritten (api.py).
OnlyRacesAreLost == Editor!OnlyRacesAreLost
\* SupersessionCandidates: a dismissed pair is not offered again (services.py).
DismissedStaysDismissed == Candidates!DismissedStaysDismissed
\* Recall: other projects take no room from the own one (services.py).
OwnRecordsFirst == part = "recall" => RecallBlock!OwnRecordsFirst
\* CouncilRequest: the cap on a council's calls holds (config.py, api.py).
CallsWithinCap == Request!CallsWithinCap
\* CouncilPrompt: the limit is kept and nothing left out that fits (runner.py).
PromptKeepsWhatFits == part = "prompt" => Prompt!PromptKeepsWhatFits
\* LiveStream: every record reaches the dashboard (live.py).
EveryRecordShown == part = "records" => RecordStream!EveryRecordShown
\* CouncilStream: a client catches up with board and session (council/api.py).
StreamCatchesUp == part = "sessions" => SessionStream!StreamCatchesUp
\* CorpusLint: lint passes exactly the consistent corpora (lint.py).
ExitTellsConsistency == part = "lint" => Linter!ExitTellsConsistency
\* ObservationExport: what the ledger knows is in the corpus (graph_ingest.py).
LedgerIsInCorpus == part = "observations" => Observations!LedgerIsInCorpus
\* TranscriptIndex: the closest passages of the project are shown (transcript_rag.py).
PassagesAreClosest == part = "passages" => Passages!PassagesAreClosest
=============================================================================
