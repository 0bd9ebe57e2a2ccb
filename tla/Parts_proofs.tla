----------------------------- MODULE Parts_proofs -----------------------------
(***************************************************************************)
(* What holds of the parts that MCParts runs side by side, for every value *)
(* of their constants.  Each part has an inductive invariant of its own;   *)
(* a step of another part leaves its variables alone.                      *)
(***************************************************************************)
EXTENDS MCParts, SequenceFolds

\* The instances count as this module does.
LEMMA SameCardinality ==
  \A S : Observations!Cardinality(S) = Cardinality(S) /\ Request!Cardinality(S) = Cardinality(S)
BY DEF Observations!Cardinality, Request!Cardinality, Cardinality

LEMMA StepOfPart ==
  ASSUME [Next]_vars
  PROVE  /\ Transcript!Next \/ UNCHANGED transcriptVars
         /\ Assets!Next \/ UNCHANGED assetVars
         /\ Bridge!Next \/ UNCHANGED bridgeVars
         /\ Editor!Next \/ UNCHANGED editorVars
         /\ Candidates!Next \/ UNCHANGED candidateVars
         /\ Request!Next \/ UNCHANGED requestVars
         /\ Prompt!Next \/ UNCHANGED promptVars
         /\ RecordStream!Next \/ UNCHANGED recordStreamVars
         /\ Linter!Next \/ UNCHANGED lintVars
         /\ Observations!Next \/ UNCHANGED exportVars
         /\ Passages!Next \/ UNCHANGED indexVars
BY DEF Next, vars, TranscriptsNext, AssetsNext, BridgeNext, EditorNext, CandidatesNext, RecallNext,
       RequestNext, PromptNext, RecordsNext, SessionsNext, OnlySessions, LintNext,
       ObservationsNext, PassagesNext, otherVars, ingestVars

LEMMA PartStays == [Next]_vars => part' = part
BY DEF Next, vars, TranscriptsNext, AssetsNext, BridgeNext, EditorNext, CandidatesNext, RecallNext,
       RequestNext, PromptNext, RecordsNext, SessionsNext, OnlySessions, LintNext,
       ObservationsNext, PassagesNext

-----------------------------------------------------------------------------
(* AssetEditor.                                                            *)

Halves == Savers \cup {"original", "nothing"}
AssetTypeOK ==
  /\ text \in [Assets!Inodes -> Halves \X Halves]
  /\ target \in Assets!Inodes /\ assetTemp \in Assets!Inodes \cup {Assets!NoFile}
  /\ assetPc \in [Savers -> {"start", "open", "first", "second", "replace", "unlink", "done"}]
  /\ open \in [Savers -> Assets!Inodes \cup {Assets!NoFile}]
  /\ overlapped \in BOOLEAN

Saves(s) == assetPc[s] \notin {"start", "done"}

\* While saves follow one another, at most one is under way; what it has written
\* so far is under the temporary name, which is never the asset's, and what the
\* asset was when it began is in a backup.
AssetInv ==
  /\ AssetTypeOK
  /\ \A s \in Savers : assetPc[s] \in {"start", "open"} => target # s /\ assetTemp # s
  /\ ~overlapped =>
       /\ \A s, o \in Savers : Saves(s) /\ Saves(o) => s = o
       /\ assetTemp # target
       /\ Assets!IsWhole(text[target])
       /\ published \subseteq backups \cup {text[target]}
       /\ \A s \in Savers :
            /\ assetPc[s] \in {"first", "second", "replace"} => assetTemp = open[s] /\ open[s] # Assets!NoFile
            /\ assetPc[s] = "first" => text[open[s]] = Assets!Empty
            /\ assetPc[s] = "second" => text[open[s]] = <<s, "nothing">>
            /\ assetPc[s] = "replace" => text[open[s]] = Assets!Whole(s)
            /\ assetPc[s] \in {"open", "first", "second", "replace"} => text[target] \in backups

LEMMA AssetInit == Init => AssetInv
<1> SUFFICES ASSUME Init PROVE AssetInv
  OBVIOUS
<1>1. Assets!Init
  BY DEF Init
<1> USE SaversAssumption DEF Assets!Inodes, Assets!First, Assets!NoFile, Assets!Original, Assets!Empty
<1>2. AssetTypeOK
  BY <1>1 DEF Assets!Init, AssetTypeOK, Halves
<1> QED
  BY <1>1, <1>2 DEF Assets!Init, AssetInv, Saves, Assets!IsWhole

LEMMA AssetStep == AssetInv /\ [Next]_vars => AssetInv'
<1> SUFFICES ASSUME AssetInv, Assets!Next \/ UNCHANGED assetVars PROVE AssetInv'
  BY StepOfPart
<1> USE SaversAssumption
<1> USE DEF AssetInv, AssetTypeOK, Halves, Saves, Assets!Inodes, Assets!First, Assets!NoFile,
            Assets!Empty, Assets!IsWhole, Assets!Goes, Assets!Publish, Assets!Whole
<1>1. ASSUME NEW s \in Savers, Assets!Backup(s) PROVE AssetInv'
  BY <1>1 DEF Assets!Backup
<1>2. ASSUME NEW s \in Savers, Assets!Open(s) PROVE AssetInv'
  BY <1>2 DEF Assets!Open
<1>3. ASSUME NEW s \in Savers, NEW half \in 1..2, Assets!WriteHalf(s, half) PROVE AssetInv'
  <2> DEFINE i == open[s]
  <2>1. /\ UNCHANGED <<target, assetTemp, backups, open, overlapped>>
        /\ published' = published \cup {text'[target']}
        /\ text' = [text EXCEPT ![i] = [text[i] EXCEPT ![half] = s]]
        /\ assetPc[s] = IF half = 1 THEN "first" ELSE "second"
        /\ assetPc' = [assetPc EXCEPT ![s] = IF half = 1 THEN "second" ELSE "replace"]
    BY <1>3 DEF Assets!WriteHalf
  <2>2. i \in Assets!Inodes => /\ text[i] \in Halves \X Halves
                              /\ [text[i] EXCEPT ![half] = s] = IF half = 1 THEN <<s, text[i][2]>> ELSE <<text[i][1], s>>
    OBVIOUS
  <2>3. AssetTypeOK'
    <3>1. text' \in [Assets!Inodes -> Halves \X Halves]
      <4>1. CASE i \in Assets!Inodes
        <5>1. [text[i] EXCEPT ![half] = s] \in Halves \X Halves
          BY <2>2, <4>1
        <5> QED
          BY <2>1, <5>1
      <4>2. CASE i \notin Assets!Inodes
        BY <2>1, <4>2
      <4> QED
        BY <4>1, <4>2
    <3> QED
      BY <2>1, <3>1
  <2>4. ASSUME ~overlapped
        PROVE  /\ i \in Assets!Inodes /\ i # target
               /\ text'[target] = text[target]
               /\ text'[i] = IF half = 1 THEN <<s, "nothing">> ELSE <<s, s>>
    <3>1. i \in Assets!Inodes /\ i = assetTemp /\ i # target
      BY <2>1, <2>4
    <3>2. text'[i] = [text[i] EXCEPT ![half] = s] /\ text'[target] = text[target]
      BY <2>1, <3>1
    <3> QED
      BY <2>1, <2>2, <2>4, <3>1, <3>2
  <2> HIDE DEF i
  <2> QED
    BY <2>1, <2>3, <2>4 DEF i
<1>4. ASSUME NEW s \in Savers, Assets!Replace(s) PROVE AssetInv'
  BY <1>4 DEF Assets!Replace
<1>5. ASSUME NEW s \in Savers, Assets!Unlink(s) PROVE AssetInv'
  BY <1>5 DEF Assets!Unlink
<1>6. ASSUME Assets!Die PROVE AssetInv'
  BY <1>6 DEF Assets!Die
<1>7. ASSUME UNCHANGED assetVars PROVE AssetInv'
  BY <1>7 DEF assetVars
<1> QED
  BY <1>1, <1>2, <1>3, <1>4, <1>5, <1>6, <1>7 DEF Assets!Next, Assets!Save

\* No text of an asset is lost or cut by saves that follow one another, whenever
\* the daemon dies in them (agent_assets.py: write_asset).
THEOREM NothingLostHolds == Spec => []NothingLost
<1>1. AssetInv => NothingLost
  BY DEF AssetInv, NothingLost, Assets!NothingLost
<1> QED
  BY <1>1, AssetInit, AssetStep, PTL DEF Spec

-----------------------------------------------------------------------------
(* McpBridge.                                                              *)

BridgeTypeOK ==
  /\ readonly \in BOOLEAN /\ tool \in [Calls -> Bridge!Tools] /\ valid \in [Calls -> BOOLEAN]
  /\ bridgePc \in [Calls -> {"idle", "token", "post", "waiting", "told"}]
  /\ reply \in [Calls -> Bridge!Refusal \cup {"none", Bridge!Success, "not responding", "daemon error"}]
  /\ request \in [Calls -> {"none", "arrived", "written", "lost", "200", "403", "409", "422", "500"}]
  /\ wrote \in SUBSET Calls

\* The daemon has no request of a call before it is posted, it writes only what it
\* was sent, and what the agent was told was so then; nothing comes after a refusal.
BridgeInv ==
  /\ BridgeTypeOK
  /\ \A c \in Calls :
       /\ bridgePc[c] # "told" => reply[c] = "none"
       /\ bridgePc[c] \in {"idle", "token", "post"} => request[c] = "none"
       /\ bridgePc[c] = "waiting" => request[c] # "none"
       /\ request[c] \in {"none", "arrived", "403", "409", "422"} => c \notin wrote
       /\ request[c] \in {"written", "200"} => c \in wrote
       /\ reply[c] \in Bridge!Refusal => c \notin wrote /\ request[c] # "arrived"
       /\ reply[c] = Bridge!Success => c \in wrote

\* What a tool says of an answer: success of a success only, and a refusal only of
\* a request that the daemon turned away before it wrote anything.
LEMMA ReplyFacts ==
  ASSUME BridgeTypeOK, NEW c \in Calls, NEW status \in {"none", "200", "403", "409", "422", "500"}
  PROVE  /\ Bridge!ReplyTo(c, status) \in Bridge!Refusal \cup {Bridge!Success, "not responding", "daemon error"}
         /\ Bridge!ReplyTo(c, status) = Bridge!Success => status = "200"
         /\ Bridge!ReplyTo(c, status) \in Bridge!Refusal => status \in {"403", "409", "422"}
<1>1. tool[c] \in {"create_record", "council_post", "council_open"}
  BY DEF BridgeTypeOK, Bridge!Tools
<1>2. /\ Bridge!Describe("403") = "token rejected" /\ Bridge!Describe("500") = "daemon error"
      /\ Bridge!Describe("409") = "request rejected" /\ Bridge!Describe("422") = "request rejected"
  BY DEF Bridge!Describe
<1> USE DEF Bridge!Refusal, Bridge!Success
<1>3. CASE tool[c] = "create_record"
  BY <1>3 DEF Bridge!ReplyTo, Bridge!CreateRecordReply
<1>4. CASE tool[c] = "council_post"
  BY <1>2, <1>4 DEF Bridge!ReplyTo, Bridge!CouncilPostReply
<1>5. CASE tool[c] = "council_open"
  BY <1>2, <1>5 DEF Bridge!ReplyTo, Bridge!CouncilOpenReply
<1> QED
  BY <1>1, <1>3, <1>4, <1>5

LEMMA BridgeInit == Init => BridgeInv
<1> SUFFICES ASSUME Init PROVE BridgeInv
  OBVIOUS
<1>1. Bridge!Init
  BY DEF Init
<1> QED
  BY <1>1 DEF Bridge!Init, BridgeInv, BridgeTypeOK, Bridge!Refusal, Bridge!Success

LEMMA BridgeStep == BridgeInv /\ [Next]_vars => BridgeInv'
<1> SUFFICES ASSUME BridgeInv, Bridge!Next \/ UNCHANGED bridgeVars PROVE BridgeInv'
  BY StepOfPart
<1> USE DEF BridgeInv, BridgeTypeOK, Bridge!Tell, Bridge!Answer, Bridge!client, Bridge!store, Bridge!daemon
<1>1. ASSUME NEW c \in Calls, Bridge!Refuse(c) PROVE BridgeInv'
  BY <1>1 DEF Bridge!Refuse, Bridge!Refusal, Bridge!Success
<1>2. ASSUME NEW c \in Calls, Bridge!AskHealth(c) PROVE BridgeInv'
  BY <1>2, ReplyFacts DEF Bridge!AskHealth
<1>3. ASSUME NEW c \in Calls, Bridge!ReadToken(c) PROVE BridgeInv'
  BY <1>3 DEF Bridge!ReadToken, Bridge!Refusal, Bridge!Success
<1>4. ASSUME NEW c \in Calls, Bridge!Post(c) PROVE BridgeInv'
  <2>1. CASE up
    BY <1>4, <2>1 DEF Bridge!Post, Bridge!Refusal, Bridge!Success
  <2>2. CASE ~up
    BY <1>4, <2>2, ReplyFacts DEF Bridge!Post
  <2> QED
    BY <2>1, <2>2
<1>5. ASSUME NEW c \in Calls, Bridge!Hear(c) PROVE BridgeInv'
  BY <1>5, ReplyFacts DEF Bridge!Hear
<1>6. ASSUME NEW c \in Calls, Bridge!GiveUp(c) PROVE BridgeInv'
  BY <1>6, ReplyFacts DEF Bridge!GiveUp
<1>7. ASSUME NEW c \in Calls, Bridge!Reject(c) PROVE BridgeInv'
  BY <1>7 DEF Bridge!Reject
<1>8. ASSUME NEW c \in Calls, Bridge!Write(c) PROVE BridgeInv'
  BY <1>8 DEF Bridge!Write, Bridge!Accepted
<1>9. ASSUME NEW c \in Calls, Bridge!Finish(c) PROVE BridgeInv'
  BY <1>9 DEF Bridge!Finish
<1>10. ASSUME NEW c \in Calls, Bridge!Fail(c) PROVE BridgeInv'
  BY <1>10 DEF Bridge!Fail, Bridge!Accepted
<1>11. ASSUME Bridge!CouncilEnds PROVE BridgeInv'
  BY <1>11 DEF Bridge!CouncilEnds
<1>12. ASSUME Bridge!Die PROVE BridgeInv'
  BY <1>12 DEF Bridge!Die
<1>13. ASSUME Bridge!Start \/ Bridge!LoseToken PROVE BridgeInv'
  BY <1>13 DEF Bridge!Start, Bridge!LoseToken
<1>14. ASSUME UNCHANGED bridgeVars PROVE BridgeInv'
  BY <1>14 DEF bridgeVars
<1> QED
  BY <1>1, <1>2, <1>3, <1>4, <1>5, <1>6, <1>7, <1>8, <1>9, <1>10, <1>11, <1>12, <1>13, <1>14
  DEF Bridge!Next, Bridge!Call, Bridge!Serve

\* After a refusal nothing was written and nothing will be, after a success it
\* was (mcp_server.py), although the daemon may die, restart with a new token or
\* answer after the tool has given up.
THEOREM RepliesAreTrueHolds == Spec => []RepliesAreTrue
<1>1. BridgeInv => RepliesAreTrue
  BY DEF BridgeInv, RepliesAreTrue, Bridge!RepliesAreTrue
<1> QED
  BY <1>1, BridgeInit, BridgeStep, PTL DEF Spec

-----------------------------------------------------------------------------
(* PromptEditor.                                                           *)

EditorTypeOK ==
  /\ clock \in 0..MaxSaves
  /\ sharedPrompt \in 0..clock
  /\ mtime \in [Editor!Texts -> 0..MaxSaves]
  /\ editorPc \in [Editors -> {"closed", "loading", "editing", "conflict", "checked", "written", "saved"}]
  /\ seen \in [Editors -> 0..MaxSaves] /\ version \in [Editors -> 0..MaxSaves]
  /\ editorTemp \in [Editors -> 0..clock]
  /\ raced \in [Editors -> SUBSET (0..MaxSaves)]

\* A file's version tells its text, and an editor's version is of the text it
\* has, or of one that came in a request of its own.  While a request is under
\* way, what replaces the text the editor knows is known to have raced with it.
EditorInv ==
  /\ EditorTypeOK
  /\ \A t \in 1..clock : mtime[t] = t
  /\ \A e \in Editors :
       /\ editorPc[e] = "written" => editorTemp[e] # Editor!NoFile
       /\ editorPc[e] \in {"editing", "checked", "written"} => version[e] \in raced[e] \cup {seen[e]}
       /\ editorPc[e] \in {"loading", "checked", "written"} => sharedPrompt \in raced[e] \cup {seen[e]}
       /\ editorPc[e] = "saved" => sharedPrompt \in raced[e] \cup {editorTemp[e]}

\* The version of the file is its text's.
LEMMA VersionTellsText == EditorInv => Editor!PromptVersion = sharedPrompt
BY DEF EditorInv, EditorTypeOK, Editor!PromptVersion, Editor!NoFile

LEMMA EditorInit == Init => EditorInv
<1> SUFFICES ASSUME Init PROVE EditorInv
  OBVIOUS
<1>1. Editor!Init
  BY DEF Init
<1> QED
  BY <1>1, EditorAssumption DEF Editor!Init, EditorInv, EditorTypeOK, Editor!NoFile, Editor!Texts

LEMMA EditorStep == EditorInv /\ [Next]_vars => EditorInv'
<1> SUFFICES ASSUME EditorInv, Editor!Next \/ UNCHANGED editorVars PROVE EditorInv'
  BY StepOfPart
<1> USE EditorAssumption
<1> USE DEF EditorInv, EditorTypeOK, Editor!NoFile, Editor!Texts, Editor!Goes, Editor!file
<1>1. ASSUME NEW e \in Editors, Editor!ReadText(e) PROVE EditorInv'
  BY <1>1 DEF Editor!ReadText
<1>2. ASSUME NEW e \in Editors, Editor!ReadVersion(e) PROVE EditorInv'
  BY <1>2, VersionTellsText DEF Editor!ReadVersion
<1>3. ASSUME NEW e \in Editors, Editor!CheckVersion(e) PROVE EditorInv'
  BY <1>3, VersionTellsText DEF Editor!CheckVersion
<1>4. ASSUME NEW e \in Editors, Editor!WriteTemp(e) PROVE EditorInv'
  BY <1>4 DEF Editor!WriteTemp
<1>5. ASSUME NEW e \in Editors, Editor!Replace(e) PROVE EditorInv'
  BY <1>5 DEF Editor!Replace, Editor!Becomes
<1>6. ASSUME NEW e \in Editors, Editor!AnswerSave(e) PROVE EditorInv'
  BY <1>6, VersionTellsText DEF Editor!AnswerSave
<1>7. ASSUME NEW e \in Editors, Editor!FailSave(e) \/ Editor!Reload(e) PROVE EditorInv'
  BY <1>7 DEF Editor!FailSave, Editor!Reload
<1>8. ASSUME NEW e \in Editors, Editor!Reset(e) PROVE EditorInv'
  BY <1>8 DEF Editor!Reset, Editor!Becomes
<1>9. ASSUME UNCHANGED editorVars PROVE EditorInv'
  BY <1>9 DEF editorVars
<1> QED
  BY <1>1, <1>2, <1>3, <1>4, <1>5, <1>6, <1>7, <1>8, <1>9 DEF Editor!Next, Editor!Edit

\* A save replaces only the text its author knows, or one that came in while a
\* request of that author was under way (council/prompt.py, council/api.py).
THEOREM OnlyRacesAreLostHolds == Spec => OnlyRacesAreLost
<1>1. ASSUME EditorInv, [Next]_vars
      PROVE  [\A e \in Editors : Editor!Replace(e) => sharedPrompt \in raced[e] \cup {seen[e]}]_(Editor!vars)
  BY <1>1 DEF EditorInv, Editor!Replace, Editor!Goes
<1> QED
  BY <1>1, EditorInit, EditorStep, PTL DEF Spec, OnlyRacesAreLost, Editor!OnlyRacesAreLost

-----------------------------------------------------------------------------
(* SupersessionCandidates.                                                 *)

KeysIn(pairs) == {Candidates!PairKey(p[1], p[2]) : p \in pairs}

\* While dismissals follow one another and the file can be read, the one under way
\* has the pairs that are in it, and those are all that were answered.
CandidatesInv ==
  /\ dismissalPc \in [Requests -> {"idle", "read", "done"}] /\ DOMAIN copy = Requests
  /\ ~disturbed =>
       /\ \A r, o \in Requests : dismissalPc[r] = "read" /\ dismissalPc[o] = "read" => r = o
       /\ \A r \in Requests : dismissalPc[r] = "read" => copy[r] = dismissed
       /\ KeysIn(promised) \subseteq KeysIn(dismissed)

LEMMA CandidatesInit == Init => CandidatesInv
<1> SUFFICES ASSUME Init PROVE CandidatesInv
  OBVIOUS
<1>1. Candidates!Init
  BY DEF Init
<1> QED
  BY <1>1 DEF Candidates!Init, CandidatesInv, KeysIn

LEMMA CandidatesStep == CandidatesInv /\ [Next]_vars => CandidatesInv'
<1> SUFFICES ASSUME CandidatesInv, Candidates!Next \/ UNCHANGED candidateVars PROVE CandidatesInv'
  BY StepOfPart
<1> USE DEF CandidatesInv
<1>1. ASSUME Candidates!Rebuild PROVE CandidatesInv'
  BY <1>1 DEF Candidates!Rebuild
<1>2. ASSUME NEW r \in Requests, Candidates!ReadDismissed(r) PROVE CandidatesInv'
  BY <1>2 DEF Candidates!ReadDismissed, Candidates!UnderWay
<1>3. ASSUME NEW r \in Requests, Candidates!ReadNothing(r) PROVE CandidatesInv'
  BY <1>3 DEF Candidates!ReadNothing
<1>4. ASSUME NEW r \in Requests, Candidates!WriteDismissed(r) PROVE CandidatesInv'
  <2>1. /\ dismissalPc[r] = "read" /\ dismissalPc' = [dismissalPc EXCEPT ![r] = "done"]
        /\ dismissed' = IF Candidates!Known(r) THEN dismissed ELSE copy[r] \cup {pair[r]}
        /\ promised' = promised \cup {pair[r]} /\ UNCHANGED <<pair, copy, disturbed>>
    BY <1>4 DEF Candidates!WriteDismissed
  <2>2. ASSUME ~disturbed
        PROVE  /\ KeysIn(promised') \subseteq KeysIn(dismissed')
               /\ \A o \in Requests : dismissalPc'[o] # "read"
    <3>1. copy[r] = dismissed /\ \A o \in Requests : o # r => dismissalPc[o] # "read"
      BY <2>1, <2>2
    <3>2. KeysIn(promised') = KeysIn(promised) \cup KeysIn({pair[r]})
      BY <2>1 DEF KeysIn
    <3>3. CASE Candidates!Known(r)
      <4>1. KeysIn({pair[r]}) \subseteq KeysIn(dismissed)
        BY <3>1, <3>3 DEF KeysIn, Candidates!Known
      <4> QED
        BY <2>1, <2>2, <3>1, <3>2, <3>3, <4>1
    <3>4. CASE ~Candidates!Known(r)
      <4>1. KeysIn(dismissed') = KeysIn(dismissed) \cup KeysIn({pair[r]})
        BY <2>1, <3>1, <3>4 DEF KeysIn
      <4> QED
        BY <2>1, <2>2, <3>1, <3>2, <4>1
    <3> QED
      BY <3>3, <3>4
  <2> QED
    BY <2>1, <2>2
<1>5. ASSUME UNCHANGED candidateVars PROVE CandidatesInv'
  BY <1>5 DEF candidateVars
<1> QED
  BY <1>1, <1>2, <1>3, <1>4, <1>5 DEF Candidates!Next

\* A pair that was dismissed is not offered again, whichever way round a later
\* build of the graph has it (consolidate.py, daemon/services.py).
THEOREM DismissedStaysDismissedHolds == Spec => []DismissedStaysDismissed
<1>1. CandidatesInv => DismissedStaysDismissed
  BY DEF CandidatesInv, DismissedStaysDismissed, Candidates!DismissedStaysDismissed, KeysIn,
         Candidates!Listed, Candidates!DismissedKeys, Candidates!PairKey
<1> QED
  BY <1>1, CandidatesInit, CandidatesStep, PTL DEF Spec

-----------------------------------------------------------------------------
(* ObservationExport.                                                      *)

Exported(i) == i \in DOMAIN obsFile /\ obsFile[i] = "whole"
IsText(i) == rows[i] = "text"

\* An exporter that has not failed has the file of every id it will save and of
\* every row it is done with; what earlier exports served is saved, or about to be.
ExportInv ==
  /\ \E k \in Nat : DOMAIN rows = 1..k
  /\ asked \cup served \subseteq DOMAIN rows
  /\ \A i \in ledger : Exported(i)
  /\ ledgerTorn => ledger = {}
  /\ ~ledgerTorn => \A i \in served : IsText(i) => i \in ledger
  /\ exporterPc \in {"idle", "row", "write", "ledger"}
  /\ exporterPc \in {"row", "write"} => ~ledgerTorn /\ ledger \subseteq ids
  /\ exporterPc = "ledger" => ledgerTorn /\ pulled = {} /\ \A i \in served : IsText(i) => i \in ids
  /\ exporterPc # "idle" =>
       /\ \A i \in ids : Exported(i)
       /\ \A i \in asked \ pulled : IsText(i) => i \in ids
  /\ promisedIds \subseteq DOMAIN obsFile
  /\ building \in 0..3
  /\ building = 0 => \A i \in promisedIds : <<3, i>> \in links

LEMMA ExportInit == Init => ExportInv
<1> SUFFICES ASSUME Init PROVE ExportInv
  OBVIOUS
<1>1. Observations!Init
  BY DEF Init
<1>2. 0 \in Nat /\ DOMAIN rows = 1..0
  BY <1>1 DEF Observations!Init
<1> QED
  BY <1>1, <1>2 DEF Observations!Init, ExportInv

LEMMA ExportStep == ExportInv /\ [Next]_vars => ExportInv'
<1> SUFFICES ASSUME ExportInv, Observations!Next \/ UNCHANGED exportVars PROVE ExportInv'
  BY StepOfPart
<1> USE DEF ExportInv, Exported, IsText
<1>1. ASSUME Observations!Observe PROVE ExportInv'
  <2>1. PICK k \in Nat : DOMAIN rows = 1..k
    OBVIOUS
  <2>2. Observations!Cardinality(DOMAIN rows) = k
    <3>1. Cardinality(1..k) = k
      BY FS_Interval
    <3> QED
      BY <2>1, <3>1, SameCardinality
  <2>3. PICK body \in {"text", "blank", "broken"} : rows' = Observations!Assign(rows, k + 1, body)
    BY <1>1, <2>2 DEF Observations!Observe
  <2>4. DOMAIN rows' = 1..k + 1 /\ \A i \in DOMAIN rows : rows'[i] = rows[i]
    <3>1. rows' = [j \in 1..k \cup {k + 1} |-> IF j = k + 1 THEN body ELSE rows[j]]
      BY <2>1, <2>3 DEF Observations!Assign
    <3>2. 1..k \cup {k + 1} = 1..k + 1 /\ k + 1 \notin 1..k
      OBVIOUS
    <3> QED
      BY <2>1, <3>1, <3>2
  <2>5. k + 1 \in Nat /\ DOMAIN rows \subseteq DOMAIN rows'
    BY <2>1, <2>4
  <2>6. UNCHANGED <<obsFile, ledger, ledgerTorn, exporterPc, pulled, ids, asked, served, links, building, promisedIds>>
    BY <1>1 DEF Observations!Observe, Observations!exporter, Observations!builder
  <2> QED
    BY <2>4, <2>5, <2>6
<1>2. ASSUME Observations!Begin PROVE ExportInv'
  BY <1>2 DEF Observations!Begin, Observations!builder
<1>3. ASSUME Observations!Skip PROVE ExportInv'
  BY <1>3 DEF Observations!Skip, Observations!builder
<1>4. ASSUME Observations!Fail \/ Observations!Die \/ Observations!RemoveLedger PROVE ExportInv'
  BY <1>4 DEF Observations!Fail, Observations!Die, Observations!RemoveLedger, Observations!builder
<1>5. ASSUME Observations!OpenFile PROVE ExportInv'
  <2>1. PICK i \in pulled : i \notin ids /\ obsFile' = Observations!Assign(obsFile, i, "torn")
    BY <1>5 DEF Observations!OpenFile
  <2>2. DOMAIN obsFile \subseteq DOMAIN obsFile' /\ \A j \in DOMAIN obsFile : j # i => obsFile'[j] = obsFile[j]
    BY <2>1 DEF Observations!Assign
  <2>3. /\ exporterPc = "row" /\ exporterPc' = "write"
        /\ UNCHANGED <<rows, ledger, ledgerTorn, pulled, ids, asked, served, links, building, promisedIds>>
    BY <1>5 DEF Observations!OpenFile, Observations!builder
  <2>4. \A j \in ids : Exported(j)'
    BY <2>1, <2>2, <2>3
  <2> QED
    BY <2>2, <2>3, <2>4
<1>6. ASSUME Observations!WriteFile PROVE ExportInv'
  <2>1. PICK i \in pulled : /\ obsFile' = Observations!Assign(obsFile, i, "whole")
                            /\ ids' = ids \cup {i} /\ pulled' = pulled \ {i}
    BY <1>6 DEF Observations!WriteFile
  <2>2. /\ DOMAIN obsFile \subseteq DOMAIN obsFile' /\ i \in DOMAIN obsFile' /\ obsFile'[i] = "whole"
        /\ \A j \in DOMAIN obsFile : j # i => obsFile'[j] = obsFile[j]
    BY <2>1 DEF Observations!Assign
  <2>3. /\ exporterPc = "write" /\ exporterPc' = "row"
        /\ UNCHANGED <<rows, ledger, ledgerTorn, asked, served, links, building, promisedIds>>
    BY <1>6 DEF Observations!WriteFile, Observations!builder
  <2>4. \A j : Exported(j) => Exported(j)'
    BY <2>2
  <2> QED
    BY <2>1, <2>2, <2>3, <2>4
<1>7. ASSUME Observations!OpenLedger PROVE ExportInv'
  BY <1>7 DEF Observations!OpenLedger, Observations!builder
<1>8. ASSUME Observations!WriteLedger PROVE ExportInv'
  BY <1>8 DEF Observations!WriteLedger, Observations!builder
<1>9. ASSUME Observations!Clear PROVE ExportInv'
  BY <1>9 DEF Observations!Clear, Observations!exporter
<1>10. ASSUME Observations!LinkSource PROVE ExportInv'
  <2>1. /\ links' = links \cup ({building} \X Observations!Files(building)) /\ building > 0
        /\ building' = IF building < 3 THEN building + 1 ELSE 0
        /\ UNCHANGED <<rows, obsFile, ledger, ledgerTorn, exporterPc, pulled, ids, asked, served, promisedIds>>
    BY <1>10 DEF Observations!LinkSource, Observations!exporter
  <2>2. building' = 0 => building = 3
    BY <2>1
  <2>3. building' = 0 => \A i \in promisedIds : <<3, i>> \in links'
    BY <2>1, <2>2 DEF Observations!Files
  <2>4. building' \in 0..3
    BY <2>1
  <2> QED
    BY <2>1, <2>3, <2>4
<1>11. ASSUME UNCHANGED exportVars PROVE ExportInv'
  BY <1>11 DEF exportVars
<1> QED
  BY <1>1, <1>2, <1>3, <1>4, <1>5, <1>6, <1>7, <1>8, <1>9, <1>10, <1>11
     DEF Observations!Next, Observations!Export

\* Wherever exporter and builder die: what the ledger knows has a whole file,
\* linked by a build that began later, and an export that ended well left none of
\* its observations out (graph_ingest.py).
THEOREM LedgerIsInCorpusHolds == Spec => []LedgerIsInCorpus
<1>1. ExportInv => LedgerIsInCorpus
  BY DEF ExportInv, Exported, IsText, LedgerIsInCorpus, Observations!LedgerIsInCorpus
<1> QED
  BY <1>1, ExportInit, ExportStep, PTL DEF Spec

-----------------------------------------------------------------------------
(* CouncilRequest.                                                         *)

\* No council asks for exactly as many turns as the cap leaves beside one synthesis.
Slack == \A spread \in 1..MaxMembers, many \in Rounds : spread * many + 1 # MaxTotalTurnCalls

Turns == Cardinality(members) * rounds

\* What was accepted leaves room for two syntheses, and the calls so far are at
\* most the turns of the members and the syntheses that were tried.
CallsInv ==
  /\ stage # "idle" => Turns + 2 <= MaxTotalTurnCalls
  /\ stage \in {"idle", "pending", "running"} => calls = 0
  /\ stage = "spoken" => calls <= Turns
  /\ stage = "fallback" => calls <= Turns + 1
  /\ calls <= Turns + 2

RequestInv ==
  /\ councilConfig \in Request!Configs /\ Request!ValidConfig(councilConfig)
  /\ members \subseteq 1..MaxMembers /\ participants \subseteq members
  /\ rounds \in Nat /\ calls \in Nat
  /\ stage \in {"idle", "pending", "running", "spoken", "fallback", "converged", "failed"}
  /\ stage \in {"idle", "pending"} => participants = {}
  /\ CallsInv

\* MAX_MEMBERS, MAX_ROUNDS and MAX_TOTAL_TURN_CALLS (config.py) leave that room:
\* 23 is a prime.
LEMMA CodeHasSlack ==
  MaxMembers = 6 /\ MaxTotalTurnCalls = 24 /\ Rounds \subseteq 1..5 => Slack
<1> SUFFICES ASSUME MaxMembers = 6, MaxTotalTurnCalls = 24,
                    NEW spread \in 1..6, NEW many \in 1..5
             PROVE  spread * many # 23
  BY DEF Slack
<1>1. many \in {1, 2, 3, 4, 5}
  OBVIOUS
<1> QED
  BY <1>1

LEMMA TimesNat ==
  ASSUME NEW m \in Nat, NEW k \in Nat
  PROVE  m * k \in Nat
OBVIOUS

LEMMA TimesGrows ==
  ASSUME NEW m \in Nat, NEW n \in Nat, NEW k \in Nat, m <= n
  PROVE  m * k \in Nat /\ n * k \in Nat /\ m * k <= n * k
<1>1. PICK d \in Nat : n = m + d
  <2>1. n - m \in Nat /\ n = m + (n - m)
    OBVIOUS
  <2> QED
    BY <2>1
<1>2. n * k = m * k + d * k /\ d * k \in Nat /\ m * k \in Nat
  BY <1>1
<1> QED
  BY <1>2

LEMMA MembersCounted ==
  ASSUME NEW S \in SUBSET (1..MaxMembers)
  PROVE  IsFiniteSet(S) /\ Cardinality(S) \in Nat /\ Cardinality(S) <= MaxMembers /\ (S # {} => Cardinality(S) > 0)
<1>1. IsFiniteSet(1..MaxMembers) /\ Cardinality(1..MaxMembers) = MaxMembers
  BY RequestAssumption, FS_Interval
<1>2. IsFiniteSet(S) /\ Cardinality(S) <= MaxMembers
  BY <1>1, FS_Subset
<1>3. Cardinality(S) \in Nat /\ (S # {} => Cardinality(S) # 0)
  BY <1>2, FS_CardinalityType, FS_EmptySet
<1> QED
  BY <1>2, <1>3, RequestAssumption

LEMMA TurnsAreCounted == RequestInv => Turns \in Nat
<1> SUFFICES ASSUME RequestInv PROVE Turns \in Nat
  OBVIOUS
<1>1. Cardinality(members) \in Nat /\ rounds \in Nat
  BY MembersCounted, RequestAssumption DEF RequestInv
<1>2. Cardinality(members) * rounds \in Nat
  BY <1>1, TimesNat
<1> QED
  BY <1>2 DEF Turns

LEMMA RequestInit == Init => RequestInv
<1> SUFFICES ASSUME Init PROVE RequestInv
  OBVIOUS
<1>1. Request!Init
  BY DEF Init
<1>2. Turns = 0
  BY <1>1, FS_EmptySet DEF Request!Init, Turns
<1> QED
  BY <1>1, <1>2 DEF Request!Init, RequestInv, CallsInv

LEMMA RequestStep == Slack /\ RequestInv /\ [Next]_vars => RequestInv'
<1> SUFFICES ASSUME Slack, RequestInv, Request!Next \/ UNCHANGED requestVars PROVE RequestInv'
  BY StepOfPart
<1> USE RequestAssumption
<1>t. Turns \in Nat /\ calls \in Nat /\ CallsInv
  BY TurnsAreCounted DEF RequestInv
<1>1. ASSUME NEW requested \in Request!Ranges \cup {{}}, NEW many \in Rounds \cup {Request!None},
             Request!Post(requested, many)
      PROVE  RequestInv'
  <2> DEFINE accepted == Request!EffectiveMembers(councilConfig, requested)
             spread == IF many = Request!None THEN councilConfig.rounds ELSE many
  <2>1. /\ stage = "idle" /\ Request!MembersAccepted(councilConfig, requested)
        /\ Request!WithinCap(Cardinality(accepted), spread)
        /\ stage' = "pending" /\ members' = accepted /\ rounds' = spread
        /\ UNCHANGED <<councilConfig, participants, calls>>
    BY <1>1, SameCardinality DEF Request!Post
  <2>2. /\ councilConfig.enabled \in 0..MaxMembers /\ councilConfig.rounds \in Rounds
    BY DEF RequestInv, Request!Configs
  <2>3. spread \in Rounds /\ accepted \subseteq 1..MaxMembers /\ accepted # {}
    BY <2>1, <2>2 DEF Request!EffectiveMembers, Request!MembersAccepted
  <2>4. Cardinality(accepted) \in 1..MaxMembers
    <3> HIDE DEF accepted
    <3>1. accepted \in SUBSET (1..MaxMembers)
      BY <2>3
    <3>2. Cardinality(accepted) \in Nat /\ Cardinality(accepted) <= MaxMembers /\ Cardinality(accepted) > 0
      BY <2>3, <3>1, MembersCounted
    <3> QED
      BY <3>2
  <2>5. Cardinality(accepted) * spread + 1 # MaxTotalTurnCalls
    BY <2>3, <2>4 DEF Slack
  <2>6. Cardinality(accepted) * spread + 1 <= MaxTotalTurnCalls
    BY <2>1 DEF Request!WithinCap
  <2>7. Turns' = Cardinality(accepted) * spread
    BY <2>1 DEF Turns
  <2> HIDE DEF accepted, spread
  <2>8. PICK turns \in Nat : Turns' = turns /\ turns + 2 <= MaxTotalTurnCalls
    <3>0. spread \in Nat
      BY <2>3
    <3>1. Cardinality(accepted) \in Nat
      BY <2>4
    <3>2. Cardinality(accepted) * spread \in Nat
      BY <3>0, <3>1, TimesNat
    <3> QED
      BY <2>5, <2>6, <2>7, <3>2
  <2>9. participants = {} /\ calls = 0
    BY <1>t, <2>1 DEF RequestInv, CallsInv
  <2>10. CallsInv'
    <3>1. stage' = "pending" /\ calls' = 0
      BY <2>1, <2>9
    <3> QED
      BY <2>8, <3>1 DEF CallsInv
  <2>11. rounds' \in Nat
    BY <2>1, <2>3
  <2> QED
    BY <2>1, <2>3, <2>9, <2>10, <2>11 DEF RequestInv
<1>2. ASSUME NEW usable \in Request!Ranges, Request!BuildParticipants(usable) PROVE RequestInv'
  <2>1. UNCHANGED Turns
    BY <1>2 DEF Request!BuildParticipants, Turns
  <2>2. CallsInv'
    BY <1>2, <1>t, <2>1 DEF CallsInv, Request!BuildParticipants
  <2> QED
    BY <1>2, <2>2 DEF RequestInv, Request!BuildParticipants
<1>3. ASSUME Request!RunRounds PROVE RequestInv'
  <2>1. /\ stage = "running" /\ stage' = "spoken" /\ calls' = Cardinality(participants) * rounds
        /\ UNCHANGED <<councilConfig, members, rounds, participants>>
    BY <1>3, SameCardinality DEF Request!RunRounds
  <2>2. /\ Cardinality(participants) \in Nat /\ Cardinality(members) \in Nat
        /\ Cardinality(participants) <= Cardinality(members)
    BY MembersCounted, FS_Subset DEF RequestInv
  <2>3. calls' \in Nat /\ calls' <= Turns
    <3>1. rounds \in Nat
      BY DEF RequestInv
    <3> QED
      BY <2>1, <2>2, <3>1, TimesGrows DEF Turns
  <2>4. UNCHANGED Turns
    BY <2>1 DEF Turns
  <2>5. CallsInv'
    BY <2>1, <2>3, <2>4, <1>t DEF CallsInv
  <2> QED
    BY <2>1, <2>3, <2>5 DEF RequestInv
<1>4. ASSUME NEW answers \in BOOLEAN, Request!AskSpokesperson(answers) PROVE RequestInv'
  <2>1. UNCHANGED Turns
    BY <1>4 DEF Request!AskSpokesperson, Turns
  <2>2. CallsInv'
    BY <1>4, <1>t, <2>1 DEF CallsInv, Request!AskSpokesperson
  <2> QED
    BY <1>4, <1>t, <2>2 DEF RequestInv, Request!AskSpokesperson
<1>5. ASSUME Request!NoSpokesperson PROVE RequestInv'
  <2>1. UNCHANGED Turns
    BY <1>5 DEF Request!NoSpokesperson, Turns
  <2>2. CallsInv'
    BY <1>5, <1>t, <2>1 DEF CallsInv, Request!NoSpokesperson
  <2> QED
    BY <1>5, <1>t, <2>2 DEF RequestInv, Request!NoSpokesperson
<1>6. ASSUME NEW answers \in BOOLEAN, Request!AskFallback(answers) PROVE RequestInv'
  <2>1. UNCHANGED Turns
    BY <1>6 DEF Request!AskFallback, Turns
  <2>2. CallsInv'
    BY <1>6, <1>t, <2>1 DEF CallsInv, Request!AskFallback
  <2> QED
    BY <1>6, <1>t, <2>2 DEF RequestInv, Request!AskFallback
<1>7. ASSUME UNCHANGED requestVars PROVE RequestInv'
  <2>1. UNCHANGED Turns
    BY <1>7 DEF requestVars, Turns
  <2> QED
    BY <1>7, <2>1 DEF RequestInv, CallsInv, requestVars
<1> QED
  BY <1>1, <1>2, <1>3, <1>4, <1>5, <1>6, <1>7 DEF Request!Next

\* A council never starts more CLIs than the cap, although its validation counts
\* one synthesis and the runner may make two (config.py, api.py, runner.py).
THEOREM CallsWithinCapHolds ==
  ASSUME Slack
  PROVE  Spec => []CallsWithinCap
<1>1. RequestInv => CallsWithinCap
  <2> SUFFICES ASSUME RequestInv PROVE calls <= MaxTotalTurnCalls
    BY DEF CallsWithinCap, Request!CallsWithinCap
  <2>1. Turns \in Nat /\ calls \in Nat /\ CallsInv
    BY TurnsAreCounted DEF RequestInv
  <2> QED
    BY <2>1, RequestAssumption DEF CallsInv
<1> QED
  BY <1>1, RequestInit, RequestStep, PTL DEF Spec

-----------------------------------------------------------------------------
(* CorpusLint.                                                             *)

Contents == Linter!NoRecord \cup Linter!Related \cup Linter!Alone

Misparsed(d) == \E f \in DOMAIN d : Linter!Parse(d[f]) = "ValueError"
Unknown(d) == \E f \in DOMAIN d : Linter!HasUnknownKey(d[f])
Twice(d) == \E i \in Linter!KnownIds(d) :
              Linter!Cardinality({f \in Linter!Loaded(d) : d[f].id = i}) > 1
Broken(d) == \E r \in Linter!Records(d) : r.links \ Linter!KnownIds(d) # {}
Halved(d) == \E r \in Linter!Records(d) :
               \/ Linter!MissingSupersedes(r, Linter!ById(d)) # {}
               \/ Linter!MissingSupersededBy(r, Linter!ById(d)) # {}
Misfiled(d) == \E r \in Linter!Records(d) : r.supersededBy # {} /\ r.status \notin Linter!SupersededStatuses
Stale(d) == \E r \in Linter!Records(d) : Linter!IsStale(r)

\* What fails a lint: every check but the one for orphans.
Fails(d) == Misparsed(d) \/ Unknown(d) \/ Twice(d) \/ Broken(d) \/ Halved(d) \/ Misfiled(d) \/ Stale(d)

\* The exit code tells exactly whether one of them finds something.
LEMMA ExitCodeTellsFailure ==
  ASSUME NEW d
  PROVE  Linter!ExitCode(Linter!RunLint(d)) = IF Fails(d) THEN 1 ELSE 0
<1> USE DEF Linter!Finding, Linter!INFO, Linter!WARNING, Linter!ERROR
<1> DEFINE Severe(S) == \E f \in S : f.severity >= 2
<1>1. Severe(Linter!CheckSchema(d)) <=> Misparsed(d)
  <2> DEFINE hits == {g \in DOMAIN d : Linter!Parse(d[g]) = "ValueError"}
  <2>1. Linter!CheckSchema(d) = {Linter!Finding(3, "schema", f, f) : f \in hits}
    BY DEF Linter!CheckSchema
  <2>2. hits # {} <=> Misparsed(d)
    BY DEF Misparsed
  <2> HIDE DEF hits
  <2>3. ASSUME hits # {} PROVE Severe(Linter!CheckSchema(d))
    <3>1. PICK f : f \in hits
      BY <2>3
    <3>2. Linter!Finding(3, "schema", f, f) \in Linter!CheckSchema(d)
      BY <2>1, <3>1
    <3> QED
      BY <3>2
  <2>4. ASSUME Severe(Linter!CheckSchema(d)) PROVE hits # {}
    BY <2>1, <2>4
  <2> QED
    BY <2>2, <2>3, <2>4
<1>2. Severe(Linter!CheckUnknownKeys(d)) <=> Unknown(d)
  <2> DEFINE hits == {g \in DOMAIN d : Linter!HasUnknownKey(d[g])}
  <2>1. Linter!CheckUnknownKeys(d) = {Linter!Finding(2, "unknown-key", f, f) : f \in hits}
    BY DEF Linter!CheckUnknownKeys
  <2>2. hits # {} <=> Unknown(d)
    BY DEF Unknown
  <2> HIDE DEF hits
  <2>3. ASSUME hits # {} PROVE Severe(Linter!CheckUnknownKeys(d))
    <3>1. PICK f : f \in hits
      BY <2>3
    <3>2. Linter!Finding(2, "unknown-key", f, f) \in Linter!CheckUnknownKeys(d)
      BY <2>1, <3>1
    <3> QED
      BY <3>2
  <2>4. ASSUME Severe(Linter!CheckUnknownKeys(d)) PROVE hits # {}
    BY <2>1, <2>4
  <2> QED
    BY <2>2, <2>3, <2>4
<1>3. Severe(Linter!CheckDuplicateId(d)) <=> Twice(d)
  <2> DEFINE hits == {j \in Linter!KnownIds(d) : Linter!Cardinality({g \in Linter!Loaded(d) : d[g].id = j}) > 1}
  <2>1. Linter!CheckDuplicateId(d) = {Linter!Finding(3, "duplicate-id", f, f) : f \in hits}
    BY DEF Linter!CheckDuplicateId
  <2>2. hits # {} <=> Twice(d)
    BY DEF Twice
  <2> HIDE DEF hits
  <2>3. ASSUME hits # {} PROVE Severe(Linter!CheckDuplicateId(d))
    <3>1. PICK f : f \in hits
      BY <2>3
    <3>2. Linter!Finding(3, "duplicate-id", f, f) \in Linter!CheckDuplicateId(d)
      BY <2>1, <3>1
    <3> QED
      BY <3>2
  <2>4. ASSUME Severe(Linter!CheckDuplicateId(d)) PROVE hits # {}
    BY <2>1, <2>4
  <2> QED
    BY <2>2, <2>3, <2>4
<1>4. Severe(Linter!CheckBrokenLinks(d)) <=> Broken(d)
  <2>1. ASSUME Broken(d) PROVE Severe(Linter!CheckBrokenLinks(d))
    <3>1. PICK r \in Linter!Records(d) : r.links \ Linter!KnownIds(d) # {}
      BY <2>1 DEF Broken
    <3>2. PICK t : t \in r.links \ Linter!KnownIds(d)
      BY <3>1
    <3>3. Linter!Finding(3, "broken-link", r.id, t) \in Linter!CheckBrokenLinks(d)
      BY <3>2 DEF Linter!CheckBrokenLinks
    <3> QED
      BY <3>3
  <2>2. ASSUME Severe(Linter!CheckBrokenLinks(d)) PROVE Broken(d)
    BY <2>2 DEF Broken, Linter!CheckBrokenLinks
  <2> QED
    BY <2>1, <2>2
<1>5. ~Severe(Linter!CheckOrphans(d))
  BY DEF Linter!CheckOrphans
<1>6. Severe(Linter!HalfLinks(Linter!Records(d), Linter!ById(d))) <=> Halved(d)
  <2> DEFINE M(r) == Linter!MissingSupersedes(r, Linter!ById(d)) \cup Linter!MissingSupersededBy(r, Linter!ById(d))
             halves == Linter!HalfLinks(Linter!Records(d), Linter!ById(d))
  <2>1. halves = UNION {{Linter!Finding(3, "supersession", r.id, t) : t \in M(r)} : r \in Linter!Records(d)}
    BY DEF Linter!HalfLinks
  <2>2. Halved(d) <=> \E r \in Linter!Records(d) : M(r) # {}
    BY DEF Halved
  <2> HIDE DEF M, halves
  <2>3. ASSUME Halved(d) PROVE Severe(halves)
    <3>1. PICK r \in Linter!Records(d) : M(r) # {}
      BY <2>2, <2>3
    <3>2. PICK t : t \in M(r)
      BY <3>1
    <3>3. Linter!Finding(3, "supersession", r.id, t) \in halves
      BY <2>1, <3>2
    <3> QED
      BY <3>3
  <2>4. ASSUME Severe(halves) PROVE Halved(d)
    BY <2>1, <2>2, <2>4
  <2> QED
    BY <2>3, <2>4 DEF halves
<1>7. Severe(Linter!LinkedButCurrent(Linter!Records(d))) <=> Misfiled(d)
  <2> DEFINE hits == {r \in Linter!Records(d) : r.supersededBy # {} /\ r.status \notin Linter!SupersededStatuses}
  <2>1. Linter!LinkedButCurrent(Linter!Records(d)) = {Linter!Finding(2, "supersession", f.id, f.id) : f \in hits}
    BY DEF Linter!LinkedButCurrent
  <2>2. hits # {} <=> Misfiled(d)
    BY DEF Misfiled
  <2> HIDE DEF hits
  <2>3. ASSUME hits # {} PROVE Severe(Linter!LinkedButCurrent(Linter!Records(d)))
    <3>1. PICK f : f \in hits
      BY <2>3
    <3>2. Linter!Finding(2, "supersession", f.id, f.id) \in Linter!LinkedButCurrent(Linter!Records(d))
      BY <2>1, <3>1
    <3> QED
      BY <3>2
  <2>4. ASSUME Severe(Linter!LinkedButCurrent(Linter!Records(d))) PROVE hits # {}
    BY <2>1, <2>4
  <2> QED
    BY <2>2, <2>3, <2>4
<1>8. Severe(Linter!CheckStaleness(d)) <=> Stale(d)
  <2> DEFINE hits == {r \in Linter!Records(d) : Linter!IsStale(r)}
  <2>1. Linter!CheckStaleness(d) = {Linter!Finding(2, "staleness", f.id, f.id) : f \in hits}
    BY DEF Linter!CheckStaleness
  <2>2. hits # {} <=> Stale(d)
    BY DEF Stale
  <2> HIDE DEF hits
  <2>3. ASSUME hits # {} PROVE Severe(Linter!CheckStaleness(d))
    <3>1. PICK f : f \in hits
      BY <2>3
    <3>2. Linter!Finding(2, "staleness", f.id, f.id) \in Linter!CheckStaleness(d)
      BY <2>1, <3>1
    <3> QED
      BY <3>2
  <2>4. ASSUME Severe(Linter!CheckStaleness(d)) PROVE hits # {}
    BY <2>1, <2>4
  <2> QED
    BY <2>2, <2>3, <2>4
<1>9. Severe(Linter!RunLint(d)) <=>
        \/ Severe(Linter!CheckSchema(d)) \/ Severe(Linter!CheckUnknownKeys(d))
        \/ Severe(Linter!CheckDuplicateId(d)) \/ Severe(Linter!CheckBrokenLinks(d))
        \/ Severe(Linter!CheckOrphans(d)) \/ Severe(Linter!CheckStaleness(d))
        \/ Severe(Linter!HalfLinks(Linter!Records(d), Linter!ById(d)))
        \/ Severe(Linter!LinkedButCurrent(Linter!Records(d)))
  BY DEF Linter!RunLint, Linter!CheckSupersession
<1>10. Linter!ExitCode(Linter!RunLint(d)) = IF Severe(Linter!RunLint(d)) THEN 1 ELSE 0
  BY DEF Linter!ExitCode
<1> HIDE DEF Severe
<1> QED
  BY <1>1, <1>2, <1>3, <1>4, <1>5, <1>6, <1>7, <1>8, <1>9, <1>10 DEF Fails

SameId(d) == \E f, g \in DOMAIN d : f # g /\ d[f].id = d[g].id
AllValid(d) == \A f \in DOMAIN d : d[f].front = "valid"
Mirrored(d) == \A f, g \in DOMAIN d : d[g].id \in d[f].supersedes <=> d[f].id \in d[g].supersededBy
Resolved(d) == \A f \in DOMAIN d : d[f].supersedes \cup d[f].supersededBy \subseteq Linter!KnownIds(d)

LEMMA ValidIsLoaded ==
  ASSUME NEW d, AllValid(d)
  PROVE  /\ Linter!Loaded(d) = DOMAIN d
         /\ Linter!Records(d) = {d[f] : f \in DOMAIN d}
         /\ Linter!KnownIds(d) = {d[f].id : f \in DOMAIN d}
         /\ \A f \in DOMAIN d : Linter!Parse(d[f]) = "record"
<1>1. \A f \in DOMAIN d : Linter!Parse(d[f]) = "record"
  BY DEF AllValid, Linter!Parse
<1>2. Linter!Loaded(d) = DOMAIN d
  BY <1>1 DEF Linter!Loaded
<1> QED
  BY <1>1, <1>2 DEF Linter!Records, Linter!KnownIds

LEMMA LinterCounts == \A S : Linter!Cardinality(S) = Cardinality(S)
BY DEF Linter!Cardinality, Cardinality

\* The check for duplicates finds two files with one id.
LEMMA TwiceIsSameId ==
  ASSUME NEW d, IsFiniteSet(DOMAIN d), AllValid(d)
  PROVE  Twice(d) <=> SameId(d)
<1> DEFINE With(i) == {f \in DOMAIN d : d[f].id = i}
<1>1. Twice(d) <=> \E f \in DOMAIN d : Cardinality(With(d[f].id)) > 1
  <2>1. \A i : Linter!Cardinality({f \in Linter!Loaded(d) : d[f].id = i}) = Cardinality(With(i))
    BY ValidIsLoaded, LinterCounts
  <2> HIDE DEF With
  <2>2. Twice(d) <=> \E i \in Linter!KnownIds(d) : Cardinality(With(i)) > 1
    BY <2>1 DEF Twice
  <2> QED
    BY <2>2, ValidIsLoaded
<1>2. \A f \in DOMAIN d : IsFiniteSet(With(d[f].id)) /\ Cardinality(With(d[f].id)) \in Nat
  BY FS_Subset, FS_CardinalityType
<1>3. \A f \in DOMAIN d : f \in With(d[f].id)
  OBVIOUS
<1>4. ASSUME SameId(d) PROVE Twice(d)
  <2>1. PICK f, g \in DOMAIN d : f # g /\ d[f].id = d[g].id
    BY <1>4 DEF SameId
  <2>2. f \in With(d[f].id) /\ g \in With(d[f].id)
    BY <2>1
  <2> HIDE DEF With
  <2>3. Cardinality(With(d[f].id)) # 0
    BY <1>2, <2>2, FS_EmptySet
  <2>4. Cardinality(With(d[f].id)) # 1
    BY <1>2, <2>1, <2>2, FS_Singleton
  <2> QED
    BY <1>1, <1>2, <2>3, <2>4
<1>5. ASSUME Twice(d) PROVE SameId(d)
  <2>1. PICK f \in DOMAIN d : Cardinality(With(d[f].id)) > 1
    BY <1>1, <1>5
  <2>2. \E g \in With(d[f].id) : g # f
    <3>1. ASSUME With(d[f].id) = {f} PROVE FALSE
      BY <2>1, <3>1, FS_Singleton
    <3> QED
      BY <1>3, <3>1
  <2> QED
    BY <2>2 DEF SameId
<1> QED
  BY <1>4, <1>5

\* Without duplicates, an id finds its record.
LEMMA IdFindsRecord ==
  ASSUME NEW d, DOMAIN d \subseteq Nat, AllValid(d), ~SameId(d)
  PROVE  /\ DOMAIN Linter!ById(d) = Linter!KnownIds(d)
         /\ \A f \in DOMAIN d : Linter!ById(d)[d[f].id] = d[f]
<1> SUFFICES ASSUME NEW f \in DOMAIN d PROVE Linter!ById(d)[d[f].id] = d[f]
  BY DEF Linter!ById
<1>1. d[f].id \in Linter!KnownIds(d)
  BY ValidIsLoaded
<1>2. {g \in DOMAIN d : d[g].id = d[f].id} = {f}
  BY DEF SameId
<1> DEFINE last == CHOOSE g \in DOMAIN d :
                     /\ d[g].id = d[f].id
                     /\ \A h \in DOMAIN d : d[h].id = d[f].id => h <= g
<1>3. Linter!ById(d)[d[f].id] = d[last]
  BY <1>1, ValidIsLoaded DEF Linter!ById
<1>4. f <= f
  OBVIOUS
<1>5. last = f
  BY <1>2, <1>4
<1> QED
  BY <1>3, <1>5

\* Given that, links are mirrored and lead somewhere exactly if none is half.
LEMMA HalvedIsUnmirrored ==
  ASSUME NEW d, DOMAIN d \subseteq Nat, AllValid(d), ~SameId(d)
  PROVE  Halved(d) <=> ~(Mirrored(d) /\ Resolved(d))
<1> DEFINE byId == Linter!ById(d)
<1>1. /\ DOMAIN byId = Linter!KnownIds(d)
      /\ \A f \in DOMAIN d : byId[d[f].id] = d[f]
  BY IdFindsRecord
<1>2. /\ Linter!Records(d) = {d[f] : f \in DOMAIN d}
      /\ Linter!KnownIds(d) = {d[f].id : f \in DOMAIN d}
  BY ValidIsLoaded
<1>3. Halved(d) <=> \E f \in DOMAIN d : \/ Linter!MissingSupersedes(d[f], byId) # {}
                                       \/ Linter!MissingSupersededBy(d[f], byId) # {}
  BY <1>2 DEF Halved
<1> HIDE DEF byId
<1>4. ASSUME Mirrored(d), Resolved(d), Halved(d) PROVE FALSE
  <2>1. PICK f \in DOMAIN d : \/ Linter!MissingSupersedes(d[f], byId) # {}
                             \/ Linter!MissingSupersededBy(d[f], byId) # {}
    BY <1>3, <1>4
  <2>2. CASE Linter!MissingSupersedes(d[f], byId) # {}
    <3>1. PICK t \in d[f].supersededBy : t \notin DOMAIN byId \/ d[f].id \notin byId[t].supersedes
      BY <2>2 DEF Linter!MissingSupersedes
    <3>2. PICK g \in DOMAIN d : t = d[g].id
      BY <1>2, <1>4, <3>1 DEF Resolved
    <3> QED
      BY <1>1, <1>2, <1>4, <3>1, <3>2 DEF Mirrored
  <2>3. CASE Linter!MissingSupersededBy(d[f], byId) # {}
    <3>1. PICK t \in d[f].supersedes : t \notin DOMAIN byId \/ d[f].id \notin byId[t].supersededBy
      BY <2>3 DEF Linter!MissingSupersededBy
    <3>2. PICK g \in DOMAIN d : t = d[g].id
      BY <1>2, <1>4, <3>1 DEF Resolved
    <3> QED
      BY <1>1, <1>2, <1>4, <3>1, <3>2 DEF Mirrored
  <2> QED
    BY <2>1, <2>2, <2>3
<1>5. ASSUME ~Halved(d) PROVE Resolved(d) /\ Mirrored(d)
  <2>1. \A f \in DOMAIN d : /\ \A t \in d[f].supersededBy : t \in DOMAIN byId /\ d[f].id \in byId[t].supersedes
                            /\ \A t \in d[f].supersedes : t \in DOMAIN byId /\ d[f].id \in byId[t].supersededBy
    BY <1>3, <1>5 DEF Linter!MissingSupersedes, Linter!MissingSupersededBy
  <2>2. Resolved(d)
    BY <1>1, <2>1 DEF Resolved
  <2>3. Mirrored(d)
    BY <1>1, <2>1 DEF Mirrored
  <2> QED
    BY <2>2, <2>3
<1> QED
  BY <1>4, <1>5

IdsOf(d) == {d[f].id : f \in DOMAIN d}
Consistent(d) ==
  /\ \A f \in DOMAIN d : Linter!InOrder(d[f])
  /\ ~SameId(d) /\ Mirrored(d)
  /\ \A f \in DOMAIN d : d[f].links \cup d[f].supersedes \cup d[f].supersededBy \subseteq IdsOf(d)

Unreadable(d) == \E f \in DOMAIN d : Linter!Parse(d[f]) = "YAMLError"

\* What the linter can find in a directory: the fronts there are, ages and saliences.
Directory(d) ==
  /\ DOMAIN d \subseteq Stems
  /\ \A f \in DOMAIN d :
       /\ d[f].front \in {"missing", "unclosed", "malformed", "scalar", "invalid", "valid"}
       /\ d[f].front = "valid" => d[f].age \in Nat /\ d[f].salience \in Nat

LEMMA LintTellsConsistency ==
  ASSUME NEW d, Directory(d)
  PROVE  Unreadable(d) \/ Fails(d) <=> ~Consistent(d)
<1>1. DOMAIN d \subseteq Nat /\ IsFiniteSet(DOMAIN d)
  BY LintAssumption, FS_Subset DEF Directory
<1>2. CASE ~AllValid(d)
  <2>1. PICK f \in DOMAIN d : d[f].front # "valid"
    BY <1>2 DEF AllValid
  <2>2. Linter!Parse(d[f]) \in {"YAMLError", "ValueError"}
    BY <2>1 DEF Linter!Parse
  <2>3. Unreadable(d) \/ Fails(d)
    BY <2>2 DEF Unreadable, Fails, Misparsed
  <2>4. ~Consistent(d)
    BY <2>1 DEF Consistent, Linter!InOrder
  <2> QED
    BY <2>3, <2>4
<1>3. CASE AllValid(d)
  <2>1. ~Unreadable(d) /\ ~Misparsed(d)
    BY <1>3, ValidIsLoaded DEF Unreadable, Misparsed
  <2>2. Twice(d) <=> SameId(d)
    BY <1>1, <1>3, TwiceIsSameId
  <2>3. ~SameId(d) => (Halved(d) <=> ~(Mirrored(d) /\ Resolved(d)))
    BY <1>1, <1>3, HalvedIsUnmirrored
  <2>4. /\ Linter!Records(d) = {d[f] : f \in DOMAIN d}
        /\ Linter!KnownIds(d) = IdsOf(d)
    BY <1>3, ValidIsLoaded DEF IdsOf
  <2>5. Broken(d) <=> ~\A f \in DOMAIN d : d[f].links \subseteq IdsOf(d)
    BY <2>4 DEF Broken
  <2>6. Resolved(d) <=> \A f \in DOMAIN d : d[f].supersedes \cup d[f].supersededBy \subseteq IdsOf(d)
    BY <2>4 DEF Resolved
  <2>7. Unknown(d) \/ Misfiled(d) \/ Stale(d) <=> ~\A f \in DOMAIN d : Linter!InOrder(d[f])
    <3>1. Unknown(d) <=> \E f \in DOMAIN d : d[f].unknown
      BY <1>3 DEF Unknown, Linter!HasUnknownKey, AllValid
    <3>2. Misfiled(d) <=> \E f \in DOMAIN d : d[f].supersededBy # {} /\ d[f].status \notin Linter!SupersededStatuses
      BY <2>4 DEF Misfiled
    <3>3. Stale(d) <=> \E f \in DOMAIN d : Linter!IsStale(d[f])
      BY <2>4 DEF Stale
    <3>4. \A f \in DOMAIN d :
            /\ d[f].front = "valid"
            /\ Linter!IsStale(d[f]) <=> ~(\/ d[f].age < Linter!StaleAfterDays
                                         \/ d[f].salience >= Linter!LowSalience
                                         \/ d[f].status \in Linter!SupersededStatuses)
      BY <1>3 DEF Directory, AllValid, Linter!IsStale, Linter!StaleAfterDays, Linter!LowSalience
    <3> QED
      BY <3>1, <3>2, <3>3, <3>4 DEF Linter!InOrder
  <2> QED
    BY <2>1, <2>2, <2>3, <2>5, <2>6, <2>7 DEF Fails, Consistent
<1> QED
  BY <1>2, <1>3

\* The exit code is the linter's answer to the directory it finds.
LintInv ==
  /\ Directory(files)
  /\ exit \in {0, 1, Linter!NotRun}
  /\ exit # Linter!NotRun => (exit = 0 <=> ~Unreadable(files) /\ ~Fails(files))

LEMMA LintInit == Init => (part = "lint" => LintInv)
<1> SUFFICES ASSUME Linter!Init PROVE LintInv
  BY DEF Init, Rests
<1>1. Directory(files)
  <2>1. PICK present \in SUBSET Stems :
          \/ files \in [present -> Linter!Related]
          \/ \E f \in present, content \in Linter!NoRecord \cup Linter!Alone, other \in Linter!Related :
               files = [g \in present |-> IF g = f THEN content ELSE other]
    BY DEF Linter!Init
  <2>2. DOMAIN files = present /\ \A f \in present : files[f] \in Contents
    BY <2>1 DEF Contents
  <2>3. \A c \in Contents :
          /\ c.front \in {"missing", "unclosed", "malformed", "scalar", "invalid", "valid"}
          /\ c.front = "valid" => c.age \in Nat /\ c.salience \in Nat
    <3> SUFFICES ASSUME NEW c \in Contents
                 PROVE  /\ c.front \in {"missing", "unclosed", "malformed", "scalar", "invalid", "valid"}
                        /\ c.front = "valid" => c.age \in Nat /\ c.salience \in Nat
      OBVIOUS
    <3>1. c \in Linter!NoRecord => c.front \in {"missing", "unclosed", "malformed", "scalar", "invalid"}
      BY DEF Linter!NoRecord
    <3>2. c \in Linter!Related => c.front = "valid" /\ c.age = 0 /\ c.salience = 100
      BY DEF Linter!Related
    <3>3. c \in Linter!Alone => c.front = "valid" /\ c.age \in Ages /\ c.salience \in Saliences
      BY DEF Linter!Alone
    <3> QED
      <4>1. c \in Linter!NoRecord \/ c \in Linter!Related \/ c \in Linter!Alone
        BY DEF Contents
      <4>2. CASE c \in Linter!NoRecord
        BY <3>1, <4>2
      <4>3. CASE c \in Linter!Related
        BY <3>2, <4>3
      <4>4. CASE c \in Linter!Alone
        BY <3>3, <4>4, LintAssumption
      <4> QED
        BY <4>1, <4>2, <4>3, <4>4
  <2> QED
    BY <2>2, <2>3 DEF Directory
<1> QED
  BY <1>1 DEF LintInv, Linter!Init, Linter!NotRun

LEMMA LintStep == (part = "lint" => LintInv) /\ [Next]_vars => (part = "lint" => LintInv)'
<1> SUFFICES ASSUME LintInv, Linter!Next \/ UNCHANGED lintVars PROVE LintInv'
  BY StepOfPart, PartStays
<1>1. CASE Linter!Main
  <2>1. /\ exit' = IF Unreadable(files) THEN 1 ELSE Linter!ExitCode(Linter!RunLint(files))
        /\ files' = files
    BY <1>1 DEF Linter!Main, Unreadable
  <2>2. exit' = IF Unreadable(files) \/ Fails(files) THEN 1 ELSE 0
    BY <2>1, ExitCodeTellsFailure
  <2> QED
    BY <2>1, <2>2 DEF LintInv, Linter!NotRun
<1>2. CASE UNCHANGED lintVars
  BY <1>2 DEF LintInv, lintVars
<1> QED
  BY <1>1, <1>2 DEF Linter!Next

\* The linter passes exactly the corpora that are consistent (lint.py).
THEOREM ExitTellsConsistencyHolds == Spec => []ExitTellsConsistency
<1>1. LintInv => Linter!ExitTellsConsistency
  <2> SUFFICES ASSUME LintInv, exit # Linter!NotRun
               PROVE  exit = 0 <=>
                        /\ \A f \in DOMAIN files : Linter!InOrder(files[f])
                        /\ \A f, g \in DOMAIN files :
                             /\ files[f].id = files[g].id => f = g
                             /\ Linter!Claims(f, g) <=> Linter!Admits(f, g)
                        /\ \A f \in DOMAIN files :
                             files[f].links \cup files[f].supersedes \cup files[f].supersededBy
                               \subseteq {files[g].id : g \in DOMAIN files}
    BY DEF Linter!ExitTellsConsistency
  <2>1. exit = 0 <=> Consistent(files)
    BY LintTellsConsistency DEF LintInv
  <2> QED
    BY <2>1 DEF Consistent, SameId, Mirrored, IdsOf, Linter!Claims, Linter!Admits
<1> QED
  BY <1>1, LintInit, LintStep, PTL DEF Spec, ExitTellsConsistency

-----------------------------------------------------------------------------
(* CouncilPrompt.                                                          *)

Layers == {"global", "guidance", "role"}
Texts == Layers \cup {"preamble", "reminder", "question", "memory", "message", "your turn"}

\* No reminder is followed by a layer.
InOrder(s) == \A i, j \in DOMAIN s : s[i] \in Layers /\ s[j] = "reminder" => i < j

\* A prompt's length, with messages of the lengths s.
LengthOf(s, from) == SumOf(s, from) + (IF s = <<>> THEN 0 ELSE 1)

\* What is left out would not have fitted, and what is known to fit does.
PromptInv ==
  /\ board \in Seq(Nat) /\ base \in Nat
  /\ low \in 0..Len(board) /\ high \in low..Len(board)
  /\ \A n \in 0..(low - 1) : LengthOf(After(board, n), base) > MaxChars
  /\ high < Len(board) => LengthOf(After(board, high), base) <= MaxChars
  /\ turnPrompt # <<>> => low = high /\ turnPrompt[1] = "preamble" /\ InOrder(turnPrompt)

LEMMA LengthIsSum ==
  ASSUME NEW s
  PROVE  Prompt!Length(s) = LengthOf(s, base)
BY DEF LengthOf, Prompt!Length, Prompt!FoldSeq, Prompt!FoldFunction, Prompt!FoldFunctionOnSet,
       Prompt!MapThenFoldSet, SumOf, IsSum, Some

LEMMA LengthTypes ==
  ASSUME board \in Seq(Nat), base \in Nat, NEW n \in 0..Len(board)
  PROVE  LengthOf(After(board, n), base) \in Nat
<1>1. After(board, n) \in Seq(Nat)
  BY AfterTypes
<1>2. SumOf(After(board, n), base) \in Nat
  BY <1>1, SumOfNat
<1>3. PICK sum \in Nat : sum = SumOf(After(board, n), base)
  BY <1>2
<1> QED
  BY <1>3 DEF LengthOf

\* The longer an end of the board, the longer the prompt.
LEMMA LongerEnds ==
  ASSUME board \in Seq(Nat), base \in Nat, NEW n \in 0..Len(board), NEW m \in n..Len(board)
  PROVE  LengthOf(After(board, m), base) <= LengthOf(After(board, n), base)
<1>1. /\ m \in 0..Len(board)
      /\ After(board, n) = <<>> => After(board, m) = <<>>
  <2>1. m \in 0..Len(board) /\ Len(board) - n >= Len(board) - m /\ Len(board) \in Nat
    OBVIOUS
  <2>2. /\ Len(After(board, n)) = Len(board) - n /\ After(board, n) \in Seq(Nat)
        /\ Len(After(board, m)) = Len(board) - m /\ After(board, m) \in Seq(Nat)
    BY <2>1, AfterTypes
  <2> QED
    BY <2>1, <2>2
<1>2. PICK long \in Nat : long = SumOf(After(board, n), base)
  BY AfterTypes, SumOfNat
<1>3. PICK short \in Nat : short = SumOf(After(board, m), base)
  BY <1>1, AfterTypes, SumOfNat
<1>4. short <= long
  BY <1>2, <1>3, SumShrinks
<1>5. /\ LengthOf(After(board, n), base) = long + (IF After(board, n) = <<>> THEN 0 ELSE 1)
      /\ LengthOf(After(board, m), base) = short + (IF After(board, m) = <<>> THEN 0 ELSE 1)
  BY <1>2, <1>3 DEF LengthOf
<1> QED
  BY <1>1, <1>4, <1>5

\* What stands behind keeps the order if it holds no layer.
LEMMA OrderKept ==
  ASSUME NEW s \in Seq(Texts), NEW t \in Seq(Texts), InOrder(s),
         \A i \in DOMAIN t : t[i] \notin Layers
  PROVE  s \o t \in Seq(Texts) /\ InOrder(s \o t)
<1>1. /\ s \o t \in Seq(Texts) /\ DOMAIN (s \o t) = 1..(Len(s) + Len(t))
      /\ \A i \in 1..Len(s) : (s \o t)[i] = s[i] /\ i \in DOMAIN s
      /\ \A i \in (Len(s) + 1)..(Len(s) + Len(t)) : (s \o t)[i] = t[i - Len(s)] /\ i - Len(s) \in DOMAIN t
  OBVIOUS
<1>2. ASSUME NEW i \in DOMAIN (s \o t), NEW j \in DOMAIN (s \o t),
             (s \o t)[i] \in Layers, (s \o t)[j] = "reminder"
      PROVE  i < j
  <2>1. Len(s) \in Nat /\ Len(t) \in Nat
    OBVIOUS
  <2>2. i \in 1..Len(s)
    <3>1. i \notin (Len(s) + 1)..(Len(s) + Len(t))
      BY <1>1, <1>2
    <3> QED
      BY <1>1, <2>1, <3>1
  <2>3. CASE j \in 1..Len(s)
    BY <1>1, <1>2, <2>2, <2>3 DEF InOrder
  <2>4. CASE j \notin 1..Len(s)
    BY <1>1, <2>1, <2>2, <2>4
  <2> QED
    BY <2>3, <2>4
<1> QED
  BY <1>1, <1>2 DEF InOrder

LEMMA OneText ==
  ASSUME NEW x \in Texts
  PROVE  /\ <<x>> \in Seq(Texts) /\ Len(<<x>>) = 1 /\ <<x>>[1] = x
         /\ \A i \in DOMAIN <<x>> : <<x>>[i] = x
<1>1. <<x>> \in Seq(Texts) /\ Len(<<x>>) = 1 /\ <<x>>[1] = x
  OBVIOUS
<1>2. DOMAIN <<x>> = 1..1
  BY <1>1
<1>3. \A i \in 1..1 : i = 1
  OBVIOUS
<1> QED
  BY <1>1, <1>2, <1>3, Zenon

LEMMA NoText == <<>> \in Seq(Texts) /\ \A i \in DOMAIN <<>> : FALSE
<1>1. <<>> \in Seq(Texts) /\ Len(<<>>) = 0
  OBVIOUS
<1>2. DOMAIN <<>> = 1..0
  BY <1>1
<1> QED
  BY <1>1, <1>2

LEMMA WhenTypes ==
  ASSUME NEW c, NEW x \in Texts
  PROVE  Prompt!When(c, x) \in Seq(Texts) /\ \A i \in DOMAIN Prompt!When(c, x) : Prompt!When(c, x)[i] = x
<1>1. CASE Prompt!When(c, x) = <<x>>
  BY <1>1, OneText, Zenon
<1>2. CASE Prompt!When(c, x) = <<>>
  BY <1>2, NoText, Zenon
<1> QED
  BY <1>1, <1>2, Zenon DEF Prompt!When

\* Texts that begin with the preamble and hold no reminder.
Opening(s) ==
  s \in Seq(Texts) /\ Len(s) > 0 /\ s[1] = "preamble" /\ \A i \in DOMAIN s : s[i] # "reminder"

LEMMA OpeningGrows ==
  ASSUME NEW s, NEW t \in Seq(Texts), Opening(s), \A i \in DOMAIN t : t[i] # "reminder"
  PROVE  Opening(s \o t)
<1>1. /\ s \in Seq(Texts) /\ 1 \in 1..Len(s) /\ Len(s) \in Nat /\ Len(t) \in Nat
      /\ \A i \in 1..Len(s) : s[i] # "reminder"
  BY DEF Opening
<1>2. /\ s \o t \in Seq(Texts) /\ Len(s \o t) = Len(s) + Len(t) /\ (s \o t)[1] = s[1]
      /\ DOMAIN (s \o t) = 1..(Len(s) + Len(t))
  BY <1>1
<1>3. ASSUME NEW i \in 1..(Len(s) + Len(t)) PROVE (s \o t)[i] # "reminder"
  <2>1. CASE i \in 1..Len(s)
    BY <1>1, <2>1
  <2>2. CASE i \notin 1..Len(s)
    <3>1. i - Len(s) \in DOMAIN t /\ (s \o t)[i] = t[i - Len(s)]
      BY <1>1, <2>2
    <3> QED
      BY <3>1
  <2> QED
    BY <2>1, <2>2
<1> QED
  BY <1>1, <1>2, <1>3 DEF Opening

LEMMA BeginningKept ==
  ASSUME NEW s \in Seq(Texts), NEW t \in Seq(Texts), Len(s) > 0
  PROVE  Len(s \o t) > 0 /\ (s \o t)[1] = s[1]
OBVIOUS

LEMMA SectionsInOrder ==
  Prompt!Sections \in Seq(Texts) /\ InOrder(Prompt!Sections)
  /\ Len(Prompt!Sections) > 0 /\ Prompt!Sections[1] = "preamble"
<1> DEFINE A == <<"preamble">>
           B == Prompt!When(promptConfig.global /\ ~promptConfig.replaceGlobal, "global")
           C == Prompt!When(promptConfig.guidance, "guidance")
           D == Prompt!When(promptConfig.role, "role")
           E == <<"reminder", "question">>
           F == Prompt!When(promptConfig.memory, "memory")
           head == A \o B \o C \o D
<1>1. Opening(A)
  <2>1. "preamble" \in Texts
    BY DEF Texts
  <2>2. A \in Seq(Texts) /\ Len(A) = 1 /\ A[1] = "preamble" /\ \A i \in DOMAIN A : A[i] = "preamble"
    BY <2>1, OneText, Zenon
  <2> HIDE DEF A
  <2>3. Len(A) > 0 /\ \A i \in DOMAIN A : A[i] # "reminder"
    BY <2>2
  <2> QED
    BY <2>2, <2>3, Zenon DEF Opening
<1>a. "global" \in Texts /\ "guidance" \in Texts /\ "role" \in Texts /\ "memory" \in Texts
  BY DEF Texts, Layers
<1>2. /\ B \in Seq(Texts) /\ \A i \in DOMAIN B : B[i] = "global"
      /\ C \in Seq(Texts) /\ \A i \in DOMAIN C : C[i] = "guidance"
      /\ D \in Seq(Texts) /\ \A i \in DOMAIN D : D[i] = "role"
      /\ F \in Seq(Texts) /\ \A i \in DOMAIN F : F[i] = "memory"
  BY <1>a, WhenTypes, Zenon
<1>3. /\ E \in Seq(Texts) /\ \A i \in DOMAIN E : E[i] \notin Layers
      /\ \A i \in DOMAIN F : F[i] \notin Layers
  <2>1. E \in Seq(Texts) /\ Len(E) = 2 /\ E[1] = "reminder" /\ E[2] = "question"
    BY DEF Texts
  <2> HIDE DEF E, F
  <2>2. \A i \in DOMAIN E : E[i] = "reminder" \/ E[i] = "question"
    BY <2>1
  <2> QED
    BY <1>2, <2>1, <2>2 DEF Layers
<1>4. Prompt!Sections = head \o E \o F
  BY DEF Prompt!Sections
<1> HIDE DEF A, B, C, D, E, F
<1>5. Opening(head)
  <2>1. Opening(A \o B)
    BY <1>1, <1>2, OpeningGrows
  <2>2. Opening(A \o B \o C)
    BY <1>2, <2>1, OpeningGrows
  <2> QED
    BY <1>2, <2>2, OpeningGrows
<1> HIDE DEF head
<1>6. head \in Seq(Texts) /\ InOrder(head) /\ Len(head) > 0 /\ head[1] = "preamble"
  BY <1>5 DEF Opening, InOrder
<1>7. head \o E \in Seq(Texts) /\ InOrder(head \o E) /\ Len(head \o E) > 0 /\ (head \o E)[1] = "preamble"
  BY <1>3, <1>6, OrderKept, BeginningKept
<1>8. /\ head \o E \o F \in Seq(Texts) /\ InOrder(head \o E \o F)
      /\ Len(head \o E \o F) > 0 /\ (head \o E \o F)[1] = "preamble"
  BY <1>2, <1>3, <1>7, OrderKept, BeginningKept
<1> QED
  BY <1>4, <1>8

LEMMA PromptInit == Init => PromptInv
<1> SUFFICES ASSUME Prompt!Init PROVE PromptInv
  BY DEF Init
<1>1. board \in Seq(Nat)
  <2>1. CASE round = 1
    BY <2>1 DEF Prompt!Init
  <2>2. CASE round # 1
    <3>1. PICK n \in 0..MaxMessages : board \in [1..n -> MessageSizes]
      BY <2>2 DEF Prompt!Init
    <3>2. n \in Nat
      BY PromptAssumption
    <3>3. MessageSizes \subseteq Nat
      BY PromptAssumption, Zenon
    <3>4. board \in [1..n -> Nat]
      BY <3>1, <3>3
    <3> QED
      BY <3>2, <3>4
  <2> QED
    BY <2>1, <2>2
<1> QED
  BY <1>1, PromptAssumption DEF Prompt!Init, PromptInv

LEMMA PromptStep == PromptInv /\ [Next]_vars => PromptInv'
<1> SUFFICES ASSUME PromptInv, Prompt!Next \/ UNCHANGED promptVars PROVE PromptInv'
  BY StepOfPart
<1> USE PromptAssumption
<1>0. /\ board \in Seq(Nat) /\ base \in Nat /\ Len(board) \in Nat
      /\ low \in 0..Len(board) /\ high \in low..Len(board)
  BY DEF PromptInv
<1>1. ASSUME Prompt!Bisect PROVE PromptInv'
  <2> DEFINE mid == (low + high) \div 2
             fits == Prompt!From(mid) = <<>> \/ Prompt!Length(Prompt!From(mid)) <= MaxChars
  <2>1. /\ low < high /\ high' = (IF fits THEN mid ELSE high) /\ low' = (IF fits THEN low ELSE mid + 1)
        /\ UNCHANGED <<promptConfig, round, base, board, turnPrompt>>
    BY <1>1 DEF Prompt!Bisect
  <2>2. mid \in low..(high - 1) /\ mid \in 0..(Len(board) - 1) /\ mid + 1 \in 0..high
    BY <1>0, <2>1
  <2>3. fits <=> LengthOf(After(board, mid), base) <= MaxChars
    <3>1. /\ Prompt!From(mid) = After(board, mid)
          /\ Prompt!Length(After(board, mid)) = LengthOf(After(board, mid), base)
      BY LengthIsSum DEF Prompt!From, After
    <3>2. After(board, mid) # <<>>
      <4>1. mid \in 0..Len(board) /\ Len(board) - mid > 0
        BY <1>0, <2>2
      <4> HIDE DEF mid
      <4>2. Len(After(board, mid)) = Len(board) - mid
        BY <1>0, <4>1, AfterTypes
      <4> QED
        BY <4>1, <4>2
    <3> HIDE DEF mid
    <3> QED
      BY <3>1, <3>2
  <2> HIDE DEF mid, fits
  <2>4. turnPrompt = <<>>
    BY <1>0, <2>1 DEF PromptInv
  <2>5. CASE fits
    <3>1. high' = mid /\ low' = low
      BY <2>1, <2>5
    <3> QED
      BY <1>0, <2>1, <2>2, <2>3, <2>4, <2>5, <3>1 DEF PromptInv
  <2>6. CASE ~fits
    <3>1. high' = high /\ low' = mid + 1
      BY <2>1, <2>6
    <3>2. mid \in 0..Len(board) /\ LengthOf(After(board, mid), base) \in Nat
      BY <1>0, <2>2, LengthTypes
    <3>3. LengthOf(After(board, mid), base) > MaxChars
      BY <2>3, <2>6, <3>2
    <3>4. ASSUME NEW n \in 0..mid PROVE LengthOf(After(board, n), base) > MaxChars
      <4>1. n \in 0..Len(board) /\ mid \in n..Len(board)
        BY <1>0, <3>2
      <4>2. LengthOf(After(board, mid), base) <= LengthOf(After(board, n), base)
        BY <1>0, <4>1, LongerEnds
      <4>3. LengthOf(After(board, n), base) \in Nat
        BY <1>0, <4>1, LengthTypes
      <4> QED
        BY <3>2, <3>3, <4>2, <4>3
    <3>5. low' \in 0..Len(board) /\ high' \in low'..Len(board) /\ low' - 1 = mid
      BY <1>0, <2>2, <3>1
    <3>6. \A n \in 0..(low' - 1) : LengthOf(After(board, n), base) > MaxChars
      BY <3>4, <3>5
    <3> QED
      BY <1>0, <2>1, <2>4, <3>1, <3>5, <3>6 DEF PromptInv
  <2> QED
    BY <2>5, <2>6
<1>2. ASSUME Prompt!Compose PROVE PromptInv'
  <2> DEFINE M == [i \in 1..(Len(board) - low) |-> "message"]
             Y == <<"your turn">>
  <2>1. /\ low = high /\ turnPrompt' = Prompt!Sections \o M \o Y
        /\ UNCHANGED <<promptConfig, round, base, board, low, high>>
    BY <1>2 DEF Prompt!Compose
  <2>2. /\ M \in Seq(Texts) /\ \A i \in DOMAIN M : M[i] \notin Layers
        /\ Y \in Seq(Texts) /\ \A i \in DOMAIN Y : Y[i] \notin Layers
    <3>1. Len(board) - low \in Nat
      BY <1>0
    <3>2. M \in Seq(Texts) /\ \A i \in DOMAIN M : M[i] = "message"
      <4>1. PICK k \in Nat : k = Len(board) - low
        BY <3>1
      <4>2. M = [i \in 1..k |-> "message"]
        BY <4>1
      <4> HIDE DEF M
      <4>3. "message" \in Texts
        BY DEF Texts
      <4> QED
        BY <4>2, <4>3
    <3>a. "your turn" \in Texts
      BY Zenon DEF Texts
    <3>3. Y \in Seq(Texts) /\ \A i \in DOMAIN Y : Y[i] = "your turn"
      BY <3>a, OneText, Zenon
    <3> HIDE DEF M, Y
    <3> QED
      BY <3>2, <3>3 DEF Layers
  <2> HIDE DEF M, Y
  <2>3. /\ Prompt!Sections \o M \in Seq(Texts) /\ InOrder(Prompt!Sections \o M)
        /\ Len(Prompt!Sections \o M) > 0 /\ (Prompt!Sections \o M)[1] = "preamble"
    BY <2>2, SectionsInOrder, OrderKept, BeginningKept
  <2>4. InOrder(turnPrompt') /\ turnPrompt'[1] = "preamble"
    <3> DEFINE long == Prompt!Sections \o M
    <3>1. InOrder(long \o Y) /\ (long \o Y)[1] = "preamble"
      <4> HIDE DEF long
      <4>1. long \in Seq(Texts) /\ InOrder(long) /\ Len(long) > 0 /\ long[1] = "preamble"
        BY <2>3 DEF long
      <4> QED
        BY <2>2, <4>1, OrderKept, BeginningKept
    <3>2. turnPrompt' = long \o Y
      BY <2>1
    <3> HIDE DEF long
    <3> QED
      BY <3>1, <3>2 DEF InOrder
  <2> QED
    BY <1>0, <2>1, <2>4 DEF PromptInv, InOrder
<1>3. ASSUME UNCHANGED promptVars PROVE PromptInv'
  BY <1>3 DEF PromptInv, promptVars, InOrder
<1> QED
  BY <1>1, <1>2, <1>3 DEF Prompt!Next

\* For boards and limits of any size: a composed prompt keeps the limit if the rest
\* alone does, no message that fits is left out, and the order of layers stands
\* (prompt.py, runner.py).
THEOREM PromptKeepsWhatFitsHolds == Spec => []PromptKeepsWhatFits
<1>1. PromptInv => PromptKeepsWhatFits
  <2> SUFFICES ASSUME PromptInv, turnPrompt # <<>> PROVE Prompt!PromptKeepsWhatFits
    BY DEF PromptKeepsWhatFits, Prompt!PromptKeepsWhatFits
  <2>1. \A n : Prompt!From(n) = After(board, n) /\ Prompt!Length(Prompt!From(n)) = LengthOf(After(board, n), base)
    BY LengthIsSum DEF Prompt!From, After
  <2>2. base <= MaxChars => LengthOf(After(board, low), base) <= MaxChars
    <3>1. CASE low < Len(board)
      BY <3>1 DEF PromptInv
    <3>2. CASE low = Len(board)
      <4>1. After(board, low) \in Seq(Nat) /\ Len(After(board, low)) = 0
        BY <3>2, AfterTypes DEF PromptInv
      <4>2. SumOf(After(board, low), base) = base
        BY <4>1, SumOfNat DEF PromptInv
      <4>3. After(board, low) = <<>>
        BY <4>1
      <4> QED
        BY <4>2, <4>3 DEF PromptInv, LengthOf
    <3> QED
      BY <3>1, <3>2 DEF PromptInv
  <2> QED
    BY <2>1, <2>2 DEF PromptInv, InOrder, Layers, Prompt!PromptKeepsWhatFits
<1> QED
  BY <1>1, PromptInit, PromptStep, PTL DEF Spec

-----------------------------------------------------------------------------
(* Transcripts.                                                            *)

Line == [kind : Transcript!KindsAt(place), size : Nat, stamp : BOOLEAN]
TranscriptInv ==
  /\ place \in Transcript!Hosts \cup {"elsewhere"}
  /\ lines \in Seq(Line) /\ torn \in BOOLEAN /\ (torn => lines # <<>>)

LEMMA TranscriptInit == Init => TranscriptInv
<1>1. <<>> \in Seq(Line)
  OBVIOUS
<1>2. Init => Transcript!Init
  BY DEF Init
<1> QED
  BY <1>1, <1>2 DEF Transcript!Init, TranscriptInv

LEMMA TranscriptStep == TranscriptInv /\ [Next]_vars => TranscriptInv'
<1> SUFFICES ASSUME TranscriptInv, Transcript!Next \/ UNCHANGED transcriptVars PROVE TranscriptInv'
  BY StepOfPart
<1>1. ASSUME NEW kind \in Transcript!KindsAt(place), NEW size \in LineSizes, NEW stamp \in BOOLEAN,
             Transcript!Begin(kind, size, stamp)
      PROVE  TranscriptInv'
  <2> DEFINE line == [kind |-> kind, size |-> size, stamp |-> stamp]
  <2>1. lines' = Append(lines, line) /\ torn' = TRUE /\ place' = place
    BY <1>1 DEF Transcript!Begin
  <2>2. line \in Line /\ lines \in Seq(Line)
    BY TranscriptAssumption DEF Line, TranscriptInv
  <2>3. Line' = Line
    BY <2>1 DEF Line, Transcript!KindsAt
  <2> HIDE DEF line
  <2>4. Append(lines, line) \in Seq(Line) /\ Append(lines, line) # <<>>
    BY <2>2
  <2> QED
    BY <2>1, <2>3, <2>4 DEF TranscriptInv
<1>2. ASSUME Transcript!Finish \/ UNCHANGED transcriptVars PROVE TranscriptInv'
  <2>1. lines' = lines /\ place' = place /\ (torn' = FALSE \/ torn' = torn)
    BY <1>2 DEF Transcript!Finish, transcriptVars
  <2>2. Line' = Line
    BY <2>1 DEF Line, Transcript!KindsAt
  <2> QED
    <3>1. lines' \in Seq(Line') /\ lines \in Seq(Line) /\ place' \in Transcript!Hosts \cup {"elsewhere"}
      BY <2>1, <2>2, Zenon DEF TranscriptInv
    <3>2. CASE torn' = FALSE
      BY <3>1, <3>2, Zenon DEF TranscriptInv
    <3>3. CASE torn' = torn
      <4>1. torn' \in BOOLEAN /\ (torn' => lines' # <<>>)
        BY <2>1, <3>3, Zenon DEF TranscriptInv
      <4> QED
        BY <3>1, <4>1, Zenon DEF TranscriptInv
    <3> QED
      BY <2>1, <3>2, <3>3, Zenon
<1> QED
  BY <1>1, <1>2 DEF Transcript!Next

\* How many bytes each line has.
SizesOf(s) == [i \in DOMAIN s |-> s[i].size]

LEMMA SizeTypes ==
  ASSUME TranscriptInv
  PROVE  /\ SizesOf(lines) \in Seq(Nat) /\ Len(SizesOf(lines)) = Len(lines)
         /\ \A i \in 1..Len(lines) : SizesOf(lines)[i] = lines[i].size /\ lines[i].size \in Nat
<1>1. lines \in Seq(Line) /\ DOMAIN lines = 1..Len(lines) /\ Len(lines) \in Nat
  BY DEF TranscriptInv
<1>2. \A i \in 1..Len(lines) : lines[i] \in Line
  BY <1>1
<1>3. \A i \in 1..Len(lines) : lines[i].size \in Nat
  BY <1>2 DEF Line
<1>4. SizesOf(lines) = [i \in 1..Len(lines) |-> lines[i].size]
  BY <1>1 DEF SizesOf
<1> QED
  BY <1>1, <1>3, <1>4

\* The fold of BytesFrom is a sum of the sizes.
LEMMA BytesAreSum ==
  ASSUME TranscriptInv, NEW n \in 0..Len(lines)
  PROVE  Transcript!BytesFrom(n + 1) = SumOf(After(SizesOf(lines), n), 0)
<1> DEFINE rest == SubSeq(lines, n + 1, Len(lines))
           size == After(SizesOf(lines), n)
           S == DOMAIN rest
           IsBytes(g) == g = [s \in SUBSET S |-> IF s = {} THEN 0 ELSE rest[Some(s)].size + g[s \ {Some(s)}]]
<1>1. /\ SizesOf(lines) \in Seq(Nat) /\ Len(SizesOf(lines)) = Len(lines)
      /\ \A i \in 1..Len(lines) : SizesOf(lines)[i] = lines[i].size /\ lines[i].size \in Nat
  BY SizeTypes
<1>2. /\ size \in Seq(Nat) /\ Len(size) = Len(lines) - n
      /\ \A i \in 1..(Len(lines) - n) : size[i] = SizesOf(lines)[n + i]
  BY <1>1, AfterTypes
<1>3. /\ rest \in Seq(Line) /\ Len(rest) = Len(lines) - n
      /\ \A i \in 1..(Len(lines) - n) : rest[i] = lines[n + i] /\ n + i \in 1..Len(lines)
  BY DEF TranscriptInv
<1>4. S = 1..(Len(lines) - n) /\ DOMAIN size = S /\ IsFiniteSet(S)
  <2>1. S = 1..Len(rest)
    BY <1>3
  <2> HIDE DEF S, rest, size
  <2> QED
    BY <1>2, <1>3, <2>1, SequenceDomain
<1>5. \A i \in S : rest[i].size = size[i] /\ size[i] \in Nat
  <2> HIDE DEF rest, size
  <2> QED
    BY <1>1, <1>2, <1>3, <1>4
<1>6. Transcript!BytesFrom(n + 1) = (CHOOSE g : IsBytes(g))[S]
  BY DEF Transcript!BytesFrom, Transcript!FoldSeq, Transcript!FoldFunction, Transcript!FoldFunctionOnSet,
         Transcript!MapThenFoldSet, Some
<1> HIDE DEF rest, size, S
<1>7. \A g : IsBytes(g) <=> IsSum(g, S, 0, size)
  <2>1. \A s \in SUBSET S : s # {} => rest[Some(s)].size = size[Some(s)]
    BY <1>5, SomeIsIn
  <2> QED
    BY <2>1 DEF IsSum
<1>8. PICK g : IsSum(g, S, 0, size)
  BY <1>4, SumExists
<1>9. IsSum(CHOOSE k : IsBytes(k), S, 0, size)
  <2>1. IsBytes(CHOOSE k : IsBytes(k))
    BY <1>7, <1>8
  <2> HIDE DEF IsBytes
  <2> QED
    BY <1>7, <2>1
<1> QED
  <2> DEFINE k == CHOOSE h : IsBytes(h)
  <2>1. Adds(k, S, 0, size)
    BY <1>4, <1>5, <1>9 DEF Adds
  <2> HIDE DEF k
  <2>2. \E h : Sums(h, size, 0)
    BY <1>2, SumOfIsSum
  <2>3. PICK h : Adds(h, S, 0, size) /\ SumOf(size, 0) = h[S]
    BY <1>4, <2>2 DEF Sums
  <2> DEFINE same == [i \in S |-> i]
  <2>4. Renames(same, S, size, S, size) /\ Names(same, S) = S
    BY DEF Renames, Names
  <2> HIDE DEF same
  <2>5. k[S] = h[Names(same, S)]
    BY <2>1, <2>3, <2>4, SumRenamed
  <2>6. Transcript!BytesFrom(n + 1) = k[S]
    BY <1>6 DEF k
  <2> QED
    BY <2>3, <2>4, <2>5, <2>6 DEF size

\* A line further on is nearer to the end.
LEMMA BytesShrink ==
  ASSUME TranscriptInv, NEW i \in DOMAIN lines, NEW j \in i..Len(lines)
  PROVE  /\ Transcript!BytesFrom(i) \in Nat
         /\ Transcript!BytesFrom(j) <= Transcript!BytesFrom(i)
<1>1. /\ Len(lines) \in Nat /\ i \in 1..Len(lines) /\ i - 1 \in 0..Len(lines) /\ j - 1 \in (i - 1)..Len(lines)
      /\ j - 1 \in 0..Len(lines) /\ (i - 1) + 1 = i /\ (j - 1) + 1 = j
  BY DEF TranscriptInv
<1>2. SizesOf(lines) \in Seq(Nat) /\ Len(SizesOf(lines)) = Len(lines)
  BY SizeTypes
<1>3. /\ Transcript!BytesFrom((i - 1) + 1) = SumOf(After(SizesOf(lines), i - 1), 0)
      /\ Transcript!BytesFrom((j - 1) + 1) = SumOf(After(SizesOf(lines), j - 1), 0)
  BY <1>1, BytesAreSum
<1>4. SumOf(After(SizesOf(lines), j - 1), 0) <= SumOf(After(SizesOf(lines), i - 1), 0)
  BY <1>1, <1>2, SumShrinks
<1>5. SumOf(After(SizesOf(lines), i - 1), 0) \in Nat
  BY <1>1, <1>2, AfterTypes, SumOfNat
<1> QED
  BY <1>1, <1>3, <1>4, <1>5

Grows(g, size) ==
  g = [n \in 0..size |-> IF n = 0 THEN Transcript!Smaller(Chunk, size)
                         ELSE Transcript!Smaller(g[n - 1] * Growth, size)]

LEMMA GrowsExists == ASSUME NEW size \in Nat PROVE \E g : Grows(g, size)
<1> DEFINE First == Transcript!Smaller(Chunk, size)
           Upto(g, n) == g = [m \in 0..size |-> IF m > n THEN 0 ELSE IF m = 0 THEN First
                                                ELSE Transcript!Smaller(g[m - 1] * Growth, size)]
           Reached == {n \in Nat : \E g : Upto(g, n)}
<1>1. 0 \in Reached
  <2> DEFINE g == [m \in 0..size |-> IF m > 0 THEN 0 ELSE First]
  <2>1. Upto(g, 0)
    <3> HIDE DEF First
    <3> QED
      OBVIOUS
  <2> HIDE DEF g, Upto
  <2> QED
    BY <2>1
<1>2. ASSUME NEW n \in Nat, n \in Reached PROVE n + 1 \in Reached
  <2>1. PICK g : Upto(g, n)
    BY <1>2
  <2> DEFINE k == [m \in 0..size |-> IF m > n + 1 THEN 0 ELSE IF m = 0 THEN First
                                     ELSE Transcript!Smaller(g[m - 1] * Growth, size)]
  <2>2. ASSUME NEW m \in 0..size, m <= n PROVE k[m] = g[m]
    <3>1. ~(m > n) /\ ~(m > n + 1)
      BY <2>2
    <3>2. k[m] = IF m = 0 THEN First ELSE Transcript!Smaller(g[m - 1] * Growth, size)
      BY <3>1
    <3>3. g[m] = IF m = 0 THEN First ELSE Transcript!Smaller(g[m - 1] * Growth, size)
      BY <2>1, <3>1
    <3> QED
      BY <3>2, <3>3
  <2>3. Upto(k, n + 1)
    <3>1. ASSUME NEW m \in 0..size
          PROVE  k[m] = IF m > n + 1 THEN 0 ELSE IF m = 0 THEN First
                        ELSE Transcript!Smaller(k[m - 1] * Growth, size)
      <4>1. k[m] = IF m > n + 1 THEN 0 ELSE IF m = 0 THEN First
                   ELSE Transcript!Smaller(g[m - 1] * Growth, size)
        OBVIOUS
      <4> HIDE DEF k, First
      <4>2. CASE m > n + 1 \/ m = 0
        BY <4>1, <4>2
      <4>3. CASE ~(m > n + 1) /\ m # 0
        <5>1. m - 1 \in 0..size /\ m - 1 <= n
          BY <4>3
        <5>2. k[m - 1] = g[m - 1]
          BY <2>2, <5>1
        <5> QED
          BY <4>1, <4>3, <5>2
      <4> QED
        BY <4>2, <4>3
    <3>2. k = [m \in 0..size |-> k[m]]
      OBVIOUS
    <3> HIDE DEF k, First
    <3> QED
      BY <3>1, <3>2
  <2> HIDE DEF k, Upto
  <2> QED
    BY <2>3
<1>3. size \in Reached
  <2> HIDE DEF Reached
  <2> QED
    BY <1>1, <1>2, NatSetInduction
<1>4. PICK g : Upto(g, size)
  BY <1>3
<1>5. Grows(g, size)
  <2>1. \A m \in 0..size : ~(m > size)
    OBVIOUS
  <2> QED
    BY <1>4, <2>1 DEF Grows
<1> QED
  BY <1>5

LEMMA AtLeastDoubles == ASSUME NEW x \in Nat \ {0} PROVE x * Growth \in Nat /\ x * Growth >= x + 1
BY TranscriptAssumption

\* The chunks read end with the whole file.
LEMMA LastReadIsWhole ==
  ASSUME NEW g, NEW size \in Nat, Grows(g, size)
  PROVE  size \in 0..size /\ g[size] = size /\ \A n \in 0..size : g[n] \in Nat
<1> DEFINE Reached == {n \in Nat : n <= size => g[n] \in 0..size /\ (g[n] = size \/ g[n] >= n + 1)}
<1>1. \A n \in 0..size : g[n] = IF n = 0 THEN Transcript!Smaller(Chunk, size)
                                ELSE Transcript!Smaller(g[n - 1] * Growth, size)
  BY DEF Grows
<1>2. 0 \in Reached
  BY <1>1, TranscriptAssumption DEF Transcript!Smaller
<1>3. ASSUME NEW n \in Nat, n \in Reached PROVE n + 1 \in Reached
  <2>1. ASSUME n + 1 <= size PROVE g[n + 1] \in 0..size /\ (g[n + 1] = size \/ g[n + 1] >= n + 2)
    <3>1. n + 1 \in 0..size /\ n + 1 # 0 /\ (n + 1) - 1 = n
      BY <2>1
    <3>2. g[n + 1] = Transcript!Smaller(g[n] * Growth, size)
      BY <1>1, <3>1
    <3>3. g[n] \in 0..size /\ (g[n] = size \/ g[n] >= n + 1)
      BY <1>3, <2>1
    <3>4. PICK x \in Nat \ {0} : x = g[n]
      BY <2>1, <3>3
    <3>5. PICK y \in Nat : y = x * Growth /\ y >= x + 1
      BY AtLeastDoubles
    <3>6. g[n + 1] = Transcript!Smaller(y, size)
      BY <3>2, <3>4, <3>5
    <3> QED
      BY <2>1, <3>3, <3>4, <3>5, <3>6 DEF Transcript!Smaller
  <2> QED
    BY <2>1
<1>4. Nat \subseteq Reached
  <2> HIDE DEF Reached
  <2> QED
    BY <1>2, <1>3, NatSetInduction
<1> QED
  BY <1>4

\* Reading from the end in growing chunks finds the last timestamp of the file,
\* whatever the chunk, the growth and the lines (transcripts.py, _last_timestamp).
THEOREM TimestampIsLastHolds == Spec => []TimestampIsLast
<1>1. TranscriptInv => TimestampIsLast
  <2> SUFFICES ASSUME TranscriptInv PROVE Transcript!TimestampIsLast
    BY DEF TimestampIsLast
  <2> DEFINE all == {i \in DOMAIN Transcript!Parsed : Transcript!Parsed[i].stamp}
             reads == Transcript!ReadSizes
             useful == {n \in DOMAIN reads : Transcript!Stamped(reads[n]) # {}}
  <2>1. DOMAIN Transcript!Parsed \subseteq DOMAIN lines /\ DOMAIN lines = 1..Len(lines) /\ Len(lines) \in Nat
    BY DEF Transcript!Parsed, Transcript!Front, TranscriptInv
  <2>2. Transcript!Size \in Nat /\ \A i \in DOMAIN lines : Transcript!BytesFrom(i) <= Transcript!Size
    <3>1. CASE lines = <<>>
      <4>1. /\ SizesOf(lines) \in Seq(Nat) /\ Len(lines) = 0 /\ Len(SizesOf(lines)) = 0
            /\ DOMAIN lines = {}
        BY <3>1, SizeTypes
      <4>2. Transcript!BytesFrom(0 + 1) = SumOf(After(SizesOf(lines), 0), 0)
        BY <4>1, BytesAreSum
      <4>3. SumOf(After(SizesOf(lines), 0), 0) \in Nat
        BY <4>1, AfterTypes, SumOfNat
      <4> QED
        BY <4>1, <4>2, <4>3 DEF Transcript!Size
    <3>2. CASE lines # <<>>
      <4>1. 1 \in DOMAIN lines /\ \A i \in DOMAIN lines : i \in 1..Len(lines)
        BY <3>2 DEF TranscriptInv
      <4> QED
        BY <4>1, BytesShrink DEF Transcript!Size
    <3> QED
      BY <3>1, <3>2
  <2>3. Grows(reads, Transcript!Size)
    <3>1. \E g : Grows(g, Transcript!Size)
      BY <2>2, GrowsExists
    <3> QED
      BY <3>1 DEF Grows, Transcript!ReadSizes
  <2>4. /\ DOMAIN reads = 0..Transcript!Size /\ Transcript!Size \in DOMAIN reads
        /\ reads[Transcript!Size] = Transcript!Size
        /\ \A n \in DOMAIN reads : reads[n] \in Nat
    <3>1. DOMAIN reads = 0..Transcript!Size
      BY <2>3 DEF Grows
    <3> HIDE DEF reads
    <3> QED
      BY <2>2, <2>3, <3>1, LastReadIsWhole
  <2>5. Transcript!LastTimestamp =
          IF useful = {} THEN 0
          ELSE Transcript!LastOf(Transcript!Stamped(reads[CHOOSE n \in useful : \A m \in useful : n <= m]))
    BY DEF Transcript!LastTimestamp
  <2> HIDE DEF reads
  <2>6. \A r : Transcript!Stamped(r) = {i \in all : Transcript!BytesFrom(i) <= r}
    BY DEF Transcript!Stamped
  <2>7. Transcript!Stamped(Transcript!Size) = all
    BY <2>1, <2>2, <2>6
  <2>8. useful \subseteq Nat /\ (useful # {} <=> all # {})
    <3>1. DOMAIN reads \subseteq Nat
      BY <2>2, <2>4
    <3>2. ASSUME all # {} PROVE Transcript!Size \in useful
      <4> HIDE DEF all
      <4> QED
        BY <2>4, <2>7, <3>2
    <3>3. ASSUME NEW n \in useful PROVE all # {}
      <4>1. Transcript!Stamped(reads[n]) # {} /\ Transcript!Stamped(reads[n]) \subseteq all
        BY <2>6
      <4> HIDE DEF all
      <4> QED
        BY <4>1
    <3> HIDE DEF all
    <3> QED
      BY <3>1, <3>2, <3>3
  <2>9. all \in SUBSET (0..Len(lines))
    BY <2>1
  <2> HIDE DEF all, useful
  <2>10. CASE all = {}
    BY <2>5, <2>8, <2>10 DEF Transcript!TimestampIsLast, all
  <2>11. CASE all # {}
    <3> DEFINE n == CHOOSE n \in useful : \A m \in useful : n <= m
    <3>1. \E x \in useful : \A m \in useful : x <= m
      BY <2>8, <2>11, LeastNumber
    <3>2. n \in useful
      BY <3>1
    <3>3. Transcript!Stamped(reads[n]) # {}
      BY <3>2 DEF useful
    <3> HIDE DEF n
    <3>4. PICK l \in all : \A y \in all : y <= l
      BY <2>1, <2>9, <2>11, GreatestNumber
    <3>5. l \in Transcript!Stamped(reads[n])
      <4>1. PICK i \in all : Transcript!BytesFrom(i) <= reads[n]
        BY <2>6, <3>3
      <4>2. i \in DOMAIN lines /\ l \in i..Len(lines)
        BY <2>1, <3>4 DEF all
      <4>3. Transcript!BytesFrom(i) \in Nat /\ Transcript!BytesFrom(l) <= Transcript!BytesFrom(i)
        BY <4>2, BytesShrink
      <4>4. Transcript!BytesFrom(l) \in Nat
        BY <2>1, <3>4, BytesShrink DEF all
      <4>5. reads[n] \in Nat
        BY <2>4, <3>2 DEF useful
      <4> QED
        BY <2>6, <4>1, <4>3, <4>4, <4>5
    <3>6. Transcript!Stamped(reads[n]) \subseteq all
      BY <2>6
    <3>7. \A S : S \subseteq all /\ l \in S => Transcript!LastOf(S) = l
      <4> SUFFICES ASSUME NEW S, S \subseteq all, l \in S PROVE Transcript!LastOf(S) = l
        OBVIOUS
      <4>1. \A x, y \in S : x \in Nat /\ y \in Nat
        BY <2>9
      <4>2. \A y \in S : y <= l
        BY <3>4
      <4>3. Transcript!LastOf(S) \in S /\ \A y \in S : y <= Transcript!LastOf(S)
        BY <4>2 DEF Transcript!LastOf
      <4>4. l <= Transcript!LastOf(S) /\ Transcript!LastOf(S) <= l
        BY <4>2, <4>3
      <4> QED
        BY <4>1, <4>3, <4>4
    <3>8. Transcript!LastOf(Transcript!Stamped(reads[n])) = l /\ Transcript!LastOf(all) = l
      BY <3>4, <3>5, <3>6, <3>7
    <3>9. Transcript!LastTimestamp = Transcript!LastOf(Transcript!Stamped(reads[n]))
      BY <2>5, <2>8, <2>11 DEF n
    <3> QED
      BY <2>11, <3>8, <3>9 DEF Transcript!TimestampIsLast, all
  <2> QED
    BY <2>10, <2>11
<1> QED
  BY <1>1, TranscriptInit, TranscriptStep, PTL DEF Spec

Message == [role : {"user", "assistant"}, tool : BOOLEAN, text : BOOLEAN]

LEMMA ReaderTypes ==
  ASSUME NEW host \in Transcript!Hosts, NEW kind \in DOMAIN Transcript!Reader[host]
  PROVE  Transcript!Reader[host][kind] \in Seq(Message)
<1> DEFINE Known(table) == \A k \in DOMAIN table : table[k] \in Seq(Message)
<1>1. \A r \in {"user", "assistant"}, b \in BOOLEAN :
        /\ Transcript!Say(r) \in Message /\ Transcript!Tool(r) \in Message /\ Transcript!Silent(r, b) \in Message
  BY DEF Message, Transcript!Say, Transcript!Tool, Transcript!Silent
<1>2. \A x, y \in Message : <<x>> \in Seq(Message) /\ <<x, y>> \in Seq(Message)
  OBVIOUS
<1>3. /\ Transcript!Say("user") \in Message /\ Transcript!Say("assistant") \in Message
      /\ Transcript!Tool("user") \in Message /\ Transcript!Tool("assistant") \in Message
      /\ Transcript!Silent("user", TRUE) \in Message /\ Transcript!Silent("assistant", FALSE) \in Message
  BY <1>1
<1> DEFINE Q == Seq(Message)
<1>a. <<>> \in Q
  OBVIOUS
<1> HIDE DEF Q
<1>b. /\ <<>> \in Q
      /\ <<Transcript!Say("user")>> \in Q /\ <<Transcript!Say("assistant")>> \in Q
      /\ <<Transcript!Tool("user")>> \in Q /\ <<Transcript!Tool("assistant")>> \in Q
      /\ <<Transcript!Silent("user", TRUE)>> \in Q /\ <<Transcript!Silent("assistant", FALSE)>> \in Q
      /\ <<Transcript!Say("assistant"), Transcript!Tool("assistant")>> \in Q
  BY <1>a, <1>2, <1>3, Zenon DEF Q
<1>4. Known(Transcript!ClaudeLines)
  <2>1. /\ DOMAIN Transcript!ClaudeLines = {"text", "reply", "replyWithTool", "toolResult", "empty", "other"}
        /\ Transcript!ClaudeLines["text"] \in Q
        /\ Transcript!ClaudeLines["reply"] \in Q
        /\ Transcript!ClaudeLines["replyWithTool"] \in Q
        /\ Transcript!ClaudeLines["toolResult"] \in Q
        /\ Transcript!ClaudeLines["empty"] \in Q
        /\ Transcript!ClaudeLines["other"] \in Q
    BY <1>b DEF Transcript!ClaudeLines
  <2> QED
    BY <2>1 DEF Q
<1>5. Known(Transcript!KimiLines)
  <2>1. /\ DOMAIN Transcript!KimiLines = {"userText", "injectedUser", "textPart", "thinkPart", "toolCall", "toolEvent", "other"}
        /\ Transcript!KimiLines["userText"] \in Q
        /\ Transcript!KimiLines["injectedUser"] \in Q
        /\ Transcript!KimiLines["textPart"] \in Q
        /\ Transcript!KimiLines["thinkPart"] \in Q
        /\ Transcript!KimiLines["toolCall"] \in Q
        /\ Transcript!KimiLines["toolEvent"] \in Q
        /\ Transcript!KimiLines["other"] \in Q
    BY <1>b DEF Transcript!KimiLines
  <2> QED
    BY <2>1 DEF Q
<1>6. Known(Transcript!CodexLines)
  <2>1. /\ DOMAIN Transcript!CodexLines = {"userEvent", "userItem", "replyItem", "systemItem", "functionCall", "functionOutput", "session_meta"}
        /\ Transcript!CodexLines["userEvent"] \in Q
        /\ Transcript!CodexLines["userItem"] \in Q
        /\ Transcript!CodexLines["replyItem"] \in Q
        /\ Transcript!CodexLines["systemItem"] \in Q
        /\ Transcript!CodexLines["functionCall"] \in Q
        /\ Transcript!CodexLines["functionOutput"] \in Q
        /\ Transcript!CodexLines["session_meta"] \in Q
    BY <1>b DEF Transcript!CodexLines
  <2> QED
    BY <2>1 DEF Q
<1>7. Known(Transcript!GrokLines)
  <2>1. /\ DOMAIN Transcript!GrokLines = {"userText", "syntheticUser", "reply", "replyWithCall", "call", "toolResult", "other"}
        /\ Transcript!GrokLines["userText"] \in Q
        /\ Transcript!GrokLines["syntheticUser"] \in Q
        /\ Transcript!GrokLines["reply"] \in Q
        /\ Transcript!GrokLines["replyWithCall"] \in Q
        /\ Transcript!GrokLines["call"] \in Q
        /\ Transcript!GrokLines["toolResult"] \in Q
        /\ Transcript!GrokLines["other"] \in Q
    BY <1>b DEF Transcript!GrokLines
  <2> QED
    BY <2>1 DEF Q
<1> HIDE DEF Known
<1>8. \A h \in Transcript!Hosts : Known(Transcript!Reader[h])
  BY <1>4, <1>5, <1>6, <1>7 DEF Transcript!Hosts, Transcript!Reader
<1>9. Known(Transcript!Reader[host])
  BY <1>8
<1> QED
  BY <1>9 DEF Known

\* What a reader makes of lines, and what of its messages is counted.
ReadBy(host, parsed) ==
  [i \in DOMAIN parsed |-> IF parsed[i].kind \in DOMAIN Transcript!Reader[host]
                           THEN Transcript!Reader[host][parsed[i].kind] ELSE <<>>]
CountedOf(messages) == [i \in DOMAIN messages |-> Transcript!Counted(messages[i])]
SpokenIn(host, parsed) == Flat(CountedOf(Flat(ReadBy(host, parsed))))

LEMMA ReadGrows ==
  ASSUME NEW host \in Transcript!Hosts, NEW L, NEW s \in Seq(L), NEW t \in Seq(L), Begins(s, t)
  PROVE  /\ ReadBy(host, s) \in Seq(Seq(Message)) /\ ReadBy(host, t) \in Seq(Seq(Message))
         /\ Begins(ReadBy(host, s), ReadBy(host, t))
<1> DEFINE Known(line) == IF line.kind \in DOMAIN Transcript!Reader[host]
                          THEN Transcript!Reader[host][line.kind] ELSE <<>>
<1>1. \A line : Known(line) \in Seq(Message)
  <2>1. <<>> \in Seq(Message)
    OBVIOUS
  <2> QED
    BY <2>1, ReaderTypes
<1>2. \A u : ReadBy(host, u) = [i \in DOMAIN u |-> Known(u[i])]
  BY DEF ReadBy
<1> HIDE DEF Known
<1>3. ASSUME NEW u \in Seq(L)
      PROVE  /\ ReadBy(host, u) \in Seq(Seq(Message)) /\ Len(ReadBy(host, u)) = Len(u)
             /\ \A i \in 1..Len(u) : ReadBy(host, u)[i] = Known(u[i])
  <2>1. ReadBy(host, u) = [i \in 1..Len(u) |-> Known(u[i])]
    BY <1>2
  <2> QED
    BY <1>1, <2>1
<1>4. /\ Len(s) \in Nat /\ Len(t) \in Nat /\ Len(s) <= Len(t)
      /\ \A i \in 1..Len(s) : i \in 1..Len(t) /\ s[i] = t[i]
  BY DEF Begins
<1> QED
  BY <1>3, <1>4 DEF Begins

LEMMA CountedGrows ==
  ASSUME NEW s \in Seq(Message), NEW t \in Seq(Message), Begins(s, t)
  PROVE  /\ CountedOf(s) \in Seq(Seq(Message)) /\ CountedOf(t) \in Seq(Seq(Message))
         /\ Begins(CountedOf(s), CountedOf(t))
<1>1. \A x \in Message : Transcript!Counted(x) \in Seq(Message)
  <2>1. \A x \in Message : <<x>> \in Seq(Message)
    OBVIOUS
  <2>2. <<>> \in Seq(Message)
    OBVIOUS
  <2> QED
    BY <2>1, <2>2, Zenon DEF Transcript!Counted
<1>2. ASSUME NEW u \in Seq(Message)
      PROVE  /\ CountedOf(u) \in Seq(Seq(Message)) /\ Len(CountedOf(u)) = Len(u)
             /\ \A i \in 1..Len(u) : CountedOf(u)[i] = Transcript!Counted(u[i])
  <2>1. CountedOf(u) = [i \in 1..Len(u) |-> Transcript!Counted(u[i])]
    BY DEF CountedOf
  <2> QED
    BY <1>1, <2>1
<1>3. /\ Len(s) \in Nat /\ Len(t) \in Nat /\ Len(s) <= Len(t)
      /\ \A i \in 1..Len(s) : i \in 1..Len(t) /\ s[i] = t[i]
  BY DEF Begins
<1> QED
  BY <1>2, <1>3 DEF Begins

LEMMA SpokenInGrows ==
  ASSUME NEW host \in Transcript!Hosts, NEW L, NEW s \in Seq(L), NEW t \in Seq(L), Begins(s, t)
  PROVE  Transcript!IsPrefix(SpokenIn(host, s), SpokenIn(host, t))
<1>1. /\ ReadBy(host, s) \in Seq(Seq(Message)) /\ ReadBy(host, t) \in Seq(Seq(Message))
      /\ Begins(ReadBy(host, s), ReadBy(host, t))
  BY ReadGrows
<1> DEFINE x == Flat(ReadBy(host, s))
           y == Flat(ReadBy(host, t))
<1>2. x \in Seq(Message) /\ y \in Seq(Message) /\ Begins(x, y)
  BY <1>1, FlatGrows
<1> HIDE DEF x, y
<1>3. CountedOf(x) \in Seq(Seq(Message)) /\ CountedOf(y) \in Seq(Seq(Message)) /\ Begins(CountedOf(x), CountedOf(y))
  BY <1>2, CountedGrows
<1> DEFINE a == Flat(CountedOf(x))
           b == Flat(CountedOf(y))
<1>4. a \in Seq(Message) /\ b \in Seq(Message) /\ Begins(a, b)
  BY <1>3, FlatGrows
<1>5. SpokenIn(host, s) = a /\ SpokenIn(host, t) = b
  BY DEF SpokenIn, x, y
<1> HIDE DEF a, b
<1>6. Transcript!IsPrefix(a, b)
  <2>1. /\ Len(a) \in Nat /\ Len(b) \in Nat /\ Len(a) <= Len(b)
        /\ \A i \in 1..Len(a) : a[i] = b[i]
    BY <1>4 DEF Begins
  <2>2. SubSeq(a, 1, Len(a)) = SubSeq(b, 1, Len(a))
    BY <1>4, <2>1
  <2> QED
    BY <2>1, <2>2 DEF Transcript!IsPrefix
<1> QED
  BY <1>5, <1>6

LEMMA SpokenIsIn == Transcript!Spoken = SpokenIn(Transcript!HostOf, Transcript!Parsed)
BY DEF Transcript!Spoken, Transcript!Messages, Transcript!MessagesOf, Transcript!FlattenSeq,
       SpokenIn, ReadBy, CountedOf, Flat, Flattens

\* The lines that parse at a step begin with those that did before, and their reader
\* stays once one has parsed.
LEMMA ParsedGrows ==
  ASSUME TranscriptInv, TranscriptInv', Transcript!Next \/ UNCHANGED transcriptVars
  PROVE  /\ Transcript!Parsed \in Seq(Line) /\ Transcript!Parsed' \in Seq(Line)
         /\ Begins(Transcript!Parsed, Transcript!Parsed')
         /\ Transcript!Parsed = <<>> \/ Transcript!HostOf' = Transcript!HostOf
<1>1. lines \in Seq(Line) /\ (torn => lines # <<>>) /\ lines' \in Seq(Line') /\ (torn' => lines' # <<>>)
  BY DEF TranscriptInv
<1>2. place' = place
  BY DEF Transcript!Next, Transcript!Begin, Transcript!Finish, transcriptVars
<1>3. Line' = Line
  BY <1>2 DEF Line, Transcript!KindsAt
<1>4. ASSUME NEW s \in Seq(Line), s # <<>>
      PROVE  /\ Transcript!Front(s) \in Seq(Line) /\ Len(Transcript!Front(s)) = Len(s) - 1
             /\ Begins(Transcript!Front(s), s)
  <2>1. /\ Transcript!Front(s) = SubSeq(s, 1, Len(s) - 1) /\ Len(s) \in Nat \ {0}
        /\ Len(s) - 1 \in Nat
    BY <1>4 DEF Transcript!Front
  <2>2. /\ SubSeq(s, 1, Len(s) - 1) \in Seq(Line) /\ Len(SubSeq(s, 1, Len(s) - 1)) = Len(s) - 1
        /\ \A i \in 1..(Len(s) - 1) : SubSeq(s, 1, Len(s) - 1)[i] = s[i]
    <3> DEFINE short == SubSeq(s, 1, Len(s) - 1)
    <3>1. Len(s) - 1 = (Len(s) - 1) - 1 + 1 /\ \A i \in 1..(Len(s) - 1) : i \in 1..Len(s) /\ 1 + i - 1 = i
      BY <2>1
    <3>2. short = [i \in 1..(Len(s) - 1) |-> s[i]]
      BY <2>1, <3>1
    <3>3. \A i \in 1..Len(s) : s[i] \in Line
      BY <1>4
    <3> HIDE DEF short
    <3>4. short \in Seq(Line)
      BY <2>1, <3>1, <3>2, <3>3
    <3>5. PICK n \in Nat : n = Len(s) - 1
      BY <2>1
    <3>6. short = [i \in 1..n |-> s[i]]
      BY <3>2, <3>5
    <3>7. Len(short) = n /\ \A i \in 1..n : short[i] = s[i]
      BY <3>5, <3>6
    <3> QED
      BY <3>4, <3>5, <3>7 DEF short
  <2> QED
    BY <2>1, <2>2 DEF Begins
<1>5. ASSUME NEW s \in Seq(Line) PROVE Begins(s, s)
  BY DEF Begins
<1>6. /\ Transcript!Parsed \in Seq(Line) /\ Transcript!Parsed' \in Seq(Line)
  BY <1>1, <1>3, <1>4 DEF Transcript!Parsed
<1>7. Begins(Transcript!Parsed, Transcript!Parsed')
  <2>1. CASE Transcript!Finish
    <3>1. Transcript!Parsed = Transcript!Front(lines) /\ Transcript!Parsed' = lines
      BY <2>1 DEF Transcript!Finish, Transcript!Parsed
    <3>2. lines # <<>>
      BY <1>1, <2>1 DEF Transcript!Finish
    <3> QED
      BY <1>1, <1>4, <3>1, <3>2
  <2>2. CASE UNCHANGED transcriptVars
    <3>1. Transcript!Parsed' = Transcript!Parsed
      BY <2>2 DEF transcriptVars, Transcript!Parsed
    <3> QED
      BY <1>5, <1>6, <3>1
  <2>3. CASE \E kind \in Transcript!KindsAt(place), size \in LineSizes, stamp \in BOOLEAN :
               Transcript!Begin(kind, size, stamp)
    <3>1. PICK line : ~torn /\ torn' = TRUE /\ lines' = Append(lines, line)
      BY <2>3 DEF Transcript!Begin
    <3>2. Transcript!Parsed = lines
      BY <3>1 DEF Transcript!Parsed
    <3>3. Transcript!Parsed' = Transcript!Front(Append(lines, line))
      BY <3>1 DEF Transcript!Parsed
    <3>4. Transcript!Front(Append(lines, line)) = lines
      BY <1>1 DEF Transcript!Front
    <3> QED
      BY <1>1, <1>5, <3>2, <3>3, <3>4
  <2> QED
    BY <2>1, <2>2, <2>3 DEF Transcript!Next
<1>8. Transcript!Parsed = <<>> \/ Transcript!HostOf' = Transcript!HostOf
  <2>1. CASE Transcript!Parsed # <<>>
    <3>1. 1 \in 1..Len(Transcript!Parsed)
      BY <1>6, <2>1
    <3>2. Transcript!Parsed'[1] = Transcript!Parsed[1] /\ Transcript!Parsed' # <<>>
      BY <1>6, <1>7, <3>1 DEF Begins
    <3> QED
      BY <1>2, <2>1, <3>2 DEF Transcript!HostOf
  <2> QED
    BY <2>1
<1> QED
  BY <1>6, <1>7, <1>8

\* The messages a watermark counts keep their places, whatever the host writes, and
\* however long the transcript (transcripts.py, extraction.py).
THEOREM SpokenGrowsHolds == Spec => SpokenGrows
<1>1. TranscriptInv /\ [Next]_vars => [Transcript!IsPrefix(Transcript!Spoken, Transcript!Spoken')]_transcriptVars
  <2> SUFFICES ASSUME TranscriptInv, [Next]_vars, ~UNCHANGED transcriptVars
               PROVE  Transcript!IsPrefix(Transcript!Spoken, Transcript!Spoken')
    OBVIOUS
  <2>1. TranscriptInv'
    BY TranscriptStep
  <2>2. Transcript!Next
    BY StepOfPart
  <2>3. /\ Transcript!Parsed \in Seq(Line) /\ Transcript!Parsed' \in Seq(Line)
        /\ Begins(Transcript!Parsed, Transcript!Parsed')
        /\ Transcript!Parsed = <<>> \/ Transcript!HostOf' = Transcript!HostOf
    BY <2>1, <2>2, ParsedGrows
  <2>4. /\ Transcript!Spoken = SpokenIn(Transcript!HostOf, Transcript!Parsed)
        /\ Transcript!Spoken' = SpokenIn(Transcript!HostOf', Transcript!Parsed')
    <3>1. (Transcript!Spoken = SpokenIn(Transcript!HostOf, Transcript!Parsed))'
      BY SpokenIsIn, PTL
    <3> QED
      BY <3>1, SpokenIsIn
  <2>5. Transcript!HostOf \in Transcript!Hosts /\ Transcript!HostOf' \in Transcript!Hosts
    BY <2>1 DEF TranscriptInv, Transcript!HostOf, Transcript!Hosts, Transcript!Reader
  <2>6. CASE Transcript!HostOf' = Transcript!HostOf
    BY <2>3, <2>4, <2>5, <2>6, SpokenInGrows
  <2>7. CASE Transcript!Parsed = <<>>
    <3>1. SpokenIn(Transcript!HostOf, Transcript!Parsed) = SpokenIn(Transcript!HostOf', Transcript!Parsed)
      BY <2>7 DEF SpokenIn, ReadBy
    <3> QED
      BY <2>3, <2>4, <2>5, <3>1, SpokenInGrows
  <2> QED
    BY <2>3, <2>6, <2>7
<1> QED
  BY <1>1, TranscriptInit, TranscriptStep, PTL DEF Spec, SpokenGrows, Transcript!SpokenGrows,
                                                   transcriptVars, Transcript!vars

-----------------------------------------------------------------------------
(* Recall.                                                                 *)

LEMMA RecallCardinality == \A S : RecallBlock!Cardinality(S) = Cardinality(S)
BY DEF RecallBlock!Cardinality, Cardinality

\* Candidates that Precedes puts in an order.
Rankable(C) ==
  /\ IsFiniteSet(C)
  /\ \A c \in C : c.id \in Nat /\ c.score \in Int
  /\ \A c, d \in C : c.id = d.id => c = d

Ahead(C, c) == {x \in C : RecallBlock!Precedes(x, c)}

LEMMA PlaceOfMember ==
  ASSUME NEW C, Rankable(C), NEW c \in C
  PROVE  /\ RecallBlock!PlaceIn(C, c.id) = Cardinality(Ahead(C, c)) + 1
         /\ Ahead(C, c) \in SUBSET (C \ {c})
         /\ RecallBlock!PlaceIn(C, c.id) \in 1..Cardinality(C)
<1>1. (CHOOSE x \in C : x.id = c.id) = c
  BY DEF Rankable
<1>2. RecallBlock!PlaceIn(C, c.id) = Cardinality(Ahead(C, c)) + 1
  BY <1>1, RecallCardinality DEF RecallBlock!PlaceIn, Ahead
<1>3. Ahead(C, c) \in SUBSET (C \ {c})
  BY DEF Ahead, RecallBlock!Precedes, Rankable
<1>4. IsFiniteSet(C \ {c}) /\ Cardinality(C \ {c}) = Cardinality(C) - 1 /\ Cardinality(C) \in Nat
  BY FS_RemoveElement, FS_CardinalityType DEF Rankable
<1>5. Cardinality(Ahead(C, c)) \in Nat /\ Cardinality(Ahead(C, c)) <= Cardinality(C \ {c})
  <2>1. IsFiniteSet(Ahead(C, c)) /\ Cardinality(Ahead(C, c)) <= Cardinality(C \ {c})
    BY <1>3, <1>4, FS_Subset
  <2> QED
    BY <2>1, FS_CardinalityType
<1> QED
  BY <1>2, <1>3, <1>4, <1>5

LEMMA PlacesDiffer ==
  ASSUME NEW C, Rankable(C), NEW c \in C, NEW d \in C, RecallBlock!PlaceIn(C, c.id) = RecallBlock!PlaceIn(C, d.id)
  PROVE  c = d
<1>1. ASSUME NEW x \in C, NEW y \in C, RecallBlock!Precedes(x, y)
      PROVE  RecallBlock!PlaceIn(C, x.id) < RecallBlock!PlaceIn(C, y.id)
  <2>1. Ahead(C, x) \subseteq Ahead(C, y)
    BY <1>1 DEF Ahead, RecallBlock!Precedes, Rankable
  <2>2. x \in Ahead(C, y) /\ x \notin Ahead(C, x)
    BY <1>1, PlaceOfMember DEF Ahead
  <2>3. IsFiniteSet(Ahead(C, y)) /\ Cardinality(Ahead(C, y)) \in Nat
    <3>1. IsFiniteSet(C) /\ Ahead(C, y) \in SUBSET C
      BY DEF Ahead, Rankable
    <3> QED
      BY <3>1, FS_Subset, FS_CardinalityType
  <2>4. /\ Ahead(C, x) \in SUBSET Ahead(C, y) /\ Ahead(C, x) # Ahead(C, y)
    BY <2>1, <2>2
  <2>5. Cardinality(Ahead(C, x)) <= Cardinality(Ahead(C, y)) /\ Cardinality(Ahead(C, x)) # Cardinality(Ahead(C, y))
        /\ Cardinality(Ahead(C, x)) \in Nat
    BY <2>3, <2>4, FS_Subset, FS_CardinalityType
  <2>6. /\ RecallBlock!PlaceIn(C, x.id) = Cardinality(Ahead(C, x)) + 1
        /\ RecallBlock!PlaceIn(C, y.id) = Cardinality(Ahead(C, y)) + 1
    BY PlaceOfMember
  <2> QED
    BY <2>3, <2>5, <2>6
<1>2. RecallBlock!PlaceIn(C, c.id) \in Nat /\ RecallBlock!PlaceIn(C, d.id) \in Nat
  <2>1. Cardinality(C) \in Nat
    BY FS_CardinalityType DEF Rankable
  <2> QED
    BY <2>1, PlaceOfMember
<1>3. c # d => RecallBlock!Precedes(c, d) \/ RecallBlock!Precedes(d, c)
  BY DEF RecallBlock!Precedes, Rankable
<1> QED
  BY <1>1, <1>2, <1>3

\* Ranking gives every candidate one place, and every place a candidate.
LEMMA RankedTypes ==
  ASSUME NEW C, Rankable(C)
  PROVE  /\ RecallBlock!Ranked(C) \in Seq(C) /\ Len(RecallBlock!Ranked(C)) = Cardinality(C)
         /\ Cardinality(C) \in Nat
         /\ \A c \in C : \E i \in 1..Cardinality(C) : RecallBlock!Ranked(C)[i] = c
         /\ \A i, j \in 1..Cardinality(C) :
              RecallBlock!Ranked(C)[i].id = RecallBlock!Ranked(C)[j].id => i = j
<1> DEFINE n == Cardinality(C)
           rank == [c \in C |-> RecallBlock!PlaceIn(C, c.id)]
           r == RecallBlock!Ranked(C)
<1>1. n \in Nat /\ IsFiniteSet(C) /\ IsFiniteSet(1..n) /\ Cardinality(1..n) = n
  <2>1. n \in Nat /\ IsFiniteSet(C)
    BY FS_CardinalityType DEF Rankable
  <2>2. IsFiniteSet(1..n) /\ Cardinality(1..n) = IF 1 > n THEN 0 ELSE n - 1 + 1
    BY <2>1, FS_Interval
  <2> HIDE DEF n
  <2> QED
    BY <2>1, <2>2
<1>2. rank \in Injection(C, 1..n)
  <2>1. \A c \in C : RecallBlock!PlaceIn(C, c.id) \in 1..n
    BY PlaceOfMember
  <2>2. \A c, d \in C : RecallBlock!PlaceIn(C, c.id) = RecallBlock!PlaceIn(C, d.id) => c = d
    BY PlacesDiffer
  <2>3. \A c \in C : rank[c] = RecallBlock!PlaceIn(C, c.id)
    OBVIOUS
  <2>4. rank \in [C -> 1..n]
    BY <2>1
  <2> HIDE DEF n, rank
  <2> QED
    BY <2>2, <2>3, <2>4 DEF Injection, IsInjective
<1>3. rank \in Surjection(C, 1..n)
  <2> HIDE DEF rank
  <2>1. Cardinality(C) = Cardinality(1..n)
    BY <1>1
  <2> HIDE DEF n
  <2> QED
    BY <1>1, <1>2, <2>1, FS_Injection
<1>4. r = [i \in 1..n |-> CHOOSE c \in C : RecallBlock!PlaceIn(C, c.id) = i]
  BY RecallCardinality DEF RecallBlock!Ranked
<1> HIDE DEF n, r
<1>5. ASSUME NEW i \in 1..n PROVE r[i] \in C /\ RecallBlock!PlaceIn(C, r[i].id) = i
  <2>1. \E c \in C : RecallBlock!PlaceIn(C, c.id) = i
    BY <1>3 DEF Surjection
  <2> QED
    BY <1>4, <2>1
<1>6. r \in Seq(C) /\ Len(r) = n
  <2>1. r \in [1..n -> C]
    BY <1>4, <1>5
  <2> QED
    BY <1>1, <2>1
<1>7. ASSUME NEW c \in C PROVE \E i \in 1..n : r[i] = c
  <2>1. RecallBlock!PlaceIn(C, c.id) \in 1..n
    BY PlaceOfMember DEF n
  <2>2. r[RecallBlock!PlaceIn(C, c.id)] = c
    BY <1>5, <2>1, PlacesDiffer
  <2> QED
    BY <2>1, <2>2
<1>8. ASSUME NEW i \in 1..n, NEW j \in 1..n, r[i].id = r[j].id PROVE i = j
  BY <1>5, <1>8
<1> QED
  BY <1>1, <1>6, <1>7, <1>8 DEF n, r

\* Candidates with a score, one for every record of S.
OneEach(C, S) ==
  /\ IsFiniteSet(S) /\ S \subseteq Nat
  /\ \A c \in C : c.id \in S /\ c.score \in Int
  /\ \A r \in S : \E c \in C : c.id = r
  /\ \A c, d \in C : c.id = d.id => c = d

LEMMA ScoresAreRankable ==
  ASSUME NEW C, NEW S, OneEach(C, S)
  PROVE  Rankable(C) /\ Cardinality(C) = Cardinality(S)
<1> DEFINE name == [c \in C |-> c.id]
<1>1. name \in [C -> S] /\ \A c \in C : name[c] = c.id
  BY DEF OneEach
<1> HIDE DEF name
<1>2. name \in Injection(C, S)
  BY <1>1 DEF OneEach, Injection, IsInjective
<1>3. name \in Surjection(C, S)
  BY <1>1 DEF OneEach, Surjection
<1>4. IsFiniteSet(C) /\ Cardinality(C) = Cardinality(S)
  BY <1>2, <1>3, FS_Injection DEF OneEach
<1> QED
  BY <1>4 DEF Rankable, OneEach

Rated == [id : Nat, score : Int]

\* Candidates of records S with the scores f.
Scored(S, f) == {RecallBlock!Candidate(r, f[r]) : r \in S}

LEMMA ScoredOneEach ==
  ASSUME NEW S, IsFiniteSet(S), S \subseteq Nat, NEW f, \A r \in S : f[r] \in Int
  PROVE  OneEach(Scored(S, f), S) /\ Scored(S, f) \subseteq Rated
<1>1. \A r : RecallBlock!Candidate(r, f[r]).id = r /\ RecallBlock!Candidate(r, f[r]).score = f[r]
  BY DEF RecallBlock!Candidate
<1>2. \A c \in Scored(S, f) : \E r \in S : c = RecallBlock!Candidate(r, f[r])
  BY DEF Scored
<1>3. \A r \in S : RecallBlock!Candidate(r, f[r]) \in Scored(S, f)
  BY DEF Scored
<1>4. \A c \in Scored(S, f) : c.id \in S /\ c.score \in Int /\ c = RecallBlock!Candidate(c.id, f[c.id])
  BY <1>1, <1>2
<1>5. \A r \in S : \E c \in Scored(S, f) : c.id = r
  BY <1>1, <1>3
<1>6. Scored(S, f) \subseteq Rated
  BY <1>2 DEF RecallBlock!Candidate, Rated
<1> QED
  BY <1>4, <1>5, <1>6 DEF OneEach

RecallInv == corpus \in Seq(RecallBlock!Record)

LEMMA RecordTypes ==
  ASSUME RecallInv
  PROVE  /\ DOMAIN corpus = 1..Len(corpus) /\ Len(corpus) \in Nat /\ IsFiniteSet(DOMAIN corpus)
         /\ \A r \in DOMAIN corpus :
              /\ r \in Nat
              /\ corpus[r].lex \in Nat /\ corpus[r].vec \in Nat
              /\ corpus[r].salience \in Nat /\ corpus[r].recency \in Nat
<1>1. /\ DOMAIN corpus = 1..Len(corpus) /\ Len(corpus) \in Nat
      /\ \A r \in 1..Len(corpus) : corpus[r] \in RecallBlock!Record
  BY DEF RecallInv
<1>2. IsFiniteSet(1..Len(corpus))
  BY <1>1, FS_Interval
<1>3. ASSUME NEW x \in RecallBlock!Record
      PROVE  x.lex \in Nat /\ x.vec \in Nat /\ x.salience \in Nat /\ x.recency \in Nat
  <2>1. x.lex \in Levels /\ x.vec \in Levels /\ x.salience \in Weights /\ x.recency \in Weights
    BY DEF RecallBlock!Record
  <2>2. Levels \subseteq Nat /\ Weights \subseteq 0..1
    BY RecallAssumption, Zenon
  <2>3. (\A y \in Levels : y \in Nat) /\ (\A y \in Weights : y \in Nat)
    BY <2>2
  <2> QED
    BY <2>1, <2>3, Zenon
<1> QED
  BY <1>1, <1>2, <1>3

\* What two sources can give.
MaxFused == 2 * RecallBlock!Unit

LEMMA UnitType == RecallBlock!Unit \in Nat /\ MaxFused \in Nat
BY DEF RecallBlock!Unit, MaxFused

LEMMA UnitShare == \A k \in Nat \ {0} : RecallBlock!Unit \div k \in 0..RecallBlock!Unit
BY DEF RecallBlock!Unit

LEMMA ReciprocalTypes ==
  ASSUME NEW C, Rankable(C), NEW r
  PROVE  RecallBlock!Reciprocal(C, r) \in 0..RecallBlock!Unit
<1>1. CASE \E c \in C : c.id = r
  <2>1. PICK c \in C : c.id = r
    BY <1>1
  <2>2. Cardinality(C) \in Nat
    BY FS_CardinalityType DEF Rankable
  <2>3. RecallBlock!PlaceIn(C, r) \in 1..Cardinality(C)
    BY <2>1, PlaceOfMember
  <2>4. PICK k \in Nat \ {0} : k = 5 + RecallBlock!PlaceIn(C, r)
    BY <2>2, <2>3
  <2> QED
    BY <1>1, <2>4, UnitShare DEF RecallBlock!Reciprocal
<1>2. CASE ~\E c \in C : c.id = r
  BY <1>2, UnitType DEF RecallBlock!Reciprocal
<1> QED
  BY <1>1, <1>2

LEMMA FusedTypes ==
  ASSUME RecallInv, NEW S \in SUBSET (DOMAIN corpus)
  PROVE  /\ OneEach(RecallBlock!Fused(S), RecallBlock!Found(S))
         /\ \A c \in RecallBlock!Fused(S) : c.score \in 0..MaxFused
<1>1. /\ IsFiniteSet(S) /\ S \subseteq Nat
      /\ \A r \in S : corpus[r].lex \in Nat /\ corpus[r].vec \in Nat
  BY RecordTypes, FS_Subset
<1>2. Rankable(RecallBlock!Lexical(S))
  <2> DEFINE L == {s \in S : query.words}
  <2>1. L \in SUBSET S
    OBVIOUS
  <2>2. IsFiniteSet(L) /\ L \subseteq Nat
    BY <1>1, <2>1, FS_Subset
  <2> DEFINE f == [r \in L |-> corpus[r].lex]
  <2>a. RecallBlock!Lexical(S) = Scored(L, f)
    BY DEF RecallBlock!Lexical, Scored
  <2>b. \A r \in L : f[r] \in Int
    BY <1>1
  <2> HIDE DEF f, L
  <2>3. OneEach(RecallBlock!Lexical(S), L)
    BY <2>2, <2>a, <2>b, ScoredOneEach
  <2> QED
    BY <2>3, ScoresAreRankable
<1>3. Rankable(RecallBlock!Vectors(S))
  <2> DEFINE V == {s \in S : corpus[s].vec > 0}
  <2>1. V \in SUBSET S
    OBVIOUS
  <2>2. IsFiniteSet(V) /\ V \subseteq Nat
    BY <1>1, <2>1, FS_Subset
  <2> DEFINE f == [r \in V |-> corpus[r].vec]
  <2>a. RecallBlock!Vectors(S) = Scored(V, f)
    BY DEF RecallBlock!Vectors, Scored
  <2>b. \A r \in V : f[r] \in Int
    BY <1>1
  <2> HIDE DEF f, V
  <2>3. OneEach(RecallBlock!Vectors(S), V)
    BY <2>2, <2>a, <2>b, ScoredOneEach
  <2> QED
    BY <2>3, ScoresAreRankable
<1> DEFINE Fuse(r) == RecallBlock!Reciprocal(RecallBlock!Lexical(S), r)
                      + RecallBlock!Reciprocal(RecallBlock!Vectors(S), r)
<1>4. ASSUME NEW r PROVE Fuse(r) \in 0..MaxFused
  <2>1. /\ RecallBlock!Reciprocal(RecallBlock!Lexical(S), r) \in 0..RecallBlock!Unit
        /\ RecallBlock!Reciprocal(RecallBlock!Vectors(S), r) \in 0..RecallBlock!Unit
    BY <1>2, <1>3, ReciprocalTypes
  <2>2. PICK unit \in Nat : unit = RecallBlock!Unit
    BY UnitType
  <2>3. PICK x \in 0..unit : x = RecallBlock!Reciprocal(RecallBlock!Lexical(S), r)
    BY <2>1, <2>2
  <2>4. PICK y \in 0..unit : y = RecallBlock!Reciprocal(RecallBlock!Vectors(S), r)
    BY <2>1, <2>2
  <2>5. Fuse(r) = x + y
    BY <2>3, <2>4
  <2>6. MaxFused = 2 * unit
    BY <2>2 DEF MaxFused
  <2> HIDE DEF Fuse
  <2> QED
    BY <2>5, <2>6
<1> DEFINE inSome == RecallBlock!Found(S)
<1>5. RecallBlock!Fused(S) = {RecallBlock!Candidate(r, Fuse(r)) : r \in inSome}
  BY DEF RecallBlock!Fused
<1>f. IsFiniteSet(inSome) /\ inSome \subseteq Nat
  <2>1. inSome \in SUBSET S
    BY DEF RecallBlock!Found
  <2> QED
    BY <1>1, <2>1, FS_Subset
<1> HIDE DEF Fuse, inSome
<1> DEFINE f == [r \in inSome |-> Fuse(r)]
<1>6. RecallBlock!Fused(S) = Scored(inSome, f) /\ \A r \in inSome : f[r] \in 0..MaxFused
  BY <1>4, <1>5 DEF Scored
<1> HIDE DEF f
<1>7. OneEach(RecallBlock!Fused(S), inSome)
  <2>1. \A r \in inSome : f[r] \in Int
    BY <1>6, UnitType
  <2> QED
    BY <1>f, <1>6, <2>1, ScoredOneEach
<1>8. ASSUME NEW c \in RecallBlock!Fused(S) PROVE c.score \in 0..MaxFused
  <2>1. PICK r \in inSome : c = RecallBlock!Candidate(r, f[r])
    BY <1>6 DEF Scored
  <2> QED
    BY <1>6, <2>1 DEF RecallBlock!Candidate
<1> QED
  BY <1>7, <1>8 DEF inSome

LEMMA ProductIsInt == \A x, y \in Int : x * y \in Int
OBVIOUS

LEMMA SmallestIs == ASSUME NEW R, \E x \in R : \A y \in R : x <= y PROVE RecallBlock!SmallestOf(R) \in R
BY Zenon DEF RecallBlock!SmallestOf

LEMMA LargestIs == ASSUME NEW R, \E x \in R : \A y \in R : y <= x PROVE RecallBlock!LargestOf(R) \in R
BY Zenon DEF RecallBlock!LargestOf

LEMMA WeightedTypes ==
  ASSUME RecallInv, NEW S \in SUBSET (DOMAIN corpus), RecallBlock!Found(S) # {}
  PROVE  /\ OneEach(RecallBlock!Weighted(S), RecallBlock!Found(S))
         /\ RecallBlock!Weighted(S) \subseteq Rated
<1> DEFINE F == RecallBlock!Fused(S)
           inSome == RecallBlock!Found(S)
           raw == {c.score : c \in F}
           lo == RecallBlock!SmallestOf(raw)
           hi == RecallBlock!LargestOf(raw)
           span == IF hi = lo THEN RecallBlock!Unit ELSE hi - lo
           Score(c) == 90 * (c.score - lo) + span * (7 * corpus[c.id].salience + 3 * corpus[c.id].recency)
<1>1. OneEach(F, inSome) /\ \A c \in F : c.score \in 0..MaxFused
  BY FusedTypes
<1>2. RecallBlock!Weighted(S) = {RecallBlock!Candidate(c.id, RecallBlock!Damp(c.id, Score(c))) : c \in F}
  <2>1. /\ RecallBlock!Lowest(F) = lo /\ RecallBlock!Highest(F) = hi
        /\ RecallBlock!Span(F) = span
    BY DEF RecallBlock!Lowest, RecallBlock!Highest, RecallBlock!Span
  <2> HIDE DEF lo, hi, span
  <2> QED
    BY <2>1 DEF RecallBlock!Weighted, RecallBlock!Stretched
<1>f. inSome # {} /\ inSome \subseteq S
  BY DEF RecallBlock!Found
<1> HIDE DEF F, inSome
<1>3. raw \in SUBSET (0..MaxFused) /\ raw # {}
  <2>1. PICK r \in inSome : TRUE
    BY <1>f
  <2>2. PICK c \in F : c.id = r
    BY <1>1, <2>1 DEF OneEach
  <2>3. c.score \in raw
    OBVIOUS
  <2>4. \A x \in raw : \E d \in F : x = d.score
    OBVIOUS
  <2> HIDE DEF raw
  <2> QED
    BY <1>1, <2>3, <2>4
<1> HIDE DEF raw
<1>4. PICK most \in Nat : most = MaxFused
  BY UnitType
<1>5. (\A x \in raw : x \in Int) /\ raw \in SUBSET Nat /\ raw \in SUBSET (0..most)
  BY <1>3, <1>4
<1>a. lo \in Int
  <2>1. \E x \in raw : \A y \in raw : x <= y
    BY <1>3, <1>5, LeastNumber
  <2> QED
    BY <1>5, <2>1, SmallestIs, Zenon
<1>b. hi \in Int
  <2>1. \E x \in raw : \A y \in raw : y <= x
    BY <1>3, <1>5, GreatestNumber
  <2> QED
    BY <1>5, <2>1, LargestIs, Zenon
<1> HIDE DEF lo, hi
<1>6. span \in Int
  BY <1>a, <1>b, UnitType
<1> HIDE DEF span
<1>7. ASSUME NEW c \in F PROVE Score(c) \in Int
  <2>1. c.score \in Int /\ c.id \in S /\ c.id \in DOMAIN corpus
    BY <1>f, <1>1 DEF OneEach
  <2>2. PICK weight \in Int : weight = 7 * corpus[c.id].salience + 3 * corpus[c.id].recency
    BY <2>1, RecordTypes
  <2>3. PICK product \in Int : product = span * weight
    BY <1>6, ProductIsInt
  <2> QED
    BY <1>a, <2>1, <2>2, <2>3
<1> HIDE DEF Score
<1>8. ASSUME NEW c \in F PROVE RecallBlock!Damp(c.id, Score(c)) \in Int
  BY <1>7 DEF RecallBlock!Damp
<1> DEFINE best(r) == CHOOSE c \in F : c.id = r
           f == [r \in inSome |-> RecallBlock!Damp(r, Score(best(r)))]
<1>9. ASSUME NEW r \in inSome PROVE best(r) \in F /\ best(r).id = r /\ f[r] \in Int
  <2>1. best(r) \in F /\ best(r).id = r
    <3>1. \E c \in F : c.id = r
      BY <1>1 DEF OneEach
    <3> QED
      BY <3>1
  <2> HIDE DEF best
  <2> QED
    BY <1>8, <2>1
<1>10. ASSUME NEW c \in F PROVE c.id \in inSome /\ best(c.id) = c
  <2>1. c.id \in inSome
    BY <1>1 DEF OneEach
  <2>2. best(c.id) \in F /\ best(c.id).id = c.id
    BY <1>9, <2>1
  <2> HIDE DEF best
  <2> QED
    BY <1>1, <2>1, <2>2 DEF OneEach
<1> HIDE DEF best
<1>11. RecallBlock!Weighted(S) = Scored(inSome, f)
  <2>1. ASSUME NEW c \in F
        PROVE  RecallBlock!Candidate(c.id, RecallBlock!Damp(c.id, Score(c))) = RecallBlock!Candidate(c.id, f[c.id])
    BY <1>10
  <2>2. ASSUME NEW r \in inSome
        PROVE  \E c \in F : RecallBlock!Candidate(r, f[r]) = RecallBlock!Candidate(c.id, RecallBlock!Damp(c.id, Score(c)))
    BY <1>9
  <2> HIDE DEF f
  <2> QED
    BY <1>2, <1>10, <2>1, <2>2 DEF Scored
<1> HIDE DEF f
<1>12. IsFiniteSet(inSome) /\ inSome \subseteq Nat
  BY <1>1 DEF OneEach
<1> QED
  BY <1>9, <1>11, <1>12, ScoredOneEach DEF inSome

\* Candidates, none of them twice, for records of S.
Listing(P, S) ==
  /\ P \in Seq(Rated)
  /\ \A i \in DOMAIN P : P[i].id \in S
  /\ \A i, j \in DOMAIN P : P[i].id = P[j].id => i = j

LEMMA FirstTypes ==
  ASSUME NEW T, NEW s \in Seq(T), NEW n \in Nat
  PROVE  /\ RecallBlock!First(n, s) \in Seq(T)
         /\ Len(RecallBlock!First(n, s)) = (IF n < Len(s) THEN n ELSE Len(s))
         /\ \A i \in 1..Len(RecallBlock!First(n, s)) : RecallBlock!First(n, s)[i] = s[i] /\ i \in 1..Len(s)
<1>1. PICK m \in Nat : m = (IF n < Len(s) THEN n ELSE Len(s)) /\ m <= Len(s)
  OBVIOUS
<1>2. RecallBlock!First(n, s) = SubSeq(s, 1, m)
  BY <1>1 DEF RecallBlock!First, RecallBlock!Smaller
<1>3. /\ SubSeq(s, 1, m) \in Seq(T) /\ Len(SubSeq(s, 1, m)) = m
      /\ \A i \in 1..m : SubSeq(s, 1, m)[i] = s[i] /\ i \in 1..Len(s)
  BY <1>1
<1> QED
  BY <1>1, <1>2, <1>3

LEMMA FirstListing ==
  ASSUME NEW P, NEW S, Listing(P, S), NEW n \in Nat
  PROVE  Listing(RecallBlock!First(n, P), S)
<1>1. P \in Seq(Rated) /\ DOMAIN P = 1..Len(P)
  BY DEF Listing
<1>2. /\ RecallBlock!First(n, P) \in Seq(Rated)
      /\ \A i \in 1..Len(RecallBlock!First(n, P)) : RecallBlock!First(n, P)[i] = P[i] /\ i \in 1..Len(P)
  BY <1>1, FirstTypes
<1>3. DOMAIN RecallBlock!First(n, P) = 1..Len(RecallBlock!First(n, P))
  BY <1>2
<1> QED
  BY <1>1, <1>2, <1>3 DEF Listing

LEMMA RankedListing ==
  ASSUME NEW C, NEW S, Rankable(C), C \subseteq Rated, \A c \in C : c.id \in S
  PROVE  Listing(RecallBlock!Ranked(C), S)
<1>1. /\ RecallBlock!Ranked(C) \in Seq(C) /\ Len(RecallBlock!Ranked(C)) = Cardinality(C)
      /\ \A i, j \in 1..Cardinality(C) : RecallBlock!Ranked(C)[i].id = RecallBlock!Ranked(C)[j].id => i = j
  BY RankedTypes
<1>2. DOMAIN RecallBlock!Ranked(C) = 1..Cardinality(C) /\ \A i \in 1..Cardinality(C) : RecallBlock!Ranked(C)[i] \in C
  BY <1>1
<1>3. RecallBlock!Ranked(C) \in Seq(Rated)
  BY <1>1
<1> QED
  BY <1>1, <1>2, <1>3 DEF Listing

LEMMA SearchTypes ==
  ASSUME RecallInv, NEW S \in SUBSET (DOMAIN corpus), NEW n \in Nat
  PROVE  /\ Listing(RecallBlock!Search(S, n), S)
         /\ Len(RecallBlock!Search(S, n)) < n =>
              \A r \in RecallBlock!Found(S) : \E i \in DOMAIN RecallBlock!Search(S, n) : RecallBlock!Search(S, n)[i].id = r
<1>1. CASE RecallBlock!Found(S) = {}
  <2>1. RecallBlock!Search(S, n) = <<>>
    BY <1>1 DEF RecallBlock!Search
  <2>2. <<>> \in Seq(Rated) /\ DOMAIN <<>> = {}
    OBVIOUS
  <2> QED
    BY <1>1, <2>1, <2>2 DEF Listing
<1>2. CASE RecallBlock!Found(S) # {}
  <2> DEFINE W == RecallBlock!Weighted(S)
             all == RecallBlock!Ranked(W)
             P == RecallBlock!First(n, all)
  <2>1. RecallBlock!Search(S, n) = P
    BY <1>2 DEF RecallBlock!Search
  <2>2. OneEach(W, RecallBlock!Found(S)) /\ RecallBlock!Found(S) \subseteq S /\ W \subseteq Rated
    BY <1>2, WeightedTypes DEF RecallBlock!Found
  <2> HIDE DEF W
  <2>3. Rankable(W)
    BY <2>2, ScoresAreRankable
  <2>4. Listing(all, S)
    BY <2>2, <2>3, RankedListing DEF OneEach
  <2>5. /\ all \in Seq(Rated) /\ Len(all) = Cardinality(W)
        /\ \A c \in W : \E i \in 1..Len(all) : all[i] = c
    BY <2>3, <2>4, RankedTypes DEF Listing
  <2> HIDE DEF all
  <2>6. /\ P \in Seq(Rated) /\ Len(P) = (IF n < Len(all) THEN n ELSE Len(all))
        /\ \A i \in 1..Len(P) : P[i] = all[i]
    BY <2>5, FirstTypes
  <2>7. Listing(P, S)
    BY <2>4, FirstListing
  <2> HIDE DEF P
  <2>8. ASSUME Len(P) < n, NEW r \in RecallBlock!Found(S) PROVE \E i \in DOMAIN P : P[i].id = r
    <3>1. Len(P) = Len(all) /\ DOMAIN P = 1..Len(P)
      BY <2>5, <2>6, <2>8
    <3>2. PICK c \in W : c.id = r
      BY <2>2 DEF OneEach
    <3>3. PICK i \in 1..Len(all) : all[i] = c
      BY <2>5
    <3> QED
      BY <2>6, <3>1, <3>2, <3>3
  <2> QED
    BY <2>1, <2>7, <2>8
<1> QED
  BY <1>1, <1>2

LEMMA OthersTypes ==
  ASSUME RecallInv, NEW best, Listing(best, DOMAIN corpus)
  PROVE  Listing(RecallBlock!NearOthers(best), DOMAIN corpus \ RecallBlock!Own)
<1> DEFINE C == {c \in RecallBlock!ToSet(best) : c.id \notin RecallBlock!Own /\ RecallBlock!IsNear(c, best)}
           others == DOMAIN corpus \ RecallBlock!Own
           name == [c \in C |-> c.id]
<1>1. RecallBlock!NearOthers(best) = RecallBlock!First(2, RecallBlock!Ranked(C))
  BY DEF RecallBlock!NearOthers, RecallBlock!CrossProjectMax
<1>2. \A c \in C : (\E i \in DOMAIN best : c = best[i]) /\ c.id \notin RecallBlock!Own
  BY DEF RecallBlock!ToSet
<1> HIDE DEF C
<1>3. /\ \A c \in C : c \in Rated /\ c.id \in others /\ c.id \in Nat /\ c.score \in Int
      /\ \A c, d \in C : c.id = d.id => c = d
  <2>1. \A i \in DOMAIN best : best[i] \in Rated
    BY DEF Listing
  <2>2. \A c \in Rated : c.id \in Nat /\ c.score \in Int
    BY DEF Rated
  <2> QED
    BY <1>2, <2>1, <2>2 DEF Listing
<1>4. IsFiniteSet(C)
  <2>1. IsFiniteSet(DOMAIN corpus)
    BY RecordTypes
  <2>2. name \in [C -> DOMAIN corpus] /\ \A c \in C : name[c] = c.id
    BY <1>3
  <2> HIDE DEF name
  <2>3. name \in Injection(C, DOMAIN corpus)
    BY <1>3, <2>2 DEF Injection, IsInjective
  <2> QED
    BY <2>1, <2>3, FS_Injection
<1>5. Rankable(C)
  BY <1>3, <1>4 DEF Rankable
<1>6. Listing(RecallBlock!Ranked(C), others)
  BY <1>3, <1>5, RankedListing
<1> HIDE DEF others
<1>7. Listing(RecallBlock!First(2, RecallBlock!Ranked(C)), others)
  <2>1. PICK two \in Nat : two = 2
    OBVIOUS
  <2> QED
    BY <1>6, <2>1, FirstListing
<1> QED
  BY <1>1, <1>7 DEF others

\* What is put together: the project's own hits, and those of others behind them as
\* long as there is room.
LEMMA FillUpTypes ==
  ASSUME RecallInv, NEW P, Listing(P, RecallBlock!Own)
  PROVE  /\ Listing(RecallBlock!FillUp(P), DOMAIN corpus)
         /\ \A i \in DOMAIN RecallBlock!FillUp(P) : i <= Len(P) => RecallBlock!FillUp(P)[i] = P[i]
         /\ Len(P) >= 3 => Len(RecallBlock!FillUp(P)) <= Len(P)
<1> DEFINE X == RecallBlock!CrossProjectHits
           both == P \o X
           hits == IF Len(P) >= 3 THEN P ELSE both
<1>0. RecallBlock!Own \in SUBSET (DOMAIN corpus)
  BY DEF RecallBlock!Own
<1>1. Listing(X, DOMAIN corpus \ RecallBlock!Own)
  <2>1. PICK three \in Nat : three = 3
    OBVIOUS
  <2>2. Listing(RecallBlock!Search(DOMAIN corpus, 3), DOMAIN corpus)
    BY <2>1, SearchTypes
  <2> QED
    BY <2>2, OthersTypes DEF RecallBlock!CrossProjectHits, RecallBlock!TopK
<1>2. RecallBlock!FillUp(P) = RecallBlock!First(3, hits)
  BY DEF RecallBlock!FillUp, RecallBlock!TopK
<1> HIDE DEF X
<1>3. P \in Seq(Rated) /\ X \in Seq(Rated) /\ Len(P) \in Nat /\ Len(X) \in Nat
  BY <1>1 DEF Listing
<1>4. /\ both \in Seq(Rated) /\ Len(both) = Len(P) + Len(X) /\ DOMAIN both = 1..Len(both)
      /\ \A i \in 1..Len(both) : i <= Len(P) => i \in DOMAIN P /\ both[i] = P[i]
      /\ \A i \in 1..Len(both) : ~(i <= Len(P)) => i - Len(P) \in DOMAIN X /\ both[i] = X[i - Len(P)]
  BY <1>3
<1> HIDE DEF both
<1>5. Listing(both, DOMAIN corpus)
  <2>1. \A i \in DOMAIN P : P[i].id \in RecallBlock!Own
    BY DEF Listing
  <2>2. \A i \in DOMAIN X : X[i].id \in DOMAIN corpus /\ X[i].id \notin RecallBlock!Own
    BY <1>1 DEF Listing
  <2>3. \A i \in DOMAIN both : both[i].id \in DOMAIN corpus /\ (i <= Len(P) <=> both[i].id \in RecallBlock!Own)
    BY <1>0, <1>4, <2>1, <2>2
  <2>4. ASSUME NEW i \in DOMAIN both, NEW j \in DOMAIN both, both[i].id = both[j].id PROVE i = j
    <3>1. i \in 1..Len(both) /\ j \in 1..Len(both) /\ (i <= Len(P) <=> j <= Len(P)) /\ Len(both) \in Nat
      BY <1>3, <1>4, <2>3, <2>4
    <3>2. CASE i <= Len(P)
      <4>1. i \in DOMAIN P /\ j \in DOMAIN P /\ P[i].id = P[j].id
        BY <1>4, <2>4, <3>1, <3>2
      <4> QED
        BY <4>1 DEF Listing
    <3>3. CASE ~(i <= Len(P))
      <4>1. i - Len(P) \in DOMAIN X /\ j - Len(P) \in DOMAIN X /\ X[i - Len(P)].id = X[j - Len(P)].id
        BY <1>4, <2>4, <3>1, <3>3
      <4>2. i - Len(P) = j - Len(P)
        BY <1>1, <4>1 DEF Listing
      <4> QED
        BY <1>3, <3>1, <4>2
    <3> QED
      BY <3>2, <3>3
  <2> QED
    BY <1>4, <2>3, <2>4 DEF Listing
<1>6. Listing(P, DOMAIN corpus)
  BY <1>0 DEF Listing
<1>7. /\ Listing(hits, DOMAIN corpus) /\ hits \in Seq(Rated)
      /\ \A i \in 1..Len(hits) : i <= Len(P) => hits[i] = P[i]
      /\ Len(P) >= 3 => Len(hits) = Len(P)
  BY <1>3, <1>4, <1>5, <1>6
<1> HIDE DEF hits
<1>8. PICK three \in Nat : three = 3
  OBVIOUS
<1> DEFINE Q == RecallBlock!First(three, hits)
<1>9. /\ Listing(Q, DOMAIN corpus) /\ Q \in Seq(Rated)
      /\ Len(Q) = (IF three < Len(hits) THEN three ELSE Len(hits))
      /\ \A i \in 1..Len(Q) : Q[i] = hits[i] /\ i \in 1..Len(hits)
  BY <1>7, FirstListing, FirstTypes
<1>10. RecallBlock!FillUp(P) = Q
  BY <1>2, <1>8
<1> HIDE DEF Q
<1>11. DOMAIN Q = 1..Len(Q) /\ Len(Q) <= Len(hits)
  BY <1>7, <1>9
<1> QED
  BY <1>7, <1>9, <1>10, <1>11

\* A sequence that repeats nothing has as many every as places.
LEMMA MembersOfDistinct ==
  ASSUME NEW T, NEW s \in Seq(T), \A i, j \in 1..Len(s) : s[i] = s[j] => i = j
  PROVE  Cardinality({s[i] : i \in DOMAIN s}) = Len(s)
<1> DEFINE every == {s[i] : i \in DOMAIN s}
           n == Len(s)
<1>1. n \in Nat /\ DOMAIN s = 1..n /\ s = [i \in 1..n |-> s[i]]
  OBVIOUS
<1>2. IsFiniteSet(1..n) /\ Cardinality(1..n) = n
  <2> HIDE DEF n
  <2>0. n \in Nat
    BY <1>1
  <2>1. IsFiniteSet(1..n) /\ Cardinality(1..n) = IF 1 > n THEN 0 ELSE n - 1 + 1
    BY <2>0, FS_Interval
  <2> QED
    BY <2>0, <2>1
<1>3. s \in Surjection(1..n, every)
  <2>1. (\A i \in 1..n : s[i] \in every) /\ \A x \in every : \E i \in 1..n : s[i] = x
    BY <1>1
  <2> HIDE DEF n, every
  <2> QED
    BY <1>1, <2>1 DEF Surjection
<1>4. s \in Injection(1..n, every)
  <2>1. s \in [1..n -> every]
    BY <1>3 DEF Surjection
  <2>2. \A i, j \in 1..n : s[i] = s[j] => i = j
    OBVIOUS
  <2> HIDE DEF n, every
  <2> QED
    BY <1>1, <2>1, <2>2 DEF Injection, IsInjective
<1> HIDE DEF n, every
<1>5. Cardinality(every) = Cardinality(1..n)
  BY <1>2, <1>3, <1>4, FS_Surjection
<1> QED
  BY <1>2, <1>5 DEF n, every

\* The numbers of H that are in R, in their order.
KeepIn(H, R) == Flat([i \in DOMAIN H |-> IF H[i] \in R THEN <<H[i]>> ELSE <<>>])

\* s holds the pieces it flattens.
Pieces(s, H, R) ==
  /\ KeepIn(H, R) = Flat(s) /\ Len(s) = Len(H)
  /\ \A i \in 1..Len(H) : s[i] = IF H[i] \in R THEN <<H[i]>> ELSE <<>>

LEMMA KeptPieces ==
  ASSUME NEW R, NEW H \in Seq(Nat)
  PROVE  \E s \in Seq(Seq(Nat)) : Pieces(s, H, R)
<1> DEFINE s == [i \in DOMAIN H |-> IF H[i] \in R THEN <<H[i]>> ELSE <<>>]
           n == Len(H)
<1>1. n \in Nat /\ DOMAIN H = 1..n /\ \A i \in 1..n : H[i] \in Nat
  OBVIOUS
<1>2. /\ s = [i \in 1..n |-> s[i]]
      /\ \A i \in 1..n : s[i] = IF H[i] \in R THEN <<H[i]>> ELSE <<>>
  BY <1>1
<1>3. KeepIn(H, R) = Flat(s)
  BY DEF KeepIn
<1> HIDE DEF s, n
<1>4. ASSUME NEW i \in 1..n PROVE s[i] \in Seq(Nat)
  <2>1. CASE H[i] \in R
    <3>1. s[i] = <<H[i]>> /\ H[i] \in Nat
      BY <1>1, <1>2, <2>1
    <3> QED
      BY <3>1
  <2>2. CASE H[i] \notin R
    <3>1. s[i] = <<>>
      BY <1>2, <2>2
    <3> QED
      BY <3>1
  <2> QED
    BY <2>1, <2>2
<1>5. s \in [1..n -> Seq(Nat)]
  BY <1>2, <1>4
<1>6. s \in Seq(Seq(Nat)) /\ Len(s) = n
  BY <1>1, <1>5
<1> QED
  BY <1>2, <1>3, <1>6 DEF n, Pieces

\* A kept number is one of R, and no place gives two.
LEMMA KeptNumbers ==
  ASSUME NEW R, NEW H \in Seq(Nat), \A i, j \in 1..Len(H) : H[i] = H[j] => i = j
  PROVE  /\ KeepIn(H, R) \in Seq(Nat)
         /\ \A k, l \in 1..Len(KeepIn(H, R)) : KeepIn(H, R)[k] = KeepIn(H, R)[l] => k = l
         /\ \A k \in 1..Len(KeepIn(H, R)) : \E i \in 1..Len(H) : KeepIn(H, R)[k] = H[i]
         /\ \A i \in 1..Len(H) :
              H[i] \in R => \E k \in 1..Len(KeepIn(H, R)) : KeepIn(H, R)[k] = H[i]
<1> DEFINE K == KeepIn(H, R)
<1>0. PICK s \in Seq(Seq(Nat)) : Pieces(s, H, R)
  BY KeptPieces
<1>1. /\ K = Flat(s) /\ Len(s) = Len(H)
      /\ \A i \in 1..Len(H) : s[i] = IF H[i] \in R THEN <<H[i]>> ELSE <<>>
  BY <1>0 DEF Pieces
<1>2. K \in Seq(Nat) /\ \E home, off : Places(K, s, Len(s), home, off)
  BY <1>1, FlatPlaces
<1>3. PICK home, off : Places(K, s, Len(s), home, off)
  BY <1>2
<1> HIDE DEF K
<1>4. /\ \A k \in 1..Len(K) : home[k] \in 1..Len(H)
      /\ \A k \in 1..Len(K) : off[k] \in 1..Len(s[home[k]]) /\ K[k] = s[home[k]][off[k]]
      /\ \A k, l \in 1..Len(K) : home[k] = home[l] /\ off[k] = off[l] => k = l
      /\ \A i \in 1..Len(H) : \A p \in 1..Len(s[i]) : \E k \in 1..Len(K) : home[k] = i /\ off[k] = p
  BY <1>1, <1>3 DEF Places
<1>5. ASSUME NEW k \in 1..Len(K) PROVE off[k] = 1 /\ K[k] = H[home[k]]
  <2>1. s[home[k]] = IF H[home[k]] \in R THEN <<H[home[k]]>> ELSE <<>>
    BY <1>1, <1>4
  <2>2. off[k] \in 1..Len(s[home[k]]) /\ K[k] = s[home[k]][off[k]]
    BY <1>4
  <2>3. CASE H[home[k]] \in R
    <3>1. s[home[k]] = <<H[home[k]]>>
      BY <2>1, <2>3
    <3> QED
      BY <2>2, <3>1
  <2>4. CASE H[home[k]] \notin R
    <3>1. s[home[k]] = <<>>
      BY <2>1, <2>4
    <3> QED
      BY <2>2, <3>1
  <2> QED
    BY <2>3, <2>4
<1>6. ASSUME NEW k \in 1..Len(K), NEW l \in 1..Len(K), K[k] = K[l] PROVE k = l
  <2>1. home[k] \in 1..Len(H) /\ home[l] \in 1..Len(H) /\ H[home[k]] = H[home[l]]
    BY <1>4, <1>5, <1>6
  <2>2. home[k] = home[l]
    BY <2>1
  <2>3. off[k] = off[l]
    BY <1>5
  <2> QED
    BY <1>4, <2>2, <2>3
<1>7. ASSUME NEW i \in 1..Len(H), H[i] \in R PROVE \E k \in 1..Len(K) : K[k] = H[i]
  <2>1. s[i] = <<H[i]>>
    BY <1>1, <1>7
  <2>2. 1 \in 1..Len(s[i])
    BY <2>1
  <2>3. PICK k \in 1..Len(K) : home[k] = i
    BY <1>4, <2>2
  <2> QED
    BY <1>5, <2>3
<1> QED
  BY <1>2, <1>4, <1>5, <1>6, <1>7 DEF K

\* What is kept of the first m comes first.
LEMMA KeptGrows ==
  ASSUME NEW R, NEW H \in Seq(Nat), NEW m \in 0..Len(H)
  PROVE  Begins(KeepIn(SubSeq(H, 1, m), R), KeepIn(H, R))
<1> DEFINE G == SubSeq(H, 1, m)
<1>1. G \in Seq(Nat) /\ Len(G) = m /\ m <= Len(H) /\ \A i \in 1..m : G[i] = H[i] /\ i \in 1..Len(H)
  OBVIOUS
<1> HIDE DEF G
<1>2. PICK s \in Seq(Seq(Nat)) : Pieces(s, H, R)
  BY KeptPieces
<1>3. PICK t \in Seq(Seq(Nat)) : Pieces(t, G, R)
  BY <1>1, KeptPieces, Zenon
<1>4. Begins(t, s)
  BY <1>1, <1>2, <1>3 DEF Begins, Pieces
<1>5. Begins(Flat(t), Flat(s))
  BY <1>4, FlatGrows
<1> QED
  BY <1>2, <1>3, <1>5 DEF G, Pieces

LEMMA RelevantIsFound ==
  ASSUME RecallInv, NEW S \in SUBSET (DOMAIN corpus)
  PROVE  RecallBlock!Relevant(S) \subseteq RecallBlock!Found(S)
<1>1. ASSUME NEW x \in RecallBlock!Relevant(S) PROVE \E c \in RecallBlock!Weighted(S) : c.id = x
  BY DEF RecallBlock!Relevant
<1>2. RecallBlock!Found(S) = {} => RecallBlock!Weighted(S) = {}
  BY DEF RecallBlock!Weighted, RecallBlock!Stretched, RecallBlock!Fused
<1>3. RecallBlock!Found(S) # {} => \A c \in RecallBlock!Weighted(S) : c.id \in RecallBlock!Found(S)
  BY WeightedTypes DEF OneEach
<1> QED
  BY <1>1, <1>2, <1>3

LEMMA RecallStep == RecallInv /\ [Next]_vars => RecallInv'
<1> SUFFICES ASSUME RecallInv, RecallBlock!Next \/ UNCHANGED recallVars PROVE RecallInv'
  BY DEF Next, vars, TranscriptsNext, AssetsNext, BridgeNext, EditorNext, CandidatesNext, RecallNext,
         RequestNext, PromptNext, RecordsNext, SessionsNext, OnlySessions, LintNext,
         ObservationsNext, PassagesNext, otherVars, ingestVars
<1>1. ASSUME NEW x \in RecallBlock!Record, RecallBlock!AddRecord(x) PROVE RecallInv'
  BY <1>1 DEF RecallInv, RecallBlock!AddRecord, RecallBlock!Record
<1>2. ASSUME UNCHANGED recallVars PROVE RecallInv'
  BY <1>2 DEF RecallInv, recallVars, RecallBlock!Record
<1> QED
  BY <1>1, <1>2 DEF RecallBlock!Next

\* For corpora and budgets of any size, and whatever the scores are: the block stays
\* within its budget and repeats nothing, and a record of another project takes no
\* room that one of the project could have had that reaches the request's minimum
\* (services.py, run_prompt_recall).
THEOREM OwnRecordsFirstHolds == Spec => []OwnRecordsFirst
<1>1. Init => RecallInv
  <2>1. <<>> \in Seq(RecallBlock!Record)
    OBVIOUS
  <2> QED
    BY <2>1 DEF Init, RecallBlock!Init, RecallInv
<1>2. RecallInv => OwnRecordsFirst
  <2> SUFFICES ASSUME RecallInv PROVE RecallBlock!IsFair(RecallBlock!Lines)
    BY DEF OwnRecordsFirst, RecallBlock!OwnRecordsFirst
  <2> DEFINE own == RecallBlock!Own
             P == RecallBlock!Search(own, 3)
             Q == RecallBlock!FillUp(P)
             H == RecallBlock!Numbers(Q)
  <2>1. H = RecallBlock!Hits
    BY DEF RecallBlock!Hits, RecallBlock!TopK
  <2>2. own \in SUBSET (DOMAIN corpus)
    BY DEF RecallBlock!Own
  <2>3. Listing(P, own) /\ (Len(P) < 3 => \A x \in RecallBlock!Found(own) : \E i \in DOMAIN P : P[i].id = x)
    <3>1. PICK three \in Nat : three = 3
      OBVIOUS
    <3> QED
      BY <2>2, <3>1, SearchTypes
  <2> HIDE DEF P
  <2>4. /\ Listing(Q, DOMAIN corpus)
        /\ \A i \in DOMAIN Q : i <= Len(P) => Q[i] = P[i]
        /\ Len(P) >= 3 => Len(Q) <= Len(P)
    BY <2>3, FillUpTypes
  <2> HIDE DEF Q
  <2>5. /\ Q \in Seq(Rated) /\ DOMAIN Q = 1..Len(Q) /\ Len(Q) \in Nat
        /\ P \in Seq(Rated) /\ DOMAIN P = 1..Len(P) /\ Len(P) \in Nat
    BY <2>3, <2>4 DEF Listing
  <2>6. /\ H \in Seq(Nat) /\ Len(H) = Len(Q)
        /\ \A i \in 1..Len(Q) : H[i] = Q[i].id
        /\ \A i, j \in 1..Len(Q) : H[i] = H[j] => i = j
    <3>1. H = [i \in 1..Len(Q) |-> Q[i].id]
      BY <2>5 DEF RecallBlock!Numbers
    <3>2. \A i \in 1..Len(Q) : Q[i].id \in Nat
      <4>1. \A x \in Rated : x.id \in Nat
        BY DEF Rated
      <4> QED
        BY <2>5, <4>1
    <3>3. \A i, j \in 1..Len(Q) : Q[i].id = Q[j].id => i = j
      BY <2>4, <2>5 DEF Listing
    <3> HIDE DEF H
    <3> QED
      BY <2>5, <3>1, <3>2, <3>3
  <2> HIDE DEF H
  <2> DEFINE relevant == RecallBlock!RelevantHits
             K == KeepIn(H, relevant)
  <2>r. RecallBlock!Relevant(own) \subseteq relevant /\ RecallBlock!Relevant(own) \subseteq RecallBlock!Found(own)
    BY <2>2, RelevantIsFound DEF RecallBlock!RelevantHits
  <2>k. RecallBlock!KeepRelevant(H) = K
    BY DEF RecallBlock!KeepRelevant, RecallBlock!FlattenSeq, KeepIn, Flat, Flattens
  <2> HIDE DEF relevant
  <2>t. /\ K \in Seq(Nat)
        /\ \A i, j \in 1..Len(K) : K[i] = K[j] => i = j
        /\ \A k \in 1..Len(K) : \E i \in 1..Len(H) : K[k] = H[i]
    BY <2>6, KeptNumbers
  \* A hit of another project has all relevant ones of the own before it.
  <2>o. ASSUME NEW k \in 1..Len(K), K[k] \notin own, NEW x \in RecallBlock!Relevant(own)
        PROVE  \E j \in 1..Len(K) : j <= k /\ K[j] = x
    <3> DEFINE m == Len(P)
               G == SubSeq(H, 1, m)
               A == KeepIn(G, relevant)
    <3>1. PICK i \in 1..Len(H) : K[k] = H[i]
      BY <2>t
    <3>2. ~(i <= m)
      <4>1. ASSUME i <= m PROVE FALSE
        <5>1. i \in DOMAIN Q /\ i \in DOMAIN P
          BY <2>5, <2>6, <4>1
        <5>2. H[i] = P[i].id
          BY <2>4, <2>6, <4>1, <5>1
        <5> QED
          BY <2>3, <2>o, <3>1, <5>1, <5>2 DEF Listing
      <4> QED
        BY <4>1
    <3>3. m \in 0..Len(H) /\ m < 3
      BY <2>4, <2>5, <2>6, <3>2
    <3>4. /\ G \in Seq(Nat) /\ Len(G) = m
          /\ \A l \in 1..m : G[l] = H[l] /\ l \in DOMAIN P /\ l \in DOMAIN Q /\ l <= Len(P)
      BY <2>5, <2>6, <3>3
    <3>5. \A l \in 1..m : G[l] = P[l].id /\ G[l] \in own
      <4>1. \A l \in 1..m : G[l] = P[l].id
        BY <2>4, <2>5, <2>6, <3>4
      <4> QED
        BY <2>3, <3>4, <4>1 DEF Listing
    <3>6. \A l, q \in 1..Len(G) : G[l] = G[q] => l = q
      BY <2>5, <2>6, <3>4
    <3>7. Begins(A, K)
      BY <2>6, <3>3, KeptGrows
    <3>m. m = Len(P)
      OBVIOUS
    <3> HIDE DEF G, m
    <3>8. /\ A \in Seq(Nat)
          /\ \A l \in 1..Len(A) : \E q \in 1..Len(G) : A[l] = G[q]
          /\ \A q \in 1..Len(G) : G[q] \in relevant => \E l \in 1..Len(A) : A[l] = G[q]
      BY <3>4, <3>6, KeptNumbers
    <3>9. x \in relevant /\ \E q \in 1..Len(G) : G[q] = x
      <4>1. PICK q \in DOMAIN P : P[q].id = x
        BY <2>3, <2>r, <2>o, <3>3, <3>m
      <4>2. q \in 1..m
        BY <2>5, <3>m, <4>1
      <4> QED
        BY <2>r, <2>o, <3>4, <3>5, <4>1, <4>2
    <3>10. PICK l \in 1..Len(A) : A[l] = x
      BY <3>8, <3>9
    <3> HIDE DEF A, K
    <3>11. Len(A) \in Nat /\ Len(K) \in Nat /\ Len(A) <= Len(K) /\ \A q \in 1..Len(A) : A[q] = K[q]
      BY <2>t, <3>7, <3>8 DEF Begins
    <3>12. ~(k <= Len(A))
      <4>1. ASSUME k <= Len(A) PROVE FALSE
        <5>1. k \in 1..Len(A)
          BY <3>11, <4>1
        <5>2. K[k] \in own
          BY <3>4, <3>5, <3>8, <3>11, <5>1
        <5> QED
          BY <2>o, <5>2
      <4> QED
        BY <4>1
    <3>13. l \in 1..Len(K) /\ l <= k /\ K[l] = x
      BY <3>10, <3>11, <3>12
    <3> QED
      BY <3>13
  <2> HIDE DEF K
  <2> DEFINE fitting == {n \in 1..Len(K) : RecallBlock!Used(SubSeq(K, 1, n)) <= query.budget}
  <2>7. RecallBlock!Lines = IF fitting = {} THEN <<>> ELSE SubSeq(K, 1, RecallBlock!LargestOf(fitting))
    BY <2>1, <2>k DEF RecallBlock!Lines, RecallBlock!FirstLines
  <2>8. CASE fitting = {}
    <3>1. RecallBlock!Lines = <<>>
      BY <2>7, <2>8
    <3>2. {<<>>[i] : i \in DOMAIN <<>>} = {} /\ Len(<<>>) = 0
      OBVIOUS
    <3>3. RecallBlock!Cardinality({}) = 0
      BY FS_EmptySet, RecallCardinality
    <3> QED
      BY <3>1, <3>2, <3>3, Zenon DEF RecallBlock!IsFair
  <2>9. CASE fitting # {}
    <3> DEFINE n == RecallBlock!LargestOf(fitting)
               block == SubSeq(K, 1, n)
               every == {block[i] : i \in DOMAIN block}
    <3>1. n \in fitting
      <4>1. Len(K) \in Nat /\ fitting \in SUBSET (0..Len(K))
        BY <2>t
      <4>2. \E x \in fitting : \A y \in fitting : y <= x
        BY <2>9, <4>1, GreatestNumber
      <4> HIDE DEF fitting
      <4> QED
        BY <4>2, LargestIs
    <3>2. RecallBlock!Lines = block
      BY <2>7, <2>9
    <3>3. n \in 1..Len(K) /\ RecallBlock!Used(block) <= query.budget
      BY <3>1
    <3> HIDE DEF n, fitting
    <3>4. /\ block \in Seq(Nat) /\ Len(block) = n /\ DOMAIN block = 1..n
          /\ \A i \in 1..n : block[i] = K[i] /\ i \in 1..Len(K)
      BY <2>t, <3>3
    <3> HIDE DEF block
    <3>5. Cardinality(every) = Len(block)
      <4>1. \A i, j \in 1..Len(block) : block[i] = block[j] => i = j
        BY <2>t, <3>4
      <4> QED
        BY <3>4, <4>1, MembersOfDistinct
    <3>6. every \subseteq own \/ RecallBlock!Relevant(own) \subseteq every
      <4>1. ASSUME NEW i \in 1..n, block[i] \notin own, NEW x \in RecallBlock!Relevant(own)
            PROVE  x \in every
        <5>1. PICK j \in 1..Len(K) : j <= i /\ K[j] = x
          BY <2>o, <3>4, <4>1
        <5>2. j \in 1..n
          BY <3>3, <4>1, <5>1
        <5> QED
          BY <3>4, <5>1, <5>2
      <4> QED
        BY <3>4, <4>1
    <3>7. RecallBlock!Cardinality(every) = Len(block)
      BY <3>5, RecallCardinality
    <3> QED
      BY <3>2, <3>3, <3>6, <3>7 DEF RecallBlock!IsFair
  <2> QED
    BY <2>8, <2>9
<1> QED
  BY <1>1, <1>2, RecallStep, PTL DEF Spec

-----------------------------------------------------------------------------
(* LiveStream.                                                             *)

ChannelRecords == Seq(Prefixes \X Nat)

RecordsTypeOK ==
  /\ loaded \in [Prefixes -> Nat] /\ count \in [Prefixes -> Nat] /\ watermark \in [Prefixes -> Nat]
  /\ at \in [Prefixes -> {"closed", "opening", "stat", "list", "send"}]
  /\ known \in [Prefixes -> [Prefixes -> Nat]]
  /\ noted \in [Prefixes -> [Prefixes -> Nat \cup {RecordStream!Unknown}]]
  /\ dir \in [Prefixes -> Prefixes] /\ found \in [Prefixes -> Nat]
  /\ wire \in [Prefixes -> ChannelRecords]

Settled(p, n) == <<p, n>> \in shown \cup missed \/ <<p, <<p, n>>>> \in unread
OnWire(p, n) == \E i \in 1..Len(wire[p]) : wire[p][i] = <<p, n>>

\* Records of its own prefix leave a channel in order, and none above known_seq.
WireInOrder(p) ==
  \A i \in 1..Len(wire[p]) : wire[p][i][1] = p =>
    /\ wire[p][i][2] <= known[p][p]
    /\ \A j \in 1..(i - 1) : wire[p][j][1] = p => wire[p][j][2] < wire[p][i][2]

\* The mtime a channel has noted of its own directory is no later than its listing.
Looked(p) ==
  \/ noted[p][p] = RecordStream!Unknown
  \/ noted[p][p] <= known[p][p]
  \/ dir[p] = p /\ at[p] = "list" /\ noted[p][p] <= count[p]
  \/ dir[p] = p /\ at[p] = "send" /\ noted[p][p] <= found[p]

\* Up to known_seq nothing is left to come but what is on the wire, and up to the
\* watermark nothing but what the other channel's events left behind.
Channel(p) ==
  /\ at[p] = "closed" => wire[p] = <<>>
  /\ at[p] = "send" => known[p][dir[p]] < found[p]
  /\ loaded[p] > 0 =>
       /\ watermark[p] > 0 /\ at[p] # "opening"
       /\ \A n \in 1..watermark[p] : Settled(p, n) \/ <<p, n>> \in jumped
       /\ at[p] # "closed" => \A n \in 1..known[p][p] : Settled(p, n) \/ OnWire(p, n)
       /\ WireInOrder(p) /\ Looked(p)

RecordsInv == RecordsTypeOK /\ \A p \in Prefixes : Channel(p)

LEMMA RecordsInit ==
  ASSUME RecordStream!Init
  PROVE  RecordsInv
<1>1. RecordsTypeOK
  BY DEF RecordStream!Init, RecordsTypeOK, ChannelRecords
<1>2. ASSUME NEW p \in Prefixes PROVE Channel(p)
  <2>1. /\ at[p] = "closed" /\ wire[p] = <<>> /\ watermark[p] = loaded[p] /\ noted[p][p] = RecordStream!Unknown
        /\ loaded[p] \in Nat
    BY <1>2 DEF RecordStream!Init
  <2>2. ASSUME NEW n \in 1..loaded[p] PROVE <<p, n>> \in shown
    <3>1. <<p, n>> \in RecordStream!Records(p, 1..loaded[p])
      BY <2>2 DEF RecordStream!Records
    <3> QED
      BY <3>1 DEF RecordStream!Init
  <2> QED
    BY <2>1, <2>2 DEF Channel, WireInOrder, Looked, Settled
<1> QED
  BY <1>1, <1>2 DEF RecordsInv

\* Steps of others: what is settled stays so.
LEMMA ChannelRests ==
  ASSUME NEW p \in Prefixes, RecordsInv, UNCHANGED loaded,
         UNCHANGED <<at[p], known[p], noted[p], dir[p], found[p], wire[p], watermark[p]>>,
         count'[p] \in Nat, count[p] <= count'[p],
         shown \subseteq shown', missed \subseteq missed', unread \subseteq unread', jumped \subseteq jumped'
  PROVE  Channel(p)'
<1>1. /\ Channel(p) /\ count[p] \in Nat /\ found[p] \in Nat /\ known[p] \in [Prefixes -> Nat]
      /\ noted[p] \in [Prefixes -> Nat \cup {RecordStream!Unknown}]
  BY DEF RecordsInv, RecordsTypeOK
<1>2. \A n : Settled(p, n) => Settled(p, n)'
  BY DEF Settled
<1>3. \A n : OnWire(p, n) => OnWire(p, n)'
  BY DEF OnWire
<1>4. WireInOrder(p) => WireInOrder(p)'
  BY DEF WireInOrder
<1>5. Looked(p) => Looked(p)'
  BY <1>1 DEF Looked, RecordStream!Unknown
<1> QED
  BY <1>1, <1>2, <1>3, <1>4, <1>5 DEF Channel

LEMMA TailPlaces ==
  ASSUME NEW S, NEW s \in Seq(S), s # <<>>
  PROVE  /\ Head(s) = s[1] /\ Tail(s) \in Seq(S) /\ Len(Tail(s)) = Len(s) - 1
         /\ Len(s) \in Nat /\ Len(s) > 0
         /\ \A i \in 1..(Len(s) - 1) : Tail(s)[i] = s[i + 1]
OBVIOUS

LEMMA FirstOnWire ==
  ASSUME NEW s \in ChannelRecords, s # <<>>
  PROVE  /\ s[1] \in Prefixes \X Nat /\ s[1] = <<s[1][1], s[1][2]>>
         /\ s[1][1] \in Prefixes /\ s[1][2] \in Nat
         /\ Head(s) = s[1] /\ Tail(s) \in ChannelRecords
<1>1. Head(s) = s[1] /\ Tail(s) \in ChannelRecords /\ Len(s) \in Nat /\ Len(s) > 0
  BY TailPlaces DEF ChannelRecords
<1>2. s[1] \in Prefixes \X Nat
  BY <1>1 DEF ChannelRecords
<1> QED
  BY <1>1, <1>2

\* The own channel's event: all before it have come.
LEMMA OwnReceived ==
  ASSUME NEW p \in Prefixes, RecordsInv, RecordStream!Receive(p), wire[p][1][1] = p
  PROVE  Channel(p)'
<1> DEFINE w == wire[p]
<1>a. /\ w # <<>> /\ w \in ChannelRecords /\ watermark[p] \in Nat /\ known[p][p] \in Nat
  BY DEF RecordsInv, RecordsTypeOK, RecordStream!Receive
<1>b. PICK n \in Nat : w[1] = <<p, n>>
  BY <1>a, FirstOnWire
<1>1. /\ w # <<>> /\ w \in ChannelRecords /\ w[1] = <<p, n>> /\ n \in Nat /\ Head(w) = <<p, n>>
      /\ watermark[p] \in Nat /\ known[p][p] \in Nat
  BY <1>a, <1>b, FirstOnWire
<1>2. /\ wire'[p] = Tail(w) /\ watermark'[p] = (IF n > watermark[p] THEN n ELSE watermark[p])
      /\ shown' = shown \cup {<<p, n>>}
      /\ UNCHANGED <<loaded, count, at, known, noted, dir, found, unread, missed, jumped>>
  <2>1. Head(wire[p]) = <<p, n>> /\ wire \in [Prefixes -> ChannelRecords] /\ watermark \in [Prefixes -> Nat]
    BY <1>1 DEF RecordsInv, RecordsTypeOK
  <2> QED
    BY <1>1, <2>1 DEF RecordStream!Receive, RecordStream!NoteSeenRecordId, RecordStream!ApplyLiveRecord
<1>3. /\ Len(Tail(w)) = Len(w) - 1 /\ Len(w) \in Nat /\ Len(w) > 0
      /\ \A i \in 1..(Len(w) - 1) : Tail(w)[i] = w[i + 1]
  BY <1>1, TailPlaces DEF ChannelRecords
<1>4. Channel(p) /\ at[p] # "closed"
  BY <1>1 DEF RecordsInv, Channel
<1>5. \A m : Settled(p, m) => Settled(p, m)'
  BY <1>2 DEF Settled
<1>6. Settled(p, n)'
  BY <1>2 DEF Settled
<1>7. ASSUME loaded[p] > 0, NEW m \in 1..known[p][p]
      PROVE  Settled(p, m)' \/ OnWire(p, m)'
  <2>1. CASE Settled(p, m)
    BY <1>5, <2>1
  <2>2. CASE OnWire(p, m)
    <3>1. PICK i \in 1..Len(w) : w[i] = <<p, m>>
      BY <2>2 DEF OnWire
    <3>2. CASE i = 1
      BY <1>1, <1>6, <3>1, <3>2
    <3>3. CASE i # 1
      <4>1. i - 1 \in 1..(Len(w) - 1) /\ (i - 1) + 1 = i
        BY <1>3, <3>3
      <4>2. Tail(w)[i - 1] = <<p, m>>
        BY <1>3, <3>1, <4>1
      <4> QED
        BY <1>2, <1>3, <4>1, <4>2 DEF OnWire
    <3> QED
      BY <3>2, <3>3
  <2> QED
    BY <1>4, <1>7, <2>1, <2>2 DEF Channel
<1>8. ASSUME loaded[p] > 0, NEW m \in 1..watermark'[p]
      PROVE  Settled(p, m)' \/ <<p, m>> \in jumped
  <2>1. CASE m <= watermark[p]
    BY <1>1, <1>4, <1>5, <1>8, <2>1 DEF Channel
  <2>2. CASE m > watermark[p]
    <3>1. m <= n /\ m \in Nat /\ m > 0
      BY <1>1, <1>2, <1>8, <2>2
    <3>2. n <= known[p][p] /\ WireInOrder(p)
      BY <1>1, <1>3, <1>4, <1>8 DEF Channel, WireInOrder
    <3>3. m \in 1..known[p][p]
      BY <1>1, <3>1, <3>2
    <3>4. CASE m = n
      BY <1>6, <3>4
    <3>5. CASE m < n /\ Settled(p, m)
      BY <1>5, <3>5
    <3>6. CASE m < n /\ OnWire(p, m)
      <4>1. PICK i \in 1..Len(w) : w[i] = <<p, m>>
        BY <3>6 DEF OnWire
      <4>2. i # 1
        BY <1>1, <3>1, <3>6, <4>1
      <4>3. 1 \in 1..(i - 1) /\ w[i][1] = p /\ w[1][1] = p
        BY <1>1, <4>1, <4>2
      <4>4. w[1][2] < w[i][2]
        BY <3>2, <4>1, <4>3 DEF WireInOrder
      <4> QED
        BY <1>1, <3>1, <3>6, <4>1, <4>4
    <3> QED
      BY <1>1, <1>4, <1>8, <3>1, <3>3, <3>4, <3>5, <3>6 DEF Channel
  <2> QED
    BY <1>1, <1>2, <1>8, <2>1, <2>2
<1>9. WireInOrder(p) => WireInOrder(p)'
  <2>1. ASSUME WireInOrder(p), NEW i \in 1..(Len(w) - 1), Tail(w)[i][1] = p
        PROVE  /\ Tail(w)[i][2] <= known[p][p]
               /\ \A j \in 1..(i - 1) : Tail(w)[j][1] = p => Tail(w)[j][2] < Tail(w)[i][2]
    <3>1. i + 1 \in 1..Len(w) /\ Tail(w)[i] = w[i + 1]
      BY <1>3
    <3>2. ASSUME NEW j \in 1..(i - 1) PROVE j + 1 \in 1..((i + 1) - 1) /\ Tail(w)[j] = w[j + 1]
      BY <1>3, <3>2
    <3> QED
      BY <2>1, <3>1, <3>2 DEF WireInOrder
  <2> QED
    BY <1>2, <1>3, <2>1 DEF WireInOrder
<1>10. Looked(p) => Looked(p)'
  BY <1>2 DEF Looked
<1> HIDE DEF w
<1>11. loaded[p] > 0 => watermark'[p] > 0
  BY <1>1, <1>2, <1>4 DEF Channel
<1> QED
  BY <1>2, <1>4, <1>7, <1>8, <1>9, <1>10, <1>11 DEF Channel

\* The other channel's event: it leaves behind what it raises the watermark over.
LEMMA OtherReceived ==
  ASSUME NEW c \in Prefixes, RecordsInv, RecordStream!Receive(c), NEW p \in Prefixes,
         ~(p = c /\ wire[c][1][1] = p)
  PROVE  Channel(p)'
<1> DEFINE w == wire[c]
           q == w[1][1]
           n == w[1][2]
<1>1. /\ w # <<>> /\ w \in ChannelRecords /\ q \in Prefixes /\ n \in Nat
      /\ Head(w) = w[1] /\ wire \in [Prefixes -> ChannelRecords] /\ watermark \in [Prefixes -> Nat]
  <2>1. w # <<>> /\ wire \in [Prefixes -> ChannelRecords] /\ watermark \in [Prefixes -> Nat]
    BY DEF RecordsInv, RecordsTypeOK, RecordStream!Receive
  <2> QED
    BY <2>1, FirstOnWire
<1>2. /\ wire' = [wire EXCEPT ![c] = Tail(w)]
      /\ watermark' = [watermark EXCEPT ![q] = IF n > watermark[q] THEN n ELSE watermark[q]]
      /\ shown' = shown \cup {<<q, n>>}
      /\ jumped' = IF c = q THEN jumped ELSE jumped \cup RecordStream!Records(q, (watermark[q] + 1)..(n - 1))
      /\ UNCHANGED <<loaded, count, at, known, noted, dir, found, unread, missed>>
  BY <1>1 DEF RecordStream!Receive, RecordStream!NoteSeenRecordId, RecordStream!ApplyLiveRecord
<1>3. /\ Len(Tail(w)) = Len(w) - 1 /\ Len(w) \in Nat /\ Len(w) > 0
      /\ \A i \in 1..(Len(w) - 1) : Tail(w)[i] = w[i + 1]
  BY <1>1, TailPlaces DEF ChannelRecords
<1>4. Channel(p) /\ watermark[p] \in Nat /\ known[p][p] \in Nat
  BY DEF RecordsInv, RecordsTypeOK
<1>5. p = c => q # p
  OBVIOUS
<1>6. wire'[p] = IF p = c THEN Tail(w) ELSE wire[p]
  BY <1>1, <1>2
<1>w. p = c => wire[p] = w /\ at[p] # "closed"
  BY <1>1, <1>4 DEF Channel
<1> HIDE DEF w, q, n
<1>7. \A m : Settled(p, m) => Settled(p, m)'
  BY <1>2 DEF Settled
<1>8. ASSUME NEW m, OnWire(p, m) PROVE OnWire(p, m)'
  <2>1. CASE p # c
    BY <1>6, <1>8, <2>1 DEF OnWire
  <2>2. CASE p = c
    <3>1. PICK i \in 1..Len(w) : w[i] = <<p, m>>
      BY <1>8, <1>w, <2>2 DEF OnWire
    <3>2. i # 1
      BY <1>5, <2>2, <3>1 DEF q
    <3>3. i - 1 \in 1..(Len(w) - 1) /\ (i - 1) + 1 = i
      BY <1>3, <3>2
    <3>4. Tail(w)[i - 1] = <<p, m>>
      BY <1>3, <3>1, <3>3
    <3> QED
      BY <1>3, <1>6, <2>2, <3>3, <3>4 DEF OnWire
  <2> QED
    BY <2>1, <2>2
<1>9. WireInOrder(p) => WireInOrder(p)'
  <2>1. CASE p # c
    BY <1>2, <1>6, <2>1 DEF WireInOrder
  <2>2. CASE p = c
    <3>1. ASSUME WireInOrder(p), NEW i \in 1..(Len(w) - 1), Tail(w)[i][1] = p
          PROVE  /\ Tail(w)[i][2] <= known[p][p]
                 /\ \A j \in 1..(i - 1) : Tail(w)[j][1] = p => Tail(w)[j][2] < Tail(w)[i][2]
      <4>1. i + 1 \in 1..Len(w) /\ Tail(w)[i] = w[i + 1]
        BY <1>3
      <4>2. ASSUME NEW j \in 1..(i - 1) PROVE j + 1 \in 1..((i + 1) - 1) /\ Tail(w)[j] = w[j + 1]
        BY <1>3, <4>2
      <4> QED
        BY <1>w, <2>2, <3>1, <4>1, <4>2 DEF WireInOrder
    <3> QED
      BY <1>2, <1>3, <1>6, <2>2, <3>1 DEF WireInOrder
  <2> QED
    BY <2>1, <2>2
<1>10. Looked(p) => Looked(p)'
  BY <1>2 DEF Looked
<1>11. ASSUME NEW m \in 1..watermark'[p], loaded[p] > 0
       PROVE  Settled(p, m)' \/ <<p, m>> \in jumped'
  <2>1. CASE m <= watermark[p]
    <3>1. m \in 1..watermark[p]
      BY <1>4, <1>11, <2>1
    <3>2. jumped \subseteq jumped'
      BY <1>2
    <3> QED
      BY <1>4, <1>7, <1>11, <3>1, <3>2 DEF Channel
  <2>2. CASE ~(m <= watermark[p])
    <3>1. q = p /\ m <= n /\ watermark'[p] = n
      BY <1>1, <1>2, <1>4, <1>11, <2>2
    <3>2. c # q
      BY <1>5, <3>1
    <3>3. CASE m = n
      BY <1>2, <3>1, <3>3 DEF Settled
    <3>4. CASE m # n
      <4>1. m \in (watermark[p] + 1)..(n - 1)
        BY <1>1, <1>4, <1>11, <2>2, <3>1, <3>4
      <4>2. <<p, m>> \in RecordStream!Records(q, (watermark[q] + 1)..(n - 1))
        BY <3>1, <4>1 DEF RecordStream!Records
      <4> QED
        BY <1>2, <3>2, <4>2
    <3> QED
      BY <3>3, <3>4
  <2> QED
    BY <2>1, <2>2
<1>12. loaded[p] > 0 => watermark'[p] > 0
  BY <1>1, <1>2, <1>4 DEF Channel
<1>13. at'[p] = "closed" => wire'[p] = <<>>
  BY <1>2, <1>4, <1>6, <1>w DEF Channel
<1> QED
  BY <1>2, <1>4, <1>7, <1>8, <1>9, <1>10, <1>11, <1>12, <1>13 DEF Channel

\* Opening a channel: what the watermark passed over is missed.
LEMMA ChannelOpened ==
  ASSUME NEW p \in Prefixes, RecordsInv, RecordStream!OpenSince(p)
  PROVE  Channel(p)'
<1>1. /\ watermark[p] > 0 /\ at[p] = "closed" /\ at' = [at EXCEPT ![p] = "stat"]
      /\ known' = [known EXCEPT ![p] = [count EXCEPT ![p] = watermark[p]]]
      /\ noted' = [noted EXCEPT ![p] = [q \in Prefixes |-> RecordStream!Unknown]]
      /\ missed' = missed \cup ((RecordStream!Records(p, 1..watermark[p]) \cap jumped) \ shown)
      /\ UNCHANGED <<loaded, count, dir, found, wire, unread, watermark, shown, jumped>>
  BY DEF RecordStream!OpenSince
<1>2. /\ Channel(p) /\ at \in [Prefixes -> {"closed", "opening", "stat", "list", "send"}]
      /\ known \in [Prefixes -> [Prefixes -> Nat]] /\ count \in [Prefixes -> Nat] /\ DOMAIN noted = Prefixes
  BY DEF RecordsInv, RecordsTypeOK
<1>3. at'[p] = "stat" /\ known'[p][p] = watermark[p] /\ noted'[p][p] = RecordStream!Unknown /\ wire[p] = <<>>
  BY <1>1, <1>2 DEF Channel
<1>4. \A n : Settled(p, n) => Settled(p, n)'
  BY <1>1 DEF Settled
<1>5. ASSUME NEW n \in 1..watermark[p], loaded[p] > 0 PROVE Settled(p, n)'
  <2>1. CASE Settled(p, n)
    BY <1>4, <2>1
  <2>2. CASE <<p, n>> \in jumped
    <3>1. <<p, n>> \in RecordStream!Records(p, 1..watermark[p])
      BY DEF RecordStream!Records
    <3> QED
      BY <1>1, <2>2, <3>1 DEF Settled
  <2> QED
    BY <1>2, <1>5, <2>1, <2>2 DEF Channel
<1>6. WireInOrder(p)' /\ Looked(p)'
  BY <1>1, <1>3 DEF WireInOrder, Looked
<1> QED
  BY <1>1, <1>3, <1>5, <1>6 DEF Channel

\* Looking at the directories.
LEMMA ChannelLooks ==
  ASSUME NEW p \in Prefixes, RecordsInv,
         \/ RecordStream!List(p)
         \/ \E q \in Prefixes : RecordStream!Stat(p, q)
         \/ RecordStream!OpenFresh(p) \/ RecordStream!NoteMtimes(p)
  PROVE  Channel(p)'
<1>1. /\ Channel(p) /\ at \in [Prefixes -> {"closed", "opening", "stat", "list", "send"}]
      /\ known \in [Prefixes -> [Prefixes -> Nat]] /\ count \in [Prefixes -> Nat] /\ watermark[p] \in Nat
      /\ noted \in [Prefixes -> [Prefixes -> Nat \cup {RecordStream!Unknown}]]
      /\ dir \in [Prefixes -> Prefixes] /\ found \in [Prefixes -> Nat] /\ loaded[p] \in Nat
  BY DEF RecordsInv, RecordsTypeOK
<1>2. /\ UNCHANGED <<loaded, count, wire, unread, watermark, shown, jumped, missed>>
      /\ at[p] # "closed" => at'[p] # "closed"
  BY <1>1 DEF RecordStream!List, RecordStream!Stat, RecordStream!OpenFresh, RecordStream!NoteMtimes, RecordStream!page
<1>3. \A n : (Settled(p, n) => Settled(p, n)') /\ (OnWire(p, n) => OnWire(p, n)')
  BY <1>2 DEF Settled, OnWire
<1>4. CASE loaded[p] = 0
  <2>1. at'[p] = "closed" => wire'[p] = <<>>
    BY <1>1, <1>2 DEF Channel, RecordStream!List, RecordStream!Stat, RecordStream!OpenFresh, RecordStream!NoteMtimes
  <2>2. at'[p] = "send" => known'[p][dir'[p]] < found'[p]
    BY <1>1 DEF RecordStream!List, RecordStream!Stat, RecordStream!OpenFresh, RecordStream!NoteMtimes
  <2> QED
    BY <1>2, <1>4, <2>1, <2>2 DEF Channel
<1>5. CASE loaded[p] # 0 /\ RecordStream!List(p)
  <2>1. /\ at[p] = "list" /\ UNCHANGED <<known, noted, dir>>
        /\ found'[p] = count[dir[p]] /\ count[dir[p]] \in Nat /\ known[p][dir[p]] \in Nat
        /\ at'[p] = IF count[dir[p]] > known[p][dir[p]] THEN "send" ELSE "stat"
    BY <1>1, <1>5 DEF RecordStream!List
  <2>2. Looked(p) /\ WireInOrder(p) /\ noted[p][p] \in Nat \cup {RecordStream!Unknown}
    BY <1>1, <1>5 DEF Channel
  <2>3. Looked(p)'
    BY <1>1, <1>2, <2>1, <2>2 DEF Looked, RecordStream!Unknown
  <2>4. WireInOrder(p)'
    BY <1>2, <2>1, <2>2 DEF WireInOrder
  <2> QED
    BY <1>1, <1>2, <1>3, <1>5, <2>1, <2>3, <2>4 DEF Channel
<1>6. CASE loaded[p] # 0 /\ \E q \in Prefixes : RecordStream!Stat(p, q)
  <2>1. PICK q \in Prefixes : RecordStream!Stat(p, q)
    BY <1>6
  <2>2. /\ at[p] = "stat" /\ at'[p] = "list" /\ dir'[p] = q /\ UNCHANGED <<known, found>>
        /\ noted'[p][p] = IF q = p THEN count[p] ELSE noted[p][p]
    BY <1>1, <2>1 DEF RecordStream!Stat
  <2>p. loaded[p] > 0 /\ count[p] \in Nat
    BY <1>1, <1>6
  <2>3. Looked(p) /\ WireInOrder(p) /\ count[p] \in Nat
    BY <1>1, <2>p DEF Channel
  <2>4. Looked(p)'
    BY <1>2, <2>2, <2>3 DEF Looked
  <2>5. WireInOrder(p)'
    BY <1>2, <2>2, <2>3 DEF WireInOrder
  <2> QED
    BY <1>1, <1>2, <1>3, <1>6, <2>2, <2>4, <2>5 DEF Channel
<1>7. CASE loaded[p] # 0 /\ (RecordStream!OpenFresh(p) \/ RecordStream!NoteMtimes(p))
  BY <1>1, <1>7 DEF Channel, RecordStream!OpenFresh, RecordStream!NoteMtimes
<1> QED
  BY <1>4, <1>5, <1>6, <1>7

\* A record is sent or cannot be read; known_seq goes up by one.
LEMMA ChannelSends ==
  ASSUME NEW p \in Prefixes, RecordsInv, RecordStream!Send(p)
  PROVE  Channel(p)'
<1>q. PICK q \in Prefixes : q = dir[p]
  BY DEF RecordsInv, RecordsTypeOK
<1>n. PICK n \in Nat : n = known[p][q] + 1
  BY DEF RecordsInv, RecordsTypeOK
<1>1. /\ Channel(p) /\ at \in [Prefixes -> {"closed", "opening", "stat", "list", "send"}]
      /\ known \in [Prefixes -> [Prefixes -> Nat]] /\ watermark[p] \in Nat
      /\ noted[p][p] \in Nat \cup {RecordStream!Unknown} /\ wire \in [Prefixes -> ChannelRecords]
      /\ q \in Prefixes /\ found[p] \in Nat /\ loaded[p] \in Nat
  BY DEF RecordsInv, RecordsTypeOK
<1>2. /\ at[p] = "send" /\ known' = [known EXCEPT ![p][q] = n]
      /\ \/ wire' = [wire EXCEPT ![p] = Append(@, <<q, n>>)] /\ unread' = unread
         \/ unread' = unread \cup {<<p, <<q, n>>>>} /\ wire' = wire
      /\ at' = [at EXCEPT ![p] = IF n = found[p] THEN "stat" ELSE "send"]
      /\ UNCHANGED <<loaded, count, noted, dir, found, watermark, shown, jumped, missed>>
  BY <1>q, <1>n DEF RecordStream!Send, RecordStream!page
<1>3. /\ known[p][q] \in Nat /\ known[p][p] \in Nat /\ n \in Nat /\ n <= found[p]
      /\ known'[p][q] = n /\ known'[p][p] = (IF q = p THEN n ELSE known[p][p])
  BY <1>1, <1>2, <1>q, <1>n DEF Channel
<1>4. at'[p] = (IF n = found[p] THEN "stat" ELSE "send") /\ dir'[p] = q
  BY <1>1, <1>2, <1>q
<1> DEFINE w == wire[p]
<1>5. /\ w \in ChannelRecords
      /\ \/ wire'[p] = Append(w, <<q, n>>) /\ unread' = unread
         \/ unread' = unread \cup {<<p, <<q, n>>>>} /\ wire'[p] = w
  BY <1>1, <1>2
<1>a. /\ Len(w) \in Nat /\ Len(Append(w, <<q, n>>)) = Len(w) + 1
      /\ \A i \in 1..Len(w) : Append(w, <<q, n>>)[i] = w[i]
      /\ Append(w, <<q, n>>)[Len(w) + 1] = <<q, n>>
  BY <1>5 DEF ChannelRecords
<1>w. w = wire[p]
  OBVIOUS
<1> HIDE DEF w
<1>6. \A m : Settled(p, m) => Settled(p, m)'
  BY <1>2 DEF Settled
<1>7. \A m : OnWire(p, m) => OnWire(p, m)'
  <2>1. ASSUME NEW m, NEW i \in 1..Len(w), w[i] = <<p, m>> PROVE OnWire(p, m)'
    <3>1. CASE wire'[p] = w
      BY <2>1, <3>1 DEF OnWire
    <3>2. CASE wire'[p] = Append(w, <<q, n>>)
      <4>1. i \in 1..(Len(w) + 1)
        BY <1>a
      <4> QED
        BY <1>a, <2>1, <3>2, <4>1 DEF OnWire
    <3> QED
      BY <1>5, <3>1, <3>2
  <2> QED
    BY <1>w, <2>1 DEF OnWire
<1>8. q = p => Settled(p, n)' \/ OnWire(p, n)'
  <2>1. CASE wire'[p] = Append(w, <<q, n>>)
    <3>1. Len(w) + 1 \in 1..(Len(w) + 1)
      BY <1>a
    <3> QED
      BY <1>a, <2>1, <3>1 DEF OnWire
  <2>2. CASE unread' = unread \cup {<<p, <<q, n>>>>}
    BY <2>2 DEF Settled
  <2> QED
    BY <1>5, <2>1, <2>2
<1>9. ASSUME loaded[p] > 0, NEW m \in 1..known'[p][p]
      PROVE  Settled(p, m)' \/ OnWire(p, m)'
  <2>1. CASE m \in 1..known[p][p]
    BY <1>1, <1>2, <1>6, <1>7, <1>9, <2>1 DEF Channel
  <2>2. CASE m \notin 1..known[p][p]
    <3>1. q = p /\ m = n
      BY <1>3, <1>n, <1>9, <2>2
    <3> QED
      BY <1>8, <3>1
  <2> QED
    BY <2>1, <2>2
<1>10. WireInOrder(p) => WireInOrder(p)'
  <2>0. known[p][p] <= known'[p][p]
    BY <1>3, <1>n
  <2>1. ASSUME WireInOrder(p), NEW i \in 1..Len(w), w[i][1] = p
        PROVE  /\ w[i][2] <= known'[p][p]
               /\ \A j \in 1..(i - 1) : w[j][1] = p => w[j][2] < w[i][2]
    <3>1. w[i][2] \in Nat
      BY <1>5, <2>1 DEF ChannelRecords
    <3> QED
      BY <1>3, <1>w, <2>0, <2>1, <3>1 DEF WireInOrder
  <2>2. CASE wire'[p] = w
    BY <2>1, <2>2 DEF WireInOrder
  <2>3. CASE wire'[p] = Append(w, <<q, n>>)
    <3>1. ASSUME WireInOrder(p), q = p, NEW j \in 1..Len(w), w[j][1] = p PROVE w[j][2] < n
      <4>1. w[j][2] \in Nat /\ w[j][2] <= known[p][p]
        BY <1>5, <1>w, <3>1 DEF ChannelRecords, WireInOrder
      <4> QED
        BY <1>3, <1>n, <3>1, <4>1
    <3> DEFINE a == Append(w, <<q, n>>)
    <3>2. /\ Len(a) = Len(w) + 1 /\ Len(w) \in Nat /\ a[Len(w) + 1] = <<q, n>>
          /\ \A i \in 1..Len(w) : a[i] = w[i]
      BY <1>a
    <3> HIDE DEF a
    <3>3. ASSUME WireInOrder(p), NEW i \in 1..Len(a), a[i][1] = p
          PROVE  /\ a[i][2] <= known'[p][p]
                 /\ \A j \in 1..(i - 1) : a[j][1] = p => a[j][2] < a[i][2]
      <4>1. CASE i \in 1..Len(w)
        <5>1. \A j \in 1..(i - 1) : j \in 1..Len(w)
          BY <3>2, <4>1
        <5> QED
          BY <2>1, <3>2, <3>3, <4>1, <5>1
      <4>2. CASE i \notin 1..Len(w)
        <5>1. i = Len(w) + 1
          BY <3>2, <3>3, <4>2
        <5>2. q = p /\ a[i][2] = n /\ \A j \in 1..(i - 1) : j \in 1..Len(w)
          BY <3>2, <3>3, <5>1
        <5> QED
          BY <1>3, <3>1, <3>2, <3>3, <5>2
      <4> QED
        BY <4>1, <4>2
    <3>4. wire'[p] = a
      BY <2>3 DEF a
    <3> QED
      BY <3>3, <3>4 DEF WireInOrder
  <2> QED
    BY <1>5, <2>2, <2>3
<1>11. Looked(p) => Looked(p)'
  BY <1>1, <1>2, <1>3, <1>4, <1>n, <1>q DEF Looked, RecordStream!Unknown
<1>12. at'[p] = "send" => known'[p][dir'[p]] < found'[p]
  BY <1>1, <1>2, <1>3, <1>4
<1> QED
  BY <1>1, <1>2, <1>4, <1>6, <1>9, <1>10, <1>11, <1>12 DEF Channel

LEMMA RecordsTypesStay ==
  ASSUME RecordsTypeOK, RecordStream!Next
  PROVE  RecordsTypeOK'
<1> USE DEF RecordsTypeOK
<1>1. ASSUME NEW p \in Prefixes, RecordStream!CreateRecord(p) PROVE RecordsTypeOK'
  BY <1>1 DEF RecordStream!CreateRecord, RecordStream!stream, RecordStream!page
<1>2. ASSUME NEW c \in Prefixes, RecordStream!OpenSince(c) PROVE RecordsTypeOK'
  BY <1>2 DEF RecordStream!OpenSince
<1>3. ASSUME NEW c \in Prefixes, RecordStream!OpenFresh(c) PROVE RecordsTypeOK'
  BY <1>3 DEF RecordStream!OpenFresh, RecordStream!page
<1>9. ASSUME NEW c \in Prefixes, RecordStream!NoteMtimes(c) PROVE RecordsTypeOK'
  <2>1. count \in [Prefixes -> Nat \cup {RecordStream!Unknown}]
    OBVIOUS
  <2>2. noted' = [noted EXCEPT ![c] = count] /\ at' = [at EXCEPT ![c] = "stat"]
    BY <1>9 DEF RecordStream!NoteMtimes
  <2> QED
    BY <1>9, <2>1, <2>2 DEF RecordStream!NoteMtimes, RecordStream!page
<1>4. ASSUME NEW c \in Prefixes, NEW p \in Prefixes, RecordStream!Stat(c, p) PROVE RecordsTypeOK'
  BY <1>4 DEF RecordStream!Stat, RecordStream!page
<1>5. ASSUME NEW c \in Prefixes, RecordStream!List(c) PROVE RecordsTypeOK'
  BY <1>5 DEF RecordStream!List, RecordStream!page
<1>6. ASSUME NEW c \in Prefixes, RecordStream!Send(c) PROVE RecordsTypeOK'
  <2> DEFINE p == dir[c]
             n == known[c][p] + 1
  <2>1. p \in Prefixes /\ n \in Nat
    OBVIOUS
  <2>2. /\ known' = [known EXCEPT ![c][p] = n]
        /\ wire' = [wire EXCEPT ![c] = Append(@, <<p, n>>)] \/ wire' = wire
        /\ at' = [at EXCEPT ![c] = IF n = found[c] THEN "stat" ELSE "send"]
        /\ UNCHANGED <<loaded, count, noted, dir, found, watermark>>
    BY <1>6 DEF RecordStream!Send, RecordStream!page
  <2>3. Append(wire[c], <<p, n>>) \in ChannelRecords
    BY <2>1 DEF ChannelRecords
  <2> HIDE DEF p, n
  <2>4. known' \in [Prefixes -> [Prefixes -> Nat]]
    BY <2>1, <2>2
  <2>5. wire' \in [Prefixes -> ChannelRecords]
    BY <2>2, <2>3
  <2>6. at' \in [Prefixes -> {"closed", "opening", "stat", "list", "send"}]
    BY <2>2
  <2> QED
    BY <2>2, <2>4, <2>5, <2>6
<1>7. ASSUME NEW c \in Prefixes, RecordStream!Receive(c) PROVE RecordsTypeOK'
  <2>1. wire[c] \in ChannelRecords /\ wire[c] # <<>>
    BY <1>7 DEF RecordStream!Receive
  <2>2. Head(wire[c])[1] \in Prefixes /\ Head(wire[c])[2] \in Nat /\ Tail(wire[c]) \in ChannelRecords
    BY <2>1, FirstOnWire
  <2> QED
    BY <1>7, <2>2 DEF RecordStream!Receive, RecordStream!NoteSeenRecordId
<1>8. ASSUME NEW c \in Prefixes, RecordStream!Drop(c) PROVE RecordsTypeOK'
  <2>1. <<>> \in ChannelRecords
    BY DEF ChannelRecords
  <2> QED
    BY <1>8, <2>1 DEF RecordStream!Drop, RecordStream!page
<1> HIDE DEF RecordsTypeOK
<1> QED
  BY <1>1, <1>2, <1>3, <1>4, <1>5, <1>6, <1>7, <1>8, <1>9 DEF RecordStream!Next, RecordStream!Serve

LEMMA RecordsStep ==
  ASSUME RecordsInv, RecordStream!Next
  PROVE  RecordsInv'
<1>1. RecordsTypeOK'
  BY RecordsTypesStay DEF RecordsInv
<1>2. ASSUME NEW p \in Prefixes PROVE Channel(p)'
  <2>1. ASSUME NEW q \in Prefixes, RecordStream!CreateRecord(q) PROVE Channel(p)'
    <3>1. count'[p] \in Nat /\ count[p] <= count'[p]
      BY <2>1 DEF RecordsInv, RecordsTypeOK, RecordStream!CreateRecord
    <3> QED
      BY <2>1, <3>1, ChannelRests DEF RecordStream!CreateRecord, RecordStream!stream, RecordStream!page
  <2>2. ASSUME NEW c \in Prefixes, c # p,
               \/ RecordStream!OpenSince(c) \/ RecordStream!OpenFresh(c) \/ RecordStream!NoteMtimes(c)
               \/ (\E q \in Prefixes : RecordStream!Stat(c, q))
               \/ RecordStream!List(c) \/ RecordStream!Send(c) \/ RecordStream!Drop(c)
        PROVE  Channel(p)'
    <3>1. /\ UNCHANGED <<loaded, count, shown, jumped, watermark>>
          /\ missed \subseteq missed' /\ unread \subseteq unread'
          /\ count[p] \in Nat
      BY <2>2 DEF RecordsInv, RecordsTypeOK, RecordStream!OpenSince, RecordStream!OpenFresh, RecordStream!NoteMtimes,
                  RecordStream!Stat, RecordStream!List, RecordStream!Send, RecordStream!Drop, RecordStream!page
    <3>2. UNCHANGED <<at[p], known[p], noted[p], dir[p], found[p], wire[p]>>
      BY <2>2 DEF RecordsInv, RecordsTypeOK, RecordStream!OpenSince, RecordStream!OpenFresh, RecordStream!NoteMtimes,
                  RecordStream!Stat, RecordStream!List, RecordStream!Send, RecordStream!Drop
    <3> QED
      BY <3>1, <3>2, ChannelRests
  <2>3. ASSUME RecordStream!Drop(p) PROVE Channel(p)'
    <3>1. /\ at'[p] = "closed" /\ wire'[p] = <<>> /\ noted'[p][p] = RecordStream!Unknown
          /\ UNCHANGED <<loaded, count, unread, watermark, shown, jumped, missed>>
      BY <2>3 DEF RecordsInv, RecordsTypeOK, RecordStream!Drop, RecordStream!page
    <3>2. \A n : Settled(p, n) => Settled(p, n)'
      BY <3>1 DEF Settled
    <3>3. WireInOrder(p)' /\ Looked(p)'
      BY <3>1 DEF WireInOrder, Looked
    <3> QED
      BY <3>1, <3>2, <3>3 DEF RecordsInv, Channel
  <2>4. ASSUME NEW c \in Prefixes, RecordStream!Receive(c) PROVE Channel(p)'
    BY <2>4, OwnReceived, OtherReceived
  <2> QED
    BY <2>1, <2>2, <2>3, <2>4, ChannelOpened, ChannelLooks, ChannelSends DEF RecordStream!Next, RecordStream!Serve
<1> QED
  BY <1>1, <1>2 DEF RecordsInv

LEMMA RecordsRest ==
  ASSUME RecordsInv, UNCHANGED recordStreamVars
  PROVE  RecordsInv'
<1>1. UNCHANGED <<loaded, count, at, known, noted, dir, found, wire, watermark, unread, shown, jumped, missed>>
  BY DEF recordStreamVars
<1>2. RecordsTypeOK'
  BY <1>1 DEF RecordsInv, RecordsTypeOK
<1>3. ASSUME NEW p \in Prefixes PROVE Channel(p)'
  <2>1. count'[p] \in Nat /\ count[p] <= count'[p]
    BY <1>1 DEF RecordsInv, RecordsTypeOK
  <2> QED
    BY <1>1, <2>1, ChannelRests
<1> QED
  BY <1>2, <1>3 DEF RecordsInv

LEMMA RecordsPromise ==
  ASSUME RecordsInv
  PROVE  EveryRecordShown
<1>1. SUFFICES ASSUME RecordStream!AtRest, NEW r \in RecordStream!Expected
               PROVE  r \in shown \cup RecordStream!GivenUp
  BY DEF EveryRecordShown, RecordStream!EveryRecordShown
<1>a. PICK p \in Prefixes : loaded[p] > 0 /\ r \in RecordStream!Records(p, 1..count[p])
  BY DEF RecordStream!Expected
<1>2. PICK n \in 1..count[p] : loaded[p] > 0 /\ r = <<p, n>>
  BY <1>a DEF RecordStream!Records
<1>3. /\ at[p] = "stat" /\ noted[p] = count /\ wire[p] = <<>> /\ count[p] \in Nat /\ known[p][p] \in Nat
      /\ Channel(p)
  BY <1>1 DEF RecordStream!AtRest, RecordsInv, RecordsTypeOK
<1>4. n \in 1..known[p][p]
  BY <1>2, <1>3 DEF Channel, Looked, RecordStream!Unknown
<1>5. Settled(p, n) /\ ~OnWire(p, n)
  <2>1. ~OnWire(p, n)
    BY <1>3 DEF OnWire
  <2> QED
    BY <1>2, <1>3, <1>4, <2>1 DEF Channel
<1> QED
  BY <1>1, <1>2, <1>5 DEF Settled, RecordStream!GivenUp

\* Whatever is created, cannot be read, is delivered by which channel and lost with its
\* connection: a dashboard whose channels have come to rest shows every record but those
\* given up (live.py, _record_stream_events; app.jsx, useLiveRecordStream).
THEOREM EveryRecordShownHolds == Spec => []EveryRecordShown
<1>1. Init => RecordsInv
  BY RecordsInit DEF Init
<1>2. RecordsInv /\ [Next]_vars => RecordsInv'
  BY StepOfPart, RecordsStep, RecordsRest
<1>3. RecordsInv => EveryRecordShown
  BY RecordsPromise
<1> QED
  BY <1>1, <1>2, <1>3, PTL DEF Spec

-----------------------------------------------------------------------------
(* TranscriptIndex.                                                        *)

LEMMA PassageTypes ==
  /\ Transcripts \subseteq Nat /\ IsFiniteSet(Transcripts) /\ FirstLengths \subseteq Nat
  /\ Window \in Nat \ {0} /\ KeptMessages \in Nat /\ MaxPassages \in Nat /\ MaxIndexings \in Nat
BY PassageAssumption

LEMMA PassageCardinality == \A S : Passages!Cardinality(S) = Cardinality(S)
BY DEF Passages!Cardinality, Cardinality

\* Division by a window rounds down.
LEMMA Quotient ==
  ASSUME NEW n \in Nat, NEW w \in Nat \ {0}
  PROVE  n \div w \in Nat /\ (n \div w) * w <= n /\ n < (n \div w) * w + w
OBVIOUS

LEMMA TimesNext ==
  ASSUME NEW i \in Nat, NEW w \in Nat
  PROVE  (i + 1) * w = i * w + w
OBVIOUS

LEMMA QuotientGrows ==
  ASSUME NEW m \in Nat, NEW n \in Nat, m <= n, NEW w \in Nat \ {0}
  PROVE  m \div w <= n \div w
<1> DEFINE a == m \div w
           b == n \div w
<1>1. a \in Nat /\ b \in Nat /\ a * w <= m /\ n < b * w + w
  BY Quotient
<1> HIDE DEF a, b
<1>2. ASSUME b + 1 <= a PROVE FALSE
  <2>1. (b + 1) * w <= a * w /\ (b + 1) * w = b * w + w /\ a * w \in Nat /\ b * w \in Nat
    BY <1>1, <1>2, TimesGrows, TimesNext
  <2> QED
    BY <1>1, <2>1
<1>3. a <= b
  BY <1>1, <1>2
<1> QED
  BY <1>3 DEF a, b

Messages == Seq(Utterances)
WindowCount(m) == (Len(m) + Window - 1) \div Window
WindowEnd(m, i) == IF i * Window < Len(m) THEN i * Window ELSE Len(m)

LEMMA WindowsParts ==
  ASSUME NEW m \in Messages
  PROVE  /\ WindowCount(m) \in Nat /\ DOMAIN Passages!Windows(m) = 1..WindowCount(m)
         /\ Len(Passages!Windows(m)) = WindowCount(m)
         /\ \A i \in 1..WindowCount(m) :
              /\ Passages!Windows(m)[i] = SubSeq(m, (i - 1) * Window + 1, WindowEnd(m, i))
              /\ (i - 1) * Window \in Nat /\ WindowEnd(m, i) \in 0..Len(m)
              /\ Passages!Windows(m)[i] \in Messages
<1>1. Len(m) \in Nat /\ Len(m) + Window - 1 \in Nat
  BY PassageTypes DEF Messages
<1>2. WindowCount(m) \in Nat
  BY <1>1, Quotient, PassageTypes DEF WindowCount
<1>3. Passages!Windows(m) = [i \in 1..WindowCount(m) |-> SubSeq(m, (i - 1) * Window + 1, WindowEnd(m, i))]
  BY DEF Passages!Windows, WindowCount, WindowEnd
<1>4. ASSUME NEW i \in 1..WindowCount(m)
      PROVE  (i - 1) * Window \in Nat /\ WindowEnd(m, i) \in 0..Len(m)
  <2>1. i - 1 \in Nat /\ i \in Nat /\ i - 1 <= i /\ Window \in Nat
    BY <1>2, PassageTypes
  <2>2. (i - 1) * Window \in Nat /\ i * Window \in Nat
    BY <2>1, TimesGrows
  <2> QED
    BY <1>1, <2>2 DEF WindowEnd
<1>5. ASSUME NEW a \in Nat, NEW b \in 0..Len(m) PROVE SubSeq(m, a + 1, b) \in Messages
  BY <1>1, <1>5 DEF Messages
<1>6. ASSUME NEW i \in 1..WindowCount(m) PROVE Passages!Windows(m)[i] \in Messages
  BY <1>3, <1>4, <1>5
<1>7. DOMAIN Passages!Windows(m) = 1..WindowCount(m) /\ Len(Passages!Windows(m)) = WindowCount(m)
  BY <1>2, <1>3
<1> QED
  BY <1>2, <1>3, <1>4, <1>6, <1>7

\* A cut of a beginning begins with the same cut.
LEMMA CutsGrow ==
  ASSUME NEW m \in Messages, NEW n \in Messages, Begins(m, n),
         NEW a \in Nat, NEW b \in 0..Len(m), NEW c \in 0..Len(n), b <= c
  PROVE  Begins(SubSeq(m, a + 1, b), SubSeq(n, a + 1, c))
<1>1. Len(m) \in Nat /\ Len(n) \in Nat /\ Len(m) <= Len(n) /\ \A i \in 1..Len(m) : m[i] = n[i]
  BY DEF Begins, Messages
<1>2. CASE b < a + 1
  <2>1. Len(SubSeq(m, a + 1, b)) = 0 /\ Len(SubSeq(n, a + 1, c)) \in Nat
    BY <1>1, <1>2 DEF Messages
  <2> QED
    BY <2>1 DEF Begins
<1>3. CASE b >= a + 1
  <2>1. /\ Len(SubSeq(m, a + 1, b)) = b - a /\ Len(SubSeq(n, a + 1, c)) = c - a
        /\ \A i \in 1..(b - a) : SubSeq(m, a + 1, b)[i] = m[a + i]
        /\ \A i \in 1..(c - a) : SubSeq(n, a + 1, c)[i] = n[a + i]
    <3>1. ASSUME NEW s \in Messages, NEW d \in 0..Len(s), a + 1 <= d
          PROVE  /\ Len(SubSeq(s, a + 1, d)) = d - a
                 /\ \A i \in 1..(d - a) : SubSeq(s, a + 1, d)[i] = s[a + i]
      <4>1. SubSeq(s, a + 1, d) = [i \in 1..(1 + d - (a + 1)) |-> s[i + (a + 1) - 1]]
        BY <3>1
      <4>2. 1 + d - (a + 1) = d - a /\ d - a \in Nat /\ \A i \in 1..(d - a) : i + (a + 1) - 1 = a + i
        BY <3>1 DEF Messages
      <4> QED
        BY <4>1, <4>2
    <3>2. a + 1 <= c
      BY <1>1, <1>3
    <3> QED
      BY <1>3, <3>1, <3>2
  <2>2. \A i \in 1..(b - a) : i \in 1..(c - a) /\ a + i \in 1..Len(m)
    BY <1>1, <1>3
  <2> QED
    BY <1>1, <2>1, <2>2 DEF Begins
<1> QED
  BY <1>1, <1>2, <1>3

\* The windows of a transcript stay, the last one grows.
LEMMA WindowsGrow ==
  ASSUME NEW m \in Messages, NEW n \in Messages, Begins(m, n), NEW i \in 1..WindowCount(m)
  PROVE  i \in 1..WindowCount(n) /\ Begins(Passages!Windows(m)[i], Passages!Windows(n)[i])
<1>1. Len(m) \in Nat /\ Len(n) \in Nat /\ Len(m) <= Len(n) /\ Window \in Nat \ {0}
  BY PassageTypes DEF Begins, Messages
<1>2. WindowCount(m) <= WindowCount(n) /\ WindowCount(m) \in Nat /\ WindowCount(n) \in Nat
  <2>1. Len(m) + Window - 1 \in Nat /\ Len(n) + Window - 1 \in Nat /\ Len(m) + Window - 1 <= Len(n) + Window - 1
    BY <1>1
  <2> QED
    BY <1>1, <2>1, QuotientGrows, WindowsParts DEF WindowCount
<1>3. i \in 1..WindowCount(n)
  BY <1>2
<1>4. /\ (i - 1) * Window \in Nat /\ WindowEnd(m, i) \in 0..Len(m) /\ WindowEnd(n, i) \in 0..Len(n)
      /\ Passages!Windows(m)[i] = SubSeq(m, (i - 1) * Window + 1, WindowEnd(m, i))
      /\ Passages!Windows(n)[i] = SubSeq(n, (i - 1) * Window + 1, WindowEnd(n, i))
  BY <1>3, WindowsParts
<1>5. WindowEnd(m, i) <= WindowEnd(n, i)
  <2>1. i * Window \in Nat
    BY <1>1, <1>2, TimesGrows
  <2> QED
    BY <1>1, <2>1 DEF WindowEnd
<1> DEFINE a == (i - 1) * Window
           b == WindowEnd(m, i)
           c == WindowEnd(n, i)
<1>6. a \in Nat /\ b \in 0..Len(m) /\ c \in 0..Len(n) /\ b <= c
  BY <1>4, <1>5
<1>7. Passages!Windows(m)[i] = SubSeq(m, a + 1, b) /\ Passages!Windows(n)[i] = SubSeq(n, a + 1, c)
  BY <1>4
<1> HIDE DEF a, b, c
<1> QED
  BY <1>3, <1>6, <1>7, CutsGrow

LEMMA KeptTypes ==
  ASSUME NEW m \in Messages
  PROVE  Passages!Kept(m) \in Messages /\ Begins(Passages!Kept(m), m)
<1> DEFINE n == IF KeptMessages < Len(m) THEN KeptMessages ELSE Len(m)
<1>1. n \in Nat /\ n <= Len(m) /\ Len(m) \in Nat
  BY PassageTypes DEF Messages
<1>2. Passages!Kept(m) = SubSeq(m, 1, n)
  BY DEF Passages!Kept
<1> HIDE DEF n
<1>3. /\ SubSeq(m, 1, n) \in Messages /\ Len(SubSeq(m, 1, n)) = n
      /\ \A i \in 1..n : SubSeq(m, 1, n)[i] = m[i]
  BY <1>1 DEF Messages
<1> QED
  BY <1>1, <1>2, <1>3 DEF Begins

LEMMA BeginsOn ==
  ASSUME NEW x \in Messages, NEW y \in Messages, NEW z \in Messages, Begins(x, y), Begins(y, z)
  PROVE  Begins(x, z)
BY DEF Begins, Messages

\* The text of a chunk is an excerpt of a transcript.
Excerpt(words, m) == \E i \in 1..WindowCount(m) : Begins(words, Passages!Windows(m)[i])

LEMMA ExcerptsStay ==
  ASSUME NEW m \in Messages, NEW n \in Messages, Begins(m, n), NEW words \in Messages, Excerpt(words, m)
  PROVE  Excerpt(words, n)
<1>1. PICK i \in 1..WindowCount(m) : Begins(words, Passages!Windows(m)[i])
  BY DEF Excerpt
<1>2. i \in 1..WindowCount(n) /\ Begins(Passages!Windows(m)[i], Passages!Windows(n)[i])
  BY WindowsGrow
<1>3. words \in Messages /\ Passages!Windows(m)[i] \in Messages /\ Passages!Windows(n)[i] \in Messages
  BY <1>2, WindowsParts
<1> QED
  BY <1>1, <1>2, <1>3, BeginsOn DEF Excerpt

LEMMA BeginsIsPrefix ==
  ASSUME NEW x \in Messages, NEW y \in Messages, Begins(x, y)
  PROVE  Passages!IsPrefix(x, y)
<1>1. /\ Len(x) \in Nat /\ Len(y) \in Nat /\ Len(x) <= Len(y)
      /\ \A i \in 1..Len(x) : x[i] = y[i]
  BY DEF Begins, Messages
<1>2. SubSeq(x, 1, Len(x)) = SubSeq(y, 1, Len(x))
  BY <1>1 DEF Messages
<1> QED
  BY <1>1, <1>2 DEF Passages!IsPrefix

LEMMA ExcerptIsPrefix ==
  ASSUME NEW m \in Messages, NEW words \in Messages, Excerpt(words, m)
  PROVE  \E i \in DOMAIN Passages!Windows(m) : Passages!IsPrefix(words, Passages!Windows(m)[i])
BY WindowsParts, BeginsIsPrefix DEF Excerpt

-----------------------------------------------------------------------------
ChunkNames == ProjectNames \cup Directories
Chunks == [project : ChunkNames, session : Transcripts, text : Messages]
Owners == [Transcripts -> ChunkNames]

\* The project that goes for a session: its directory's.
Named == [s \in Transcripts |-> Passages!NameOf(directoryOf[s])]

\* The chunk of window i of session s, and the chunks that chunk_project makes of s.
ChunkOf(owner, s, m, i) ==
  [project |-> owner[s], session |-> s, text |-> Passages!Kept(Passages!Windows(m)[i])]
IsPassage(c, owner, s, m) ==
  \E i \in 1..WindowCount(m) : Passages!HasSignal(Passages!Windows(m)[i]) /\ c = ChunkOf(owner, s, m, i)

LEMMA NamesAreOwners ==
  ASSUME directoryOf \in [Transcripts -> Directories],
         projectOf \in [Transcripts -> ProjectNames \cup {Passages!NoCwd}]
  PROVE  Named \in Owners
<1>1. ASSUME NEW d \in Directories PROVE Passages!NameOf(d) \in ChunkNames
  <2> DEFINE S == Passages!Placed(d)
  <2>1. Passages!NameOf(d) = IF S = {} THEN d ELSE projectOf[Passages!FirstOf(S)]
    BY DEF Passages!NameOf
  <2>2. S \in SUBSET Nat /\ \A s \in S : s \in Transcripts /\ projectOf[s] \in ProjectNames
    BY PassageTypes DEF Passages!Placed, Passages!SessionsIn
  <2> HIDE DEF S
  <2>3. CASE S = {}
    BY <2>1, <2>3 DEF ChunkNames
  <2>4. CASE S # {}
    <3>1. \E s \in S : \A t \in S : s <= t
      BY <2>2, <2>4, LeastNumber
    <3>2. Passages!FirstOf(S) \in S
      BY <3>1 DEF Passages!FirstOf
    <3> QED
      BY <2>1, <2>2, <2>4, <3>2 DEF ChunkNames
  <2> QED
    BY <2>3, <2>4
<1> QED
  BY <1>1 DEF Named, Owners

LEMMA NamesStay ==
  ASSUME UNCHANGED <<directoryOf, projectOf>>
  PROVE  Named' = Named
BY DEF Named, Passages!NameOf, Passages!FirstOf, Passages!Placed, Passages!SessionsIn, Passages!NoCwd

AllDiffer(r) == \A k, l \in 1..Len(r) : r[k] = r[l] => k = l

LEMMA ShortSequences ==
  ASSUME NEW S
  PROVE  <<>> \in Seq(S) /\ \A x \in S : <<x>> \in Seq(S)
OBVIOUS

LEMMA PassagesAreChunks ==
  ASSUME NEW c, NEW owner \in Owners, NEW s \in Transcripts, NEW m \in Messages, IsPassage(c, owner, s, m)
  PROVE  /\ c \in Chunks /\ c.project = owner[s] /\ c.session = s
         /\ Excerpt(c.text, m)
<1>1. PICK i \in 1..WindowCount(m) : c = ChunkOf(owner, s, m, i)
  BY DEF IsPassage
<1>2. Passages!Windows(m)[i] \in Messages
  BY WindowsParts
<1>3. c.text = Passages!Kept(Passages!Windows(m)[i]) /\ c.project = owner[s] /\ c.session = s
  BY <1>1 DEF ChunkOf
<1>4. c.text \in Messages /\ Begins(c.text, Passages!Windows(m)[i])
  BY <1>2, <1>3, KeptTypes
<1>5. c \in Chunks
  BY <1>1, <1>3, <1>4 DEF ChunkOf, Chunks, Owners
<1> QED
  BY <1>3, <1>4, <1>5 DEF Excerpt

LEMMA NoPassages ==
  ASSUME NEW c, NEW owner, NEW s
  PROVE  ~IsPassage(c, owner, s, <<>>)
<1>1. WindowCount(<<>>) = (0 + Window - 1) \div Window /\ <<>> \in Messages
  BY DEF WindowCount, Messages
<1> DEFINE q == (0 + Window - 1) \div Window
<1>2. q \in Nat /\ q * Window <= 0 + Window - 1
  <2>1. 0 + Window - 1 \in Nat /\ Window \in Nat \ {0}
    BY PassageTypes
  <2> QED
    BY <2>1, Quotient
<1>3. q = 0
  <2> HIDE DEF q
  <2>1. ASSUME 1 <= q PROVE FALSE
    <3>1. 1 * Window <= q * Window /\ 1 * Window \in Nat /\ q * Window \in Nat
      BY <1>2, <2>1, TimesGrows, PassageTypes
    <3>2. 1 * Window = Window
      BY PassageTypes
    <3> QED
      BY <1>2, <3>1, <3>2, PassageTypes
  <2> QED
    BY <1>2, <2>1
<1> QED
  BY <1>1, <1>3 DEF IsPassage

LEMMA ChunksOfTypes ==
  ASSUME NEW s \in Transcripts, NEW m \in Messages, Named \in Owners
  PROVE  /\ Passages!ChunksOf(s, m) \in Seq(Chunks)
         /\ \A c : Has(Passages!ChunksOf(s, m), c) <=> IsPassage(c, Named, s, m)
<1> DEFINE n == WindowCount(m)
           w == Passages!Windows(m)
           parts == [i \in DOMAIN w |->
                       IF Passages!HasSignal(w[i]) THEN <<Passages!ChunkOfGroup(s, w[i])>> ELSE <<>>]
           Loud == {i \in 1..n : Passages!HasSignal(w[i])}
<1>1. Passages!ChunksOf(s, m) = Flat(parts)
  BY DEF Passages!ChunksOf, Passages!FlattenSeq, Flat, Flattens
<1>2. n \in Nat /\ DOMAIN w = 1..n
  BY WindowsParts
<1>3. \A i \in 1..n : Passages!ChunkOfGroup(s, w[i]) = ChunkOf(Named, s, m, i)
  BY DEF Passages!ChunkOfGroup, ChunkOf, Named
<1>4. \A i \in 1..n : i \in Loud => Passages!ChunkOfGroup(s, w[i]) \in Chunks
  <2>1. ASSUME NEW i \in 1..n, i \in Loud PROVE IsPassage(ChunkOf(Named, s, m, i), Named, s, m)
    BY <2>1 DEF IsPassage
  <2> QED
    BY <1>3, <2>1, PassagesAreChunks
<1>5. /\ \A i \in 1..n : i \in Loud => parts[i] = <<Passages!ChunkOfGroup(s, w[i])>>
      /\ \A i \in 1..n : i \notin Loud => parts[i] = <<>>
  BY <1>2
<1>p. parts = [i \in 1..n |-> parts[i]]
  BY <1>2
<1>l. \A i \in 1..n : i \in Loud <=> Passages!HasSignal(Passages!Windows(m)[i])
  OBVIOUS
<1>n. n = WindowCount(m)
  OBVIOUS
<1> DEFINE chunk == [i \in 1..n |-> Passages!ChunkOfGroup(s, w[i])]
<1>c. \A i \in 1..n : chunk[i] = Passages!ChunkOfGroup(s, w[i])
  OBVIOUS
<1> HIDE DEF n, w, parts, Loud, chunk
<1>6. parts \in Seq(Seq(Chunks)) /\ Len(parts) = n
  <2>1. ASSUME NEW i \in 1..n PROVE parts[i] \in Seq(Chunks)
    <3>1. CASE i \in Loud
      <4>1. parts[i] = <<Passages!ChunkOfGroup(s, w[i])>> /\ Passages!ChunkOfGroup(s, w[i]) \in Chunks
        BY <1>4, <1>5, <3>1
      <4> QED
        BY <4>1, ShortSequences
    <3>2. CASE i \notin Loud
      <4>1. parts[i] = <<>>
        BY <1>5, <3>2
      <4> QED
        BY <4>1, ShortSequences
    <3> QED
      BY <3>1, <3>2
  <2>2. parts \in [1..n -> Seq(Chunks)]
    BY <1>p, <2>1
  <2> QED
    BY <1>2, <2>2
<1>7. Flat(parts) \in Seq(Chunks)
  BY <1>6, FlatPlaces
<1>8. ASSUME NEW c
      PROVE  Has(Flat(parts), c) <=> IsPassage(c, Named, s, m)
  <2>1. Has(Flat(parts), c) <=> \E i \in 1..n : Has(parts[i], c)
    BY <1>6, FlatMembers
  <2>2. ASSUME NEW i \in 1..n
        PROVE  Has(parts[i], c) <=> (i \in Loud /\ chunk[i] = c)
    <3>1. CASE i \in Loud
      <4>1. parts[i] = <<chunk[i]>>
        BY <1>5, <1>c, <3>1
      <4> QED
        BY <3>1, <4>1 DEF Has
    <3>2. CASE i \notin Loud
      <4>1. parts[i] = <<>>
        BY <1>5, <3>2
      <4> QED
        BY <3>2, <4>1 DEF Has
    <3> QED
      BY <3>1, <3>2
  <2>3. \A i \in 1..n : chunk[i] = ChunkOf(Named, s, m, i)
    BY <1>3, <1>c
  <2>4. IsPassage(c, Named, s, m) <=> \E i \in 1..n : i \in Loud /\ chunk[i] = c
    BY <1>l, <1>n, <2>3 DEF IsPassage
  <2> QED
    BY <2>1, <2>2, <2>4
<1> QED
  BY <1>1, <1>7, <1>8

\* How many of S come before s.
Before(S, s) == Cardinality({t \in S : t < s})

LEMMA BeforeTypes ==
  ASSUME NEW S \in SUBSET Nat, IsFiniteSet(S)
  PROVE  /\ Cardinality(S) \in Nat
         /\ \A s \in S : Before(S, s) \in 0..(Cardinality(S) - 1)
         /\ \A s, t \in S : Before(S, s) = Before(S, t) => s = t
<1>1. ASSUME NEW s \in S
      PROVE  Before(S, s) \in Nat /\ Before(S, s) <= Cardinality(S) - 1 /\ Cardinality(S) \in Nat
  <2>1. {t \in S : t < s} \in SUBSET (S \ {s})
    OBVIOUS
  <2>2. IsFiniteSet(S \ {s}) /\ Cardinality(S \ {s}) = Cardinality(S) - 1
    BY FS_RemoveElement
  <2>3. IsFiniteSet({t \in S : t < s}) /\ Cardinality({t \in S : t < s}) <= Cardinality(S \ {s})
    BY <2>1, <2>2, FS_Subset
  <2> QED
    BY <2>2, <2>3, FS_CardinalityType DEF Before
<1>2. ASSUME NEW s \in S, NEW t \in S, s < t PROVE Before(S, s) # Before(S, t)
  <2>0. s \in Nat /\ t \in Nat /\ S \subseteq Nat
    OBVIOUS
  <2>1. {u \in S : u < s} \in SUBSET {u \in S : u < t} /\ {u \in S : u < s} # {u \in S : u < t}
    <3>1. \A u \in S : u < s => u < t
      BY <1>2, <2>0
    <3>2. s \in {u \in S : u < t} /\ s \notin {u \in S : u < s}
      BY <1>2, <2>0
    <3> QED
      BY <3>1, <3>2
  <2>2. IsFiniteSet({u \in S : u < t})
    BY FS_Subset
  <2> QED
    BY <2>1, <2>2, FS_Subset, FS_CardinalityType DEF Before
<1>3. \A s, t \in S : Before(S, s) = Before(S, t) => s = t
  <2>1. ASSUME NEW s \in S, NEW t \in S, Before(S, s) = Before(S, t), s # t PROVE FALSE
    <3>1. s < t \/ t < s
      BY <2>1
    <3> QED
      BY <1>2, <2>1, <3>1
  <2> QED
    BY <2>1
<1> QED
  BY <1>1, <1>3, FS_CardinalityType

\* Sorting loses and adds nothing.
LEMMA SortedTypes ==
  ASSUME NEW S \in SUBSET Nat, IsFiniteSet(S)
  PROVE  Passages!Sorted(S) \in Seq(S) /\ \A s : Has(Passages!Sorted(S), s) <=> s \in S
<1> DEFINE n == Cardinality(S)
           rank == [s \in S |-> Before(S, s) + 1]
           r == Passages!Sorted(S)
<1>1. n \in Nat /\ IsFiniteSet(1..n) /\ Cardinality(1..n) = n
  <2>1. n \in Nat
    BY FS_CardinalityType
  <2>2. IsFiniteSet(1..n) /\ Cardinality(1..n) = IF 1 > n THEN 0 ELSE n - 1 + 1
    BY <2>1, FS_Interval
  <2> HIDE DEF n
  <2> QED
    BY <2>1, <2>2
<1>2. rank \in Surjection(S, 1..n)
  <2>1. \A s \in S : rank[s] = Before(S, s) + 1 /\ Before(S, s) \in 0..(n - 1)
    BY BeforeTypes
  <2>2. rank \in [S -> 1..n]
    BY <1>1, BeforeTypes
  <2>3. \A s, t \in S : rank[s] = rank[t] => s = t
    BY <1>1, <2>1, BeforeTypes
  <2>4. Cardinality(S) = Cardinality(1..n)
    BY <1>1
  <2> HIDE DEF n, rank
  <2>5. rank \in Injection(S, 1..n)
    BY <2>2, <2>3 DEF Injection, IsInjective
  <2> QED
    BY <1>1, <2>4, <2>5, FS_Injection
<1>3. r = [i \in 1..n |-> CHOOSE s \in S : Before(S, s) = i - 1]
  BY PassageCardinality DEF Passages!Sorted, Before
<1>4. \A s \in S : rank[s] = Before(S, s) + 1 /\ Before(S, s) \in Nat
  BY BeforeTypes
<1> HIDE DEF n, rank, r
<1>5. ASSUME NEW i \in 1..n PROVE r[i] \in S /\ Before(S, r[i]) = i - 1
  <2>1. \E s \in S : rank[s] = i
    BY <1>2 DEF Surjection
  <2>2. \E s \in S : Before(S, s) = i - 1
    BY <1>1, <1>4, <2>1
  <2> QED
    BY <1>3, <2>2
<1>6. r \in Seq(S) /\ Len(r) = n
  <2>1. r \in [1..n -> S]
    BY <1>3, <1>5
  <2> QED
    BY <1>1, <2>1
<1>7. ASSUME NEW s \in S PROVE \E i \in 1..n : r[i] = s
  <2>1. rank[s] \in 1..n
    BY <1>2 DEF Surjection
  <2>2. Before(S, r[rank[s]]) = Before(S, s) /\ r[rank[s]] \in S
    BY <1>1, <1>4, <1>5, <2>1
  <2>3. \A t, u \in S : Before(S, t) = Before(S, u) => t = u
    BY BeforeTypes
  <2> QED
    BY <2>1, <2>2, <2>3
<1>8. \A s : Has(r, s) <=> s \in S
  BY <1>5, <1>6, <1>7 DEF Has
<1> QED
  BY <1>6, <1>8 DEF r

\* chunk_project makes the passages of the directory's sessions, and no others.
LEMMA ChunkProjectTypes ==
  ASSUME NEW p, Named \in Owners, transcript \in [Transcripts -> Messages]
  PROVE  /\ Passages!ChunkProject(p) \in Seq(Chunks)
         /\ \A c : Has(Passages!ChunkProject(p), c)
                     <=> \E s \in Transcripts : directoryOf[s] = p /\ IsPassage(c, Named, s, transcript[s])
<1> DEFINE S == {s \in Transcripts : directoryOf[s] = p}
           r == Passages!Sorted(S)
           parts == [i \in DOMAIN r |-> Passages!ChunksOf(r[i], transcript[r[i]])]
<1>1. Passages!ChunkProject(p) = Flat(parts)
  BY DEF Passages!ChunkProject, Passages!SessionsIn, Passages!FlattenSeq, Flat, Flattens
<1>2. S \in SUBSET Nat /\ IsFiniteSet(S)
  BY PassageTypes, FS_Subset
<1>s. \A s : s \in S <=> s \in Transcripts /\ directoryOf[s] = p
  OBVIOUS
<1> HIDE DEF S
<1>3. r \in Seq(S) /\ \A s : Has(r, s) <=> s \in S
  BY <1>2, SortedTypes
<1> HIDE DEF r
<1>4. Len(r) \in Nat /\ DOMAIN r = 1..Len(r) /\ \A i \in 1..Len(r) : r[i] \in Transcripts /\ directoryOf[r[i]] = p
  BY <1>3, <1>s
<1>5. parts = [i \in 1..Len(r) |-> Passages!ChunksOf(r[i], transcript[r[i]])]
  BY <1>4
<1> HIDE DEF parts
<1>6. ASSUME NEW i \in 1..Len(r)
      PROVE  /\ parts[i] \in Seq(Chunks)
             /\ \A c : Has(parts[i], c) <=> IsPassage(c, Named, r[i], transcript[r[i]])
  <2>1. r[i] \in Transcripts /\ transcript[r[i]] \in Messages /\ parts[i] = Passages!ChunksOf(r[i], transcript[r[i]])
    BY <1>4, <1>5
  <2> QED
    BY <2>1, ChunksOfTypes
<1>7. parts \in Seq(Seq(Chunks)) /\ Len(parts) = Len(r)
  <2>1. parts \in [1..Len(r) -> Seq(Chunks)]
    BY <1>5, <1>6
  <2> QED
    BY <1>4, <2>1
<1>8. Flat(parts) \in Seq(Chunks)
  BY <1>7, FlatPlaces
<1>9. ASSUME NEW c
      PROVE  Has(Flat(parts), c)
               <=> \E s \in Transcripts : directoryOf[s] = p /\ IsPassage(c, Named, s, transcript[s])
  <2>1. Has(Flat(parts), c) <=> \E i \in 1..Len(r) : Has(parts[i], c)
    BY <1>7, FlatMembers
  <2>2. (\E i \in 1..Len(r) : Has(parts[i], c))
          <=> (\E i \in 1..Len(r) : IsPassage(c, Named, r[i], transcript[r[i]]))
    BY <1>6
  <2>3. ASSUME NEW i \in 1..Len(r), IsPassage(c, Named, r[i], transcript[r[i]])
        PROVE  \E s \in Transcripts : directoryOf[s] = p /\ IsPassage(c, Named, s, transcript[s])
    BY <1>4, <2>3
  <2>4. ASSUME NEW s \in Transcripts, directoryOf[s] = p, IsPassage(c, Named, s, transcript[s])
        PROVE  \E i \in 1..Len(r) : IsPassage(c, Named, r[i], transcript[r[i]])
    <3>1. PICK i \in 1..Len(r) : r[i] = s
      BY <1>3, <1>s, <2>4 DEF Has
    <3> QED
      BY <2>4, <3>1
  <2> QED
    BY <2>1, <2>2, <2>3, <2>4
<1> QED
  BY <1>1, <1>8, <1>9

LEMMA HashesTell ==
  ASSUME NEW c \in Chunks, NEW d \in Chunks
  PROVE  Passages!ContentHash(c) = Passages!ContentHash(d) <=> c = d
BY DEF Passages!ContentHash, Chunks

\* A chunk is known exactly if the index has it or it is among the new ones before.
LEMMA KnownChunks ==
  ASSUME NEW new \in Seq(Chunks), index \in Seq(Chunks), NEW i \in 1..Len(new)
  PROVE  Passages!IsKnown(new, i) <=> Has(index, new[i]) \/ \E j \in 1..(i - 1) : new[j] = new[i]
<1> DEFINE before == SubSeq(new, 1, i - 1)
           all == index \o before
<1>1. /\ before \in Seq(Chunks) /\ Len(before) = i - 1 /\ i - 1 \in Nat
      /\ \A j \in 1..(i - 1) : before[j] = new[j] /\ j \in 1..Len(new)
  OBVIOUS
<1>2. Passages!IsKnown(new, i)
        <=> \E c \in {all[k] : k \in DOMAIN all} : Passages!ContentHash(c) = Passages!ContentHash(new[i])
  BY DEF Passages!IsKnown, Passages!ToSet
<1> HIDE DEF before
<1>3. /\ all \in Seq(Chunks) /\ Len(all) = Len(index) + (i - 1) /\ Len(index) \in Nat
      /\ DOMAIN all = 1..(Len(index) + (i - 1))
      /\ \A k \in 1..Len(index) : all[k] = index[k]
      /\ \A k \in 1..(i - 1) : all[Len(index) + k] = before[k]
  BY <1>1
<1> HIDE DEF all
<1>4. ASSUME NEW k \in DOMAIN all
      PROVE  Passages!ContentHash(all[k]) = Passages!ContentHash(new[i]) <=> all[k] = new[i]
  <2>1. all[k] \in Chunks /\ new[i] \in Chunks
    BY <1>3
  <2> QED
    BY <2>1, HashesTell
<1>5. Passages!IsKnown(new, i) <=> \E k \in DOMAIN all : all[k] = new[i]
  BY <1>2, <1>4
<1>6. ASSUME NEW k \in DOMAIN all, all[k] = new[i]
      PROVE  Has(index, new[i]) \/ \E j \in 1..(i - 1) : new[j] = new[i]
  <2>1. CASE k \in 1..Len(index)
    BY <1>3, <1>6, <2>1 DEF Has
  <2>2. CASE k \notin 1..Len(index)
    <3>1. k - Len(index) \in 1..(i - 1) /\ Len(index) + (k - Len(index)) = k
      BY <1>1, <1>3, <2>2
    <3> QED
      BY <1>1, <1>3, <1>6, <3>1
  <2> QED
    BY <2>1, <2>2
<1>7. ASSUME Has(index, new[i]) PROVE \E k \in DOMAIN all : all[k] = new[i]
  <2>1. PICK k \in 1..Len(index) : index[k] = new[i]
    BY <1>7 DEF Has
  <2>2. k \in DOMAIN all
    BY <1>1, <1>3
  <2> QED
    BY <1>3, <2>1, <2>2
<1>8. ASSUME NEW j \in 1..(i - 1), new[j] = new[i] PROVE \E k \in DOMAIN all : all[k] = new[i]
  <2>1. Len(index) + j \in DOMAIN all
    BY <1>1, <1>3
  <2> QED
    BY <1>1, <1>3, <1>8, <2>1
<1> QED
  BY <1>5, <1>6, <1>7, <1>8

\* Adding chunks to an index adds what it does not have, once.
LEMMA AddChunksTypes ==
  ASSUME NEW new \in Seq(Chunks), index \in Seq(Chunks), AllDiffer(index)
  PROVE  /\ Passages!AddChunks(new) \in Seq(Chunks) /\ AllDiffer(Passages!AddChunks(new))
         /\ \A c : Has(Passages!AddChunks(new), c) <=> Has(index, c) \/ Has(new, c)
<1> DEFINE n == Len(new)
           Old == {i \in 1..n : Passages!IsKnown(new, i)}
           parts == [i \in DOMAIN new |-> IF Passages!IsKnown(new, i) THEN <<>> ELSE <<new[i]>>]
           added == Flat(parts)
           all == index \o added
<1>1. Passages!AddChunks(new) = all
  BY DEF Passages!AddChunks, Passages!FlattenSeq, Flat, Flattens
<1>2. n \in Nat /\ DOMAIN new = 1..n /\ \A i \in 1..n : new[i] \in Chunks
  OBVIOUS
<1>3. /\ \A i \in 1..n : i \in Old => parts[i] = <<>>
      /\ \A i \in 1..n : i \notin Old => parts[i] = <<new[i]>>
  BY <1>2
<1>p. parts = [i \in 1..n |-> parts[i]]
  BY <1>2
<1>4. \A i \in 1..n : i \in Old <=> Has(index, new[i]) \/ \E j \in 1..(i - 1) : new[j] = new[i]
  BY KnownChunks
<1>n. n = Len(new)
  OBVIOUS
<1> HIDE DEF n, Old, parts
<1>5. parts \in Seq(Seq(Chunks)) /\ Len(parts) = n
  <2>1. ASSUME NEW i \in 1..n PROVE parts[i] \in Seq(Chunks)
    BY <1>2, <1>3, ShortSequences
  <2>2. parts \in [1..n -> Seq(Chunks)]
    BY <1>p, <2>1
  <2> QED
    BY <1>2, <2>2
<1>6. added \in Seq(Chunks)
  BY <1>5, FlatPlaces
<1>7. PICK home, off : Places(added, parts, n, home, off)
  BY <1>5, FlatPlaces
<1> HIDE DEF added
<1>8. ASSUME NEW k \in 1..Len(added)
      PROVE  home[k] \in 1..n /\ home[k] \notin Old /\ off[k] = 1 /\ added[k] = new[home[k]]
  <2>1. home[k] \in 1..n /\ off[k] \in 1..Len(parts[home[k]]) /\ added[k] = parts[home[k]][off[k]]
    BY <1>7 DEF Places
  <2>2. home[k] \notin Old
    <3>1. Len(<<>>) = 0
      OBVIOUS
    <3> QED
      BY <1>3, <2>1, <3>1
  <2>3. parts[home[k]] = <<new[home[k]]>>
    BY <1>3, <2>1, <2>2
  <2> QED
    BY <2>1, <2>2, <2>3
<1>9. ASSUME NEW i \in 1..n, i \notin Old PROVE \E k \in 1..Len(added) : added[k] = new[i]
  <2>1. parts[i] = <<new[i]>>
    BY <1>3, <1>9
  <2>2. 1 \in 1..Len(parts[i])
    BY <2>1
  <2>3. PICK k \in 1..Len(added) : home[k] = i /\ off[k] = 1
    BY <1>7, <2>2 DEF Places
  <2> QED
    BY <1>8, <2>3
<1>10. ASSUME NEW k \in 1..Len(added), NEW l \in 1..Len(added), added[k] = added[l] PROVE k = l
  <2>1. /\ home[k] \in 1..n /\ home[l] \in 1..n /\ new[home[k]] = new[home[l]]
        /\ home[k] \notin Old /\ home[l] \notin Old /\ off[k] = off[l]
    BY <1>8, <1>10
  <2>2. ~(home[k] < home[l]) /\ ~(home[l] < home[k])
    <3>1. ASSUME NEW i \in 1..n, NEW j \in 1..n, j < i, new[j] = new[i] PROVE i \in Old
      <4>1. j \in 1..(i - 1)
        BY <3>1
      <4> QED
        BY <1>4, <3>1, <4>1
    <3> QED
      BY <2>1, <3>1
  <2>3. home[k] = home[l]
    BY <1>2, <2>1, <2>2
  <2> QED
    BY <1>7, <2>1, <2>3 DEF Places
<1>11. /\ all \in Seq(Chunks) /\ Len(all) = Len(index) + Len(added) /\ Len(index) \in Nat /\ Len(added) \in Nat
       /\ \A k \in 1..Len(index) : all[k] = index[k]
       /\ \A k \in 1..Len(added) : all[Len(index) + k] = added[k]
  BY <1>6
<1> HIDE DEF all
<1>12. ASSUME NEW k \in 1..Len(all)
       PROVE  k \in 1..Len(index) \/ (k - Len(index) \in 1..Len(added) /\ all[k] = added[k - Len(index)])
  <2>1. CASE k > Len(index)
    <3>1. k - Len(index) \in 1..Len(added) /\ Len(index) + (k - Len(index)) = k
      BY <1>11, <2>1
    <3> QED
      BY <1>11, <3>1
  <2> QED
    BY <1>11, <2>1
<1>13. ASSUME NEW k \in 1..Len(index), NEW l \in 1..Len(added) PROVE index[k] # added[l]
  <2>1. home[l] \in 1..n /\ home[l] \notin Old /\ added[l] = new[home[l]]
    BY <1>8
  <2>2. ~Has(index, new[home[l]])
    BY <1>4, <2>1
  <2> QED
    BY <2>1, <2>2 DEF Has
<1>14. AllDiffer(all)
  <2>1. ASSUME NEW k \in 1..Len(all), NEW l \in 1..Len(all), all[k] = all[l] PROVE k = l
    <3>1. CASE k \in 1..Len(index) /\ l \in 1..Len(index)
      BY <1>11, <2>1, <3>1 DEF AllDiffer
    <3>2. CASE k \in 1..Len(index) /\ l \notin 1..Len(index)
      <4>1. l - Len(index) \in 1..Len(added) /\ all[l] = added[l - Len(index)] /\ all[k] = index[k]
        BY <1>11, <1>12, <3>2
      <4> QED
        BY <1>13, <2>1, <3>2, <4>1
    <3>3. CASE k \notin 1..Len(index) /\ l \in 1..Len(index)
      <4>1. k - Len(index) \in 1..Len(added) /\ all[k] = added[k - Len(index)] /\ all[l] = index[l]
        BY <1>11, <1>12, <3>3
      <4> QED
        BY <1>13, <2>1, <3>3, <4>1
    <3>4. CASE k \notin 1..Len(index) /\ l \notin 1..Len(index)
      <4>1. /\ k - Len(index) \in 1..Len(added) /\ all[k] = added[k - Len(index)]
            /\ l - Len(index) \in 1..Len(added) /\ all[l] = added[l - Len(index)]
        BY <1>12, <3>4
      <4>2. k - Len(index) = l - Len(index)
        BY <1>10, <2>1, <4>1
      <4> QED
        BY <1>11, <4>2
    <3> QED
      BY <3>1, <3>2, <3>3, <3>4
  <2> QED
    BY <2>1 DEF AllDiffer
<1>15. ASSUME NEW c PROVE Has(all, c) <=> Has(index, c) \/ Has(added, c)
  <2>1. ASSUME Has(all, c) PROVE Has(index, c) \/ Has(added, c)
    BY <1>11, <1>12, <2>1 DEF Has
  <2>2. ASSUME Has(index, c) PROVE Has(all, c)
    <3>1. \A k \in 1..Len(index) : k \in 1..Len(all)
      BY <1>11
    <3> QED
      BY <1>11, <2>2, <3>1 DEF Has
  <2>3. ASSUME Has(added, c) PROVE Has(all, c)
    <3>1. \A k \in 1..Len(added) : Len(index) + k \in 1..Len(all)
      BY <1>11
    <3> QED
      BY <1>11, <2>3, <3>1 DEF Has
  <2> QED
    BY <2>1, <2>2, <2>3
<1>16. ASSUME NEW c, Has(added, c) PROVE Has(new, c)
  BY <1>8, <1>16, <1>n DEF Has
<1>17. ASSUME NEW c, Has(new, c) PROVE Has(index, c) \/ Has(added, c)
  <2> DEFINE J == {j \in 1..n : new[j] = c}
  <2>1. J \in SUBSET Nat /\ J # {}
    BY <1>2, <1>17, <1>n DEF Has
  <2>2. PICK i \in J : \A j \in J : i <= j
    <3> HIDE DEF J
    <3> QED
      BY <2>1, LeastNumber
  <2>3. \A j \in 1..(i - 1) : new[j] # new[i]
    BY <1>2, <2>2
  <2>4. CASE i \in Old
    BY <1>4, <2>2, <2>3, <2>4
  <2>5. CASE i \notin Old
    BY <1>9, <2>2, <2>5 DEF Has
  <2> QED
    BY <2>4, <2>5
<1> QED
  BY <1>1, <1>11, <1>14, <1>15, <1>16, <1>17

-----------------------------------------------------------------------------
TextsOf(r) == [i \in DOMAIN r |-> r[i].text]

\* The rows have every passage of the transcripts as they were, and none twice.
Complete(r, past, owner) ==
  /\ AllDiffer(r)
  /\ \A c \in Chunks : (\E s \in Transcripts : IsPassage(c, owner, s, past[s])) => Has(r, c)

\* Each of the rows is an excerpt of a transcript as it is now, and goes by its name.
IsGenuine(c, owner, now) == c.project = owner[c.session] /\ Excerpt(c.text, now[c.session])
Genuine(r, owner, now) == \A k \in 1..Len(r) : IsGenuine(r[k], owner, now)

PassageState ==
  /\ transcript \in [Transcripts -> Messages] /\ directoryOf \in [Transcripts -> Directories]
  /\ projectOf \in [Transcripts -> ProjectNames \cup {Passages!NoCwd}]
  /\ question.project = AskedProject
  /\ build \in 0..MaxIndexings
  /\ snapshot \in [1..MaxIndexings -> [Transcripts -> Messages]]
  /\ builderPc \in {"idle", "add", "vectors", "meta", "metaOpen"}
  /\ builderPc # "idle" => build > 0

\* What a build has read is what transcripts begin with; builds to come have read nothing.
PastInv ==
  /\ \A b \in 1..MaxIndexings : \A s \in Transcripts : Begins(snapshot[b][s], transcript[s])
  /\ \A b \in 1..MaxIndexings : b > build => snapshot[b] = Passages!Nothing

BuilderInv ==
  /\ index \in Seq(Chunks) /\ Genuine(index, Named, transcript)
  /\ builderPc # "idle" => Complete(index, snapshot[build], Named)

\* A meta.json that was saved has all passages of its build.
IsMeta(m) ==
  /\ m.of \in 0..build /\ m.rows \in Seq(Chunks) /\ Genuine(m.rows, Named, transcript)
  /\ m.of = 0 => m = Passages!NoFile
  /\ m.of > 0 => Complete(m.rows, snapshot[m.of], Named)
  /\ builderPc # "idle" => m.of # build

\* A vectors.npy fits the meta.json of its build, saved or to come.
IsVectors(v) ==
  /\ v.of \in 0..build
  /\ v.of = build /\ builderPc # "idle" => builderPc \in {"meta", "metaOpen"} /\ v.rows = TextsOf(index)
  /\ v.of > 0 /\ v.of = meta.of => v.rows = TextsOf(meta.rows)

ReaderInv ==
  /\ readerPc \in {"idle", "meta", "rank", "answered"}
  /\ readerPc # "answered" => answer = {}
  /\ readerPc \in {"idle", "meta"} => readMeta = Passages!NoFile
  /\ readerPc = "rank" => readMeta.of > 0
  /\ readVectors.of = readMeta.of /\ readMeta.of > 0 => readVectors.rows = TextsOf(readMeta.rows)

\* Nothing that is closer to a question is left out, nor anything there is room for.
CloseTo(asking, words) == Cardinality({i \in DOMAIN words : words[i] = asking.text})
Closest(past, owner, asking, shownChunks) ==
  \A c \in Chunks :
    (\E s \in Transcripts : owner[s] = asking.project /\ IsPassage(c, owner, s, past[s])) /\ c \notin shownChunks
      => /\ Cardinality(shownChunks) = MaxPassages
         /\ \A d \in shownChunks : CloseTo(asking, d.text) >= CloseTo(asking, c.text)

AnswerInv ==
  /\ \A c \in answer :
       /\ c \in Chunks /\ c.project = question.project
       /\ IsGenuine(c, Named, transcript)
  /\ readerPc = "answered" /\ readVectors.of = readMeta.of /\ readMeta.of > 0 =>
       Closest(snapshot[readMeta.of], Named, question, answer)

PassagesInv ==
  /\ PassageState /\ PastInv /\ BuilderInv
  /\ IsMeta(meta) /\ IsMeta(readMeta) /\ IsVectors(vectors) /\ IsVectors(readVectors)
  /\ ReaderInv /\ AnswerInv

LEMMA GenuineStays ==
  ASSUME NEW r \in Seq(Chunks), NEW owner, NEW now \in [Transcripts -> Messages],
         NEW later \in [Transcripts -> Messages], \A s \in Transcripts : Begins(now[s], later[s])
  PROVE  /\ \A c \in Chunks : IsGenuine(c, owner, now) => IsGenuine(c, owner, later)
         /\ Genuine(r, owner, now) => Genuine(r, owner, later)
<1>1. ASSUME NEW c \in Chunks, IsGenuine(c, owner, now) PROVE IsGenuine(c, owner, later)
  <2>1. c.session \in Transcripts /\ c.text \in Messages
    BY DEF Chunks
  <2>2. now[c.session] \in Messages /\ later[c.session] \in Messages /\ Begins(now[c.session], later[c.session])
    BY <2>1
  <2> QED
    BY <1>1, <2>1, <2>2, ExcerptsStay DEF IsGenuine
<1> QED
  BY <1>1 DEF Genuine

LEMMA NoneIsGenuine ==
  ASSUME NEW owner, NEW now
  PROVE  Genuine(<<>>, owner, now)
BY DEF Genuine

LEMMA PassagesInit ==
  ASSUME Passages!Init
  PROVE  PassagesInv
<1>1. transcript \in [Transcripts -> Messages]
  <2>1. ASSUME NEW m \in UNION {[1..n -> Utterances] : n \in FirstLengths} PROVE m \in Messages
    <3>1. PICK n \in FirstLengths : m \in [1..n -> Utterances]
      OBVIOUS
    <3>2. n \in Nat
      BY PassageTypes
    <3> QED
      BY <3>1, <3>2 DEF Messages
  <2> QED
    BY <2>1 DEF Passages!Init
<1>2. Passages!Nothing \in [Transcripts -> Messages] /\ \A s \in Transcripts : Passages!Nothing[s] = <<>>
  BY DEF Passages!Nothing, Messages
<1>3. \A m \in Messages : Begins(<<>>, m)
  BY DEF Begins, Messages
<1>4. PassageState
  BY <1>1, <1>2, PassageTypes DEF Passages!Init, PassageState
<1>5. PastInv
  BY <1>1, <1>2, <1>3 DEF Passages!Init, PastInv
<1>6. <<>> \in Seq(Chunks)
  BY ShortSequences
<1>7. BuilderInv
  BY <1>6, NoneIsGenuine DEF Passages!Init, BuilderInv
<1>8. IsMeta(meta) /\ IsMeta(readMeta)
  BY <1>6, NoneIsGenuine DEF Passages!Init, IsMeta, Passages!NoFile
<1>9. IsVectors(vectors) /\ IsVectors(readVectors)
  BY DEF Passages!Init, IsVectors, Passages!NoFile
<1>10. ReaderInv /\ AnswerInv
  BY DEF Passages!Init, ReaderInv, AnswerInv, Passages!NoFile
<1> QED
  BY <1>4, <1>5, <1>7, <1>8, <1>9, <1>10 DEF PassagesInv

\* A transcript that grows keeps its passages.
LEMMA PassagesGrow ==
  ASSUME PassagesInv, Passages!Grow
  PROVE  PassagesInv'
<1>1. PICK s \in Transcripts, u \in Utterances : transcript' = [transcript EXCEPT ![s] = Append(@, u)]
  BY DEF Passages!Grow
<1>2. UNCHANGED <<directoryOf, projectOf, vectors, meta, builderPc, directories, index, build, snapshot,
                  readerPc, readVectors, readMeta, question, answer>>
  BY DEF Passages!Grow, Passages!saved, Passages!builder, Passages!reader
<1>3. transcript \in [Transcripts -> Messages] /\ snapshot \in [1..MaxIndexings -> [Transcripts -> Messages]]
  BY DEF PassagesInv, PassageState
<1>4. ASSUME NEW r \in Transcripts
      PROVE  transcript'[r] \in Messages /\ Begins(transcript[r], transcript'[r])
  <2>1. transcript[r] \in Messages
    BY <1>3
  <2>2. transcript'[r] = transcript[r] \/ transcript'[r] = Append(transcript[r], u)
    BY <1>1, <1>3
  <2> QED
    BY <2>1, <2>2 DEF Begins, Messages
<1>5. transcript' \in [Transcripts -> Messages]
  <2>1. transcript' = [r \in Transcripts |-> transcript'[r]]
    BY <1>1, <1>3
  <2> QED
    BY <1>4, <2>1
<1>6. PassageState'
  BY <1>2, <1>5 DEF PassagesInv, PassageState
<1>7. PastInv'
  <2>1. ASSUME NEW b \in 1..MaxIndexings, NEW r \in Transcripts
        PROVE  Begins(snapshot[b][r], transcript'[r])
    <3>1. Begins(snapshot[b][r], transcript[r]) /\ Begins(transcript[r], transcript'[r])
      BY <1>4 DEF PassagesInv, PastInv
    <3>2. snapshot[b][r] \in Messages /\ transcript[r] \in Messages /\ transcript'[r] \in Messages
      BY <1>3, <1>4
    <3> QED
      BY <3>1, <3>2, BeginsOn
  <2> QED
    BY <1>2, <2>1 DEF PassagesInv, PastInv, Passages!Nothing
<1>n. Named' = Named
  BY <1>2, NamesStay
<1>g. /\ \A r \in Seq(Chunks) : Genuine(r, Named, transcript) => Genuine(r, Named, transcript')
      /\ \A c \in Chunks : IsGenuine(c, Named, transcript) => IsGenuine(c, Named, transcript')
  <2>1. ASSUME NEW r \in Seq(Chunks), Genuine(r, Named, transcript) PROVE Genuine(r, Named, transcript')
    BY <1>3, <1>4, <1>5, <2>1, GenuineStays
  <2>2. ASSUME NEW c \in Chunks, IsGenuine(c, Named, transcript) PROVE IsGenuine(c, Named, transcript')
    BY <1>3, <1>4, <1>5, <2>2, GenuineStays, ShortSequences
  <2> QED
    BY <2>1, <2>2
<1>8. BuilderInv' /\ IsMeta(meta)' /\ IsMeta(readMeta)' /\ IsVectors(vectors)' /\ IsVectors(readVectors)' /\ ReaderInv'
  <2>1. BuilderInv'
    BY <1>2, <1>n, <1>g DEF PassagesInv, BuilderInv
  <2>2. IsMeta(meta)' /\ IsMeta(readMeta)'
    BY <1>2, <1>n, <1>g DEF PassagesInv, IsMeta, Passages!NoFile
  <2>3. IsVectors(vectors)' /\ IsVectors(readVectors)' /\ ReaderInv'
    BY <1>2 DEF PassagesInv, IsVectors, ReaderInv, Passages!NoFile
  <2> QED
    BY <2>1, <2>2, <2>3
<1>9. AnswerInv'
  <2>1. ASSUME NEW c \in answer
        PROVE  c \in Chunks /\ c.project = question.project /\ IsGenuine(c, Named, transcript')
    BY <1>g DEF PassagesInv, AnswerInv
  <2> QED
    BY <1>2, <1>n, <2>1 DEF PassagesInv, AnswerInv
<1> QED
  BY <1>6, <1>7, <1>8, <1>9 DEF PassagesInv

\* Steps of the builder that do not touch what a build before has read leave a query be.
LEMMA QueryRests ==
  ASSUME PassagesInv, UNCHANGED <<transcript, directoryOf, projectOf, readerPc, readVectors, readMeta, question, answer>>,
         readMeta.of > 0 => snapshot'[readMeta.of] = snapshot[readMeta.of]
  PROVE  ReaderInv' /\ AnswerInv'
<1>1. ReaderInv'
  BY DEF PassagesInv, ReaderInv, Passages!NoFile
<1>2. AnswerInv'
  BY NamesStay DEF PassagesInv, AnswerInv
<1> QED
  BY <1>1, <1>2

\* So do steps that leave what builds have read alone.
LEMMA PastRests ==
  ASSUME PassagesInv, UNCHANGED <<transcript, directoryOf, projectOf, question, build, snapshot>>,
         builderPc' \in {"idle", "add", "vectors", "meta", "metaOpen"}, builderPc' # "idle" => builderPc # "idle"
  PROVE  PassageState' /\ PastInv'
<1>1. PastInv'
  BY DEF PassagesInv, PastInv, Passages!Nothing
<1>2. PassageState'
  BY DEF PassagesInv, PassageState
<1> QED
  BY <1>1, <1>2

LEMMA EmptyIsComplete ==
  ASSUME NEW owner
  PROVE  Complete(<<>>, Passages!Nothing, owner)
<1>1. \A s \in Transcripts : Passages!Nothing[s] = <<>>
  BY DEF Passages!Nothing
<1>2. \A c : \A s \in Transcripts : ~IsPassage(c, owner, s, Passages!Nothing[s])
  BY <1>1, NoPassages
<1>3. AllDiffer(<<>>) /\ \A c : ~Has(<<>>, c)
  BY DEF AllDiffer, Has
<1> QED
  BY <1>2, <1>3 DEF Complete

LEMMA BuildBegins ==
  ASSUME PassagesInv, Passages!BeginIndexing
  PROVE  PassagesInv'
<1>1. /\ builderPc = "idle" /\ build < MaxIndexings /\ builderPc' = "add" /\ build' = build + 1 /\ index' = <<>>
      /\ UNCHANGED <<transcript, directoryOf, projectOf, growth, vectors, meta, snapshot,
                     readerPc, readVectors, readMeta, question, answer>>
  BY DEF Passages!BeginIndexing, Passages!built, Passages!saved, Passages!reader
<1>2. build \in Nat /\ build' \in 1..MaxIndexings /\ MaxIndexings \in Nat
  BY <1>1, PassageTypes DEF PassagesInv, PassageState
<1>3. PassageState'
  BY <1>1, <1>2 DEF PassagesInv, PassageState
<1>4. PastInv'
  BY <1>1, <1>2 DEF PassagesInv, PastInv, Passages!Nothing
<1>5. snapshot[build'] = Passages!Nothing
  BY <1>1, <1>2 DEF PassagesInv, PastInv
<1>n. Named' = Named
  BY <1>1, NamesStay
<1>6. BuilderInv'
  <2>1. Complete(<<>>, snapshot[build'], Named)
    BY <1>5, EmptyIsComplete
  <2> QED
    BY <1>1, <1>n, <2>1, ShortSequences, NoneIsGenuine DEF BuilderInv
<1>7. IsMeta(meta)' /\ IsMeta(readMeta)'
  BY <1>1, <1>2, <1>n DEF PassagesInv, IsMeta, Passages!NoFile
<1>8. IsVectors(vectors)' /\ IsVectors(readVectors)'
  BY <1>1, <1>2 DEF PassagesInv, IsVectors
<1>9. ReaderInv' /\ AnswerInv'
  BY <1>1, QueryRests
<1> QED
  BY <1>3, <1>4, <1>6, <1>7, <1>8, <1>9 DEF PassagesInv

\* Adding a directory makes the index complete for the transcripts read so far.
LEMMA DirectoryAdded ==
  ASSUME PassagesInv, Passages!AddDirectory
  PROVE  PassagesInv'
<1>1. PICK p \in Directories :
        /\ index' = Passages!AddChunks(Passages!ChunkProject(p))
        /\ snapshot' = [snapshot EXCEPT ![build] =
                          [s \in Transcripts |-> IF directoryOf[s] = p THEN transcript[s] ELSE @[s]]]
  BY DEF Passages!AddDirectory
<1>2. /\ builderPc = "add" /\ builderPc' = "add" /\ build' = build
      /\ UNCHANGED <<transcript, directoryOf, projectOf, growth, vectors, meta,
                     readerPc, readVectors, readMeta, question, answer>>
  BY DEF Passages!AddDirectory, Passages!built, Passages!saved, Passages!reader
<1>3. /\ transcript \in [Transcripts -> Messages] 
      /\ snapshot \in [1..MaxIndexings -> [Transcripts -> Messages]]
      /\ build \in 1..MaxIndexings /\ build \in Nat /\ MaxIndexings \in Nat
  BY <1>2, PassageTypes DEF PassagesInv, PassageState
<1>4. /\ index \in Seq(Chunks) /\ Complete(index, snapshot[build], Named)
      /\ Genuine(index, Named, transcript)
  BY <1>2 DEF PassagesInv, BuilderInv
<1> DEFINE past == snapshot'[build]
<1>n. Named' = Named /\ Named \in Owners
  BY <1>2, NamesStay, NamesAreOwners DEF PassagesInv, PassageState
<1>5. /\ past = [s \in Transcripts |-> IF directoryOf[s] = p THEN transcript[s] ELSE snapshot[build][s]]
      /\ \A b \in 1..MaxIndexings : b # build => snapshot'[b] = snapshot[b]
      /\ DOMAIN snapshot' = 1..MaxIndexings
  BY <1>1, <1>3
<1>6. /\ \A s \in Transcripts : directoryOf[s] = p => past[s] = transcript[s]
      /\ \A s \in Transcripts : directoryOf[s] # p => past[s] = snapshot[build][s]
  BY <1>5
<1>7. past \in [Transcripts -> Messages]
  <2>1. \A s \in Transcripts : transcript[s] \in Messages /\ snapshot[build][s] \in Messages
    BY <1>3
  <2> QED
    BY <1>5, <2>1
<1>8. snapshot' \in [1..MaxIndexings -> [Transcripts -> Messages]]
  <2>1. \A b \in 1..MaxIndexings : snapshot'[b] \in [Transcripts -> Messages]
    BY <1>3, <1>5, <1>7
  <2>2. snapshot' = [b \in 1..MaxIndexings |-> snapshot'[b]]
    BY <1>1, <1>3
  <2> QED
    BY <2>1, <2>2
<1> HIDE DEF past
<1>9. PassageState'
  BY <1>2, <1>8 DEF PassagesInv, PassageState
<1>10. PastInv'
  <2>1. ASSUME NEW s \in Transcripts PROVE Begins(past[s], transcript[s])
    <3>1. transcript[s] \in Messages /\ Begins(snapshot[build][s], transcript[s])
      BY <1>3 DEF PassagesInv, PastInv
    <3>2. Begins(transcript[s], transcript[s])
      BY <3>1 DEF Begins, Messages
    <3> QED
      BY <1>6, <3>1, <3>2
  <2>2. ASSUME NEW b \in 1..MaxIndexings, NEW s \in Transcripts PROVE Begins(snapshot'[b][s], transcript[s])
    <3>1. CASE b = build
      BY <2>1, <3>1 DEF past
    <3>2. CASE b # build
      BY <1>5, <3>2 DEF PassagesInv, PastInv
    <3> QED
      BY <3>1, <3>2
  <2>3. \A b \in 1..MaxIndexings : b > build => snapshot'[b] = Passages!Nothing
    BY <1>3, <1>5 DEF PassagesInv, PastInv
  <2> QED
    BY <1>2, <2>2, <2>3 DEF PastInv, Passages!Nothing
<1> DEFINE new == Passages!ChunkProject(p)
<1>11. /\ new \in Seq(Chunks)
       /\ \A c : Has(new, c)
                   <=> \E s \in Transcripts : directoryOf[s] = p /\ IsPassage(c, Named, s, transcript[s])
  BY <1>3, <1>n, ChunkProjectTypes
<1>i. index' = Passages!AddChunks(new)
  BY <1>1
<1> HIDE DEF new
<1>12. /\ index' \in Seq(Chunks) /\ AllDiffer(index')
       /\ \A c : Has(index', c) <=> Has(index, c) \/ Has(new, c)
  BY <1>4, <1>11, <1>i, AddChunksTypes DEF Complete
<1>13. ASSUME NEW c \in Chunks, NEW s \in Transcripts, IsPassage(c, Named, s, past[s])
       PROVE  Has(index', c)
  <2>1. CASE directoryOf[s] = p
    <3>1. IsPassage(c, Named, s, transcript[s])
      BY <1>6, <1>13, <2>1
    <3> QED
      BY <1>11, <1>12, <2>1, <3>1
  <2>2. CASE directoryOf[s] # p
    <3>1. IsPassage(c, Named, s, snapshot[build][s])
      BY <1>6, <1>13, <2>2
    <3>2. Has(index, c)
      BY <1>4, <3>1 DEF Complete
    <3> QED
      BY <1>12, <3>2
  <2> QED
    BY <2>1, <2>2
<1>o. ASSUME NEW c \in Chunks, Has(index, c) PROVE IsGenuine(c, Named, transcript)
  BY <1>4, <1>o DEF Genuine, Has
<1>a. ASSUME NEW c \in Chunks, Has(new, c) PROVE IsGenuine(c, Named, transcript)
  <2>1. PICK s \in Transcripts : IsPassage(c, Named, s, transcript[s])
    BY <1>11, <1>a
  <2>2. transcript[s] \in Messages
    BY <1>3
  <2> QED
    BY <1>n, <2>1, <2>2, PassagesAreChunks DEF IsGenuine
<1>g. Genuine(index', Named, transcript)
  <2>1. ASSUME NEW k \in 1..Len(index') PROVE IsGenuine(index'[k], Named, transcript)
    <3>1. index'[k] \in Chunks /\ Has(index', index'[k])
      BY <1>12 DEF Has
    <3> QED
      BY <1>12, <1>o, <1>a, <3>1
  <2> QED
    BY <2>1 DEF Genuine
<1>14. BuilderInv'
  <2>1. Complete(index', past, Named)
    BY <1>12, <1>13 DEF Complete
  <2> QED
    BY <1>2, <1>n, <1>g, <1>12, <2>1 DEF BuilderInv, past
<1>15. ASSUME NEW m, IsMeta(m) PROVE m.of > 0 => m.of \in 1..MaxIndexings /\ m.of # build
  BY <1>2, <1>3, <1>15 DEF IsMeta
<1>16. IsMeta(meta)' /\ IsMeta(readMeta)'
  BY <1>2, <1>n, <1>5, <1>15 DEF PassagesInv, IsMeta, Passages!NoFile
<1>17. IsVectors(vectors)' /\ IsVectors(readVectors)'
  BY <1>2 DEF PassagesInv, IsVectors
<1>18. readMeta.of > 0 => snapshot'[readMeta.of] = snapshot[readMeta.of]
  BY <1>5, <1>15 DEF PassagesInv
<1>19. ReaderInv' /\ AnswerInv'
  BY <1>2, <1>18, QueryRests
<1> QED
  BY <1>9, <1>10, <1>14, <1>16, <1>17, <1>19 DEF PassagesInv

\* Saving: vectors first, then what they are of.
LEMMA BuildSaved ==
  ASSUME PassagesInv, Passages!OpenVectors \/ Passages!SaveVectors \/ Passages!OpenMeta \/ Passages!SaveMeta
  PROVE  PassagesInv'
<1>1. /\ UNCHANGED <<transcript, directoryOf, projectOf, build, snapshot, readerPc, readVectors, readMeta, question, answer>>
      /\ builderPc # "idle" /\ builderPc' \in {"idle", "add", "vectors", "meta", "metaOpen"}
  BY DEF Passages!OpenVectors, Passages!SaveVectors, Passages!OpenMeta, Passages!SaveMeta, Passages!End,
         Passages!built, Passages!reader
<1>2. PassageState' /\ PastInv' /\ ReaderInv' /\ AnswerInv'
  BY <1>1, PastRests, QueryRests
<1>3. build \in Nat /\ build > 0 /\ index \in Seq(Chunks) /\ Complete(index, snapshot[build], Named)
      /\ Genuine(index, Named, transcript)
  BY <1>1 DEF PassagesInv, PassageState, BuilderInv
<1>n. Named' = Named
  BY <1>1, NamesStay
<1>4. IsMeta(readMeta)'
  BY <1>1, <1>n DEF PassagesInv, IsMeta, Passages!NoFile
<1>5. /\ meta.of \in 0..build /\ meta.of # build
      /\ readVectors.of \in 0..build
  BY <1>1 DEF PassagesInv, IsMeta, IsVectors
<1>6. CASE Passages!OpenVectors
  <2>1. /\ builderPc = "add" /\ builderPc' = "vectors" /\ vectors' = Passages!NoFile
        /\ UNCHANGED <<meta, directories, index>>
    BY <1>6 DEF Passages!OpenVectors
  <2>2. BuilderInv'
    BY <1>1, <1>n, <1>3, <2>1 DEF BuilderInv
  <2>3. IsMeta(meta)'
    BY <1>1, <1>n, <2>1 DEF PassagesInv, IsMeta, Passages!NoFile
  <2>4. IsVectors(readVectors)'
    BY <1>1, <2>1 DEF PassagesInv, IsVectors
  <2>5. IsVectors(vectors)'
    BY <1>1, <1>3, <2>1 DEF IsVectors, Passages!NoFile
  <2> QED
    BY <1>2, <1>4, <2>2, <2>3, <2>4, <2>5 DEF PassagesInv
<1>7. CASE Passages!SaveVectors
  <2>1. /\ builderPc = "vectors" /\ builderPc' = "meta"
        /\ vectors' = [of |-> build, rows |-> [i \in DOMAIN index |-> index[i].text]]
        /\ UNCHANGED <<meta, directories, index>>
    BY <1>7 DEF Passages!SaveVectors
  <2>2. BuilderInv'
    BY <1>1, <1>n, <1>3, <2>1 DEF BuilderInv
  <2>3. IsMeta(meta)'
    BY <1>1, <1>n, <2>1 DEF PassagesInv, IsMeta, Passages!NoFile
  <2>4. IsVectors(readVectors)'
    BY <1>1, <2>1 DEF PassagesInv, IsVectors
  <2>5. vectors'.of = build /\ vectors'.rows = TextsOf(index)
    BY <2>1 DEF TextsOf
  <2>6. IsVectors(vectors)'
    BY <1>1, <1>3, <1>5, <2>1, <2>5 DEF IsVectors
  <2> QED
    BY <1>2, <1>4, <2>2, <2>3, <2>4, <2>6 DEF PassagesInv
<1>8. CASE Passages!OpenMeta
  <2>1. /\ builderPc = "meta" /\ builderPc' = "metaOpen" /\ meta' = Passages!NoFile
        /\ UNCHANGED <<vectors, directories, index>>
    BY <1>8 DEF Passages!OpenMeta
  <2>2. BuilderInv'
    BY <1>1, <1>n, <1>3, <2>1 DEF BuilderInv
  <2>3. IsMeta(meta)'
    BY <1>1, <1>3, <2>1, ShortSequences, NoneIsGenuine DEF IsMeta, Passages!NoFile
  <2>4. IsVectors(readVectors)' /\ IsVectors(vectors)'
    BY <1>1, <2>1 DEF PassagesInv, IsVectors, Passages!NoFile
  <2> QED
    BY <1>2, <1>4, <2>2, <2>3, <2>4 DEF PassagesInv
<1>9. CASE Passages!SaveMeta
  <2>1. /\ builderPc = "metaOpen" /\ builderPc' = "idle" /\ meta' = [of |-> build, rows |-> index]
        /\ index' = <<>> /\ vectors' = vectors
    BY <1>9 DEF Passages!SaveMeta, Passages!End
  <2>2. BuilderInv'
    BY <2>1, ShortSequences, NoneIsGenuine DEF BuilderInv
  <2>3. meta'.of = build /\ meta'.rows = index
    BY <2>1
  <2>4. IsMeta(meta)'
    BY <1>1, <1>n, <1>3, <2>1, <2>3 DEF IsMeta
  <2>5. ASSUME NEW v, IsVectors(v)
        PROVE  /\ v.of \in 0..build
               /\ v.of > 0 /\ v.of = build => v.rows = TextsOf(index)
    BY <1>1, <2>5 DEF IsVectors
  <2>6. IsVectors(readVectors)' /\ IsVectors(vectors)'
    BY <1>1, <2>1, <2>3, <2>5 DEF PassagesInv, IsVectors
  <2> QED
    BY <1>2, <1>4, <2>2, <2>4, <2>6 DEF PassagesInv
<1> QED
  BY <1>6, <1>7, <1>8, <1>9

\* A build that fails leaves the files as they are.
LEMMA BuildFails ==
  ASSUME PassagesInv, Passages!Fail
  PROVE  PassagesInv'
<1>1. /\ builderPc # "idle" /\ builderPc' = "idle" /\ index' = <<>>
      /\ snapshot' = IF builderPc = "add" THEN [snapshot EXCEPT ![build] = Passages!Nothing] ELSE snapshot
      /\ UNCHANGED <<transcript, directoryOf, projectOf, build, vectors, meta,
                     readerPc, readVectors, readMeta, question, answer>>
  BY DEF Passages!Fail, Passages!End, Passages!built, Passages!saved, Passages!reader
<1>2. /\ transcript \in [Transcripts -> Messages]
      /\ snapshot \in [1..MaxIndexings -> [Transcripts -> Messages]]
      /\ build \in Nat /\ build \in 1..MaxIndexings /\ MaxIndexings \in Nat
  BY <1>1, PassageTypes DEF PassagesInv, PassageState
<1>3. Passages!Nothing \in [Transcripts -> Messages] /\ \A s \in Transcripts : Passages!Nothing[s] = <<>>
  BY DEF Passages!Nothing, Messages
<1>4. /\ \A b \in 1..MaxIndexings : b # build => snapshot'[b] = snapshot[b]
      /\ snapshot'[build] = snapshot[build] \/ snapshot'[build] = Passages!Nothing
      /\ snapshot' \in [1..MaxIndexings -> [Transcripts -> Messages]]
  BY <1>1, <1>2, <1>3
<1>5. PassageState'
  BY <1>1, <1>4 DEF PassagesInv, PassageState
<1>6. PastInv'
  <2>1. ASSUME NEW b \in 1..MaxIndexings, NEW s \in Transcripts PROVE Begins(snapshot'[b][s], transcript[s])
    <3>1. Begins(snapshot[b][s], transcript[s]) /\ transcript[s] \in Messages
      BY <1>2 DEF PassagesInv, PastInv
    <3>2. Begins(<<>>, transcript[s])
      BY <3>1 DEF Begins, Messages
    <3>3. snapshot'[b] = snapshot[b] \/ snapshot'[b] = Passages!Nothing
      BY <1>4
    <3> QED
      BY <1>3, <3>1, <3>2, <3>3
  <2>2. \A b \in 1..MaxIndexings : b > build => snapshot'[b] = Passages!Nothing
    BY <1>2, <1>4 DEF PassagesInv, PastInv
  <2> QED
    BY <1>1, <2>1, <2>2 DEF PastInv, Passages!Nothing
<1>7. BuilderInv'
  BY <1>1, ShortSequences, NoneIsGenuine DEF BuilderInv
<1>8. ASSUME NEW m, IsMeta(m) PROVE m.of > 0 => snapshot'[m.of] = snapshot[m.of]
  <2>1. m.of > 0 => m.of \in 1..MaxIndexings /\ m.of # build
    BY <1>1, <1>2, <1>8 DEF IsMeta
  <2> QED
    BY <1>4, <2>1
<1>9. IsMeta(meta)' /\ IsMeta(readMeta)'
  BY <1>1, <1>8, NamesStay DEF PassagesInv, IsMeta, Passages!NoFile
<1>10. IsVectors(vectors)' /\ IsVectors(readVectors)'
  BY <1>1 DEF PassagesInv, IsVectors
<1>11. ReaderInv' /\ AnswerInv'
  BY <1>1, <1>8, QueryRests DEF PassagesInv
<1> QED
  BY <1>5, <1>6, <1>7, <1>9, <1>10, <1>11 DEF PassagesInv

LEMMA FilesLoaded ==
  ASSUME PassagesInv, Passages!Ask \/ Passages!ReadMeta
  PROVE  PassagesInv'
<1>1. UNCHANGED <<transcript, directoryOf, projectOf, vectors, meta, builderPc, directories, index, build, snapshot>>
  BY DEF Passages!Ask, Passages!ReadMeta, Passages!built, Passages!saved, Passages!builder
<1>n. Named' = Named
  BY <1>1, NamesStay
<1>q. question'.project = AskedProject
  BY DEF Passages!Ask, Passages!ReadMeta, PassagesInv, PassageState
<1>2. PassageState' /\ PastInv' /\ BuilderInv' /\ IsMeta(meta)' /\ IsVectors(vectors)'
  BY <1>1, <1>n, <1>q
  DEF PassagesInv, PassageState, PastInv, Passages!Nothing, BuilderInv, IsMeta, Passages!NoFile, IsVectors
<1>3. build \in Nat
  BY DEF PassagesInv, PassageState
<1>4. CASE Passages!Ask
  <2>1. /\ readVectors' = vectors /\ readMeta' = Passages!NoFile /\ answer' = {}
        /\ readerPc' \in {"meta", "answered"}
    BY <1>4 DEF Passages!Ask
  <2>2. IsVectors(readVectors)'
    BY <1>1, <2>1 DEF PassagesInv, IsVectors
  <2>3. Passages!NoFile.of = 0 /\ Passages!NoFile.rows = <<>>
    BY DEF Passages!NoFile
  <2>4. IsMeta(readMeta)'
    BY <1>1, <1>3, <2>1, <2>3, ShortSequences, NoneIsGenuine DEF PassagesInv, PassageState, IsMeta, Passages!NoFile
  <2>5. ReaderInv' /\ AnswerInv'
    BY <2>1, <2>3 DEF ReaderInv, AnswerInv, Passages!NoFile
  <2> QED
    BY <1>2, <2>2, <2>4, <2>5 DEF PassagesInv
<1>5. CASE Passages!ReadMeta
  <2>1. /\ readMeta' = meta /\ readerPc = "meta"
        /\ readerPc' = IF meta = Passages!NoFile THEN "answered" ELSE "rank"
        /\ UNCHANGED <<readVectors, question, answer>>
    BY <1>5 DEF Passages!ReadMeta
  <2>2. IsVectors(readVectors)' /\ IsMeta(readMeta)'
    BY <1>1, <1>n, <2>1 DEF PassagesInv, IsVectors, IsMeta, Passages!NoFile
  <2>3. answer = {} /\ meta.of \in 0..build /\ (meta.of = 0 => meta = Passages!NoFile)
    BY <2>1 DEF PassagesInv, ReaderInv, IsMeta
  <2>4. readVectors.of = meta.of /\ meta.of > 0 => readVectors.rows = TextsOf(meta.rows)
    BY DEF PassagesInv, IsVectors
  <2>5. Passages!NoFile.of = 0
    BY DEF Passages!NoFile
  <2>6. ReaderInv'
    BY <1>3, <2>1, <2>3, <2>4, <2>5 DEF ReaderInv, Passages!NoFile
  <2>7. AnswerInv'
    BY <2>1, <2>3, <2>5 DEF AnswerInv
  <2> QED
    BY <1>2, <2>2, <2>6, <2>7 DEF PassagesInv
<1> QED
  BY <1>4, <1>5

\* What a query finds in two files of one build is closest.
LEMMA FoundIsClosest ==
  ASSUME NEW r \in Seq(Chunks), NEW past, NEW owner \in Owners, NEW asking, NEW best,
         past \in [Transcripts -> Messages], Complete(r, past, owner),
         best \subseteq {i \in 1..Len(r) : r[i].project = asking.project},
         \/ Cardinality(best) = MaxPassages
         \/ best = {i \in 1..Len(r) : r[i].project = asking.project},
         \A i \in best : \A j \in 1..Len(r) :
           r[j].project = asking.project /\ j \notin best
             => CloseTo(asking, r[i].text) >= CloseTo(asking, r[j].text)
  PROVE  Closest(past, owner, asking, {r[i] : i \in best})
<1> DEFINE result == {r[i] : i \in best}
           row == [i \in best |-> r[i]]
<1>0. Len(r) \in Nat
  OBVIOUS
<1>1. \A d : d \in result <=> \E i \in best : d = r[i]
  OBVIOUS
<1>r. row \in [best -> result] /\ \A i \in best : row[i] = r[i]
  OBVIOUS
<1> HIDE DEF result, row
<1>2. Cardinality(result) = Cardinality(best)
  <2>0. \A i \in best : i \in 1..Len(r)
    OBVIOUS
  <2>1. IsFiniteSet(1..Len(r)) /\ best \in SUBSET (1..Len(r))
    <3>1. 1 \in Int /\ Len(r) \in Int
      BY <1>0
    <3>2. IsFiniteSet(1..Len(r))
      BY <3>1, FS_Interval
    <3> QED
      BY <2>0, <3>2
  <2>2. IsFiniteSet(best)
    BY <2>1, FS_Subset
  <2>3. \A i, j \in best : row[i] = row[j] => i = j
    BY <1>r, <2>1 DEF Complete, AllDiffer
  <2>4. row \in Injection(best, result)
    BY <1>r, <2>3 DEF Injection, IsInjective
  <2>5. row \in Surjection(best, result)
    BY <1>1, <1>r DEF Surjection
  <2> QED
    BY <2>2, <2>4, <2>5, FS_Surjection
<1>3. ASSUME NEW c \in Chunks, c \notin result,
             NEW s \in Transcripts, owner[s] = asking.project, IsPassage(c, owner, s, past[s])
      PROVE  /\ Cardinality(result) = MaxPassages
             /\ \A d \in result : CloseTo(asking, d.text) >= CloseTo(asking, c.text)
  <2>1. past[s] \in Messages
    OBVIOUS
  <2>2. c.project = asking.project
    BY <1>3, <2>1, PassagesAreChunks
  <2>3. PICK j \in 1..Len(r) : r[j] = c
    BY <1>3 DEF Complete, Has
  <2>4. j \notin best
    BY <1>1, <1>3, <2>3
  <2>5. Cardinality(best) = MaxPassages
    BY <2>2, <2>3, <2>4
  <2>6. ASSUME NEW d \in result PROVE CloseTo(asking, d.text) >= CloseTo(asking, c.text)
    <3>1. PICK i \in best : d = r[i]
      BY <1>1
    <3> QED
      BY <2>2, <2>3, <2>4, <3>1
  <2> QED
    BY <1>2, <2>5, <2>6
<1>4. Closest(past, owner, asking, result)
  BY <1>3 DEF Closest
<1> QED
  BY <1>4 DEF result

LEMMA QueryAnswered ==
  ASSUME PassagesInv, Passages!Query
  PROVE  PassagesInv'
<1>1. /\ readerPc = "rank" /\ readerPc' = "answered"
      /\ UNCHANGED <<transcript, directoryOf, projectOf, vectors, meta, builderPc, directories, index, build, snapshot,
                     readVectors, readMeta, question>>
  BY DEF Passages!Query, Passages!built, Passages!saved, Passages!builder
<1>n. Named' = Named /\ Named \in Owners
  BY <1>1, NamesStay, NamesAreOwners DEF PassagesInv, PassageState
<1>2. /\ PassageState' /\ PastInv' /\ BuilderInv' /\ IsMeta(meta)' /\ IsMeta(readMeta)'
      /\ IsVectors(vectors)' /\ IsVectors(readVectors)'
  BY <1>1, <1>n
  DEF PassagesInv, PassageState, PastInv, Passages!Nothing, BuilderInv, IsMeta, Passages!NoFile, IsVectors
<1>3. ReaderInv'
  BY <1>1 DEF PassagesInv, ReaderInv
<1> DEFINE r == readMeta.rows
           mine == {i \in 1..Len(r) : r[i].project = question.project}
<1>4. PICK best \in SUBSET Passages!InProject :
        /\ Passages!IsTop(best)
        /\ \/ answer' = {r[i] : i \in best}
           \/ (\E i \in Passages!Unmatched : Passages!MayComeTo(i, best)) /\ answer' = {}
  BY DEF Passages!Query
<1>5. /\ r \in Seq(Chunks) /\ readMeta.of \in 1..MaxIndexings /\ Genuine(r, Named, transcript)
      /\ snapshot[readMeta.of] \in [Transcripts -> Messages] /\ transcript \in [Transcripts -> Messages]
      /\ Complete(r, snapshot[readMeta.of], Named)
  <2>1. readMeta.of > 0
    BY <1>1 DEF PassagesInv, ReaderInv
  <2> QED
    BY <2>1, PassageTypes DEF PassagesInv, IsMeta, PassageState
<1>6. DOMAIN r = 1..Len(r) /\ Len(r) \in Nat
  BY <1>5
<1>7. Passages!InProject = {i \in DOMAIN readVectors.rows \cap DOMAIN r : r[i].project = question.project}
  BY DEF Passages!InProject, Passages!Ranked
<1> HIDE DEF r, mine
<1>8. ASSUME NEW c \in {r[i] : i \in best}
      PROVE  c \in Chunks /\ c.project = question.project /\ IsGenuine(c, Named, transcript)
  <2>1. PICK i \in 1..Len(r) : c = r[i] /\ r[i].project = question.project
    BY <1>6, <1>7
  <2> QED
    BY <1>5, <2>1 DEF Genuine
<1>9. ASSUME NEW c \in answer'
      PROVE  c \in Chunks /\ c.project = question.project /\ IsGenuine(c, Named, transcript)
  BY <1>4, <1>8, <1>9
<1>10. ASSUME readVectors.of = readMeta.of
       PROVE  Closest(snapshot[readMeta.of], Named, question, answer')
  <2>1. readVectors.rows = TextsOf(r)
    BY <1>5, <1>10 DEF PassagesInv, ReaderInv, r
  <2>2. DOMAIN readVectors.rows = 1..Len(r) /\ \A i \in 1..Len(r) : readVectors.rows[i] = r[i].text
    BY <1>6, <2>1 DEF TextsOf
  <2>3. Passages!InProject = mine
    BY <1>6, <1>7, <2>2 DEF mine
  <2>4. Passages!Unmatched = {}
    BY <1>6, <2>2 DEF Passages!Unmatched, Passages!Ranked, r
  <2>5. answer' = {r[i] : i \in best}
    BY <1>4, <2>4
  <2>6. \A i \in 1..Len(r) : Passages!Score(i) = CloseTo(question, r[i].text)
    BY <2>2, PassageCardinality DEF Passages!Score, Passages!Closeness, CloseTo
  <2>7. Cardinality(best) = MaxPassages \/ best = mine
    BY <1>4, <2>3, PassageCardinality DEF Passages!IsTop
  <2>8. ASSUME NEW i \in best, NEW j \in 1..Len(r), r[j].project = question.project, j \notin best
        PROVE  CloseTo(question, r[i].text) >= CloseTo(question, r[j].text)
    <3>1. i \in 1..Len(r) /\ j \in Passages!InProject \ best
      BY <1>4, <2>3, <2>8 DEF mine
    <3>2. Passages!Score(i) >= Passages!Score(j)
      BY <1>4, <3>1 DEF Passages!IsTop
    <3> QED
      BY <2>6, <3>1, <3>2
  <2>9. best \subseteq mine
    BY <1>4, <2>3
  <2> DEFINE past == snapshot[readMeta.of]
  <2>10. past \in [Transcripts -> Messages] /\ Complete(r, past, Named)
    BY <1>5
  <2> HIDE DEF past
  <2>11. Closest(past, Named, question, {r[i] : i \in best})
    BY <1>5, <1>n, <2>7, <2>8, <2>9, <2>10, FoundIsClosest DEF mine
  <2> QED
    BY <2>5, <2>11 DEF past
<1>11. AnswerInv'
  BY <1>1, <1>n, <1>9, <1>10 DEF AnswerInv
<1> QED
  BY <1>2, <1>3, <1>11 DEF PassagesInv

LEMMA PassagesStep ==
  ASSUME PassagesInv, Passages!Next \/ UNCHANGED indexVars
  PROVE  PassagesInv'
<1>1. CASE UNCHANGED indexVars
  <2>1. UNCHANGED <<directoryOf, projectOf>>
    BY <1>1 DEF indexVars
  <2>2. Named' = Named
    BY <2>1, NamesStay
  <2> QED
    BY <1>1, <2>2 DEF indexVars, PassagesInv, PassageState, PastInv, Passages!Nothing, BuilderInv, IsMeta,
                      Passages!NoFile, IsVectors, ReaderInv, AnswerInv
<1> QED
  BY <1>1, PassagesGrow, BuildBegins, DirectoryAdded, BuildSaved, BuildFails, FilesLoaded, QueryAnswered
  DEF Passages!Next, Passages!Builder, Passages!Reader

\* Where a directory is not shared, its name is that of each of its sessions.
LEMMA NamedAlike ==
  ASSUME PassageState, NEW s \in Transcripts, ~Passages!IsShared(directoryOf[s])
  PROVE  projectOf[s] \in {Named[s], Passages!NoCwd}
<1> DEFINE d == directoryOf[s]
           S == Passages!Placed(d)
<1>1. Named[s] = IF S = {} THEN d ELSE projectOf[Passages!FirstOf(S)]
  BY DEF Named, Passages!NameOf
<1>2. /\ S \in SUBSET Nat /\ \A t, u \in S : projectOf[t] = projectOf[u]
      /\ projectOf[s] # Passages!NoCwd => s \in S
  BY PassageTypes DEF Passages!IsShared, Passages!Placed, Passages!SessionsIn
<1> HIDE DEF S, d
<1>3. ASSUME s \in S PROVE projectOf[s] = Named[s]
  <2>1. \E t \in S : \A u \in S : t <= u
    BY <1>2, <1>3, LeastNumber
  <2>2. Passages!FirstOf(S) \in S
    BY <2>1 DEF Passages!FirstOf
  <2> QED
    BY <1>1, <1>2, <1>3, <2>2
<1> QED
  BY <1>2, <1>3

LEMMA PassagesPromise ==
  ASSUME PassagesInv
  PROVE  PassagesAreClosest
<1>1. SUFFICES ASSUME readerPc = "answered" PROVE Passages!PassagesAreClosest
  BY DEF PassagesAreClosest, Passages!PassagesAreClosest
<1>2. /\ Named \in Owners /\ transcript \in [Transcripts -> Messages] /\ question.project # Passages!NoCwd
      /\ \A s \in Transcripts : Named[s] = Passages!NameOf(directoryOf[s])
  BY NamesAreOwners, AskedAssumption DEF PassagesInv, PassageState, Named
<1>3. ASSUME NEW c \in answer
      PROVE  /\ c.project = question.project
             /\ IF Passages!IsShared(directoryOf[c.session]) THEN Passages!NameOf(directoryOf[c.session]) = c.project
                ELSE projectOf[c.session] \in {c.project, Passages!NoCwd}
             /\ \E i \in DOMAIN Passages!Windows(transcript[c.session]) :
                  Passages!IsPrefix(c.text, Passages!Windows(transcript[c.session])[i])
  <2>1. /\ c \in Chunks /\ c.project = question.project /\ Named[c.session] = c.project
        /\ Excerpt(c.text, transcript[c.session])
    BY DEF PassagesInv, AnswerInv, IsGenuine
  <2>2. c.text \in Messages /\ c.session \in Transcripts /\ transcript[c.session] \in Messages
    BY <1>2, <2>1 DEF Chunks
  <2>3. CASE Passages!IsShared(directoryOf[c.session])
    BY <1>2, <2>1, <2>2, <2>3, ExcerptIsPrefix
  <2>4. CASE ~Passages!IsShared(directoryOf[c.session])
    <3>1. projectOf[c.session] \in {c.project, Passages!NoCwd}
      BY <2>1, <2>2, <2>4, NamedAlike DEF PassagesInv
    <3> QED
      BY <2>1, <2>2, <2>4, <3>1, ExcerptIsPrefix
  <2> QED
    BY <2>3, <2>4
<1>a. ASSUME NEW s \in Passages!Asked PROVE s \in Transcripts /\ Named[s] = question.project
  <2>1. s \in Transcripts
    BY DEF Passages!Asked
  <2>2. CASE Passages!IsShared(directoryOf[s])
    BY <1>2, <2>1, <2>2 DEF Passages!Asked
  <2>3. CASE ~Passages!IsShared(directoryOf[s])
    <3>1. projectOf[s] = question.project
      BY <2>3 DEF Passages!Asked
    <3> QED
      BY <1>2, <2>1, <2>3, <3>1, NamedAlike DEF PassagesInv
  <2> QED
    BY <2>1, <2>2, <2>3
<1>4. ASSUME readVectors.of = readMeta.of, readMeta.of > 0,
             NEW c \in Passages!Sayings(readMeta.of) \ answer
      PROVE  /\ Passages!Cardinality(answer) = MaxPassages
             /\ \A d \in answer : Passages!Closeness(d.text) >= Passages!Closeness(c.text)
  <2> DEFINE past == snapshot[readMeta.of]
  <2>1. past \in [Transcripts -> Messages] /\ Closest(past, Named, question, answer)
    <3>1. readMeta.of \in 1..MaxIndexings
      BY <1>4, PassageTypes DEF PassagesInv, IsMeta, PassageState
    <3> QED
      BY <1>1, <1>4, <3>1 DEF PassagesInv, AnswerInv, PassageState
  <2>2. PICK s \in Transcripts : Named[s] = question.project /\ c \in Passages!ToSet(Passages!ChunksOf(s, past[s]))
    BY <1>4, <1>a DEF Passages!Sayings
  <2> HIDE DEF past
  <2>3. past[s] \in Messages
    BY <2>1
  <2>4. Has(Passages!ChunksOf(s, past[s]), c)
    <3>1. Passages!ChunksOf(s, past[s]) \in Seq(Chunks)
      BY <1>2, <2>3, ChunksOfTypes
    <3> QED
      BY <2>2, <3>1 DEF Passages!ToSet, Has
  <2>5. IsPassage(c, Named, s, past[s])
    BY <1>2, <2>3, <2>4, ChunksOfTypes
  <2>6. c \in Chunks
    BY <1>2, <2>3, <2>5, PassagesAreChunks
  <2>7. /\ Cardinality(answer) = MaxPassages
        /\ \A d \in answer : CloseTo(question, d.text) >= CloseTo(question, c.text)
    BY <1>4, <2>1, <2>2, <2>5, <2>6 DEF Closest
  <2> QED
    BY <2>7, PassageCardinality DEF CloseTo, Passages!Closeness
<1> QED
  BY <1>1, <1>3, <1>4 DEF Passages!PassagesAreClosest

\* The passages shown with a record are excerpts of its project's transcripts as they
\* are now; if the two files come from one build, the closest ones; but a directory
\* several projects share counts as one of the project it is named after
\* (transcript_rag.py: build_transcript_index, chunk_project, retrieve_for_text).
THEOREM PassagesAreClosestHolds == Spec => []PassagesAreClosest
<1>1. Init => PassagesInv
  BY PassagesInit DEF Init
<1>2. PassagesInv /\ [Next]_vars => PassagesInv'
  BY StepOfPart, PassagesStep
<1>3. PassagesInv => PassagesAreClosest
  BY PassagesPromise
<1> QED
  BY <1>1, <1>2, <1>3, PTL DEF Spec

=============================================================================
