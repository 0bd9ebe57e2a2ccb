-------------------------- MODULE TranscriptIndex --------------------------
(***************************************************************************)
(* The index of transcript passages (transcript_rag.py): a builder that    *)
(* cuts every transcript into chunks, embeds them and saves two files, and *)
(* the daemon, which loads both to answer a query (daemon/services.py).    *)
(*                                                                         *)
(* A transcript is a sequence of Utterances, "tool" being a tool's.  A     *)
(* vector is the text it was made from; the more messages of a text say    *)
(* what a query asks for, the closer it is.                                *)
(*                                                                         *)
(* Claude keeps the transcripts of a project in a directory, Codex those   *)
(* of a day.  All chunks of a directory get one project: that of its first *)
(* transcript with a cwd.                                                  *)
(***************************************************************************)
EXTENDS Naturals, Sequences, SequencesExt, FiniteSets

CONSTANTS
  Transcripts,  \* session ids (numbers, in the order glob sorts them)
  ProjectNames,
  Noise,        \* those of paths that are left out (_is_noise_path)
  Directories,
  Days,         \* directories of Codex
  AskedProject, \* the project a query is about
  Utterances,   \* texts of messages, "tool" one of them
  Window,       \* messages of a chunk (CHUNK_WINDOW)
  MaxChars,     \* messages of a chunk whose text is kept (CHUNK_MAX_CHARS)
  MaxPassages,  \* passages of an answer
  FirstLengths, \* lengths a transcript may have when it is indexed first
  MaxGrowth,    \* bound: messages added later
  MaxIndexings  \* bound: builds of the index

VARIABLES
  transcript,   \* session -> its messages
  directoryOf,  \* session -> directory
  projectOf,    \* session -> the project its cwd names, or NoCwd
  growth,       \* messages added so far
  vectors,      \* vectors.npy: [of |-> build, rows |-> texts]
  meta,         \* meta.json: [of |-> build, rows |-> chunks]
  builderPc,    \* the builder: "idle", "add", "vectors", "meta" and, with the file opened, "...Open"
  directories,  \* directory -> how often it has still to be indexed
  index,        \* its chunks, in the order they were added
  build,        \* builds so far
  snapshot,     \* history: build -> session -> its messages as they were read
  readerPc,     \* a query: "idle", "meta", "rank", "answered"
  readVectors,  \* the two files as it loaded them
  readMeta,
  question,     \* [text, project]
  answer        \* chunks of the answer

built == <<transcript, directoryOf, projectOf, growth>>
saved == <<vectors, meta>>
builder == <<builderPc, directories, index, build, snapshot>>
reader == <<readerPc, readVectors, readMeta, question, answer>>
vars == <<built, saved, builder, reader>>

NoFile == [of |-> 0, rows |-> <<>>]   \* there is none, or it cannot be read
Nothing == [s \in Transcripts |-> <<>>]
NoCwd == "no cwd"
NoDirectory == [d \in Directories |-> 0]

SessionsIn(d) == {s \in Transcripts : directoryOf[s] = d}
Placed(d) == {s \in SessionsIn(d) : projectOf[s] # NoCwd}

Init ==
  /\ transcript \in [Transcripts -> UNION {[1..n -> Utterances] : n \in FirstLengths}]
  /\ directoryOf \in [Transcripts -> Directories]
  /\ projectOf \in [Transcripts -> ProjectNames \cup {NoCwd}]
  /\ \A d \in Directories \ Days : \A s, t \in Placed(d) : projectOf[s] = projectOf[t]
  /\ growth = 0
  /\ vectors = NoFile /\ meta = NoFile
  /\ builderPc = "idle" /\ directories = NoDirectory /\ index = <<>> /\ build = 0
  /\ snapshot = [b \in 1..MaxIndexings |-> Nothing]
  /\ readerPc = "idle" /\ readVectors = NoFile /\ readMeta = NoFile
  /\ question = [text |-> "tool", project |-> AskedProject] /\ answer = {}

Grow ==
  /\ growth < MaxGrowth
  /\ \E s \in Transcripts, text \in Utterances : transcript' = [transcript EXCEPT ![s] = Append(@, text)]
  /\ growth' = growth + 1
  /\ UNCHANGED <<directoryOf, projectOf, saved, builder, reader>>

-----------------------------------------------------------------------------
(* chunk_project.                                                          *)

\* The windows of a transcript, the last of which may be short.
Windows(messages) ==
  LET count == (Len(messages) + Window - 1) \div Window
  IN [i \in 1..count |->
        SubSeq(messages, (i - 1) * Window + 1,
               IF i * Window < Len(messages) THEN i * Window ELSE Len(messages))]

HasSignal(group) == \E i \in DOMAIN group : group[i] # "tool"
Kept(group) == SubSeq(group, 1, IF MaxChars < Len(group) THEN MaxChars ELSE Len(group))

\* _project_name
FirstOf(sessions) == CHOOSE s \in sessions : \A t \in sessions : s <= t
NameOf(d) == IF Placed(d) = {} THEN d ELSE projectOf[FirstOf(Placed(d))]

ChunkOfGroup(s, group) == [project |-> NameOf(directoryOf[s]), session |-> s, text |-> Kept(group)]

ChunksOf(s, messages) ==
  FlattenSeq([i \in DOMAIN Windows(messages) |->
                LET group == Windows(messages)[i] IN IF HasSignal(group) THEN <<ChunkOfGroup(s, group)>> ELSE <<>>])

\* The sessions of a set in the order of their names.
Sorted(sessions) ==
  [i \in 1..Cardinality(sessions) |->
     CHOOSE s \in sessions : Cardinality({t \in sessions : t < s}) = i - 1]

ChunkProject(d) ==
  LET sessions == Sorted(SessionsIn(d))
  IN FlattenSeq([i \in DOMAIN sessions |-> ChunksOf(sessions[i], transcript[sessions[i]])])

\* Mutant of ContentHash: the session does not count.
TextHash(chunk) == <<chunk.project, chunk.text>>

ContentHash(chunk) == <<chunk.project, chunk.session, chunk.text>>

\* add_chunks: what the index has is passed over, also within one call.
IsKnown(chunks, i) ==
  \E c \in ToSet(index \o SubSeq(chunks, 1, i - 1)) : ContentHash(c) = ContentHash(chunks[i])
AddChunks(chunks) ==
  index \o FlattenSeq([i \in DOMAIN chunks |-> IF IsKnown(chunks, i) THEN <<>> ELSE <<chunks[i]>>])

-----------------------------------------------------------------------------
(* build_transcript_index.                                                 *)

\* list_projects: a directory of Codex is listed once with each of its transcripts that
\* is not noise, one of Claude if its name is not.
IsNoise(name) == name \in Noise \cup {NoCwd}
ListedTimes(d) ==
  IF d \in Days THEN Cardinality({s \in SessionsIn(d) : ~IsNoise(projectOf[s])})
  ELSE IF Placed(d) = {} \/ IsNoise(NameOf(d)) THEN 0 ELSE 1

BeginIndexing ==
  /\ builderPc = "idle" /\ build < MaxIndexings
  /\ builderPc' = "add" /\ build' = build + 1
  /\ directories' = [d \in Directories |-> ListedTimes(d)]
  /\ index' = <<>>
  /\ UNCHANGED <<built, saved, snapshot, reader>>

AddDirectory ==
  /\ builderPc = "add"
  /\ \E d \in Directories :
       /\ directories[d] > 0
       /\ index' = AddChunks(ChunkProject(d))
       /\ directories' = [directories EXCEPT ![d] = @ - 1]
       /\ snapshot' = [snapshot EXCEPT ![build] =
                         [s \in Transcripts |-> IF directoryOf[s] = d THEN transcript[s] ELSE @[s]]]
  /\ UNCHANGED <<built, saved, builderPc, build, reader>>

\* The builder's process is gone, and with it the index in its memory.
End == builderPc' = "idle" /\ index' = <<>> /\ directories' = NoDirectory

\* save: both files are written in place.
OpenVectors ==
  /\ builderPc = "add" /\ directories = NoDirectory
  /\ vectors' = NoFile /\ builderPc' = "vectors"
  /\ UNCHANGED <<built, meta, directories, index, build, snapshot, reader>>

SaveVectors ==
  /\ builderPc = "vectors"
  /\ vectors' = [of |-> build, rows |-> [i \in DOMAIN index |-> index[i].text]]
  /\ builderPc' = "meta"
  /\ UNCHANGED <<built, meta, directories, index, build, snapshot, reader>>

OpenMeta ==
  /\ builderPc = "meta"
  /\ meta' = NoFile /\ builderPc' = "metaOpen"
  /\ UNCHANGED <<built, vectors, directories, index, build, snapshot, reader>>

SaveMeta ==
  /\ builderPc = "metaOpen"
  /\ meta' = [of |-> build, rows |-> index]
  /\ End
  /\ UNCHANGED <<built, vectors, build, snapshot, reader>>

\* The embedder raises, or the builder dies.
Fail ==
  /\ builderPc # "idle"
  /\ End
  /\ snapshot' = IF builderPc = "add" THEN [snapshot EXCEPT ![build] = Nothing] ELSE snapshot
  /\ UNCHANGED <<built, saved, build, reader>>

-----------------------------------------------------------------------------
(* retrieve_for_text; a file that is missing or cannot be read means no    *)
(* passages (_retrieve_source_passages catches what is raised).  Bound:    *)
(* one query, while or after the last build.                               *)

Ask ==
  /\ readerPc = "idle" /\ build = MaxIndexings
  /\ question' \in [text : Utterances \ {"tool"}, project : {AskedProject}]
  /\ readVectors' = vectors
  /\ readMeta' = NoFile /\ answer' = {}
  /\ readerPc' = IF vectors = NoFile THEN "answered" ELSE "meta"
  /\ UNCHANGED <<built, saved, builder>>

ReadMeta ==
  /\ readerPc = "meta"
  /\ readMeta' = meta
  /\ readerPc' = IF meta = NoFile THEN "answered" ELSE "rank"
  /\ UNCHANGED <<built, saved, builder, readVectors, question, answer>>

Closeness(text) == Cardinality({i \in DOMAIN text : text[i] = question.text})
Score(i) == Closeness(readVectors.rows[i])
Ranked == DOMAIN readVectors.rows
InProject == {i \in Ranked \cap DOMAIN readMeta.rows : readMeta.rows[i].project = question.project}

\* Rows that may end query's loop as its results: the closest of the project.
IsTop(top) ==
  /\ Cardinality(top) = MaxPassages \/ (top = InProject /\ Cardinality(top) < MaxPassages)
  /\ \A i \in top, j \in InProject \ top : Score(i) >= Score(j)

\* A row without meta data, if the loop comes to it, raises.
ComesTo(i, top) == Cardinality(top) < MaxPassages \/ \E j \in top : Score(i) > Score(j)
MayComeTo(i, top) == Cardinality(top) < MaxPassages \/ \E j \in top : Score(i) >= Score(j)
Unmatched == Ranked \ DOMAIN readMeta.rows

Query ==
  /\ readerPc = "rank"
  /\ \E top \in SUBSET InProject :
       /\ IsTop(top)
       /\ \/ /\ ~\E i \in Unmatched : ComesTo(i, top)
             /\ answer' = {readMeta.rows[i] : i \in top}
          \/ /\ \E i \in Unmatched : MayComeTo(i, top)
             /\ answer' = {}
  /\ readerPc' = "answered"
  /\ UNCHANGED <<built, saved, builder, readVectors, readMeta, question>>

Builder ==
  \/ BeginIndexing \/ AddDirectory \/ OpenVectors \/ SaveVectors
  \/ OpenMeta \/ SaveMeta \/ Fail
Reader == Ask \/ ReadMeta \/ Query
Next == Grow \/ Builder \/ Reader

Spec == Init /\ [][Next]_vars

-----------------------------------------------------------------------------
(* Properties.                                                             *)

\* Transcripts of several projects lie in d.
IsShared(d) == \E s, t \in Placed(d) : projectOf[s] # projectOf[t]

\* Transcripts of the project asked for, but of those in a shared directory only what
\* goes by its name.
Asked ==
  {s \in Transcripts :
     IF IsShared(directoryOf[s]) THEN NameOf(directoryOf[s]) = question.project
     ELSE projectOf[s] = question.project}

\* Their chunks that hold something said, as build b read them last.
Sayings(b) == UNION {ToSet(ChunksOf(s, snapshot[b][s])) : s \in Asked}

\* The passages shown with a record are excerpts of its project's transcripts, or of
\* one without a cwd next to them, as they are now, whatever build they come from;
\* and unless the two files were loaded from different builds, no excerpt that is
\* closer, and none that there was room for, is missing.  Except that a directory
\* shared by several projects (a day of Codex) counts as one of the project that its
\* first transcript names: its other projects' excerpts are shown with that project's
\* records, and with their own they are missing (transcript_rag.py).
PassagesAreClosest ==
  readerPc = "answered" =>
    /\ \A c \in answer :
         /\ c.project = question.project
         /\ IF IsShared(directoryOf[c.session]) THEN NameOf(directoryOf[c.session]) = c.project
            ELSE projectOf[c.session] \in {c.project, NoCwd}
         /\ \E i \in DOMAIN Windows(transcript[c.session]) :
              IsPrefix(c.text, Windows(transcript[c.session])[i])
    /\ readVectors.of = readMeta.of /\ readMeta.of > 0 =>
         \A c \in Sayings(readMeta.of) \ answer :
           /\ Cardinality(answer) = MaxPassages
           /\ \A d \in answer : Closeness(d.text) >= Closeness(c.text)
=============================================================================
