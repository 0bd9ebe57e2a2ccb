------------------------------ MODULE Transcripts ------------------------------
(***************************************************************************)
(* Reading the transcripts of the four host CLIs (transcripts.py) while    *)
(* the host appends to them.  Capture keeps a count of the messages it has *)
(* handed out, so what matters is that the messages of a file keep their   *)
(* places when the file grows.                                             *)
(*                                                                         *)
(* A line is its kind (what the reader distinguishes), a size, and whether *)
(* it has a timestamp; the last line may be half written.                  *)
(***************************************************************************)
EXTENDS Naturals, Sequences, SequencesExt

CONSTANTS
  Chunk,    \* first bytes read from the end (TAIL_READ_BYTES)
  Growth,   \* how much more is read next (MAX_TAIL_GROWTH_FACTOR)
  Sizes,    \* sizes of a line
  MaxLines  \* bound: lines of a transcript

VARIABLES
  place,  \* the tree the transcript lies in: a host's, or none of theirs
  lines,  \* its lines
  torn    \* is the last one half written?

vars == <<place, lines, torn>>

-----------------------------------------------------------------------------
(* What each reader makes of a line: messages, with their role and whether *)
(* the text is the work of a tool.                                         *)

Say(role) == [role |-> role, tool |-> FALSE, text |-> TRUE]
Tool(role) == [role |-> role, tool |-> TRUE, text |-> TRUE]
Silent(role, tool) == [role |-> role, tool |-> tool, text |-> FALSE]

\* read_transcript and _extract_text: a message for each user or assistant line,
\* a tool's if any of its blocks is.
ClaudeLines ==
  [text |-> <<Say("user")>>, reply |-> <<Say("assistant")>>,
   replyWithTool |-> <<Tool("assistant")>>, toolResult |-> <<Silent("user", TRUE)>>,
   empty |-> <<Silent("assistant", FALSE)>>, other |-> <<>>]

\* _read_kimi_transcript: only the user's own messages, text parts and tool events.
KimiLines ==
  [userText |-> <<Say("user")>>, injectedUser |-> <<>>, textPart |-> <<Say("assistant")>>,
   thinkPart |-> <<>>, toolCall |-> <<Tool("assistant")>>, toolEvent |-> <<Tool("user")>>,
   other |-> <<>>]

\* _read_codex_transcript: the user's event and the message items; a prompt that
\* the CLI logs both ways is two messages.
CodexLines ==
  [userEvent |-> <<Say("user")>>, userItem |-> <<Say("user")>>,
   replyItem |-> <<Say("assistant")>>, systemItem |-> <<>>,
   functionCall |-> <<Tool("assistant")>>, functionOutput |-> <<Tool("user")>>,
   session_meta |-> <<>>]

\* _read_grok_transcript: synthetic user lines are dropped, tool calls follow the
\* text they came with.
GrokLines ==
  [userText |-> <<Say("user")>>, syntheticUser |-> <<>>, reply |-> <<Say("assistant")>>,
   replyWithCall |-> <<Say("assistant"), Tool("assistant")>>,
   call |-> <<Tool("assistant")>>, toolResult |-> <<Tool("user")>>, other |-> <<>>]

Reader == [claude |-> ClaudeLines, kimi |-> KimiLines, codex |-> CodexLines, grok |-> GrokLines]
Hosts == DOMAIN Reader

\* The places where kinds of two hosts' lines can meet: a file outside the trees.
KindsAt(p) == IF p = "elsewhere" THEN DOMAIN ClaudeLines \cup DOMAIN CodexLines
              ELSE DOMAIN Reader[p]

-----------------------------------------------------------------------------
\* _read_jsonl_lines: what does not parse is skipped.
Parsed == IF torn THEN Front(lines) ELSE lines

\* Mutant of HostOf: the last line tells.
HostOfLast ==
  IF place # "elsewhere" THEN place
  ELSE IF Parsed # <<>> /\ Parsed[Len(Parsed)].kind \in DOMAIN CodexLines THEN "codex" ELSE "claude"

\* _is_kimi_transcript, _is_codex_transcript, _is_grok_transcript: the tree, and
\* outside of them the first line that parses.
HostOf ==
  IF place # "elsewhere" THEN place
  ELSE IF Parsed # <<>> /\ Parsed[1].kind \in DOMAIN CodexLines THEN "codex" ELSE "claude"

MessagesOf(line) ==
  IF line.kind \in DOMAIN Reader[HostOf] THEN Reader[HostOf][line.kind] ELSE <<>>
Messages == FlattenSeq([i \in DOMAIN Parsed |-> MessagesOf(Parsed[i])])

\* What extraction counts: m.text and not m.is_tool.
Counted(m) == IF m.text /\ ~m.tool THEN <<m>> ELSE <<>>
Spoken == FlattenSeq([i \in DOMAIN Messages |-> Counted(Messages[i])])

-----------------------------------------------------------------------------
(* _last_timestamp: the file is read from its end, in growing chunks.      *)

Smaller(a, b) == IF a < b THEN a ELSE b
BytesFrom(i) == FoldSeq(LAMBDA line, sum : line.size + sum, 0, SubSeq(lines, i, Len(lines)))
Size == BytesFrom(1)

\* Mutant of ReadSizes: the first chunk has to do.
ReadSizesOnce == [n \in 0..0 |-> Smaller(Chunk, Size)]

ReadSizes ==
  LET read[n \in 0..Size] == IF n = 0 THEN Smaller(Chunk, Size) ELSE Smaller(read[n - 1] * Growth, Size)
  IN read

\* Lines that lie whole in the last `read` bytes, parse and have a timestamp.
Stamped(read) == {i \in DOMAIN Parsed : Parsed[i].stamp /\ BytesFrom(i) <= read}

LastOf(S) == CHOOSE i \in S : \A j \in S : j <= i

\* The line whose timestamp is returned, 0 for none.
LastTimestamp ==
  LET useful == {n \in DOMAIN ReadSizes : Stamped(ReadSizes[n]) # {}}
  IN IF useful = {} THEN 0
     ELSE LastOf(Stamped(ReadSizes[CHOOSE n \in useful : \A m \in useful : n <= m]))

-----------------------------------------------------------------------------
Init == place \in Hosts \cup {"elsewhere"} /\ lines = <<>> /\ torn = FALSE

\* The host writes a line in two parts.
Begin(kind, size, stamp) ==
  /\ ~torn /\ Len(lines) < MaxLines
  /\ lines' = Append(lines, [kind |-> kind, size |-> size, stamp |-> stamp])
  /\ torn' = TRUE
  /\ UNCHANGED place

Finish == torn /\ torn' = FALSE /\ UNCHANGED <<place, lines>>

Next ==
  \/ \E kind \in KindsAt(place), size \in Sizes, stamp \in BOOLEAN : Begin(kind, size, stamp)
  \/ Finish

Spec == Init /\ [][Next]_vars

-----------------------------------------------------------------------------
(* Properties.                                                             *)

\* The counted messages keep their places while the file grows and lines are
\* torn: a watermark that was right stays right.
SpokenGrows == [][IsPrefix(Spoken, Spoken')]_vars

\* Reading in chunks finds the last timestamp of the file.
TimestampIsLast ==
  LET all == {i \in DOMAIN Parsed : Parsed[i].stamp}
  IN LastTimestamp = IF all = {} THEN 0 ELSE LastOf(all)
=============================================================================
