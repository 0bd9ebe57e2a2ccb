---------------------------- MODULE CouncilPrompt ----------------------------
(***************************************************************************)
(* The prompt of a turn (council/prompt.py: compose_council_prompt;        *)
(* council/runner.py: _build_turn_prompt): layers, question and memory,    *)
(* as much of the board's end as fits, found by bisection, and the turn's  *)
(* instructions.  A text is its kind and its length.                       *)
(***************************************************************************)
EXTENDS Naturals, Sequences, SequencesExt

CONSTANTS
  MaxChars,    \* MAX_PROMPT_CHARS_TOTAL
  Sizes,       \* lengths of messages
  MaxMessages, \* bound: messages of the thread
  Bases        \* lengths of all the rest

VARIABLES
  config, \* what of the prompt the config and the prompt file set
  round,  \* is the board read (later rounds)?
  base,   \* length of all but the board
  board,  \* lengths of the thread's messages, oldest first
  low, high, \* the bisection
  prompt  \* the kinds of the sections, <<>> until it is composed

vars == <<config, round, base, board, low, high, prompt>>

When(condition, section) == IF condition THEN <<section>> ELSE <<>>

\* resolve_prompt_layers and compose_council_prompt: what a project or a role
\* says comes after the preamble, and the reminder after both.
Sections ==
  <<"preamble">>
  \o When(config.global /\ ~config.replaceGlobal, "global")
  \o When(config.guidance, "guidance")
  \o When(config.role, "role")
  \o <<"reminder", "question">>
  \o When(config.memory, "memory")

\* _prompt_for_remaining; the header and the tags around the board are one long.
Length(remaining) ==
  FoldSeq(LAMBDA size, sum : size + sum, base, remaining) + (IF remaining = <<>> THEN 0 ELSE 1)

\* board_messages[n:]
From(n) == SubSeq(board, n + 1, Len(board))

Init ==
  /\ config \in [global : BOOLEAN, replaceGlobal : BOOLEAN, guidance : BOOLEAN, role : BOOLEAN, memory : BOOLEAN]
  /\ round \in {1, 2} /\ base \in Bases
  /\ board \in IF round = 1 THEN {<<>>} ELSE UNION {[1..n -> Sizes] : n \in 0..MaxMessages}
  /\ low = 0 /\ high = Len(board) /\ prompt = <<>>

\* Mutant of Bisect: the middle is taken for decided either way.
BisectPast ==
  LET mid == (low + high) \div 2
      fits == From(mid) = <<>> \/ Length(From(mid)) <= MaxChars
  IN /\ low < high
     /\ high' = IF fits /\ mid > low THEN mid - 1 ELSE IF fits THEN mid ELSE high
     /\ low' = IF fits THEN low ELSE mid + 1
     /\ UNCHANGED <<config, round, base, board, prompt>>

\* _compose_with_board_budget, one turn of its loop.
Bisect ==
  LET mid == (low + high) \div 2
      fits == From(mid) = <<>> \/ Length(From(mid)) <= MaxChars
  IN /\ low < high
     /\ high' = IF fits THEN mid ELSE high
     /\ low' = IF fits THEN low ELSE mid + 1
     /\ UNCHANGED <<config, round, base, board, prompt>>

Compose ==
  /\ low = high /\ prompt = <<>>
  /\ prompt' = Sections \o [i \in 1..(Len(board) - low) |-> "message"] \o <<"your turn">>
  /\ UNCHANGED <<config, round, base, board, low, high>>

Next == Bisect \/ Compose
Spec == Init /\ [][Next]_vars

-----------------------------------------------------------------------------
\* A composed prompt keeps the limit whenever the rest alone does, leaves out no
\* message that still fits and only the oldest, and whatever is left out or
\* replaced, the preamble comes first and the reminder after all that a project
\* supplied.
PromptKeepsWhatFits ==
  prompt # <<>> =>
    /\ base <= MaxChars => Length(From(low)) <= MaxChars
    /\ \A n \in 0..(low - 1) : Length(From(n)) > MaxChars
    /\ prompt[1] = "preamble"
    /\ \A i, j \in DOMAIN prompt :
         prompt[i] \in {"global", "guidance", "role"} /\ prompt[j] = "reminder" => i < j
=============================================================================
