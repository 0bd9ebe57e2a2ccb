--------------------------- MODULE CouncilVerdict ---------------------------
(***************************************************************************)
(* What one council session promises to whoever reads its file: the status *)
(* that is shown, the answers recorded so far and whether a decision       *)
(* record is named.  No threads, no processes, no copies.                  *)
(***************************************************************************)
EXTENDS Naturals

CONSTANTS Members, Rounds

VARIABLES
  status,    \* as in the session file
  answers,   \* <<member, round>> of every turn recorded as done
  recorded   \* the file names a decision record

vars == <<status, answers, recorded>>

Answered(rnd) == \E m \in Members : <<m, rnd>> \in answers

Init ==
  /\ status \in {"pending", "cancelled"}
  /\ answers = {}
  /\ recorded = FALSE

Begin ==
  /\ status = "pending"
  /\ status' = "running"
  /\ UNCHANGED <<answers, recorded>>

\* The answers of one round appear together; a deliberation round needs an
\* answer in the round before, the synthesis (round Rounds + 1) is a single
\* answer that needs an answered first round.
RecordAnswers ==
  /\ status = "running"
  /\ \E rnd \in 1..(Rounds + 1), ms \in SUBSET Members :
       /\ ms # {}
       /\ rnd \in 2..Rounds => Answered(rnd - 1)
       /\ rnd = Rounds + 1 => Answered(1) /\ \E m \in Members : ms = {m}
       /\ ~Answered(rnd)
       /\ answers' = answers \cup {<<m, rnd>> : m \in ms}
  /\ UNCHANGED <<status, recorded>>

\* Agreement needs the synthesis; any failure may end the session.
Converge ==
  /\ status = "running"
  /\ Answered(Rounds + 1)
  /\ status' = "converged"
  /\ recorded' \in BOOLEAN
  /\ UNCHANGED answers

\* It may take the synthesis back.
FailSession ==
  /\ status = "running"
  /\ status' = "failed"
  /\ answers' \in {answers, {a \in answers : a[2] <= Rounds}}
  /\ UNCHANGED recorded

\* A cancel wins over everything and may take back what was recorded since
\* the session was looked up, or bring back the synthesis that a failure took
\* back since.
Cancel ==
  /\ status' = "cancelled"
  /\ \/ answers' \in SUBSET answers
     \/ /\ status \in {"failed", "cancelled"} /\ ~Answered(Rounds + 1)
        /\ \E m \in Members : answers' = answers \cup {<<m, Rounds + 1>>}
  /\ recorded' \in {recorded, FALSE}

Next == Begin \/ RecordAnswers \/ Converge \/ FailSession \/ Cancel

Spec == Init /\ [][Next]_vars
=============================================================================
