------------------------------- MODULE MCBoard -------------------------------
(* Small instances of CouncilBoard: whoever follows, follows the council's  *)
(* thread.                                                                  *)
EXTENDS CouncilBoard, TLC

CONSTANTS general, c1

TwoThreads == {general, c1}
Symmetry == Permutations(Writers)

AllFollowC1 == [r \in Readers |-> c1]
=============================================================================
