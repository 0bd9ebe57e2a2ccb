------------------------------ MODULE MCRunner ------------------------------
(* Small instances of CouncilRunner.                                       *)
EXTENDS CouncilRunner

CONSTANTS m1, m2, m3

TwoMembers == <<m1, m2>>
ThreeMembers == <<m1, m2, m3>>
=============================================================================
