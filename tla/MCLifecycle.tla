----------------------------- MODULE MCLifecycle -----------------------------
(* Small instances of CouncilLifecycle.                                     *)
EXTENDS CouncilLifecycle, TLC

Symmetry == Permutations(Projects) \cup Permutations(Requests)
=============================================================================
