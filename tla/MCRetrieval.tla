----------------------------- MODULE MCRetrieval -----------------------------
(* Symmetric threads and records.                                             *)
EXTENDS RetrievalCache, TLC
Symmetry == Permutations(Searchers) \cup Permutations(Records)
=============================================================================
