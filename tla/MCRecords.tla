------------------------------ MODULE MCRecords ------------------------------
(* Small instances of RecordStore: requests and texts are interchangeable.   *)
EXTENDS RecordStore, TLC

Symmetry == Permutations(Requests) \cup Permutations(Bodies)
=============================================================================
