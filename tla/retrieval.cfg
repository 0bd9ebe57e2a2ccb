SPECIFICATION Spec
CONSTANTS
  Records = {a, b}
  Searchers = {t1, t2}
  Watcher = w
  Faults = {"crash", "save", "scan", "embed"}
  MaxWrites = 2
  MaxSearches = 3
  MaxFaults = 1
INVARIANTS SyncedIndexAgrees AnswerIsFresh
SYMMETRY Symmetry
CHECK_DEADLOCK FALSE
