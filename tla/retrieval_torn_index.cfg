SPECIFICATION Spec
CONSTANTS
  Records = {a, b}
  Searchers = {t1}
  Watcher = w
  Faults = {"crash", "save"}
  MaxWrites = 3
  MaxSearches = 1
  MaxFaults = 2
INVARIANTS NoTornIndex
SYMMETRY Symmetry
CHECK_DEADLOCK FALSE
