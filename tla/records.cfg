SPECIFICATION Spec
CONSTANTS
  Requests = {r1, r2}
  Bodies = {b1, b2}
  MaxNumber = 3
  Overlap = FALSE
SYMMETRY Symmetry
INVARIANTS LintTellsCutLinks
PROPERTIES DecidedIsFinal
CHECK_DEADLOCK FALSE
