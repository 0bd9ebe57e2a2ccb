SPECIFICATION Spec
CONSTANTS
  Writers = {w1, w2, w3}
  Readers = {}
  general = general
  c1 = c1
  Threads <- TwoThreads
  Follows <- AllFollowC1
  NoWriter = NoWriter
  NoThread = NoThread
  SpaceReturns = TRUE
  Limit = 1
  MaxLines = 3
INVARIANTS AckedIsOnBoard
SYMMETRY Symmetry
CHECK_DEADLOCK FALSE
