SPECIFICATION FairSpec
CONSTANTS
  Writers = {w1, w2}
  Readers = {r1}
  general = general
  c1 = c1
  Threads <- TwoThreads
  Follows <- AllFollowC1
  NoWriter = NoWriter
  NoThread = NoThread
  SpaceReturns = FALSE
  Limit = 1
  MaxLines = 3
INVARIANTS IdsIncrease FollowerSeesThread
PROPERTIES AppendOnly PostedIsDelivered
CHECK_DEADLOCK FALSE
