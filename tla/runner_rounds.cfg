SPECIFICATION FairSpec
CONSTANTS
  m1 = m1
  m2 = m2
  m3 = m3
  Roster <- TwoMembers
  Rounds = 2
  Spokesperson = m2
  Nobody = Nobody
  IoFaults = FALSE
INVARIANTS TurnsMatchBoard EveryAnswerRecorded
PROPERTIES RunnerEnds VerdictReached
CHECK_DEADLOCK FALSE
