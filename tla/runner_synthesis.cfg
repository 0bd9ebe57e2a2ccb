SPECIFICATION Spec
CONSTANTS
  m1 = m1
  m2 = m2
  m3 = m3
  Roster <- ThreeMembers
  Rounds = 1
  Spokesperson = m2
  Nobody = Nobody
  IoFaults = TRUE
INVARIANTS RecordNeedsSynthesis NoChildSurvivesNormalExit
PROPERTIES ImplementsVerdict RunnerNeverDropsTurns
CHECK_DEADLOCK FALSE
