SPECIFICATION Spec
CONSTANTS
  Projects = {pa}
  NoProject = NoProject
  NoSession = NoSession
  Requests = {r1, r2, r3}
  MaxSessions = 3
  Faults = {"crash", "restart", "spawn", "ps"}
  EarlyCancel = FALSE
SYMMETRY Symmetry
INVARIANTS OneActivePerProject WorkingRunnerIsVisible
PROPERTIES FinishedStaysFinished VerdictNotReversed
CHECK_DEADLOCK FALSE
