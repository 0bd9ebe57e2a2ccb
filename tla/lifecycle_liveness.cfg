SPECIFICATION FairSpec
CONSTANTS
  Projects = {pa}
  NoProject = NoProject
  NoSession = NoSession
  Requests = {r1, r2}
  MaxSessions = 2
  Faults = {"crash", "spawn", "ps"}
  EarlyCancel = FALSE
PROPERTIES DeadRunnerIsReported CancelEndsSession
