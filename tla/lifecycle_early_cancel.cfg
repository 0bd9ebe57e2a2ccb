SPECIFICATION Spec
CONSTANTS
  Projects = {pa}
  NoProject = NoProject
  NoSession = NoSession
  Requests = {r1, r2, r3}
  MaxSessions = 2
  Faults = {}
  EarlyCancel = TRUE
SYMMETRY Symmetry
INVARIANTS OneActivePerProject
