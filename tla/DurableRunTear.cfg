SPECIFICATION Spec
CONSTANTS
  c1 = c1
  c2 = c2
  Configs <- MCConfigs
  N = 3
  MaxRetries = 1
  MaxRelaunches = 1
  MaxSessions = 3
  Faults <- MCTear
INVARIANTS
  NeverRespent
CHECK_DEADLOCK FALSE
