SPECIFICATION FairSpec
CONSTANTS
  w1 = w1
  w2 = w2
  Workers <- MCWorkers
  Main = main
  Ends <- MCEnds
  N = 4
  Seeds = 1
  Retries = 1
  MaxCalls = 4
  MaxCost = 1
  Dearest = 2
  MaxSessions = 2
INVARIANTS
  TypeOK
  LossIsBounded
  SerialSpendIsCapped
PROPERTIES
  ImplementsExtraction
  SessionEnds
CHECK_DEADLOCK FALSE
