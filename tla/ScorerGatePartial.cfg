SPECIFICATION Spec
CONSTANTS
  N = 4
  Blank <- MCBlank
  Ungrounded <- MCUngrounded
  Tuning <- MCTuning
  MinAccepted = 1
  MaxCalls = 4
  MaxCost = 3
  Dearest = 2
  MaxCrashes = 2
  Faults <- MCPartial
INVARIANT
  ScoreIsOwn
CHECK_DEADLOCK FALSE
