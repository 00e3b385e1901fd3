SPECIFICATION Spec
CONSTANTS
  NFiles = 2
  Size <- MCSize
  Budget = 2
  Retries = 1
  MaxFaults = 2
INVARIANTS
  Recoverable
