SPECIFICATION FairSpec
CONSTANTS
  NFiles = 2
  Size <- MCSize
  Budget = 2
  Retries = 1
  MaxFaults = 4
INVARIANTS
  TypeOK
  PublishedIsVerified
  StrandedIfHurt
PROPERTIES
  SecuredIsKept
  ImplementsSnapshot
  EventuallyComplete
