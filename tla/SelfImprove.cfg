SPECIFICATION FairSpec
CONSTANTS
  loop = loop
  entry = entry
  hand = hand
  Loops <- MCLoop
  Campaigns <- MCNone
  Hands <- MCHand
  Rounds = 2
  MaxRuns = 5
  MaxCrashes = 1
  Prunes <- MCLoop
INVARIANTS
  TypeOK
  RecordedSurvive
  EvidenceStands
  NewestSurvives
  AckedIsListed
PROPERTIES
  EverythingEnds
