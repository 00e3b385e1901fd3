SPECIFICATION Spec
CONSTANTS
  loop = loop
  entry = entry
  hand = hand
  Loops <- MCLoop
  Campaigns <- MCNone
  Hands <- MCNone
  Rounds = 1
  MaxRuns = 3
  MaxCrashes = 1
  Prunes <- MCLoop
INVARIANTS
  CitationsHold
