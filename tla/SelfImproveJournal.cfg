SPECIFICATION Spec
CONSTANTS
  loop = loop
  entry = entry
  hand = hand
  Loops <- MCLoop
  Campaigns <- MCEntry
  Hands <- MCNone
  Rounds = 2
  MaxRuns = 3
  MaxCrashes = 0
  Prunes <- MCEntry
INVARIANTS
  CitationsHold
