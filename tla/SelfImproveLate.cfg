SPECIFICATION Spec
CONSTANTS
  loop = loop
  entry = entry
  hand = hand
  Loops <- MCLoop
  Campaigns <- MCNone
  Hands <- MCHand
  Rounds = 2
  MaxRuns = 3
  MaxCrashes = 0
  Prunes <- MCNone
INVARIANTS
  CitationsHold
