SPECIFICATION Spec
CONSTANTS
  a = a
  b = b
  x = x
  y = y
  r1 = r1
  None = None
  Docs <- MCDocs
  Texts <- MCTexts
  MaxVersion = 3
  MaxEdits = 3
  Text <- MCText
  Refreshers <- MCOne
  Faults <- MCLate
  MaxBuilds = 1
  MaxKills = 1
  MaxRollbacks = 1
INVARIANTS
  StaleIsRefused
