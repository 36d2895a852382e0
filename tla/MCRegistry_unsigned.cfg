SPECIFICATION Spec
CHECK_DEADLOCK FALSE
CONSTANTS
  r1 = r1
  ROSTER <- OneRepo
  Hands = {h1}
  None = None
  Broken = Broken
  MaxRuns = 2
  MaxHand = 1
INVARIANTS
  RowsAreSigned
