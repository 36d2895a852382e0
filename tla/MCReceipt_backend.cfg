SPECIFICATION Spec
CHECK_DEADLOCK FALSE
CONSTANTS
  w1 = w1
  w2 = w2
  e1 = e1
  e2 = e2
  d1 = d1
  d2 = d2
  Minters = {w1}
  Hosts <- IncompleteLiboqs
  Evidences = {e1}
  Decisions = {d1}
  MaxMints = 2
  MaxEdits = 0
  Absent = Absent
  Empty = Empty
  Missing = Missing
  Damaged = Damaged
  OtherKey = OtherKey
  Blank = Blank
  NoReceipt = NoReceipt
  Idle = Idle
INVARIANT
  MissingBackendIsUnverifiable
