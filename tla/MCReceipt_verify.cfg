SPECIFICATION Spec
CHECK_DEADLOCK FALSE
CONSTANTS
  w1 = w1
  w2 = w2
  e1 = e1
  e2 = e2
  d1 = d1
  d2 = d2
  Minters = {w1, w2}
  Hosts <- AllHosts
  Evidences = {e1, e2}
  Decisions = {d1, d2}
  MaxMints = 2
  MaxEdits = 2
  Absent = Absent
  Empty = Empty
  Missing = Missing
  Damaged = Damaged
  OtherKey = OtherKey
  Blank = Blank
  NoReceipt = NoReceipt
  Idle = Idle
SYMMETRY ReceiptSymmetry
INVARIANTS
  TypeOK
  FreshReceiptVerifies
  PassMeansUnaltered
  VerifiersAgree
  ProvenanceIsEarned
