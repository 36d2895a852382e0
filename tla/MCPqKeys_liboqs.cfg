SPECIFICATION FairSpec
CONSTANTS
  w1 = w1
  w2 = w2
  w3 = w3
  p1 = p1
  p2 = p2
  p3 = p3
  Workers = {w1, w2}
  Procs = {p1}
  ProcOf <- AllInOneProcess
  Legs <- BothLegs
  Serialized <- NoLegs
  Seedings <- AnyEarlier
  MaxFaults = 1
  MaxClears = 0
  Absent = Absent
  Empty = Empty
  Nobody = Nobody
PROPERTY
  CallsReturn
