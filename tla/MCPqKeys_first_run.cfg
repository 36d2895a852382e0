SPECIFICATION Spec
CONSTANTS
  w1 = w1
  w2 = w2
  w3 = w3
  p1 = p1
  p2 = p2
  p3 = p3
  Workers = {w1, w2, w3}
  Procs = {p1, p2, p3}
  ProcOf <- ThreeProcesses
  Legs <- MlDsa
  Serialized <- MlDsa
  Seedings <- FirstRun
  MaxFaults = 0
  MaxClears = 0
  Absent = Absent
  Empty = Empty
  Nobody = Nobody
INVARIANT
  EveryLegVerifies
