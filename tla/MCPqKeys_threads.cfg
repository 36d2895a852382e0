SPECIFICATION Spec
CONSTANTS
  w1 = w1
  w2 = w2
  w3 = w3
  p1 = p1
  p2 = p2
  p3 = p3
  Workers = {w1, w2, w3}
  Procs = {p1}
  ProcOf <- AllInOneProcess
  Legs <- MlDsa
  Serialized <- MlDsa
  Seedings <- AnyEarlier
  MaxFaults = 2
  MaxClears = 1
  Absent = Absent
  Empty = Empty
  Nobody = Nobody
INVARIANTS
  TypeOK
  PairOnDisk
  EveryLegVerifies
  SignedByPersistedKey
  NoLegDropped
  CacheAgreesWithDisk
  SignersExclude
  OnlyVerifyMeetsKeygen
PROPERTIES
  PersistedPairStays
  ImplementsKeyStore
