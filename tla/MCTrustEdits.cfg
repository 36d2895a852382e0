SPECIFICATION Spec
CHECK_DEADLOCK FALSE
CONSTANT MaxActions = 13
INVARIANTS
  TypeOK
  TierIsEarned
PROPERTIES
  NamingNeverLowers
  UnnamedNeverRaises
  HidingAssertedNeverPays
