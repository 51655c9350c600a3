SPECIFICATION Spec
CONSTANTS
  Requested <- MCTwo
  Kinds <- AllKinds
  MaxDuration = 12
  GuardLimit = 36
  OldDurations <- MCOldDurations
INVARIANTS
  SumIsTotal
