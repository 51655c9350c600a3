SPECIFICATION FairSpec
CONSTANTS
  Requested <- MCRequested
  Kinds <- AllKinds
  MaxDuration = 42
  GuardLimit = 36
  OldDurations <- MCOldDurations
INVARIANTS
  FillsTheTime
  NearItsShare
PROPERTIES
  Answers
