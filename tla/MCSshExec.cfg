SPECIFICATION FairSpec
CONSTANTS
  Window = 2
  Options <- MCOptions
  MaxLosses = 2
INVARIANTS
  TypeOK
  OnlyLateOutputLost
  NoOpenChannel
PROPERTIES
  EndIsNoticed
  TimeoutEndsReading
