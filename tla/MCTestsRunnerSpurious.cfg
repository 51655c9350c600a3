SPECIFICATION Spec
CONSTANTS
  NSystem = 1
  NTests = 2
  PoolTests <- MCPoolTests
  ResultStatuses = {"PASSED"}
  MaxResults = 1
  MaxLosses = 0
  SlowPings = TRUE
INVARIANTS
  NoSpuriousKill
