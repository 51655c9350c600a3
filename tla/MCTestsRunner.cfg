SPECIFICATION FairSpec
CONSTANTS
  NSystem = 1
  NTests = 3
  PoolTests <- MCPoolTests
  ResultStatuses = {"PASSED"}
  MaxResults = 1
  MaxLosses = 1
  SlowPings = FALSE
INVARIANTS
  TypeOK
  NoSpuriousKill
  OneWatchdog
  StartsClean
  Accounting
  DbBacked
  Observed
PROPERTIES
  ImplementsLog
  SilenceEndsTest
  LostSessionFailsRun
  Terminates
  WatchdogsEnd
