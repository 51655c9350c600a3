SPECIFICATION FairSpec
CONSTANTS
  Workers = {w1, w2}
  Tasks <- MCTasks
  Pages = {p1}
  Catalog <- MCCatalog
  AllSubsystems = {1}
  ManyTimes = {2}
  DefaultTotal = 2
  Saved <- MCSaved
  DefaultSuites <- MCDefault
  Runs = 2
  MaxSaves = 1
  MaxTroubles = 1
INVARIANTS
  FreshWorkerObeys
  ProgressTruthful
  RowPerWorkerAtMost
PROPERTIES
  PagesAreAnswered
CHECK_DEADLOCK FALSE
