SPECIFICATION Spec
CONSTANTS
  Workers = {w1}
  Tasks <- MCTasks
  Pages = {p1}
  Catalog <- MCCatalog
  AllSubsystems = {1}
  ManyTimes = {2}
  DefaultTotal = 2
  Saved <- MCSaved
  DefaultSuites <- MCDefault
  Runs = 2
  MaxSaves = 2
  MaxTroubles = 0
INVARIANT RunsWhatIsAsked
CHECK_DEADLOCK FALSE
