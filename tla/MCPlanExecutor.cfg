SPECIFICATION FairSpec
CONSTANTS
  Matrix <- MCMatrix
  Polls = 1
  MaxLosses = 2
INVARIANTS
  RowsFollowPlan
  OnlyCompleteCounts
  NoTaskOutlivesStage
  FilesRemoved
  HonestVerdict
PROPERTIES
  ImplementsLog
  LossFailsMatrix
  Terminates
