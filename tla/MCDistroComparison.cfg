SPECIFICATION Spec
CONSTANTS
  Ids <- MCIds
  NotAnId = x
  Requests <- MCRequests
  Columns <- MCColumns
  Titles <- MCTitles
  Epsilon = 1
INVARIANTS
  PairedFairly
  OnlyRepeatsLost
  StatusesAgree
