SPECIFICATION Spec
CONSTANTS
  Budgets <- MCBudgets
  Entries = 2
  MaxTests = 2
  Procs = 2
  Grown = 1
  Profiles = 3
  ClientMax = 600
  Delay = 7
INVARIANTS
  TypeOK
  
  PassedIsEarned
  QueueDrained
  OnTime
