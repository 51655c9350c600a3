SPECIFICATION Spec
CONSTANTS
  Window = 2
  Options <- MCPlain
  MaxLosses = 0
INVARIANT
  OutputComplete
