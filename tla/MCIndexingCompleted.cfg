SPECIFICATION Spec
CONSTANTS
  Jobs = {j1}
  Indexers = {i1, i2}
  MaxAttempts = 2
  Lease = 1
  Faults = FALSE
  Deletes = FALSE
  DeadLetters = FALSE
  Operators = 0
SYMMETRY Symmetry
CHECK_DEADLOCK FALSE
PROPERTIES CompletedStays
