SPECIFICATION Spec
CONSTANTS
  Jobs = {j1, j2}
  Indexers = {i1, i2}
  MaxAttempts = 2
  Lease = 1
  Faults = TRUE
  Deletes = TRUE
  DeadLetters = TRUE
  Operators = 1
SYMMETRY Symmetry
CHECK_DEADLOCK FALSE
INVARIANTS IndexedIsWhole AttemptsDistinct OneLiveRun CleanupLeavesNothing
PROPERTIES ConsumerAsAssumed PublishesRuns
