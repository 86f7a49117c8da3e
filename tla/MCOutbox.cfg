SPECIFICATION FairSpec
CONSTANTS
  Jobs = {j1}
  Dispatchers = {d1, d2}
  MaxAttempts = 3
  Lease = 1
  Deadline = 5
  BackoffUnit = 1
  MaxBackoff = 2
  BatchSize = 1
INVARIANTS PublishBound StaleClaimHasNoLease DispatchedWasAccepted
PROPERTIES SettledRowsStay KeepsPromises EveryRowSettles
