SPECIFICATION Spec
CONSTANTS
  Versions = {1, 2}
  Docs = {d1}
  Requests = {r1}
  Retention = FALSE
  MaxFailed = 0
INVARIANT RollbackTakesEffect
