SPECIFICATION FairSpec
CONSTANTS
  Versions = {1, 2}
  Docs = {d1}
  Requests = {r1, r2}
  Retention = TRUE
  MaxFailed = 1
INVARIANT OneActive
PROPERTIES RequestsEnd SwitchesAtomically OnlyRetiredLosesChunks
