SPECIFICATION FairSpec
CONSTANTS
  Workers = {w1, w2}
  MaxRetries = 2
  MaxAttempts = 3
  Retryable = TRUE
  Lease = 2
  Outcomes = {"ok", "error", "deferred"}
  HasDeadline = TRUE
  MaxSends = 2
  MaxFaults = 1
INVARIANTS RunsBounded AttemptsDistinct OneLiveRun
PROPERTIES SentJobEnds SucceededIsTerminal
