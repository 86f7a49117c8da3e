SPECIFICATION Spec
CONSTANTS
  Workers = {w1}
  MaxRetries = 1
  MaxAttempts = 2
  Retryable = TRUE
  Lease = 1
  Outcomes = {"ok", "error"}
  HasDeadline = FALSE
  MaxSends = 1
  MaxFaults = 1
INVARIANT CrashRemainsRetryable
