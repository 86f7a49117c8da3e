SPECIFICATION FairSpec
CONSTANTS
  Deliveries = {d1, d2}
  MaxRetries = 4
  Lease = 2
  Limit = 3
  MaxFaults = 2
CHECK_DEADLOCK FALSE
INVARIANTS CallsCounted OneSender
PROPERTIES SuccessIsFinal MailSent OneEffect
