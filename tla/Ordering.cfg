\* everything the network can do, and a shutdown
SPECIFICATION FairSpec
CONSTANTS
  Approvals = {99, 150}
  Signals <- MCSignals
  Mids = {36, 50, 66, 95}
  MaxPriceDrift = 10
  LimitOffset = 5
  RetryMaxAttempts = 2
  MaxOrderRetries = 2
  FillPrices = {32, 34, 60, 99}
  Disturbances = {"busy", "request_lost", "reply_lost", "late", "shutdown"}
INVARIANTS TypeOK PlacedOnce WithinApproval
PROPERTIES KeepsPromise SubmissionEnds
CHECK_DEADLOCK FALSE
