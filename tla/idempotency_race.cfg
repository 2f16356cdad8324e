SPECIFICATION IdempotencySpec
CONSTANTS
  TxSizes = {1}
  PageLimit = 2
  Lookback = 1
  ErrorThreshold = 3
  MaxEvents = 3
  MaxFaults = 3
  MaxLookupFaults = 1
  MaxBootFaults = 1
  MaxRestarts = 2
  Requests = {"r1", "r2", "r3", "r4"}
  Hash <- HashOf
  MaxEarlyEnds = 2
  Callers = {"c", "d"}
  PoolMax = 2
  MaxRetries = 3
  MaxProbes = 1
INVARIANTS OneHandlerAtATime
CHECK_DEADLOCK FALSE
