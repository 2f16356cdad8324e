SPECIFICATION Spec
CONSTANTS
  TxSizes = {1}
  PageLimit = 2
  Lookback = 1
  ErrorThreshold = 3
  MaxEvents = 2
  MaxFaults = 0
  MaxLookupFaults = 1
  MaxBootFaults = 0
  MaxRestarts = 0
INVARIANTS NothingSkipped
