SPECIFICATION Spec
CONSTANTS
  TxSizes = {2}
  PageLimit = 2
  Lookback = 1
  ErrorThreshold = 3
  MaxEvents = 2
  MaxFaults = 0
  MaxLookupFaults = 0
  MaxBootFaults = 0
  MaxRestarts = 0
PROPERTIES PayoutsGetRows
