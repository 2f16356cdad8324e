SPECIFICATION MCSpec
CONSTANTS
  Configured <- MCConfigured
  Callers = {"c"}
  Requested <- MCRequested
  RPC_RETRY_BUDGET_MAX_RETRIES = 2
  DEFAULT_RPC_MAX_RETRIES = 1
  InitialDelay = 1
  DelayCap = 2
  AttemptTimeout = 1
  FailureThreshold = 1
  CooldownTime = 2
  MaxCallsMade = 2
  Hashes = {"g", "h"}
  NoHash = "none"
  Streams = {"s1", "s2"}
  MaxGlobal = 2
  MaxPerHash = 1
  MaxPollAttempts = 1
  MaxChanges = 2
  MaxOpens = 2
  acctA = acctA
  acctB = acctB
  noAcct = noAcct
INVARIANTS
  CountsTrue
PROPERTIES
  QuarantineHolds
  EveryWaitEnds
  PollingEnds
  DepartedAccountLeaves
CHECK_DEADLOCK FALSE
