SPECIFICATION MCSpec
CONSTANTS
  Accounts = {"a"}
  Titles = {a, b}
  Limit = 1
  MaxProjects = 2
  MaxLoads = 1
  MaxUpdates = 1
  Bad = Bad
  NoNumber = NoNumber
  BpsTyped = {0, 2, 4}
  Preset = Preset
  Typed = Typed
  NoToken = NoToken
  Addresses = {a, b}
  TotalBps = 4
  Cap = 2
  MaxRows = 3
  MaxBalance = 3
  FormTime = 1
  Actions = {"create", "deposit", "recovery"}
  Flow = {"create", "deposit"}
  Payloads = {"p"}
  Window = 1
  Margin = 1
  Attempts = 2
  Lag = 1
  MaxTx = 2
  SubsTime = 2
  Tokens = {a, b}
  MaxAmount = 1
  MaxReads = 2
  MaxJobs = 2
  Tabs = {"s", "t"}
  HISTORY_LIMIT = 2
  MaxToasts = 3
  MaxReloads = 1
SYMMETRY MCSymmetry
INVARIANTS
  BuiltIsAccepted
  SubmissionsTrue
  ViewsTrue
  FailuresShown
PROPERTIES
  PauseInOrder
CHECK_DEADLOCK FALSE
