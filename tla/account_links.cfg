SPECIFICATION AccountsSpec
CONSTANTS
  Addresses = {o, a, b}
  Owner = o
  NoAddress = NoAddress
  Requests = {r1, r2, r3}
  MaxAttempts = 2
  Expected = {1, 2}
  NoVersion = NoVersion
  InitialRoles <- MCInitialRoles
  Slots = {s1, s2}
  People = {a, b}
  Invitees = {"e1"}
  Tokens = {"t1", "t2"}
  MaxInvitations = 3
  MaxCalls = 3
  Wallets = {"w1", "w2"}
  Emails = {"e1", "e2"}
  NoEmail = "none"
  Registered <- MCRegistered
  MaxRequests = 5
  MaxVersion = 2
  MaxLinks = 3
  LOGIN_FAILURE_LIMIT = 2
  LOGIN_FAILURE_WINDOW = 2
  LOGIN_LOCKOUT = 2
  Capacity = 1
  Tries = {"a1", "a2", "a3"}
  MaxTries = 7
  MaxNow = 4
  Writers = {"w1", "w2"}
  Shares = {9999, 10000}
  Participants = {"x1"}
  MaxDrafts = 1
  MaxPayments = 3
  MaxRecordCalls = 4
  MaxClock = 1
SYMMETRY MCSymmetry
INVARIANTS LinksWorkOnce
CHECK_DEADLOCK FALSE
