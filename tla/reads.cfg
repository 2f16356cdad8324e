SPECIFICATION MCSpec
CONSTANTS
  Collabs = {c1}
  Threshold = 2
  Bump = 4
  MinTtl = 1
  Ids = {1, 2, 3, 4, 5, 6}
  BucketSize = 2
  MaxBuckets = 3
  LegacyIds <- FirstIds
  NoFlat = NoFlat
  CacheKeys = {"project", "list"}
  Groups = {{"project", "list"}, {"list"}}
  Callers = {"c1", "c2"}
  MaxEntries = 1
  MaxFetches = 3
  MaxVersion = 2
  ApiWallets = {"w1", "w2"}
  Admin = "w1"
  ApiSlots = {r1, r2}
  Ops = {"create", "lock", "deposit", "distribute", "expiration", "pause", "get", "list", "status"}
  Deadlines = {1}
  MaxNow = 1
  MaxRequests = 2
  MaxChain = 2
SYMMETRY MCSymmetry
INVARIANTS
  UsedEntriesSurvive
  IndexSound
  CacheSound
  OwnerNotLockedOut
  NeverCountsTwice
PROPERTIES
  PassedDeadlineIsFinal
CHECK_DEADLOCK FALSE
