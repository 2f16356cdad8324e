SPECIFICATION MCSpec
CONSTANTS
  ConfirmationDepth = 1
  SubmissionTimeoutLedgers = 3
  Bounds = {3, 5}
  NoBound = NoBound
  MaxLag = 4
  MaxLedger = 8
  Hashes = {g, h}
  BlockIds = {1, 2}
  Amounts = {0, 1}
  Kinds = {"payment"}
  MaxWrites = 1
  RowIds = {1, 2, 3, 4}
  Matching = {1, 2, 3}
  Times = {1, 2}
  Limit = 1
  MaxRows = 3
  Recipients = {"a", "b"}
  Events = {"p", "s"}
  CategoryOf <- MCCategoryOf
  Workers = {"v", "w"}
  NoticeIds = {1, 2}
  Reader = "a"
  PageSize = 1
  Saves <- MCSaves
  MaxSaves = 1
  MaxTime = 1
  Accounts = {acctA, acctB}
  NoAccount = noAcct
  MaxPending = 1
SYMMETRY MCSymmetry
INVARIANTS
  BookedIsTrue
  ReportsTrue
  HistoryComplete
  NotificationsTrue
  NothingForeign
PROPERTIES
  NeverBackwards
CHECK_DEADLOCK FALSE
