SPECIFICATION MCSpec
CONSTANTS
  a1 = a1
  a2 = a2
  a3 = a3
  p1 = p1
  p2 = p2
  t1 = t1
  t2 = t2
  NoAdmin = NoAdmin
  Admins = {a1, a2}
  Owners = {a1, a2}
  Addresses = {a1, a2, a3}
  TotalBps = 4
  Tokens = {t1, t2}
  Caps = {1, 2, 3, 4}
  MinCap = 2
  MaxCap = 3
  DefaultCap = 3
  Projects = {p1, p2}
  Titles = {"x", "y"}
  CollabLists <- AllLists
  Amounts = {2}
  Batches <- SomeBatches
  LegacyFunds = {3}
  MaxI128 = 100
  MaxEpoch = 3
  MaxHeld = 10
INVARIANTS
  Conservation
  RecordsAgree
  AccountedMatches
  Solvent
  SplitsSound
PROPERTIES
  RoundPaysEverybody
  IsEscrow
