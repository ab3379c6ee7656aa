SPECIFICATION ReadersSpec
SYMMETRY Symmetry
CONSTANTS
  ar = ar
  sales = sales
  cash = cash
  c1 = c1
  c2 = c2
  NoTx = NoTx
  Clients = {c1, c2}
  Accounts <- MCAccounts
  SystemAccounts = {ar}
  DebitNormal <- MCDebitNormal
  Days <- MCDays
  Years <- MCYears
  FyOf <- MCFyOf
  DocFyOf <- MCDocFyOf
  BooksBegin = 1
  LockDays = {}
  Editable = {}
  DocSeries = {}
  Drafts <- TwoDrafts
  MaxEntries = 3
  FixDrift = TRUE
  Runs = 1
  Nominal = {sales}
  Viewed = {ar}
  PageSize = 1
  Hands = {1, 2}
  MaxTries = 2
  MaxPolls = 3
  MaxBooks = 2
  MaxTrouble = 3
INVARIANTS
  ReadsAreSound
PROPERTIES
  DriftNeedsOverlap
CHECK_DEADLOCK FALSE
