SPECIFICATION Spec
SYMMETRY Symmetry
CONSTANTS
  ar = ar
  sales = sales
  cash = cash
  c1 = c1
  c2 = c2
  NoTx = NoTx
  Clients = {c1, c2}
  Accounts <- MCAccounts
  SystemAccounts = {ar}
  DebitNormal <- MCDebitNormal
  Days <- MCDays
  Years <- MCYears
  FyOf <- MCFyOf
  DocFyOf <- MCDocFyOf
  BooksBegin = 1
  LockDays = {1}
  Editable = {cash}
  DocSeries = {"INV"}
  Drafts <- TwoDrafts
  MaxEntries = 3
INVARIANTS
  TypeOK
  GaplessEntryNumbers
  BalancesMatchJournal
  ReversalsPair
PROPERTIES
  PostsOnlyToActiveAccounts
  OnlyOverlappingPostsAreLate
  ImplementsJournal
CHECK_DEADLOCK FALSE
