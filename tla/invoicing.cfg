SPECIFICATION DocumentsSpec
CONSTANTS
  i1 = i1
  i2 = i2
  b1 = b1
  p1 = p1
  e1 = e1
  e2 = e2
  shop = shop
  walkIn = walkIn
  gujarat = gujarat
  kerala = kerala
  NoParty = NoParty
  SalesInvoices = {i1, i2}
  Bills = {b1}
  Receipts = {p1}
  Amounts = {100}
  Shares = {50}
  AdvanceRates = {18}
  Editors = {e1}
  Parties = {shop, walkIn}
  StateOf <- MCStateOf
  Registered = {shop}
  HomeState = gujarat
  States = {gujarat, kerala}
  Places = {kerala}
  MaxDocuments = 2
  MaxEdits = 1
  Incomes = {"sales", "services"}
  LineSets <- MCLineSets
  Months = {1, 2}
  x = x
  y = y
  Things = {x, y}
  Nothing = Nothing
  Spare = 1
  MaxGestures = 4
  MaxErrors = 1
  own = own
  d1 = d1
  d2 = d2
  n1 = n1
  n2 = n2
  m1 = m1
  m2 = m2
  Owned = {own}
  Numbered = {own}
  Debts = {d1, d2}
  CompanyOf <- MCCompanyOf
  Dates <- MCDates
  Runs = {n1, n2}
  Toggles = {m1, m2}
  Switches = {"overdue", "inApp"}
  MaxRuns = 2
  MaxOthers = 2
  MaxMishaps = 1
SYMMETRY InvoiceSymmetry
INVARIANTS
  ReturnsMatchBooks
  ShownIsChosen
  ToldOnce
PROPERTIES
  TotalsFollowLines
CHECK_DEADLOCK FALSE
