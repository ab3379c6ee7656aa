SPECIFICATION Spec
CONSTANTS
  t1 = t1
  t2 = t2
  t3 = t3
  laptop = laptop
  phone = phone
  Tabs = {t1, t2}
  Browsers = {laptop}
  BrowserOf <- TwoTabs
  LockAfter = 2
  CodesPerBatch = 1
  MaxTokens = 3
  MaxResets = 1
  MaxBatches = 2
  MaxEvents = 1
  SecondFactor = TRUE
  LostAnswers = TRUE
  Operators = TRUE
SYMMETRY Both
INVARIANTS
  RevocationHolds
  UsedOnce
  GuessesAreBounded
CHECK_DEADLOCK FALSE
