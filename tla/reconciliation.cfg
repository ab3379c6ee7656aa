SPECIFICATION BankSpec
CONSTANTS
  p1 = p1
  p2 = p2
  sale = sale
  rent = rent
  u1 = u1
  u2 = u2
  r1 = r1
  r2 = r2
  r3 = r3
  None = None
  Statement <- MCStatement
  Likely <- MCLikely
  Books = {sale, rent}
  Uploads = {u1, u2}
  Requests = {r1, r2, r3}
  MaxBulk = 2
  MaxCrashes = 1
  Movements <- MCMovements
  Openings <- MCOpenings
  Errors <- MCErrors
  Rows = 3
  MaxFaults = 2
  f1 = f1
  f2 = f2
  Files = {f1, f2}
  Papers <- MCPapers
  MaxPages = 3
  MaxBreaks = 1
  t1 = t1
  t2 = t2
  Turns = {t1, t2}
  Questions = {{"invoice", "cash", "forecast"}, {"greeting"}}
  ToolLimit = 1
  MaxLapses = 1
SYMMETRY RequestSymmetry
INVARIANTS
  MatchedOnce
  ReadIsTrue
  AnswersFit
CHECK_DEADLOCK FALSE
