SPECIFICATION EdgeSpec
CONSTANTS
  a1 = a1
  a2 = a2
  a3 = a3
  k1 = k1
  pay = pay
  payMore = payMore
  Attempts = {a1, a2, a3}
  Keys = {k1}
  Bodies = {pay, payMore}
  Crashes = TRUE
  LostCommits = TRUE
  Expiry = TRUE
  MaxEffects = 3
  p1 = p1
  p2 = p2
  Processes = {p1, p2}
  WindowLimit <- MCWindowLimit
  Window = 3
  Skew = 1
  Tiers <- MCTiers
  Costs = {2}
  TierLife = 1
  MaxTime = 4
  MaxBack = 1
  MaxOutages = 1
  ann = ann
  op = op
  c1 = c1
  c2 = c2
  Nobody = Nobody
  Users = {ann, op}
  Operators = {op}
  Companies = {c1, c2}
  Of <- MCOf
  Questions = {1, 2}
  MaxActs = 4
  MaxCalls = 3
INVARIANTS
  AtMostOnce
  LimitsHold
  ActsAsShown
PROPERTIES
  NoKeyStuck
CHECK_DEADLOCK FALSE
