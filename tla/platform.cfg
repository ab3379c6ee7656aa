SPECIFICATION FairSpec
CONSTANTS
  free = free
  paid = paid
  Users = {ann, bob, eve}
  Customers = {eve, bob}
  FirstOperators = {ann, bob}
  Requests = {r1, r2}
  Plans = {free, paid}
  Free = free
  Limit <- OneEach
  MaxStarts = 3
  MaxCrashes = 1
  MaxActs = 1
INVARIANTS
  NobodyIsLockedOut
  ActiveIsPaid
PROPERTIES
  PaidTakesEffect
CHECK_DEADLOCK FALSE
