SPECIFICATION Spec
CONSTANTS
  i1 = i1
  w1 = w1
  w2 = w2
  Invoices = {i1}
  Workers = {w1, w2}
  MaxAttempts = 2
  MaxFaults = 2
  Cancels = {i1}
  Ages = TRUE
  Stalls = TRUE
  MaxCalls = 2
PROPERTIES
  RecordFollowsIrp
  PendingIsSettled
CHECK_DEADLOCK FALSE
