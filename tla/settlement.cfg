SPECIFICATION SettlementSpec
CONSTANTS
  i1 = i1
  i2 = i2
  b1 = b1
  e1 = e1
  h1 = h1
  h2 = h2
  NoRef = NoRef
  Invoices = {i1, i2}
  Bills = {b1}
  Totals = {2}
  Amounts = {1, 2}
  AdvanceRate = 100
  InterState = TRUE
  MaxPayments = 1
  ManualReversal = TRUE
  Captures = {e1}
  CapturedAmount <- OneCapture
  CapturedInvoice <- ItsInvoice
  Handlers = {h1, h2}
INVARIANTS
  DocumentsMatchBooks
  ScreensAgree
PROPERTIES
  CapturedIsRecorded
CHECK_DEADLOCK FALSE
