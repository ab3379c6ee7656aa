SPECIFICATION MembersSpec
CONSTANTS
  r1 = r1
  r2 = r2
  Requests = {r1, r2}
  Users = {author, chief}
  Author = author
  Vendors = {v1, v2}
  Kinds = {"books", "ims"}
  Actions = {"accept", "pending"}
  Quota = 1
  MaxTools = 1
  MaxStarts = 4
  MaxFailures = 1
  Me = Me
  Other = Other
  NoCopy = NoCopy
  Shown = {"dashboard", "invoices", "bills", "payments", "banking", "journal", "accounts", "parties", "gst", "documents", "copilot", "team", "notifications", "billing"}
  MaxPresses = 2
  MaxEvents = 1
  MaxLate = 1
SYMMETRY AnyRequest
INVARIANTS
  BudgetIsBounded
  ApprovedOnce
  PortalFollowsRecord
  ButtonsMatchServer
  ScreenIsTrue
PROPERTIES
  ChangesAreAllowed
CHECK_DEADLOCK FALSE
