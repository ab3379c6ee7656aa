SPECIFICATION FairSpec
CONSTANTS
  Staff = {u1, u2, u3}
  Joined = {u1}
  Askers = {u1}
  Roles = {clerk}
  Admins = {a1}
  Pods = {p1}
  Seats = 2
  MaxChanges = 2
  MaxLost = 1
INVARIANTS
  MembershipHolds
PROPERTIES
  ChangesTakeEffect
  SuspensionHolds
CHECK_DEADLOCK FALSE
