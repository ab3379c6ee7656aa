SPECIFICATION Spec
CONSTANTS
  Root = Root
  assets = assets
  banks = banks
  Codes = {assets, banks, a, b}
  Template <- TwoRows
  Clients = {c1, c2}
  MaxStarts = 4
INVARIANTS
  PathsFollowParents
CHECK_DEADLOCK FALSE
