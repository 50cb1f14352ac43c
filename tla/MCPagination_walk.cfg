SPECIFICATION FairSpec
CONSTANTS
  Jobs = {j1, j2, j3, j4}
  Second = 2
  MaxTime = 4
  Limit = 2
  DefaultLimit = 1
  MaxLimit = 2
  UniqueTimes = TRUE
INVARIANTS
  NoDuplicates
  NoSkips
PROPERTIES
  WalkEnds
CHECK_DEADLOCK FALSE
