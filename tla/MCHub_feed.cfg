SPECIFICATION FairSpec
CONSTANTS
  u1 = u1
  u2 = u2
  c1 = c1
  c2 = c2
  Users = {u1, u2}
  Conns = {c1, c2}
  UserOf <- OneUser
  Buffer = 1
  MaxEvents = 3
INVARIANTS
  NoSendOnClosedChannel
  OnlyOverflowLeavesGaps
PROPERTIES
  BroadcastEnds
  WriteLoopEnds
CHECK_DEADLOCK FALSE
