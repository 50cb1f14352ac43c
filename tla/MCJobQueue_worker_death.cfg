SPECIFICATION FairSpec
CONSTANTS
  Jobs = {j1}
  Workers = {w1, w2}
  Requests = {r1}
  None = None
  MaxAttempts = 2
  LateRenewal = FALSE
  Faults = {"worker_crash"}
  MaxFaults = 1
  MaxStream = 3
PROPERTIES
  QueuedIsClaimed
CHECK_DEADLOCK FALSE
