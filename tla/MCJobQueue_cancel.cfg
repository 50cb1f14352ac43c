SPECIFICATION Spec
CONSTANTS
  Jobs = {j1}
  Workers = {w1}
  Requests = {r1, r2}
  None = None
  MaxAttempts = 2
  LateRenewal = FALSE
  Faults = {}
  MaxFaults = 0
  MaxStream = 2
PROPERTIES
  CancelledIsFinal
CHECK_DEADLOCK FALSE
