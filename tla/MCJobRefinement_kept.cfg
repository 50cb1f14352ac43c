SPECIFICATION Spec
CONSTANTS
  Jobs = {j1}
  Workers = {w1, w2}
  Requests = {r1, r2, r3}
  None = None
  MaxAttempts = 3
  LateRenewal = FALSE
  Faults = {"worker_crash", "worker_exception", "request_error", "api_crash", "reaper_error"}
  MaxFaults = 2
  MaxStream = 3
SYMMETRY Symmetry
INVARIANTS
  BudgetExact
  OneDelivery
  SingleHolder
PROPERTIES
  SucceededIsFinal
  ImplementsLifecycle
CHECK_DEADLOCK FALSE
