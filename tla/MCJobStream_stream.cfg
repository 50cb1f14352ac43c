SPECIFICATION FairStreamSpec
CONSTANTS
  Jobs = {j1, j2}
  Workers = {w1, w2}
  None = None
  Faults = {"crash", "api_crash", "exception", "retry", "redis_error"}
  MaxFaults = 2
PROPERTIES
  ActsAsQueue
  EnqueuedJobSettles
  DepthSettles
CHECK_DEADLOCK FALSE
