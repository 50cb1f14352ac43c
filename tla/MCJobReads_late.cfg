SPECIFICATION ReadSpec
CONSTANTS
  Jobs = {j1}
  Workers = {w1, w2}
  Requests = {r1, r2}
  None = None
  MaxAttempts = 2
  LateRenewal = TRUE
  Faults = {}
  MaxFaults = 0
  MaxStream = 2
  Readers = {v1}
SYMMETRY Symmetry
INVARIANTS
  TypeOK
  CompletedOnce
  SucceededHasTranscript
  VisibleJobHasAudio
  QueuedIsDelivered
  PageGetsWholeTranscript
CHECK_DEADLOCK FALSE
