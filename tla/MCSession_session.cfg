SPECIFICATION Spec
CONSTANTS
  Tabs = {t1, t2}
  Users = {u1}
  Requests = {r1, r2, r3, r4}
  None = None
  MaxTokens = 3
  Faults = {"request_error", "refresh_error", "refresh_expired"}
INVARIANTS
  OneRefreshPerTab
  ExpiryIsInvisible
  LoggedOutMeansNoTokens
SYMMETRY Symmetry
CHECK_DEADLOCK FALSE
