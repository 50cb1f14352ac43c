SPECIFICATION Spec
CONSTANTS
  Emails = {e1, e2}
  Passwords = {p1, p2}
  Calls = {q1, q2, q3, q4}
  None = None
  Failing = TRUE
INVARIANTS
  RegistrationOpensOwnAccount
  ChainsStayInAccount
  RevokedKeyIsDead
  RevokedOnceByOwner
SYMMETRY Symmetry
CHECK_DEADLOCK FALSE
