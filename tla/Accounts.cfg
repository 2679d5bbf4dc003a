\* Logins that overlap, sessions that end and the requests that use them.
CONSTANTS
  Users = {amy}
  Installs = {i1, i2}
  Logins = {l1, l2, l3, l4}
  Readers = {r1}
  Nobody = Nobody
  MaxFailures = 2
  SessionTtl = 1
  MaxTime = 1
SPECIFICATION AccountsSpec
SYMMETRY MCSymmetry
INVARIANTS
  LocksOnlyAfterFailures
  ClosedSessionsStayOut
\* The clock stops at its bound, and every request comes once.
CHECK_DEADLOCK FALSE
