SPECIFICATION FairPoolSpec
CONSTANTS
  b1 = b1  b2 = b2  c1 = c1  a1 = a1  n1 = n1
  Request = {b1, b2, c1, a1, n1}
  Staff = {b1, b2, a1}
  Route <- MCRoute
  MaxConns = 3
  MaxFaults = 1
INVARIANTS PoolTypeOK HoldsOneWhileRunning
PROPERTY RequestsEnd
CHECK_DEADLOCK FALSE
