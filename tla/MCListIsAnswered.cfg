SPECIFICATION FairPoolSpec
CONSTANTS
  b1 = b1  b2 = b2  c1 = c1  a1 = a1  n1 = n1
  Request = {b1, b2, c1}
  Staff = {b1, b2}
  Route <- MCRoute
  MaxConns = 2
  MaxFaults = 0
PROPERTY ListIsAnswered
CHECK_DEADLOCK FALSE
