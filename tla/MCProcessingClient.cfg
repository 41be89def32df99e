SPECIFICATION OperatedClient
CONSTANTS
  p1 = p1
  p2 = p2
  p3 = p3
  NoPayment = NoPayment
  NoRequest = NoRequest
  Payment = {p1, p2, p3}
  Worker = {w1, w2}
  Configured = {w2}
  Saved <- MCSaved
  ToUpper <- MCToUpper
  Word = 2
  MaxFaults = 4
INVARIANTS ClientTypeOK ExecutedAsSaved LoginsAreBounded
PROPERTY JobsAreScored
CHECK_DEADLOCK FALSE
