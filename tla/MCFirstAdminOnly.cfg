SPECIFICATION RegistrationSpec
CONSTANTS
  Email = {e1, e2}
  Request = {r1, r2}
  Nobody = Nobody
  MaxFaults = 0
INVARIANT FirstAdminOnly
CHECK_DEADLOCK FALSE
