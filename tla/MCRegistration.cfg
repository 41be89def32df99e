SPECIFICATION RegistrationSpec
CONSTANTS
  Email = {e1, e2}
  Request = {r1, r2, r3}
  Nobody = Nobody
  MaxFaults = 1
INVARIANTS RegistrationTypeOK BankersAreAppointed CreatedOnce
PROPERTY LateAdminIsRefused
CHECK_DEADLOCK FALSE
