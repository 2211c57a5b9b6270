\* Two browsers, two accounts; then four requests race with a revocation.
SPECIFICATION Spec
CONSTANTS
  Browsers = {b1, b2}
  Emails = {e1, e2}
  Keys = {k1}
  None = None
  MaxForms = 2
  MaxVisits = 2
  Users = {1, 2}
  Limit = 2
  Quota = 3
  Sizes = {2}
  Window = 1
  MaxTime = 3
  MaxConcurrent = 1
  MaxRequests = 4
  MaxInFlight = 2
INVARIANTS
  AtMostTwoWindows
  RefusalIsDeserved
  RevokedIsOut
  OwnChangesShow
PROPERTIES
  CallsEnd
CHECK_DEADLOCK FALSE
