\* Three requests race for one file and keep one version; tokens expire, the
\* process restarts.
SPECIFICATION Spec
CONSTANTS
  Requests = {r1, r2, r3}
  Files = {f1}
  VersionIds = {v1, v2, v3}
  NegIds = {n1, n2}
  MaxVersions = 1
  MaxFaults = 1
  None = None
SYMMETRY Symmetry
INVARIANTS
  NoForks
  OneVersionPerToken
  ConflictHasWinner
  CurrentIsNewestRow
  PrunerIsComing
PROPERTIES
  OvertakenForGood
  ImplementsVersionHistory
