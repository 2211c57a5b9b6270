\* A push that lost a race, then sync --force-push on the same machine.
SPECIFICATION FairSpec
CONSTANTS
  Clients = {c1, c2}
  Contents = {x, y}
  MaxEdits = 2
  MaxTrouble = 1
  None = None
INVARIANTS
  ForcedPushWins
