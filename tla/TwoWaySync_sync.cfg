\* Two machines, two contents, two edits, one fault or forced sync.
SPECIFICATION FairSpec
CONSTANTS
  Clients = {c1, c2}
  Contents = {x, y}
  MaxEdits = 2
  MaxTrouble = 1
  None = None
INVARIANTS
  NoPingPong
PROPERTIES
  EditsSurvivePull
  OnlyRacesOverwrite
  Converges
