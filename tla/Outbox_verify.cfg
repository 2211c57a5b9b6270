\* One dispatcher; a call that fails or a crash between any two statements.
SPECIFICATION Spec
CONSTANTS
  Versions = {v1, v2}
  Dispatchers = {d1}
  BatchSize = 2
  InventoryConfigured = TRUE
  MaxGc = 1
  MaxFaults = 1
INVARIANTS
  ProcessedMeansSettled
  CorruptedIsAlerted
  VerifiedIsWhole
PROPERTIES
  VerdictIsFinal
  EventsDrain
