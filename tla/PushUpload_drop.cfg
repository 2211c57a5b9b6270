\* Three 503 answers in a row for one chunk.
SPECIFICATION Spec
CONSTANTS
  Contents = {{1}}
  None = None
  Concurrency = 1
  RaiseAfter = 5
  MaxSlowDowns = 3
  MaxErrors = 0
  MaxFaults = 0
  MaxEdits = 0
INVARIANTS
  NoChunkDropped
