\* Repeated pushes of two contents, with slow-downs, errors, an edit and a fault.
SPECIFICATION Spec
CONSTANTS
  Contents = {{1, 2, 3, 4, 5}, {2, 6}}
  None = None
  Concurrency = 2
  RaiseAfter = 2
  MaxSlowDowns = 1
  MaxErrors = 3
  MaxFaults = 1
  MaxEdits = 1
INVARIANTS
  LimitIsUsed
  SteadyCommitIsComplete
  CachedIsPublished
PROPERTIES
  PushSucceeds
