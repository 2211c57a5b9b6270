\* GC is not configured: its daily events fill the batch.
SPECIFICATION Spec
CONSTANTS
  Versions = {v1}
  Dispatchers = {d1}
  BatchSize = 2
  InventoryConfigured = FALSE
  MaxGc = 2
  MaxFaults = 0
PROPERTIES
  EventuallyVerified
