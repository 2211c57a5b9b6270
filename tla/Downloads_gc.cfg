\* Versions are pushed, uploaded, read and pruned while garbage is collected.
SPECIFICATION DSpec
CONSTANTS
  Hashes = {h1, h2}
  NumIds = 2
  Clients = {c1}
  Routes = {"push", "upload"}
  PageSize = 1
  MaxRuns = 1
  Readers = {r1}
  Temps = {t1}
  MaxReads = 1
SYMMETRY MCSymmetry
INVARIANTS
  ReferencesAreComplete
  NoChunkIsLost
  UploadsKeepTheirSource
PROPERTIES
  BreaksHaveCause
