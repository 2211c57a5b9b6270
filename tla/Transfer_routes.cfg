\* Two versions of up to five bytes over every route; offsets wrap at 4.
SPECIFICATION Spec
CONSTANTS
  Bytes = {0, 1}
  MaxLength = 5
  MaxVersions = 2
  MinSize = 1
  MaxSize = 3
  BlockSize = 2
  MaxChunk = 3
  HashPage = 2
  MaxUpload = 3
  ModAdler = 2
  Modulus = 4
INVARIANTS
  DownloadIsFile
  SignaturesLocate
  ChunkSizes
  CutsRealign
CHECK_DEADLOCK FALSE
