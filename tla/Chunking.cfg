SPECIFICATION ChunkedSpec
CONSTANTS
  Capacity = 4
  MaxData = 20
  NsPerMs = 1
  Wrap = 1000
  Objects = {x, y}
  Versions = {0, 1}
  Paths <- ObjectPaths
  Lengths = {2, 4, 5, 7}
  MaxTime = 16
  Lifetimes = {0, 5}
  Budgets = {0, 6}
  OutCaps = {4, 9}
  ChunkSize = 2
  MaxChunks = 3
  ManifestLen = 1
  MaxCalls = 4
SYMMETRY ObjectSymmetry
INVARIANTS ContentsRight NeverMixed WholeUnlessRefused StoredIsReadable
CHECK_DEADLOCK FALSE
