SPECIFICATION MCSpec
CONSTANTS
  Rows = 2
  Token = {0, 1}
  Prompt <- SmallPrompts
  Selects <- SmallModel
  NumDrafts = 2
  ChunkSize = 2
  MaxLen = 5
  GpuPage = {g1, g2, g3}
  HostPage = {h1, h2}
SYMMETRY Symmetry
INVARIANTS Lossless NothingLeftBehind KVSound BooksKept
PROPERTY AdmissionReusesBest
CHECK_DEADLOCK FALSE
