SPECIFICATION Spec
CONSTANTS
  Page = {p1, p2, p3}
  SeqId = {s1, s2, s3}
  Token = {a, b}
  None = None
  PageSize = 2
  MaxBatch = 2
  MaxLen = 3
  a = a
  b = b
  Pending = {b}
  Prompts <- MCPrompts
  Chunks <- MCChunks
  Foreign <- MCForeign
  Pressure = TRUE
SYMMETRY Symmetry
INVARIANT NoPageLost
CHECK_DEADLOCK FALSE
