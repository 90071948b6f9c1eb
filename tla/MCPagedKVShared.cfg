SPECIFICATION Spec
CONSTANTS
  Page = {p1, p2, p3, p4}
  SeqId = {s1, s2}
  Token = {a, b}
  None = None
  PageSize = 2
  MaxBatch = 2
  MaxLen = 4
  a = a
  b = b
  Pending = {b}
  Prompts <- MCLongPrompts
  Chunks <- MCLongChunks
  Foreign <- MCLongForeign
  Pressure = TRUE
SYMMETRY Symmetry
INVARIANTS SharingIsPrefix MatchSound
CHECK_DEADLOCK FALSE
