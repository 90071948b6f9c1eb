SPECIFICATION Spec
CONSTANTS
  Request = {r1, r2, r3}
  GpuFlush = {g1}
  HostFlush = {h1}
  None = None
  MaxBatch = 2
  HasHost = TRUE
  MaxTokens = 2
  MaxChunks = 2
  StepTokens = 2
SYMMETRY Symmetry
INVARIANTS RowsMatchBatch BatchAccounted QuietEnd OnlyDeviceStops
PROPERTY OrderKept
CHECK_DEADLOCK FALSE
