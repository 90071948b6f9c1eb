SPECIFICATION Spec
CONSTANTS
  Request = {r1, r2}
  GpuFlush = {g1}
  HostFlush = {h1}
  None = None
  MaxBatch = 2
  HasHost = TRUE
  MaxTokens = 2
  MaxChunks = 1
  StepTokens = 1
INVARIANT SuccessMeansNoError
CHECK_DEADLOCK FALSE
