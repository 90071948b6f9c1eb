SPECIFICATION Spec
CONSTANTS
  W = 2
  PageSize = 4
  Pages = 4
  B = 3
  H = 2
  K = 2
  MaxLen = 5
  Chunks = {0, 1, 4}
  Rankings <- MCRankings
INVARIANT GatheredInOrder
CHECK_DEADLOCK FALSE
