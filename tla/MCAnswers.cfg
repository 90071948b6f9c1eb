SPECIFICATION MCSpec
CONSTANTS
  Rank = {r1, r2, r3}
  Half = 4
  Peer = {p1, p2}
  Block = {1, 2, 3}
  Slack = 1
SYMMETRY Symmetry
INVARIANTS NoRace SomebodyRuns ShardsAgree TokensInPlace SelectionIsBest AttentionIsWhole TextWhole EndsRightly
PROPERTY Fences
CHECK_DEADLOCK FALSE
