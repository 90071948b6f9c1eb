SPECIFICATION MCSpec
CONSTANTS
  Main = Main
  Alternate = {s1, s2}
  Synced = Synced
  Block = {b1}
  Tensor = {t1, t2, t3}
  None = None
  MaxDepth = 2
  Program <- Programs
  Length = {1, 2}
  Arena = 6
  Align = 2
  WarmupSteps = 1
  MaxEntries = 3
  MaxTracked = 1
SYMMETRY Symmetry
INVARIANTS Accounted HeapsExact ReplaySafe GraphsFit
PROPERTY SafeReuse
CHECK_DEADLOCK FALSE
