SPECIFICATION MCSpec
CONSTANTS
  Fork = {fork1, fork2}
  Spawn = {spawn1}
  Order = {o1, o2}
  Follower = {f1}
  Signal = Signal
  None = None
  MaxStarts = 3
  Plan <- Plans
  Arena = 26
  Align = 2
INVARIANTS OneExecutor WeightsOutliveExecutor JudgedRightly MappedWhileCopied
PROPERTIES StopMeansGone NoFollowerCutShort EveryOrderAnswered ShutdownFrees
CHECK_DEADLOCK FALSE
