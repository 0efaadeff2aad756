SPECIFICATION Spec
CONSTANTS
  b1 = b1
  b2 = b2
  w1 = w1
  w2 = w2
  Trunk = Trunk
  NoRow = NoRow
  Branches = {b1, b2}
  Workers = {w1, w2}
  ForkAt <- MCForkAt
  MaxHeight = 4
  FirstHead = 2
  LatestStart = FALSE
  StartBlock = 1
  StartOffset = 0
  BatchSize = 2
  QueueCap = 1
  MaxBlockRetries = 1
  MaxReorgDepth = 3
  StartupGapScanBlocks = 1
  PredecessorSpan = 1
  Websocket = FALSE
  SlowPredecessors = TRUE
  HeadMayDrop = FALSE
  MaxSwitches = 1
  MaxCrashes = 1
  MaxFaults = 0
SYMMETRY Symmetry
INVARIANT CrashRecoverable
PROPERTY SettledPhaseCovered
CHECK_DEADLOCK FALSE
