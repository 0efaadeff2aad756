SPECIFICATION Spec
CONSTANTS
  b1 = b1
  b2 = b2
  w1 = w1
  w2 = w2
  Trunk = Trunk
  NoRow = NoRow
  Branches = {b1, b2}
  Workers = {w1, w2}
  ForkAt <- MCForkAt
  MaxHeight = 3
  FirstHead = 2
  LatestStart = TRUE
  StartBlock = 1
  StartOffset = 1
  BatchSize = 2
  QueueCap = 1
  MaxBlockRetries = 1
  MaxReorgDepth = 3
  StartupGapScanBlocks = 2
  PredecessorSpan = 0
  Websocket = FALSE
  SlowPredecessors = TRUE
  HeadMayDrop = FALSE
  MaxSwitches = 1
  MaxCrashes = 1
  MaxFaults = 1
SYMMETRY Symmetry
INVARIANT NoLostBlock
CHECK_DEADLOCK FALSE
