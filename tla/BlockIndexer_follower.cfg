SPECIFICATION Spec
CONSTANTS
  b1 = b1
  b2 = b2
  w1 = w1
  w2 = w2
  Trunk = Trunk
  NoRow = NoRow
  Branches = {b1, b2}
  Workers = {w1, w2}
  ForkAt <- MCForkAt
  MaxHeight = 3
  FirstHead = 3
  LatestStart = FALSE
  StartBlock = 1
  StartOffset = 0
  BatchSize = 2
  QueueCap = 1
  MaxBlockRetries = 0
  MaxReorgDepth = 3
  StartupGapScanBlocks = 2
  PredecessorSpan = 0
  Websocket = TRUE
  SlowPredecessors = TRUE
  HeadMayDrop = TRUE
  MaxSwitches = 1
  MaxCrashes = 0
  MaxFaults = 0
SYMMETRY Symmetry
INVARIANT MarkerCoversOwed
PROPERTIES NoStaleInsert ImplementsStore
CHECK_DEADLOCK FALSE
