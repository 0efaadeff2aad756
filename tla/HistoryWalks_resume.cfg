SPECIFICATION Spec
CONSTANTS
  Walks = {"builders", "fees", "streaks"}
  Window = 2
  Batch = 1
  ForkPoint = 2
  MaxHeight = 4
  MaxChanges = 2
  MaxFaults = 2
INVARIANTS BuilderOfStoredBlock CheckpointsTrue StreaksUpToWatermark LeftOnlySkipped
CHECK_DEADLOCK FALSE
