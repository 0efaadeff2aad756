SPECIFICATION FairSpec
CONSTANTS
  t1 = t1
  t2 = t2
  o1 = o1
  o2 = o2
  NoTx = NoTx
  NoBlock = NoBlock
  Txs = {t1, t2}
  Priced = {t1}
  Observers = {o1, o2}
  SlotOf <- MCSlotOf
  QueueCap = 1
  TTL = 4
  MaxBlocks = 1
  MaxReorgs = 1
  MaxFaults = 1
  MaxCrashes = 1
INVARIANTS PendingExcludesConfirmed OnePendingPerNonce
PROPERTIES ObservationKept LiveNeverSwept DeadRowsLeave LiveRowsShown
CHECK_DEADLOCK FALSE
