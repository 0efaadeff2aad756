SPECIFICATION FairSpec
CONSTANTS
  Txs = {t1, t2}
  NoBaseline = NoBaseline
  Window = 2
  ScanLimit = 3
  NoticeCap = 1
  MaxHeight = 3
  MaxReorgs = 1
  MaxOutages = 1
  MaxFaults = 1
  MaxIncidents = 2
  MaxChanges = 3
  MaxArrivals = 1
INVARIANTS HistoryNotReplayed
PROPERTIES NearBlocksShown NoGhostPending
CHECK_DEADLOCK FALSE
