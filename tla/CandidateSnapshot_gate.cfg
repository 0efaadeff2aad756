SPECIFICATION Spec
CONSTANTS
  a = a
  b = b
  s = s
  NoTx = NoTx
  NoBlock = NoBlock
  Txs = {a, b}
  From <- MCFrom
  Nonce <- MCNonce
  Fee <- MCFee
  Fresh = TRUE
  Window = 0
  MinAge = 0
  MaxLag = 1
  TTL = 1
  ChainDepth = 2
  Retention = 1
  LogRetention = 1
  MaxDelay = 1
  MaxCommitLag = 1
  MaxHeight = 2
  MaxSlots = 4
  MaxReorgs = 1
INVARIANTS AggregatesMatchDetail
PROPERTIES SnapshotFacedPool NoRowAgesOutUnrepaired RepairFindsAll
CHECK_DEADLOCK FALSE
