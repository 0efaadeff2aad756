SPECIFICATION FairSpec
CONSTANTS
  p1 = p1
  p2 = p2
  v1 = v1
  v2 = v2
  NoPod = NoPod
  NoRequest = 0
  Pods = {p1, p2}
  Blocks = {1, 2}
  Requests = {1, 2}
  RangeOf <- MCRangeOf
  ClaimerOf <- MCClaimerOf
  QueueCap = 1
  MaxCrashes = 1
  MaxStalls = 1
  MaxFaults = 1
INVARIANTS NoPurgedData
PROPERTIES ClosedByClaimer NothingLostSilently RequestsClose
CHECK_DEADLOCK FALSE
