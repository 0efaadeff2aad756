SPECIFICATION FairHubSpec
CONSTANTS
  c1 = c1
  c2 = c2
  ip = ip
  NoIp = NoIp
  Clients = {c1, c2}
  Ips = {ip}
  IpOf <- MCIpOf
  MaxClients = 2
  MaxConnsPerIP = 2
  RegisterCap = 1
  UnregisterCap = 1
  BroadcastCap = 1
  DirectCap = 1
  SendCap = 1
  MaxOthers = 2
  MaxBlocks = 1
  MaxViewers = 1
INVARIANTS SlotsPaired ChannelsClosedOnce
PROPERTIES GoneClientsForgotten EverybodyReturns
CHECK_DEADLOCK FALSE
