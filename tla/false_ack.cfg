SPECIFICATION LimitedSpec
CONSTANTS
  HALF_RANGE = 6
  BITFIELD_BITS = 3
  Client = client
  Server = server
  ClientSends = 3
  ServerSends = 1
  Peers <- MCPeers
  MaxSent <- MCMaxSent
  MaxPending = 2
  MaxInFlight = 2
INVARIANT ClearedWasAccepted
CHECK_DEADLOCK FALSE
