SPECIFICATION Spec
CONSTANTS
  HALF_RANGE = 4
  BITFIELD_BITS = 2
  Client = client
  Server = server
  ClientSends = 6
  ServerSends = 1
  Peers <- MCPeers
  MaxSent <- MCMaxSent
  MaxPending = 1
  MaxInFlight = 1
INVARIANT AcceptOnce
CHECK_DEADLOCK FALSE
