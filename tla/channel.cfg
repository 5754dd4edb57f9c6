SPECIFICATION LimitedSpec
CONSTANTS
  HALF_RANGE = 4
  BITFIELD_BITS = 2
  Client = client
  Server = server
  ClientSends = 8
  ServerSends = 2
  Peers <- MCPeers
  MaxSent <- MCMaxSent
  MaxPending = 2
  MaxInFlight = 1
INVARIANTS
  IInv
  WindowExact
  AcceptOnce
  NewIsAccepted
  ClearedNearAccepted
  PacketsTruthful
PROPERTY
  ImplementsDelivery
CHECK_DEADLOCK FALSE
