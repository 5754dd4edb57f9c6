SPECIFICATION Spec
CONSTANTS
  Client = client
  Move = move
  Capacity = 4
  BufferSize = 1
  Lead = 1
  MaxDispatched = 0
  MaxPing = 0
  MaxTick = 4
  MaxLate = 1
  MaxArrivals = 3
CONSTRAINT FewArrivals
INVARIANTS
  SidesAgree
  InputBufferBounded
  PredictionExact
PROPERTIES
  ImplementsServer
  ImplementsClient
  NoRollbackOnceHeld
CHECK_DEADLOCK FALSE
