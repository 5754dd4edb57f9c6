SPECIFICATION Spec
CONSTANTS
  Clients = {c1, c2}
  Bits = {move}
  MoveBit = move
  MaxTick = 4
  MaxInputs = 2
SYMMETRY Symmetry
INVARIANTS
  IInv
  HeldInputIsLatest
  BufferIsPending
PROPERTY
  SessionsFollowConnections
CHECK_DEADLOCK FALSE
