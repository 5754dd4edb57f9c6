SPECIFICATION Spec
CONSTANTS
  Capacity = 4
  BufferSize = 2
  Lead = 1
  MaxDispatched = 0
  MaxPing = 1
  MaxTick = 5
  MaxDelay = 1
INVARIANTS
  IInv
  LeadBounded
  HistoryIsTimeline
  InterpolatorOrdered
PROPERTIES
  RollbackHasCause
  RecordsFoundSpec
CHECK_DEADLOCK FALSE
