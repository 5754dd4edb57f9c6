SPECIFICATION FairSpec
CONSTANTS
  MIN_RTO = 2
  InitialRto = 3
  MAX_RTO = 4
  MAX_BACKOFF = 9
  UpdatePeriod = 2
  MaxPackets = 3
INVARIANTS
  IInv
  ResentInTime
PROPERTIES
  BacksOff
  NeverGivenUp
