SPECIFICATION FairSpec
CONSTANTS
  HALF_RANGE = 32768
  BITFIELD_BITS = 32
  Key1 = k1
  Key2 = k2
  SessionKeys <- MCSessionKeys
  PocKey = poc
  NoKey = none
  MaxPings = 2
  MaxLosses = 1
  MaxFaults = 0
INVARIANTS
  ClientNotAhead
PROPERTIES
  KeysEventuallyAgree
  EventuallySynced
