SPECIFICATION Spec
CONSTANTS
  HALF_RANGE = 32768
  BITFIELD_BITS = 32
  Key1 = k1
  Key2 = k2
  SessionKeys <- MCSessionKeys
  PocKey = poc
  NoKey = none
  MaxPings = 1
  MaxLosses = 0
  MaxFaults = 2
INVARIANTS
  IInv
  HandshakeReadable
PROPERTIES
  KeyKeptForGood
  ImplementsKeyExchange
CONSTRAINT StillInSession
