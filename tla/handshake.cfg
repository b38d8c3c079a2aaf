CONSTANTS
  MaxFaults = 4
  TimeoutLimit = 3
SPECIFICATION HandshakeSpec
INVARIANTS
  EstablishedTogether
  FailsForAReason
PROPERTIES
  HandshakeCompletes
  CloseNoticedOrLost
CHECK_DEADLOCK FALSE
