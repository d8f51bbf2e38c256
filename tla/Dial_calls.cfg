CONSTANTS
  MaxDests = 10
  MaxRetry = 12
SPECIFICATION Spec
INVARIANTS
  DialledInTurn
  PeerReleased
CHECK_DEADLOCK FALSE
