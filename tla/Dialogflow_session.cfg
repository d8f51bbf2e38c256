CONSTANTS
  Streams = {x1, x2}
  Callers = {c1}
  Media = media
  None = None
SPECIFICATION FairSpec
INVARIANTS
  IInv
PROPERTIES
  StopKeepsContract
  HangupCompletes
CHECK_DEADLOCK FALSE
