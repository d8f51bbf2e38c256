CONSTANTS
  Streams = {x1}
  Callers = {c1}
  Media = media
  None = None
SPECIFICATION Spec
INVARIANT
  ReaderContract
CHECK_DEADLOCK FALSE
