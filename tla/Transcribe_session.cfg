CONSTANTS
  Streams = {x1, x2}
  Callers = {c1, c2}
  Media = media
  None = None
SPECIFICATION FairSpec
INVARIANTS
  StreamerInUse
  PromiseSetOnce
  WritesDoneLast
  NamedBugIsAttached
  IInv
  OneStreamAttached
  ResamplerDestroyedOnce
PROPERTIES
  CleanupCompletes
  HangupEndsStream
CONSTRAINT SmallRaces
CHECK_DEADLOCK FALSE
