CONSTANTS
  AppSessions = {v1}
  ApiSessions = {v2}
  DetectorsN = 1
  LaggedN = 1
  FrameSamples = 2
  BufferSamples = 1
  App = app
  Media = media
  Callers = {c1}
  None = None
SPECIFICATION FairSpec
INVARIANTS
  IInv
  NoThreadLeft
  SessionsCounted
PROPERTIES
  ImplementsFrameRounds
  HangupCompletes
CHECK_DEADLOCK FALSE
