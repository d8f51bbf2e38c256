CONSTANTS
  AppSessions = {v1}
  ApiSessions = {}
  DetectorsN = 1
  LaggedN = 0
  FrameSamples = 2
  BufferSamples = 4
  App = app
  Media = media
  Callers = {c1}
  None = None
SPECIFICATION Spec
INVARIANT
  ExaminesTheFrame
CHECK_DEADLOCK FALSE
