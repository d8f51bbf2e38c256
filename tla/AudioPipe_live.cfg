CONSTANTS
  Pipes = {p1}
  Threads = {t1}
  Actors = {a1}
  Payloads = {x1, "audio"}
  MaxQueued = 1
  None = None
SPECIFICATION FairSpec
PROPERTIES
  ConnectAnswered
  CloseCompletes
  TextLeaves
  AudioLeaves
CHECK_DEADLOCK FALSE
