CONSTANTS
  Pipes = {p1}
  Threads = {t1}
  Sessions = {s1}
  Callers = {c1}
  Actors = {c1, s1, t1}
  Payloads = {}
  Commands = {"stop"}
  MaxQueued = 2
  None = None
SPECIFICATION ForkFairSpec
PROPERTY
  StopClosesConnection
CHECK_DEADLOCK FALSE
