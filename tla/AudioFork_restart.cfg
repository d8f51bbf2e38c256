CONSTANTS
  Pipes = {p1, p2}
  Threads = {t1}
  Sessions = {s1}
  Callers = {c1, c2}
  Actors = {c1, c2, s1, t1}
  Payloads = {}
  Commands = {"stop"}
  MaxQueued = 2
  None = None
SPECIFICATION ForkSpec
SYMMETRY ForkCallerSymmetry
INVARIANTS
  OneBugPerChannel
  LiveBugIsAttached
  
  OpeningIsPending
CONSTRAINT WhileUp
CHECK_DEADLOCK FALSE
