CONSTANTS
  Pipes = {p1}
  Threads = {t1, t2}
  Actors = {a1, a2}
  Payloads = {x1}
  MaxQueued = 1
  None = None
SPECIFICATION Spec
SYMMETRY PipeThreadSymmetry
INVARIANTS
  NotificationOrder
  ConnectedOnce
  NoLostWakeup
  IInv
PROPERTIES
  DeletedAtTheEnd
CHECK_DEADLOCK FALSE
