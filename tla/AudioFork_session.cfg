CONSTANTS
  Pipes = {p1}
  Threads = {t1}
  Sessions = {s1}
  Callers = {c1, c2}
  Actors = {c1, c2, s1, t1}
  Payloads = {"meta", "audio"}
  Commands = {"stop", "graceful-shutdown", "send_text"}
  MaxQueued = 2
  None = None
SPECIFICATION ForkSpec
SYMMETRY CallerSymmetry
INVARIANTS
  MetadataBeforeAudio
  ForkInv
CHECK_DEADLOCK FALSE
