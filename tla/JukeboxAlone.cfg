CONSTANTS
  Cmd = {c1, c2, c3, c4}
  Proc = {p1, p2, p3, p4, p5}
  None = None
  MaxPermits = 1
  Faults = {}
  AcquireAwaited = TRUE
  Kinds = {"play", "skip", "stop", "pause", "resume", "volume"}
  Schedule = "alone"
  MaxQueue = 2
  MaxCrashes = 1
  MaxRestarts = 0
SYMMETRY Symmetry
SPECIFICATION Spec
CHECK_DEADLOCK FALSE
INVARIANTS Agreement NoneForgotten
