CONSTANTS
  Cmd = {c1, c2}
  Proc = {p1, p2}
  None = None
  MaxPermits = 1
  Faults = {}
  AcquireAwaited = TRUE
  Kinds = {"play"}
  Schedule = "alone"
  MaxQueue = 2
  MaxCrashes = 0
  MaxRestarts = 0
SYMMETRY Symmetry
SPECIFICATION Spec
CHECK_DEADLOCK FALSE
INVARIANT NextTrackStarts
