CONSTANTS
  Cmd = {c1, c2, c3}
  Proc = {p1, p2, p3}
  None = None
  MaxPermits = 1
  Faults = {}
  AcquireAwaited = TRUE
  Kinds = {"play"}
  Schedule = "serial"
  MaxQueue = 2
  MaxCrashes = 0
  MaxRestarts = 0
SYMMETRY Symmetry
SPECIFICATION Spec
CHECK_DEADLOCK FALSE
INVARIANT OneProcessPerGroup
