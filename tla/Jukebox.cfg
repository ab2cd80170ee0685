CONSTANTS
  Cmd = {c1, c2, c3}
  Proc = {p1, p2, p3}
  None = None
  MaxPermits = 1
  Faults = {"spawn", "voice", "redis"}
  AcquireAwaited = TRUE
  Kinds = {"play", "skip", "stop", "pause"}
  Schedule = "any"
  MaxQueue = 2
  MaxCrashes = 0
  MaxRestarts = 1
SYMMETRY Symmetry
SPECIFICATION Spec
CHECK_DEADLOCK FALSE
INVARIANTS TypeOK PermitsBalanced PlayedOnce  RegistryPlaysItsTrack
