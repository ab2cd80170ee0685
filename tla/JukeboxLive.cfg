CONSTANTS
  Cmd = {c1, c2}
  Proc = {p1, p2}
  None = None
  MaxPermits = 1
  Faults = {"spawn", "voice", "redis"}
  AcquireAwaited = TRUE
  Kinds = {"play", "skip", "stop"}
  Schedule = "any"
  MaxQueue = 2
  MaxCrashes = 1
  MaxRestarts = 0
SPECIFICATION Spec
CHECK_DEADLOCK FALSE
PROPERTIES CommandsEnd ExitNoticed
