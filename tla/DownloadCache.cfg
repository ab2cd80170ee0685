CONSTANTS
  a = a
  b = b
  Hash <- MCHash
  Size <- MCSize
  Task = {t1, t2}
  None = None
  MaxBytes = 2
  MaxRequests = 3
  Faults = {"expire", "redis", "restart"}
  MaxFaults = 1
SPECIFICATION Spec
CHECK_DEADLOCK FALSE
INVARIANTS TypeOK Deduplicated LocksHeld Coherent LimitKept
PROPERTIES AnswersHold DownloadsEnd
