CONSTANTS
  a = a
  b = b
  Hash <- MCHash
  Size <- MCSize
  Task = {t1, t2}
  None = None
  MaxBytes = 2
  MaxRequests = 3
  Faults = {}
  MaxFaults = 0
SPECIFICATION Spec
CHECK_DEADLOCK FALSE
PROPERTIES NoDuplicates
