CONSTANTS
  Cmd = {c1, c2}
  Length = 4
  Duration = 4
  Heartbeat = 2
  Width = 2
  MaxTime = 6
SYMMETRY Symmetry
SPECIFICATION Spec
CHECK_DEADLOCK FALSE
INVARIANTS TypeOK InStep BarFits
PROPERTY SkipsLittle
