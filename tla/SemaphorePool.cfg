CONSTANTS
  Group = {g1, g2, g3, g4}
  MaxStreams = 2
SPECIFICATION Spec
INVARIANTS TypeOK Balanced
PROPERTY EveryStartEnters
