CONSTANTS
  Group = {g1, g2}
  Hash = {x, y}
  None = None
  Capacity = 1
  Faults = {"spawn", "restart"}
SYMMETRY Symmetry
SPECIFICATION Spec
INVARIANTS TypeOK WholeFile MarkedIsWhole StopsEnd NothingLeft
