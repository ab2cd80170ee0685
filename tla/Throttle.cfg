CONSTANTS
  Capacity <- MCCapacity
  Rate <- MCRate
  Cost <- UnitsPerToken
  Horizon = 8
SPECIFICATION Spec
INVARIANTS TypeOK WindowBound Budget WaitSuffices
