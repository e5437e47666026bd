CONSTANTS
  Callers = {c1, c2}
  Batches = {{1}, {1, 2}}
  MaxCalls = 3
  MaxOpens = 2
  MaxFaults = 1
SPECIFICATION FairSpec
INVARIANTS Inv
PROPERTIES IdsNeverReused ImplementsDurableStore StopReturns
CHECK_DEADLOCK FALSE
