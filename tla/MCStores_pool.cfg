SPECIFICATION PoolSpec
CONSTANTS
  Callers = {c1}
  Batches = {{1}}
  MaxCalls = 1
  MaxOpens = 1
  Users = {u1}
  None = None
  MaxConns = 2
  MaxPools = 3
  MaxFaults = 2
CHECK_DEADLOCK FALSE
INVARIANTS PoolInv
PROPERTIES RestartCompletes StopCompletes
