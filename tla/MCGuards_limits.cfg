SPECIFICATION MCSpec
CONSTANTS
  IPs = {a, b}
  Requests = {r1, r2}
  WatchCount = 2
  WatchPeriod = 1
  BanPeriod = 1
  EvictThreshold = 1
  SweepInterval = 1
  None = None
  MaxTime = 4
  MaxHits = 3
  Limit = 2
  Seconds = 1
  RateThreshold = 1
  EvictInterval = 1
  IdleTimeout = 3
  MaxDelay = 1
  RateTime = 5
  MaxRequests = 5
SYMMETRY Symmetry
CHECK_DEADLOCK FALSE
INVARIANTS GuardsInv OverLimitIsPunished AdmittedBound
PROPERTIES BanHolds
