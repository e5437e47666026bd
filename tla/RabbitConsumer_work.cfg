CONSTANTS
  Msgs = {m1, m2, m3}
  ConcurrencyCount = 1
  MaxChans = 2
SPECIFICATION FairSpec
INVARIANTS Inv AgainOnlyAfterLoss
PROPERTIES Drains WorkersEnd
CHECK_DEADLOCK FALSE
