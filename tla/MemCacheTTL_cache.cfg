SPECIFICATION FairSpec
CONSTANTS
  NoItem = NoItem
  Keys = {k1, k2}
  Values = {v1}
  TTLs = {1}
  Limits = {1}
  Callers = {c1, c2}
  MaxTime = 2
  MaxSeq = 2
  MaxStarts = 2
CHECK_DEADLOCK FALSE
INVARIANTS Inv SkippedOnlyWhenFullOfLive
PROPERTIES GrowsOnlyWithinLimit ImplementsTTLMap ReaperServes
