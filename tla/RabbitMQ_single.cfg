SPECIFICATION FairSpec
CONSTANTS
  Producers = {p1}
  HasQueue = TRUE
  HasConsumer = TRUE
  MaxStarts = 1
  MaxDials = 4
  MaxFaults = 2
CHECK_DEADLOCK FALSE
INVARIANTS Inv StoppedHoldsNothing
PROPERTIES StopQuiesces Reconnects
