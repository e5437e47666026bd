SPECIFICATION Spec
CONSTANTS
  Producers = {}
  HasQueue = FALSE
  HasConsumer = FALSE
  MaxStarts = 1
  MaxDials = 1
  MaxFaults = 0
CHECK_DEADLOCK FALSE
INVARIANT DisconnectedAfterStop
