SPECIFICATION FairSpec
CONSTANTS
  MaxStarts = 1
  MaxDials = 3
  Slots = 2
  QueueSize = 4
  MaxMsgs = 1
  MaxFaults = 1
CHECK_DEADLOCK FALSE
INVARIANTS Inv
PROPERTIES StopQuiesces Reconnects
