SPECIFICATION SendSpec
CONSTANTS
  MaxStarts = 1
  MaxDials = 1
  Slots = 1
  QueueSize = 1
  MaxMsgs = 1
  Senders = {a, b}
  Parts = 2
  MaxAttempts = 2
  MaxSessions = 2
  MaxFaults = 1
CHECK_DEADLOCK FALSE
INVARIANTS SendInv ResultOfOwnAttempt
PROPERTIES SendReturns
