SPECIFICATION MCSpec
CONSTANTS
  MaxInt = 7
  Byte = 3
  MaxRunes = 4
  MaxRuneSize = 3
  MaxLetters = 6
  MaxSieve = 30
  MaxSubs = 2
CHECK_DEADLOCK FALSE
INVARIANTS LoadedByPrecedence HelpersMeanIt
