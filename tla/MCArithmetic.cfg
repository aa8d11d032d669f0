CONSTANTS
  B8 = 2
  B32 = 3
  B64 = 6
  MaxSize = 8
  ShiftSizes = {1, 2, 3, 5, 7}
  WideAmounts = {0, 1, 2, 3, 5, 6, 7, 16, 17, 32, 65, 127}
  MaxEntries = 6
  MaxAddrBits = 64
  MaxLookup = 30
SPECIFICATION MCSpec
INVARIANTS Computes MemoriesLoad
CHECK_DEADLOCK FALSE
