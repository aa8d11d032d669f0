CONSTANTS
  B8 = 2
  B32 = 3
  B64 = 6
  MaxSize = 8
  ShiftSizes = {1, 2, 3, 5, 7}
  WideAmounts = {0, 1, 2, 3, 5, 6, 7, 8, 16, 17, 32, 65, 127}
  MaxEntries = 0
  MaxAddrBits = 1
  MaxLookup = 0
  Probed = {p0, p1}
  NoProbe = none
  MemSize = 3
  RunLenMax = 1
  TriggerToDump = 1
  ProbeWords = 1
SPECIFICATION MCSpec
INVARIANTS FarShiftIsZero
