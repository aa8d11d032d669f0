CONSTANTS
  Data = {a, b}
  None = None
  Depth = 2
  Width = 1
  Code <- CounterCode
  Skew = FALSE
  MaxWidth = 6
SPECIFICATION MCSpec
INVARIANTS LevelHoldsQueue CountsSafe CountersExact
PROPERTIES ElementsArrive RoomReturns OneBitPerStep
