CONSTANTS
  Generators = {"MakeReset"}
  Cycles = 2
  None = None
  AnyOrder = FALSE
  MaxTicks = 3
SPECIFICATION ResetsSpec
INVARIANTS TicksWhileReset
