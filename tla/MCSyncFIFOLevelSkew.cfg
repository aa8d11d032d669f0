CONSTANTS
  Data = {a}
  None = None
  Depth = 2
  Width = 1
  Code <- CounterCode
  Skew = TRUE
SPECIFICATION Spec
INVARIANTS ShownIsHeld
