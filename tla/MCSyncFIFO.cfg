CONSTANTS
  Data = {a, b}
  None = None
  Depth = 4
  Width = 2
  Code <- CounterCode
SPECIFICATION Spec
INVARIANTS Pessimistic HoldsQueue PointersOrdered
PROPERTIES IsQueue
