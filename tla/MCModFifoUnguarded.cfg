CONSTANTS
  Data = {a, b}
  None = None
  size = 2
  Types = {"FIFO_SIMPLE"}
  guard = FALSE
SPECIFICATION Spec
INVARIANTS EnqDeqConflictFree
