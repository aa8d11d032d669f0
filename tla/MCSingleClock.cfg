CONSTANTS
  Data = {a, b, c}
  None = None
  p2depth = 4
  size = 3
  Types = {"FIFO_SIMPLE", "FIFO_LOOPY"}
  guard = TRUE
  Values = {v0, v1}
  reset_value = v0
  RegClasses = {"Reg", "CrossingReg", "RegAligned", "ConfigReg", "RegTwo", "CReg"}
  RegResets = {"NO_RESET_REG", "SYNC_RESET_REG", "ASYNC_RESET_REG"}
  RegPorts = 2
  LateInReset = FALSE
  CounterBits = 2
  CounterReset = 1
  CounterArgs = {1, 3}
  Undet = undet
  Shapes <- MCShapes
  lo_addr = 1
  hi_addr = 2
SPECIFICATION MCSpec
INVARIANTS
  HoldsQueue FlagsExact SmallHoldQueue
  CyclesCompose AnswersSteady
  RegEdgeComposes CounterIsCounter WireCarries MemoryIsEdge WaveTrue
