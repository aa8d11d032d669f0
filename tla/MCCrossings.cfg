CONSTANTS
  Data = {zero, a, b}
  Zero = zero
  None = None
  MaxSends = 10
  Values = {v0, v1}
  NoValue = none
  ProbeWords = 1
  InitiallyEnabled = FALSE
  NumWords = 1
  CountMax = 2
  MemSize = 3
  RunLenMax = 1
  TriggerToDump = 1
SPECIFICATION MCSpec
INVARIANTS HoldsQueue WordSettled EarlyPulseExactlyOnce ReportsTrue CaptureExact
PROPERTIES FlagsFollow
