CONSTANTS
  Data = {a, b}
  Zero = a
  None = None
  Depth = 2
  Width = 1
  Code <- GrayWords
  X = X
  MaxSends = 3
  MaxLead = 1
SPECIFICATION MCSpec
INVARIANTS ClearedHoldsQueue GeneratorsAgree WaveTrue
PROPERTIES BitsRefined RegisterRefined OnePlaceRefined DeepRefined
