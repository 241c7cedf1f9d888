SPECIFICATION Spec
CONSTANTS
  MaxActive = 2
  MaxRejecting = 1
  RequestsPerSecond = 2
  Burst = 2
  RejectionsPerSecond = 1
  TokenScale = 2
  MaxU32 = 3
  MaxU64 = 12
  Isolated = TRUE
  MaxClock = 5
INVARIANTS RateBound
