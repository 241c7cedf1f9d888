SPECIFICATION Safe
CONSTANTS
  Capacity = 2
  Total = 4
  WakeFails = TRUE
INVARIANT ConsumeDefined
