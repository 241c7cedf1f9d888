SPECIFICATION Spec
CONSTANTS
  Capacity = 2
  Total = 4
  WakeFails = FALSE
INVARIANTS InOrder ConsumeDefined PublicationSeen NoMissedSignal
PROPERTY CancelReturns
