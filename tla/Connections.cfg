SPECIFICATION Safe
CONSTANTS
  Slot = {s1}
  None = None
  Generations = 2
  Servers = {{"streams", "keepalive", "bodies"}, {"streams", "bodies"}}
  RingFails = TRUE
INVARIANTS Borrow AccountsExact UnwrapDefined ParserOwnsInput StreamSettled
PROPERTY NextRequest
