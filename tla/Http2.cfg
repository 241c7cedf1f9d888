SPECIFICATION Safe
CONSTANTS
  Last = 1
  MaxStreams = 1
  MaxRequests = 2
  Window = 2
  Servers = {{"producers"}, {"stops"}}
INVARIANTS Borrow AccountsExact WindowExact CallsDefined StreamSettled
