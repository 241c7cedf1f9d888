SPECIFICATION Spec
CONSTANTS
  Last = 1
  MaxStreams = 1
  MaxRequests = 2
  Window = 0
  Servers = {{"producers"}, {"stops"}}
PROPERTY SessionSettles
