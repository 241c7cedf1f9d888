SPECIFICATION Spec
CONSTANTS
  Slot = {s1}
  None = None
  Generations = 1
  Servers = {{"streams", "bodies"}, {"keepalive", "bodies"}}
  RingFails = FALSE
PROPERTY EverythingEnds
