CONSTANTS
  Public = 2
  Admin = 0
  Listening = {"public", "redirect"}
  Budget = 2
  Descriptor = {d1, d2, d3}
  NoDescriptor = none
  Reclaim = TRUE
  Keepalive = TRUE
  Faults = TRUE
SYMMETRY Symmetry
SPECIFICATION Spec
INVARIANTS SlotsExact DescriptorsOwned 
PROPERTY ReclaimProtects
