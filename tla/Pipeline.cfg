CONSTANTS
  Conn = {c1, c2}
  None = None
  MaxActive = 4
  MaxRejecting = 1
  Share = 2
  BatchLimit = 2
  Batches = 1
  LargeBuffers = 2
  MaxRequests = 3
  MaxTokens = 2
SYMMETRY Symmetry
SPECIFICATION Spec
INVARIANTS LeasesExact ResponsesInOrder NothingHeld
PROPERTY BatchOutlives
