SPECIFICATION OwnerSpec
CONSTANTS
  Handles = {h1, h2, h3}
  NoHandle = NoHandle
  MaxRunning = 2
  MaxFailures = 2
SYMMETRY Symmetry
INVARIANTS
  HandleGivenBack
PROPERTIES
  QuietAfterStop
