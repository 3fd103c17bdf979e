SPECIFICATION FairSpec
CONSTANTS
  Threads = {t1, t2}
  Nobody = Nobody
  Chain <- AllKinds
  Passes <- PassesFull
  Mapped <- Turned
  MaxPushes = 6
  MaxResets = 2
  MaxThrows = 1
INVARIANTS
  BufferKeepsAll
  BatchSizes
  WindowSlides
  ResetClears
PROPERTIES
  CallsReturn
