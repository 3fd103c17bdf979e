SPECIFICATION FairSpec
CONSTANTS
  Buffers = {b1, b2}
  NoBuffer = NoBuffer
  Chars = {"a", "b", "comma"}
  Files <- TwoFiles
  Arguments <- ShortArguments
  comma = "comma"
  KernelCap = 3
  MaxChanges = 5
INVARIANTS
  BufferInOnePlace
  NoReadIntoFreedPool
  RoundTrip
  RunsFollowChanges
  NoTwoInARowMissed
PROPERTIES
  BacklogDrains
