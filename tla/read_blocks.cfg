SPECIFICATION FairInputSpec
CONSTANTS
  bufferSize = 4
  MaxFile = 11
  SizeLimit = 256
INVARIANTS
  SpanContinues
  CrashOnlyWhenDrained
  ShownTwice
PROPERTIES
  LoopEnds
