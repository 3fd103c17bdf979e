SPECIFICATION Spec
CONSTANTS
  Chars = {"a", "b"}
  NoItem = NoItem
  Parsers <- Nested
  Depth <- Depths
  MaxLength = 2
INVARIANTS
  OrderedChoice
  ErrorLifetimes
