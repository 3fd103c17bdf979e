SPECIFICATION Spec
CONSTANTS
  Holders = {"a", "b"}
  actions <- Vector
  Kinds = {"never", "always", "buffer", "filter", "map", "skip", "take"}
  Sizes <- Ints
  Passes <- EvenPasses
  Mapped <- Doubled
  MaxCalls = 5
  MaxCopies = 2
INVARIANTS
  ForwardsAsNamed
  AllForgets
