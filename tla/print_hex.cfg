SPECIFICATION Spec
CONSTANTS
  MaxLength = 18
  Columns <- SomeColumns
  Lines <- SomeLines
  Separators = {0, 1, 2}
  SizeLimit = 256
INVARIANTS
  RestIsCounted
  FitsColumns
