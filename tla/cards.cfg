SPECIFICATION FairSpec
CONSTANTS
  Suits = {"S", "h"}
  Faces = {"Q"}
  Spaces = {" "}
  Others = {"0"}
  Zero = "0"
  MaxLength = 4
  MaxChanges = 1
INVARIANTS
  CountsWhatWasRead
  OverreadByOne
PROPERTIES
  Ends
