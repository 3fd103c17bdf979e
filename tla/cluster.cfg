SPECIFICATION FairSpec
CONSTANTS
  Clients = {c1, c2, c3}
  Handles = {h1, h2, h3}
  NoHandle = NoHandle
  Nobody = Nobody
  MaxCalls = 3
  MaxResets = 2
  MaxFailures = 1
INVARIANTS
  TypeOK
  EachItemOnce
  NoOrphan
  OneLiveTimer
  DeletedOnce
  OwnTimerFlushes
  ActionNotRaced
PROPERTIES
  ImplementsCluster
  ItemsLeave
  CallsReturn
