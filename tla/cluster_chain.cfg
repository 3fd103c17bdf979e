SPECIFICATION FairChainSpec
CONSTANTS
  Clients = {c1, c2}
  Handles = {h1, h2, h3}
  NoHandle = NoHandle
  Nobody = Nobody
  MaxCalls = 3
  MaxResets = 1
  MaxFailures = 1
  Below <- Stages
  MaxPushed = 1
INVARIANTS
  FlushForgets
  LostIfPushedFromAction
  QuietWhenDestroyed
PROPERTIES
  OnTopItemsLeave
