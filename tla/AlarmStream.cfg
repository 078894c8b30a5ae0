SPECIFICATION FairSpec
CONSTANTS
  c1 = c1
  e3 = e3
  e1 = e1
  e2 = e2
  Clients = {c1}
  EventIds = {e1, e2, e3}
  Actionable = {e1}
  MayBeCritical = {e1}
  StoreCapacity = 2
  SubscriberBuffer = 2
  Transit = 2
  MaxUpdates = 4
  MaxDrops = 1
INVARIANTS
  TypeOK
  NoSilentGap
  BoardInSync
  ChirpsOnce
PROPERTIES
  StreamMakesUp
  UntouchedMovesOn
  ImplementsFeed
  UpdatesArrive
CHECK_DEADLOCK FALSE
