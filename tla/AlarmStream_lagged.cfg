SPECIFICATION FairSpec
CONSTANTS
  c1 = c1
  e3 = e3
  e1 = e1
  e2 = e2
  Clients = {c1}
  EventIds = {e1, e2, e3}
  Actionable = {}
  MayBeCritical = {}
  StoreCapacity = 2
  SubscriberBuffer = 1
  Transit = 1
  MaxUpdates = 4
  MaxDrops = 0
PROPERTY BoardResyncs
CHECK_DEADLOCK FALSE
