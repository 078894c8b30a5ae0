SPECIFICATION Spec
CONSTANTS
  c1 = c1
  e3 = e3
  e1 = e1
  e2 = e2
  Clients = {c1}
  EventIds = {e1, e2, e3}
  Actionable = {}
  MayBeCritical = {e1}
  StoreCapacity = 2
  SubscriberBuffer = 2
  Transit = 2
  MaxUpdates = 3
  MaxDrops = 1
INVARIANT CriticalsHeard
CHECK_DEADLOCK FALSE
