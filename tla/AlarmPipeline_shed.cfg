SPECIFICATION Spec
CONSTANTS
  feed = feed
  camera = camera
  w1 = w1
  w2 = w2
  e1 = e1
  e2 = e2
  e3 = e3
  d1 = d1
  d2 = d2
  d3 = d3
  d4 = d4
  Producers = {feed, camera}
  Workers = {w1}
  EventIds <- MCEventIds
  Deliveries <- MCDistinct
  IdOf <- MCDistinctIdOf
  RuleSeverity <- MCDistinctSeverity
  FastPath <- MCNoFastPath
  QueueCapacity = 1
  StoreCapacity = 1
  NoDelivery = NoDelivery
  NoRecord = NoRecord
INVARIANT ShedStillCorrelated
CHECK_DEADLOCK FALSE
