SPECIFICATION FairSpec
CONSTANTS
  feed = feed
  camera = camera
  w1 = w1
  w2 = w2
  e1 = e1
  e2 = e2
  e3 = e3
  d1 = d1
  d2 = d2
  d3 = d3
  d4 = d4
  Producers = {feed, camera}
  Workers = {w1, w2}
  EventIds <- MCEventIds
  Deliveries <- MCDeliveries
  IdOf <- MCIdOf
  RuleSeverity <- MCRuleSeverity
  FastPath <- MCFastPath
  QueueCapacity = 1
  StoreCapacity = 2
  NoDelivery = NoDelivery
  NoRecord = NoRecord
INVARIANTS
  TypeOK
  QueueInv
  EventsAccounted
  CallsAccounted
  EvaluatedOnce
  PreliminaryBacked
  WakeupsSuffice
PROPERTIES
  OldestMakesRoom
  OperatorStateSurvives
  ImplementsLifecycle
  BoardSettles
CHECK_DEADLOCK FALSE
