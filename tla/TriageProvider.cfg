SPECIFICATION FairSpec
CONSTANTS
  w1 = w1
  w2 = w2
  w3 = w3
  Workers = {w1, w2, w3}
  FailureThreshold = 2
  Cooldown = 2
  Never = Never
  MaxRetries = 2
INVARIANTS
  TypeOK
  OpenIffThreshold
  TrialIsRunning
  OpenCircuitQuiet
PROPERTIES
  EveryCallEnds
  Recovers
