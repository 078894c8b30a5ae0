SPECIFICATION Spec
CONSTANTS
  InitialBackoff = 1
  MaxBackoff = 3
  FailureCap = 3
  VideoCooldown = 2
  QuietRunRequired = 2
  RisingEdgeFrames = 2
  WarmupFrames = 1
PROPERTY ReconnectsAfterSleep
