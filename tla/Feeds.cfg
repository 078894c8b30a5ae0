SPECIFICATION FairSpec
CONSTANTS
  InitialBackoff = 1
  MaxBackoff = 3
  FailureCap = 3
  VideoCooldown = 2
  QuietRunRequired = 2
  RisingEdgeFrames = 2
  WarmupFrames = 1
INVARIANTS
  TypeOK
  BackoffSchedule
  FeedLampHonest
  CameraLampHonest
PROPERTIES
  FindsTheFeed
  OneAlertPerEpisode
  MotionIsAlerted
  StopEnds
CHECK_DEADLOCK FALSE
