SPECIFICATION AssessmentSpec
CONSTANTS
  north = north
  unknown = unknown
  Sites = {north, unknown}
  UnknownField = unknown
  Missing = Missing
  Threshold = 3
  Window = 2
  MaxEvaluations = 4
  LowConfidence = 50
  HighConfidence = 85
  MaxSummary = 4
  MaxAction = 4
  MaxReasoning = 6
  PriceIn = 10
  PriceCached = 1
  PriceOut = 20
  NotReported = NotReported
  ReasonLength = 3
  Payloads <- MCPayloads
  Replies <- MCReplies
  Hours = {3, 13}
  NoAlarm = NoAlarm
  NoVerdict = NoVerdict
INVARIANTS
  AssessmentTypeOK
  NoRecentSightingLost
  ConfidenceNeverLowers
  VerdictFits
PROPERTIES
  EscalatesOnPattern
  GuessNeedsPattern
  GoodReplyIsUsed
CHECK_DEADLOCK FALSE
