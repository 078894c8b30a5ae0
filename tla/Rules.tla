-------------------------------- MODULE Rules --------------------------------
(***************************************************************************)
(* The rule engine: the severity of an event from its type, the detector's *)
(* confidence and the hour.  It gives the preliminary verdict at intake,   *)
(* the final one of the fast path, and the fallback when the model is out. *)
(*                                                                         *)
(* Confidence is in percent: the rules compare it with two thresholds and  *)
(* nothing else.  Summary, action and reasoning are text and left out.     *)
(***************************************************************************)
EXTENDS Integers

CONSTANTS LowConfidence, HighConfidence   \* LOW_CONFIDENCE, HIGH_CONFIDENCE

ASSUME RulesAssumption ==
  /\ LowConfidence \in 1 .. 100
  /\ HighConfidence \in LowConfidence .. 100

FastPathTypes == {"fire_alarm", "panic_button"}

CriticalTypes == FastPathTypes \cup {"smoke_detected"}

InfoTypes == {"motion_detected", "object_detected", "sensor_fault"}

ForcedEntryTypes == {"perimeter_breach", "door_forced", "glass_break"}

IntrusionTypes == ForcedEntryTypes \cup {"loitering", "motion_detected"}

EventTypes == CriticalTypes \cup InfoTypes \cup IntrusionTypes
              \cup {"camera_offline", "unknown"}

(* A confidence that is absent or not a number is unreported. *)
Unreported == -1

Confidence == {Unreported} \cup 0 .. 100

(* An unrecognised type has the severity of most known ones. *)
BaseSeverity(type) ==
  IF type \in CriticalTypes THEN "critical"
  ELSE IF type \in InfoTypes THEN "info" ELSE "warning"

IsAfterHours(hour) == hour >= 22 \/ hour < 5

Lowered_Wraps(severity) ==
  [critical |-> "warning", warning |-> "info", info |-> "critical"][severity]

(* _shift one step down and one step up, inside the range of severities. *)
Lowered(severity) == IF severity = "critical" THEN "warning" ELSE "info"

Raised(severity) == IF severity = "info" THEN "warning" ELSE "critical"

Downgraded(base, confidence) ==
  IF confidence = Unreported THEN base = "critical" ELSE confidence < LowConfidence

Upgraded(type, confidence) ==
  /\ BaseSeverity(type) = "warning"
  /\ type \in ForcedEntryTypes
  /\ confidence >= HighConfidence

ByConfidence(type, confidence) ==
  LET base == BaseSeverity(type)
  IN IF Downgraded(base, confidence) THEN Lowered(base)
     ELSE IF Upgraded(type, confidence) THEN Raised(base) ELSE base

MeansMoreNow(type, hour, severity) ==
  IsAfterHours(hour) /\ type \in IntrusionTypes /\ severity # "info"

(* classify *)
Classify(type, confidence, hour) ==
  LET severity == ByConfidence(type, confidence)
  IN IF type \in FastPathTypes THEN BaseSeverity(type)
     ELSE IF MeansMoreNow(type, hour, severity) THEN Raised(severity) ELSE severity

(* is_real_threat *)
RealThreat(type, confidence, hour) ==
  LET severity == Classify(type, confidence, hour)
  IN severity = "critical" \/ (severity = "warning" /\ confidence >= LowConfidence)

-----------------------------------------------------------------------------
(* a is no more severe than b. *)
NoWorse(a, b) == a = "info" \/ b = "critical" \/ a = b

(* A detector that reports a confidence below the low threshold is         *)
(* guessing; the fast path does not ask it.                                *)
Guess(type, confidence) ==
  type \notin FastPathTypes /\ confidence \in 0 .. LowConfidence - 1
=============================================================================
