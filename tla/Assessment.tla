------------------------------ MODULE Assessment ------------------------------
(***************************************************************************)
(* The verdict an alarm ends up with: its payload normalised, the verdict  *)
(* of the rules or of the model, and the correlation over it.  An alarm is *)
(* classified at intake and evaluated there (fast path) or by a worker,    *)
(* after the model's answer or with the rules' fallback; time may pass in  *)
(* between.  What waits shares nothing with the others that wait: one      *)
(* alarm at a time, for any site, stands for all the orders in which they  *)
(* are evaluated.                                                          *)
(***************************************************************************)
EXTENDS Correlation, Rules, TriageReply

CONSTANTS Payloads, Replies,   \* bounds: the inputs enumerated
          Hours,               \* bound: the hours at which alarms arrive
          Missing,             \* a field that is absent, blank or unreadable
          UnknownField,        \* UNKNOWN_FIELD
          ReasonLength,        \* bound: the text that escalation puts in front
          NoAlarm, NoVerdict

(* A payload's type is one of the known ones or stands for all the others; *)
(* its confidence is any number, in percent.                               *)
Payload == [site : Sites \cup {Missing}, type : EventTypes \cup {Missing},
            confidence : Int \cup {Missing}, hour : Hours \cup {Missing}]

ASSUME AssessmentAssumption ==
  /\ Payloads \subseteq Payload
  /\ Replies \subseteq Reply
  /\ Hours \subseteq 0 .. 23
  /\ UnknownField \in Sites
  /\ Missing \notin Sites \cup EventTypes \cup Int
  /\ ReasonLength \in Nat

Alarms == [site : Sites, type : EventTypes, confidence : Confidence, hour : Hours]

ASSUME NoAlarmAssumption == NoAlarm \notin Alarms

VARIABLES
  alarm,     \* the alarm whose verdict is awaited
  verdict    \* the verdict published last, until the next alarm

assessmentVars == <<vars, alarm, verdict>>

-----------------------------------------------------------------------------
(* normalise_payload *)

CoerceConfidence_Unbounded(value) == IF value = Missing THEN Unreported ELSE value

CoerceConfidence(value) ==
  IF value = Missing THEN Unreported
  ELSE IF value < 0 THEN 0 ELSE IF value > 100 THEN 100 ELSE value

(* A timestamp that cannot be read is the time of arrival. *)
Normalised(payload) ==
  [site : {IF payload.site = Missing THEN UnknownField ELSE payload.site},
   type : {IF payload.type = Missing THEN "unknown" ELSE payload.type},
   confidence : {CoerceConfidence(payload.confidence)},
   hour : IF payload.hour = Missing THEN Hours ELSE {payload.hour}]

Arrives ==
  /\ alarm = NoAlarm
  /\ evaluations < MaxEvaluations
  /\ \E payload \in Payloads : alarm' \in Normalised(payload)
  /\ verdict' = NoVerdict
  /\ UNCHANGED vars

-----------------------------------------------------------------------------
RuleSeverity(event) == Classify(event.type, event.confidence, event.hour)

RuleThreat(event) == RealThreat(event.type, event.confidence, event.hour)

(* What evaluate makes of the verdict it is given. *)
Raising(decided) ==
  IF escalated'
  THEN [decided EXCEPT !.severity = "critical", !.is_real_threat = TRUE,
                       !.reasoning = @ + ReasonLength]
  ELSE decided

(* The length of a rule verdict's reasoning does not matter: it is short.  *)
ByRules(event) ==
  [origin |-> "rules", severity |-> RuleSeverity(event),
   is_real_threat |-> RuleThreat(event), reasoning |-> 1]

(* The verdicts the provider may make of a reply, as the text is cut. *)
ByModel(event, reply) ==
  {[origin |-> "llm", severity |-> reply.severity.word,
    is_real_threat |-> reply.is_real_threat \in {"true", "yes"},
    summary |-> summary, recommended_action |-> action, reasoning |-> reasoning,
    tokens |-> UsageTokens(reply.usage),
    cost |-> EstimateCost(UsageTokens(reply.usage)),
    overrode |-> reply.severity.word # RuleSeverity(event)] :
     summary \in Truncated(reply.summary, MaxSummary),
     action \in Truncated(reply.recommended_action, MaxAction),
     reasoning \in Truncated(reply.reasoning, MaxReasoning)}

SettledWith(decided) ==
  /\ Evaluate(alarm.site, decided.severity)
  /\ verdict' = Raising(decided)
  /\ alarm' = NoAlarm

(* The fast path of intake, and the fallback when the provider has no      *)
(* response.                                                               *)
AssessedByRules == alarm # NoAlarm /\ SettledWith(ByRules(alarm))

(* The provider has a response: its verdict, or else the fallback. *)
AnsweredWith(reply) ==
  /\ alarm # NoAlarm
  /\ alarm.type \notin FastPathTypes
  /\ \/ Extracts(reply) /\ \E decided \in ByModel(alarm, reply) : SettledWith(decided)
     \/ ~Extracts(reply) /\ SettledWith(ByRules(alarm))

AssessedByModel == \E reply \in Replies : AnsweredWith(reply)

TimePasses == Tick /\ UNCHANGED <<alarm, verdict>>

AssessmentInit == Init /\ alarm = NoAlarm /\ verdict = NoVerdict

AssessmentNext == Arrives \/ AssessedByRules \/ AssessedByModel \/ TimePasses

AssessmentSpec == AssessmentInit /\ [][AssessmentNext]_assessmentVars

-----------------------------------------------------------------------------
(* Properties *)

AssessmentTypeOK == TypeOK /\ alarm \in Alarms \cup {NoAlarm}

(* Whatever the API answers, and whatever structured output it was asked   *)
(* for, what the dashboard gets fits it: a known severity, texts that are  *)
(* there and within their bounds (an escalation adds its reason to the     *)
(* bounded reasoning), never marked a false positive if escalated.  What   *)
(* the API says of its cache never makes the call dearer than uncached nor *)
(* the cost negative; only a negative count of tokens used does that.      *)
VerdictFits ==
  verdict # NoVerdict =>
    /\ verdict.severity \in Severity
    /\ escalated => verdict.severity = "critical" /\ verdict.is_real_threat
    /\ verdict.origin = "llm" =>
         /\ verdict.summary \in 1 .. MaxSummary
         /\ verdict.recommended_action \in 1 .. MaxAction
         /\ verdict.reasoning \in 0 .. MaxReasoning + (IF escalated THEN ReasonLength ELSE 0)
         /\ LET tokens == verdict.tokens
            IN /\ verdict.cost <= tokens.prompt * PriceIn + tokens.completion * PriceOut
               /\ tokens.prompt >= 0 /\ tokens.completion >= 0 => verdict.cost >= 0

(* A reply that keeps the schema it was asked for and says something is    *)
(* thrown away exactly if counting or pricing its tokens raises.           *)
(* Otherwise, whatever its counts are, it becomes the verdict, no less     *)
(* severe than the model said, and shows as an override exactly if the     *)
(* rules would have said something else.                                   *)
GoodReplyIsUsed ==
  [][\A reply \in Replies :
       /\ ConformsToSchema(reply)
       /\ reply.summary > 0 /\ reply.recommended_action > 0
       /\ AnsweredWith(reply)
       => IF reply.usage.shape \in UsageErrors THEN verdict'.origin = "rules"
          ELSE /\ verdict'.origin = "llm"
               /\ NoWorse(reply.severity.word, verdict'.severity)
               /\ verdict'.overrode <=> reply.severity.word # RuleSeverity(alarm)]_assessmentVars

(* The confidences the payloads come to. *)
Reported == {CoerceConfidence(payload.confidence) : payload \in Payloads}

(* A surer detector never makes the rules see less in the same event,      *)
(* neither severity nor threat, through the downgrade, the upgrade and the *)
(* shift of the night together; an event with no confidence reported lies  *)
(* between a guess and the rest.                                           *)
ConfidenceNeverLowers ==
  alarm # NoAlarm =>
    \A other \in Reported :
      LET surer == [alarm EXCEPT !.confidence = other]
      IN \/ Guess(alarm.type, alarm.confidence)
         \/ /\ other >= LowConfidence
            /\ alarm.confidence = Unreported \/ alarm.confidence <= other
         => /\ NoWorse(RuleSeverity(alarm), RuleSeverity(surer))
            /\ RuleThreat(alarm) => RuleThreat(surer)

(* With the model out or talking nonsense, a detector's guess reaches the  *)
(* operator as critical only in a pattern: its site has had the threshold  *)
(* of sightings within the window, and the guess itself counts as one only *)
(* where it is still worth a warning.                                      *)
GuessNeedsPattern ==
  [][(/\ alarm # NoAlarm /\ alarm' = NoAlarm
      /\ Guess(alarm.type, alarm.confidence)
      /\ verdict'.origin = "rules" /\ verdict'.severity = "critical")
     => /\ escalated'
        /\ Cardinality(Recent(seen'[alarm.site])) >= Threshold
        /\ alarm.type \notin CriticalTypes => seen' = seen]_assessmentVars
=============================================================================
