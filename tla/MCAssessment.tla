----------------------------- MODULE MCAssessment -----------------------------
(* Two sites and a threshold of three sightings in a window of two ticks.  *)
(* Payloads: one event type of each kind the rules tell apart, a           *)
(* confidence on either side of each threshold or none, a night and a day  *)
(* (at the other site, one confidence by day), and one payload with each   *)
(* field out of order.  Replies: one that keeps the schema and every       *)
(* change of one of its fields.                                            *)
EXTENDS Assessment
CONSTANTS north, unknown

MCTypes == {"fire_alarm", "smoke_detected", "door_forced", "loitering", "motion_detected"}

MCConfidences == {LowConfidence - 1, LowConfidence, HighConfidence - 1, HighConfidence}

Plain ==
  [site : {north}, type : MCTypes, confidence : MCConfidences, hour : Hours]
  \cup [site : {unknown}, type : MCTypes, confidence : {60}, hour : {13}]

Odd == [site |-> north, type |-> "door_forced", confidence |-> 60, hour |-> 13]

MCPayloads ==
  Plain
  \cup {[Odd EXCEPT !.site = Missing], [Odd EXCEPT !.type = Missing], [Odd EXCEPT !.hour = Missing]}
  \cup {[Odd EXCEPT !.confidence = value] : value \in {Missing, -5, 900}}

MCUsage == [shape |-> "object", prompt |-> 3, completion |-> 2,
            cached_tokens |-> NotReported, prompt_cache_hit_tokens |-> NotReported]

Good == [content |-> "object", severity |-> [word |-> "warning", exact |-> TRUE],
         is_real_threat |-> "true", summary |-> 2, recommended_action |-> 2, reasoning |-> 2,
         usage |-> MCUsage]

MCReplies ==
  {Good}
  \cup {[Good EXCEPT !.content = content] : content \in Contents}
  \cup {[Good EXCEPT !.severity.word = word] : word \in {"info", "critical", "another word"}}
  \cup {[Good EXCEPT !.severity.exact = FALSE]}
  \cup {[Good EXCEPT !.is_real_threat = flag] : flag \in {"no", "neither"}}
  \cup {[Good EXCEPT !.summary = length] : length \in {NoText, 0, MaxSummary + 1}}
  \cup {[Good EXCEPT !.recommended_action = length] : length \in {NoText, MaxAction + 1}}
  \cup {[Good EXCEPT !.reasoning = length] : length \in {NoText, 0, MaxReasoning + 1}}
  \cup {[Good EXCEPT !.usage.shape = shape] : shape \in {"absent", "unreadable"} \cup UsageErrors}
  \cup {[Good EXCEPT !.usage.cached_tokens = 1], [Good EXCEPT !.usage.cached_tokens = 40],
        [Good EXCEPT !.usage.cached_tokens = -5], [Good EXCEPT !.usage.prompt_cache_hit_tokens = 2],
        [Good EXCEPT !.usage.completion = -2],
        [Good EXCEPT !.usage.prompt = -3, !.usage.cached_tokens = -5]}
=============================================================================
