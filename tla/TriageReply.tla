----------------------------- MODULE TriageReply -----------------------------
(***************************************************************************)
(* What OpenAICompatibleProvider makes of a response: _extract with the    *)
(* validation of TriageResponse and its bounds, the token counts of either *)
(* usage shape, and the estimate of the cost.                              *)
(*                                                                         *)
(* A text is its length, whitespace collapsed as the code does: 0 is blank *)
(* and NoText a field that is missing (unless it has a default) or not a   *)
(* string.  Token counts are any integers, as int() takes them, prices per *)
(* token in any unit.                                                      *)
(***************************************************************************)
EXTENDS Integers

CONSTANTS MaxSummary, MaxAction, MaxReasoning,   \* MAX_..._CHARS
          PriceIn, PriceCached, PriceOut,        \* ModelPricing; 0 if unpriced
          NotReported                            \* a count that is absent

ASSUME ReplyAssumption ==
  /\ MaxSummary \in Nat /\ MaxSummary >= 2
  /\ MaxAction \in Nat /\ MaxAction >= 2
  /\ MaxReasoning \in Nat /\ MaxReasoning >= 2
  /\ PriceIn \in Nat /\ PriceOut \in Nat
  /\ PriceCached \in 0 .. PriceIn
  /\ NotReported \notin Int

NoText == -1

Text == {NoText} \cup Nat

ValidSeverities == {"info", "warning", "critical"}

(* A severity is a word, in the schema's spelling or with other casing and *)
(* spaces; a threat flag is a boolean, or a text that says one.            *)
SpeltSeverity == [word : ValidSeverities \cup {"another word", "not a text"}, exact : BOOLEAN]

Threats == {"true", "false", "yes", "no", "neither"}

(* usage: absent, an object with counts, or one of these with the first    *)
(* thing wrong: it has no get(), its prompt_tokens_details has none, a     *)
(* count is no number to int(), or a count is infinite or too large for    *)
(* the float arithmetic of the price.                                      *)
UsageErrors == {"no object", "no object in details", "past a float"}

Usage == [shape : {"absent", "object", "unreadable"} \cup UsageErrors,
          prompt : Int, completion : Int,
          cached_tokens : Int \cup {NotReported}, prompt_cache_hit_tokens : Int \cup {NotReported}]

(* The first thing wrong with the response on the way to its content, or   *)
(* an object with the fields that follow.                                  *)
Contents == {"no JSON body", "no choices", "refusal", "empty", "malformed JSON",
             "no object", "object"}

Reply == [content : Contents, severity : SpeltSeverity, is_real_threat : Threats,
          summary : Text, recommended_action : Text, reasoning : Text, usage : Usage]

-----------------------------------------------------------------------------
Validates_NeedsReasoning(reply) ==
  /\ reply.severity.word \in ValidSeverities
  /\ reply.is_real_threat # "neither"
  /\ reply.summary > 0 /\ reply.recommended_action > 0 /\ reply.reasoning > 0

(* TriageResponse.model_validate *)
Validates(reply) ==
  /\ reply.severity.word \in ValidSeverities
  /\ reply.is_real_threat # "neither"
  /\ reply.summary > 0 /\ reply.recommended_action > 0
  /\ reply.reasoning # NoText

(* _extract returns a verdict and its tokens have a price; otherwise one   *)
(* of them raises.  _usage_tokens catches only TypeError and ValueError:   *)
(* the usage alone can throw a validated verdict away.                     *)
Extracts(reply) ==
  reply.content = "object" /\ Validates(reply) /\ reply.usage.shape \notin UsageErrors

(* _truncate: what is cut off ends in an ellipsis, without the space that  *)
(* may come before it.                                                     *)
Truncated(length, limit) == IF length <= limit THEN {length} ELSE {limit - 1, limit}

(* _usage_tokens: OpenAI's field for cache hits, or else DeepSeek's. *)
Cached(usage) ==
  IF usage.cached_tokens # NotReported THEN usage.cached_tokens
  ELSE IF usage.prompt_cache_hit_tokens # NotReported
       THEN usage.prompt_cache_hit_tokens ELSE 0

UsageTokens(usage) ==
  IF usage.shape = "object"
  THEN [prompt |-> usage.prompt, completion |-> usage.completion, cached |-> Cached(usage)]
  ELSE [prompt |-> 0, completion |-> 0, cached |-> 0]

BilledCached_Unclamped(tokens) ==
  IF tokens.cached < tokens.prompt THEN tokens.cached ELSE tokens.prompt

(* max(0, min(cached, tokens_in)): no more of the input is billed as       *)
(* cached than there is, and never less than nothing.                      *)
BilledCached(tokens) ==
  IF tokens.cached < 0 \/ tokens.prompt < 0 THEN 0
  ELSE IF tokens.cached < tokens.prompt THEN tokens.cached ELSE tokens.prompt

EstimateCost(tokens) ==
  (tokens.prompt - BilledCached(tokens)) * PriceIn
  + BilledCached(tokens) * PriceCached
  + tokens.completion * PriceOut

-----------------------------------------------------------------------------
(* TRIAGE_JSON_SCHEMA, which strict structured output makes the API keep:  *)
(* every field is there, with the spelling of the enum.                    *)
ConformsToSchema(reply) ==
  /\ reply.content = "object"
  /\ reply.severity.word \in ValidSeverities /\ reply.severity.exact
  /\ reply.is_real_threat \in {"true", "false"}
  /\ reply.summary # NoText /\ reply.recommended_action # NoText /\ reply.reasoning # NoText
=============================================================================
