--------------------------- MODULE TriageProvider ---------------------------
(***************************************************************************)
(* OpenAICompatibleProvider.triage called by several triage workers that   *)
(* share one circuit breaker: admission, the POST, the retries with their  *)
(* sleeps, and what a call tells the breaker when it ends.                 *)
(*                                                                         *)
(* The awaits of a call are its POST and the sleep before a retry; other   *)
(* calls and the clock move there.                                         *)
(***************************************************************************)
EXTENDS CircuitBreaker, FiniteSets

CONSTANTS Workers,
          MaxRetries          \* Settings.llm_max_retries

ASSUME RetriesAssumption == MaxRetries \in Nat

VARIABLES
  stage,      \* per worker: not calling, awaiting a POST, or a retry's sleep
  attempt,    \* per worker: the attempt of _call_with_retries
  posted,     \* history: per worker, the POSTs it has sent since the circuit
              \* last came to be open
  asTrial,    \* history: the worker's call was admitted as the trial
  healed      \* the API answers every POST from now on

callVars == <<stage, attempt, posted, asTrial>>
vars == <<breakerVars, callVars, healed>>

Calling == {w \in Workers : stage[w] # "idle"}

-----------------------------------------------------------------------------
(* The API under the provider: it may fail in any way until it heals. *)

ApiHeals == ~healed /\ healed' = TRUE /\ UNCHANGED <<breakerVars, callVars>>

-----------------------------------------------------------------------------
(* triage: before_call raises and the worker has its fallback at once,     *)
(* which changes nothing here, or the first POST is sent.                  *)

Posts(w) == posted' = IF State = "open" THEN [posted EXCEPT ![w] = @ + 1] ELSE posted

StartsCall(w) ==
  /\ stage[w] = "idle"
  /\ asTrial' = [asTrial EXCEPT ![w] = State = "half_open"]
  /\ BeforeCall
  /\ Posts(w)
  /\ stage' = [stage EXCEPT ![w] = "posting"]
  /\ attempt' = [attempt EXCEPT ![w] = 0]
  /\ UNCHANGED healed

Ends(w) ==
  /\ stage' = [stage EXCEPT ![w] = "idle"]
  /\ attempt' = [attempt EXCEPT ![w] = 0]
  /\ asTrial' = [asTrial EXCEPT ![w] = FALSE]
  /\ UNCHANGED healed

Fails(w) ==
  /\ RecordFailure
  /\ posted' = IF State # "open" /\ openedFor' = 0 THEN [v \in Workers |-> 0] ELSE posted
  /\ Ends(w)

(* A good response: record_success, whatever the breaker has seen since    *)
(* the call was admitted.                                                  *)
Succeeds(w) ==
  /\ stage[w] = "posting"
  /\ RecordSuccess
  /\ Ends(w)
  /\ UNCHANGED posted

(* A status that is not retryable, or a response _extract rejects. *)
FailsForGood(w) ==
  /\ stage[w] = "posting"
  /\ ~healed
  /\ Fails(w)

GivesUp_OffByOne(w) == attempt[w] > MaxRetries

GivesUp(w) == attempt[w] >= MaxRetries

(* A timeout, a network error or a retryable status. *)
FailsRetryably(w) ==
  /\ stage[w] = "posting"
  /\ ~healed
  /\ \/ GivesUp(w) /\ Fails(w)
     \/ /\ ~GivesUp(w)
        /\ stage' = [stage EXCEPT ![w] = "sleeping"]
        /\ UNCHANGED <<breakerVars, attempt, posted, asTrial, healed>>

NextAttempt_Same(w) == attempt[w]

NextAttempt(w) == attempt[w] + 1

(* The sleep is over: the next POST, without asking the breaker. *)
Retries(w) ==
  /\ stage[w] = "sleeping"
  /\ stage' = [stage EXCEPT ![w] = "posting"]
  /\ attempt' = [attempt EXCEPT ![w] = NextAttempt(w)]
  /\ Posts(w)
  /\ UNCHANGED <<breakerVars, asTrial, healed>>

Tick == BreakerTick /\ UNCHANGED <<callVars, healed>>

-----------------------------------------------------------------------------
Init ==
  /\ BreakerInit
  /\ stage = [w \in Workers |-> "idle"]
  /\ attempt = [w \in Workers |-> 0]
  /\ posted = [w \in Workers |-> 0]
  /\ asTrial = [w \in Workers |-> FALSE]
  /\ healed = FALSE

Responds(w) == Succeeds(w) \/ FailsForGood(w) \/ FailsRetryably(w)

Next ==
  \/ \E w \in Workers : StartsCall(w) \/ Responds(w) \/ Retries(w)
  \/ Tick
  \/ ApiHeals

Spec == Init /\ [][Next]_vars

(* Every POST has a timeout and every sleep ends; the clock runs; while    *)
(* alarms keep coming, every worker calls again.  Nothing forces the API   *)
(* to heal.                                                                *)
Fairness ==
  /\ \A w \in Workers : /\ WF_vars(Responds(w)) /\ WF_vars(Retries(w))
                        /\ WF_vars(StartsCall(w))
  /\ WF_vars(Tick)

FairSpec == Spec /\ Fairness

-----------------------------------------------------------------------------
(* Properties *)

TypeOK ==
  /\ failures \in 0 .. FailureThreshold
  /\ openedFor \in 0 .. Cooldown \cup {Never}
  /\ trial \in BOOLEAN
  /\ stage \in [Workers -> {"idle", "posting", "sleeping"}]
  /\ attempt \in [Workers -> 0 .. MaxRetries]
  /\ posted \in [Workers -> Nat]
  /\ asTrial \in [Workers -> BOOLEAN]
  /\ healed \in BOOLEAN

(* The circuit is open or half-open exactly while the run of failures has  *)
(* reached the threshold, whichever calls ended in between.                *)
OpenIffThreshold == openedFor # Never <=> failures = FailureThreshold

(* The breaker never waits for a trial that nobody is making: a set flag   *)
(* belongs to a call still in flight, and the circuit is not closed.       *)
TrialIsRunning ==
  trial => openedFor # Never /\ \E w \in Calling : asTrial[w]

(* An open circuit falls quiet: the call that opened it sends nothing more *)
(* and every other worker at most the retries its call has left, so a dead *)
(* API hears a bounded number of POSTs however long the circuit stays open *)
(* and however many stragglers restart its cooldown by failing.            *)
OpenCircuitQuiet ==
  State = "open" =>
    /\ \A w \in Workers : posted[w] <= MaxRetries
    /\ \E w \in Workers : posted[w] = 0

(* Every call of the provider ends: the workers' fairness in AlarmPipeline *)
(* rests on it.                                                            *)
EveryCallEnds == \A w \in Workers : stage[w] # "idle" ~> stage[w] = "idle"

(* Once the API answers again the circuit closes for good: no interleaving *)
(* of stragglers and trials leaves it refusing calls.                      *)
Recovers == [](healed => <>[](State = "closed"))

(* circuit.py:14 says "Half-open admits a single trial call". *)
SingleTrial == \A v, w \in Calling : asTrial[v] /\ asTrial[w] => v = w
=============================================================================
