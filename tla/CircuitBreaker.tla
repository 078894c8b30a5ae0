--------------------------- MODULE CircuitBreaker ---------------------------
(***************************************************************************)
(* The circuit breaker object: its state and its four operations.  It is   *)
(* passive; TriageProvider says who calls it and when.                     *)
(*                                                                         *)
(* Time since the circuit opened is all the breaker reads of the clock, so *)
(* the clock is that age, counted in ticks up to the cooldown.  The run of *)
(* failures is only ever compared with the threshold: it is counted up to  *)
(* the threshold.                                                          *)
(***************************************************************************)
EXTENDS Integers

CONSTANTS FailureThreshold,   \* Settings.llm_circuit_threshold
          Cooldown,           \* Settings.llm_circuit_cooldown_s, in ticks
          Never               \* _opened_at is None

ASSUME BreakerAssumption ==
  /\ FailureThreshold \in Nat \ {0}
  /\ Cooldown \in Nat \ {0}
  /\ Never \notin 0 .. Cooldown

VARIABLES
  failures,    \* _consecutive_failures
  openedFor,   \* how long ago _opened_at was set, or Never
  trial        \* _trial_in_flight

breakerVars == <<failures, openedFor, trial>>

BreakerInit == failures = 0 /\ openedFor = Never /\ trial = FALSE

State ==
  IF openedFor = Never THEN "closed"
  ELSE IF openedFor >= Cooldown THEN "half_open" ELSE "open"

(* before_call: whether the call may go ahead, and its effect if so. *)
Refuses_TrialOnly == State = "half_open" /\ trial

Refuses == State = "open" \/ (State = "half_open" /\ trial)

BeforeCall ==
  /\ ~Refuses
  /\ trial' = (trial \/ State = "half_open")
  /\ UNCHANGED <<failures, openedFor>>

RecordSuccess_KeepsRun ==
  /\ openedFor' = Never
  /\ trial' = FALSE
  /\ UNCHANGED failures

RecordSuccess_KeepsOpen ==
  /\ failures' = 0
  /\ trial' = FALSE
  /\ UNCHANGED openedFor

RecordSuccess ==
  /\ failures' = 0
  /\ openedFor' = Never
  /\ trial' = FALSE

RecordFailure_KeepsTrial ==
  /\ failures' = IF failures < FailureThreshold THEN failures + 1 ELSE failures
  /\ openedFor' = IF failures' >= FailureThreshold THEN 0 ELSE openedFor
  /\ UNCHANGED trial

RecordFailure ==
  /\ trial' = FALSE
  /\ failures' = IF failures < FailureThreshold THEN failures + 1 ELSE failures
  /\ openedFor' = IF failures' >= FailureThreshold THEN 0 ELSE openedFor

(* Time passes; past the cooldown it changes nothing. *)
BreakerTick ==
  /\ openedFor # Never /\ openedFor < Cooldown
  /\ openedFor' = openedFor + 1
  /\ UNCHANGED <<failures, trial>>
=============================================================================
