------------------------ MODULE TriageProviderProofs ------------------------
(***************************************************************************)
(* Theorems about the provider's calls and their circuit breaker, for any  *)
(* number of workers, threshold, cooldown and number of retries.           *)
(***************************************************************************)
EXTENDS TriageProvider, TLAPS

-----------------------------------------------------------------------------
(* The breaker's own operations keep its state in type and the flag        *)
(* consistent with the failure run, whoever calls them.                    *)
BreakerOK ==
  /\ failures \in 0 .. FailureThreshold
  /\ openedFor \in 0 .. Cooldown \cup {Never}
  /\ trial \in BOOLEAN
  /\ OpenIffThreshold
  /\ trial => openedFor # Never

LEMMA BeforeCallOK ==
  ASSUME BreakerOK, BeforeCall
  PROVE  BreakerOK' /\ (State # "half_open" => trial' = trial) /\ (trial' => trial \/ State = "half_open")
BY BreakerAssumption DEF BreakerOK, BeforeCall, OpenIffThreshold, State

LEMMA RecordSuccessOK ==
  ASSUME BreakerOK, RecordSuccess
  PROVE  BreakerOK' /\ ~trial'
<1>1. trial' = FALSE
  BY DEF RecordSuccess
<1>2. ~trial' /\ trial' \in BOOLEAN
  BY <1>1
<1>3. /\ failures' \in 0 .. FailureThreshold
      /\ openedFor' \in 0 .. Cooldown \cup {Never}
  BY BreakerAssumption DEF BreakerOK, RecordSuccess
<1>4. openedFor' # Never <=> failures' = FailureThreshold
  BY BreakerAssumption DEF BreakerOK, RecordSuccess, OpenIffThreshold
<1> QED BY <1>2, <1>3, <1>4 DEF BreakerOK, OpenIffThreshold

LEMMA RecordFailureOK ==
  ASSUME BreakerOK, RecordFailure
  PROVE  BreakerOK' /\ ~trial'
<1>1. trial' = FALSE
  BY DEF RecordFailure
<1>2. ~trial' /\ trial' \in BOOLEAN
  BY <1>1
<1>3. /\ failures' \in 0 .. FailureThreshold
      /\ openedFor' \in 0 .. Cooldown \cup {Never}
  BY BreakerAssumption DEF BreakerOK, RecordFailure
<1>4. openedFor' # Never <=> failures' = FailureThreshold
  BY BreakerAssumption DEF BreakerOK, RecordFailure, OpenIffThreshold
<1> QED BY <1>2, <1>3, <1>4 DEF BreakerOK, OpenIffThreshold

LEMMA BreakerTickOK ==
  ASSUME BreakerOK, BreakerTick
  PROVE  BreakerOK' /\ trial' = trial
BY BreakerAssumption DEF BreakerOK, BreakerTick, OpenIffThreshold

-----------------------------------------------------------------------------
(* While the circuit is open a call has sent no more than its retries so   *)
(* far, and the worker whose failure opened it has no call.                *)
QuietInv ==
  State = "open" =>
    /\ \A w \in Workers : /\ posted[w] <= MaxRetries
                          /\ stage[w] # "idle" => posted[w] <= attempt[w]
    /\ \E w \in Workers : posted[w] = 0 /\ stage[w] = "idle"

(* A sleeping call has attempts left, and a set flag has its trial.        *)
IInv ==
  /\ TypeOK
  /\ QuietInv
  /\ OpenIffThreshold
  /\ TrialIsRunning
  /\ \A w \in Workers : stage[w] = "sleeping" => attempt[w] < MaxRetries

LEMMA IInvInit == Init => IInv
<1> SUFFICES ASSUME Init PROVE IInv
  OBVIOUS
<1>1. trial = FALSE
  BY DEF Init, BreakerInit
<1>2. ~trial /\ trial \in BOOLEAN
  BY <1>1
<1>3. failures = 0 /\ openedFor = Never
  BY DEF Init, BreakerInit
<1>4. TypeOK
  <2>1. healed \in BOOLEAN /\ asTrial \in [Workers -> BOOLEAN]
    BY Zenon DEF Init
  <2>2. /\ failures \in 0 .. FailureThreshold
        /\ openedFor \in 0 .. Cooldown \cup {Never}
        /\ attempt \in [Workers -> 0 .. MaxRetries]
        /\ posted \in [Workers -> Nat]
    BY <1>3, BreakerAssumption, RetriesAssumption DEF Init
  <2>3. stage \in [Workers -> {"idle", "posting", "sleeping"}]
    BY DEF Init
  <2> QED BY <1>2, <2>1, <2>2, <2>3 DEF TypeOK
<1>5. OpenIffThreshold
  BY <1>3, BreakerAssumption DEF OpenIffThreshold
<1>6. TrialIsRunning
  BY <1>2 DEF TrialIsRunning
<1>7. \A w \in Workers : stage[w] = "sleeping" => attempt[w] < MaxRetries
  BY DEF Init
<1>8. QuietInv
  BY <1>3 DEF QuietInv, State
<1> QED BY <1>4, <1>5, <1>6, <1>7, <1>8 DEF IInv

(* A call that fails ends with the flag cleared; if the circuit was not    *)
(* open and is now, every count starts again.                              *)
LEMMA FailsOK ==
  ASSUME IInv, NEW w \in Workers, stage[w] # "idle", Fails(w), UNCHANGED healed
  PROVE  IInv'
<1> USE RetriesAssumption DEF IInv, TypeOK
<1>1. BreakerOK
  BY DEF BreakerOK, TrialIsRunning
<1>2. BreakerOK' /\ ~trial'
  BY <1>1, RecordFailureOK DEF Fails
<1>3. posted' \in [Workers -> Nat]
  BY DEF Fails
<1>4. /\ stage' = [stage EXCEPT ![w] = "idle"]
      /\ attempt' = [attempt EXCEPT ![w] = 0]
      /\ asTrial' = [asTrial EXCEPT ![w] = FALSE]
  BY DEF Fails, Ends
<1>5. asTrial' \in [Workers -> BOOLEAN]
  BY <1>4
<1>6. TypeOK' /\ OpenIffThreshold' /\ TrialIsRunning'
  BY <1>2, <1>3, <1>4, <1>5 DEF BreakerOK, TrialIsRunning
<1>7. \A v \in Workers : stage'[v] = "sleeping" => attempt'[v] < MaxRetries
  BY <1>4
<1>8. QuietInv'
  <2> SUFFICES ASSUME State' = "open"
               PROVE  /\ \A v \in Workers : /\ posted'[v] <= MaxRetries
                                            /\ stage'[v] # "idle" => posted'[v] <= attempt'[v]
                      /\ \E v \in Workers : posted'[v] = 0 /\ stage'[v] = "idle"
    BY DEF QuietInv
  <2>1. CASE State # "open" /\ openedFor' = 0
    <3>1. posted' = [v \in Workers |-> 0]
      BY <2>1 DEF Fails
    <3> QED BY <1>4, <3>1
  <2>2. CASE ~(State # "open" /\ openedFor' = 0)
    <3>1. posted' = posted
      BY <2>2 DEF Fails
    <3>2. State = "open"
      BY <2>2, BreakerAssumption DEF Fails, RecordFailure, State
    <3> QED BY <1>4, <3>1, <3>2 DEF QuietInv
  <2> QED BY <2>1, <2>2
<1> QED BY <1>6, <1>7, <1>8

LEMMA IInvStep == IInv /\ [Next]_vars => IInv'
<1> SUFFICES ASSUME IInv, [Next]_vars PROVE IInv'
  OBVIOUS
<1> USE RetriesAssumption DEF IInv, TypeOK, callVars, breakerVars
<1>0. BreakerOK
  BY DEF BreakerOK, TrialIsRunning
<1>1. ASSUME NEW w \in Workers, StartsCall(w) PROVE IInv'
  <2>1. BreakerOK' /\ (trial' => trial \/ State = "half_open")
    BY <1>0, <1>1, BeforeCallOK DEF StartsCall
  <2>2. TypeOK' /\ OpenIffThreshold'
    <3>1. posted' \in [Workers -> Nat]
      BY <1>1 DEF StartsCall, Posts
    <3>2. asTrial' \in [Workers -> BOOLEAN]
      BY <1>1 DEF StartsCall, State
    <3> QED BY <1>1, <2>1, <3>1, <3>2 DEF StartsCall, BreakerOK
  <2>3. TrialIsRunning'
    <3> SUFFICES ASSUME trial' PROVE openedFor' # Never /\ \E v \in Calling' : asTrial'[v]
      BY DEF TrialIsRunning
    <3>1. openedFor' # Never
      BY <2>1 DEF BreakerOK
    <3>2. CASE State = "half_open"
      BY <1>1, <3>1, <3>2 DEF StartsCall, Calling
    <3>3. CASE State # "half_open"
      <4>1. PICK v \in Calling : asTrial[v]
        BY <2>1, <3>3 DEF TrialIsRunning
      <4>2. v # w
        BY <1>1, <4>1 DEF StartsCall, Calling
      <4>3. v \in Calling' /\ asTrial'[v]
        BY <1>1, <4>1, <4>2 DEF StartsCall, Calling
      <4> QED BY <3>1, <4>3
    <3> QED BY <3>2, <3>3
  <2>4. \A v \in Workers : stage'[v] = "sleeping" => attempt'[v] < MaxRetries
    BY <1>1 DEF StartsCall
  <2>5. State' # "open"
    BY <1>1 DEF StartsCall, BeforeCall, Refuses, State
  <2> QED BY <2>2, <2>3, <2>4, <2>5 DEF QuietInv
<1>2. ASSUME NEW w \in Workers, Succeeds(w) PROVE IInv'
  <2>1. BreakerOK' /\ ~trial'
    BY <1>0, <1>2, RecordSuccessOK DEF Succeeds
  <2>2. State' # "open"
    BY <1>2 DEF Succeeds, RecordSuccess, State
  <2> QED BY <1>2, <2>1, <2>2 DEF Succeeds, Ends, BreakerOK, TrialIsRunning, QuietInv
<1>3. ASSUME NEW w \in Workers, FailsForGood(w) PROVE IInv'
  BY <1>3, FailsOK DEF FailsForGood, Fails, Ends
<1>4. ASSUME NEW w \in Workers, FailsRetryably(w) PROVE IInv'
  <2>1. CASE GivesUp(w)
    BY <1>4, <2>1, FailsOK DEF FailsRetryably, Fails, Ends
  <2>2. CASE ~GivesUp(w)
    <3>1. /\ stage[w] = "posting" /\ stage' = [stage EXCEPT ![w] = "sleeping"]
          /\ UNCHANGED <<breakerVars, attempt, posted, asTrial, healed>>
          /\ attempt[w] < MaxRetries
      BY <1>4, <2>2 DEF FailsRetryably, GivesUp
    <3>2. Calling' = Calling
      BY <3>1 DEF Calling
    <3>3. QuietInv'
      BY <3>1 DEF QuietInv, State
    <3> QED BY <3>1, <3>2, <3>3 DEF OpenIffThreshold, TrialIsRunning
  <2> QED BY <2>1, <2>2
<1>5. ASSUME NEW w \in Workers, Retries(w) PROVE IInv'
  <2>1. Calling' = Calling
    BY <1>5 DEF Retries, Calling
  <2>2. attempt' = [attempt EXCEPT ![w] = attempt[w] + 1] /\ attempt[w] < MaxRetries
    BY <1>5 DEF Retries, NextAttempt
  <2>3. posted' \in [Workers -> Nat]
    BY <1>5 DEF Retries, Posts
  <2>4. QuietInv'
    BY <1>5, <2>2 DEF Retries, Posts, QuietInv, State
  <2>5. UNCHANGED <<failures, openedFor, trial, asTrial, healed>>
    BY <1>5 DEF Retries
  <2>6. stage' = [stage EXCEPT ![w] = "posting"]
    BY <1>5 DEF Retries
  <2>7. TrialIsRunning'
    BY <2>1, <2>5 DEF TrialIsRunning
  <2>8. TypeOK' /\ OpenIffThreshold'
    BY <2>2, <2>3, <2>5, <2>6 DEF OpenIffThreshold
  <2>9. \A v \in Workers : stage'[v] = "sleeping" => attempt'[v] < MaxRetries
    BY <2>2, <2>6
  <2> QED BY <2>4, <2>7, <2>8, <2>9
<1>6. CASE Tick
  <2>1. BreakerOK' /\ trial' = trial
    BY <1>0, <1>6, BreakerTickOK DEF Tick
  <2>2. State' = "open" => State = "open"
    BY <1>6, BreakerAssumption DEF Tick, BreakerTick, State
  <2> QED BY <1>6, <2>1, <2>2 DEF Tick, BreakerOK, TrialIsRunning, Calling, QuietInv
<1>7. CASE ApiHeals
  BY <1>7 DEF ApiHeals, OpenIffThreshold, TrialIsRunning, Calling, QuietInv, State
<1>8. CASE UNCHANGED vars
  BY <1>8 DEF vars, OpenIffThreshold, TrialIsRunning, Calling, QuietInv, State
<1> QED BY <1>1, <1>2, <1>3, <1>4, <1>5, <1>6, <1>7, <1>8 DEF Next, Responds

(* Every state is well typed; no call makes more than MaxRetries retries.  *)
THEOREM TypeCorrect == Spec => []TypeOK
<1>1. IInv => TypeOK
  BY DEF IInv
<1> QED BY <1>1, IInvInit, IInvStep, PTL DEF Spec

(* The circuit leaves closed exactly when the run of failures reaches the  *)
(* threshold and returns with its reset, in every interleaving of calls.   *)
THEOREM OpensAtThreshold == Spec => []OpenIffThreshold
<1>1. IInv => OpenIffThreshold
  BY DEF IInv
<1> QED BY <1>1, IInvInit, IInvStep, PTL DEF Spec

(* A set trial flag always belongs to a trial in flight, so a half-open    *)
(* circuit that refuses everyone is waiting for a call that will end.      *)
THEOREM TrialAlwaysRuns == Spec => []TrialIsRunning
<1>1. IInv => TrialIsRunning
  BY DEF IInv
<1> QED BY <1>1, IInvInit, IInvStep, PTL DEF Spec

(* An open circuit falls quiet: the worker whose failure opened it sends   *)
(* nothing and every other at most its retries, until the cooldown ends.   *)
THEOREM QuietWhileOpen == Spec => []OpenCircuitQuiet
<1>1. IInv => OpenCircuitQuiet
  BY DEF IInv, QuietInv, OpenCircuitQuiet
<1> QED BY <1>1, IInvInit, IInvStep, PTL DEF Spec

-----------------------------------------------------------------------------
(* What is true of "a single trial call" (circuit.py:14).  Two trials may  *)
(* be in flight at once, as SingleTrial's run shows, but never within one  *)
(* cooldown: the flag is given back only by a success, which closes the    *)
(* circuit, or by a failure, which starts the cooldown again, and a trial  *)
(* is admitted only while nobody holds it.                                 *)
OneTrialPerCooldown ==
  [][ /\ trial /\ ~trial' => openedFor' \in {0, Never}
      /\ \A w \in Workers : ~asTrial[w] /\ asTrial'[w] => ~trial /\ trial' ]_vars

LEMMA TrialGivenBack ==
  ASSUME IInv, Next, trial, ~trial'
  PROVE  openedFor' \in {0, Never}
<1>1. failures = FailureThreshold
  BY DEF IInv, TrialIsRunning, OpenIffThreshold
<1>2. ASSUME RecordFailure PROVE openedFor' = 0
  BY <1>1, <1>2, BreakerAssumption DEF RecordFailure
<1>3. ASSUME RecordSuccess PROVE openedFor' = Never
  BY <1>3 DEF RecordSuccess
<1>4. RecordFailure \/ RecordSuccess
  BY DEF Next, Responds, StartsCall, BeforeCall, Succeeds, FailsForGood, FailsRetryably,
         Fails, Retries, Tick, BreakerTick, ApiHeals, breakerVars
<1> QED BY <1>2, <1>3, <1>4

LEMMA TrialAdmitted ==
  ASSUME IInv, Next, NEW w \in Workers, ~asTrial[w], asTrial'[w]
  PROVE  ~trial /\ trial'
<1>1. asTrial \in [Workers -> BOOLEAN]
  BY DEF IInv, TypeOK
<1>2. ASSUME NEW v \in Workers, Ends(v) PROVE FALSE
  BY <1>1, <1>2 DEF Ends
<1>3. PICK v \in Workers : StartsCall(v)
  BY <1>2 DEF Next, Responds, Succeeds, FailsForGood, FailsRetryably, Fails, Retries, Tick,
              ApiHeals, callVars
<1>4. asTrial' = [asTrial EXCEPT ![v] = (State = "half_open")] /\ BeforeCall
  BY <1>3 DEF StartsCall
<1>5. State = "half_open"
  BY <1>1, <1>4
<1> QED BY <1>4, <1>5 DEF BeforeCall, Refuses

THEOREM TrialsTakeTurns == Spec => OneTrialPerCooldown
<1> DEFINE OneTrialStep ==
      /\ trial /\ ~trial' => openedFor' \in {0, Never}
      /\ \A w \in Workers : ~asTrial[w] /\ asTrial'[w] => ~trial /\ trial'
<1>1. IInv /\ [Next]_vars => [OneTrialStep]_vars
  BY TrialGivenBack, TrialAdmitted
<1> QED BY <1>1, IInvInit, IInvStep, PTL DEF Spec, OneTrialPerCooldown

-----------------------------------------------------------------------------
(* The waits a call still has before it: the POST or the sleep it is in,   *)
(* and two for every retry it has left.                                    *)
Left(w) ==
  IF stage[w] = "idle" THEN 0
  ELSE 2 * (MaxRetries - attempt[w]) + (IF stage[w] = "posting" THEN 2 ELSE 1)

(* A call has 2 * MaxRetries + 2 waits when it starts, and every step it   *)
(* takes leaves it fewer, whatever the API answers and however the calls   *)
(* interleave; no other step gives any back.  This is what EveryCallEnds   *)
(* rests on, besides the fairness of the waits themselves.                 *)
CallsWearOut ==
  [][ \A w \in Workers :
        /\ stage[w] = "idle" /\ stage'[w] # "idle" => Left(w)' = 2 * MaxRetries + 2
        /\ stage[w] # "idle" => \/ Left(w)' < Left(w)
                                \/ UNCHANGED <<stage[w], attempt[w]>> ]_vars

LEMMA WearsOut ==
  ASSUME IInv, Next, NEW w \in Workers
  PROVE  /\ stage[w] = "idle" /\ stage'[w] # "idle" => Left(w)' = 2 * MaxRetries + 2
         /\ stage[w] # "idle" => Left(w)' < Left(w) \/ UNCHANGED <<stage[w], attempt[w]>>
<1> USE RetriesAssumption
<1> DEFINE Wear == /\ stage[w] = "idle" /\ stage'[w] # "idle" => Left(w)' = 2 * MaxRetries + 2
                   /\ stage[w] # "idle" => Left(w)' < Left(w) \/ UNCHANGED <<stage[w], attempt[w]>>
<1>0. /\ stage \in [Workers -> {"idle", "posting", "sleeping"}]
      /\ attempt \in [Workers -> 0 .. MaxRetries]
      /\ stage[w] = "sleeping" => attempt[w] < MaxRetries
  BY DEF IInv, TypeOK
<1>1. ASSUME NEW v \in Workers, StartsCall(v) PROVE Wear
  BY <1>0, <1>1 DEF StartsCall, Left
<1>2. ASSUME NEW v \in Workers, Ends(v) PROVE Wear
  BY <1>0, <1>2 DEF Ends, Left
<1>3. ASSUME NEW v \in Workers, FailsRetryably(v) PROVE Wear
  BY <1>0, <1>2, <1>3 DEF FailsRetryably, Fails, Left
<1>4. ASSUME NEW v \in Workers, Retries(v) PROVE Wear
  BY <1>0, <1>4 DEF Retries, NextAttempt, Left, IInv
<1>5. CASE Tick \/ ApiHeals
  BY <1>0, <1>5 DEF Tick, ApiHeals, callVars
<1> QED BY <1>1, <1>2, <1>3, <1>4, <1>5 DEF Next, Responds, Succeeds, FailsForGood, Fails

THEOREM NoCallGoesOn == Spec => CallsWearOut
<1> DEFINE WearStep ==
      \A w \in Workers :
        /\ stage[w] = "idle" /\ stage'[w] # "idle" => Left(w)' = 2 * MaxRetries + 2
        /\ stage[w] # "idle" => \/ Left(w)' < Left(w)
                                \/ UNCHANGED <<stage[w], attempt[w]>>
<1>1. IInv /\ [Next]_vars => [WearStep]_vars
  BY WearsOut
<1> QED BY <1>1, IInvInit, IInvStep, PTL DEF Spec, CallsWearOut
=============================================================================
