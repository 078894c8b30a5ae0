---------------------------- MODULE AlarmPipeline ----------------------------
(***************************************************************************)
(* The path of an alarm from a producer (the WebSocket feed, the camera    *)
(* worker) to its final verdict on the operator board: EventIntake,        *)
(* EventPipeline, the triage workers, AlarmStore and the counters of       *)
(* Metrics, with the asyncio.Queue between intake and workers.             *)
(*                                                                         *)
(* All tasks share one event loop, so an action is what one task does      *)
(* between two awaits.  The awaits are: a put on a full queue, its timeout *)
(* and the provider's answer.                                              *)
(*                                                                         *)
(* An element of Deliveries is one event object as it arrived.  Two        *)
(* deliveries may carry the same event_id (IdOf): the store is keyed by    *)
(* the id, everything else handles the object.                             *)
(***************************************************************************)
EXTENDS Integers, Sequences, FiniteSets, SequencesExt

CONSTANTS Producers, Workers, EventIds, Deliveries,
          IdOf,            \* the event_id of a delivery
          RuleSeverity,    \* the rule engine's verdict on a delivery
          FastPath,        \* the deliveries of a fast-path type
          QueueCapacity,   \* Settings.queue_maxsize
          StoreCapacity,   \* Settings.store_capacity
          NoDelivery, NoRecord

Severity == {"info", "warning", "critical"}
Status   == {"active", "acknowledged", "resolved"}

(* A fast-path type has base severity critical and nothing shifts it. *)
ASSUME DeliveriesAssumption ==
  /\ IdOf \in [Deliveries -> EventIds]
  /\ RuleSeverity \in [Deliveries -> Severity]
  /\ FastPath \subseteq {d \in Deliveries : RuleSeverity[d] = "critical"}
  /\ NoDelivery \notin Deliveries

ASSUME CapacityAssumption ==
  /\ QueueCapacity \in Nat \ {0}
  /\ StoreCapacity \in Nat \ {0}

ASSUME TasksAssumption == IsFiniteSet(Producers) /\ IsFiniteSet(Workers)

(* An AlarmRecord: the event it shows, whether its verdict is final, its   *)
(* operator state.  What the verdict says is in Correlation and Rules:     *)
(* nothing on this path depends on it but the protection of a critical     *)
(* rule verdict.                                                           *)
Record == [source: Deliveries, state: {"preliminary", "final"}, status: Status]

ASSUME NoRecordAssumption == NoRecord \notin Record

(* events_ingested, events_triaged, events_shed, llm_skipped_fast_path and *)
(* llm_calls: the counters that must add up.                               *)
Counters == {"ingested", "triaged", "shed", "skipped", "calls"}

VARIABLES
  unseen,       \* deliveries no producer has handed to the intake yet
  pc, hand,     \* per producer: where its put is, and what it is putting
  queue,        \* asyncio.Queue._queue
  putters,      \* asyncio.Queue._putters: producers asleep in put, in order
  job,          \* per worker: the delivery it is asking the provider about
  board, order, \* AlarmStore._records: the record per id, and the ids by age
  metrics,      \* the counters of Metrics
  shed,         \* history: the deliveries shed
  evaluations,  \* history: per delivery, the events correlation has evaluated
                \* to give it its final verdict
  handled       \* history: the ids an operator has acknowledged or resolved

queueVars == <<pc, hand, queue, putters>>
storeVars == <<board, order>>
vars == <<unseen, queueVars, job, storeVars, metrics, shed, evaluations, handled>>

-----------------------------------------------------------------------------
(* Records and the store. *)

(* The record of a new event: the rule verdict, active. *)
NewRecord(d, state) ==
  [source |-> d, state |-> state, status |-> "active"]

WithTriage_KeepsState(record) == record

WithTriage(record) == [record EXCEPT !.state = "final"]

MoveToEnd_InPlace(ids, id) ==
  IF \E i \in DOMAIN ids : ids[i] = id THEN ids ELSE Append(ids, id)

(* OrderedDict: assignment and move_to_end leave the id at the end. *)
MoveToEnd(ids, id) ==
  IF \E i \in DOMAIN ids : ids[i] = id
  THEN Append(RemoveAt(ids, CHOOSE i \in DOMAIN ids : ids[i] = id), id)
  ELSE Append(ids, id)

Evict_Never(ids) == ids

(* At most one id is in excess: a step inserts one. *)
Evict(ids) == IF Len(ids) > StoreCapacity THEN Tail(ids) ELSE ids

Upsert(id, record) ==
  /\ order' = Evict(MoveToEnd(order, id))
  /\ board' = [i \in EventIds |-> IF i \notin ToSet(order') THEN NoRecord
                                  ELSE IF i = id THEN record ELSE board[i]]

Retained(id) == board[id] # NoRecord

(* Metrics: every counter of a set goes up by one. *)
Counted(counters) ==
  [c \in Counters |-> metrics[c] + (IF c \in counters THEN 1 ELSE 0)]

(* CorrelationEngine.evaluate is called for delivery d with a record that  *)
(* shows the event.                                                        *)
Evaluated(d, event) == [evaluations EXCEPT ![d] = Append(@, event)]

-----------------------------------------------------------------------------
(* asyncio.Queue: a producer's pc is                                       *)
(*   "idle"     not in submit                                              *)
(*   "putting"  wait_for has scheduled its put, which has not run yet      *)
(*   "waiting"  asleep in put, in putters                                  *)
(*   "woken"    its sleep is over, its put has not resumed yet             *)

Full == Len(queue) >= QueueCapacity

(* _wakeup_next(_putters), applied to the producers' states. *)
WakeNext(states) ==
  IF putters = <<>> THEN states ELSE [states EXCEPT ![Head(putters)] = "woken"]

PuttersAfterWake == IF putters = <<>> THEN <<>> ELSE Tail(putters)

Protected(d) == RuleSeverity[d] = "critical"

(* EventPipeline.submit up to its first await.  A protected put runs at    *)
(* once, one under wait_for too from Python 3.12 on; before, wait_for      *)
(* makes it a task of its own, which has yet to run.                       *)
Submit(p, d) ==
  \/ /\ ~Full
     /\ queue' = Append(queue, d)
     /\ UNCHANGED <<pc, hand, putters>>
  \/ /\ Full
     /\ pc' = [pc EXCEPT ![p] = "waiting"]
     /\ putters' = Append(putters, p)
     /\ hand' = [hand EXCEPT ![p] = d]
     /\ UNCHANGED queue
  \/ /\ Full
     /\ ~Protected(d)
     /\ pc' = [pc EXCEPT ![p] = "putting"]
     /\ hand' = [hand EXCEPT ![p] = d]
     /\ UNCHANGED <<queue, putters>>

-----------------------------------------------------------------------------
(* EventIntake *)

FastPathCounters_NoSkip == {"ingested", "triaged"}

FastPathCounters == {"ingested", "skipped", "triaged"}

(* accept of a fast-path event: final at once, correlated, never queued. *)
AcceptFastPath(p, d) ==
  /\ pc[p] = "idle"
  /\ d \in unseen \cap FastPath
  /\ unseen' = unseen \ {d}
  /\ metrics' = Counted(FastPathCounters)
  /\ Upsert(IdOf[d], NewRecord(d, "final"))
  /\ evaluations' = Evaluated(d, d)
  /\ UNCHANGED <<queueVars, job, shed, handled>>

(* The double count the design rules out: the preliminary verdict too is   *)
(* evaluated.                                                              *)
AcceptForTriage_Evaluates(p, d) ==
  /\ pc[p] = "idle"
  /\ d \in unseen \ FastPath
  /\ unseen' = unseen \ {d}
  /\ Upsert(IdOf[d], NewRecord(d, "preliminary"))
  /\ metrics' = Counted({"ingested"})
  /\ Submit(p, d)
  /\ evaluations' = Evaluated(d, d)
  /\ UNCHANGED <<job, shed, handled>>

(* accept of any other event: on the board as preliminary, then submitted. *)
AcceptForTriage(p, d) ==
  /\ pc[p] = "idle"
  /\ d \in unseen \ FastPath
  /\ unseen' = unseen \ {d}
  /\ Upsert(IdOf[d], NewRecord(d, "preliminary"))
  /\ metrics' = Counted({"ingested"})
  /\ Submit(p, d)
  /\ UNCHANGED <<job, shed, evaluations, handled>>

(* The put runs, first or again: it sleeps at the END of putters if        *)
(* another put has taken the room meanwhile, else it completes and so does *)
(* accept.                                                                 *)
PutRuns(p) ==
  /\ pc[p] \in {"putting", "woken"}
  /\ \/ /\ Full
        /\ pc' = [pc EXCEPT ![p] = "waiting"]
        /\ putters' = Append(putters, p)
        /\ UNCHANGED <<hand, queue>>
     \/ /\ ~Full
        /\ queue' = Append(queue, hand[p])
        /\ pc' = [pc EXCEPT ![p] = "idle"]
        /\ hand' = [hand EXCEPT ![p] = NoDelivery]
        /\ UNCHANGED putters
  /\ UNCHANGED <<unseen, job, storeVars, metrics, shed, evaluations, handled>>

WithoutPutter_Kept(p) == putters

(* A cancelled put leaves _putters, if it is still there. *)
WithoutPutter(p) ==
  IF pc[p] = "waiting"
  THEN RemoveAt(putters, CHOOSE i \in DOMAIN putters : putters[i] = p)
  ELSE putters

HandsOff_Never(p) == FALSE

(* A put cancelled after its wake-up passes the wake-up on if there is room. *)
HandsOff(p) == pc[p] = "woken" /\ ~Full

ShedCounters_Silent == {}

ShedCounters == {"shed"}

(* wait_for gives up: the put is cancelled and the alarm shed. *)
BackpressureTimeout(p) ==
  /\ pc[p] # "idle"
  /\ ~Protected(hand[p])
  /\ IF HandsOff(p)
     THEN /\ pc' = [WakeNext(pc) EXCEPT ![p] = "idle"]
          /\ putters' = PuttersAfterWake
     ELSE /\ pc' = [pc EXCEPT ![p] = "idle"]
          /\ putters' = WithoutPutter(p)
  /\ hand' = [hand EXCEPT ![p] = NoDelivery]
  /\ shed' = shed \cup {hand[p]}
  /\ metrics' = Counted(ShedCounters)
  /\ UNCHANGED <<unseen, queue, job, storeVars, evaluations, handled>>

-----------------------------------------------------------------------------
(* triage_worker *)

Free(w) == job[w] = NoDelivery

(* The worker gets the next record and awaits the provider; the get wakes  *)
(* one sleeping put.                                                       *)
Get(w) ==
  /\ Free(w)
  /\ queue # <<>>
  /\ job' = [job EXCEPT ![w] = Head(queue)]
  /\ queue' = Tail(queue)
  /\ pc' = WakeNext(pc)
  /\ putters' = PuttersAfterWake
  /\ metrics' = Counted({"calls"})
  /\ UNCHANGED <<unseen, hand, storeVars, shed, evaluations, handled>>

Current_Snapshot(d) == NewRecord(d, "preliminary")

(* store.get(event_id) or record: the board may show a later delivery of   *)
(* the id.                                                                 *)
Current(d) ==
  IF Retained(IdOf[d]) THEN board[IdOf[d]] ELSE NewRecord(d, "preliminary")

(* The provider has answered or failed, and the verdict, its own or the    *)
(* rule fallback, is put on the current record, evaluated with that        *)
(* record's event and published.  From there to task_done the worker does  *)
(* not await, and nothing on the way raises.                               *)
Settle(w) ==
  /\ ~Free(w)
  /\ LET d == job[w]
         settled == WithTriage(Current(d))
     IN /\ Upsert(IdOf[d], settled)
        /\ evaluations' = Evaluated(d, settled.source)
  /\ metrics' = Counted({"triaged"})
  /\ job' = [job EXCEPT ![w] = NoDelivery]
  /\ UNCHANGED <<unseen, queueVars, shed, handled>>

-----------------------------------------------------------------------------
(* The operator's actions on the board: the record that replaces the one   *)
(* shown keeps its verdict.                                                *)
Acknowledged(record) == [record EXCEPT !.status = "acknowledged"]

Resolved(record) == [record EXCEPT !.status = "resolved"]

Acknowledge(id) ==
  /\ Retained(id)
  /\ board[id].status = "active"
  /\ Upsert(id, Acknowledged(board[id]))
  /\ handled' = handled \cup {id}
  /\ UNCHANGED <<unseen, queueVars, job, metrics, shed, evaluations>>

Resolve(id) ==
  /\ Retained(id)
  /\ board[id].status # "resolved"
  /\ Upsert(id, Resolved(board[id]))
  /\ handled' = handled \cup {id}
  /\ UNCHANGED <<unseen, queueVars, job, metrics, shed, evaluations>>

-----------------------------------------------------------------------------
Init ==
  /\ unseen = Deliveries
  /\ pc = [p \in Producers |-> "idle"]
  /\ hand = [p \in Producers |-> NoDelivery]
  /\ queue = <<>>
  /\ putters = <<>>
  /\ job = [w \in Workers |-> NoDelivery]
  /\ board = [id \in EventIds |-> NoRecord]
  /\ order = <<>>
  /\ metrics = [c \in Counters |-> 0]
  /\ shed = {}
  /\ evaluations = [d \in Deliveries |-> <<>>]
  /\ handled = {}

Next ==
  \/ \E p \in Producers, d \in Deliveries : AcceptFastPath(p, d) \/ AcceptForTriage(p, d)
  \/ \E p \in Producers : PutRuns(p) \/ BackpressureTimeout(p)
  \/ \E w \in Workers : Get(w) \/ Settle(w)
  \/ \E id \in EventIds : Acknowledge(id) \/ Resolve(id)

Spec == Init /\ [][Next]_vars

(* The event loop runs every ready task; every provider call ends (each    *)
(* attempt has a timeout and the attempts are bounded).  Nothing is        *)
(* assumed of the feed, of the operator or of the backpressure timeout.    *)
Fairness ==
  /\ \A p \in Producers : WF_vars(PutRuns(p))
  /\ \A w \in Workers : WF_vars(Get(w)) /\ WF_vars(Settle(w))

FairSpec == Spec /\ Fairness

-----------------------------------------------------------------------------
(* Properties *)

Submitting == {p \in Producers : pc[p] # "idle"}
Woken      == {p \in Producers : pc[p] = "woken"}
Busy       == {w \in Workers : ~Free(w)}

(* The deliveries between intake and verdict. *)
InFlight ==
  {hand[p] : p \in Submitting} \cup ToSet(queue) \cup {job[w] : w \in Busy}

TypeOK ==
  /\ unseen \subseteq Deliveries
  /\ pc \in [Producers -> {"idle", "putting", "waiting", "woken"}]
  /\ hand \in [Producers -> Deliveries \cup {NoDelivery}]
  /\ queue \in Seq(Deliveries) /\ Len(queue) <= QueueCapacity
  /\ putters \in Seq(Producers)
  /\ job \in [Workers -> Deliveries \cup {NoDelivery}]
  /\ board \in [EventIds -> Record \cup {NoRecord}]
  /\ order \in Seq(EventIds) /\ Len(order) <= StoreCapacity
  /\ metrics \in [Counters -> Nat]
  /\ shed \subseteq Deliveries
  /\ evaluations \in [Deliveries -> Seq(Deliveries)]
  /\ handled \subseteq EventIds

(* A producer holds a delivery exactly while it submits it, and putters    *)
(* lists the sleeping producers, each once.                                *)
QueueInv ==
  /\ \A p \in Producers : hand[p] = NoDelivery <=> pc[p] = "idle"
  /\ \A i \in DOMAIN putters : pc[putters[i]] = "waiting"
  /\ \A i, j \in DOMAIN putters : putters[i] = putters[j] => i = j
  /\ \A p \in Producers : pc[p] = "waiting" => \E i \in DOMAIN putters : putters[i] = p

(* The dashboard's counters add up: an ingested event is triaged, counted  *)
(* as shed, or still in the hands of a producer, the queue or a worker     *)
(* (pipeline.py: "a system that quietly loses events is worse than one     *)
(* that says so").                                                         *)
EventsAccounted ==
  metrics["ingested"] = metrics["triaged"] + metrics["shed"]
      + Len(queue) + Cardinality(Submitting) + Cardinality(Busy)

(* Every call of the provider ends in one triaged event, and only the fast *)
(* path is triaged without one.                                            *)
CallsAccounted ==
  metrics["calls"] + metrics["skipped"] = metrics["triaged"] + Cardinality(Busy)

(* The deliveries of the same id that have arrived, itself included. *)
Arrived(d) == {e \in Deliveries \ unseen : IdOf[e] = IdOf[d]}

(* No verdict is lost or given twice, and each is evaluated by correlation *)
(* once, when it becomes final (correlation.py:15): a delivery that is     *)
(* neither shed nor on its way has had one evaluation, with its own event  *)
(* if its id was delivered once, and with the event of one of the          *)
(* deliveries that arrived if it was repeated.                             *)
EvaluatedOnce ==
  \A d \in Deliveries :
    IF d \in unseen \cup shed \cup InFlight THEN evaluations[d] = <<>>
    ELSE \E event \in Arrived(d) : evaluations[d] = <<event>>

(* A verdict shown as preliminary is one still on its way to the provider, *)
(* or one whose triage was shed: the board never waits for nothing.        *)
PreliminaryBacked ==
  \A id \in EventIds :
    Retained(id) /\ board[id].state = "preliminary" => board[id].source \in InFlight \cup shed

(* While producers sleep on the queue, every free slot has a woken         *)
(* producer on its way to it: neither a barging put nor a timed-out one    *)
(* leaves room that nobody fills.                                          *)
WakeupsSuffice ==
  putters # <<>> => QueueCapacity - Len(queue) <= Cardinality(Woken)

Kept == {id \in EventIds : Retained(id)}

Older(i, j) == \E k, l \in DOMAIN order : k < l /\ order[k] = i /\ order[l] = j

Writes(id) ==
  /\ Retained(id)' /\ order'[Len(order')] = id
  /\ \A i, j \in EventIds \ {id} : Older(i, j)' => Older(i, j)
  /\ \/ \A other \in EventIds \ {id} : board'[other] = board[other]
     \/ /\ ~Retained(id) /\ Cardinality(Kept) = StoreCapacity
        /\ \A other \in EventIds \ {id} :
             board'[other] = IF other = Head(order) THEN NoRecord ELSE board[other]

(* Whatever the producers, workers and operators do, the store gives up an *)
(* alarm only to a new one when it is full, and then the one written       *)
(* longest ago (store.py:86-89): the alarm a step writes stays and is the  *)
(* youngest, the others keep their order and their records.                *)
OldestMakesRoom == [][\E id \in EventIds : Writes(id)]_storeVars

StatusRank(status) ==
  CASE status = "active" -> 0 [] status = "acknowledged" -> 1 [] status = "resolved" -> 2

(* A verdict that lands, or any step but a new delivery of the same id,    *)
(* never undoes what the operator did nor a final verdict, as long as the  *)
(* store retains the alarm (worker.py:62).                                 *)
OperatorStateSurvives ==
  [][\A id \in EventIds :
       /\ Retained(id)
       /\ Retained(id)'
       /\ \A d \in unseen \ unseen' : IdOf[d] # id
       => /\ StatusRank(board[id].status) <= StatusRank(board'[id].status)
          /\ board[id].state = "final" => board'[id].state = "final"]_vars

Lifecycle == INSTANCE AlarmLifecycle WITH
  Critical <- {d \in Deliveries : RuleSeverity[d] = "critical"},
  Authoritative <- FastPath,
  stage <- [d \in Deliveries |->
              IF d \in unseen THEN "unseen" ELSE IF d \in shed THEN "shed"
              ELSE IF d \in InFlight THEN "pending" ELSE "settled"]

(* The pipeline implements the lifecycle: every alarm received is settled  *)
(* or shed, once and for good, whatever the queue and the workers do.      *)
ImplementsLifecycle == Lifecycle!Spec

(* What the board shows as preliminary becomes final or was shed. *)
BoardSettles ==
  \A id \in EventIds :
    [](Retained(id) /\ board[id].state = "preliminary"
         => <>(~Retained(id) \/ board[id].state = "final" \/ board[id].source \in shed))

(* intake.py:88 says of a shed alarm that "only the LLM enrichment was      *)
(* skipped": once nothing is in flight, correlation has evaluated it too.  *)
ShedStillCorrelated ==
  InFlight = {} => \A d \in shed : Len(evaluations[d]) = 1

(* test_worker.py:117 says "triage must not resurrect an acked alarm": an  *)
(* id an operator has handled is never active again.                       *)
NoResurrection ==
  \A id \in handled : Retained(id) => board[id].status # "active"
=============================================================================
