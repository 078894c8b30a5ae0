------------------------ MODULE AlarmAccountingProofs ------------------------
(***************************************************************************)
(* Where every alarm of AlarmPipeline is, for any producers, workers,      *)
(* deliveries and capacities: in one place at a time (OnePlace), counted   *)
(* once, evaluated once, shown as preliminary only while on its way, and   *)
(* through the stages of AlarmLifecycle; how the store changes; and that   *)
(* the tasks never all wait for each other.                                *)
(***************************************************************************)
EXTENDS AlarmPipelineProofs

-----------------------------------------------------------------------------
(* Sequences without repetitions. *)

Distinct(s) == \A i, j \in DOMAIN s : s[i] = s[j] => i = j

(* The elements of a sequence are those at its places.                     *)
LEMMA ElementsOfSequence ==
  ASSUME NEW S, NEW s \in Seq(S)
  PROVE  /\ ToSet(s) \subseteq S
         /\ \A x : x \in ToSet(s) <=> \E i \in 1 .. Len(s) : s[i] = x
<1>1. DOMAIN s = 1 .. Len(s) /\ \A i \in 1 .. Len(s) : s[i] \in S
  BY LenProperties, ElementOfSeq
<1> QED  BY <1>1 DEF ToSet

(* A queue to which a new delivery is put (asyncio.Queue.put). *)
LEMMA AppendDistinct ==
  ASSUME NEW S, NEW s \in Seq(S), NEW x \in S, Distinct(s), x \notin ToSet(s)
  PROVE  Distinct(Append(s, x)) /\ ToSet(Append(s, x)) = ToSet(s) \cup {x}
<1> DEFINE t == Append(s, x)
           n == Len(s)
<1>1. n \in Nat /\ DOMAIN s = 1 .. n
  BY LenProperties
<1>2. /\ t \in Seq(S) /\ Len(t) = n + 1 /\ t[n + 1] = x
      /\ \A i \in 1 .. n : t[i] = s[i]
  BY AppendProperties
<1>3. DOMAIN t = 1 .. n + 1
  BY <1>2, LenProperties
<1> HIDE DEF t, n
<1>4. \A y : y \in ToSet(s) <=> \E i \in 1 .. n : s[i] = y
  BY ElementsOfSequence DEF n
<1>5. \A y : y \in ToSet(t) <=> \E i \in 1 .. n + 1 : t[i] = y
  BY <1>2, ElementsOfSequence
<1>6. \A i \in 1 .. n : s[i] # x
  BY <1>4
<1>7. Distinct(t)
  BY <1>1, <1>2, <1>3, <1>6 DEF Distinct
<1>8. ASSUME NEW y PROVE y \in ToSet(t) <=> y \in ToSet(s) \cup {x}
  <2>1. ASSUME y \in ToSet(t) PROVE y \in ToSet(s) \cup {x}
    <3>1. PICK i \in 1 .. n + 1 : t[i] = y
      BY <1>5, <2>1
    <3>2. CASE i = n + 1
      BY <1>2, <3>1, <3>2
    <3>3. CASE i \in 1 .. n
      BY <1>2, <1>4, <3>1, <3>3
    <3> QED  BY <1>1, <3>2, <3>3
  <2>2. ASSUME y \in ToSet(s) PROVE y \in ToSet(t)
    <3>1. PICK i \in 1 .. n : s[i] = y
      BY <1>4, <2>2
    <3>2. i \in 1 .. n + 1 /\ t[i] = y
      BY <1>1, <1>2, <3>1
    <3> QED  BY <1>5, <3>2
  <2>3. x \in ToSet(t)
    <3>1. n + 1 \in 1 .. n + 1
      BY <1>1
    <3> QED  BY <1>2, <1>5, <3>1
  <2> QED  BY <2>1, <2>2, <2>3
<1>9. ToSet(t) = ToSet(s) \cup {x}
  BY <1>8
<1> QED  BY <1>7, <1>9 DEF t

(* A queue from which the first is taken (asyncio.Queue.get). *)
LEMMA TailDistinct ==
  ASSUME NEW S, NEW s \in Seq(S), s # <<>>, Distinct(s)
  PROVE  /\ Distinct(Tail(s)) /\ Head(s) \in ToSet(s)
         /\ ToSet(Tail(s)) = ToSet(s) \ {Head(s)}
<1> DEFINE t == Tail(s)
           n == Len(s)
           h == Head(s)
<1>1. /\ n \in Nat \ {0} /\ DOMAIN s = 1 .. n
  BY LenProperties, EmptySeq
<1>2. /\ t \in Seq(S) /\ Len(t) = n - 1 /\ h = s[1]
      /\ \A i \in 1 .. n - 1 : t[i] = s[i + 1]
  BY HeadTailProperties
<1>3. DOMAIN t = 1 .. n - 1
  BY <1>2, LenProperties
<1> HIDE DEF t, n, h
<1>4. \A y : y \in ToSet(s) <=> \E i \in 1 .. n : s[i] = y
  BY ElementsOfSequence DEF n
<1>5. \A y : y \in ToSet(t) <=> \E i \in 1 .. n - 1 : t[i] = y
  BY <1>2, ElementsOfSequence
<1>6. Distinct(t)
  <2>1. ASSUME NEW i \in 1 .. n - 1, NEW j \in 1 .. n - 1, t[i] = t[j] PROVE i = j
    <3>1. i + 1 \in 1 .. n /\ j + 1 \in 1 .. n /\ s[i + 1] = s[j + 1]
      BY <1>1, <1>2, <2>1
    <3>2. i + 1 = j + 1
      BY <1>1, <3>1 DEF Distinct
    <3> QED  BY <3>2
  <2> QED  BY <1>3, <2>1 DEF Distinct
<1>7. 1 \in 1 .. n /\ h \in ToSet(s)
  BY <1>1, <1>2, <1>4
<1>8. ASSUME NEW y PROVE y \in ToSet(t) <=> y \in ToSet(s) \ {h}
  <2>1. ASSUME y \in ToSet(t) PROVE y \in ToSet(s) \ {h}
    <3>1. PICK i \in 1 .. n - 1 : t[i] = y
      BY <1>5, <2>1
    <3>2. i + 1 \in 1 .. n /\ i + 1 # 1 /\ s[i + 1] = y
      BY <1>1, <1>2, <3>1
    <3>3. y # h
      BY <1>1, <1>2, <1>7, <3>2 DEF Distinct
    <3> QED  BY <1>4, <3>2, <3>3
  <2>2. ASSUME y \in ToSet(s), y # h PROVE y \in ToSet(t)
    <3>1. PICK i \in 1 .. n : s[i] = y
      BY <1>4, <2>2
    <3>2. i # 1
      BY <1>2, <2>2, <3>1
    <3>3. i - 1 \in 1 .. n - 1 /\ t[i - 1] = y
      BY <1>1, <1>2, <3>1, <3>2
    <3> QED  BY <1>5, <3>3
  <2> QED  BY <2>1, <2>2
<1>9. ToSet(t) = ToSet(s) \ {h}
  BY <1>8
<1> QED  BY <1>6, <1>7, <1>9 DEF t, h

-----------------------------------------------------------------------------
(* Every delivery is in one place. *)

Held  == {hand[p] : p \in Submitting}
Asked == {job[w] : w \in Busy}

OnePlace ==
  /\ Distinct(queue)
  /\ \A p, q \in Submitting : hand[p] = hand[q] => p = q
  /\ \A v, w \in Busy : job[v] = job[w] => v = w
  /\ unseen \cap shed = {} /\ unseen \cap Held = {} /\ unseen \cap ToSet(queue) = {}
  /\ unseen \cap Asked = {} /\ shed \cap Held = {} /\ shed \cap ToSet(queue) = {}
  /\ shed \cap Asked = {} /\ Held \cap ToSet(queue) = {} /\ Held \cap Asked = {}
  /\ ToSet(queue) \cap Asked = {}

Base == TypeOK /\ QueueInv /\ OnePlace

(* What is in flight is held, queued or asked about.                       *)
LEMMA InFlightIs == InFlight = Held \cup ToSet(queue) \cup Asked
BY DEF InFlight, Held, Asked

(* A wake-up ends nobody's submit.                                         *)
LEMMA WakeSubmitting ==
  ASSUME TypeOK, QueueInv, pc' = WakeNext(pc) PROVE Submitting' = Submitting
BY WakeKeepsSleepers DEF Submitting

(* A producer takes a delivery in hand. *)
LEMMA Takes ==
  ASSUME TypeOK, QueueInv, NEW p \in Producers, NEW d \in Deliveries, pc[p] = "idle",
         NEW s \in {"putting", "waiting"},
         pc' = [pc EXCEPT ![p] = s], hand' = [hand EXCEPT ![p] = d]
  PROVE  /\ p \notin Submitting /\ Submitting' = Submitting \cup {p}
         /\ Held' = Held \cup {d}
         /\ \A q \in Submitting : hand'[q] = hand[q]
         /\ hand'[p] = d
<1>1. /\ p \notin Submitting /\ Submitting' = Submitting \cup {p}
  BY DEF Submitting, TypeOK
<1>2. (\A q \in Submitting : hand'[q] = hand[q]) /\ hand'[p] = d
  BY <1>1 DEF Submitting, TypeOK
<1> QED  BY <1>1, <1>2 DEF Held

(* A producer lets its delivery go. *)
LEMMA LetsGo ==
  ASSUME TypeOK, QueueInv, OnePlace, NEW p \in Producers, pc[p] # "idle",
         pc' \in [Producers -> {"idle", "putting", "waiting", "woken"}],
         \A q \in Producers : pc'[q] = "idle" <=> q = p \/ pc[q] = "idle",
         hand' = [hand EXCEPT ![p] = NoDelivery]
  PROVE  /\ p \in Submitting /\ Submitting' = Submitting \ {p}
         /\ hand[p] \in Held /\ Held' = Held \ {hand[p]}
         /\ \A q \in Submitting' : hand'[q] = hand[q]
<1>1. p \in Submitting /\ Submitting' = Submitting \ {p}
  BY DEF Submitting
<1>2. \A q \in Submitting' : hand'[q] = hand[q]
  BY <1>1 DEF Submitting, TypeOK
<1>3. hand[p] \in Held
  BY <1>1 DEF Held
<1>4. Held' = Held \ {hand[p]}
  BY <1>1, <1>2 DEF Held, OnePlace
<1> QED  BY <1>1, <1>2, <1>3, <1>4

(* A worker takes a job, or is done with it. *)
LEMMA TakesJob ==
  ASSUME TypeOK, NEW w \in Workers, Free(w), NEW d \in Deliveries,
         job' = [job EXCEPT ![w] = d]
  PROVE  /\ w \notin Busy /\ Busy' = Busy \cup {w} /\ Asked' = Asked \cup {d}
         /\ \A v \in Busy : job'[v] = job[v]
         /\ job'[w] = d
<1>1. d # NoDelivery
  BY DeliveriesAssumption
<1>2. w \notin Busy /\ Busy' = Busy \cup {w}
  BY <1>1 DEF Busy, Free, TypeOK
<1>3. (\A v \in Busy : job'[v] = job[v]) /\ job'[w] = d
  BY <1>2 DEF Busy, TypeOK
<1> QED  BY <1>2, <1>3 DEF Asked

(* A worker whose verdict is published has no delivery any more.           *)
LEMMA DoneWithJob ==
  ASSUME TypeOK, OnePlace, NEW w \in Workers, ~Free(w), job' = [job EXCEPT ![w] = NoDelivery]
  PROVE  /\ w \in Busy /\ Busy' = Busy \ {w}
         /\ job[w] \in Asked /\ Asked' = Asked \ {job[w]}
         /\ \A v \in Busy' : job'[v] = job[v]
<1>1. w \in Busy /\ Busy' = Busy \ {w}
  BY DEF Busy, Free, TypeOK
<1>2. \A v \in Busy' : job'[v] = job[v]
  BY <1>1 DEF Busy, TypeOK
<1>3. job[w] \in Asked
  BY <1>1 DEF Asked
<1>4. Asked' = Asked \ {job[w]}
  BY <1>1, <1>2 DEF Asked, OnePlace
<1> QED  BY <1>1, <1>2, <1>3, <1>4

(* What stays the same while its variables do. *)
LEMMA PlacesKept ==
  /\ UNCHANGED <<pc, hand>> => Submitting' = Submitting /\ Held' = Held
  /\ UNCHANGED job => Busy' = Busy /\ Asked' = Asked
BY DEF Submitting, Held, Busy, Asked, Free

(* The fast path takes a delivery from the producer to its verdict.        *)
LEMMA FastPathPlaces ==
  ASSUME Base, NEW p \in Producers, NEW d \in Deliveries, AcceptFastPath(p, d)
  PROVE  /\ d \in unseen /\ unseen' = unseen \ {d} /\ shed' = shed
         /\ Held' = Held /\ queue' = queue /\ Asked' = Asked
         /\ Submitting' = Submitting /\ Busy' = Busy /\ OnePlace'
<1>1. /\ d \in unseen /\ unseen' = unseen \ {d}
      /\ UNCHANGED <<pc, hand, queue, job, shed>>
  BY DEF AcceptFastPath, queueVars
<1>2. Submitting' = Submitting /\ Held' = Held /\ Busy' = Busy /\ Asked' = Asked
  BY <1>1, PlacesKept
<1>3. OnePlace'
  BY <1>1, <1>2 DEF Base, OnePlace
<1> QED  BY <1>1, <1>2, <1>3

(* Any other is queued, or stays in the hand of its producer.              *)
LEMMA ForTriagePlaces ==
  ASSUME Base, NEW p \in Producers, NEW d \in Deliveries, AcceptForTriage(p, d)
  PROVE  /\ d \in unseen /\ unseen' = unseen \ {d} /\ shed' = shed
         /\ Asked' = Asked /\ Busy' = Busy /\ OnePlace'
         /\ \/ /\ queue' = Append(queue, d) /\ ToSet(queue') = ToSet(queue) \cup {d}
               /\ Held' = Held /\ Submitting' = Submitting
            \/ /\ queue' = queue /\ Held' = Held \cup {d}
               /\ p \notin Submitting /\ Submitting' = Submitting \cup {p}
<1>1. /\ d \in unseen /\ unseen' = unseen \ {d} /\ pc[p] = "idle"
      /\ UNCHANGED <<job, shed>> /\ Submit(p, d)
  BY DEF AcceptForTriage
<1>2. Busy' = Busy /\ Asked' = Asked
  BY <1>1, PlacesKept
<1>3. TypeOK /\ QueueInv /\ OnePlace /\ queue \in Seq(Deliveries)
  BY DEF Base, TypeOK
<1>4. d \notin shed /\ d \notin Held /\ d \notin ToSet(queue) /\ d \notin Asked
  BY <1>1, <1>3 DEF OnePlace
<1>5. CASE queue' = Append(queue, d) /\ UNCHANGED <<pc, hand, putters>>
  <2>1. Distinct(queue') /\ ToSet(queue') = ToSet(queue) \cup {d}
    BY <1>3, <1>4, <1>5, AppendDistinct DEF OnePlace
  <2>2. Submitting' = Submitting /\ Held' = Held
    BY <1>5, PlacesKept
  <2>3. OnePlace'
    BY <1>1, <1>2, <1>3, <1>4, <1>5, <2>1, <2>2 DEF OnePlace
  <2> QED  BY <1>1, <1>2, <1>5, <2>1, <2>2, <2>3
<1>6. ASSUME NEW s \in {"putting", "waiting"}, pc' = [pc EXCEPT ![p] = s],
             hand' = [hand EXCEPT ![p] = d], queue' = queue
      PROVE  /\ OnePlace' /\ Held' = Held \cup {d}
             /\ p \notin Submitting /\ Submitting' = Submitting \cup {p}
  <2>1. /\ p \notin Submitting /\ Submitting' = Submitting \cup {p}
        /\ Held' = Held \cup {d}
        /\ \A q \in Submitting : hand'[q] = hand[q]
        /\ hand'[p] = d
    BY <1>1, <1>3, <1>6, Takes
  <2>2. \A q \in Submitting : hand[q] # d
    BY <1>4 DEF Held
  <2>3. \A q, r \in Submitting' : hand'[q] = hand'[r] => q = r
    BY <1>3, <2>1, <2>2 DEF OnePlace
  <2>4. OnePlace'
    BY <1>1, <1>2, <1>3, <1>4, <1>6, <2>1, <2>3 DEF OnePlace
  <2> QED  BY <2>1, <2>4
<1> QED  BY <1>1, <1>2, <1>5, <1>6 DEF Submit

(* A put goes back to sleep, or moves its delivery to the queue.           *)
LEMMA PutPlaces ==
  ASSUME Base, NEW p \in Producers, PutRuns(p)
  PROVE  /\ unseen' = unseen /\ shed' = shed
         /\ Asked' = Asked /\ Busy' = Busy /\ OnePlace'
         /\ \/ queue' = queue /\ Held' = Held /\ Submitting' = Submitting
            \/ /\ hand[p] \in Held /\ Held' = Held \ {hand[p]}
               /\ p \in Submitting /\ Submitting' = Submitting \ {p}
               /\ queue' = Append(queue, hand[p])
               /\ ToSet(queue') = ToSet(queue) \cup {hand[p]}
<1>1. UNCHANGED <<unseen, shed, job>> /\ pc[p] \in {"putting", "woken"}
  BY DEF PutRuns
<1>2. Busy' = Busy /\ Asked' = Asked
  BY <1>1, PlacesKept
<1>3. TypeOK /\ QueueInv /\ OnePlace /\ queue \in Seq(Deliveries)
  BY DEF Base, TypeOK
<1>4. CASE Full
  <2>1. pc' = [pc EXCEPT ![p] = "waiting"] /\ UNCHANGED <<hand, queue>>
    BY <1>4 DEF PutRuns
  <2>2. Submitting' = Submitting
    BY <1>1, <1>3, <2>1 DEF Submitting, TypeOK
  <2>3. Held' = Held
    BY <2>1, <2>2 DEF Held
  <2>4. OnePlace'
    BY <1>1, <1>2, <1>3, <2>1, <2>2, <2>3 DEF OnePlace
  <2> QED  BY <1>1, <1>2, <2>1, <2>2, <2>3, <2>4
<1>5. CASE ~Full
  <2>1. /\ queue' = Append(queue, hand[p]) /\ pc' = [pc EXCEPT ![p] = "idle"]
        /\ hand' = [hand EXCEPT ![p] = NoDelivery]
    BY <1>5 DEF PutRuns
  <2>2. /\ pc' \in [Producers -> {"idle", "putting", "waiting", "woken"}]
        /\ \A q \in Producers : pc'[q] = "idle" <=> q = p \/ pc[q] = "idle"
    BY <1>3, <2>1 DEF TypeOK
  <2>3. /\ p \in Submitting /\ Submitting' = Submitting \ {p}
        /\ hand[p] \in Held /\ Held' = Held \ {hand[p]}
        /\ \A q \in Submitting' : hand'[q] = hand[q]
    BY <1>1, <1>3, <2>1, <2>2, LetsGo
  <2>4. hand[p] \in Deliveries
    BY <1>1, <1>3 DEF TypeOK, QueueInv
  <2>5. Distinct(queue') /\ ToSet(queue') = ToSet(queue) \cup {hand[p]}
    <3>1. hand[p] \notin ToSet(queue) /\ Distinct(queue)
      BY <1>3, <2>3 DEF OnePlace
    <3> QED  BY <1>3, <2>1, <2>4, <3>1, AppendDistinct
  <2>6. OnePlace'
    BY <1>1, <1>2, <1>3, <2>1, <2>3, <2>5 DEF OnePlace
  <2> QED  BY <1>1, <1>2, <2>1, <2>3, <2>5, <2>6
<1> QED  BY <1>4, <1>5

(* A timeout moves the delivery in hand to the shed ones.                  *)
LEMMA TimeoutPlaces ==
  ASSUME Base, NEW p \in Producers, BackpressureTimeout(p)
  PROVE  /\ unseen' = unseen /\ shed' = shed \cup {hand[p]} /\ queue' = queue
         /\ Asked' = Asked /\ Busy' = Busy /\ OnePlace'
         /\ hand[p] \in Held /\ Held' = Held \ {hand[p]}
         /\ p \in Submitting /\ Submitting' = Submitting \ {p}
<1>1. /\ UNCHANGED <<unseen, queue, job>> /\ pc[p] # "idle"
      /\ shed' = shed \cup {hand[p]} /\ hand' = [hand EXCEPT ![p] = NoDelivery]
  BY DEF BackpressureTimeout
<1>2. Busy' = Busy /\ Asked' = Asked
  BY <1>1, PlacesKept
<1>3. TypeOK /\ QueueInv /\ OnePlace
  BY DEF Base
<1>4. /\ pc' \in [Producers -> {"idle", "putting", "waiting", "woken"}]
      /\ \A q \in Producers : pc'[q] = "idle" <=> q = p \/ pc[q] = "idle"
  <2>1. CASE HandsOff(p)
    <3>1. pc' = [WakeNext(pc) EXCEPT ![p] = "idle"]
      BY <2>1 DEF BackpressureTimeout
    <3>2. WakeNext(pc) \in [Producers -> {"idle", "putting", "waiting", "woken"}]
      BY <1>3, WakeType
    <3>3. \A q \in Producers : WakeNext(pc)[q] = "idle" <=> pc[q] = "idle"
      BY <1>3, WakeKeepsSleepers
    <3> QED  BY <3>1, <3>2, <3>3
  <2>2. CASE ~HandsOff(p)
    <3>1. pc' = [pc EXCEPT ![p] = "idle"]
      BY <2>2 DEF BackpressureTimeout
    <3> QED  BY <1>3, <3>1 DEF TypeOK
  <2> QED  BY <2>1, <2>2
<1>5. /\ p \in Submitting /\ Submitting' = Submitting \ {p}
      /\ hand[p] \in Held /\ Held' = Held \ {hand[p]}
      /\ \A q \in Submitting' : hand'[q] = hand[q]
  BY <1>1, <1>3, <1>4, LetsGo
<1>6. OnePlace'
  BY <1>1, <1>2, <1>3, <1>5 DEF OnePlace
<1> QED  BY <1>1, <1>2, <1>5, <1>6

(* A worker takes the first of the queue.                                  *)
LEMMA GetPlaces ==
  ASSUME Base, NEW w \in Workers, Get(w)
  PROVE  /\ unseen' = unseen /\ shed' = shed
         /\ Held' = Held /\ Submitting' = Submitting /\ OnePlace'
         /\ Head(queue) \in ToSet(queue) /\ ToSet(queue') = ToSet(queue) \ {Head(queue)}
         /\ Len(queue') = Len(queue) - 1
         /\ w \notin Busy /\ Busy' = Busy \cup {w} /\ Asked' = Asked \cup {Head(queue)}
<1>1. /\ UNCHANGED <<unseen, shed, hand>> /\ Free(w) /\ queue # <<>> /\ queue' = Tail(queue)
      /\ job' = [job EXCEPT ![w] = Head(queue)] /\ pc' = WakeNext(pc)
  BY DEF Get
<1>2. TypeOK /\ QueueInv /\ OnePlace /\ queue \in Seq(Deliveries)
  BY DEF Base, TypeOK
<1>3. Submitting' = Submitting
  BY <1>1, <1>2, WakeSubmitting
<1>4. Held' = Held
  BY <1>1, <1>3 DEF Held
<1>5. Head(queue) \in Deliveries /\ Len(queue') = Len(queue) - 1
  BY <1>1, <1>2, HeadTailProperties
<1>6. /\ Distinct(queue') /\ Head(queue) \in ToSet(queue)
      /\ ToSet(queue') = ToSet(queue) \ {Head(queue)}
  BY <1>1, <1>2, TailDistinct DEF OnePlace
<1>7. /\ w \notin Busy /\ Busy' = Busy \cup {w} /\ Asked' = Asked \cup {Head(queue)}
      /\ \A v \in Busy : job'[v] = job[v]
      /\ job'[w] = Head(queue)
  BY <1>1, <1>2, <1>5, TakesJob
<1>8. \A u, v \in Busy' : job'[u] = job'[v] => u = v
  <2>1. \A v \in Busy : job[v] # Head(queue)
    BY <1>2, <1>6 DEF OnePlace, Asked
  <2> QED  BY <1>2, <1>7, <2>1 DEF OnePlace
<1>9. \A p, q \in Submitting' : hand'[p] = hand'[q] => p = q
  BY <1>1, <1>2, <1>3 DEF OnePlace
<1>10. OnePlace'
  BY <1>1, <1>2, <1>4, <1>6, <1>7, <1>8, <1>9 DEF OnePlace
<1> QED  BY <1>1, <1>3, <1>4, <1>5, <1>6, <1>7, <1>10

(* A published verdict frees the worker of its delivery.                   *)
LEMMA SettlePlaces ==
  ASSUME Base, NEW w \in Workers, Settle(w)
  PROVE  /\ unseen' = unseen /\ shed' = shed /\ queue' = queue
         /\ Held' = Held /\ Submitting' = Submitting /\ OnePlace'
         /\ w \in Busy /\ Busy' = Busy \ {w} /\ job[w] \in Asked /\ Asked' = Asked \ {job[w]}
<1>1. /\ UNCHANGED <<unseen, shed, pc, hand, queue>> /\ ~Free(w)
      /\ job' = [job EXCEPT ![w] = NoDelivery]
  BY DEF Settle, queueVars
<1>2. TypeOK /\ OnePlace
  BY DEF Base
<1>3. Submitting' = Submitting /\ Held' = Held
  BY <1>1, PlacesKept
<1>4. /\ w \in Busy /\ Busy' = Busy \ {w} /\ job[w] \in Asked /\ Asked' = Asked \ {job[w]}
      /\ \A v \in Busy' : job'[v] = job[v]
  BY <1>1, <1>2, DoneWithJob
<1>5. OnePlace'
  BY <1>1, <1>2, <1>3, <1>4 DEF OnePlace
<1> QED  BY <1>1, <1>3, <1>4, <1>5

(* Every other step leaves the deliveries where they are.                  *)
LEMMA OtherPlaces ==
  ASSUME Base, UNCHANGED <<unseen, pc, hand, queue, job, shed>>
  PROVE  /\ Held' = Held /\ Submitting' = Submitting /\ Asked' = Asked /\ Busy' = Busy
         /\ OnePlace'
<1>1. Held' = Held /\ Submitting' = Submitting /\ Asked' = Asked /\ Busy' = Busy
  BY PlacesKept
<1> QED  BY <1>1 DEF Base, OnePlace

-----------------------------------------------------------------------------
(* The counters. *)

Accounted == EventsAccounted /\ CallsAccounted

(* What counting does to each counter. *)
LEMMA CountedEach ==
  ASSUME TypeOK, NEW cs, metrics' = Counted(cs)
  PROVE  \A c \in Counters :
           /\ metrics[c] \in Nat
           /\ metrics'[c] = metrics[c] + (IF c \in cs THEN 1 ELSE 0)
BY DEF TypeOK, Counted

(* Cardinalities of what a step adds to or takes from. *)
LEMMA AddOne ==
  ASSUME NEW S, IsFiniteSet(S), NEW x, x \notin S
  PROVE  IsFiniteSet(S \cup {x}) /\ Cardinality(S \cup {x}) = Cardinality(S) + 1
BY FS_AddElement

(* The other way round.                                                    *)
LEMMA TakeOne ==
  ASSUME NEW S, IsFiniteSet(S), NEW x \in S
  PROVE  IsFiniteSet(S \ {x}) /\ Cardinality(S \ {x}) = Cardinality(S) - 1
BY FS_RemoveElement

(* Every step changes the counters and the places by the same amounts.     *)
LEMMA AccountedStep ==
  ASSUME Base, Accounted, [Next]_vars
  PROVE  Accounted'
<1> DEFINE i == metrics["ingested"]
           t == metrics["triaged"]
           s == metrics["shed"]
           k == metrics["skipped"]
           l == metrics["calls"]
           q == Len(queue)
           h == Cardinality(Submitting)
           b == Cardinality(Busy)
<1>1. /\ i \in Nat /\ t \in Nat /\ s \in Nat /\ k \in Nat /\ l \in Nat
      /\ q \in Nat /\ h \in Nat /\ b \in Nat
      /\ IsFiniteSet(Submitting) /\ IsFiniteSet(Busy)
  BY ProducerSetsFinite, LenProperties DEF Base, TypeOK, Counters
<1>2. i = t + s + q + h + b /\ l + k = t + b
  BY DEF Accounted, EventsAccounted, CallsAccounted
<1>3. TypeOK /\ queue \in Seq(Deliveries)
  BY DEF Base, TypeOK
<1>4. ASSUME NEW d \in Deliveries, queue' = Append(queue, d) PROVE q' = q + 1
  BY <1>3, <1>4, AppendProperties
<1>5. (i' = t' + s' + q' + h' + b') /\ (l' + k' = t' + b') => Accounted'
  BY DEF Accounted, EventsAccounted, CallsAccounted
<1> HIDE DEF i, t, s, k, l, q, h, b
<1>m. ASSUME NEW cs, metrics' = Counted(cs)
      PROVE  /\ i' = i + (IF "ingested" \in cs THEN 1 ELSE 0)
             /\ t' = t + (IF "triaged" \in cs THEN 1 ELSE 0)
             /\ s' = s + (IF "shed" \in cs THEN 1 ELSE 0)
             /\ k' = k + (IF "skipped" \in cs THEN 1 ELSE 0)
             /\ l' = l + (IF "calls" \in cs THEN 1 ELSE 0)
  BY <1>3, <1>m, CountedEach DEF Counters, i, t, s, k, l
<1>6. ASSUME NEW p \in Producers, NEW d \in Deliveries, AcceptFastPath(p, d) PROVE Accounted'
  <2>1. queue' = queue /\ Submitting' = Submitting /\ Busy' = Busy
    BY <1>6, FastPathPlaces
  <2>2. q' = q /\ h' = h /\ b' = b
    BY <2>1 DEF q, h, b
  <2>3. i' = i + 1 /\ t' = t + 1 /\ s' = s /\ k' = k + 1 /\ l' = l
    BY <1>1, <1>6, <1>m DEF AcceptFastPath, FastPathCounters
  <2> QED  BY <1>1, <1>2, <1>5, <2>2, <2>3
<1>7. ASSUME NEW p \in Producers, NEW d \in Deliveries, AcceptForTriage(p, d) PROVE Accounted'
  <2>1. /\ Busy' = Busy
        /\ \/ queue' = Append(queue, d) /\ Submitting' = Submitting
           \/ queue' = queue /\ p \notin Submitting /\ Submitting' = Submitting \cup {p}
    BY <1>7, ForTriagePlaces
  <2>2. b' = b
    BY <2>1 DEF b
  <2>3. i' = i + 1 /\ t' = t /\ s' = s /\ k' = k /\ l' = l
    BY <1>1, <1>7, <1>m DEF AcceptForTriage
  <2>4. CASE queue' = Append(queue, d) /\ Submitting' = Submitting
    <3>1. q' = q + 1 /\ h' = h
      BY <1>4, <2>4 DEF h
    <3> QED  BY <1>1, <1>2, <1>5, <2>2, <2>3, <3>1
  <2>5. CASE queue' = queue /\ p \notin Submitting /\ Submitting' = Submitting \cup {p}
    <3>1. q' = q
      BY <2>5 DEF q
    <3>2. h' = h + 1
      BY <1>1, <2>5, AddOne DEF h
    <3> QED  BY <1>1, <1>2, <1>5, <2>2, <2>3, <3>1, <3>2
  <2> QED  BY <2>1, <2>4, <2>5
<1>8. ASSUME NEW p \in Producers, PutRuns(p) PROVE Accounted'
  <2>1. Busy' = Busy /\ metrics' = metrics
    BY <1>8, PutPlaces DEF PutRuns
  <2>2. b' = b /\ i' = i /\ t' = t /\ s' = s /\ k' = k /\ l' = l
    BY <2>1 DEF b, i, t, s, k, l
  <2>3. CASE queue' = queue /\ Submitting' = Submitting
    <3>1. q' = q /\ h' = h
      BY <2>3 DEF q, h
    <3> QED  BY <1>2, <1>5, <2>2, <3>1
  <2>4. CASE queue' = Append(queue, hand[p]) /\ p \in Submitting /\ Submitting' = Submitting \ {p}
    <3>1. hand[p] \in Deliveries
      BY <1>8 DEF Base, TypeOK, QueueInv, PutRuns
    <3>2. q' = q + 1
      BY <1>4, <2>4, <3>1
    <3>3. h' = h - 1
      BY <1>1, <2>4, TakeOne DEF h
    <3> QED  BY <1>1, <1>2, <1>5, <2>2, <3>2, <3>3
  <2> QED  BY <1>8, <2>3, <2>4, PutPlaces
<1>9. ASSUME NEW p \in Producers, BackpressureTimeout(p) PROVE Accounted'
  <2>1. queue' = queue /\ Busy' = Busy /\ p \in Submitting /\ Submitting' = Submitting \ {p}
    BY <1>9, TimeoutPlaces
  <2>2. q' = q /\ b' = b
    BY <2>1 DEF q, b
  <2>3. h' = h - 1
    BY <1>1, <2>1, TakeOne DEF h
  <2>4. i' = i /\ t' = t /\ s' = s + 1 /\ k' = k /\ l' = l
    BY <1>1, <1>9, <1>m DEF BackpressureTimeout, ShedCounters
  <2> QED  BY <1>1, <1>2, <1>5, <2>2, <2>3, <2>4
<1>10. ASSUME NEW w \in Workers, Get(w) PROVE Accounted'
  <2>1. /\ Submitting' = Submitting /\ Len(queue') = Len(queue) - 1
        /\ w \notin Busy /\ Busy' = Busy \cup {w}
    BY <1>10, GetPlaces
  <2>2. h' = h /\ q' = q - 1
    BY <2>1 DEF h, q
  <2>3. b' = b + 1
    BY <1>1, <2>1, AddOne DEF b
  <2>4. i' = i /\ t' = t /\ s' = s /\ k' = k /\ l' = l + 1
    BY <1>1, <1>10, <1>m DEF Get
  <2> QED  BY <1>1, <1>2, <1>5, <2>2, <2>3, <2>4
<1>11. ASSUME NEW w \in Workers, Settle(w) PROVE Accounted'
  <2>1. queue' = queue /\ Submitting' = Submitting /\ w \in Busy /\ Busy' = Busy \ {w}
    BY <1>11, SettlePlaces
  <2>2. h' = h /\ q' = q
    BY <2>1 DEF h, q
  <2>3. b' = b - 1
    BY <1>1, <2>1, TakeOne DEF b
  <2>4. i' = i /\ t' = t + 1 /\ s' = s /\ k' = k /\ l' = l
    BY <1>1, <1>11, <1>m DEF Settle
  <2> QED  BY <1>1, <1>2, <1>5, <2>2, <2>3, <2>4
<1>12. ASSUME UNCHANGED <<unseen, pc, hand, queue, job, shed, metrics>> PROVE Accounted'
  <2>1. Submitting' = Submitting /\ Busy' = Busy
    BY <1>12, OtherPlaces
  <2>2. /\ b' = b /\ h' = h /\ q' = q
        /\ i' = i /\ t' = t /\ s' = s /\ k' = k /\ l' = l
    BY <1>12, <2>1 DEF b, h, q, i, t, s, k, l
  <2> QED  BY <1>2, <1>5, <2>2
<1>13. ASSUME NEW id \in EventIds, Acknowledge(id) \/ Resolve(id) PROVE Accounted'
  BY <1>12, <1>13 DEF Acknowledge, Resolve, queueVars
<1>14. CASE UNCHANGED vars
  BY <1>12, <1>14 DEF vars, queueVars
<1> QED  BY <1>6, <1>7, <1>8, <1>9, <1>10, <1>11, <1>13, <1>14 DEF Next

(* No step puts a delivery in two places.                                  *)
LEMMA OnePlaceStep ==
  ASSUME Base, [Next]_vars
  PROVE  Base'
<1>1. TypeOK' /\ QueueInv'
  BY TypeStep, QueueInvStep DEF Base
<1>2. ASSUME UNCHANGED <<unseen, pc, hand, queue, job, shed>> PROVE OnePlace'
  BY <1>2, OtherPlaces
<1>3. ASSUME NEW id \in EventIds, Acknowledge(id) \/ Resolve(id) PROVE OnePlace'
  BY <1>2, <1>3 DEF Acknowledge, Resolve, queueVars
<1>4. ASSUME UNCHANGED vars PROVE OnePlace'
  BY <1>2, <1>4 DEF vars, queueVars
<1>5. ASSUME NEW p \in Producers, NEW d \in Deliveries,
             AcceptFastPath(p, d) \/ AcceptForTriage(p, d)
      PROVE  OnePlace'
  BY <1>5, FastPathPlaces, ForTriagePlaces
<1>6. ASSUME NEW p \in Producers, PutRuns(p) \/ BackpressureTimeout(p) PROVE OnePlace'
  BY <1>6, PutPlaces, TimeoutPlaces
<1>7. ASSUME NEW w \in Workers, Get(w) \/ Settle(w) PROVE OnePlace'
  BY <1>7, GetPlaces, SettlePlaces
<1>8. OnePlace'
  BY <1>3, <1>4, <1>5, <1>6, <1>7 DEF Next
<1> QED  BY <1>1, <1>8 DEF Base

(* In the beginning nothing has been delivered. *)
LEMMA PlacesInit ==
  ASSUME Init
  PROVE  /\ Base /\ Accounted
         /\ Submitting = {} /\ Busy = {} /\ Held = {} /\ Asked = {} /\ ToSet(queue) = {}
<1>1. TypeOK /\ QueueInv
  BY TypeInit, QueueInvInit
<1>2. Submitting = {} /\ Busy = {}
  BY DEF Init, Submitting, Busy, Free
<1>3. Held = {} /\ Asked = {}
  BY <1>2 DEF Held, Asked
<1>4. queue = <<>> /\ DOMAIN queue = {} /\ Len(queue) = 0
  BY EmptySeq DEF Init
<1>5. ToSet(queue) = {}
  BY <1>4 DEF ToSet
<1>6. OnePlace
  BY <1>2, <1>3, <1>4, <1>5 DEF Init, OnePlace, Distinct
<1>7. Cardinality(Submitting) = 0 /\ Cardinality(Busy) = 0
  BY <1>2, FS_EmptySet
<1>8. \A c \in Counters : metrics[c] = 0
  BY DEF Init
<1>9. Accounted
  BY <1>4, <1>7, <1>8 DEF Accounted, EventsAccounted, CallsAccounted, Counters
<1> QED  BY <1>1, <1>2, <1>3, <1>5, <1>6, <1>9 DEF Base

(* For any producers, workers and capacities the dashboard's counters add  *)
(* up: an event ingested is triaged, counted as shed, or held, queued or   *)
(* asked about by exactly one task.                                        *)
THEOREM NothingQuietlyLost == Spec => []EventsAccounted
<1>1. Init => Base /\ Accounted
  BY PlacesInit
<1>2. Base /\ Accounted /\ [Next]_vars => Base' /\ Accounted'
  BY OnePlaceStep, AccountedStep
<1>3. Accounted => EventsAccounted
  BY DEF Accounted
<1> QED  BY <1>1, <1>2, <1>3, PTL DEF Spec

(* Every call of the provider ends in one triaged event, and only the fast *)
(* path is triaged without one.                                            *)
THEOREM EveryCallCounted == Spec => []CallsAccounted
<1>1. Init => Base /\ Accounted
  BY PlacesInit
<1>2. Base /\ Accounted /\ [Next]_vars => Base' /\ Accounted'
  BY OnePlaceStep, AccountedStep
<1>3. Accounted => CallsAccounted
  BY DEF Accounted
<1> QED  BY <1>1, <1>2, <1>3, PTL DEF Spec

-----------------------------------------------------------------------------
(* The board. *)

OnTheWay == InFlight \cup shed

(* A record on the board shows a delivery of its own id (AlarmRecord.id)   *)
(* that has arrived.                                                       *)
SourceArrived ==
  \A id \in EventIds :
    Retained(id) => IdOf[board[id].source] = id /\ board[id].source \notin unseen

BoardInv == SourceArrived /\ PreliminaryBacked

(* A put on the board keeps the others or evicts them (AlarmStore.upsert). *)
LEMMA UpsertBoard ==
  ASSUME NEW id \in EventIds, NEW record, Upsert(id, record), NEW i \in EventIds,
         board'[i] # NoRecord
  PROVE  board'[i] = IF i = id THEN record ELSE board[i]
BY DEF Upsert

(* What a record put on the board must satisfy. *)
LEMMA UpsertKeepsBoard ==
  ASSUME Base, BoardInv, NEW id \in EventIds, NEW record, Upsert(id, record),
         IdOf[record.source] = id, record.source \notin unseen', unseen' \subseteq unseen,
         record.state = "preliminary" => record.source \in OnTheWay',
         \A d \in OnTheWay : IdOf[d] # id => d \in OnTheWay'
  PROVE  BoardInv'
<1>1. ASSUME NEW i \in EventIds, board'[i] # NoRecord
      PROVE  /\ IdOf[board'[i].source] = i /\ board'[i].source \notin unseen'
             /\ board'[i].state = "preliminary" => board'[i].source \in OnTheWay'
  <2>1. CASE i = id
    <3>1. board'[i] = record
      BY <1>1, <2>1, UpsertBoard
    <3> QED  BY <2>1, <3>1
  <2>2. CASE i # id
    <3>1. board'[i] = board[i]
      BY <1>1, <2>2, UpsertBoard
    <3>2. IdOf[board[i].source] = i /\ board[i].source \notin unseen'
      BY <1>1, <3>1 DEF BoardInv, SourceArrived, Retained
    <3>3. board[i].state = "preliminary" => board[i].source \in OnTheWay
      BY <1>1, <3>1 DEF BoardInv, PreliminaryBacked, Retained, OnTheWay
    <3> QED  BY <2>2, <3>1, <3>2, <3>3
  <2> QED  BY <2>1, <2>2
<1> QED  BY <1>1 DEF BoardInv, SourceArrived, PreliminaryBacked, Retained, OnTheWay

(* A step that leaves the board alone. *)
LEMMA BoardKept ==
  ASSUME BoardInv, board' = board, unseen' \subseteq unseen, OnTheWay \subseteq OnTheWay'
  PROVE  BoardInv'
BY DEF BoardInv, SourceArrived, PreliminaryBacked, Retained, OnTheWay

(* The event a worker evaluates has arrived under the id of its delivery.  *)
LEMMA SettledArrived ==
  ASSUME Base, BoardInv, NEW w \in Workers, Settle(w)
  PROVE  WithTriage(Current(job[w])).source \in Arrived(job[w])
<1> DEFINE d == job[w]
<1>1. d \in Deliveries /\ IdOf[d] \in EventIds /\ d \in Asked
  BY DeliveriesAssumption, SettlePlaces DEF Base, Settle, Free, TypeOK
<1>2. d \notin unseen
  BY <1>1 DEF Base, OnePlace
<1>3. Current(d) \in Record /\ Current(d).source \in Arrived(d)
  <2>1. CASE Retained(IdOf[d])
    <3>1. Current(d) = board[IdOf[d]] /\ board[IdOf[d]] \in Record
      BY <1>1, <2>1 DEF Base, Current, TypeOK, Retained
    <3>2. board[IdOf[d]].source \in Deliveries
      BY <3>1 DEF Record
    <3> QED  BY <1>1, <2>1, <3>1, <3>2 DEF BoardInv, SourceArrived, Arrived
  <2>2. CASE ~Retained(IdOf[d])
    <3>1. Current(d) = NewRecord(d, "preliminary") /\ Current(d) \in Record
      BY <1>1, <2>2, RecordType DEF Current
    <3> QED  BY <1>1, <1>2, <3>1 DEF NewRecord, Arrived
  <2> QED  BY <2>1, <2>2
<1> QED  BY <1>3 DEF WithTriage, Record

(* A record leaves the preliminary state with the verdict of its event.    *)
LEMMA BoardStep ==
  ASSUME Base, BoardInv, [Next]_vars
  PROVE  BoardInv'
<1>1. /\ TypeOK /\ OnePlace /\ OnTheWay = Held \cup ToSet(queue) \cup Asked \cup shed
      /\ OnTheWay' = Held' \cup ToSet(queue)' \cup Asked' \cup shed'
  BY DEF Base, OnTheWay, InFlight, Held, Asked
<1>2. ASSUME NEW p \in Producers, NEW d \in Deliveries, AcceptFastPath(p, d)
      PROVE  BoardInv'
  <2>1. /\ shed' = shed /\ Held' = Held /\ ToSet(queue)' = ToSet(queue) /\ Asked' = Asked
        /\ unseen' = unseen \ {d}
    BY <1>2, FastPathPlaces
  <2>2. Upsert(IdOf[d], NewRecord(d, "final")) /\ IdOf[d] \in EventIds
    BY <1>2, DeliveriesAssumption DEF AcceptFastPath
  <2>3. NewRecord(d, "final").source = d /\ NewRecord(d, "final").state = "final"
    BY DEF NewRecord
  <2> QED  BY <1>1, <2>1, <2>2, <2>3, UpsertKeepsBoard
<1>3. ASSUME NEW p \in Producers, NEW d \in Deliveries, AcceptForTriage(p, d)
      PROVE  BoardInv'
  <2>1. /\ shed' = shed /\ Asked' = Asked /\ unseen' = unseen \ {d}
        /\ \/ ToSet(queue)' = ToSet(queue) \cup {d} /\ Held' = Held
           \/ ToSet(queue)' = ToSet(queue) /\ Held' = Held \cup {d}
    BY <1>3, ForTriagePlaces
  <2>2. Upsert(IdOf[d], NewRecord(d, "preliminary")) /\ IdOf[d] \in EventIds
    BY <1>3, DeliveriesAssumption DEF AcceptForTriage
  <2>3. NewRecord(d, "preliminary").source = d
    BY DEF NewRecord
  <2>4. d \in OnTheWay' /\ OnTheWay \subseteq OnTheWay'
    BY <1>1, <2>1
  <2> QED  BY <2>1, <2>2, <2>3, <2>4, UpsertKeepsBoard
<1>4. ASSUME NEW p \in Producers, PutRuns(p)
      PROVE  BoardInv'
  <2>1. board' = board
    BY <1>4 DEF PutRuns, storeVars
  <2>2. /\ shed' = shed /\ Asked' = Asked /\ unseen' = unseen
        /\ \/ ToSet(queue)' = ToSet(queue) /\ Held' = Held
           \/ /\ Held' = Held \ {hand[p]}
              /\ ToSet(queue)' = ToSet(queue) \cup {hand[p]}
    BY <1>4, PutPlaces
  <2>3. OnTheWay \subseteq OnTheWay'
    BY <1>1, <2>2
  <2> QED  BY <2>1, <2>2, <2>3, BoardKept
<1>5. ASSUME NEW p \in Producers, BackpressureTimeout(p)
      PROVE  BoardInv'
  <2>1. board' = board
    BY <1>5 DEF BackpressureTimeout, storeVars
  <2>2. /\ unseen' = unseen /\ shed' = shed \cup {hand[p]} /\ ToSet(queue)' = ToSet(queue)
        /\ Asked' = Asked /\ Held' = Held \ {hand[p]}
    BY <1>5, TimeoutPlaces
  <2>3. OnTheWay \subseteq OnTheWay'
    BY <1>1, <2>2
  <2> QED  BY <2>1, <2>2, <2>3, BoardKept
<1>6. ASSUME NEW w \in Workers, Get(w)
      PROVE  BoardInv'
  <2>1. board' = board
    BY <1>6 DEF Get, storeVars
  <2>2. /\ unseen' = unseen /\ shed' = shed /\ Held' = Held
        /\ ToSet(queue)' = ToSet(queue) \ {Head(queue)} /\ Asked' = Asked \cup {Head(queue)}
    BY <1>6, GetPlaces
  <2>3. OnTheWay \subseteq OnTheWay'
    BY <1>1, <2>2
  <2> QED  BY <2>1, <2>2, <2>3, BoardKept
<1>7. ASSUME NEW w \in Workers, Settle(w)
      PROVE  BoardInv'
  <2> DEFINE d == job[w]
             record == WithTriage(Current(d))
  <2>1. /\ shed' = shed /\ Held' = Held /\ ToSet(queue)' = ToSet(queue) /\ Asked' = Asked \ {d}
        /\ unseen' = unseen
    BY <1>7, SettlePlaces
  <2>2. d \in Deliveries /\ IdOf[d] \in EventIds /\ Upsert(IdOf[d], record)
    BY <1>1, <1>7, DeliveriesAssumption DEF Settle, Free, TypeOK
  <2>3. record.source \in Arrived(d)
    BY <1>7, SettledArrived
  <2>4. record.source \notin unseen /\ IdOf[record.source] = IdOf[d] /\ record.state # "preliminary"
    BY <1>1, <2>2, <2>3, RecordType DEF Arrived, WithTriage, Record
  <2> HIDE DEF d, record
  <2>5. \A e \in OnTheWay : IdOf[e] # IdOf[d] => e \in OnTheWay'
    BY <1>1, <2>1
  <2> QED  BY <2>1, <2>2, <2>4, <2>5, UpsertKeepsBoard
<1>8. ASSUME NEW id \in EventIds, Acknowledge(id) \/ Resolve(id)
      PROVE  BoardInv'
  <2>1. UNCHANGED <<unseen, pc, hand, queue, job, shed>>
    BY <1>8 DEF Acknowledge, Resolve, queueVars
  <2>2. OnTheWay' = OnTheWay
    BY <1>1, <2>1, OtherPlaces
  <2>3. PICK record \in {Acknowledged(board[id]), Resolved(board[id])} : Upsert(id, record)
    BY <1>8 DEF Acknowledge, Resolve
  <2>4. board[id] \in Record /\ Retained(id)
    BY <1>1, <1>8 DEF TypeOK, Acknowledge, Resolve, Retained
  <2>5. record.source = board[id].source /\ record.state = board[id].state
    BY <2>3, <2>4 DEF Record, Acknowledged, Resolved
  <2>6. /\ IdOf[board[id].source] = id /\ board[id].source \notin unseen
        /\ board[id].state = "preliminary" => board[id].source \in OnTheWay
    BY <2>4 DEF BoardInv, SourceArrived, PreliminaryBacked, OnTheWay
  <2> QED  BY <2>1, <2>2, <2>3, <2>5, <2>6, UpsertKeepsBoard
<1>9. ASSUME UNCHANGED vars PROVE BoardInv'
  <2>1. UNCHANGED <<unseen, pc, hand, queue, job, shed>> /\ board' = board
    BY <1>9 DEF vars, queueVars, storeVars
  <2>2. OnTheWay' = OnTheWay
    BY <1>1, <2>1, OtherPlaces
  <2> QED  BY <2>1, <2>2, BoardKept
<1> QED  BY <1>2, <1>3, <1>4, <1>5, <1>6, <1>7, <1>8, <1>9 DEF Next

(* The board is empty at first.                                            *)
LEMMA BoardInit == Init => BoardInv
BY DEF Init, BoardInv, SourceArrived, PreliminaryBacked, Retained

(* For any load and any store capacity, what the board shows as            *)
(* preliminary is still on its way to a verdict, or was shed.              *)
THEOREM BoardNeverWaitsForNothing == Spec => []PreliminaryBacked
<1>1. Init => Base /\ BoardInv
  BY PlacesInit, BoardInit
<1>2. Base /\ BoardInv /\ [Next]_vars => Base' /\ BoardInv'
  BY OnePlaceStep, BoardStep
<1>3. BoardInv => PreliminaryBacked
  BY DEF BoardInv
<1> QED  BY <1>1, <1>2, <1>3, PTL DEF Spec

-----------------------------------------------------------------------------
(* Evaluated once. *)

Criticals == {d \in Deliveries : RuleSeverity[d] = "critical"}

(* What a step does to one delivery: it is received, settled at once, shed *)
(* or given its verdict, or nothing moves.                                 *)
IsReceived(d) ==
  /\ d \in unseen \ FastPath /\ unseen' = unseen \ {d} /\ shed' = shed
  /\ InFlight' = InFlight \cup {d} /\ evaluations' = evaluations

IsSettledAtOnce(d) ==
  /\ d \in unseen \cap FastPath /\ unseen' = unseen \ {d} /\ shed' = shed
  /\ InFlight' = InFlight /\ evaluations' = Evaluated(d, d)

IsShed(d) ==
  /\ d \in InFlight \ Criticals /\ unseen' = unseen /\ shed' = shed \cup {d}
  /\ InFlight' = InFlight \ {d} /\ evaluations' = evaluations

IsSettled(d) ==
  /\ d \in InFlight /\ unseen' = unseen /\ shed' = shed /\ InFlight' = InFlight \ {d}
  /\ \E event \in Arrived(d) : evaluations' = Evaluated(d, event)

NothingMoves == UNCHANGED <<unseen, shed, InFlight, evaluations>>

LEMMA DeliveryStep ==
  ASSUME Base, BoardInv, [Next]_vars
  PROVE  \/ NothingMoves
         \/ \E d \in Deliveries : IsReceived(d) \/ IsSettledAtOnce(d) \/ IsShed(d) \/ IsSettled(d)
<1>1. /\ TypeOK /\ OnePlace /\ InFlight = Held \cup ToSet(queue) \cup Asked
      /\ InFlight' = Held' \cup ToSet(queue)' \cup Asked'
  BY InFlightIs DEF Base, InFlight, Held, Asked
<1>2. ASSUME NEW p \in Producers, NEW d \in Deliveries, AcceptFastPath(p, d)
      PROVE  IsSettledAtOnce(d)
  <2>1. /\ d \in unseen /\ unseen' = unseen \ {d} /\ shed' = shed
        /\ Held' = Held /\ queue' = queue /\ Asked' = Asked
    BY <1>2, FastPathPlaces
  <2>2. evaluations' = Evaluated(d, d) /\ d \in FastPath
    BY <1>2 DEF AcceptFastPath
  <2> QED  BY <1>1, <2>1, <2>2 DEF IsSettledAtOnce
<1>3. ASSUME NEW p \in Producers, NEW d \in Deliveries, AcceptForTriage(p, d)
      PROVE  IsReceived(d)
  <2>1. evaluations' = evaluations /\ d \notin FastPath
    BY <1>3 DEF AcceptForTriage
  <2>2. /\ d \in unseen /\ unseen' = unseen \ {d} /\ shed' = shed /\ Asked' = Asked
        /\ \/ ToSet(queue)' = ToSet(queue) \cup {d} /\ Held' = Held
           \/ ToSet(queue)' = ToSet(queue) /\ Held' = Held \cup {d}
    BY <1>3, ForTriagePlaces
  <2>3. InFlight' = InFlight \cup {d}
    BY <1>1, <2>2
  <2> QED  BY <2>1, <2>2, <2>3 DEF IsReceived
<1>4. ASSUME NEW p \in Producers, PutRuns(p)
      PROVE  NothingMoves
  <2>1. evaluations' = evaluations
    BY <1>4 DEF PutRuns
  <2>2. /\ unseen' = unseen /\ shed' = shed /\ Asked' = Asked
        /\ \/ ToSet(queue)' = ToSet(queue) /\ Held' = Held
           \/ /\ hand[p] \in Held /\ Held' = Held \ {hand[p]}
              /\ ToSet(queue)' = ToSet(queue) \cup {hand[p]}
    BY <1>4, PutPlaces
  <2>3. InFlight' = InFlight
    BY <1>1, <2>2
  <2> QED  BY <2>1, <2>2, <2>3 DEF NothingMoves
<1>5. ASSUME NEW p \in Producers, BackpressureTimeout(p)
      PROVE  hand[p] \in Deliveries /\ IsShed(hand[p])
  <2>1. evaluations' = evaluations /\ ~Protected(hand[p])
    BY <1>5 DEF BackpressureTimeout
  <2>2. /\ unseen' = unseen /\ shed' = shed \cup {hand[p]} /\ ToSet(queue)' = ToSet(queue)
        /\ Asked' = Asked /\ hand[p] \in Held /\ Held' = Held \ {hand[p]}
    BY <1>5, TimeoutPlaces
  <2>3. hand[p] \in Deliveries
    BY <1>5 DEF BackpressureTimeout, Base, TypeOK, QueueInv
  <2>4. hand[p] \in InFlight \ Criticals
    BY <1>1, <2>1, <2>2 DEF Protected, Criticals
  <2>5. hand[p] \notin ToSet(queue) \cup Asked
    BY <1>1, <2>2 DEF OnePlace
  <2>6. InFlight' = InFlight \ {hand[p]}
    BY <1>1, <2>2, <2>5
  <2> QED  BY <2>1, <2>2, <2>3, <2>4, <2>6 DEF IsShed
<1>6. ASSUME NEW w \in Workers, Get(w)
      PROVE  NothingMoves
  <2>1. evaluations' = evaluations
    BY <1>6 DEF Get
  <2>2. /\ unseen' = unseen /\ shed' = shed /\ Held' = Held
        /\ Head(queue) \in ToSet(queue) /\ ToSet(queue)' = ToSet(queue) \ {Head(queue)}
        /\ Asked' = Asked \cup {Head(queue)}
    BY <1>6, GetPlaces
  <2>3. InFlight' = InFlight
    BY <1>1, <2>2
  <2> QED  BY <2>1, <2>2, <2>3 DEF NothingMoves
<1>7. ASSUME NEW w \in Workers, Settle(w)
      PROVE  job[w] \in Deliveries /\ IsSettled(job[w])
  <2>1. /\ unseen' = unseen /\ shed' = shed /\ Held' = Held /\ ToSet(queue)' = ToSet(queue)
        /\ job[w] \in Asked /\ Asked' = Asked \ {job[w]}
    BY <1>7, SettlePlaces
  <2>2. job[w] \notin Held \cup ToSet(queue)
    BY <1>1, <2>1 DEF OnePlace
  <2>3. InFlight' = InFlight \ {job[w]} /\ job[w] \in InFlight
    BY <1>1, <2>1, <2>2
  <2>4. \E event \in Arrived(job[w]) : evaluations' = Evaluated(job[w], event)
    BY <1>1, <1>7, SettledArrived DEF Settle
  <2>5. job[w] \in Deliveries
    BY <1>1, <1>7 DEF TypeOK, Settle, Free
  <2> QED  BY <2>1, <2>3, <2>4, <2>5 DEF IsSettled
<1>8. ASSUME UNCHANGED <<unseen, pc, hand, queue, job, shed, evaluations>>
      PROVE  NothingMoves
  <2>1. Held' = Held /\ Asked' = Asked /\ ToSet(queue)' = ToSet(queue)
    BY <1>8, OtherPlaces
  <2> QED  BY <1>1, <1>8, <2>1 DEF NothingMoves
<1>9. ASSUME NEW id \in EventIds, Acknowledge(id) \/ Resolve(id)
      PROVE  NothingMoves
  BY <1>8, <1>9 DEF Acknowledge, Resolve, queueVars
<1>10. ASSUME UNCHANGED vars PROVE NothingMoves
  BY <1>8, <1>10 DEF vars, queueVars
<1> QED  BY <1>2, <1>3, <1>4, <1>5, <1>6, <1>7, <1>9, <1>10 DEF Next

(* A delivery is not yet here, in flight or shed, one of them at most.     *)
LEMMA OneStage ==
  ASSUME Base
  PROVE  unseen \cap shed = {} /\ unseen \cap InFlight = {} /\ shed \cap InFlight = {}
BY InFlightIs DEF Base, OnePlace

LEMMA EvaluatedOnceInit == Init => EvaluatedOnce
BY DEF Init, EvaluatedOnce

LEMMA EvaluatedOnceStep ==
  ASSUME Base, BoardInv, EvaluatedOnce, [Next]_vars
  PROVE  EvaluatedOnce'
<1> DEFINE Waiting == unseen \cup shed \cup InFlight
<1>1. /\ evaluations \in [Deliveries -> Seq(Deliveries)]
      /\ \A d \in Deliveries : IF d \in Waiting THEN evaluations[d] = <<>>
                               ELSE \E event \in Arrived(d) : evaluations[d] = <<event>>
  BY DEF Base, TypeOK, EvaluatedOnce
<1>2. unseen \cap shed = {} /\ unseen \cap InFlight = {} /\ shed \cap InFlight = {}
  BY OneStage
<1>3. ASSUME Waiting' = Waiting, unseen' \subseteq unseen, evaluations' = evaluations
      PROVE  EvaluatedOnce'
  <2>1. \A d \in Deliveries : Arrived(d) \subseteq Arrived(d)'
    BY <1>3 DEF Arrived
  <2> QED  BY <1>1, <1>3, <2>1 DEF EvaluatedOnce
<1>4. ASSUME NEW d \in Deliveries \cap Waiting, NEW event, event \in Arrived(d)',
             Waiting' = Waiting \ {d}, unseen' \subseteq unseen,
             evaluations' = Evaluated(d, event)
      PROVE  EvaluatedOnce'
  <2>1. evaluations[d] = <<>>
    BY <1>1
  <2>2. Append(<<>>, event) = <<event>>
    OBVIOUS
  <2>3. evaluations' = [evaluations EXCEPT ![d] = <<event>>]
    BY <1>4, <2>1, <2>2 DEF Evaluated
  <2>4. \A e \in Deliveries : Arrived(e) \subseteq Arrived(e)'
    BY <1>4 DEF Arrived
  <2>5. \A e \in Deliveries : IF e \in Waiting' THEN evaluations'[e] = <<>>
                             ELSE \E a \in Arrived(e)' : evaluations'[e] = <<a>>
    BY <1>1, <1>4, <2>3, <2>4
  <2> QED  BY <2>5 DEF EvaluatedOnce
<1>5. ASSUME NEW d \in Deliveries, IsReceived(d) PROVE EvaluatedOnce'
  BY <1>3, <1>5 DEF IsReceived
<1>6. ASSUME NEW d \in Deliveries, IsSettledAtOnce(d) PROVE EvaluatedOnce'
  <2>1. d \in Arrived(d)'
    BY <1>6 DEF IsSettledAtOnce, Arrived
  <2>2. Waiting' = Waiting \ {d} /\ d \in Waiting
    BY <1>2, <1>6 DEF IsSettledAtOnce
  <2> QED  BY <1>4, <1>6, <2>1, <2>2 DEF IsSettledAtOnce
<1>7. ASSUME NEW d \in Deliveries, IsShed(d) PROVE EvaluatedOnce'
  <2>1. Waiting' = Waiting
    BY <1>7 DEF IsShed
  <2> QED  BY <1>3, <1>7, <2>1 DEF IsShed
<1>8. ASSUME NEW d \in Deliveries, IsSettled(d) PROVE EvaluatedOnce'
  <2>1. PICK event \in Arrived(d) : evaluations' = Evaluated(d, event)
    BY <1>8 DEF IsSettled
  <2>2. event \in Arrived(d)'
    BY <1>8, <2>1 DEF IsSettled, Arrived
  <2>3. Waiting' = Waiting \ {d} /\ d \in Waiting
    BY <1>2, <1>8 DEF IsSettled
  <2> QED  BY <1>4, <1>8, <2>1, <2>2, <2>3 DEF IsSettled
<1>9. ASSUME NothingMoves PROVE EvaluatedOnce'
  BY <1>3, <1>9 DEF NothingMoves
<1> QED  BY <1>5, <1>6, <1>7, <1>8, <1>9, DeliveryStep

(* For any load: a delivery that is neither shed nor on its way has been   *)
(* evaluated once, when its verdict became final, with an event that       *)
(* arrived under its id, and no other delivery has been evaluated.         *)
THEOREM NoVerdictTwice == Spec => []EvaluatedOnce
<1>1. Init => Base /\ BoardInv /\ EvaluatedOnce
  BY PlacesInit, BoardInit, EvaluatedOnceInit
<1>2. Base /\ BoardInv /\ EvaluatedOnce /\ [Next]_vars => Base' /\ BoardInv' /\ EvaluatedOnce'
  BY OnePlaceStep, BoardStep, EvaluatedOnceStep
<1> QED  BY <1>1, <1>2, PTL DEF Spec

(* So when no id is repeated, each alarm is evaluated with its own event.  *)
COROLLARY EvaluatedAsItself ==
  ASSUME \A d, e \in Deliveries : IdOf[d] = IdOf[e] => d = e
  PROVE  Spec => [](\A d \in Deliveries :
                      evaluations[d] = IF d \in unseen \cup shed \cup InFlight THEN <<>> ELSE <<d>>)
<1>1. EvaluatedOnce => \A d \in Deliveries :
        evaluations[d] = IF d \in unseen \cup shed \cup InFlight THEN <<>> ELSE <<d>>
  BY DEF EvaluatedOnce, Arrived
<1> QED  BY <1>1, NoVerdictTwice, PTL

-----------------------------------------------------------------------------
(* The operator's state. *)

(* What a record must not lose.                                            *)
Survives(old, new) ==
  /\ StatusRank(old.status) <= StatusRank(new.status)
  /\ old.state = "final" => new.state = "final"

(* An alarm moves from active to acknowledged to resolved. *)
LEMMA StatusOrder ==
  /\ StatusRank("active") = 0
  /\ StatusRank("acknowledged") = 1
  /\ StatusRank("resolved") = 2
BY DEF StatusRank

(* A record left alone loses nothing.                                      *)
LEMMA SurvivesItself ==
  ASSUME NEW record \in Record
  PROVE  Survives(record, record)
<1>1. record.status \in Status
  BY DEF Record
<1>2. StatusRank(record.status) \in 0 .. 2
  BY <1>1, StatusOrder DEF Status
<1> QED  BY <1>2 DEF Survives

(* What each step leaves of a record it neither evicts nor replaces by a   *)
(* new delivery.                                                           *)
LEMMA SurvivesStep ==
  ASSUME TypeOK, [Next]_vars, NEW id \in EventIds, board[id] # NoRecord, board'[id] # NoRecord,
         \A d \in unseen \ unseen' : IdOf[d] # id
  PROVE  Survives(board[id], board'[id])
<1>1. board[id] \in Record
  BY DEF TypeOK
<1>2. Survives(board[id], board[id])
  BY <1>1, SurvivesItself
<1>3. ASSUME NEW p \in Producers, NEW d \in Deliveries, AcceptFastPath(p, d) \/ AcceptForTriage(p, d)
      PROVE  Survives(board[id], board'[id])
  <2>1. IdOf[d] # id /\ IdOf[d] \in EventIds
    BY <1>3, DeliveriesAssumption DEF AcceptFastPath, AcceptForTriage
  <2>2. PICK record : Upsert(IdOf[d], record)
    BY <1>3 DEF AcceptFastPath, AcceptForTriage
  <2>3. board'[id] = board[id]
    BY <2>1, <2>2, UpsertBoard
  <2> QED  BY <1>2, <2>3
<1>4. ASSUME NEW w \in Workers, Settle(w)
      PROVE  Survives(board[id], board'[id])
  <2> DEFINE d == job[w]
  <2>1. IdOf[d] \in EventIds /\ Upsert(IdOf[d], WithTriage(Current(d)))
    BY <1>4, DeliveriesAssumption DEF Settle, Free, TypeOK
  <2>2. CASE IdOf[d] = id
    <3>1. Current(d) = board[id]
      BY <2>2 DEF Current, Retained
    <3>2. board'[id] = WithTriage(board[id])
      BY <2>1, <2>2, <3>1, UpsertBoard
    <3>3. board'[id].status = board[id].status /\ board'[id].state = "final"
      BY <1>1, <3>2 DEF WithTriage, Record
    <3> QED  BY <1>2, <3>3 DEF Survives
  <2>3. CASE IdOf[d] # id
    <3>1. board'[id] = board[id]
      BY <2>1, <2>3, UpsertBoard
    <3> QED  BY <1>2, <3>1
  <2> QED  BY <2>2, <2>3
<1>5. ASSUME NEW i \in EventIds, Acknowledge(i) \/ Resolve(i)
      PROVE  Survives(board[id], board'[id])
  <2>1. CASE i = id
    <3>1. \/ board[id].status = "active" /\ board'[id] = Acknowledged(board[id])
          \/ board'[id] = Resolved(board[id])
      BY <1>5, <2>1, UpsertBoard DEF Acknowledge, Resolve
    <3>2. /\ board'[id].state = board[id].state
          /\ \/ board[id].status = "active" /\ board'[id].status = "acknowledged"
             \/ board'[id].status = "resolved"
      BY <1>1, <3>1 DEF Acknowledged, Resolved, Record
    <3>3. board[id].status \in {"active", "acknowledged", "resolved"}
      BY <1>1 DEF Record, Status
    <3>4. StatusRank(board[id].status) <= StatusRank(board'[id].status)
      BY <3>2, <3>3, StatusOrder
    <3> QED  BY <3>2, <3>4 DEF Survives
  <2>2. CASE i # id
    <3>1. board'[id] = board[id]
      BY <1>5, <2>2, UpsertBoard DEF Acknowledge, Resolve
    <3> QED  BY <1>2, <3>1
  <2> QED  BY <2>1, <2>2
<1>6. ASSUME board' = board PROVE Survives(board[id], board'[id])
  BY <1>2, <1>6
<1>7. ASSUME NEW p \in Producers, PutRuns(p) \/ BackpressureTimeout(p)
      PROVE  Survives(board[id], board'[id])
  BY <1>6, <1>7 DEF PutRuns, BackpressureTimeout, storeVars
<1>8. ASSUME NEW w \in Workers, Get(w)
      PROVE  Survives(board[id], board'[id])
  BY <1>6, <1>8 DEF Get, storeVars
<1>9. CASE UNCHANGED vars
  BY <1>6, <1>9 DEF vars, storeVars
<1> QED  BY <1>3, <1>4, <1>5, <1>7, <1>8, <1>9 DEF Next

(* For any load: a verdict that lands late never undoes what the operator  *)
(* did, nor another final verdict, while the store retains the alarm.      *)
THEOREM OperatorHasTheLastWord == Spec => OperatorStateSurvives
<1>1. TypeOK => [\A id \in EventIds :
                   /\ Retained(id)
                   /\ Retained(id)'
                   /\ \A d \in unseen \ unseen' : IdOf[d] # id
                   => /\ StatusRank(board[id].status) <= StatusRank(board'[id].status)
                      /\ board[id].state = "final" => board'[id].state = "final"]_vars
      \/ ~[Next]_vars
  BY SurvivesStep DEF Survives, Retained
<1> QED  BY <1>1, TypeCorrect, PTL DEF Spec, OperatorStateSurvives

-----------------------------------------------------------------------------
(* The stages of AlarmLifecycle. *)

StageOf ==
  [d \in Deliveries |->
     IF d \in unseen THEN "unseen" ELSE IF d \in shed THEN "shed"
     ELSE IF d \in InFlight THEN "pending" ELSE "settled"]

(* One delivery changes stage, the others keep theirs. *)
LEMMA StageMoves ==
  ASSUME NEW d \in Deliveries, NEW to, StageOf'[d] = to,
         \A e \in Deliveries \ {d} : StageOf'[e] = StageOf[e]
  PROVE  StageOf' = [StageOf EXCEPT ![d] = to]
BY DEF StageOf

(* Each step takes a delivery one stage further, or none.                  *)
LEMMA LifecycleStep ==
  ASSUME Base, BoardInv, [Next]_vars
  PROVE  Lifecycle!Next \/ StageOf' = StageOf
<1>1. unseen \cap shed = {} /\ unseen \cap InFlight = {} /\ shed \cap InFlight = {}
  BY OneStage
<1>2. ASSUME NEW d \in Deliveries, IsReceived(d) PROVE Lifecycle!Next
  <2>1. StageOf[d] = "unseen" /\ StageOf'[d] = "pending"
    BY <1>1, <1>2 DEF StageOf, IsReceived
  <2>2. \A e \in Deliveries \ {d} : StageOf'[e] = StageOf[e]
    BY <1>2 DEF StageOf, IsReceived
  <2>3. StageOf' = [StageOf EXCEPT ![d] = "pending"] /\ d \notin FastPath
    BY <1>2, <2>1, <2>2, StageMoves DEF IsReceived
  <2>4. Lifecycle!Receive(d)
    BY <2>1, <2>3 DEF StageOf, Lifecycle!Receive, Lifecycle!Moves
  <2> QED  BY <2>4 DEF Lifecycle!Next
<1>3. ASSUME NEW d \in Deliveries, IsSettledAtOnce(d) PROVE Lifecycle!Next
  <2>1. StageOf[d] = "unseen" /\ StageOf'[d] = "settled"
    BY <1>1, <1>3 DEF StageOf, IsSettledAtOnce
  <2>2. \A e \in Deliveries \ {d} : StageOf'[e] = StageOf[e]
    BY <1>3 DEF StageOf, IsSettledAtOnce
  <2>3. StageOf' = [StageOf EXCEPT ![d] = "settled"] /\ d \in FastPath
    BY <1>3, <2>1, <2>2, StageMoves DEF IsSettledAtOnce
  <2>4. Lifecycle!SettleAtOnce(d)
    BY <2>1, <2>3 DEF StageOf, Lifecycle!SettleAtOnce, Lifecycle!Moves
  <2> QED  BY <2>4 DEF Lifecycle!Next
<1>4. ASSUME NEW d \in Deliveries, IsShed(d) PROVE Lifecycle!Next
  <2>1. StageOf[d] = "pending" /\ StageOf'[d] = "shed"
    BY <1>1, <1>4 DEF StageOf, IsShed
  <2>2. \A e \in Deliveries \ {d} : StageOf'[e] = StageOf[e]
    BY <1>4 DEF StageOf, IsShed
  <2>3. StageOf' = [StageOf EXCEPT ![d] = "shed"] /\ d \notin Criticals
    BY <1>4, <2>1, <2>2, StageMoves DEF IsShed
  <2>4. Lifecycle!Shed(d)
    BY <2>1, <2>3 DEF StageOf, Criticals, Lifecycle!Shed, Lifecycle!Moves
  <2> QED  BY <2>4 DEF Lifecycle!Next
<1>5. ASSUME NEW d \in Deliveries, IsSettled(d) PROVE Lifecycle!Next
  <2>1. StageOf[d] = "pending" /\ StageOf'[d] = "settled"
    BY <1>1, <1>5 DEF StageOf, IsSettled
  <2>2. \A e \in Deliveries \ {d} : StageOf'[e] = StageOf[e]
    BY <1>5 DEF StageOf, IsSettled
  <2>3. StageOf' = [StageOf EXCEPT ![d] = "settled"]
    BY <2>1, <2>2, StageMoves
  <2>4. Lifecycle!Settle(d)
    BY <2>1, <2>3 DEF StageOf, Lifecycle!Settle, Lifecycle!Moves
  <2> QED  BY <2>4 DEF Lifecycle!Next
<1>6. ASSUME NothingMoves PROVE StageOf' = StageOf
  BY <1>6 DEF StageOf, NothingMoves
<1> QED  BY <1>2, <1>3, <1>4, <1>5, <1>6, DeliveryStep

(* For any producers, workers, deliveries and capacities the pipeline      *)
(* implements the safety part of the lifecycle: an alarm is received,      *)
(* settled or shed, once and for good, and a critical one is never shed.   *)
THEOREM PipelineImplementsLifecycle == Spec => Lifecycle!Safety
<1>1. Init => Lifecycle!Init
  BY DEF Init, Lifecycle!Init
<1>2. Init => Base /\ BoardInv
  BY PlacesInit, BoardInit
<1>3. Base /\ BoardInv /\ [Next]_vars => Base' /\ BoardInv'
  BY OnePlaceStep, BoardStep
<1>4. Base /\ BoardInv /\ [Next]_vars => [Lifecycle!Next]_StageOf
  BY LifecycleStep
<1> QED  BY <1>1, <1>2, <1>3, <1>4, PTL DEF Spec, Lifecycle!Safety, StageOf

-----------------------------------------------------------------------------
(* The store: the order lists the retained alarms, each once.              *)

StoreInv == Distinct(order) /\ \A id \in EventIds : Retained(id) <=> id \in ToSet(order)

(* What is left of an order when one of its places is taken out. *)
LEMMA RemoveDistinct ==
  ASSUME NEW S, NEW s \in Seq(S), NEW i \in DOMAIN s, Distinct(s)
  PROVE  Distinct(RemoveAt(s, i)) /\ ToSet(RemoveAt(s, i)) = ToSet(s) \ {s[i]}
<1> DEFINE t == RemoveAt(s, i)
           n == Len(s)
<1>1. n \in Nat /\ DOMAIN s = 1 .. n /\ i \in 1 .. n
  BY LenProperties
<1>2. /\ t \in Seq(S) /\ Len(t) = n - 1
      /\ \A j \in 1 .. n - 1 : t[j] = IF j < i THEN s[j] ELSE s[j + 1]
  BY RemoveAtProperties
<1>3. DOMAIN t = 1 .. n - 1
  BY <1>2, LenProperties
<1> HIDE DEF t, n
<1>4. \A y : y \in ToSet(s) <=> \E j \in 1 .. n : s[j] = y
  BY ElementsOfSequence DEF n
<1>5. \A y : y \in ToSet(t) <=> \E j \in 1 .. n - 1 : t[j] = y
  BY <1>2, ElementsOfSequence
<1> DEFINE At(j) == IF j < i THEN j ELSE j + 1
<1>6. \A j \in 1 .. n - 1 : At(j) \in 1 .. n \ {i} /\ t[j] = s[At(j)]
  BY <1>1, <1>2
<1>7. \A j, k \in 1 .. n - 1 : At(j) = At(k) => j = k
  BY <1>1
<1>8. \A k \in 1 .. n \ {i} : \E j \in 1 .. n - 1 : At(j) = k
  <2> SUFFICES ASSUME NEW k \in 1 .. n, k # i PROVE \E j \in 1 .. n - 1 : At(j) = k
    OBVIOUS
  <2>1. CASE k < i
    <3>1. k \in 1 .. n - 1 /\ At(k) = k
      BY <1>1, <2>1
    <3> QED  BY <3>1
  <2>2. CASE k > i
    <3>1. k - 1 \in 1 .. n - 1 /\ At(k - 1) = k
      BY <1>1, <2>2
    <3> QED  BY <3>1
  <2> QED  BY <1>1, <2>1, <2>2
<1> HIDE DEF At
<1>9. Distinct(t)
  BY <1>1, <1>3, <1>6, <1>7 DEF Distinct
<1>10. ASSUME NEW y PROVE y \in ToSet(t) <=> y \in ToSet(s) \ {s[i]}
  <2>1. ASSUME y \in ToSet(t) PROVE y \in ToSet(s) \ {s[i]}
    <3>1. PICK j \in 1 .. n - 1 : t[j] = y
      BY <1>5, <2>1
    <3>2. At(j) \in 1 .. n /\ At(j) # i /\ s[At(j)] = y
      BY <1>6, <3>1
    <3>3. y # s[i]
      BY <1>1, <3>2 DEF Distinct
    <3> QED  BY <1>4, <3>2, <3>3
  <2>2. ASSUME y \in ToSet(s), y # s[i] PROVE y \in ToSet(t)
    <3>1. PICK k \in 1 .. n : s[k] = y
      BY <1>4, <2>2
    <3>2. k \in 1 .. n \ {i}
      BY <2>2, <3>1
    <3>3. PICK j \in 1 .. n - 1 : At(j) = k
      BY <1>8, <3>2
    <3> QED  BY <1>5, <1>6, <3>1, <3>3
  <2> QED  BY <2>1, <2>2
<1>11. ToSet(t) = ToSet(s) \ {s[i]}
  BY <1>10
<1> QED  BY <1>9, <1>11 DEF t

(* A sequence without repetitions has as many elements as places. *)
LEMMA DistinctLength ==
  ASSUME NEW S, NEW s \in Seq(S), Distinct(s)
  PROVE  IsFiniteSet(ToSet(s)) /\ Cardinality(ToSet(s)) = Len(s)
<1> DEFINE n == Len(s)
           f == [i \in 1 .. n |-> s[i]]
<1>1. n \in Nat /\ DOMAIN s = 1 .. n
  BY LenProperties
<1>2. \A y : y \in ToSet(s) <=> \E i \in 1 .. n : s[i] = y
  BY ElementsOfSequence
<1>3. \A i \in 1 .. n : f[i] = s[i]
  OBVIOUS
<1>4. \A i, j \in 1 .. n : s[i] = s[j] => i = j
  BY <1>1 DEF Distinct
<1>5. f \in [1 .. n -> ToSet(s)]
  BY <1>2
<1> HIDE DEF f, n
<1>6. f \in Injection(1 .. n, ToSet(s))
  BY <1>3, <1>4, <1>5 DEF Injection, IsInjective
<1>7. f \in Surjection(1 .. n, ToSet(s))
  BY <1>2, <1>3, <1>5 DEF Surjection
<1>8. ExistsBijection(1 .. n, ToSet(s))
  BY <1>6, <1>7 DEF ExistsBijection, Bijection
<1>9. IsFiniteSet(1 .. n) /\ Cardinality(1 .. n) = n
  <2>1. 1 \in Int /\ n \in Int
    BY <1>1
  <2>2. IsFiniteSet(1 .. n) /\ Cardinality(1 .. n) = IF 1 > n THEN 0 ELSE n - 1 + 1
    BY <2>1, FS_Interval
  <2> QED  BY <1>1, <2>2
<1> QED  BY <1>8, <1>9, FS_Bijection DEF n

(* x stands before y in s. *)
Before(s, x, y) == \E k, l \in DOMAIN s : k < l /\ s[k] = x /\ s[l] = y

(* Taking one out, putting one behind the others and dropping the first    *)
(* leave the others in their order.                                        *)
LEMMA RemoveKeepsOrder ==
  ASSUME NEW S, NEW s \in Seq(S), NEW i \in DOMAIN s, NEW x, NEW y, Before(RemoveAt(s, i), x, y)
  PROVE  Before(s, x, y)
<1> DEFINE t == RemoveAt(s, i)
           n == Len(s)
<1>1. n \in Nat /\ DOMAIN s = 1 .. n /\ i \in 1 .. n
  BY LenProperties
<1>2. /\ t \in Seq(S) /\ Len(t) = n - 1
      /\ \A j \in 1 .. n - 1 : t[j] = IF j < i THEN s[j] ELSE s[j + 1]
  BY RemoveAtProperties
<1>3. DOMAIN t = 1 .. n - 1
  BY <1>2, LenProperties
<1>4. PICK k, l \in DOMAIN t : k < l /\ t[k] = x /\ t[l] = y
  BY DEF Before
<1> HIDE DEF t, n
<1> DEFINE At(j) == IF j < i THEN j ELSE j + 1
<1>5. /\ At(k) \in 1 .. n /\ At(l) \in 1 .. n /\ At(k) < At(l)
      /\ s[At(k)] = x /\ s[At(l)] = y
  BY <1>1, <1>2, <1>3, <1>4
<1> HIDE DEF At
<1> QED  BY <1>1, <1>5 DEF Before

LEMMA AppendKeepsOrder ==
  ASSUME NEW S, NEW s \in Seq(S), NEW z \in S, NEW x, NEW y, y # z, Before(Append(s, z), x, y)
  PROVE  Before(s, x, y)
<1> DEFINE t == Append(s, z)
           n == Len(s)
<1>1. n \in Nat /\ DOMAIN s = 1 .. n
  BY LenProperties
<1>2. /\ t \in Seq(S) /\ Len(t) = n + 1 /\ t[n + 1] = z
      /\ \A i \in 1 .. n : t[i] = s[i]
  BY AppendProperties
<1>3. DOMAIN t = 1 .. n + 1
  BY <1>2, LenProperties
<1>4. PICK k, l \in DOMAIN t : k < l /\ t[k] = x /\ t[l] = y
  BY DEF Before
<1> HIDE DEF t, n
<1>5. k \in 1 .. n /\ l \in 1 .. n /\ s[k] = x /\ s[l] = y
  BY <1>1, <1>2, <1>3, <1>4
<1> QED  BY <1>1, <1>4, <1>5 DEF Before

LEMMA TailKeepsOrder ==
  ASSUME NEW S, NEW s \in Seq(S), s # <<>>, NEW x, NEW y, Before(Tail(s), x, y)
  PROVE  Before(s, x, y)
<1> DEFINE t == Tail(s)
           n == Len(s)
<1>1. n \in Nat /\ DOMAIN s = 1 .. n
  BY LenProperties
<1>2. t \in Seq(S) /\ Len(t) = n - 1 /\ \A i \in 1 .. n - 1 : t[i] = s[i + 1]
  BY HeadTailProperties
<1>3. DOMAIN t = 1 .. n - 1
  BY <1>2, LenProperties
<1>4. PICK k, l \in DOMAIN t : k < l /\ t[k] = x /\ t[l] = y
  BY DEF Before
<1> HIDE DEF t, n
<1>5. /\ k + 1 \in 1 .. n /\ l + 1 \in 1 .. n /\ k + 1 < l + 1
      /\ s[k + 1] = x /\ s[l + 1] = y
  BY <1>1, <1>2, <1>3, <1>4
<1> QED  BY <1>1, <1>5 DEF Before

LEMMA UpsertKeepsOrder ==
  ASSUME order \in Seq(EventIds), NEW id \in EventIds, NEW record, Upsert(id, record),
         NEW i \in EventIds \ {id}, NEW j \in EventIds \ {id}, Older(i, j)'
  PROVE  Older(i, j)
<1> DEFINE moved == MoveToEnd(order, id)
<1>1. moved \in Seq(EventIds) /\ (Before(moved, i, j) => Before(order, i, j))
  <2>1. CASE \E k \in DOMAIN order : order[k] = id
    <3> DEFINE k == CHOOSE k \in DOMAIN order : order[k] = id
               rest == RemoveAt(order, k)
    <3>1. k \in DOMAIN order
      BY <2>1
    <3>2. moved = Append(rest, id)
      BY <2>1 DEF MoveToEnd
    <3> HIDE DEF k
    <3>3. rest \in Seq(EventIds) /\ (Before(rest, i, j) => Before(order, i, j))
      BY <3>1, RemoveAtProperties, RemoveKeepsOrder
    <3> HIDE DEF rest
    <3> QED  BY <3>2, <3>3, AppendProperties, AppendKeepsOrder
  <2>2. CASE ~ \E k \in DOMAIN order : order[k] = id
    BY <2>2, AppendProperties, AppendKeepsOrder DEF MoveToEnd
  <2> QED  BY <2>1, <2>2
<1> HIDE DEF moved
<1>2. order' = IF Len(moved) > StoreCapacity THEN Tail(moved) ELSE moved
  BY DEF Upsert, Evict, moved
<1>3. Before(order', i, j)
  BY DEF Older, Before
<1>4. CASE Len(moved) > StoreCapacity
  <2>1. moved # <<>>
    BY <1>4, CapacityAssumption
  <2>2. Before(moved, i, j)
    BY <1>1, <1>2, <1>3, <1>4, <2>1, TailKeepsOrder
  <2> QED  BY <1>1, <2>2 DEF Older, Before
<1>5. CASE ~(Len(moved) > StoreCapacity)
  BY <1>1, <1>2, <1>3, <1>5 DEF Older, Before
<1> QED  BY <1>4, <1>5

(* The id that is written goes to the end, the others keep their order. *)
LEMMA MovedOrder ==
  ASSUME order \in Seq(EventIds), Distinct(order), NEW id \in EventIds
  PROVE  LET moved == MoveToEnd(order, id)
         IN /\ moved \in Seq(EventIds) /\ moved # <<>> /\ Distinct(moved)
            /\ ToSet(moved) = ToSet(order) \cup {id}
            /\ moved[Len(moved)] = id
            /\ id \in ToSet(order) => Len(moved) = Len(order)
            /\ id \notin ToSet(order) => /\ Len(moved) = Len(order) + 1
                                         /\ order # <<>> => Head(moved) = Head(order)
<1> DEFINE moved == MoveToEnd(order, id)
<1>1. /\ DOMAIN order = 1 .. Len(order) /\ Len(order) \in Nat
      /\ \A x : x \in ToSet(order) <=> \E i \in 1 .. Len(order) : order[i] = x
  BY LenProperties, ElementsOfSequence
<1>2. CASE id \in ToSet(order)
  <2> DEFINE i == CHOOSE i \in DOMAIN order : order[i] = id
             rest == RemoveAt(order, i)
  <2>1. i \in DOMAIN order /\ order[i] = id
    BY <1>1, <1>2
  <2>2. moved = Append(rest, id)
    BY <2>1 DEF MoveToEnd
  <2> HIDE DEF i
  <2>3. /\ rest \in Seq(EventIds) /\ Len(rest) = Len(order) - 1
        /\ Distinct(rest) /\ ToSet(rest) = ToSet(order) \ {id}
    BY <2>1, RemoveAtProperties, RemoveDistinct
  <2> HIDE DEF rest, moved
  <2>4. /\ Distinct(moved) /\ ToSet(moved) = ToSet(rest) \cup {id}
        /\ moved \in Seq(EventIds) /\ Len(moved) = Len(rest) + 1 /\ moved[Len(rest) + 1] = id
    BY <2>2, <2>3, AppendDistinct, AppendProperties
  <2>5. moved # <<>>
    BY <1>1, <2>3, <2>4, EmptySeq
  <2>6. Len(moved) = Len(order) /\ moved[Len(moved)] = id
    BY <1>1, <2>3, <2>4
  <2> QED  BY <1>2, <2>3, <2>4, <2>5, <2>6 DEF moved
<1>3. CASE id \notin ToSet(order)
  <2>1. moved = Append(order, id)
    BY <1>1, <1>3 DEF MoveToEnd
  <2> HIDE DEF moved
  <2>2. /\ Distinct(moved) /\ ToSet(moved) = ToSet(order) \cup {id}
        /\ moved \in Seq(EventIds) /\ Len(moved) = Len(order) + 1 /\ moved[Len(order) + 1] = id
        /\ \A j \in 1 .. Len(order) : moved[j] = order[j]
    BY <1>3, <2>1, AppendDistinct, AppendProperties
  <2>3. moved # <<>>
    BY <1>1, <2>2, EmptySeq
  <2>4. ASSUME order # <<>> PROVE Head(moved) = Head(order)
    <3>1. 1 \in 1 .. Len(order)
      BY <1>1, <2>4, EmptySeq
    <3> QED  BY <2>2, <2>3, <2>4, <3>1, HeadTailProperties
  <2> QED  BY <1>3, <2>2, <2>3, <2>4 DEF moved
<1> QED  BY <1>2, <1>3

LEMMA KeptLength ==
  ASSUME TypeOK, StoreInv
  PROVE  Cardinality(Kept) = Len(order)
<1>1. order \in Seq(EventIds)
  BY DEF TypeOK
<1>2. Kept = ToSet(order)
  BY <1>1, ElementsOfSequence DEF StoreInv, Kept
<1> QED  BY <1>1, <1>2, DistinctLength DEF StoreInv

LEMMA UpsertStore ==
  ASSUME TypeOK, StoreInv, NEW id \in EventIds, NEW record \in Record, Upsert(id, record)
  PROVE  StoreInv' /\ Writes(id)
<1> DEFINE moved == MoveToEnd(order, id)
<1>1. /\ order \in Seq(EventIds) /\ Len(order) \in Nat /\ Len(order) <= StoreCapacity
      /\ StoreCapacity \in Nat \ {0}
  BY LenProperties, CapacityAssumption DEF TypeOK
<1>2. /\ moved \in Seq(EventIds) /\ moved # <<>> /\ Distinct(moved)
      /\ ToSet(moved) = ToSet(order) \cup {id}
      /\ moved[Len(moved)] = id
      /\ id \in ToSet(order) => Len(moved) = Len(order)
      /\ id \notin ToSet(order) => /\ Len(moved) = Len(order) + 1
                                   /\ order # <<>> => Head(moved) = Head(order)
  BY <1>1, MovedOrder DEF StoreInv
<1>3. /\ order' = IF Len(moved) > StoreCapacity THEN Tail(moved) ELSE moved
      /\ \A i \in EventIds : board'[i] = IF i \notin ToSet(order') THEN NoRecord
                                         ELSE IF i = id THEN record ELSE board[i]
  BY DEF Upsert, Evict
<1>o. \A i, j \in EventIds \ {id} : Older(i, j)' => Older(i, j)
  BY <1>1, UpsertKeepsOrder
<1>4. /\ record # NoRecord
      /\ \A i \in EventIds : board[i] # NoRecord <=> i \in ToSet(order)
  BY NoRecordAssumption DEF StoreInv, Retained
<1> HIDE DEF moved
<1>5. CASE Len(moved) <= StoreCapacity
  <2>1. order' = moved
    BY <1>1, <1>2, <1>3, <1>5, LenProperties
  <2>2. ToSet(order') = ToSet(order) \cup {id} /\ Distinct(order)'
    BY <1>2, <2>1 DEF Distinct, ToSet
  <2>3. board'[id] = record /\ \A i \in EventIds \ {id} : board'[i] = board[i]
    BY <1>3, <1>4, <2>2
  <2>4. \A i \in EventIds : board'[i] # NoRecord <=> i \in ToSet(order')
    BY <1>4, <2>2, <2>3
  <2>5. StoreInv'
    BY <2>2, <2>4 DEF StoreInv, Retained, ToSet
  <2>6. Retained(id)' /\ order'[Len(order')] = id
    BY <1>2, <1>4, <2>1, <2>3 DEF Retained
  <2> QED  BY <1>o, <2>3, <2>5, <2>6 DEF Writes
<1>6. CASE ~(Len(moved) <= StoreCapacity)
  <2>0. Len(moved) \in Nat
    BY <1>2, LenProperties
  <2>1. id \notin ToSet(order) /\ Len(order) = StoreCapacity /\ Len(moved) = StoreCapacity + 1
    BY <1>1, <1>2, <1>6, <2>0
  <2>2. order # <<>>
    BY <1>1, <2>1, EmptySeq
  <2>3. order' = Tail(moved)
    BY <1>1, <1>3, <1>6, <2>0
  <2> DEFINE h == Head(order)
  <2>4. /\ Distinct(order') /\ ToSet(order') = (ToSet(order) \cup {id}) \ {h}
        /\ order' \in Seq(EventIds) /\ Len(order') = StoreCapacity
        /\ order'[StoreCapacity] = id
    <3>1. Head(moved) = h
      BY <1>2, <2>1, <2>2
    <3>2. Distinct(Tail(moved)) /\ ToSet(Tail(moved)) = ToSet(moved) \ {h}
      BY <1>2, <3>1, TailDistinct
    <3>3. /\ Tail(moved) \in Seq(EventIds) /\ Len(Tail(moved)) = Len(moved) - 1
          /\ \A i \in 1 .. Len(moved) - 1 : Tail(moved)[i] = moved[i + 1]
      BY <1>2, HeadTailProperties
    <3>4. Len(Tail(moved)) = StoreCapacity /\ StoreCapacity \in 1 .. Len(moved) - 1
      BY <1>1, <2>1, <3>3
    <3> QED  BY <1>2, <2>1, <2>3, <3>2, <3>3, <3>4
  <2>5. h \in ToSet(order) /\ h # id
    BY <1>1, <2>1, <2>2, TailDistinct DEF StoreInv
  <2> HIDE DEF h
  <2>6. /\ board'[id] = record
        /\ \A i \in EventIds \ {id} : board'[i] = IF i = h THEN NoRecord ELSE board[i]
    BY <1>3, <1>4, <2>4, <2>5
  <2>7. \A i \in EventIds : board'[i] # NoRecord <=> i \in ToSet(order')
    BY <1>4, <2>1, <2>4, <2>5, <2>6
  <2>8. StoreInv'
    BY <2>4, <2>7 DEF StoreInv, Retained, Distinct, ToSet
  <2>9. Retained(id)' /\ order'[Len(order')] = id
    BY <1>4, <2>4, <2>6 DEF Retained
  <2>10. ~Retained(id) /\ Cardinality(Kept) = StoreCapacity
    BY <1>4, <2>1, KeptLength DEF Retained
  <2> QED  BY <1>o, <2>6, <2>8, <2>9, <2>10 DEF Writes, h
<1> QED  BY <1>5, <1>6

(* Every step writes the store once, or not at all. *)
LEMMA StoreStep ==
  ASSUME TypeOK, QueueInv, StoreInv, [Next]_vars
  PROVE  StoreInv' /\ (UNCHANGED storeVars \/ \E id \in EventIds : Writes(id))
<1>s. ASSUME UNCHANGED storeVars
      PROVE  StoreInv' /\ (UNCHANGED storeVars \/ \E id \in EventIds : Writes(id))
  BY <1>s DEF storeVars, StoreInv, Retained, Distinct, ToSet
<1>u. ASSUME NEW id \in EventIds, NEW record \in Record, Upsert(id, record)
      PROVE  StoreInv' /\ (UNCHANGED storeVars \/ \E i \in EventIds : Writes(i))
  BY <1>u, UpsertStore
<1>1. ASSUME NEW p \in Producers, NEW d \in Deliveries, AcceptFastPath(p, d) \/ AcceptForTriage(p, d)
      PROVE  StoreInv' /\ (UNCHANGED storeVars \/ \E id \in EventIds : Writes(id))
  <2>1. IdOf[d] \in EventIds
    BY DeliveriesAssumption
  <2>2. PICK state \in {"preliminary", "final"} : Upsert(IdOf[d], NewRecord(d, state))
    BY <1>1 DEF AcceptFastPath, AcceptForTriage
  <2> QED  BY <1>u, <2>1, <2>2, RecordType
<1>2. ASSUME NEW p \in Producers, PutRuns(p) \/ BackpressureTimeout(p)
      PROVE  StoreInv' /\ (UNCHANGED storeVars \/ \E id \in EventIds : Writes(id))
  BY <1>2, <1>s DEF PutRuns, BackpressureTimeout
<1>3. ASSUME NEW w \in Workers, Get(w)
      PROVE  StoreInv' /\ (UNCHANGED storeVars \/ \E id \in EventIds : Writes(id))
  BY <1>3, <1>s DEF Get
<1>4. ASSUME NEW w \in Workers, Settle(w)
      PROVE  StoreInv' /\ (UNCHANGED storeVars \/ \E id \in EventIds : Writes(id))
  <2>1. job[w] \in Deliveries
    BY <1>4 DEF Settle, Free, TypeOK
  <2>2. IdOf[job[w]] \in EventIds /\ WithTriage(Current(job[w])) \in Record
    BY <2>1, DeliveriesAssumption, RecordType
  <2> QED  BY <1>4, <1>u, <2>2 DEF Settle
<1>5. ASSUME NEW id \in EventIds, Acknowledge(id) \/ Resolve(id)
      PROVE  StoreInv' /\ (UNCHANGED storeVars \/ \E i \in EventIds : Writes(i))
  <2>1. board[id] \in Record
    BY <1>5 DEF Acknowledge, Resolve, Retained, TypeOK
  <2>2. Acknowledged(board[id]) \in Record /\ Resolved(board[id]) \in Record
    BY <2>1 DEF Acknowledged, Resolved, Record, Status
  <2> QED  BY <1>5, <1>u, <2>2 DEF Acknowledge, Resolve
<1>6. CASE UNCHANGED vars
  BY <1>6, <1>s DEF vars
<1> QED  BY <1>1, <1>2, <1>3, <1>4, <1>5, <1>6 DEF Next

LEMMA StoreInit == Init => StoreInv
BY DEF Init, StoreInv, Retained, Distinct, ToSet

LEMMA StoreAlways == Spec => [](TypeOK /\ QueueInv /\ StoreInv)
<1>1. Init => TypeOK /\ QueueInv /\ StoreInv
  BY TypeInit, QueueInvInit, StoreInit
<1>2. TypeOK /\ QueueInv /\ StoreInv /\ [Next]_vars => (TypeOK /\ QueueInv /\ StoreInv)'
  BY TypeStep, QueueInvStep, StoreStep
<1> QED  BY <1>1, <1>2, PTL DEF Spec

(* The board never holds more than its capacity, whatever the load. *)
THEOREM BoardWithinCapacity == Spec => [](Cardinality(Kept) <= StoreCapacity)
<1>1. TypeOK /\ QueueInv /\ StoreInv => Cardinality(Kept) <= StoreCapacity
  BY KeptLength DEF TypeOK
<1> QED  BY <1>1, StoreAlways, PTL

(* For any capacity and load, the store gives up an alarm only to a new    *)
(* one when it is full, and then the one written longest ago.              *)
(* AlarmStream's Upsert assumes no less of the pipeline.                   *)
THEOREM OnlyTheOldestGoes == Spec => OldestMakesRoom
<1>1. TypeOK /\ QueueInv /\ StoreInv /\ [Next]_vars => [\E id \in EventIds : Writes(id)]_storeVars
  BY StoreStep
<1> QED  BY <1>1, StoreAlways, PTL DEF Spec, OldestMakesRoom

-----------------------------------------------------------------------------
(* No deadlock. *)

(* Some task has something to do: a put runs, a worker gets or settles. *)
Runnable ==
  \/ \E p \in Producers : pc[p] \in {"putting", "woken"}
  \/ queue # <<>> /\ \E w \in Workers : Free(w)
  \/ \E w \in Workers : ~Free(w)

(* With at least one worker the tasks never all wait for each other: while *)
(* an alarm is in flight one of them can run, with no timeout needed.      *)
THEOREM NeverStuck ==
  ASSUME Workers # {}
  PROVE  Spec => [](InFlight # {} => Runnable)
<1>1. TypeOK /\ QueueInv /\ WakeupsSuffice => (InFlight # {} => Runnable)
  <2> SUFFICES ASSUME TypeOK, QueueInv, WakeupsSuffice, InFlight # {}, ~Runnable
               PROVE  FALSE
    OBVIOUS
  <2>1. /\ \A w \in Workers : Free(w)
        /\ queue = <<>>
        /\ \A p \in Producers : pc[p] \notin {"putting", "woken"}
    BY DEF Runnable
  <2>2. ToSet(queue) = {} /\ Len(queue) = 0 /\ Busy = {} /\ Woken = {}
    BY <2>1 DEF ToSet, Busy, Woken
  <2>3. PICK p \in Submitting : TRUE
    BY <2>2 DEF InFlight
  <2>4. p \in Producers /\ pc[p] = "waiting"
    BY <2>1, <2>3 DEF Submitting, TypeOK
  <2>5. putters # <<>>
    BY <2>4 DEF QueueInv
  <2>6. QueueCapacity - 0 <= Cardinality(Woken)
    BY <2>2, <2>5 DEF WakeupsSuffice
  <2>7. Cardinality(Woken) = 0
    BY <2>2, FS_EmptySet
  <2> QED  BY <2>6, <2>7, CapacityAssumption
<1> QED  BY <1>1, TypeCorrect, QueueDiscipline, NoLostWakeup, PTL
=============================================================================
