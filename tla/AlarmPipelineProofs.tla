------------------------- MODULE AlarmPipelineProofs -------------------------
(***************************************************************************)
(* Theorems about AlarmPipeline for any set of producers, workers and      *)
(* deliveries and any capacities.                                          *)
(***************************************************************************)
EXTENDS AlarmPipeline, FiniteSetTheorems, SequenceTheorems, TLAPS

-----------------------------------------------------------------------------
(* Lemmas on the operators of the model. *)

(* What remains of a sequence without its i-th element. *)
LEMMA RemoveAtProperties ==
  ASSUME NEW S, NEW s \in Seq(S), NEW i \in DOMAIN s
  PROVE  /\ RemoveAt(s, i) \in Seq(S)
         /\ Len(RemoveAt(s, i)) = Len(s) - 1
         /\ \A j \in 1 .. Len(s) - 1 :
              RemoveAt(s, i)[j] = IF j < i THEN s[j] ELSE s[j+1]
<1>1. i \in 1 .. Len(s) /\ Len(s) \in Nat /\ \A j \in 1 .. Len(s) : s[j] \in S
  BY LenProperties, ElementOfSeq
<1> DEFINE l == SubSeq(s, 1, i-1)
           r == SubSeq(s, i+1, Len(s))
<1>2. /\ l \in Seq(S) /\ Len(l) = i - 1
      /\ \A j \in 1 .. i-1 : l[j] = s[j]
  <2>1. \A j \in 1 .. i-1 : s[j] \in S
    BY <1>1
  <2>2. /\ l \in Seq(S)
        /\ Len(l) = IF 1 <= i-1 THEN i-1-1+1 ELSE 0
        /\ \A j \in 1 .. i-1-1+1 : l[j] = s[1+j-1]
    BY <1>1, <2>1, SubSeqProperties
  <2> QED BY <1>1, <2>2
<1>3. /\ r \in Seq(S) /\ Len(r) = Len(s) - i
      /\ \A j \in 1 .. Len(s) - i : r[j] = s[i+j]
  <2>1. \A j \in i+1 .. Len(s) : s[j] \in S
    BY <1>1
  <2>2. /\ r \in Seq(S)
        /\ Len(r) = IF i+1 <= Len(s) THEN Len(s)-(i+1)+1 ELSE 0
        /\ \A j \in 1 .. Len(s)-(i+1)+1 : r[j] = s[(i+1)+j-1]
    BY <1>1, <2>1, SubSeqProperties
  <2> QED BY <1>1, <2>2
<1>4. /\ l \o r \in Seq(S)
      /\ Len(l \o r) = Len(l) + Len(r)
      /\ \A j \in 1 .. Len(l) + Len(r) :
           (l \o r)[j] = IF j <= Len(l) THEN l[j] ELSE r[j - Len(l)]
  BY <1>2, <1>3, ConcatProperties
<1>5. RemoveAt(s, i) = l \o r
  BY DEF RemoveAt
<1> HIDE DEF l, r
<1>6. Len(l \o r) = Len(s) - 1
  BY <1>1, <1>2, <1>3, <1>4
<1>7. ASSUME NEW j \in 1 .. Len(s) - 1
      PROVE  (l \o r)[j] = IF j < i THEN s[j] ELSE s[j+1]
  <2>1. j \in 1 .. Len(l) + Len(r)
    BY <1>1, <1>2, <1>3
  <2>2. CASE j < i
    BY <1>1, <1>2, <1>4, <2>1, <2>2
  <2>3. CASE ~(j < i)
    <3>1. j - Len(l) \in 1 .. Len(s) - i /\ i + (j - Len(l)) = j + 1
      BY <1>1, <1>2, <2>3
    <3>2. (l \o r)[j] = r[j - Len(l)]
      BY <1>1, <1>2, <1>4, <2>1, <2>3
    <3> QED BY <1>3, <2>3, <3>1, <3>2
  <2> QED BY <2>2, <2>3
<1> QED BY <1>4, <1>5, <1>6, <1>7

(* The store's order of ids stays a sequence of ids within the capacity. *)
LEMMA UpsertType ==
  ASSUME order \in Seq(EventIds), Len(order) <= StoreCapacity,
         board \in [EventIds -> Record \cup {NoRecord}],
         NEW id \in EventIds, NEW record \in Record, Upsert(id, record)
  PROVE  /\ order' \in Seq(EventIds) /\ Len(order') <= StoreCapacity
         /\ board' \in [EventIds -> Record \cup {NoRecord}]
<1> DEFINE moved == MoveToEnd(order, id)
<1>1. moved \in Seq(EventIds) /\ Len(moved) <= StoreCapacity + 1 /\ moved # <<>>
  <2>1. CASE \E i \in DOMAIN order : order[i] = id
    <3> DEFINE i == CHOOSE i \in DOMAIN order : order[i] = id
    <3>1. i \in DOMAIN order
      BY <2>1
    <3>2. RemoveAt(order, i) \in Seq(EventIds) /\ Len(RemoveAt(order, i)) = Len(order) - 1
      BY <3>1, RemoveAtProperties
    <3>3. moved = Append(RemoveAt(order, i), id)
      BY <2>1 DEF MoveToEnd
    <3> HIDE DEF i
    <3> QED BY <3>2, <3>3, AppendProperties, CapacityAssumption
  <2>2. CASE ~ \E i \in DOMAIN order : order[i] = id
    BY <2>2, AppendProperties, CapacityAssumption DEF MoveToEnd
  <2> QED BY <2>1, <2>2
<1> HIDE DEF moved
<1>2. order' = Evict(moved)
  BY DEF Upsert, moved
<1>3. order' \in Seq(EventIds) /\ Len(order') <= StoreCapacity
  BY <1>1, <1>2, HeadTailProperties, LenProperties, CapacityAssumption DEF Evict
<1> QED BY <1>3 DEF Upsert

(* Putting a delivery where there is room, and a producer to sleep. *)
LEMMA PutType ==
  ASSUME TypeOK
  PROVE  /\ \A d \in Deliveries :
              /\ Append(queue, d) \in Seq(Deliveries)
              /\ ~Full => Len(Append(queue, d)) <= QueueCapacity
         /\ \A p \in Producers : Append(putters, p) \in Seq(Producers)
<1>1. queue \in Seq(Deliveries) /\ putters \in Seq(Producers) /\ Len(queue) \in Nat
  BY LenProperties DEF TypeOK
<1>2. ASSUME NEW d \in Deliveries
      PROVE  Append(queue, d) \in Seq(Deliveries) /\ Len(Append(queue, d)) = Len(queue) + 1
  BY <1>1, AppendProperties
<1>3. ASSUME NEW p \in Producers
      PROVE  Append(putters, p) \in Seq(Producers)
  BY <1>1, AppendProperties
<1> QED BY <1>1, <1>2, <1>3, CapacityAssumption DEF Full

(* Counting leaves counters. *)
LEMMA CountedType ==
  ASSUME metrics \in [Counters -> Nat], NEW cs
  PROVE  Counted(cs) \in [Counters -> Nat]
BY DEF Counted

(* An evaluation is recorded behind those of its delivery. *)
LEMMA EvaluatedType ==
  ASSUME evaluations \in [Deliveries -> Seq(Deliveries)],
         NEW d \in Deliveries, NEW event \in Deliveries
  PROVE  Evaluated(d, event) \in [Deliveries -> Seq(Deliveries)]
<1>1. Append(evaluations[d], event) \in Seq(Deliveries)
  BY AppendProperties
<1> QED BY <1>1 DEF Evaluated

(* Waking a sleeping put leaves states and sleepers. *)
LEMMA WakeType ==
  ASSUME TypeOK
  PROVE  /\ WakeNext(pc) \in [Producers -> {"idle", "putting", "waiting", "woken"}]
         /\ PuttersAfterWake \in Seq(Producers)
BY HeadTailProperties, EmptySeq DEF TypeOK, WakeNext, PuttersAfterWake

(* So does cancelling one. *)
LEMMA WithdrawType ==
  ASSUME TypeOK, QueueInv, NEW p \in Producers
  PROVE  WithoutPutter(p) \in Seq(Producers)
<1>1. CASE pc[p] = "waiting"
  <2>1. (CHOOSE i \in DOMAIN putters : putters[i] = p) \in DOMAIN putters
    BY <1>1 DEF QueueInv
  <2> QED BY <1>1, <2>1, RemoveAtProperties DEF WithoutPutter, TypeOK
<1>2. CASE pc[p] # "waiting"
  BY <1>2 DEF WithoutPutter, TypeOK
<1> QED BY <1>1, <1>2

-----------------------------------------------------------------------------
(* Type correctness. *)

(* A new record is a record, whatever the delivery. *)
LEMMA RecordType ==
  /\ \A d \in Deliveries, state \in {"preliminary", "final"} : NewRecord(d, state) \in Record
  /\ TypeOK => \A d \in Deliveries : WithTriage(Current(d)) \in Record
<1>1. \A d \in Deliveries, state \in {"preliminary", "final"} : NewRecord(d, state) \in Record
  BY DEF NewRecord, Record, Status
<1>2. ASSUME TypeOK, NEW d \in Deliveries PROVE WithTriage(Current(d)) \in Record
  <2>1. IdOf[d] \in EventIds
    BY DeliveriesAssumption
  <2>2. Current(d) \in Record
    BY <1>1, <1>2, <2>1 DEF Current, Retained, TypeOK
  <2> QED BY <2>2 DEF WithTriage, Record
<1> QED BY <1>1, <1>2

LEMMA TypeInit == Init => TypeOK
BY DeliveriesAssumption, CapacityAssumption, EmptySeq DEF Init, TypeOK

LEMMA TypeStep ==
  ASSUME TypeOK, QueueInv, [Next]_vars
  PROVE  TypeOK'
<1> USE DEF TypeOK
<1>1. ASSUME NEW p \in Producers, NEW d \in Deliveries, AcceptFastPath(p, d)
      PROVE  TypeOK'
  <2>1. IdOf[d] \in EventIds /\ NewRecord(d, "final") \in Record
    BY RecordType, DeliveriesAssumption
  <2>2. /\ order' \in Seq(EventIds) /\ Len(order') <= StoreCapacity
        /\ board' \in [EventIds -> Record \cup {NoRecord}]
    BY <1>1, <2>1, UpsertType DEF AcceptFastPath
  <2>3. metrics' \in [Counters -> Nat]
    BY <1>1, CountedType DEF AcceptFastPath
  <2>4. evaluations' \in [Deliveries -> Seq(Deliveries)]
    BY <1>1, EvaluatedType DEF AcceptFastPath
  <2> QED BY <1>1, <2>2, <2>3, <2>4 DEF AcceptFastPath, queueVars
<1>2. ASSUME NEW p \in Producers, NEW d \in Deliveries, AcceptForTriage(p, d)
      PROVE  TypeOK'
  <2>1. IdOf[d] \in EventIds /\ NewRecord(d, "preliminary") \in Record
    BY RecordType, DeliveriesAssumption
  <2>2. /\ order' \in Seq(EventIds) /\ Len(order') <= StoreCapacity
        /\ board' \in [EventIds -> Record \cup {NoRecord}]
    BY <1>2, <2>1, UpsertType DEF AcceptForTriage
  <2>3. metrics' \in [Counters -> Nat]
    BY <1>2, CountedType DEF AcceptForTriage
  <2>4. queue' \in Seq(Deliveries) /\ Len(queue') <= QueueCapacity
    BY <1>2, PutType DEF AcceptForTriage, Submit
  <2>5. putters' \in Seq(Producers)
    BY <1>2, PutType DEF AcceptForTriage, Submit
  <2>6. /\ pc' \in [Producers -> {"idle", "putting", "waiting", "woken"}]
        /\ hand' \in [Producers -> Deliveries \cup {NoDelivery}]
    BY <1>2 DEF AcceptForTriage, Submit
  <2> QED BY <1>2, <2>2, <2>3, <2>4, <2>5, <2>6 DEF AcceptForTriage
<1>3. ASSUME NEW p \in Producers, PutRuns(p)
      PROVE  TypeOK'
  <2>1. hand[p] \in Deliveries
    BY <1>3 DEF PutRuns, QueueInv
  <2>2. queue' \in Seq(Deliveries) /\ Len(queue') <= QueueCapacity
    BY <1>3, <2>1, PutType DEF PutRuns
  <2>3. putters' \in Seq(Producers)
    BY <1>3, PutType DEF PutRuns
  <2> QED BY <1>3, <2>2, <2>3 DEF PutRuns, storeVars
<1>4. ASSUME NEW p \in Producers, BackpressureTimeout(p)
      PROVE  TypeOK'
  <2>1. hand[p] \in Deliveries
    BY <1>4 DEF BackpressureTimeout, QueueInv
  <2>2. /\ pc' \in [Producers -> {"idle", "putting", "waiting", "woken"}]
        /\ putters' \in Seq(Producers)
    BY <1>4, WakeType, WithdrawType DEF BackpressureTimeout
  <2>3. metrics' \in [Counters -> Nat]
    BY <1>4, CountedType DEF BackpressureTimeout
  <2> QED BY <1>4, <2>1, <2>2, <2>3 DEF BackpressureTimeout, storeVars
<1>5. ASSUME NEW w \in Workers, Get(w)
      PROVE  TypeOK'
  <2>1. /\ Head(queue) \in Deliveries
        /\ queue' \in Seq(Deliveries) /\ Len(queue') <= QueueCapacity
    BY <1>5, HeadTailProperties, LenProperties, CapacityAssumption DEF Get
  <2>2. /\ pc' \in [Producers -> {"idle", "putting", "waiting", "woken"}]
        /\ putters' \in Seq(Producers)
    BY <1>5, WakeType DEF Get
  <2>3. metrics' \in [Counters -> Nat]
    BY <1>5, CountedType DEF Get
  <2> QED BY <1>5, <2>1, <2>2, <2>3 DEF Get, storeVars
<1>6. ASSUME NEW w \in Workers, Settle(w)
      PROVE  TypeOK'
  <2>1. job[w] \in Deliveries
    BY <1>6 DEF Settle, Free
  <2>2. IdOf[job[w]] \in EventIds /\ WithTriage(Current(job[w])) \in Record
    BY <2>1, RecordType, DeliveriesAssumption
  <2>3. /\ order' \in Seq(EventIds) /\ Len(order') <= StoreCapacity
        /\ board' \in [EventIds -> Record \cup {NoRecord}]
    BY <1>6, <2>2, UpsertType DEF Settle
  <2>4. metrics' \in [Counters -> Nat]
    BY <1>6, CountedType DEF Settle
  <2>5. evaluations' \in [Deliveries -> Seq(Deliveries)]
    <3>1. WithTriage(Current(job[w])).source \in Deliveries
      BY <2>2 DEF Record
    <3> QED BY <1>6, <2>1, <3>1, EvaluatedType DEF Settle
  <2> QED BY <1>6, <2>3, <2>4, <2>5 DEF Settle, queueVars
<1>7. ASSUME NEW id \in EventIds, Acknowledge(id) \/ Resolve(id)
      PROVE  TypeOK'
  <2>1. board[id] \in Record
    BY <1>7 DEF Acknowledge, Resolve, Retained
  <2>2. Acknowledged(board[id]) \in Record /\ Resolved(board[id]) \in Record
    BY <2>1 DEF Record, Status, Acknowledged, Resolved
  <2>3. /\ order' \in Seq(EventIds) /\ Len(order') <= StoreCapacity
        /\ board' \in [EventIds -> Record \cup {NoRecord}]
    BY <1>7, <2>2, UpsertType DEF Acknowledge, Resolve
  <2> QED BY <1>7, <2>3 DEF Acknowledge, Resolve, queueVars
<1>8. CASE UNCHANGED vars
  BY <1>8 DEF vars, queueVars, storeVars
<1> QED BY <1>1, <1>2, <1>3, <1>4, <1>5, <1>6, <1>7, <1>8 DEF Next

-----------------------------------------------------------------------------
(* Who sleeps on the queue. *)

(* A wake-up takes the first sleeper out of putters. *)
LEMMA WakeKeepsSleepers ==
  ASSUME TypeOK, QueueInv
  PROVE  /\ \A i \in DOMAIN PuttersAfterWake :
              WakeNext(pc)[PuttersAfterWake[i]] = "waiting"
         /\ \A i, j \in DOMAIN PuttersAfterWake :
              PuttersAfterWake[i] = PuttersAfterWake[j] => i = j
         /\ \A p \in Producers : WakeNext(pc)[p] = "waiting" =>
              \E i \in DOMAIN PuttersAfterWake : PuttersAfterWake[i] = p
         /\ \A p \in Producers :
              /\ WakeNext(pc)[p] = "idle" <=> pc[p] = "idle"
              /\ pc[p] # "waiting" => WakeNext(pc)[p] = pc[p]
<1> USE DEF TypeOK, QueueInv
<1>1. CASE putters = <<>>
  BY <1>1 DEF WakeNext, PuttersAfterWake
<1>2. CASE putters # <<>>
  <2> DEFINE h == Head(putters)
             t == Tail(putters)
  <2>1. WakeNext(pc) = [pc EXCEPT ![h] = "woken"] /\ PuttersAfterWake = t
    BY <1>2 DEF WakeNext, PuttersAfterWake
  <2>2. /\ h = putters[1] /\ h \in Producers
        /\ t \in Seq(Producers) /\ Len(t) = Len(putters) - 1
        /\ \A i \in 1 .. Len(t) : t[i] = putters[i+1]
    BY <1>2, HeadTailProperties
  <2>3. /\ DOMAIN t = 1 .. Len(t) /\ DOMAIN putters = 1 .. Len(putters)
        /\ Len(putters) \in Nat \ {0} /\ \A i \in 1 .. Len(putters) : putters[i] \in Producers
    BY <1>2, <2>2, LenProperties, EmptySeq, ElementOfSeq
  <2> HIDE DEF h, t
  <2>4. ASSUME NEW i \in DOMAIN t
        PROVE  i+1 \in DOMAIN putters /\ t[i] = putters[i+1] /\ t[i] # h
    <3>1. i+1 \in DOMAIN putters /\ 1 \in DOMAIN putters /\ i+1 # 1 /\ t[i] = putters[i+1]
      BY <2>2, <2>3
    <3> QED BY <2>2, <3>1
  <2>5. \A i \in DOMAIN t : WakeNext(pc)[t[i]] = "waiting"
    BY <2>1, <2>2, <2>3, <2>4
  <2>6. \A i, j \in DOMAIN t : t[i] = t[j] => i = j
    BY <2>3, <2>4
  <2>7. ASSUME NEW p \in Producers, WakeNext(pc)[p] = "waiting"
        PROVE  \E i \in DOMAIN t : t[i] = p
    <3>1. pc[p] = "waiting" /\ p # h
      BY <2>1, <2>2, <2>7
    <3>2. PICK k \in DOMAIN putters : putters[k] = p
      BY <3>1
    <3>3. k # 1 /\ k-1 \in DOMAIN t
      BY <2>2, <2>3, <3>1, <3>2
    <3>4. t[k-1] = p
      BY <2>3, <2>4, <3>2, <3>3
    <3> QED BY <3>3, <3>4
  <2>8. \A p \in Producers :
          /\ WakeNext(pc)[p] = "idle" <=> pc[p] = "idle"
          /\ pc[p] # "waiting" => WakeNext(pc)[p] = pc[p]
    <3>1. pc[h] = "waiting"
      <4>1. 1 \in DOMAIN putters
        BY <2>3
      <4> QED BY <2>2, <4>1
    <3> QED BY <2>1, <2>2, <3>1
  <2> QED BY <2>1, <2>5, <2>6, <2>7, <2>8
<1> QED BY <1>1, <1>2

(* A producer that goes to sleep joins putters at the end. *)
LEMMA SleepKeepsQueueInv ==
  ASSUME TypeOK, QueueInv, NEW p \in Producers,
         pc[p] # "waiting",
         pc' = [pc EXCEPT ![p] = "waiting"],
         putters' = Append(putters, p),
         hand'[p] # NoDelivery, \A q \in Producers \ {p} : hand'[q] = hand[q]
  PROVE  QueueInv'
<1>0. /\ putters \in Seq(Producers)
      /\ pc \in [Producers -> {"idle", "putting", "waiting", "woken"}]
  BY DEF TypeOK
<1>a. /\ \A q \in Producers : hand[q] = NoDelivery <=> pc[q] = "idle"
      /\ \A i \in DOMAIN putters : pc[putters[i]] = "waiting"
      /\ \A i, j \in DOMAIN putters : putters[i] = putters[j] => i = j
      /\ \A q \in Producers : pc[q] = "waiting" => \E i \in DOMAIN putters : putters[i] = q
  BY DEF QueueInv
<1>1. /\ Len(putters) \in Nat /\ DOMAIN putters = 1 .. Len(putters)
      /\ \A i \in 1 .. Len(putters) : putters[i] \in Producers
  BY <1>0, LenProperties, ElementOfSeq
<1>2. /\ putters' \in Seq(Producers) /\ Len(putters') = Len(putters) + 1
      /\ \A i \in 1 .. Len(putters) : putters'[i] = putters[i]
      /\ putters'[Len(putters) + 1] = p
  BY <1>0, AppendProperties
<1>3. DOMAIN putters' = 1 .. Len(putters) + 1
  BY <1>2, LenProperties
<1>4. \A i \in 1 .. Len(putters) : putters[i] # p
  BY <1>1, <1>a
<1>5. \A i \in DOMAIN putters' : pc'[putters'[i]] = "waiting"
  BY <1>0, <1>1, <1>a, <1>2, <1>3, <1>4
<1>6. \A i, j \in DOMAIN putters' : putters'[i] = putters'[j] => i = j
  BY <1>1, <1>a, <1>2, <1>3, <1>4
<1>7. ASSUME NEW q \in Producers, pc'[q] = "waiting"
      PROVE  \E i \in DOMAIN putters' : putters'[i] = q
  <2>1. CASE q = p
    <3>1. Len(putters) + 1 \in DOMAIN putters'
      BY <1>1, <1>3
    <3> QED BY <1>2, <2>1, <3>1
  <2>2. CASE q # p
    <3>1. PICK i \in DOMAIN putters : putters[i] = q
      BY <1>0, <1>a, <1>7, <2>2
    <3>2. i \in DOMAIN putters' /\ putters'[i] = q
      BY <1>1, <1>2, <1>3, <3>1
    <3> QED BY <3>2
  <2> QED BY <2>1, <2>2
<1>8. \A q \in Producers : hand'[q] = NoDelivery <=> pc'[q] = "idle"
  BY <1>0, <1>a
<1> QED BY <1>5, <1>6, <1>7, <1>8 DEF QueueInv

(* A put that ends, without having slept or after its wake-up. *)
LEMMA LeaveKeepsQueueInv ==
  ASSUME TypeOK, QueueInv, NEW p \in Producers,
         pc[p] # "waiting", UNCHANGED putters,
         NEW s \in {"idle", "putting"}, pc' = [pc EXCEPT ![p] = s],
         hand'[p] = NoDelivery <=> s = "idle",
         \A q \in Producers \ {p} : hand'[q] = hand[q]
  PROVE  QueueInv'
<1> USE DEF TypeOK, QueueInv
<1>1. \A i \in DOMAIN putters : putters[i] \in Producers /\ putters[i] # p
  BY LenProperties, ElementOfSeq
<1> QED BY <1>1

(* A sleeping put that is cancelled. *)
LEMMA WithdrawKeepsQueueInv ==
  ASSUME TypeOK, QueueInv, NEW p \in Producers,
         pc[p] = "waiting",
         pc' = [pc EXCEPT ![p] = "idle"],
         putters' = WithoutPutter(p),
         hand' = [hand EXCEPT ![p] = NoDelivery]
  PROVE  QueueInv'
<1> USE DEF TypeOK, QueueInv
<1>1. PICK k \in DOMAIN putters : putters[k] = p /\ putters' = RemoveAt(putters, k)
  BY DEF WithoutPutter
<1>2. /\ Len(putters) \in Nat /\ DOMAIN putters = 1 .. Len(putters)
      /\ \A i \in 1 .. Len(putters) : putters[i] \in Producers
  BY LenProperties, ElementOfSeq
<1>3. /\ putters' \in Seq(Producers) /\ Len(putters') = Len(putters) - 1
      /\ \A j \in 1 .. Len(putters) - 1 :
           putters'[j] = IF j < k THEN putters[j] ELSE putters[j+1]
  <2>1. /\ RemoveAt(putters, k) \in Seq(Producers)
        /\ Len(RemoveAt(putters, k)) = Len(putters) - 1
        /\ \A j \in 1 .. Len(putters) - 1 :
             RemoveAt(putters, k)[j] = IF j < k THEN putters[j] ELSE putters[j+1]
    BY RemoveAtProperties
  <2> QED BY <1>1, <2>1
<1>4. DOMAIN putters' = 1 .. Len(putters) - 1
  BY <1>3, LenProperties
<1> DEFINE old(j) == IF j < k THEN j ELSE j+1
<1>5. \A j \in DOMAIN putters' :
        old(j) \in DOMAIN putters /\ old(j) # k /\ putters'[j] = putters[old(j)]
  BY <1>1, <1>2, <1>3, <1>4
<1>6. \A j \in DOMAIN putters' : pc'[putters'[j]] = "waiting"
  BY <1>1, <1>2, <1>5
<1>7. ASSUME NEW i \in DOMAIN putters', NEW j \in DOMAIN putters', putters'[i] = putters'[j]
      PROVE  i = j
  <2>1. old(i) = old(j)
    BY <1>5, <1>7
  <2> QED BY <1>1, <1>2, <1>4, <2>1
<1>8. ASSUME NEW q \in Producers, pc'[q] = "waiting"
      PROVE  \E j \in DOMAIN putters' : putters'[j] = q
  <2>1. PICK i \in DOMAIN putters : putters[i] = q
    BY <1>8
  <2>2. i # k
    BY <1>1, <1>8, <2>1
  <2>3. CASE i < k
    <3>1. i \in DOMAIN putters'
      BY <1>1, <1>2, <1>4, <2>3
    <3>2. putters'[i] = putters[i]
      BY <1>3, <1>4, <2>3, <3>1
    <3> QED BY <2>1, <3>1, <3>2
  <2>4. CASE k < i
    <3>1. i-1 \in DOMAIN putters' /\ ~(i-1 < k)
      BY <1>1, <1>2, <1>4, <2>4
    <3>2. putters'[i-1] = putters[i]
      BY <1>2, <1>3, <1>4, <3>1
    <3> QED BY <2>1, <3>1, <3>2
  <2> QED BY <1>1, <1>2, <2>2, <2>3, <2>4
<1>9. \A q \in Producers : hand'[q] = NoDelivery <=> pc'[q] = "idle"
  OBVIOUS
<1> HIDE DEF old
<1> QED BY <1>6, <1>7, <1>8, <1>9

LEMMA QueueInvInit == Init => QueueInv
BY DEF Init, QueueInv

LEMMA QueueInvStep ==
  ASSUME TypeOK, QueueInv, [Next]_vars
  PROVE  QueueInv'
<1>1. ASSUME NEW p \in Producers, NEW d \in Deliveries, AcceptFastPath(p, d)
      PROVE  QueueInv'
  BY <1>1 DEF AcceptFastPath, queueVars, QueueInv
<1>2. ASSUME NEW p \in Producers, NEW d \in Deliveries, AcceptForTriage(p, d)
      PROVE  QueueInv'
  <2>1. pc[p] = "idle" /\ d # NoDelivery
    BY <1>2, DeliveriesAssumption DEF AcceptForTriage
  <2>2. CASE UNCHANGED <<pc, hand, putters>>
    BY <2>2 DEF QueueInv
  <2>3. CASE /\ pc' = [pc EXCEPT ![p] = "waiting"]
             /\ putters' = Append(putters, p)
             /\ hand' = [hand EXCEPT ![p] = d]
    <3>1. hand'[p] # NoDelivery /\ \A q \in Producers \ {p} : hand'[q] = hand[q]
      BY <2>1, <2>3 DEF TypeOK
    <3> QED BY <2>1, <2>3, <3>1, SleepKeepsQueueInv
  <2>4. CASE /\ pc' = [pc EXCEPT ![p] = "putting"]
             /\ hand' = [hand EXCEPT ![p] = d]
             /\ UNCHANGED putters
    <3>1. hand'[p] # NoDelivery /\ \A q \in Producers \ {p} : hand'[q] = hand[q]
      BY <2>1, <2>4 DEF TypeOK
    <3> QED BY <2>1, <2>4, <3>1, LeaveKeepsQueueInv
  <2> QED BY <1>2, <2>2, <2>3, <2>4 DEF AcceptForTriage, Submit
<1>3. ASSUME NEW p \in Producers, PutRuns(p)
      PROVE  QueueInv'
  <2>1. pc[p] # "waiting" /\ pc[p] # "idle" /\ hand[p] # NoDelivery
    BY <1>3 DEF PutRuns, QueueInv
  <2>2. CASE Full
    BY <1>3, <2>1, <2>2, SleepKeepsQueueInv DEF PutRuns
  <2>3. CASE ~Full
    <3>1. hand'[p] = NoDelivery /\ \A q \in Producers \ {p} : hand'[q] = hand[q]
      BY <1>3, <2>3 DEF PutRuns, TypeOK
    <3> QED BY <1>3, <2>1, <2>3, <3>1, LeaveKeepsQueueInv DEF PutRuns
  <2> QED BY <2>2, <2>3
<1>4. ASSUME NEW p \in Producers, BackpressureTimeout(p)
      PROVE  QueueInv'
  <2>1. hand' = [hand EXCEPT ![p] = NoDelivery]
    BY <1>4 DEF BackpressureTimeout
  <2>2. CASE HandsOff(p)
    <3>1. /\ pc[p] = "woken"
          /\ pc' = [WakeNext(pc) EXCEPT ![p] = "idle"]
          /\ putters' = PuttersAfterWake
      BY <1>4, <2>2 DEF BackpressureTimeout, HandsOff
    <3>2. /\ WakeNext(pc) \in [Producers -> {"idle", "putting", "waiting", "woken"}]
          /\ putters' \in Seq(Producers)
      BY <3>1, WakeType
    <3>3. WakeNext(pc)[p] = "woken"
      BY <3>1, WakeKeepsSleepers
    <3>4. \A i \in DOMAIN putters' : putters'[i] \in Producers /\ putters'[i] # p
      <4>1. \A i \in DOMAIN putters' : WakeNext(pc)[putters'[i]] = "waiting"
        BY <3>1, WakeKeepsSleepers
      <4>2. \A i \in DOMAIN putters' : putters'[i] \in Producers
        BY <3>2, LenProperties, ElementOfSeq
      <4> QED BY <3>3, <4>1, <4>2
    <3>5. \A q \in Producers : hand'[q] = NoDelivery <=> pc'[q] = "idle"
      BY <2>1, <3>1, <3>2, WakeKeepsSleepers DEF TypeOK, QueueInv
    <3>6. \A i \in DOMAIN putters' : pc'[putters'[i]] = "waiting"
      BY <3>1, <3>2, <3>4, WakeKeepsSleepers
    <3>7. \A i, j \in DOMAIN putters' : putters'[i] = putters'[j] => i = j
      BY <3>1, WakeKeepsSleepers
    <3>8. \A q \in Producers : pc'[q] = "waiting" => \E i \in DOMAIN putters' : putters'[i] = q
      BY <3>1, <3>2, WakeKeepsSleepers
    <3> QED BY <3>5, <3>6, <3>7, <3>8 DEF QueueInv
  <2>3. CASE ~HandsOff(p) /\ pc[p] = "waiting"
    BY <1>4, <2>1, <2>3, WithdrawKeepsQueueInv DEF BackpressureTimeout
  <2>4. CASE ~HandsOff(p) /\ pc[p] # "waiting"
    <3>1. hand'[p] = NoDelivery /\ \A q \in Producers \ {p} : hand'[q] = hand[q]
      BY <2>1 DEF TypeOK
    <3>2. UNCHANGED putters /\ pc' = [pc EXCEPT ![p] = "idle"]
      BY <1>4, <2>4 DEF BackpressureTimeout, WithoutPutter
    <3> QED BY <2>4, <3>1, <3>2, LeaveKeepsQueueInv
  <2> QED BY <2>2, <2>3, <2>4
<1>5. ASSUME NEW w \in Workers, Get(w)
      PROVE  QueueInv'
  <2>1. UNCHANGED hand /\ pc' = WakeNext(pc) /\ putters' = PuttersAfterWake
    BY <1>5 DEF Get
  <2>2. \A p \in Producers : hand'[p] = NoDelivery <=> pc'[p] = "idle"
    BY <2>1, WakeKeepsSleepers DEF QueueInv
  <2> QED BY <2>1, <2>2, WakeKeepsSleepers DEF QueueInv
<1>6. ASSUME NEW w \in Workers, Settle(w)
      PROVE  QueueInv'
  BY <1>6 DEF Settle, queueVars, QueueInv
<1>7. ASSUME NEW id \in EventIds, Acknowledge(id) \/ Resolve(id)
      PROVE  QueueInv'
  BY <1>7 DEF Acknowledge, Resolve, queueVars, QueueInv
<1>8. CASE UNCHANGED vars
  BY <1>8 DEF vars, queueVars, QueueInv
<1> QED BY <1>1, <1>2, <1>3, <1>4, <1>5, <1>6, <1>7, <1>8 DEF Next

(* Every state is well typed. *)
THEOREM TypeCorrect == Spec => []TypeOK
<1>1. Init => TypeOK /\ QueueInv
  BY TypeInit, QueueInvInit
<1>2. TypeOK /\ QueueInv /\ [Next]_vars => TypeOK' /\ QueueInv'
  BY TypeStep, QueueInvStep
<1> QED BY <1>1, <1>2, PTL DEF Spec

(* Each sleeping producer is listed once in putters, and a producer holds  *)
(* a delivery exactly while it submits it.                                 *)
THEOREM QueueDiscipline == Spec => []QueueInv
<1>1. Init => TypeOK /\ QueueInv
  BY TypeInit, QueueInvInit
<1>2. TypeOK /\ QueueInv /\ [Next]_vars => TypeOK' /\ QueueInv'
  BY TypeStep, QueueInvStep
<1> QED BY <1>1, <1>2, PTL DEF Spec

-----------------------------------------------------------------------------
(* No room that nobody fills. *)

LEMMA ProducerSetsFinite ==
  /\ IsFiniteSet(Woken) /\ Cardinality(Woken) \in Nat
  /\ IsFiniteSet(Submitting) /\ Cardinality(Submitting) \in Nat
  /\ IsFiniteSet(Busy) /\ Cardinality(Busy) \in Nat
<1>1. Woken \subseteq Producers /\ Submitting \subseteq Producers /\ Busy \subseteq Workers
  BY DEF Woken, Submitting, Busy
<1> QED BY <1>1, TasksAssumption, FS_Subset, FS_CardinalityType

(* The wake-up moves the first sleeper, if any, to the woken. *)
LEMMA WakeAddsWoken ==
  ASSUME TypeOK, QueueInv, putters # <<>>
  PROVE  /\ Head(putters) \in Producers \ Woken
         /\ pc[Head(putters)] = "waiting"
         /\ WakeNext(pc) = [pc EXCEPT ![Head(putters)] = "woken"]
<1>1. Head(putters) = putters[1] /\ Head(putters) \in Producers
  BY HeadTailProperties DEF TypeOK
<1>2. 1 \in DOMAIN putters
  BY LenProperties, EmptySeq DEF TypeOK
<1>3. pc[Head(putters)] = "waiting"
  BY <1>1, <1>2 DEF QueueInv
<1> QED BY <1>1, <1>3 DEF Woken, WakeNext

LEMMA WakeupsInit == Init => WakeupsSuffice
BY DEF Init, WakeupsSuffice

LEMMA WakeupsStep ==
  ASSUME TypeOK, QueueInv, WakeupsSuffice, [Next]_vars
  PROVE  WakeupsSuffice'
<1> DEFINE n == Cardinality(Woken)
<1>0. /\ n \in Nat /\ IsFiniteSet(Woken)
      /\ Len(queue) \in Nat /\ QueueCapacity \in Nat
      /\ pc \in [Producers -> {"idle", "putting", "waiting", "woken"}]
  BY ProducerSetsFinite, LenProperties, CapacityAssumption DEF TypeOK
<1>s. ASSUME UNCHANGED queueVars PROVE WakeupsSuffice'
  BY <1>s DEF queueVars, WakeupsSuffice, Woken
<1>1. ASSUME NEW p \in Producers, NEW d \in Deliveries, AcceptFastPath(p, d)
      PROVE  WakeupsSuffice'
  BY <1>1, <1>s DEF AcceptFastPath
<1>2. ASSUME NEW p \in Producers, NEW d \in Deliveries, AcceptForTriage(p, d)
      PROVE  WakeupsSuffice'
  <2>1. Woken' = Woken
    BY <1>0, <1>2 DEF AcceptForTriage, Submit, Woken
  <2>2. CASE ~Full
    <3>1. Len(queue') = Len(queue) + 1 /\ putters' = putters
      BY <1>2, <2>2, AppendProperties DEF AcceptForTriage, Submit, TypeOK
    <3> QED BY <1>0, <2>1, <3>1 DEF WakeupsSuffice
  <2>3. CASE Full
    <3>1. queue' = queue /\ Len(queue) >= QueueCapacity
      BY <1>2, <2>3 DEF AcceptForTriage, Submit, Full
    <3> QED BY <1>0, <2>1, <3>1 DEF WakeupsSuffice
  <2> QED BY <2>2, <2>3
<1>3. ASSUME NEW p \in Producers, PutRuns(p)
      PROVE  WakeupsSuffice'
  <2>1. CASE Full
    <3>1. queue' = queue /\ Len(queue) >= QueueCapacity
      BY <1>3, <2>1 DEF PutRuns, Full
    <3>2. Cardinality(Woken') \in Nat
      <4>1. Woken' = Woken \ {p}
        BY <1>0, <1>3, <2>1 DEF PutRuns, Woken
      <4> QED BY <1>0, <4>1, FS_RemoveElement, FS_CardinalityType
    <3> QED BY <1>0, <3>1, <3>2 DEF WakeupsSuffice
  <2>2. CASE ~Full
    <3>1. /\ Len(queue') = Len(queue) + 1
          /\ putters' = putters
          /\ pc' = [pc EXCEPT ![p] = "idle"]
      <4>1. hand[p] \in Deliveries
        BY <1>3 DEF PutRuns, QueueInv, TypeOK
      <4> QED BY <1>3, <2>2, <4>1, AppendProperties DEF PutRuns, TypeOK
    <3>2. Woken' = Woken \ {p}
      BY <1>0, <3>1 DEF Woken
    <3>3. Cardinality(Woken') >= n - 1
      <4>1. Cardinality(Woken \ {p}) = IF p \in Woken THEN n - 1 ELSE n
        BY <1>0, FS_RemoveElement
      <4> QED BY <1>0, <3>2, <4>1
    <3>4. Cardinality(Woken') \in Nat
      BY <1>0, <3>2, FS_RemoveElement, FS_CardinalityType
    <3> QED BY <1>0, <3>1, <3>3, <3>4 DEF WakeupsSuffice
  <2> QED BY <2>1, <2>2
<1>4. ASSUME NEW p \in Producers, BackpressureTimeout(p)
      PROVE  WakeupsSuffice'
  <2>0. queue' = queue
    BY <1>4 DEF BackpressureTimeout
  <2>1. CASE HandsOff(p)
    <3>1. /\ pc[p] = "woken"
          /\ pc' = [WakeNext(pc) EXCEPT ![p] = "idle"]
          /\ putters' = PuttersAfterWake
      BY <1>4, <2>1 DEF BackpressureTimeout, HandsOff
    <3>2. CASE putters = <<>>
      BY <3>1, <3>2 DEF PuttersAfterWake, WakeupsSuffice
    <3>3. CASE putters # <<>>
      <4> DEFINE h == Head(putters)
      <4>1. h \in Producers \ Woken /\ h # p
        BY <3>1, <3>3, WakeAddsWoken
      <4>2. pc' = [[pc EXCEPT ![h] = "woken"] EXCEPT ![p] = "idle"]
        BY <3>1, <3>3, WakeAddsWoken
      <4>3. Woken' = (Woken \ {p}) \cup {h}
        BY <1>0, <4>1, <4>2 DEF Woken
      <4>4. p \in Woken /\ h \notin Woken \ {p}
        BY <3>1, <4>1 DEF Woken
      <4>5. IsFiniteSet(Woken \ {p}) /\ Cardinality(Woken \ {p}) = n - 1
        BY <1>0, <4>4, FS_RemoveElement
      <4>6. Cardinality(Woken') = n
        <5>1. Cardinality((Woken \ {p}) \cup {h}) = Cardinality(Woken \ {p}) + 1
          BY <4>4, <4>5, FS_AddElement
        <5> QED BY <1>0, <4>3, <4>5, <5>1
      <4> QED BY <2>0, <3>3, <4>6 DEF WakeupsSuffice
    <3> QED BY <3>2, <3>3
  <2>2. CASE ~HandsOff(p)
    <3>1. pc' = [pc EXCEPT ![p] = "idle"] /\ putters' = WithoutPutter(p)
      BY <1>4, <2>2 DEF BackpressureTimeout
    <3>2. putters = <<>> => putters' = <<>>
      <4>1. pc[p] = "waiting" => putters # <<>>
        BY DEF QueueInv
      <4> QED BY <3>1, <4>1 DEF WithoutPutter
    <3>3. CASE pc[p] = "woken"
      <4>1. Len(queue) >= QueueCapacity
        BY <2>2, <3>3 DEF HandsOff, Full
      <4>2. Woken' = Woken \ {p}
        BY <1>0, <3>1 DEF Woken
      <4>3. Cardinality(Woken') \in Nat
        BY <1>0, <4>2, FS_RemoveElement, FS_CardinalityType
      <4> QED BY <1>0, <2>0, <4>1, <4>3 DEF WakeupsSuffice
    <3>4. CASE pc[p] # "woken"
      <4>1. Woken' = Woken
        BY <1>0, <3>1, <3>4 DEF Woken
      <4> QED BY <2>0, <3>2, <4>1 DEF WakeupsSuffice
    <3> QED BY <3>3, <3>4
  <2> QED BY <2>1, <2>2
<1>5. ASSUME NEW w \in Workers, Get(w)
      PROVE  WakeupsSuffice'
  <2>1. /\ queue # <<>> /\ queue' = Tail(queue)
        /\ pc' = WakeNext(pc) /\ putters' = PuttersAfterWake
    BY <1>5 DEF Get
  <2>2. Len(queue') = Len(queue) - 1
    BY <2>1, HeadTailProperties DEF TypeOK
  <2>3. CASE putters = <<>>
    BY <2>1, <2>3 DEF PuttersAfterWake, WakeupsSuffice
  <2>4. CASE putters # <<>>
    <3> DEFINE h == Head(putters)
    <3>1. h \in Producers \ Woken /\ pc' = [pc EXCEPT ![h] = "woken"]
      BY <2>1, <2>4, WakeAddsWoken
    <3>2. Woken' = Woken \cup {h}
      BY <1>0, <3>1 DEF Woken
    <3>3. Cardinality(Woken') = n + 1
      BY <1>0, <3>1, <3>2, FS_AddElement
    <3> QED BY <1>0, <2>2, <2>4, <3>3 DEF WakeupsSuffice
  <2> QED BY <2>3, <2>4
<1>6. ASSUME NEW w \in Workers, Settle(w)
      PROVE  WakeupsSuffice'
  BY <1>6, <1>s DEF Settle
<1>7. ASSUME NEW id \in EventIds, Acknowledge(id) \/ Resolve(id)
      PROVE  WakeupsSuffice'
  BY <1>7, <1>s DEF Acknowledge, Resolve
<1>8. CASE UNCHANGED vars
  BY <1>8, <1>s DEF vars
<1> QED BY <1>1, <1>2, <1>3, <1>4, <1>5, <1>6, <1>7, <1>8 DEF Next

(* For any number of producers and any capacity: while producers sleep,    *)
(* every free slot of the queue has a woken producer on its way to it.     *)
THEOREM NoLostWakeup == Spec => []WakeupsSuffice
<1>1. Init => TypeOK /\ QueueInv /\ WakeupsSuffice
  BY TypeInit, QueueInvInit, WakeupsInit
<1>2. TypeOK /\ QueueInv /\ WakeupsSuffice /\ [Next]_vars
        => TypeOK' /\ QueueInv' /\ WakeupsSuffice'
  BY TypeStep, QueueInvStep, WakeupsStep
<1> QED BY <1>1, <1>2, PTL DEF Spec
=============================================================================
