-------------------------- MODULE AlarmStreamProofs --------------------------
(***************************************************************************)
(* Theorems about AlarmStream for any clients, alarms, capacities and      *)
(* buffer sizes, and any number of reconnections: what is on its way to a  *)
(* client is in order (OrderInv), it makes up for whatever its board lacks *)
(* (SyncInv), the board goes back only to be brought up again (ViewInv),   *)
(* and no tone is played twice (SoundInv).                                 *)
(***************************************************************************)
EXTENDS AlarmStream, SequenceTheorems, TLAPS

-----------------------------------------------------------------------------
(* Sequences. *)

(* The elements of a sequence are those at its places. *)
LEMMA ElementsOfSequence ==
  ASSUME NEW S, NEW s \in Seq(S)
  PROVE  /\ ToSet(s) \subseteq S
         /\ \A x : x \in ToSet(s) <=> \E i \in 1 .. Len(s) : s[i] = x
<1>1. DOMAIN s = 1 .. Len(s) /\ \A i \in 1 .. Len(s) : s[i] \in S
  BY LenProperties, ElementOfSeq
<1> QED  BY <1>1 DEF ToSet

(* A buffer to which a message is added. *)
LEMMA AppendedElements ==
  ASSUME NEW S, NEW s \in Seq(S), NEW x \in S
  PROVE  /\ Append(s, x) \in Seq(S) /\ Len(Append(s, x)) = Len(s) + 1
         /\ \A i \in 1 .. Len(s) : Append(s, x)[i] = s[i]
         /\ Append(s, x)[Len(s) + 1] = x
         /\ ToSet(Append(s, x)) = ToSet(s) \cup {x}
<1> DEFINE t == Append(s, x)
           n == Len(s)
<1>1. /\ n \in Nat /\ t \in Seq(S) /\ Len(t) = n + 1 /\ t[n + 1] = x
      /\ \A i \in 1 .. n : t[i] = s[i]
  BY AppendProperties, LenProperties
<1> HIDE DEF t, n
<1>2. \A y : y \in ToSet(s) <=> \E i \in 1 .. n : s[i] = y
  BY ElementsOfSequence DEF n
<1>3. \A y : y \in ToSet(t) <=> \E i \in 1 .. n + 1 : t[i] = y
  BY <1>1, ElementsOfSequence
<1>4. \A i \in 1 .. n + 1 : i \in 1 .. n \/ i = n + 1
  BY <1>1
<1>5. n + 1 \in 1 .. n + 1 /\ 1 .. n \subseteq 1 .. n + 1
  BY <1>1
<1>6. ToSet(t) = ToSet(s) \cup {x}
  BY <1>1, <1>2, <1>3, <1>4, <1>5
<1> QED  BY <1>1, <1>6 DEF t, n

(* A buffer from which the first message is taken. *)
LEMMA TakenElements ==
  ASSUME NEW S, NEW s \in Seq(S), s # <<>>
  PROVE  /\ Tail(s) \in Seq(S) /\ Len(Tail(s)) = Len(s) - 1 /\ Len(s) \in Nat \ {0}
         /\ Head(s) = s[1] /\ Head(s) \in S
         /\ \A i \in 1 .. Len(s) - 1 : Tail(s)[i] = s[i + 1]
         /\ ToSet(s) = {Head(s)} \cup ToSet(Tail(s))
<1> DEFINE t == Tail(s)
           n == Len(s)
           h == Head(s)
<1>1. /\ n \in Nat \ {0} /\ t \in Seq(S) /\ Len(t) = n - 1 /\ h = s[1] /\ h \in S
      /\ \A i \in 1 .. n - 1 : t[i] = s[i + 1]
  BY HeadTailProperties, EmptySeq
<1> HIDE DEF t, n, h
<1>2. \A y : y \in ToSet(s) <=> \E i \in 1 .. n : s[i] = y
  BY ElementsOfSequence DEF n
<1>3. \A y : y \in ToSet(t) <=> \E i \in 1 .. n - 1 : t[i] = y
  BY <1>1, ElementsOfSequence
<1>4. \A i \in 1 .. n : i = 1 \/ (i - 1 \in 1 .. n - 1 /\ (i - 1) + 1 = i)
  BY <1>1
<1>5. 1 \in 1 .. n /\ \A i \in 1 .. n - 1 : i + 1 \in 1 .. n
  BY <1>1
<1>6. ASSUME NEW y \in ToSet(s) PROVE y \in {h} \cup ToSet(t)
  <2>1. PICK i \in 1 .. n : s[i] = y
    BY <1>2
  <2> QED  BY <1>1, <1>3, <1>4, <2>1
<1>7. ASSUME NEW y \in {h} \cup ToSet(t) PROVE y \in ToSet(s)
  BY <1>1, <1>2, <1>3, <1>5
<1> QED  BY <1>1, <1>6, <1>7 DEF t, n, h

-----------------------------------------------------------------------------
(* Type correctness.  Only an alarm that can be critical is ever sent as   *)
(* one.                                                                    *)

FitUpdate  == {u \in Update : u.kind \in Kinds(u.id)}
FitMessage == {m \in Message : m.event = "alarm" => m.kind \in Kinds(m.id)}

TypeInv ==
  /\ store \in Alarms
  /\ kind \in [EventIds -> Kind] /\ \A id \in EventIds : kind[id] \in Kinds(id)
  /\ updates \in 0 .. MaxUpdates
  /\ connected \subseteq Clients
  /\ buffer \in [Clients -> Seq(FitUpdate)]
  /\ \A c \in Clients : Len(buffer[c]) <= SubscriberBuffer
  /\ lagged \subseteq connected
  /\ transit \in [Clients -> Seq(FitMessage)]
  /\ \A c \in Clients : Len(transit[c]) <= Transit
  /\ board \in [Clients -> Alarms]
  /\ replies \in [Clients -> SUBSET [id : EventIds, no : Number]]
  /\ drops \in 0 .. MaxDrops
  /\ gap \subseteq connected
  /\ overwritten \subseteq Clients
  /\ announced \in [Clients -> SUBSET MayBeCritical]
  /\ chirps \in [Clients -> [MayBeCritical -> 0 .. 2]]
  /\ silenced \in [Clients -> SUBSET MayBeCritical]
  /\ onLoad \in [Clients -> SUBSET SUBSET MayBeCritical]

LEMMA TypeInvIsTypeOK == TypeInv => TypeOK
<1> SUFFICES ASSUME TypeInv PROVE TypeOK
  OBVIOUS
<1>1. FitUpdate \subseteq Update /\ FitMessage \subseteq Message
  BY DEF FitUpdate, FitMessage
<1>2. /\ \A s \in Seq(FitUpdate) : s \in Seq(Update)
      /\ \A s \in Seq(FitMessage) : s \in Seq(Message)
  BY <1>1, SeqMonotonic
<1>3. buffer \in [Clients -> Seq(Update)] /\ transit \in [Clients -> Seq(Message)]
  BY <1>2 DEF TypeInv
<1> QED  BY <1>3 DEF TypeInv, TypeOK

LEMMA TypeInit == Init => TypeInv
<1> SUFFICES ASSUME Init PROVE TypeInv
  OBVIOUS
<1>1. /\ buffer \in [Clients -> Seq(FitUpdate)] /\ transit \in [Clients -> Seq(FitMessage)]
      /\ \A c \in Clients : Len(buffer[c]) = 0 /\ Len(transit[c]) = 0
  BY EmptySeq DEF Init
<1>2. Empty \in Alarms
  BY StreamAssumption DEF Empty, Alarms
<1> QED  BY <1>1, <1>2, StreamAssumption DEF Init, TypeInv, Kind, Kinds

(* The update that a step of the store publishes. *)
Published(id, become) == [id |-> id, no |-> updates + 1, kind |-> become]

(* What a subscriber's buffer becomes (AlarmStore._offer). *)
LEMMA OfferedBuffer ==
  ASSUME TypeInv, NEW c \in Clients, NEW u \in FitUpdate
  PROVE  /\ Offered(c, u) \in Seq(FitUpdate) /\ Len(Offered(c, u)) <= SubscriberBuffer
         /\ Len(Offered(c, u)) = IF Overflows(c) THEN Len(buffer[c]) ELSE Len(buffer[c]) + 1
         /\ Len(buffer[c]) \in Nat /\ Len(Offered(c, u)) \in Nat \ {0}
         /\ Offered(c, u)[Len(Offered(c, u))] = u
         /\ \A i \in 1 .. Len(Offered(c, u)) - 1 :
              Offered(c, u)[i] = IF Overflows(c) THEN buffer[c][i + 1] ELSE buffer[c][i]
         /\ ToSet(Offered(c, u)) \subseteq ToSet(buffer[c]) \cup {u}
         /\ ~Overflows(c) => ToSet(Offered(c, u)) = ToSet(buffer[c]) \cup {u}
<1> DEFINE b == buffer[c]
           n == Len(buffer[c])
<1>1. b \in Seq(FitUpdate) /\ n \in Nat /\ n <= SubscriberBuffer /\ SubscriberBuffer \in Nat \ {0}
  BY LenProperties, StreamAssumption DEF TypeInv
<1>2. CASE Overflows(c)
  <2>1. n = SubscriberBuffer /\ b # <<>>
    BY <1>1, <1>2, EmptySeq DEF Overflows
  <2> DEFINE t == Tail(b)
             o == Offered(c, u)
  <2>2. /\ t \in Seq(FitUpdate) /\ Len(t) = n - 1
        /\ \A i \in 1 .. n - 1 : t[i] = b[i + 1]
        /\ ToSet(t) \subseteq ToSet(b)
    BY <1>1, <2>1, TakenElements
  <2>3. o = Append(t, u)
    BY <1>2 DEF Offered
  <2> HIDE DEF t, o
  <2>4. /\ o \in Seq(FitUpdate) /\ Len(o) = Len(t) + 1
        /\ \A i \in 1 .. Len(t) : o[i] = t[i]
        /\ o[Len(t) + 1] = u
        /\ ToSet(o) = ToSet(t) \cup {u}
    BY <2>2, <2>3, AppendedElements
  <2>5. Len(t) + 1 = n
    BY <1>1, <2>2
  <2>6. \A i \in 1 .. n - 1 : o[i] = b[i + 1]
    BY <2>2, <2>4
  <2> QED  BY <1>1, <1>2, <2>1, <2>2, <2>4, <2>5, <2>6 DEF o
<1>3. CASE ~Overflows(c)
  <2>1. Offered(c, u) = Append(b, u) /\ n < SubscriberBuffer
    BY <1>1, <1>3 DEF Offered, Overflows
  <2>2. /\ Offered(c, u) \in Seq(FitUpdate) /\ Len(Offered(c, u)) = n + 1
        /\ \A i \in 1 .. n : Offered(c, u)[i] = b[i]
        /\ Offered(c, u)[n + 1] = u
        /\ ToSet(Offered(c, u)) = ToSet(b) \cup {u}
    BY <1>1, <2>1, AppendedElements
  <2> QED  BY <1>1, <1>3, <2>1, <2>2
<1> QED  BY <1>2, <1>3

(* An update of the store. *)
LEMMA UpsertType ==
  ASSUME TypeInv, NEW id \in EventIds, NEW become \in Kinds(id), Upsert(id, become)
  PROVE  /\ store' \in Alarms
         /\ kind' \in [EventIds -> Kind] /\ \A e \in EventIds : kind'[e] \in Kinds(e)
         /\ updates' \in 0 .. MaxUpdates /\ updates' = updates + 1 /\ updates' \in Number
         /\ Published(id, become) \in FitUpdate
         /\ buffer' = [c \in Clients |-> IF c \in connected THEN Offered(c, Published(id, become))
                                         ELSE buffer[c]]
         /\ buffer' \in [Clients -> Seq(FitUpdate)]
         /\ \A c \in Clients : Len(buffer'[c]) <= SubscriberBuffer
         /\ lagged' \subseteq connected /\ gap' \subseteq connected
         /\ store'[id] = updates + 1
         /\ \A e \in EventIds \ {id} : store'[e] = store[e] \/ store'[e] = 0
<1>1. /\ updates \in Nat /\ MaxUpdates \in Nat /\ updates < MaxUpdates
      /\ updates' = updates + 1
  BY StreamAssumption DEF Upsert, TypeInv
<1>2. updates' \in Number /\ updates' \in 0 .. MaxUpdates
  BY <1>1 DEF Number
<1>3. Kinds(id) \subseteq Kind /\ \A e \in EventIds : "calm" \in Kinds(e)
  BY DEF Kinds, Kind
<1>4. Published(id, become) \in FitUpdate
  BY <1>1, <1>2, <1>3 DEF Published, FitUpdate, Update
<1>5. PICK written : /\ written = [store EXCEPT ![id] = updates + 1]
                     /\ \/ store' = written
                        \/ \E gone \in Retained \ {id} : store' = [written EXCEPT ![gone] = 0]
  BY DEF Upsert, Stored
<1>a. /\ written \in Alarms /\ written[id] = updates + 1
      /\ \A e \in EventIds \ {id} : written[e] = store[e]
      /\ 0 \in 0 .. MaxUpdates
  BY <1>1, <1>5 DEF TypeInv, Alarms
<1>6. /\ store' \in Alarms /\ store'[id] = updates + 1
      /\ \A e \in EventIds \ {id} : store'[e] = store[e] \/ store'[e] = 0
  <2>1. CASE store' = written
    BY <1>a, <2>1
  <2>2. ASSUME NEW gone \in Retained \ {id}, store' = [written EXCEPT ![gone] = 0]
        PROVE  /\ store' \in Alarms /\ store'[id] = updates + 1
               /\ \A e \in EventIds \ {id} : store'[e] = store[e] \/ store'[e] = 0
    BY <1>a, <2>2 DEF Alarms, Retained
  <2> QED  BY <1>5, <2>1, <2>2
<1>7. kind' \in [EventIds -> Kind] /\ \A e \in EventIds : kind'[e] \in Kinds(e)
  BY <1>3 DEF Upsert, TypeInv
<1>8. buffer' = [c \in Clients |-> IF c \in connected THEN Offered(c, Published(id, become))
                                   ELSE buffer[c]]
  BY <1>1 DEF Upsert, Published
<1>9. ASSUME NEW c \in Clients
      PROVE  buffer'[c] \in Seq(FitUpdate) /\ Len(buffer'[c]) <= SubscriberBuffer
  BY <1>4, <1>8, OfferedBuffer DEF TypeInv
<1>10. buffer' \in [Clients -> Seq(FitUpdate)]
  BY <1>8, <1>9
<1>11. lagged' \subseteq connected /\ gap' \subseteq connected
  BY DEF Upsert, TypeInv
<1> QED  BY <1>1, <1>2, <1>4, <1>6, <1>7, <1>8, <1>9, <1>10, <1>11

(* What is in a message to the dashboard. *)
LEMMA MessageFields ==
  ASSUME NEW m \in FitMessage
  PROVE  /\ m.event \in {"alarm", "snapshot"} /\ m.no \in 0 .. MaxUpdates
         /\ m.event = "alarm" => m.id \in EventIds /\ m.no \in Number /\ m.kind \in Kinds(m.id)
         /\ m.event = "snapshot" => /\ m.alarms \in Alarms /\ m.critical \subseteq MayBeCritical
                                    /\ m.lagged = FALSE
<1>1. m \in Message /\ (m.event = "alarm" => m.kind \in Kinds(m.id))
  BY DEF FitMessage
<1>2. CASE m \in [event : {"alarm"}, id : EventIds, no : Number, kind : Kind, lagged : BOOLEAN]
  <2>1. m.event = "alarm" /\ m.id \in EventIds /\ m.no \in Number
    BY <1>2
  <2>2. m.no \in 0 .. MaxUpdates
    BY <2>1, StreamAssumption DEF Number
  <2> QED  BY <1>1, <2>1, <2>2
<1>3. CASE m \in [event : {"snapshot"}, alarms : Alarms, no : 0 .. MaxUpdates,
                  lagged : {FALSE}, critical : SUBSET MayBeCritical]
  <2>1. /\ m.event = "snapshot" /\ m.alarms \in Alarms /\ m.no \in 0 .. MaxUpdates
        /\ m.critical \in SUBSET MayBeCritical /\ m.lagged = FALSE
    BY <1>3
  <2> QED  BY <2>1
<1> QED  BY <1>1, <1>2, <1>3 DEF Message

(* The message that the pump makes of an update, and the snapshot. *)
PumpedMessage(u, lag) ==
  [event |-> "alarm", id |-> u.id, no |-> u.no, kind |-> u.kind, lagged |-> lag]

LEMMA SentFits ==
  /\ \A u \in FitUpdate, lag \in BOOLEAN : PumpedMessage(u, lag) \in FitMessage
  /\ TypeInv => Snapshot \in FitMessage
<1>1. ASSUME NEW u \in FitUpdate, NEW lag \in BOOLEAN PROVE PumpedMessage(u, lag) \in FitMessage
  <2>1. /\ u.id \in EventIds /\ u.no \in Number /\ u.kind \in Kind /\ u.kind \in Kinds(u.id)
    BY DEF FitUpdate, Update
  <2>2. PumpedMessage(u, lag) \in Message
    BY <2>1 DEF PumpedMessage, Message
  <2>3. PumpedMessage(u, lag).kind = u.kind /\ PumpedMessage(u, lag).id = u.id
    BY DEF PumpedMessage
  <2> QED  BY <2>1, <2>2, <2>3 DEF FitMessage
<1>2. ASSUME TypeInv PROVE Snapshot \in FitMessage
  <2>1. {id \in EventIds : kind[id] # "calm"} \in SUBSET MayBeCritical
    BY <1>2 DEF TypeInv, Kinds
  <2>2. Snapshot \in Message
    BY <1>2, <2>1 DEF Snapshot, Message, TypeInv
  <2>3. Snapshot.event = "snapshot"
    BY DEF Snapshot
  <2> QED  BY <2>2, <2>3 DEF FitMessage
<1> QED  BY <1>1, <1>2

(* What a client loses and keeps when the pump runs. *)
LEMMA PumpEffect ==
  ASSUME TypeInv, NEW c \in Clients, Pump(c)
  PROVE  /\ c \in connected /\ buffer[c] # <<>> /\ Head(buffer[c]) \in FitUpdate
         /\ Len(transit[c]) < Transit
         /\ buffer' = [buffer EXCEPT ![c] = Tail(buffer[c])]
         /\ transit' = [transit EXCEPT ![c] =
                          Append(transit[c], PumpedMessage(Head(buffer[c]), c \in lagged))]
         /\ PumpedMessage(Head(buffer[c]), c \in lagged) \in FitMessage
<1>1. /\ buffer[c] # <<>> /\ buffer[c] \in Seq(FitUpdate)
  BY DEF Pump, TypeInv
<1>2. Head(buffer[c]) \in FitUpdate
  BY <1>1, HeadTailProperties
<1>3. PumpedMessage(Head(buffer[c]), c \in lagged) \in FitMessage
  <2>1. (c \in lagged) \in BOOLEAN
    OBVIOUS
  <2> QED  BY <1>2, <2>1, SentFits, Zenon
<1> QED  BY <1>1, <1>2, <1>3 DEF Pump, Taken, PumpedMessage

(* The message the browser gets, and what the board and the sound do. *)
LEMMA ReceiveEffect ==
  ASSUME TypeInv, NEW c \in Clients, Receive(c)
  PROVE  /\ transit[c] # <<>> /\ transit[c] \in Seq(FitMessage) /\ Head(transit[c]) \in FitMessage
         /\ transit' = [transit EXCEPT ![c] = Tail(transit[c])]
         /\ UNCHANGED <<store, kind, updates, buffer, lagged, connected, replies, drops, gap>>
<1>1. transit[c] # <<>> /\ transit[c] \in Seq(FitMessage)
  BY DEF Receive, TypeInv
<1> QED  BY <1>1, HeadTailProperties DEF Receive, serverVars, storeVars

LEMMA TypeStep ==
  ASSUME TypeInv, [Next]_vars
  PROVE  TypeInv'
<1>0. /\ Transit \in Nat \ {0} /\ SubscriberBuffer \in Nat \ {0} /\ MaxUpdates \in Nat
      /\ MaxDrops \in Nat /\ drops \in Nat
  BY StreamAssumption DEF TypeInv
<1>1. ASSUME NEW id \in EventIds, Triage(id) PROVE TypeInv'
  <2>1. PICK become \in Kinds(id) : Upsert(id, become)
    BY <1>1 DEF Triage
  <2> QED  BY <1>1, <2>1, UpsertType DEF Triage, TypeInv, soundVars
<1>2. ASSUME NEW c \in Clients, NEW id \in EventIds, Operate(c, id) PROVE TypeInv'
  <2> DEFINE become == IF kind[id] = "alerting" THEN "handled" ELSE kind[id]
  <2>1. become \in Kinds(id)
    BY DEF TypeInv, Kinds
  <2>2. Upsert(id, become)
    BY <1>2 DEF Operate
  <2> HIDE DEF become
  <2>3. replies' = [replies EXCEPT ![c] = replies[c] \cup {[id |-> id, no |-> updates']}]
    BY <1>2 DEF Operate
  <2>4. updates' \in Number
    BY <2>1, <2>2, UpsertType
  <2>5. replies' \in [Clients -> SUBSET [id : EventIds, no : Number]]
    BY <2>3, <2>4 DEF TypeInv
  <2> QED  BY <1>2, <2>1, <2>2, <2>5, UpsertType DEF Operate, TypeInv, soundVars
<1>3. ASSUME NEW c \in Clients, Connect(c) PROVE TypeInv'
  <2>1. buffer' = [buffer EXCEPT ![c] = <<>>] /\ transit' = [transit EXCEPT ![c] = <<Snapshot>>]
    BY <1>3 DEF Connect
  <2>2. <<Snapshot>> \in Seq(FitMessage) /\ Len(<<Snapshot>>) = 1
    BY SentFits
  <2>3. <<>> \in Seq(FitUpdate) /\ Len(<<>>) = 0
    BY EmptySeq
  <2>4. /\ buffer' \in [Clients -> Seq(FitUpdate)] /\ transit' \in [Clients -> Seq(FitMessage)]
        /\ \A d \in Clients : Len(buffer'[d]) <= SubscriberBuffer /\ Len(transit'[d]) <= Transit
    BY <1>0, <2>1, <2>2, <2>3 DEF TypeInv
  <2> QED  BY <1>3, <2>4 DEF Connect, TypeInv, storeVars, soundVars
<1>4. ASSUME NEW c \in Clients, Pump(c) PROVE TypeInv'
  <2> DEFINE m == PumpedMessage(Head(buffer[c]), c \in lagged)
             b == Tail(buffer[c])
             t == Append(transit[c], m)
  <2>1. /\ buffer' = [buffer EXCEPT ![c] = b] /\ transit' = [transit EXCEPT ![c] = t]
        /\ m \in FitMessage /\ buffer[c] # <<>> /\ Len(transit[c]) < Transit
        /\ buffer[c] \in Seq(FitUpdate) /\ transit[c] \in Seq(FitMessage)
        /\ Len(buffer[c]) <= SubscriberBuffer
    BY <1>4, PumpEffect DEF TypeInv
  <2>2. b \in Seq(FitUpdate) /\ Len(b) = Len(buffer[c]) - 1 /\ Len(buffer[c]) \in Nat
    BY <2>1, TakenElements
  <2> HIDE DEF m
  <2>3. t \in Seq(FitMessage) /\ Len(t) = Len(transit[c]) + 1 /\ Len(transit[c]) \in Nat
    BY <2>1, AppendedElements, LenProperties
  <2> HIDE DEF b, t
  <2>4. Len(b) <= SubscriberBuffer /\ Len(t) <= Transit
    BY <1>0, <2>1, <2>2, <2>3
  <2>5. /\ buffer' \in [Clients -> Seq(FitUpdate)] /\ transit' \in [Clients -> Seq(FitMessage)]
        /\ \A d \in Clients : Len(buffer'[d]) <= SubscriberBuffer /\ Len(transit'[d]) <= Transit
    BY <2>1, <2>2, <2>3, <2>4 DEF TypeInv
  <2> QED  BY <1>4, <2>5 DEF Pump, TypeInv, storeVars, soundVars
<1>5. ASSUME NEW c \in Clients, Drop(c) PROVE TypeInv'
  <2>1. buffer' = [buffer EXCEPT ![c] = <<>>] /\ transit' = [transit EXCEPT ![c] = <<>>]
    BY <1>5 DEF Drop
  <2>2. <<>> \in Seq(FitUpdate) /\ <<>> \in Seq(FitMessage) /\ Len(<<>>) = 0
    BY EmptySeq
  <2>3. /\ buffer' \in [Clients -> Seq(FitUpdate)] /\ transit' \in [Clients -> Seq(FitMessage)]
        /\ \A d \in Clients : Len(buffer'[d]) <= SubscriberBuffer /\ Len(transit'[d]) <= Transit
    BY <1>0, <2>1, <2>2 DEF TypeInv
  <2>4. drops' \in 0 .. MaxDrops
    BY <1>0, <1>5 DEF Drop
  <2>5. connected' \subseteq Clients /\ lagged' \subseteq connected' /\ gap' \subseteq connected'
    BY <1>5 DEF Drop, Unsubscribed, TypeInv
  <2> QED  BY <1>5, <2>3, <2>4, <2>5 DEF Drop, TypeInv, storeVars, soundVars
<1>6. ASSUME NEW c \in Clients, Receive(c) PROVE TypeInv'
  <2> DEFINE m == Head(transit[c])
             t == Tail(transit[c])
  <2>1. /\ transit[c] # <<>> /\ transit[c] \in Seq(FitMessage) /\ m \in FitMessage
        /\ transit' = [transit EXCEPT ![c] = t]
        /\ UNCHANGED <<store, kind, updates, buffer, lagged, connected, replies, drops, gap>>
    BY <1>6, ReceiveEffect
  <2>2. t \in Seq(FitMessage) /\ Len(t) = Len(transit[c]) - 1 /\ Len(transit[c]) \in Nat
    BY <2>1, TakenElements
  <2> HIDE DEF t
  <2>3. transit' \in [Clients -> Seq(FitMessage)] /\ \A d \in Clients : Len(transit'[d]) <= Transit
    BY <1>0, <2>1, <2>2 DEF TypeInv
  <2>4. CASE ReceiveSnapshot(c)
    <3>1. m.event = "snapshot"
      BY <2>4 DEF ReceiveSnapshot
    <3>2. m.alarms \in Alarms /\ m.critical \subseteq MayBeCritical
      BY <2>1, <3>1, MessageFields
    <3>3. /\ board' = [board EXCEPT ![c] = m.alarms] /\ overwritten' = overwritten \ {c}
          /\ announced' = [announced EXCEPT ![c] = announced[c] \cup m.critical]
          /\ onLoad' = [onLoad EXCEPT ![c] = IF onLoad[c] = {} THEN {m.critical} ELSE onLoad[c]]
          /\ chirps' = chirps /\ silenced' = silenced
      BY <2>4 DEF ReceiveSnapshot, Seeded, SeededIds
    <3> HIDE DEF m
    <3>4. board' \in [Clients -> Alarms] /\ announced' \in [Clients -> SUBSET MayBeCritical]
      BY <3>2, <3>3 DEF TypeInv
    <3>5. onLoad' \in [Clients -> SUBSET SUBSET MayBeCritical]
      BY <3>2, <3>3 DEF TypeInv
    <3> QED  BY <2>1, <2>3, <3>3, <3>4, <3>5 DEF TypeInv
  <2>5. CASE ReceiveAlarm(c)
    <3>1. m.event = "alarm"
      BY <2>5 DEF ReceiveAlarm
    <3>2. m.id \in EventIds /\ m.no \in 0 .. MaxUpdates /\ m.kind \in Kinds(m.id)
      BY <2>1, <3>1, MessageFields
    <3>3. /\ board' = [board EXCEPT ![c][m.id] = m.no] /\ UNCHANGED <<overwritten, onLoad>>
          /\ \/ IsNewCritical(c, m) /\ Announce(c, m.id)
             \/ UNCHANGED <<announced, chirps, silenced>>
      BY <2>5 DEF ReceiveAlarm
    <3>4. IsNewCritical(c, m) => m.id \in MayBeCritical
      BY <3>2 DEF IsNewCritical, Kinds
    <3> HIDE DEF m
    <3>5. board' \in [Clients -> Alarms]
      BY <3>2, <3>3 DEF TypeInv, Alarms
    <3>6. /\ announced' \in [Clients -> SUBSET MayBeCritical]
          /\ chirps' \in [Clients -> [MayBeCritical -> 0 .. 2]]
          /\ silenced' \in [Clients -> SUBSET MayBeCritical]
      <4>1. CASE IsNewCritical(c, m) /\ Announce(c, m.id)
        <5>1. m.id \in MayBeCritical
          BY <3>4, <4>1
        <5>2. announced' \in [Clients -> SUBSET MayBeCritical]
          BY <4>1, <5>1 DEF Announce, TypeInv
        <5>3. chirps' \in [Clients -> [MayBeCritical -> 0 .. 2]]
          <6>1. CASE chirps' = [chirps EXCEPT ![c][m.id] = IF @ < 2 THEN @ + 1 ELSE @]
            <7>1. (IF chirps[c][m.id] < 2 THEN chirps[c][m.id] + 1 ELSE chirps[c][m.id]) \in 0 .. 2
              BY <5>1 DEF TypeInv
            <7> QED  BY <5>1, <6>1, <7>1 DEF TypeInv
          <6>2. CASE chirps' = chirps
            BY <6>2 DEF TypeInv
          <6> QED  BY <4>1, <6>1, <6>2 DEF Announce
        <5>4. silenced' \in [Clients -> SUBSET MayBeCritical]
          <6>1. CASE silenced' = [silenced EXCEPT ![c] = @ \cup {m.id}]
            BY <5>1, <6>1 DEF TypeInv
          <6>2. CASE silenced' = silenced
            BY <6>2 DEF TypeInv
          <6> QED  BY <4>1, <6>1, <6>2 DEF Announce
        <5> QED  BY <5>2, <5>3, <5>4
      <4>2. CASE UNCHANGED <<announced, chirps, silenced>>
        BY <4>2 DEF TypeInv
      <4> QED  BY <3>3, <4>1, <4>2
    <3> QED  BY <2>1, <2>3, <3>3, <3>5, <3>6 DEF TypeInv
  <2> QED  BY <1>6, <2>4, <2>5 DEF Receive
<1>7. ASSUME NEW c \in Clients, NEW reply \in replies[c], ApplyLocal(c, reply) PROVE TypeInv'
  <2>1. reply.id \in EventIds /\ reply.no \in 0 .. MaxUpdates
    BY <1>0 DEF TypeInv, Number
  <2>2. board' = [board EXCEPT ![c][reply.id] = reply.no]
    BY <1>7 DEF ApplyLocal
  <2>3. board' \in [Clients -> Alarms]
    BY <2>1, <2>2 DEF TypeInv, Alarms
  <2>4. overwritten' \subseteq Clients
    BY <1>7 DEF ApplyLocal, TypeInv
  <2>5. replies' \in [Clients -> SUBSET [id : EventIds, no : Number]]
    BY <1>7 DEF ApplyLocal, TypeInv
  <2> QED  BY <1>7, <2>3, <2>4, <2>5 DEF ApplyLocal, TypeInv, serverVars, storeVars, soundVars
<1>8. CASE UNCHANGED vars
  BY <1>8 DEF vars, serverVars, storeVars, soundVars, TypeInv
<1> QED  BY <1>1, <1>2, <1>3, <1>4, <1>5, <1>6, <1>7, <1>8 DEF Next

(* Every state is well typed: the buffers keep to their sizes.             *)
THEOREM TypeCorrect == Spec => []TypeOK
BY TypeInit, TypeStep, TypeInvIsTypeOK, PTL DEF Spec

-----------------------------------------------------------------------------
(* Order.  A buffer ends with the last update of the store and lacks none, *)
(* what is in transit is older and in order, and where one is missing the  *)
(* next carries the mark or will.  Only the first message is a snapshot.   *)

HeadSnap(c) == transit[c] # <<>> /\ transit[c][1].event = "snapshot"

BufferOrder(c) == \A i \in 1 .. Len(buffer[c]) : buffer[c][i].no = updates - Len(buffer[c]) + i

TransitOrder(c) ==
  /\ \A i \in 1 .. Len(transit[c]) : transit[c][i].no <= updates - Len(buffer[c])
  /\ \A i, j \in 1 .. Len(transit[c]) : i < j => transit[c][i].no < transit[c][j].no
  /\ \A i \in 1 .. Len(transit[c]) - 1 :
       transit[c][i + 1].no = transit[c][i].no + 1 \/ transit[c][i + 1].lagged
  /\ \A i \in 2 .. Len(transit[c]) : transit[c][i].event = "alarm"

Joined(c) ==
  Len(transit[c]) > 0 =>
    transit[c][Len(transit[c])].no = updates - Len(buffer[c]) \/ c \in lagged

Ordered(c) ==
  /\ BufferOrder(c) /\ TransitOrder(c) /\ Joined(c)
  /\ c \notin connected => buffer[c] = <<>> /\ transit[c] = <<>>

OrderInv == \A c \in Clients : Ordered(c)

(* The lengths and the numbers, as numbers. *)
LEMMA Numbers ==
  ASSUME TypeInv, NEW c \in Clients
  PROVE  /\ updates \in Nat
         /\ buffer[c] \in Seq(FitUpdate) /\ transit[c] \in Seq(FitMessage)
         /\ Len(buffer[c]) \in Nat /\ Len(transit[c]) \in Nat
         /\ \A i \in 1 .. Len(buffer[c]) : buffer[c][i] \in FitUpdate /\ buffer[c][i].no \in Nat
         /\ \A i \in 1 .. Len(transit[c]) : transit[c][i] \in FitMessage /\ transit[c][i].no \in Nat
<1>1. /\ buffer[c] \in Seq(FitUpdate) /\ transit[c] \in Seq(FitMessage)
      /\ Len(buffer[c]) \in Nat /\ Len(transit[c]) \in Nat
  BY LenProperties DEF TypeInv
<1>2. \A u \in FitUpdate : u.no \in Nat
  BY StreamAssumption DEF FitUpdate, Update, Number
<1>3. \A m \in FitMessage : m.no \in Nat
  <2>1. \A m \in FitMessage : m.no \in 0 .. MaxUpdates
    BY MessageFields
  <2> QED  BY <2>1, StreamAssumption
<1>4. /\ \A i \in 1 .. Len(buffer[c]) : buffer[c][i] \in FitUpdate
      /\ \A i \in 1 .. Len(transit[c]) : transit[c][i] \in FitMessage
  BY <1>1, ElementOfSeq
<1>5. updates \in Nat
  BY StreamAssumption DEF TypeInv
<1> QED  BY <1>1, <1>2, <1>3, <1>4, <1>5

(* A client that a step leaves alone. *)
LEMMA OrderKept ==
  ASSUME NEW d \in Clients, Ordered(d),
         buffer'[d] = buffer[d], transit'[d] = transit[d], updates' = updates,
         d \in lagged => d \in lagged', d \in connected => d \in connected'
  PROVE  Ordered(d)'
<1>1. BufferOrder(d)' /\ TransitOrder(d)'
  BY DEF Ordered, BufferOrder, TransitOrder
<1>2. Joined(d)'
  BY DEF Ordered, Joined
<1> QED  BY <1>1, <1>2 DEF Ordered

(* An update of the store joins every subscriber's buffer. *)
LEMMA OrderUpsert ==
  ASSUME TypeInv, OrderInv, NEW id \in EventIds, NEW become \in Kinds(id), Upsert(id, become),
         UNCHANGED <<transit, connected>>
  PROVE  OrderInv'
<1> DEFINE u == Published(id, become)
<1>0. /\ u \in FitUpdate /\ u.no = updates + 1 /\ updates' = updates + 1
      /\ buffer' = [c \in Clients |-> IF c \in connected THEN Offered(c, u) ELSE buffer[c]]
      /\ lagged' = lagged \cup {c \in connected : Overflows(c)}
  BY UpsertType DEF Published, Upsert
<1> HIDE DEF u
<1> SUFFICES ASSUME NEW c \in Clients PROVE Ordered(c)'
  BY DEF OrderInv
<1> DEFINE b == buffer[c]
           t == transit[c]
           n == Len(buffer[c])
           k == Len(transit[c])
<1>1. /\ updates \in Nat /\ n \in Nat /\ k \in Nat
      /\ \A i \in 1 .. n : b[i].no \in Nat
      /\ \A i \in 1 .. k : t[i].no \in Nat
  BY Numbers
<1>2. Ordered(c)
  BY DEF OrderInv
<1>3. CASE c \notin connected
  <2>1. buffer'[c] = <<>> /\ transit'[c] = <<>> /\ updates' \in Nat
    BY <1>0, <1>1, <1>2, <1>3 DEF Ordered
  <2>2. Len(buffer'[c]) = 0 /\ Len(transit'[c]) = 0
    BY <2>1
  <2>3. BufferOrder(c)' /\ TransitOrder(c)' /\ Joined(c)'
    BY <2>2 DEF BufferOrder, TransitOrder, Joined
  <2> QED  BY <2>1, <2>3 DEF Ordered
<1>4. CASE c \in connected
  <2> DEFINE o == Offered(c, u)
             l == Len(Offered(c, u))
  <2>1. buffer'[c] = o /\ transit'[c] = t
    BY <1>0, <1>4
  <2>2. /\ l = IF Overflows(c) THEN n ELSE n + 1
        /\ l \in Nat \ {0} /\ o[l] = u
        /\ \A i \in 1 .. l - 1 : o[i] = IF Overflows(c) THEN b[i + 1] ELSE b[i]
    BY <1>0, OfferedBuffer
  <2>3. \A i \in 1 .. n : b[i].no = updates - n + i
    BY <1>2 DEF Ordered, BufferOrder
  <2> HIDE DEF o, l, n, b
  <2>4. \A i \in 1 .. l : o[i].no = updates + 1 - l + i
    <3> SUFFICES ASSUME NEW i \in 1 .. l PROVE o[i].no = updates + 1 - l + i
      OBVIOUS
    <3>1. CASE i = l
      BY <1>0, <1>1, <2>2, <3>1
    <3>2. CASE i # l /\ Overflows(c)
      <4>1. i \in 1 .. l - 1 /\ i + 1 \in 1 .. n /\ o[i] = b[i + 1] /\ l = n
        BY <2>2, <3>2
      <4> QED  BY <1>1, <2>3, <4>1
    <3>3. CASE i # l /\ ~Overflows(c)
      <4>1. i \in 1 .. l - 1 /\ i \in 1 .. n /\ o[i] = b[i] /\ l = n + 1
        BY <1>1, <2>2, <3>3
      <4> QED  BY <1>1, <2>3, <4>1
    <3> QED  BY <3>1, <3>2, <3>3
  <2>b. updates' = updates + 1 /\ Len(buffer'[c]) = l /\ Len(transit'[c]) = k
    BY <1>0, <2>1 DEF l, o
  <2>t. updates \in Nat /\ l \in Nat /\ k \in Nat
    BY <1>1, <2>2
  <2> HIDE DEF k, t
  <2>5. BufferOrder(c)'
    BY <2>1, <2>4, <2>b, <2>t DEF BufferOrder
  <2>6. updates - n <= updates + 1 - l /\ (~Overflows(c) => updates - n = updates + 1 - l)
    BY <1>1, <2>2
  <2>7. /\ \A i \in 1 .. k : t[i].no <= updates - n
        /\ \A i, j \in 1 .. k : i < j => t[i].no < t[j].no
        /\ \A i \in 1 .. k - 1 : t[i + 1].no = t[i].no + 1 \/ t[i + 1].lagged
        /\ \A i \in 2 .. k : t[i].event = "alarm"
        /\ k > 0 => t[k].no = updates - n \/ c \in lagged
    BY <1>2 DEF Ordered, TransitOrder, Joined, n, k, t
  <2>8. \A i \in 1 .. k : t[i].no <= updates + 1 - l
    <3> SUFFICES ASSUME NEW i \in 1 .. k PROVE t[i].no <= updates + 1 - l
      OBVIOUS
    <3>1. t[i].no <= updates - n /\ t[i].no \in Nat
      BY <1>1, <2>7
    <3> QED  BY <1>1, <2>2, <2>6, <3>1
  <2>9. TransitOrder(c)'
    BY <2>1, <2>7, <2>8, <2>b, <2>t DEF TransitOrder
  <2>10. k > 0 => t[k].no = updates + 1 - l \/ c \in lagged'
    BY <1>0, <1>4, <2>6, <2>7
  <2>11. Joined(c)'
    BY <2>1, <2>10, <2>b, <2>t DEF Joined
  <2> QED  BY <1>4, <2>5, <2>9, <2>11 DEF Ordered
<1> QED  BY <1>3, <1>4

(* The pump moves the oldest update from the buffer to the transit. *)
LEMMA OrderPump ==
  ASSUME TypeInv, OrderInv, NEW c \in Clients, Pump(c)
  PROVE  OrderInv'
<1> DEFINE b == buffer[c]
           t == transit[c]
           n == Len(buffer[c])
           k == Len(transit[c])
           h == Head(buffer[c])
           m == PumpedMessage(h, c \in lagged)
           b2 == Tail(b)
           t2 == Append(t, m)
<1>1. /\ buffer' = [buffer EXCEPT ![c] = b2] /\ transit' = [transit EXCEPT ![c] = t2]
      /\ m \in FitMessage /\ b # <<>> /\ c \in connected
      /\ lagged' = lagged \ {c} /\ updates' = updates /\ connected' = connected
  BY PumpEffect DEF Pump, storeVars
<1>2. /\ updates \in Nat /\ n \in Nat /\ k \in Nat /\ b \in Seq(FitUpdate) /\ t \in Seq(FitMessage)
      /\ \A i \in 1 .. n : b[i].no \in Nat
      /\ \A i \in 1 .. k : t[i].no \in Nat
  BY Numbers
<1>3. /\ Len(b2) = n - 1 /\ n \in Nat \ {0} /\ h = b[1]
      /\ \A i \in 1 .. n - 1 : b2[i] = b[i + 1]
  BY <1>1, <1>2, TakenElements
<1>4. m.event = "alarm" /\ m.no = h.no /\ m.lagged = (c \in lagged)
  BY DEF PumpedMessage
<1> HIDE DEF m, h
<1>5. Len(t2) = k + 1 /\ t2[k + 1] = m /\ \A i \in 1 .. k : t2[i] = t[i]
  BY <1>1, <1>2, AppendedElements
<1>6. Ordered(c)
  BY DEF OrderInv
<1>7. /\ buffer'[c] = b2 /\ transit'[c] = t2
      /\ \A d \in Clients \ {c} : buffer'[d] = buffer[d] /\ transit'[d] = transit[d]
  BY <1>1 DEF TypeInv
<1> HIDE DEF b2, t2
<1>8. ASSUME NEW d \in Clients \ {c} PROVE Ordered(d)'
  BY <1>1, <1>7, OrderKept DEF OrderInv
<1>9. \A i \in 1 .. n : b[i].no = updates - n + i
  BY <1>6 DEF Ordered, BufferOrder
<1>10. m.no = updates - (n - 1)
  <2>1. b[1].no = updates - n + 1
    BY <1>3, <1>9
  <2> QED  BY <1>2, <1>3, <1>4, <2>1
<1>11. BufferOrder(c)'
  <2>1. \A i \in 1 .. n - 1 : b2[i].no = updates - (n - 1) + i
    <3> SUFFICES ASSUME NEW i \in 1 .. n - 1 PROVE b2[i].no = updates - (n - 1) + i
      OBVIOUS
    <3>1. i + 1 \in 1 .. n /\ b2[i] = b[i + 1]
      BY <1>3
    <3>2. b2[i].no = updates - n + (i + 1)
      BY <1>9, <3>1
    <3> QED  BY <1>2, <3>2
  <2> QED  BY <1>1, <1>3, <1>7, <2>1 DEF BufferOrder
<1>12. /\ \A i \in 1 .. k : t[i].no <= updates - n
       /\ \A i, j \in 1 .. k : i < j => t[i].no < t[j].no
       /\ \A i \in 1 .. k - 1 : t[i + 1].no = t[i].no + 1 \/ t[i + 1].lagged
       /\ \A i \in 2 .. k : t[i].event = "alarm"
       /\ k > 0 => t[k].no = updates - n \/ c \in lagged
  BY <1>6 DEF Ordered, TransitOrder, Joined
<1> HIDE DEF n, k, b, t
<1>13. \A i \in 1 .. k : t[i].no < m.no
  BY <1>2, <1>3, <1>10, <1>12
<1>14. /\ \A i \in 1 .. k + 1 : t2[i].no <= updates - (n - 1)
       /\ \A i, j \in 1 .. k + 1 : i < j => t2[i].no < t2[j].no
       /\ \A i \in 2 .. k + 1 : t2[i].event = "alarm"
  <2>1. \A i \in 1 .. k + 1 : i \in 1 .. k \/ i = k + 1
    BY <1>2
  <2>2. m.no \in Nat
    BY <1>2, <1>3, <1>10, <1>13, <1>9, <1>4
  <2>3. \A i \in 1 .. k + 1 : t2[i].no <= updates - (n - 1)
    <3> SUFFICES ASSUME NEW i \in 1 .. k + 1 PROVE t2[i].no <= updates - (n - 1)
      OBVIOUS
    <3>1. CASE i = k + 1
      BY <1>2, <1>5, <1>10, <2>2, <3>1
    <3>2. CASE i \in 1 .. k
      <4>1. t2[i].no = t[i].no /\ t[i].no <= updates - n /\ t[i].no \in Nat
        BY <1>2, <1>5, <1>12, <3>2
      <4> QED  BY <1>2, <1>3, <4>1
    <3> QED  BY <2>1, <3>1, <3>2
  <2>4. \A i, j \in 1 .. k + 1 : i < j => t2[i].no < t2[j].no
    <3> SUFFICES ASSUME NEW i \in 1 .. k + 1, NEW j \in 1 .. k + 1, i < j
                 PROVE  t2[i].no < t2[j].no
      OBVIOUS
    <3>1. i \in 1 .. k /\ t2[i] = t[i]
      BY <1>2, <1>5
    <3> QED  BY <1>5, <1>12, <1>13, <2>1, <3>1
  <2>5. \A i \in 2 .. k + 1 : t2[i].event = "alarm"
    <3> SUFFICES ASSUME NEW i \in 2 .. k + 1 PROVE t2[i].event = "alarm"
      OBVIOUS
    <3>1. i = k + 1 \/ (i \in 2 .. k /\ i \in 1 .. k)
      BY <1>2
    <3> QED  BY <1>4, <1>5, <1>12, <3>1
  <2> QED  BY <2>3, <2>4, <2>5
<1>15. \A i \in 1 .. k : t2[i + 1].no = t2[i].no + 1 \/ t2[i + 1].lagged
  <2> SUFFICES ASSUME NEW i \in 1 .. k
               PROVE  t2[i + 1].no = t2[i].no + 1 \/ t2[i + 1].lagged
    OBVIOUS
  <2>1. CASE i = k
    <3>1. t2[i] = t[k] /\ t2[i + 1] = m /\ k > 0
      BY <1>2, <1>5, <2>1
    <3>2. t[k].no = updates - n \/ c \in lagged
      BY <1>12, <3>1
    <3>3. CASE t[k].no = updates - n
      BY <1>2, <1>3, <1>10, <3>1, <3>3
    <3>4. CASE c \in lagged
      BY <1>4, <3>1, <3>4
    <3> QED  BY <3>2, <3>3, <3>4
  <2>2. CASE i # k
    <3>1. i \in 1 .. k - 1 /\ i + 1 \in 1 .. k
      BY <1>2, <2>2
    <3>2. t2[i] = t[i] /\ t2[i + 1] = t[i + 1]
      BY <1>5, <3>1
    <3> QED  BY <1>12, <3>1, <3>2, Zenon
  <2> QED  BY <2>1, <2>2
<1>16. TransitOrder(c)' /\ Joined(c)'
  <2>1. Len(buffer'[c]) = n - 1 /\ Len(transit'[c]) = k + 1
    BY <1>3, <1>5, <1>7
  <2>2. TransitOrder(c)'
    <3>1. (k + 1) - 1 = k
      BY <1>2
    <3> QED  BY <1>1, <1>7, <1>14, <1>15, <2>1, <3>1 DEF TransitOrder
  <2>3. t2[k + 1].no = updates - (n - 1)
    BY <1>5, <1>10
  <2> QED  BY <1>1, <1>7, <2>1, <2>2, <2>3 DEF Joined
<1>17. Ordered(c)'
  BY <1>1, <1>11, <1>16 DEF Ordered
<1> QED  BY <1>8, <1>17 DEF OrderInv

(* The browser takes the oldest message. *)
LEMMA OrderReceive ==
  ASSUME TypeInv, OrderInv, NEW c \in Clients, Receive(c)
  PROVE  OrderInv' /\ ~HeadSnap(c)'
<1> DEFINE t == transit[c]
           k == Len(transit[c])
           t2 == Tail(transit[c])
<1>1. /\ transit' = [transit EXCEPT ![c] = t2] /\ t # <<>> /\ t \in Seq(FitMessage)
      /\ buffer' = buffer /\ updates' = updates /\ lagged' = lagged /\ connected' = connected
  BY ReceiveEffect
<1>2. k \in Nat \ {0} /\ Len(t2) = k - 1 /\ \A i \in 1 .. k - 1 : t2[i] = t[i + 1]
  BY <1>1, TakenElements
<1>3. /\ transit'[c] = t2 /\ buffer'[c] = buffer[c]
      /\ \A d \in Clients \ {c} : buffer'[d] = buffer[d] /\ transit'[d] = transit[d]
  BY <1>1 DEF TypeInv
<1>4. ASSUME NEW d \in Clients \ {c} PROVE Ordered(d)'
  BY <1>1, <1>3, OrderKept DEF OrderInv
<1>5. Ordered(c)
  BY DEF OrderInv
<1> DEFINE l == updates - Len(buffer[c])
<1>6. /\ \A i \in 1 .. k : t[i].no <= l
      /\ \A i, j \in 1 .. k : i < j => t[i].no < t[j].no
      /\ \A i \in 1 .. k - 1 : t[i + 1].no = t[i].no + 1 \/ t[i + 1].lagged
      /\ \A i \in 2 .. k : t[i].event = "alarm"
      /\ k > 0 => t[k].no = l \/ c \in lagged
  BY <1>5 DEF Ordered, TransitOrder, Joined
<1> HIDE DEF t2, t, k, l
<1>7. \A i \in 1 .. k - 1 : i + 1 \in 1 .. k /\ i + 1 \in 2 .. k
  BY <1>2
<1>8. /\ \A i \in 1 .. k - 1 : t2[i].no <= l
      /\ \A i, j \in 1 .. k - 1 : i < j => t2[i].no < t2[j].no
  BY <1>2, <1>6, <1>7
<1>9. \A i \in 1 .. k - 1 : t2[i].event = "alarm"
  BY <1>2, <1>6, <1>7
<1>10. \A i \in 1 .. (k - 1) - 1 : t2[i + 1].no = t2[i].no + 1 \/ t2[i + 1].lagged
  <2> SUFFICES ASSUME NEW i \in 1 .. (k - 1) - 1
               PROVE  t2[i + 1].no = t2[i].no + 1 \/ t2[i + 1].lagged
    OBVIOUS
  <2>1. i \in 1 .. k - 1 /\ i + 1 \in 1 .. k - 1
    BY <1>2
  <2>2. t2[i] = t[i + 1] /\ t2[i + 1] = t[(i + 1) + 1]
    BY <1>2, <2>1
  <2> QED  BY <1>6, <2>1, <2>2, Zenon
<1>11. k - 1 > 0 => t2[k - 1].no = l \/ c \in lagged
  <2>1. ASSUME k - 1 > 0 PROVE t2[k - 1] = t[k] /\ k > 0
    BY <1>2, <2>1
  <2> QED  BY <1>6, <2>1
<1>12. TransitOrder(c)'
  <2>1. \A i \in 2 .. k - 1 : i \in 1 .. k - 1
    BY <1>2
  <2> QED  BY <1>1, <1>2, <1>3, <1>8, <1>9, <1>10, <2>1 DEF TransitOrder, l
<1>13. Joined(c)'
  BY <1>1, <1>2, <1>3, <1>11 DEF Joined, l
<1>14. BufferOrder(c)'
  BY <1>1, <1>5 DEF Ordered, BufferOrder
<1>15. c \in connected
  BY <1>1, <1>5 DEF Ordered, t
<1>16. Ordered(c)'
  BY <1>1, <1>12, <1>13, <1>14, <1>15 DEF Ordered
<1>17. ~HeadSnap(c)'
  <2> SUFFICES ASSUME t2 # <<>> PROVE t2[1].event # "snapshot"
    BY <1>3 DEF HeadSnap
  <2>1. t2 \in Seq(FitMessage)
    BY <1>1, TakenElements DEF t2, t
  <2>2. Len(t2) # 0
    BY <2>1, EmptySeq
  <2>3. 1 \in 1 .. k - 1
    BY <1>2, <2>2
  <2> QED  BY <1>9, <2>3
<1> QED  BY <1>4, <1>16, <1>17 DEF OrderInv

(* Every step keeps the order. *)
LEMMA OrderStep ==
  ASSUME TypeInv, OrderInv, [Next]_vars
  PROVE  OrderInv'
<1>1. ASSUME NEW id \in EventIds, Triage(id) PROVE OrderInv'
  BY <1>1, OrderUpsert DEF Triage
<1>2. ASSUME NEW c \in Clients, NEW id \in EventIds, Operate(c, id) PROVE OrderInv'
  <2>1. (IF kind[id] = "alerting" THEN "handled" ELSE kind[id]) \in Kinds(id)
    BY DEF TypeInv, Kinds
  <2> QED  BY <1>2, <2>1, OrderUpsert DEF Operate
<1>3. ASSUME NEW c \in Clients, Connect(c) PROVE OrderInv'
  <2>1. /\ buffer'[c] = <<>> /\ transit'[c] = <<Snapshot>> /\ updates' = updates
        /\ \A d \in Clients \ {c} : buffer'[d] = buffer[d] /\ transit'[d] = transit[d]
        /\ lagged' = lagged /\ connected' = connected \cup {c}
    BY <1>3 DEF Connect, TypeInv, storeVars
  <2>2. Snapshot.no = updates' /\ updates' \in Nat
    BY <2>1, Numbers DEF Snapshot
  <2>3. Ordered(c)'
    <3>1. c \in connected' /\ Len(buffer'[c]) = 0 /\ Len(transit'[c]) = 1
      BY <2>1
    <3>2. transit'[c][1].no = updates'
      BY <2>1, <2>2
    <3>3. BufferOrder(c)'
      BY <3>1 DEF BufferOrder
    <3>4. TransitOrder(c)'
      <4>1. \A i : i \in 1 .. 1 <=> i = 1
        OBVIOUS
      <4>2. \A i : i \notin 1 .. 1 - 1 /\ i \notin 2 .. 1
        OBVIOUS
      <4>3. transit'[c][1].no <= updates' - 0
        <5>1. updates <= updates - 0
          BY Numbers
        <5> QED  BY <2>1, <3>2, <5>1
      <4> QED  BY <3>1, <4>1, <4>2, <4>3 DEF TransitOrder
    <3>5. Joined(c)'
      <4>1. transit'[c][1].no = updates' - 0
        BY <2>2, <3>2
      <4> QED  BY <3>1, <4>1 DEF Joined
    <3> QED  BY <3>1, <3>3, <3>4, <3>5 DEF Ordered
  <2>4. ASSUME NEW d \in Clients \ {c} PROVE Ordered(d)'
    BY <2>1, OrderKept DEF OrderInv
  <2> QED  BY <2>3, <2>4 DEF OrderInv
<1>4. ASSUME NEW c \in Clients, Pump(c) PROVE OrderInv'
  BY <1>4, OrderPump
<1>5. ASSUME NEW c \in Clients, Drop(c) PROVE OrderInv'
  <2>1. /\ buffer'[c] = <<>> /\ transit'[c] = <<>> /\ updates' = updates /\ updates' \in Nat
        /\ \A d \in Clients \ {c} : buffer'[d] = buffer[d] /\ transit'[d] = transit[d]
        /\ lagged' = lagged \ {c} /\ connected' = connected \ {c}
    BY <1>5, Numbers DEF Drop, Unsubscribed, TypeInv, storeVars
  <2>2. Ordered(c)'
    <3>1. Len(buffer'[c]) = 0 /\ Len(transit'[c]) = 0
      BY <2>1
    <3> QED  BY <2>1, <3>1 DEF Ordered, BufferOrder, TransitOrder, Joined
  <2>3. ASSUME NEW d \in Clients \ {c} PROVE Ordered(d)'
    BY <2>1, OrderKept DEF OrderInv
  <2> QED  BY <2>2, <2>3 DEF OrderInv
<1>6. ASSUME NEW c \in Clients, Receive(c) PROVE OrderInv'
  BY <1>6, OrderReceive
<1>7. ASSUME NEW c \in Clients, NEW reply \in replies[c], ApplyLocal(c, reply) PROVE OrderInv'
  <2>1. UNCHANGED <<buffer, transit, updates, lagged, connected>>
    BY <1>7 DEF ApplyLocal, serverVars, storeVars
  <2> QED  BY <2>1, OrderKept DEF OrderInv
<1>8. CASE UNCHANGED vars
  <2>1. UNCHANGED <<buffer, transit, updates, lagged, connected>>
    BY <1>8 DEF vars, serverVars, storeVars
  <2> QED  BY <2>1, OrderKept DEF OrderInv
<1> QED  BY <1>1, <1>2, <1>3, <1>4, <1>5, <1>6, <1>7, <1>8 DEF Next

LEMMA OrderInit == Init => OrderInv
<1> SUFFICES ASSUME Init, NEW c \in Clients PROVE Ordered(c)
  BY DEF OrderInv
<1>1. buffer[c] = <<>> /\ transit[c] = <<>> /\ Len(buffer[c]) = 0 /\ Len(transit[c]) = 0
  BY DEF Init
<1> QED  BY <1>1 DEF Ordered, BufferOrder, TransitOrder, Joined

(* What is to come to a client: the messages in transit, then the updates  *)
(* in its buffer.                                                          *)
LEMMA ComingSequence ==
  ASSUME TypeInv, NEW c \in Clients
  PROVE  LET k == Len(transit[c])
             n == Len(buffer[c])
         IN /\ Len(Coming(c)) = k + n /\ k \in Nat /\ n \in Nat
            /\ \A j \in 1 .. k : Coming(c)[j] = transit[c][j]
            /\ \A j \in 1 .. n : /\ Coming(c)[k + j].no = buffer[c][j].no
                                /\ Coming(c)[k + j].lagged = (j = 1 /\ c \in lagged)
<1> DEFINE b == buffer[c]
           t == transit[c]
           n == Len(buffer[c])
           k == Len(transit[c])
           w == [j \in DOMAIN buffer[c] |-> [no |-> buffer[c][j].no, lagged |-> j = 1 /\ c \in lagged]]
           S == FitMessage \cup [no : Nat, lagged : BOOLEAN]
<1>1. /\ n \in Nat /\ k \in Nat /\ b \in Seq(FitUpdate) /\ t \in Seq(FitMessage)
      /\ \A j \in 1 .. n : b[j].no \in Nat
  BY Numbers
<1>2. DOMAIN b = 1 .. n
  BY <1>1, LenProperties
<1>3. ASSUME NEW j \in 1 .. n PROVE w[j] \in S
  <2>1. (j = 1 /\ c \in lagged) \in BOOLEAN /\ b[j].no \in Nat
    BY <1>1
  <2> QED  BY <1>2, <2>1
<1>4. w \in Seq(S) /\ Len(w) = n
  <2>1. w \in [1 .. n -> S]
    BY <1>2, <1>3
  <2> HIDE DEF w, S, n
  <2>2. w \in Seq(S)
    BY <1>1, <2>1, SeqDef
  <2>3. Len(w) \in Nat /\ 1 .. Len(w) = 1 .. n
    BY <2>1, <2>2, LenProperties
  <2> QED  BY <1>1, <2>2, <2>3
<1>5. t \in Seq(S)
  BY <1>1, SeqMonotonic
<1>6. \A j \in 1 .. n : w[j].no = b[j].no /\ w[j].lagged = (j = 1 /\ c \in lagged)
  BY <1>2
<1> DEFINE l == Coming(c)
<1>7. l = t \o w
  BY DEF Coming
<1> HIDE DEF b, t, n, k, w, S, l
<1>8. /\ Len(l) = Len(t) + Len(w)
      /\ \A j \in 1 .. Len(t) + Len(w) : l[j] = IF j <= Len(t) THEN t[j] ELSE w[j - Len(t)]
  BY <1>4, <1>5, <1>7, ConcatProperties
<1>9. /\ Len(l) = k + n
      /\ \A j \in 1 .. k + n : l[j] = IF j <= k THEN t[j] ELSE w[j - k]
  BY <1>4, <1>8 DEF k, t
<1>10. \A j \in 1 .. k : j \in 1 .. k + n /\ j <= k
  BY <1>1
<1>11. \A j \in 1 .. n : k + j \in 1 .. k + n /\ ~(k + j <= k) /\ (k + j) - k = j
  BY <1>1
<1>12. \A j \in 1 .. k : l[j] = t[j]
  BY <1>9, <1>10
<1>13. \A j \in 1 .. n : l[k + j] = w[j]
  BY <1>9, <1>11
<1>14. \A j \in 1 .. n : l[k + j].no = b[j].no /\ l[k + j].lagged = (j = 1 /\ c \in lagged)
  BY <1>6, <1>13
<1> QED  BY <1>1, <1>9, <1>12, <1>14 DEF b, t, n, k, l

(* Where the number jumps the message or its buffer is marked. *)
LEMMA NothingMissing == TypeInv /\ OrderInv => NoSilentGap
<1> SUFFICES ASSUME TypeInv, OrderInv, NEW c \in Clients,
                    NEW i \in 1 .. Len(Coming(c)) - 1
             PROVE  Coming(c)[i + 1].no = Coming(c)[i].no + 1 \/ Coming(c)[i + 1].lagged
  BY DEF NoSilentGap
<1> DEFINE b == buffer[c]
           t == transit[c]
           n == Len(buffer[c])
           k == Len(transit[c])
           l == Coming(c)
<1>1. /\ Len(l) = k + n /\ k \in Nat /\ n \in Nat /\ updates \in Nat
      /\ \A j \in 1 .. k : l[j] = t[j]
      /\ \A j \in 1 .. n : l[k + j].no = b[j].no /\ l[k + j].lagged = (j = 1 /\ c \in lagged)
  BY ComingSequence, Numbers
<1>2. /\ \A j \in 1 .. n : b[j].no = updates - n + j
      /\ \A j \in 1 .. k - 1 : t[j + 1].no = t[j].no + 1 \/ t[j + 1].lagged
      /\ k > 0 => t[k].no = updates - n \/ c \in lagged
  BY DEF OrderInv, Ordered, BufferOrder, TransitOrder, Joined
<1>3. i \in 1 .. (k + n) - 1
  BY <1>1
<1> SUFFICES l[i + 1].no = l[i].no + 1 \/ l[i + 1].lagged
  OBVIOUS
<1> HIDE DEF b, t, n, k, l
<1>4. CASE i + 1 <= k
  <2>1. i \in 1 .. k - 1 /\ i \in 1 .. k /\ i + 1 \in 1 .. k
    BY <1>1, <1>3, <1>4
  <2>2. l[i] = t[i] /\ l[i + 1] = t[i + 1]
    BY <1>1, <2>1
  <2> QED  BY <1>2, <2>1, <2>2, Zenon
<1>5. CASE i = k
  <2>1. k > 0 /\ k \in 1 .. k /\ 1 \in 1 .. n /\ l[i] = t[k]
    BY <1>1, <1>3, <1>5
  <2>2. CASE t[k].no = updates - n
    <3>1. l[k + 1].no = updates - n + 1
      BY <1>1, <1>2, <2>1
    <3> QED  BY <1>5, <2>1, <2>2, <3>1
  <2>3. CASE c \in lagged
    BY <1>1, <1>5, <2>1, <2>3
  <2> QED  BY <1>2, <2>1, <2>2, <2>3
<1>6. CASE i > k
  <2> DEFINE j == i - k
  <2>1. j \in 1 .. n /\ j + 1 \in 1 .. n /\ k + j = i /\ k + (j + 1) = i + 1
    BY <1>1, <1>3, <1>6
  <2> HIDE DEF j
  <2>2. l[i].no = updates - n + j /\ l[i + 1].no = updates - n + (j + 1)
    BY <1>1, <1>2, <2>1
  <2> QED  BY <1>1, <2>1, <2>2
<1> QED  BY <1>1, <1>3, <1>4, <1>5, <1>6

(* After its snapshot a client is sent every update in order, and where    *)
(* its buffer lost some the next one says so.                              *)
THEOREM GapsAreMarked == Spec => []NoSilentGap
<1>1. Init => TypeInv /\ OrderInv
  BY TypeInit, OrderInit
<1>2. TypeInv /\ OrderInv /\ [Next]_vars => (TypeInv /\ OrderInv)'
  BY TypeStep, OrderStep
<1>3. TypeInv /\ OrderInv => NoSilentGap
  BY NothingMissing
<1> QED  BY <1>1, <1>2, <1>3, PTL DEF Spec

-----------------------------------------------------------------------------
(* What is on its way makes up for what the board lacks.  Nothing on its   *)
(* way is newer than the store; an older update of an alarm is followed by *)
(* its last; and a board without the record of the store either gets it,   *)
(* from an update or from the snapshot, or was overwritten by a reply.     *)

Alarm(m) == [id |-> m.id, no |-> m.no, kind |-> m.kind]

(* The updates that are on their way to a client. *)
ComingFrom(b, t) == ToSet(b) \cup {Alarm(m) : m \in {m \in ToSet(t) : m.event = "alarm"}}

ComingAlarms(c) == ComingFrom(buffer[c], transit[c])

(* The store's record of the alarm is among them. *)
Pending(c, id) == \E a \in ComingAlarms(c) : a.id = id /\ a.no = store[id]

NotNewer(item) == item.no <= updates /\ (store[item.id] # 0 => item.no <= store[item.id])

NoneNewer(c) == \A item \in ComingAlarms(c) \cup replies[c] : NotNewer(item)

OldIsFollowed(c) == \A a \in ComingAlarms(c) : store[a.id] # 0 => Pending(c, a.id)

MadeUp(c, id) ==
  \/ Pending(c, id)
  \/ HeadSnap(c) /\ transit[c][1].alarms[id] = store[id]
  \/ ~HeadSnap(c) /\ (board[c][id] = store[id] \/ c \in overwritten)

Synced(c) ==
  /\ NoneNewer(c)
  /\ c \in connected \ gap => OldIsFollowed(c) /\ \A id \in Retained : MadeUp(c, id)

SyncInv == \A c \in Clients : Synced(c)

(* What is on its way to a client are updates. *)
LEMMA ComingType ==
  ASSUME TypeInv, NEW c \in Clients
  PROVE  /\ ComingAlarms(c) \subseteq FitUpdate
         /\ \A a \in ComingAlarms(c) : a.id \in EventIds /\ a.no \in Nat /\ a.kind \in Kinds(a.id)
<1>1. ToSet(buffer[c]) \subseteq FitUpdate /\ ToSet(transit[c]) \subseteq FitMessage
  BY Numbers, ElementsOfSequence
<1>2. ASSUME NEW m \in ToSet(transit[c]), m.event = "alarm" PROVE Alarm(m) \in FitUpdate
  <2>1. m.id \in EventIds /\ m.no \in Number /\ m.kind \in Kinds(m.id)
    BY <1>1, <1>2, MessageFields
  <2>2. Kinds(m.id) \subseteq Kind
    BY DEF Kinds, Kind
  <2> QED  BY <2>1, <2>2 DEF Alarm, FitUpdate, Update
<1>3. ComingAlarms(c) \subseteq FitUpdate
  BY <1>1, <1>2 DEF ComingAlarms, ComingFrom
<1>4. \A a \in FitUpdate : a.id \in EventIds /\ a.no \in Nat /\ a.kind \in Kinds(a.id)
  BY StreamAssumption DEF FitUpdate, Update, Number
<1> QED  BY <1>3, <1>4

(* The pump only moves an update along. *)
LEMMA PumpComing ==
  ASSUME TypeInv, NEW c \in Clients, Pump(c)
  PROVE  /\ ComingAlarms(c)' = ComingAlarms(c)
         /\ HeadSnap(c)' <=> HeadSnap(c)
         /\ HeadSnap(c) => transit'[c][1] = transit[c][1]
<1> DEFINE b == buffer[c]
           t == transit[c]
           h == Head(buffer[c])
           m == PumpedMessage(h, c \in lagged)
           b2 == Tail(b)
           t2 == Append(t, m)
<1>1. /\ buffer'[c] = b2 /\ transit'[c] = t2 /\ m \in FitMessage /\ h \in FitUpdate /\ b # <<>>
      /\ b \in Seq(FitUpdate) /\ t \in Seq(FitMessage) /\ Len(t) \in Nat
  BY PumpEffect, Numbers DEF TypeInv
<1>2. m.event = "alarm" /\ m.id = h.id /\ m.no = h.no /\ m.kind = h.kind
  BY DEF PumpedMessage
<1>3. Alarm(m) = h
  <2>1. h \in Update
    BY <1>1 DEF FitUpdate
  <2>2. h = [id |-> h.id, no |-> h.no, kind |-> h.kind]
    BY <2>1 DEF Update
  <2> QED  BY <1>2, <2>2 DEF Alarm
<1> HIDE DEF m, h
<1>4. ToSet(b) = {h} \cup ToSet(b2)
  BY <1>1, TakenElements DEF h
<1>5. ToSet(t2) = ToSet(t) \cup {m} /\ Len(t2) = Len(t) + 1 /\ t2[Len(t) + 1] = m
      /\ \A i \in 1 .. Len(t) : t2[i] = t[i]
  BY <1>1, AppendedElements
<1>6. t2 \in Seq(FitMessage) /\ t2 # <<>>
  <2>1. t2 \in Seq(FitMessage)
    BY <1>1, AppendedElements
  <2> QED  BY <1>1, <1>5, <2>1, EmptySeq
<1> HIDE DEF b2, t2, b, t
<1>7. ComingAlarms(c)' = ToSet(b2) \cup {Alarm(x) : x \in {x \in ToSet(t2) : x.event = "alarm"}}
  BY <1>1 DEF ComingAlarms, ComingFrom, ToSet, Alarm
<1>8. ComingAlarms(c) = ToSet(b) \cup {Alarm(x) : x \in {x \in ToSet(t) : x.event = "alarm"}}
  BY DEF ComingAlarms, ComingFrom, b, t
<1>9. ComingAlarms(c)' = ComingAlarms(c)
  <2>1. \A a : a \in ComingAlarms(c)' <=>
          a \in ToSet(b2) \/ \E x \in ToSet(t2) : x.event = "alarm" /\ a = Alarm(x)
    BY <1>7
  <2>2. \A a : a \in ComingAlarms(c) <=>
          a \in ToSet(b) \/ \E x \in ToSet(t) : x.event = "alarm" /\ a = Alarm(x)
    BY <1>8
  <2>3. \A a : a \in ComingAlarms(c)' <=> a \in ComingAlarms(c)
    BY <1>2, <1>3, <1>4, <1>5, <2>1, <2>2
  <2> HIDE DEF m
  <2> QED  BY <2>3
<1>10. CASE t = <<>>
  <2>1. ~HeadSnap(c) /\ Len(t) = 0
    BY <1>10 DEF HeadSnap, t
  <2>2. t2[1] = m
    BY <1>5, <2>1
  <2>3. ~HeadSnap(c)'
    BY <1>1, <1>2, <2>2 DEF HeadSnap
  <2> QED  BY <1>9, <2>1, <2>3
<1>11. CASE t # <<>>
  <2>1. t2[1] = t[1]
    <3>1. Len(t) # 0
      BY <1>1, <1>11, EmptySeq DEF t
    <3> QED  BY <1>1, <1>5, <3>1
  <2>2. HeadSnap(c) <=> t[1].event = "snapshot"
    BY <1>11 DEF HeadSnap, t
  <2>3. HeadSnap(c)' <=> t2[1].event = "snapshot"
    BY <1>1, <1>6 DEF HeadSnap
  <2> QED  BY <1>1, <1>9, <2>1, <2>2, <2>3 DEF t
<1> QED  BY <1>10, <1>11

(* What the browser gets was the oldest on its way. *)
LEMMA ReceiveComing ==
  ASSUME TypeInv, OrderInv, NEW c \in Clients, Receive(c)
  PROVE  LET first == Head(transit[c])
         IN /\ first = transit[c][1] /\ (HeadSnap(c) <=> first.event = "snapshot") /\ ~HeadSnap(c)'
            /\ first.event = "snapshot" => ComingAlarms(c)' = ComingAlarms(c)
            /\ first.event = "alarm" => ComingAlarms(c) = {Alarm(first)} \cup ComingAlarms(c)'
            /\ \A a \in ComingAlarms(c)' : a.no > first.no
<1> DEFINE b == buffer[c]
           t == transit[c]
           h == Head(transit[c])
           t2 == Tail(t)
           k == Len(transit[c])
           n == Len(buffer[c])
<1>1. /\ transit'[c] = t2 /\ buffer'[c] = b /\ t # <<>> /\ h \in FitMessage
      /\ t \in Seq(FitMessage) /\ b \in Seq(FitUpdate)
  BY ReceiveEffect, Numbers DEF TypeInv
<1>2. /\ t2 \in Seq(FitMessage) /\ Len(t2) = k - 1 /\ k \in Nat \ {0} /\ h = t[1]
      /\ \A i \in 1 .. k - 1 : t2[i] = t[i + 1]
      /\ ToSet(t) = {h} \cup ToSet(t2)
  BY <1>1, TakenElements
<1>3. /\ \A x : x \in ToSet(t2) <=> \E i \in 1 .. k - 1 : t2[i] = x
      /\ \A x : x \in ToSet(b) <=> \E i \in 1 .. n : b[i] = x
  <2>1. b \in Seq(FitUpdate) /\ t2 \in Seq(FitMessage) /\ Len(t2) = k - 1
    BY <1>1, <1>2
  <2> HIDE DEF b, t2
  <2>2. \A x : x \in ToSet(t2) <=> \E i \in 1 .. Len(t2) : t2[i] = x
    BY <2>1, ElementsOfSequence
  <2>3. \A x : x \in ToSet(b) <=> \E i \in 1 .. Len(b) : b[i] = x
    BY <2>1, ElementsOfSequence
  <2>4. Len(b) = n
    BY DEF b
  <2> QED  BY <2>1, <2>2, <2>3, <2>4
<1>4. HeadSnap(c) <=> h.event = "snapshot"
  BY <1>1, <1>2 DEF HeadSnap
<1>5. /\ \A i \in 1 .. n : b[i].no = updates - n + i
      /\ \A i \in 1 .. k : t[i].no <= updates - n
      /\ \A i, j \in 1 .. k : i < j => t[i].no < t[j].no
  BY DEF OrderInv, Ordered, BufferOrder, TransitOrder
<1>6. updates \in Nat /\ n \in Nat /\ \A i \in 1 .. k : t[i].no \in Nat
  BY Numbers
<1> HIDE DEF t2, t, b, h, k, n
<1>7. ComingAlarms(c)' = ToSet(b) \cup {Alarm(x) : x \in {x \in ToSet(t2) : x.event = "alarm"}}
  BY <1>1 DEF ComingAlarms, ComingFrom, ToSet, Alarm
<1>8. ComingAlarms(c) = ToSet(b) \cup {Alarm(x) : x \in {x \in ToSet(t) : x.event = "alarm"}}
  BY DEF ComingAlarms, ComingFrom, b, t
<1>9. \A a : a \in ComingAlarms(c)' <=>
        a \in ToSet(b) \/ \E x \in ToSet(t2) : x.event = "alarm" /\ a = Alarm(x)
  BY <1>7
<1>10. \A a : a \in ComingAlarms(c) <=>
         a \in ToSet(b) \/ \E x \in ToSet(t) : x.event = "alarm" /\ a = Alarm(x)
  BY <1>8
<1>11. ASSUME h.event = "snapshot" PROVE ComingAlarms(c)' = ComingAlarms(c)
  <2>1. \A a : a \in ComingAlarms(c)' <=> a \in ComingAlarms(c)
    BY <1>2, <1>9, <1>10, <1>11
  <2> QED  BY <2>1
<1>12. ASSUME h.event = "alarm" PROVE ComingAlarms(c) = {Alarm(h)} \cup ComingAlarms(c)'
  <2>1. \A a : a \in ComingAlarms(c) <=> a = Alarm(h) \/ a \in ComingAlarms(c)'
    BY <1>2, <1>9, <1>10, <1>12
  <2> QED  BY <2>1
<1>13. ASSUME NEW a \in ComingAlarms(c)' PROVE a.no > h.no
  <2>0. h.no \in Nat /\ h.no <= updates - n
    BY <1>2, <1>5, <1>6
  <2>1. CASE a \in ToSet(b)
    <3>1. PICK i \in 1 .. n : b[i] = a
      BY <1>3, <2>1
    <3>2. a.no = updates - n + i
      BY <1>5, <3>1
    <3> QED  BY <1>6, <2>0, <3>2
  <2>2. ASSUME NEW x \in ToSet(t2), a = Alarm(x) PROVE a.no > h.no
    <3>1. PICK i \in 1 .. k - 1 : t2[i] = x
      BY <1>3
    <3>2. x = t[i + 1] /\ 1 \in 1 .. k /\ i + 1 \in 1 .. k /\ 1 < i + 1
      BY <1>2, <3>1
    <3>3. t[1].no < t[i + 1].no
      BY <1>5, <3>2
    <3>4. a.no = x.no
      BY <2>2 DEF Alarm
    <3>5. x.no \in Nat /\ h.no < x.no
      BY <1>2, <1>6, <3>2, <3>3
    <3> QED  BY <2>0, <3>4, <3>5
  <2> QED  BY <1>9, <2>1, <2>2
<1>14. ~HeadSnap(c)'
  BY OrderReceive
<1> QED  BY <1>2, <1>4, <1>11, <1>12, <1>13, <1>14 DEF h, t

(* A new update is on its way to every client, and overtakes nothing. *)
LEMMA UpsertComing ==
  ASSUME TypeInv, NEW id \in EventIds, NEW become \in Kinds(id), Upsert(id, become),
         UNCHANGED transit, NEW c \in Clients
  PROVE  LET u == Published(id, become)
         IN /\ ComingAlarms(c)' \subseteq ComingAlarms(c) \cup {u}
            /\ c \in connected /\ ~Overflows(c) => ComingAlarms(c)' = ComingAlarms(c) \cup {u}
            /\ HeadSnap(c)' <=> HeadSnap(c)
<1> DEFINE u == Published(id, become)
<1>1. u \in FitUpdate /\ buffer'[c] = IF c \in connected THEN Offered(c, u) ELSE buffer[c]
  BY UpsertType
<1> HIDE DEF u
<1>2. /\ ToSet(buffer'[c]) \subseteq ToSet(buffer[c]) \cup {u}
      /\ c \in connected /\ ~Overflows(c) => ToSet(buffer'[c]) = ToSet(buffer[c]) \cup {u}
  BY <1>1, OfferedBuffer
<1>3. ComingAlarms(c)' =
        ToSet(buffer'[c]) \cup {Alarm(x) : x \in {x \in ToSet(transit[c]) : x.event = "alarm"}}
  BY DEF ComingAlarms, ComingFrom, ToSet, Alarm
<1>4. HeadSnap(c)' <=> HeadSnap(c)
  BY DEF HeadSnap
<1>5. /\ ComingAlarms(c)' \subseteq ComingAlarms(c) \cup {u}
      /\ c \in connected /\ ~Overflows(c) => ComingAlarms(c)' = ComingAlarms(c) \cup {u}
  BY <1>2, <1>3 DEF ComingAlarms, ComingFrom
<1> QED  BY <1>4, <1>5 DEF u

(* A client whose buffer and transit a step leaves alone. *)
LEMMA ComingKept ==
  ASSUME NEW d \in Clients, buffer'[d] = buffer[d], transit'[d] = transit[d]
  PROVE  ComingAlarms(d)' = ComingAlarms(d) /\ (HeadSnap(d)' <=> HeadSnap(d))
<1>1. ComingAlarms(d)' = ComingAlarms(d)
  BY DEF ComingAlarms, ComingFrom, ToSet, Alarm
<1> QED  BY <1>1 DEF HeadSnap

(* Nothing is on its way from an empty buffer, behind a snapshot at most.  *)
LEMMA NothingComing ==
  ASSUME NEW t, t = <<>> \/ \E m : t = <<m>> /\ m.event = "snapshot"
  PROVE  ComingFrom(<<>>, t) = {}
<1>1. ToSet(<<>>) = {}
  BY DEF ToSet
<1>2. \A m \in ToSet(t) : m.event = "snapshot"
  BY DEF ToSet
<1> QED  BY <1>1, <1>2 DEF ComingFrom

(* A client that a step leaves alone. *)
LEMMA SyncKept ==
  ASSUME NEW d \in Clients, Synced(d),
         buffer'[d] = buffer[d], transit'[d] = transit[d],
         board'[d] = board[d], replies'[d] \subseteq replies[d],
         store' = store, updates' = updates,
         d \in connected' \ gap' => d \in connected \ gap,
         d \in overwritten => d \in overwritten'
  PROVE  Synced(d)'
<1>1. ComingAlarms(d)' = ComingAlarms(d) /\ (HeadSnap(d)' <=> HeadSnap(d))
  BY ComingKept
<1>2. NoneNewer(d)'
  BY <1>1 DEF Synced, NoneNewer, NotNewer
<1>3. Retained' = Retained /\ \A id : Pending(d, id)' <=> Pending(d, id)
  BY <1>1 DEF Retained, Pending
<1>4. OldIsFollowed(d) => OldIsFollowed(d)'
  BY <1>1, <1>3 DEF OldIsFollowed
<1>5. \A id : MadeUp(d, id) => MadeUp(d, id)'
  BY <1>1, <1>3 DEF MadeUp
<1> QED  BY <1>2, <1>3, <1>4, <1>5 DEF Synced

(* An update of the store. *)
LEMMA SyncUpsert ==
  ASSUME TypeInv, SyncInv, NEW id \in EventIds, NEW become \in Kinds(id), Upsert(id, become),
         UNCHANGED <<transit, connected, board, overwritten>>,
         \A c \in Clients : replies'[c] \subseteq replies[c] \cup {[id |-> id, no |-> updates']}
  PROVE  SyncInv'
<1> DEFINE u == Published(id, become)
<1>1. /\ updates' = updates + 1 /\ updates \in Nat /\ store'[id] = updates + 1
      /\ \A e \in EventIds \ {id} : store'[e] = store[e] \/ store'[e] = 0
      /\ u.id = id /\ u.no = updates + 1
  <2>1. updates \in Nat
    BY StreamAssumption DEF TypeInv
  <2>2. u.id = id /\ u.no = updates + 1
    BY DEF Published
  <2> QED  BY <2>1, <2>2, UpsertType
<1> HIDE DEF u
<1> SUFFICES ASSUME NEW c \in Clients PROVE Synced(c)'
  BY DEF SyncInv
<1>2. Synced(c)
  BY DEF SyncInv
<1>3. /\ ComingAlarms(c)' \subseteq ComingAlarms(c) \cup {u}
      /\ c \in connected /\ ~Overflows(c) => ComingAlarms(c)' = ComingAlarms(c) \cup {u}
      /\ HeadSnap(c)' <=> HeadSnap(c)
  BY UpsertComing DEF u
<1>4. \A item \in ComingAlarms(c) \cup replies[c] : item.id \in EventIds /\ item.no \in Nat
  BY ComingType, StreamAssumption DEF TypeInv, Number
<1>5. ASSUME NEW item \in ComingAlarms(c)' \cup replies'[c] PROVE NotNewer(item)'
  <2>1. CASE item \in ComingAlarms(c) \cup replies[c]
    <3>1. item.no \in Nat /\ item.id \in EventIds /\ NotNewer(item)
      BY <1>2, <1>4, <2>1 DEF Synced, NoneNewer
    <3>2. item.no <= updates + 1
      BY <1>1, <3>1 DEF NotNewer
    <3> QED  BY <1>1, <3>1, <3>2 DEF NotNewer
  <2>2. CASE item.id = id /\ item.no = updates + 1
    BY <1>1, <2>2 DEF NotNewer
  <2>3. item \in ComingAlarms(c) \cup replies[c] \/ (item.id = id /\ item.no = updates + 1)
    BY <1>1, <1>3
  <2> QED  BY <2>1, <2>2, <2>3
<1>6. NoneNewer(c)'
  BY <1>5 DEF NoneNewer
<1>7. ASSUME c \in connected' \ gap'
      PROVE  OldIsFollowed(c)' /\ \A e \in Retained' : MadeUp(c, e)'
  <2>1. c \in connected \ gap /\ ~Overflows(c)
    BY <1>7 DEF Upsert
  <2>2. ComingAlarms(c)' = ComingAlarms(c) \cup {u}
    BY <1>3, <2>1
  <2>3. Pending(c, id)'
    BY <1>1, <2>2 DEF Pending
  <2>4. OldIsFollowed(c) /\ \A e \in Retained : MadeUp(c, e)
    BY <1>2, <2>1 DEF Synced
  <2>5. ASSUME NEW e \in EventIds, e # id, store'[e] # 0
        PROVE  store'[e] = store[e] /\ (Pending(c, e) => Pending(c, e)')
    <3>1. store'[e] = store[e]
      BY <1>1, <2>5
    <3> QED  BY <2>2, <3>1 DEF Pending
  <2>6. OldIsFollowed(c)'
    <3> SUFFICES ASSUME NEW a \in ComingAlarms(c)', store'[a.id] # 0 PROVE Pending(c, a.id)'
      BY DEF OldIsFollowed
    <3>1. CASE a.id = id
      BY <2>3, <3>1
    <3>2. CASE a.id # id
      <4>1. a \in ComingAlarms(c) /\ a.id \in EventIds
        BY <1>1, <1>4, <2>2, <3>2
      <4>2. store'[a.id] = store[a.id]
        BY <2>5, <3>2, <4>1
      <4>3. Pending(c, a.id)
        BY <2>4, <4>1, <4>2 DEF OldIsFollowed
      <4> QED  BY <2>5, <3>2, <4>1, <4>3
    <3> QED  BY <3>1, <3>2
  <2>7. ASSUME NEW e \in Retained' PROVE MadeUp(c, e)'
    <3>1. CASE e = id
      BY <2>3, <3>1 DEF MadeUp
    <3>2. CASE e # id
      <4>1. e \in EventIds /\ store'[e] # 0
        BY DEF Retained
      <4>2. store'[e] = store[e] /\ (Pending(c, e) => Pending(c, e)') /\ e \in Retained
        BY <2>5, <3>2, <4>1 DEF Retained
      <4>3. MadeUp(c, e)
        BY <2>4, <4>2
      <4> QED  BY <1>3, <4>2, <4>3 DEF MadeUp
    <3> QED  BY <3>1, <3>2
  <2> QED  BY <2>6, <2>7
<1> QED  BY <1>6, <1>7 DEF Synced

(* The browser gets the next message. *)
LEMMA SyncReceive ==
  ASSUME TypeInv, OrderInv, SyncInv, NEW c \in Clients, Receive(c)
  PROVE  SyncInv'
<1> DEFINE h == Head(transit[c])
<1>1. /\ h \in FitMessage /\ transit' = [transit EXCEPT ![c] = Tail(transit[c])]
      /\ buffer' = buffer /\ store' = store /\ updates' = updates /\ connected' = connected
      /\ gap' = gap /\ replies' = replies
  BY ReceiveEffect
<1>2. /\ h = transit[c][1] /\ (HeadSnap(c) <=> h.event = "snapshot") /\ ~HeadSnap(c)'
      /\ h.event = "snapshot" => ComingAlarms(c)' = ComingAlarms(c)
      /\ h.event = "alarm" => /\ ComingAlarms(c) = {Alarm(h)} \cup ComingAlarms(c)'
                              /\ \A a \in ComingAlarms(c)' : a.no > h.no
  BY ReceiveComing
<1>3. /\ h.event = "snapshot" => h.alarms \in Alarms
      /\ h.event = "alarm" => h.id \in EventIds
      /\ h.no \in Nat
  <2>1. h.no \in 0 .. MaxUpdates
    BY <1>1, MessageFields
  <2>2. h.no \in Nat
    BY <2>1, StreamAssumption
  <2> QED  BY <1>1, <2>2, MessageFields
<1> HIDE DEF h
<1>4. ASSUME NEW d \in Clients \ {c} PROVE Synced(d)'
  <2>1. transit'[d] = transit[d]
    BY <1>1 DEF TypeInv
  <2>2. board'[d] = board[d] /\ (d \in overwritten => d \in overwritten')
    BY DEF Receive, ReceiveSnapshot, ReceiveAlarm, TypeInv
  <2> QED  BY <1>1, <2>1, <2>2, SyncKept DEF SyncInv
<1>5. Synced(c)
  BY DEF SyncInv
<1>6. ComingAlarms(c)' \subseteq ComingAlarms(c) /\ h.event \in {"alarm", "snapshot"}
  <2>1. h.event \in {"alarm", "snapshot"}
    BY <1>1, MessageFields
  <2> QED  BY <1>2, <2>1
<1>7. NoneNewer(c)'
  BY <1>1, <1>5, <1>6 DEF Synced, NoneNewer, NotNewer
<1>8. ASSUME c \in connected \ gap
      PROVE  OldIsFollowed(c)' /\ \A id \in Retained : MadeUp(c, id)'
  <2>0. OldIsFollowed(c) /\ \A id \in Retained : MadeUp(c, id)
    BY <1>5, <1>8 DEF Synced
  <2>1. CASE h.event = "snapshot"
    <3>1. ComingAlarms(c)' = ComingAlarms(c) /\ \A id : Pending(c, id)' <=> Pending(c, id)
      BY <1>1, <1>2, <2>1 DEF Pending
    <3>2. OldIsFollowed(c)'
      BY <1>1, <2>0, <3>1 DEF OldIsFollowed
    <3>3. ReceiveSnapshot(c)
      BY <2>1 DEF Receive, ReceiveAlarm, h
    <3>4. board'[c] = h.alarms
      BY <3>3 DEF ReceiveSnapshot, Seeded, TypeInv, h
    <3>5. ASSUME NEW id \in Retained PROVE MadeUp(c, id)'
      <4>1. CASE Pending(c, id)
        BY <3>1, <4>1 DEF MadeUp
      <4>2. CASE ~Pending(c, id)
        <5>1. HeadSnap(c) /\ transit[c][1].alarms[id] = store[id]
          BY <1>2, <2>0, <2>1, <4>2 DEF MadeUp
        <5>2. board'[c][id] = store'[id]
          BY <1>1, <1>2, <3>4, <5>1
        <5> QED  BY <1>2, <5>2 DEF MadeUp
      <4> QED  BY <4>1, <4>2
    <3> QED  BY <3>2, <3>5
  <2>2. CASE h.event = "alarm"
    <3>1. ComingAlarms(c) = {Alarm(h)} \cup ComingAlarms(c)' /\ \A a \in ComingAlarms(c)' : a.no > h.no
      BY <1>2, <2>2
    <3>2. ReceiveAlarm(c)
      BY <2>2 DEF Receive, ReceiveSnapshot, h
    <3>3. /\ board'[c] = [board[c] EXCEPT ![h.id] = h.no] /\ overwritten' = overwritten
          /\ board[c] \in Alarms
      BY <3>2 DEF ReceiveAlarm, TypeInv, h
    <3>4. Alarm(h).id = h.id /\ Alarm(h).no = h.no
      BY DEF Alarm
    <3>5. \A a \in ComingAlarms(c) : a.no \in Nat /\ a.id \in EventIds
      BY ComingType
    <3>6. OldIsFollowed(c)'
      <4> SUFFICES ASSUME NEW a \in ComingAlarms(c)', store[a.id] # 0 PROVE Pending(c, a.id)'
        BY <1>1 DEF OldIsFollowed
      <4>1. a \in ComingAlarms(c) /\ Pending(c, a.id) /\ a.no <= store[a.id] /\ a.id \in EventIds
        BY <1>5, <1>6, <2>0, <3>5 DEF OldIsFollowed, Synced, NoneNewer, NotNewer
      <4>2. PICK w \in ComingAlarms(c) : w.id = a.id /\ w.no = store[a.id]
        BY <4>1 DEF Pending
      <4>3. w # Alarm(h)
        <5>1. a.no > h.no /\ a.no \in Nat
          BY <3>1, <3>5, <4>1
        <5>2. w.no \in Nat /\ a.no <= w.no
          BY <3>5, <4>1, <4>2
        <5> QED  BY <1>3, <3>4, <5>1, <5>2
      <4>4. w \in ComingAlarms(c)'
        BY <3>1, <4>3
      <4> QED  BY <1>1, <4>2, <4>4 DEF Pending
    <3>7. ASSUME NEW id \in Retained PROVE MadeUp(c, id)'
      <4>0. id \in EventIds /\ store[id] # 0
        BY DEF Retained
      <4>1. CASE Pending(c, id)
        <5>1. PICK w \in ComingAlarms(c) : w.id = id /\ w.no = store[id]
          BY <4>1 DEF Pending
        <5>2. CASE w = Alarm(h)
          <6>1. board'[c][id] = store[id]
            BY <3>3, <3>4, <4>0, <5>1, <5>2 DEF Alarms
          <6> QED  BY <1>1, <1>2, <6>1 DEF MadeUp
        <5>3. CASE w \in ComingAlarms(c)'
          BY <1>1, <5>1, <5>3 DEF MadeUp, Pending
        <5> QED  BY <3>1, <5>2, <5>3
      <4>2. CASE ~Pending(c, id)
        <5>1. board[c][id] = store[id] \/ c \in overwritten
          BY <2>0, <4>2, <1>2, <2>2 DEF MadeUp
        <5>2. h.id # id
          <6>1. Alarm(h) \in ComingAlarms(c)
            BY <3>1
          <6>2. store[Alarm(h).id] # 0 => Pending(c, Alarm(h).id)
            BY <2>0, <6>1 DEF OldIsFollowed
          <6> QED  BY <3>4, <4>0, <4>2, <6>2
        <5>3. board'[c][id] = board[c][id]
          BY <3>3, <4>0, <5>2 DEF Alarms
        <5> QED  BY <1>1, <1>2, <3>3, <5>1, <5>3 DEF MadeUp
      <4> QED  BY <4>1, <4>2
    <3> QED  BY <3>6, <3>7
  <2> QED  BY <1>6, <2>1, <2>2
<1>9. Retained' = Retained
  BY <1>1 DEF Retained
<1>10. Synced(c)'
  BY <1>1, <1>7, <1>8, <1>9 DEF Synced
<1> QED  BY <1>4, <1>10 DEF SyncInv

(* Every step keeps the boards made up for. *)
LEMMA SyncStep ==
  ASSUME TypeInv, OrderInv, SyncInv, [Next]_vars
  PROVE  SyncInv'
<1>1. ASSUME NEW id \in EventIds, Triage(id) PROVE SyncInv'
  <2>1. \A c \in Clients : replies'[c] \subseteq replies[c] \cup {[id |-> id, no |-> updates']}
    BY <1>1 DEF Triage
  <2> QED  BY <1>1, <2>1, SyncUpsert DEF Triage
<1>2. ASSUME NEW c \in Clients, NEW id \in EventIds, Operate(c, id) PROVE SyncInv'
  <2>1. (IF kind[id] = "alerting" THEN "handled" ELSE kind[id]) \in Kinds(id)
    BY DEF TypeInv, Kinds
  <2>2. \A d \in Clients : replies'[d] \subseteq replies[d] \cup {[id |-> id, no |-> updates']}
    BY <1>2 DEF Operate, TypeInv
  <2> QED  BY <1>2, <2>1, <2>2, SyncUpsert DEF Operate
<1>3. ASSUME NEW c \in Clients, Connect(c) PROVE SyncInv'
  <2>1. /\ buffer'[c] = <<>> /\ transit'[c] = <<Snapshot>> /\ updates' = updates /\ store' = store
        /\ \A d \in Clients \ {c} : buffer'[d] = buffer[d] /\ transit'[d] = transit[d]
        /\ connected' = connected \cup {c} /\ UNCHANGED <<board, replies, gap, overwritten>>
    BY <1>3 DEF Connect, TypeInv, storeVars
  <2>2. Snapshot.event = "snapshot" /\ Snapshot.alarms = store
    BY DEF Snapshot
  <2>3. ComingAlarms(c)' = {}
    BY <2>1, <2>2, NothingComing DEF ComingAlarms
  <2>4. transit'[c][1] = Snapshot /\ transit'[c] # <<>>
    BY <2>1
  <2>5. NoneNewer(c)' /\ OldIsFollowed(c)'
    BY <2>1, <2>3 DEF SyncInv, Synced, NoneNewer, NotNewer, OldIsFollowed
  <2>6. \A id : MadeUp(c, id)'
    BY <2>1, <2>2, <2>4 DEF MadeUp, HeadSnap
  <2>7. Synced(c)'
    BY <2>5, <2>6 DEF Synced
  <2>8. ASSUME NEW d \in Clients \ {c} PROVE Synced(d)'
    BY <2>1, SyncKept DEF SyncInv
  <2> QED  BY <2>7, <2>8 DEF SyncInv
<1>4. ASSUME NEW c \in Clients, Pump(c) PROVE SyncInv'
  <2>1. /\ UNCHANGED <<store, updates, connected, board, replies, gap, overwritten>>
        /\ \A d \in Clients \ {c} : buffer'[d] = buffer[d] /\ transit'[d] = transit[d]
    BY <1>4, PumpEffect DEF Pump, TypeInv, storeVars
  <2>2. /\ ComingAlarms(c)' = ComingAlarms(c) /\ (HeadSnap(c)' <=> HeadSnap(c))
        /\ HeadSnap(c) => transit'[c][1] = transit[c][1]
    BY <1>4, PumpComing
  <2>3. Retained' = Retained /\ \A id : Pending(c, id)' <=> Pending(c, id)
    BY <2>1, <2>2 DEF Retained, Pending
  <2>4. NoneNewer(c)' <=> NoneNewer(c)
    BY <2>1, <2>2 DEF NoneNewer, NotNewer
  <2>5. OldIsFollowed(c)' <=> OldIsFollowed(c)
    BY <2>1, <2>2, <2>3 DEF OldIsFollowed
  <2>6. \A id : MadeUp(c, id) => MadeUp(c, id)'
    BY <2>1, <2>2, <2>3 DEF MadeUp
  <2>7. Synced(c)'
    BY <2>1, <2>3, <2>4, <2>5, <2>6 DEF SyncInv, Synced
  <2>8. ASSUME NEW d \in Clients \ {c} PROVE Synced(d)'
    BY <2>1, SyncKept DEF SyncInv
  <2> QED  BY <2>7, <2>8 DEF SyncInv
<1>5. ASSUME NEW c \in Clients, Drop(c) PROVE SyncInv'
  <2>1. /\ buffer'[c] = <<>> /\ transit'[c] = <<>>
        /\ UNCHANGED <<store, updates, board, replies, overwritten>>
        /\ \A d \in Clients \ {c} : buffer'[d] = buffer[d] /\ transit'[d] = transit[d]
        /\ connected' = connected \ {c} /\ gap' = gap \ {c}
    BY <1>5 DEF Drop, TypeInv, storeVars
  <2>2. ComingAlarms(c)' = {}
    BY <2>1, NothingComing DEF ComingAlarms
  <2>3. NoneNewer(c)'
    BY <2>1, <2>2 DEF SyncInv, Synced, NoneNewer, NotNewer
  <2>4. Synced(c)'
    BY <2>1, <2>3 DEF Synced
  <2>5. ASSUME NEW d \in Clients \ {c} PROVE Synced(d)'
    BY <2>1, SyncKept DEF SyncInv
  <2> QED  BY <2>4, <2>5 DEF SyncInv
<1>6. ASSUME NEW c \in Clients, Receive(c) PROVE SyncInv'
  BY <1>6, SyncReceive
<1>7. ASSUME NEW c \in Clients, NEW reply \in replies[c], ApplyLocal(c, reply) PROVE SyncInv'
  <2>1. /\ UNCHANGED <<store, updates, buffer, transit, connected, gap>>
        /\ board' = [board EXCEPT ![c][reply.id] = reply.no]
        /\ replies' = [replies EXCEPT ![c] = replies[c] \ {reply}]
        /\ overwritten' = IF reply.no < board[c][reply.id] THEN overwritten \cup {c}
                          ELSE overwritten
    BY <1>7 DEF ApplyLocal, serverVars, storeVars
  <2>2. /\ reply.id \in EventIds /\ reply.no \in Nat /\ board[c] \in Alarms
        /\ board[c][reply.id] \in Nat
    BY StreamAssumption DEF TypeInv, Number, Alarms
  <2>3. ASSUME NEW d \in Clients \ {c} PROVE Synced(d)'
    <3>1. board'[d] = board[d] /\ replies'[d] \subseteq replies[d]
      BY <2>1 DEF TypeInv
    <3> QED  BY <2>1, <3>1, SyncKept DEF SyncInv
  <2>4. ComingAlarms(c)' = ComingAlarms(c) /\ (HeadSnap(c)' <=> HeadSnap(c))
    BY <2>1, ComingKept
  <2>5. Retained' = Retained /\ \A id : Pending(c, id)' <=> Pending(c, id)
    BY <2>1, <2>4 DEF Retained, Pending
  <2>6. Synced(c) /\ replies'[c] \subseteq replies[c] /\ NotNewer(reply)
    BY <2>1 DEF SyncInv, Synced, NoneNewer, TypeInv
  <2>7. NoneNewer(c)' /\ (OldIsFollowed(c) => OldIsFollowed(c)')
    BY <2>1, <2>4, <2>5, <2>6 DEF Synced, NoneNewer, NotNewer, OldIsFollowed
  <2>8. ASSUME NEW id \in Retained, MadeUp(c, id) PROVE MadeUp(c, id)'
    <3>0. id \in EventIds /\ store[id] # 0
      BY DEF Retained
    <3>1. CASE Pending(c, id)
      BY <2>5, <3>1 DEF MadeUp
    <3>2. CASE HeadSnap(c) /\ transit[c][1].alarms[id] = store[id]
      BY <2>1, <2>4, <3>2 DEF MadeUp
    <3>3. CASE ~HeadSnap(c) /\ c \in overwritten
      BY <2>1, <2>4, <3>3 DEF MadeUp
    <3>4. CASE ~HeadSnap(c) /\ board[c][id] = store[id] /\ id # reply.id
      <4>1. board'[c][id] = board[c][id]
        BY <2>1, <2>2, <3>0, <3>4 DEF TypeInv, Alarms
      <4> QED  BY <2>1, <2>4, <3>4, <4>1 DEF MadeUp
    <3>5. CASE ~HeadSnap(c) /\ board[c][id] = store[id] /\ id = reply.id
      <4>1. board'[c][id] = reply.no
        BY <2>1, <2>2, <3>0, <3>5 DEF TypeInv, Alarms
      <4>2. reply.no <= store[id]
        BY <2>6, <3>0, <3>5 DEF NotNewer
      <4>3. CASE reply.no < board[c][id]
        <5>1. c \in overwritten'
          BY <2>1, <3>5, <4>3
        <5> QED  BY <2>4, <3>5, <5>1 DEF MadeUp
      <4>4. CASE ~(reply.no < board[c][id])
        <5>1. reply.no = store[id]
          BY <2>2, <3>5, <4>2, <4>4
        <5> QED  BY <2>1, <2>4, <3>5, <4>1, <5>1 DEF MadeUp
      <4> QED  BY <4>3, <4>4
    <3> QED  BY <2>8, <3>1, <3>2, <3>3, <3>4, <3>5 DEF MadeUp
  <2>9. Synced(c)'
    BY <2>1, <2>5, <2>6, <2>7, <2>8 DEF Synced
  <2> QED  BY <2>3, <2>9 DEF SyncInv
<1>8. CASE UNCHANGED vars
  <2>1. UNCHANGED <<buffer, transit, updates, store, connected, board, replies, gap, overwritten>>
    BY <1>8 DEF vars, serverVars, storeVars
  <2> QED  BY <2>1, SyncKept DEF SyncInv
<1> QED  BY <1>1, <1>2, <1>3, <1>4, <1>5, <1>6, <1>7, <1>8 DEF Next

LEMMA SyncInit == Init => SyncInv
<1> SUFFICES ASSUME Init, NEW c \in Clients PROVE Synced(c)
  BY DEF SyncInv
<1>1. buffer[c] = <<>> /\ transit[c] = <<>> /\ replies[c] = {} /\ connected = {}
  BY DEF Init
<1>2. ComingAlarms(c) = {}
  BY <1>1, NothingComing DEF ComingAlarms
<1> QED  BY <1>1, <1>2 DEF Synced, NoneNewer

(* When nothing is to come, nothing is on its way. *)
LEMMA QuietMeansNothing ==
  ASSUME TypeInv, NEW c \in Clients, Coming(c) = <<>>
  PROVE  ComingAlarms(c) = {} /\ ~HeadSnap(c)
<1>1. /\ Len(Coming(c)) = Len(transit[c]) + Len(buffer[c])
      /\ Len(transit[c]) \in Nat /\ Len(buffer[c]) \in Nat
  BY ComingSequence
<1>2. Len(Coming(c)) = 0
  OBVIOUS
<1>3. Len(transit[c]) = 0 /\ Len(buffer[c]) = 0
  <2> DEFINE k == Len(transit[c])
             n == Len(buffer[c])
  <2>1. 0 = k + n /\ k \in Nat /\ n \in Nat
    BY <1>1, <1>2
  <2> HIDE DEF k, n
  <2>2. k = 0 /\ n = 0
    BY <2>1
  <2> QED  BY <2>2 DEF k, n
<1>4. transit[c] = <<>> /\ buffer[c] = <<>>
  BY <1>3, Numbers, EmptySeq
<1> QED  BY <1>4, NothingComing DEF ComingAlarms, HeadSnap

(* Once all that was sent has arrived, a dashboard shows the record of the *)
(* store for every alarm that is kept, unless its buffer overflowed or a   *)
(* late reply went over a newer record.                                    *)
THEOREM BoardCatchesUp == Spec => []BoardInSync
<1>1. Init => TypeInv /\ OrderInv /\ SyncInv
  BY TypeInit, OrderInit, SyncInit
<1>2. TypeInv /\ OrderInv /\ SyncInv /\ [Next]_vars => (TypeInv /\ OrderInv /\ SyncInv)'
  BY TypeStep, OrderStep, SyncStep
<1>3. TypeInv /\ SyncInv => BoardInSync
  <2> SUFFICES ASSUME TypeInv, SyncInv, NEW c \in Clients, Quiet(c), c \notin gap \cup overwritten,
                      NEW id \in Retained
               PROVE  board[c][id] = store[id]
    BY DEF BoardInSync, Agrees
  <2>1. c \in connected \ gap /\ ComingAlarms(c) = {} /\ ~HeadSnap(c)
    BY QuietMeansNothing DEF Quiet
  <2>2. MadeUp(c, id)
    BY <2>1 DEF SyncInv, Synced
  <2> QED  BY <2>1, <2>2 DEF MadeUp, Pending
<1> QED  BY <1>1, <1>2, <1>3, PTL DEF Spec

-----------------------------------------------------------------------------
(* What a board shows, and the reply that will come to it, is no newer     *)
(* than the store, and no newer than a snapshot on its way unless its      *)
(* update follows the snapshot.  While a client has missed nothing, what   *)
(* is on its way is numbered without a gap up to the last update.          *)

Shown(c, id) == {board[c][id]} \cup {reply.no : reply \in {r \in replies[c] : r.id = id}}

NoNewerThanStore(id, no) == no <= updates /\ (store[id] # 0 => no <= store[id])

SnapshotFits(c, snapshot) ==
  \A id \in EventIds :
    /\ NoNewerThanStore(id, snapshot.alarms[id])
    /\ snapshot.alarms[id] = 0 => store[id] = 0 \/ store[id] > snapshot.no
    /\ \A no \in Shown(c, id) :
         no <= snapshot.no => snapshot.alarms[id] = 0 \/ no <= snapshot.alarms[id]

Continuous(c) ==
  c \notin gap =>
    /\ c \notin lagged
    /\ \A i \in 1 .. Len(transit[c]) :
         transit[c][i].no = updates - Len(buffer[c]) - Len(transit[c]) + i

Viewed(c) ==
  /\ \A id \in EventIds : NoNewerThanStore(id, board[c][id])
  /\ HeadSnap(c) => SnapshotFits(c, transit[c][1])
  /\ Continuous(c)

ViewInv == (\A id \in EventIds : store[id] <= updates) /\ \A c \in Clients : Viewed(c)

(* The numbers on a board and in a snapshot, as numbers. *)
LEMMA ViewNumbers ==
  ASSUME TypeInv, NEW c \in Clients
  PROVE  /\ updates \in Nat /\ \A id \in EventIds : store[id] \in Nat /\ board[c][id] \in Nat
         /\ board[c] \in Alarms
         /\ \A reply \in replies[c] : reply.id \in EventIds /\ reply.no \in Nat
         /\ \A id \in EventIds : \A no \in Shown(c, id) : no \in Nat
         /\ HeadSnap(c) => /\ transit[c][1].no \in Nat
                           /\ transit[c][1].alarms \in Alarms
                           /\ \A id \in EventIds : transit[c][1].alarms[id] \in Nat
<1>1. /\ updates \in Nat /\ store \in Alarms /\ board[c] \in Alarms
      /\ \A alarms \in Alarms : \A id \in EventIds : alarms[id] \in Nat
  BY StreamAssumption DEF TypeInv, Alarms
<1>2. \A reply \in replies[c] : reply.id \in EventIds /\ reply.no \in Nat
  BY StreamAssumption DEF TypeInv, Number
<1>3. \A id \in EventIds : \A no \in Shown(c, id) : no \in Nat
  BY <1>1, <1>2 DEF Shown
<1>4. ASSUME HeadSnap(c)
      PROVE  transit[c][1].no \in Nat /\ transit[c][1].alarms \in Alarms
  <2>1. transit[c] # <<>> /\ transit[c] \in Seq(FitMessage) /\ transit[c][1].event = "snapshot"
    BY <1>4, Numbers DEF HeadSnap
  <2>2. transit[c][1] \in FitMessage
    BY <2>1, TakenElements
  <2>3. transit[c][1].no \in 0 .. MaxUpdates /\ transit[c][1].alarms \in Alarms
    BY <2>1, <2>2, MessageFields
  <2> QED  BY <2>3, StreamAssumption
<1> QED  BY <1>1, <1>2, <1>3, <1>4

(* A client that a step leaves alone. *)
LEMMA ViewKept ==
  ASSUME NEW d \in Clients, Viewed(d),
         buffer'[d] = buffer[d], transit'[d] = transit[d],
         board'[d] = board[d], replies'[d] \subseteq replies[d],
         store' = store, updates' = updates,
         d \notin gap' => d \notin gap, d \notin lagged => d \notin lagged'
  PROVE  Viewed(d)'
<1>1. (\A id \in EventIds : NoNewerThanStore(id, board[d][id]))'
  BY DEF Viewed, NoNewerThanStore
<1>2. \A id \in EventIds : Shown(d, id)' \subseteq Shown(d, id)
  BY DEF Shown
<1>3. HeadSnap(d)' => SnapshotFits(d, transit[d][1])'
  BY <1>2 DEF Viewed, SnapshotFits, HeadSnap, NoNewerThanStore
<1>4. Continuous(d)'
  BY DEF Viewed, Continuous
<1> QED  BY <1>1, <1>3, <1>4 DEF Viewed

(* An update of the store. *)
LEMMA ViewUpsert ==
  ASSUME TypeInv, OrderInv, ViewInv,
         NEW id \in EventIds, NEW become \in Kinds(id), Upsert(id, become),
         UNCHANGED <<transit, connected, board>>,
         \A c \in Clients : replies'[c] \subseteq replies[c] \cup {[id |-> id, no |-> updates']}
  PROVE  ViewInv'
<1> DEFINE u == Published(id, become)
<1>1. /\ updates' = updates + 1 /\ updates \in Nat /\ store'[id] = updates + 1
      /\ \A e \in EventIds \ {id} : store'[e] = store[e] \/ store'[e] = 0
      /\ \A e \in EventIds : store[e] \in Nat /\ store[e] <= updates
      /\ u \in FitUpdate
      /\ buffer' = [c \in Clients |-> IF c \in connected THEN Offered(c, u) ELSE buffer[c]]
  <2>1. updates \in Nat /\ \A e \in EventIds : store[e] \in Nat
    BY StreamAssumption DEF TypeInv, Alarms
  <2> QED  BY <2>1, UpsertType DEF ViewInv
<1> HIDE DEF u
<1>2. \A e \in EventIds : store'[e] <= updates'
  BY <1>1
<1>3. ASSUME NEW e \in EventIds, NEW no \in Nat, NoNewerThanStore(e, no)
      PROVE  NoNewerThanStore(e, no)'
  <2>1. no <= updates + 1
    BY <1>1, <1>3 DEF NoNewerThanStore
  <2>2. CASE e = id
    BY <1>1, <2>1, <2>2 DEF NoNewerThanStore
  <2>3. CASE e # id
    BY <1>1, <1>3, <2>1, <2>3 DEF NoNewerThanStore
  <2> QED  BY <2>2, <2>3
<1> SUFFICES ASSUME NEW c \in Clients PROVE Viewed(c)'
  BY <1>2 DEF ViewInv
<1>4. Viewed(c) /\ (HeadSnap(c)' <=> HeadSnap(c)) /\ transit'[c] = transit[c]
  BY DEF ViewInv, HeadSnap
<1>5. /\ \A e \in EventIds : board[c][e] \in Nat
      /\ \A e \in EventIds : \A no \in Shown(c, e) : no \in Nat
      /\ HeadSnap(c) => /\ transit[c][1].no \in Nat
                        /\ \A e \in EventIds : transit[c][1].alarms[e] \in Nat
  BY ViewNumbers
<1>6. (\A e \in EventIds : NoNewerThanStore(e, board[c][e]))'
  <2>1. \A e \in EventIds : NoNewerThanStore(e, board[c][e])'
    BY <1>3, <1>4, <1>5 DEF Viewed, NoNewerThanStore
  <2> QED  BY <2>1
<1>7. ASSUME HeadSnap(c) PROVE SnapshotFits(c, transit[c][1])'
  <2> DEFINE s == transit[c][1]
  <2>1. /\ SnapshotFits(c, s) /\ s.no \in Nat /\ \A e \in EventIds : s.alarms[e] \in Nat
        /\ transit'[c][1] = s
    BY <1>4, <1>5, <1>7 DEF Viewed
  <2>2. s.no <= updates
    <3>1. transit[c] # <<>> /\ transit[c] \in Seq(FitMessage)
      BY <1>7, Numbers DEF HeadSnap
    <3>2. Len(transit[c]) \in Nat \ {0}
      BY <3>1, TakenElements
    <3>3. 1 \in 1 .. Len(transit[c])
      BY <3>2
    <3>4. s.no <= updates - Len(buffer[c])
      BY <3>3 DEF OrderInv, Ordered, TransitOrder
    <3>5. Len(buffer[c]) \in Nat
      BY Numbers
    <3> QED  BY <1>1, <2>1, <3>4, <3>5
  <2> HIDE DEF s
  <2> SUFFICES ASSUME NEW e \in EventIds
               PROVE  /\ NoNewerThanStore(e, s.alarms[e])'
                      /\ s.alarms[e] = 0 => store'[e] = 0 \/ store'[e] > s.no
                      /\ \A no \in Shown(c, e)' :
                           no <= s.no => s.alarms[e] = 0 \/ no <= s.alarms[e]
    BY <2>1 DEF SnapshotFits, NoNewerThanStore, s
  <2>3. /\ NoNewerThanStore(e, s.alarms[e])
        /\ s.alarms[e] = 0 => store[e] = 0 \/ store[e] > s.no
        /\ \A no \in Shown(c, e) : no <= s.no => s.alarms[e] = 0 \/ no <= s.alarms[e]
    BY <2>1 DEF SnapshotFits
  <2>4. NoNewerThanStore(e, s.alarms[e])'
    <3>1. s.alarms[e] \in Nat
      BY <2>1
    <3>2. s' = s
      BY <2>1 DEF s
    <3>3. s.alarms[e] <= updates + 1
      BY <1>1, <2>3, <3>1 DEF NoNewerThanStore
    <3>4. store'[e] # 0 => s.alarms[e] <= store'[e]
      <4>1. CASE e = id
        BY <1>1, <3>3, <4>1
      <4>2. CASE e # id
        BY <1>1, <2>3, <4>2 DEF NoNewerThanStore
      <4> QED  BY <4>1, <4>2
    <3> QED  BY <1>1, <3>2, <3>3, <3>4 DEF NoNewerThanStore
  <2>5. s.alarms[e] = 0 => store'[e] = 0 \/ store'[e] > s.no
    <3>1. CASE e = id
      BY <1>1, <2>1, <2>2, <3>1
    <3>2. CASE e # id
      BY <1>1, <2>3, <3>2
    <3> QED  BY <3>1, <3>2
  <2>6. ASSUME NEW no \in Shown(c, e)', no <= s.no
        PROVE  s.alarms[e] = 0 \/ no <= s.alarms[e]
    <3>1. no \in Shown(c, e) \/ no = updates + 1
      BY <1>1 DEF Shown
    <3>2. no # updates + 1
      BY <1>1, <2>1, <2>2, <2>6
    <3> QED  BY <2>3, <2>6, <3>1, <3>2
  <2> QED  BY <2>4, <2>5, <2>6
<1>8. Continuous(c)'
  <2> SUFFICES ASSUME c \notin gap'
               PROVE  /\ c \notin lagged'
                      /\ \A i \in 1 .. Len(transit[c]) :
                           transit[c][i].no = updates' - Len(buffer'[c]) - Len(transit[c]) + i
    BY <1>4 DEF Continuous
  <2>1. c \notin gap /\ (c \in connected => ~Overflows(c)) /\ (c \notin lagged => c \notin lagged')
    BY DEF Upsert
  <2>2. /\ c \notin lagged
        /\ \A i \in 1 .. Len(transit[c]) :
             transit[c][i].no = updates - Len(buffer[c]) - Len(transit[c]) + i
    BY <1>4, <2>1 DEF Viewed, Continuous
  <2>3. CASE c \in connected
    <3>1. Len(buffer'[c]) = Len(buffer[c]) + 1 /\ Len(buffer[c]) \in Nat /\ Len(transit[c]) \in Nat
      BY <1>1, <2>1, <2>3, OfferedBuffer, Numbers
    <3> DEFINE n == Len(buffer[c])
               m == Len(buffer'[c])
    <3>2. m = n + 1 /\ n \in Nat
      BY <3>1
    <3> HIDE DEF n, m
    <3>3. updates' - m = updates - n
      BY <1>1, <3>2
    <3>4. updates' - Len(buffer'[c]) = updates - Len(buffer[c])
      BY <3>3 DEF n, m
    <3> QED  BY <2>1, <2>2, <3>4
  <2>4. CASE c \notin connected
    <3>1. transit[c] = <<>>
      BY <2>4 DEF OrderInv, Ordered
    <3> QED  BY <2>1, <2>2, <3>1
  <2> QED  BY <2>3, <2>4
<1> QED  BY <1>4, <1>6, <1>7, <1>8 DEF Viewed

(* The pump only moves an update along, and takes the mark away with it. *)
LEMMA ViewPump ==
  ASSUME TypeInv, OrderInv, ViewInv, NEW c \in Clients, Pump(c)
  PROVE  Viewed(c)'
<1> DEFINE b == buffer[c]
           t == transit[c]
           n == Len(buffer[c])
           k == Len(transit[c])
           m == PumpedMessage(Head(buffer[c]), c \in lagged)
<1>1. /\ b # <<>> /\ m \in FitMessage
      /\ buffer'[c] = Tail(b) /\ transit'[c] = Append(t, m)
      /\ lagged' = lagged \ {c} /\ UNCHANGED <<store, updates, board, replies, gap>>
  BY PumpEffect DEF Pump, TypeInv, storeVars
<1>2. /\ updates \in Nat /\ b \in Seq(FitUpdate) /\ t \in Seq(FitMessage)
      /\ n \in Nat /\ k \in Nat
  BY Numbers
<1>3. m.no = b[1].no /\ Len(Tail(b)) = n - 1 /\ n \in Nat \ {0}
  <2>1. Head(b) = b[1] /\ Len(Tail(b)) = n - 1 /\ n \in Nat \ {0}
    BY <1>1, <1>2, TakenElements
  <2> QED  BY <2>1 DEF PumpedMessage
<1>4. /\ Len(Append(t, m)) = k + 1 /\ Append(t, m)[k + 1] = m
      /\ \A i \in 1 .. k : Append(t, m)[i] = t[i]
  BY <1>1, <1>2, AppendedElements
<1>5. b[1].no = updates - n + 1
  <2>1. 1 \in 1 .. n
    BY <1>3
  <2> QED  BY <2>1 DEF OrderInv, Ordered, BufferOrder
<1>6. /\ Viewed(c) /\ (HeadSnap(c)' <=> HeadSnap(c))
      /\ HeadSnap(c) => transit'[c][1] = transit[c][1]
  BY PumpComing DEF ViewInv
<1>7. (\A id \in EventIds : NoNewerThanStore(id, board[c][id]))'
  BY <1>1, <1>6 DEF Viewed, NoNewerThanStore
<1>8. HeadSnap(c)' => SnapshotFits(c, transit[c][1])'
  <2>1. \A id \in EventIds : Shown(c, id)' = Shown(c, id)
    BY <1>1 DEF Shown
  <2> QED  BY <1>1, <1>6, <2>1 DEF Viewed, SnapshotFits, NoNewerThanStore
<1>9. ASSUME c \notin gap
      PROVE  \A i \in 1 .. k + 1 : Append(t, m)[i].no = updates - (n - 1) - (k + 1) + i
  <2>1. \A i \in 1 .. k : t[i].no = updates - n - k + i
    BY <1>6, <1>9 DEF Viewed, Continuous
  <2> DEFINE t2 == Append(t, m)
  <2>2. t2[k + 1].no = updates - n + 1 /\ \A i \in 1 .. k : t2[i] = t[i]
    BY <1>3, <1>4, <1>5
  <2> HIDE DEF t2, t, n, k
  <2>3. ASSUME NEW i \in 1 .. k + 1 PROVE t2[i].no = updates - (n - 1) - (k + 1) + i
    <3>1. CASE i = k + 1
      BY <1>2, <2>2, <3>1
    <3>2. CASE i # k + 1
      <4>1. i \in 1 .. k /\ i \in Nat
        BY <1>2, <3>2
      <4>2. t2[i].no = updates - n - k + i
        BY <2>1, <2>2, <4>1
      <4> QED  BY <1>2, <4>1, <4>2
    <3> QED  BY <3>1, <3>2
  <2> QED  BY <2>3 DEF t2
<1>10. Continuous(c)'
  BY <1>1, <1>3, <1>4, <1>9 DEF Continuous
<1> QED  BY <1>7, <1>8, <1>10 DEF Viewed

(* The browser gets the next message. *)
LEMMA ViewReceive ==
  ASSUME TypeInv, OrderInv, SyncInv, ViewInv, NEW c \in Clients, Receive(c)
  PROVE  Viewed(c)'
<1> DEFINE t == transit[c]
           h == Head(transit[c])
           n == Len(buffer[c])
           k == Len(transit[c])
<1>1. /\ t # <<>> /\ t \in Seq(FitMessage) /\ h \in FitMessage /\ transit'[c] = Tail(t)
      /\ UNCHANGED <<store, updates, buffer, lagged, replies, gap>>
  BY ReceiveEffect DEF TypeInv
<1>2. /\ h = t[1] /\ (HeadSnap(c) <=> h.event = "snapshot") /\ ~HeadSnap(c)'
      /\ h.event = "alarm" => ComingAlarms(c) = {Alarm(h)} \cup ComingAlarms(c)'
  BY ReceiveComing
<1>3. h.event \in {"alarm", "snapshot"} /\ (h.event = "alarm" => h.id \in EventIds)
  BY <1>1, MessageFields
<1>4. Viewed(c) /\ board[c] \in Alarms
  BY DEF ViewInv, TypeInv
<1>5. (\A id \in EventIds : NoNewerThanStore(id, board[c][id]))'
  <2>1. CASE h.event = "snapshot"
    <3>1. board'[c] = h.alarms
      BY <2>1 DEF Receive, ReceiveAlarm, ReceiveSnapshot, Seeded, TypeInv
    <3>2. SnapshotFits(c, h)
      BY <1>2, <1>4, <2>1 DEF Viewed
    <3> QED  BY <1>1, <3>1, <3>2 DEF SnapshotFits, NoNewerThanStore
  <2>2. CASE h.event = "alarm"
    <3>1. board'[c] = [board[c] EXCEPT ![h.id] = h.no]
      BY <2>2 DEF Receive, ReceiveAlarm, ReceiveSnapshot, TypeInv
    <3>2. Alarm(h) \in ComingAlarms(c) /\ Alarm(h).id = h.id /\ Alarm(h).no = h.no
      BY <1>2, <2>2 DEF Alarm
    <3>3. NotNewer(Alarm(h))
      BY <3>2 DEF SyncInv, Synced, NoneNewer
    <3>4. NoNewerThanStore(h.id, h.no)
      BY <3>2, <3>3 DEF NotNewer, NoNewerThanStore
    <3>5. \A id \in EventIds : board'[c][id] = IF id = h.id THEN h.no ELSE board[c][id]
      BY <1>4, <3>1 DEF Alarms
    <3> QED  BY <1>1, <1>4, <3>4, <3>5 DEF Viewed, NoNewerThanStore
  <2> QED  BY <1>3, <2>1, <2>2
<1>6. Continuous(c)'
  <2> SUFFICES ASSUME c \notin gap
               PROVE  /\ c \notin lagged
                      /\ \A i \in 1 .. Len(Tail(t)) :
                           Tail(t)[i].no = updates - n - Len(Tail(t)) + i
    BY <1>1 DEF Continuous
  <2>1. c \notin lagged /\ \A i \in 1 .. k : t[i].no = updates - n - k + i
    BY <1>4 DEF Viewed, Continuous
  <2>2. /\ Len(Tail(t)) = k - 1 /\ k \in Nat \ {0}
        /\ \A i \in 1 .. k - 1 : Tail(t)[i] = t[i + 1]
    BY <1>1, TakenElements
  <2>3. updates \in Nat /\ n \in Nat
    BY Numbers
  <2> DEFINE t2 == Tail(t)
  <2> HIDE DEF t, n, k, t2
  <2>4. ASSUME NEW i \in 1 .. k - 1 PROVE t2[i].no = updates - n - (k - 1) + i
    <3>1. i \in Nat /\ i + 1 \in 1 .. k /\ t2[i] = t[i + 1]
      BY <2>2 DEF t2
    <3>2. t2[i].no = updates - n - k + (i + 1)
      BY <2>1, <3>1
    <3> QED  BY <2>2, <2>3, <3>1, <3>2
  <2> QED  BY <2>1, <2>2, <2>4 DEF t2
<1> QED  BY <1>2, <1>5, <1>6 DEF Viewed

(* The reply of a click arrives. *)
LEMMA ViewApply ==
  ASSUME TypeInv, SyncInv, ViewInv, NEW c \in Clients, NEW reply \in replies[c],
         ApplyLocal(c, reply)
  PROVE  ViewInv'
<1>1. /\ UNCHANGED <<store, updates, buffer, lagged, transit, connected, gap>>
      /\ board' = [board EXCEPT ![c][reply.id] = reply.no]
      /\ replies' = [replies EXCEPT ![c] = replies[c] \ {reply}]
  BY DEF ApplyLocal, serverVars, storeVars
<1>2. Viewed(c) /\ board[c] \in Alarms /\ reply.id \in EventIds
  BY DEF ViewInv, TypeInv
<1>3. /\ replies'[c] = replies[c] \ {reply}
      /\ \A id \in EventIds : board'[c][id] = IF id = reply.id THEN reply.no ELSE board[c][id]
      /\ \A d \in Clients \ {c} : board'[d] = board[d] /\ replies'[d] = replies[d]
  BY <1>1, <1>2 DEF TypeInv, Alarms
<1>4. NoNewerThanStore(reply.id, reply.no)
  BY DEF SyncInv, Synced, NoneNewer, NotNewer, NoNewerThanStore
<1>5. (\A id \in EventIds : NoNewerThanStore(id, board[c][id]))'
  BY <1>1, <1>2, <1>3, <1>4 DEF Viewed, NoNewerThanStore
<1>6. \A id \in EventIds : Shown(c, id)' \subseteq Shown(c, id)
  BY <1>3 DEF Shown
<1>7. HeadSnap(c)' => SnapshotFits(c, transit[c][1])'
  BY <1>1, <1>2, <1>6 DEF Viewed, SnapshotFits, HeadSnap, NoNewerThanStore
<1>8. Continuous(c)'
  BY <1>1, <1>2 DEF Viewed, Continuous
<1>9. Viewed(c)'
  BY <1>5, <1>7, <1>8 DEF Viewed
<1>10. ASSUME NEW d \in Clients \ {c} PROVE Viewed(d)'
  BY <1>1, <1>3, ViewKept DEF ViewInv
<1> QED  BY <1>1, <1>9, <1>10 DEF ViewInv

LEMMA ViewStep ==
  ASSUME TypeInv, OrderInv, SyncInv, ViewInv, [Next]_vars
  PROVE  ViewInv'
<1>1. ASSUME NEW id \in EventIds, Triage(id) PROVE ViewInv'
  <2>1. \A c \in Clients : replies'[c] \subseteq replies[c] \cup {[id |-> id, no |-> updates']}
    BY <1>1 DEF Triage
  <2> QED  BY <1>1, <2>1, ViewUpsert DEF Triage
<1>2. ASSUME NEW c \in Clients, NEW id \in EventIds, Operate(c, id) PROVE ViewInv'
  <2>1. (IF kind[id] = "alerting" THEN "handled" ELSE kind[id]) \in Kinds(id)
    BY DEF TypeInv, Kinds
  <2>2. \A d \in Clients : replies'[d] \subseteq replies[d] \cup {[id |-> id, no |-> updates']}
    BY <1>2 DEF Operate, TypeInv
  <2> QED  BY <1>2, <2>1, <2>2, ViewUpsert DEF Operate
<1>3. ASSUME NEW c \in Clients, Connect(c) PROVE ViewInv'
  <2>1. /\ c \notin connected /\ buffer'[c] = <<>> /\ transit'[c] = <<Snapshot>>
        /\ UNCHANGED <<store, updates, lagged, board, replies, gap>>
        /\ \A d \in Clients \ {c} : buffer'[d] = buffer[d] /\ transit'[d] = transit[d]
    BY <1>3 DEF Connect, TypeInv, storeVars
  <2>2. Snapshot.no = updates /\ Snapshot.alarms = store
    BY DEF Snapshot
  <2>3. /\ updates \in Nat /\ \A id \in EventIds : store[id] \in Nat /\ store[id] <= updates
        /\ Viewed(c)
    BY ViewNumbers DEF ViewInv
  <2>4. \A id \in EventIds : Shown(c, id)' = Shown(c, id)
    BY <2>1 DEF Shown
  <2>5. ASSUME NEW id \in EventIds, NEW no \in Shown(c, id) PROVE store[id] = 0 \/ no <= store[id]
    <3>1. CASE no = board[c][id]
      BY <2>3, <3>1 DEF Viewed, NoNewerThanStore
    <3>2. ASSUME NEW reply \in replies[c], reply.id = id, no = reply.no
          PROVE  store[id] = 0 \/ no <= store[id]
      BY <3>2 DEF SyncInv, Synced, NoneNewer, NotNewer
    <3> QED  BY <3>1, <3>2 DEF Shown
  <2>6. SnapshotFits(c, Snapshot)
    BY <2>2, <2>3, <2>5 DEF SnapshotFits, NoNewerThanStore
  <2>7. SnapshotFits(c, transit[c][1])'
    <3>1. transit'[c][1] = Snapshot
      BY <2>1
    <3> QED  BY <2>1, <2>4, <2>6, <3>1 DEF SnapshotFits, NoNewerThanStore
  <2>8. (\A id \in EventIds : NoNewerThanStore(id, board[c][id]))'
    BY <2>1, <2>3 DEF Viewed, NoNewerThanStore
  <2>9. Continuous(c)'
    <3>1. c \notin lagged
      BY <2>1 DEF TypeInv
    <3>2. Len(transit'[c]) = 1 /\ Len(buffer'[c]) = 0 /\ transit'[c][1].no = updates
      BY <2>1, <2>2
    <3>3. updates - 0 - 1 + 1 = updates
      BY <2>3
    <3>4. \A i \in 1 .. 1 : i = 1
      OBVIOUS
    <3> QED  BY <2>1, <3>1, <3>2, <3>3, <3>4 DEF Continuous
  <2>10. Viewed(c)'
    BY <2>7, <2>8, <2>9 DEF Viewed
  <2>11. ASSUME NEW d \in Clients \ {c} PROVE Viewed(d)'
    BY <2>1, ViewKept DEF ViewInv
  <2> QED  BY <2>1, <2>10, <2>11 DEF ViewInv
<1>4. ASSUME NEW c \in Clients, Pump(c) PROVE ViewInv'
  <2>1. /\ UNCHANGED <<store, updates, board, replies, gap>> /\ lagged' = lagged \ {c}
        /\ \A d \in Clients \ {c} : buffer'[d] = buffer[d] /\ transit'[d] = transit[d]
    BY <1>4, PumpEffect DEF Pump, TypeInv, storeVars
  <2>2. ASSUME NEW d \in Clients \ {c} PROVE Viewed(d)'
    BY <2>1, ViewKept DEF ViewInv
  <2>3. Viewed(c)'
    BY <1>4, ViewPump
  <2> QED  BY <2>1, <2>2, <2>3 DEF ViewInv
<1>5. ASSUME NEW c \in Clients, Drop(c) PROVE ViewInv'
  <2>1. /\ transit'[c] = <<>> /\ lagged' = lagged \ {c} /\ gap' = gap \ {c}
        /\ UNCHANGED <<store, updates, board, replies>>
        /\ \A d \in Clients \ {c} : buffer'[d] = buffer[d] /\ transit'[d] = transit[d]
    BY <1>5 DEF Drop, Unsubscribed, TypeInv, storeVars
  <2>2. Viewed(c)'
    <3>1. ~HeadSnap(c)' /\ Continuous(c)'
      BY <2>1 DEF HeadSnap, Continuous
    <3>2. (\A id \in EventIds : NoNewerThanStore(id, board[c][id]))'
      BY <2>1 DEF ViewInv, Viewed, NoNewerThanStore
    <3> QED  BY <3>1, <3>2 DEF Viewed
  <2>3. ASSUME NEW d \in Clients \ {c} PROVE Viewed(d)'
    BY <2>1, ViewKept DEF ViewInv
  <2> QED  BY <2>1, <2>2, <2>3 DEF ViewInv
<1>6. ASSUME NEW c \in Clients, Receive(c) PROVE ViewInv'
  <2>1. /\ UNCHANGED <<store, updates, buffer, lagged, replies, gap>>
        /\ \A d \in Clients \ {c} : transit'[d] = transit[d]
    BY <1>6, ReceiveEffect DEF TypeInv
  <2>2. \A d \in Clients \ {c} : board'[d] = board[d]
    BY <1>6 DEF Receive, ReceiveSnapshot, ReceiveAlarm, TypeInv
  <2>3. ASSUME NEW d \in Clients \ {c} PROVE Viewed(d)'
    BY <2>1, <2>2, ViewKept DEF ViewInv
  <2>4. Viewed(c)'
    BY <1>6, ViewReceive
  <2> QED  BY <2>1, <2>3, <2>4 DEF ViewInv
<1>7. ASSUME NEW c \in Clients, NEW reply \in replies[c], ApplyLocal(c, reply) PROVE ViewInv'
  BY <1>7, ViewApply
<1>8. CASE UNCHANGED vars
  <2>1. UNCHANGED <<buffer, transit, updates, store, lagged, board, replies, gap>>
    BY <1>8 DEF vars, serverVars, storeVars
  <2> QED  BY <2>1, ViewKept DEF ViewInv
<1> QED  BY <1>1, <1>2, <1>3, <1>4, <1>5, <1>6, <1>7, <1>8 DEF Next

LEMMA ViewInit == Init => ViewInv
<1> SUFFICES ASSUME Init PROVE ViewInv
  OBVIOUS
<1>1. /\ updates = 0 /\ gap = {} /\ lagged = {} /\ \A id \in EventIds : store[id] = 0
      /\ \A c \in Clients : transit[c] = <<>> /\ \A id \in EventIds : board[c][id] = 0
  BY DEF Init, Empty
<1>2. ASSUME NEW c \in Clients PROVE Viewed(c)
  <2>1. Continuous(c)
    <3>1. 1 .. Len(transit[c]) = {}
      BY <1>1
    <3> QED  BY <1>1, <3>1 DEF Continuous
  <2> QED  BY <1>1, <2>1 DEF Viewed, NoNewerThanStore, HeadSnap
<1> QED  BY <1>1, <1>2 DEF ViewInv

(* The messages in transit and what the buffer holds, in a row. *)
LEMMA SentSequence ==
  ASSUME NEW t \in Seq(FitMessage), NEW n \in Nat, NEW w, w = [j \in 1 .. n |-> w[j]]
  PROVE  /\ Len(t) \in Nat /\ DOMAIN (t \o w) = 1 .. Len(t) + n
         /\ \A j \in 1 .. Len(t) : (t \o w)[j] = t[j]
         /\ \A j \in 1 .. n : (t \o w)[Len(t) + j] = w[j]
<1> DEFINE k == Len(t)
           S == FitMessage \cup {w[j] : j \in 1 .. n}
           l == t \o w
<1>1. k \in Nat
  BY LenProperties
<1>2. w \in Seq(S) /\ Len(w) = n
  <2>1. w \in [1 .. n -> S]
    OBVIOUS
  <2> HIDE DEF S
  <2>2. w \in Seq(S)
    BY <2>1, SeqDef
  <2>3. Len(w) \in Nat /\ 1 .. Len(w) = 1 .. n
    BY <2>1, <2>2, LenProperties
  <2> QED  BY <2>2, <2>3
<1>3. t \in Seq(S)
  BY SeqMonotonic
<1> HIDE DEF k, S, l
<1>4. /\ l \in Seq(S) /\ Len(l) = k + n
      /\ \A j \in 1 .. k + n : l[j] = IF j <= k THEN t[j] ELSE w[j - k]
  BY <1>2, <1>3, ConcatProperties DEF k, l
<1>5. DOMAIN l = 1 .. k + n
  BY <1>4, LenProperties
<1>6. \A j \in 1 .. k : j \in 1 .. k + n /\ j <= k
  BY <1>1
<1>7. \A j \in 1 .. n : k + j \in 1 .. k + n /\ ~(k + j <= k) /\ (k + j) - k = j
  BY <1>1
<1>8. /\ \A j \in 1 .. k : l[j] = t[j]
      /\ \A j \in 1 .. n : l[k + j] = w[j]
  BY <1>4, <1>6, <1>7
<1> QED  BY <1>1, <1>5, <1>8 DEF k, l

(* To a client that has missed nothing every update since its last message *)
(* is still on its way.                                                    *)
LEMMA NewerIsComing ==
  ASSUME TypeInv, OrderInv, ViewInv, NEW c \in Clients, Receive(c), c \notin gap,
         NEW no \in Nat, no > transit[c][1].no, no <= updates
  PROVE  \E i \in DOMAIN Coming(c)' : Coming(c)'[i].no = no
<1> DEFINE t == transit[c]
           t2 == transit'[c]
           b == buffer[c]
           n == Len(buffer[c])
           k == Len(transit[c])
           w == [j \in DOMAIN buffer'[c] |->
                   [no |-> buffer'[c][j].no, lagged |-> j = 1 /\ c \in lagged']]
           l == Coming(c)'
<1>1. /\ t # <<>> /\ t \in Seq(FitMessage) /\ b \in Seq(FitUpdate) /\ t2 = Tail(t)
      /\ buffer' = buffer /\ updates \in Nat /\ n \in Nat
  <2>1. /\ transit[c] # <<>> /\ transit' = [transit EXCEPT ![c] = Tail(transit[c])]
        /\ buffer' = buffer
    BY ReceiveEffect
  <2>2. transit'[c] = Tail(transit[c])
    BY <2>1 DEF TypeInv
  <2> QED  BY <2>1, <2>2, Numbers
<1>2. /\ Len(t2) = k - 1 /\ t2 \in Seq(FitMessage) /\ k \in Nat \ {0}
      /\ \A i \in 1 .. k - 1 : t2[i] = t[i + 1]
  BY <1>1, TakenElements
<1>3. /\ \A i \in 1 .. k : t[i].no = updates - n - k + i
      /\ \A i \in 1 .. n : b[i].no = updates - n + i
  BY DEF ViewInv, Viewed, Continuous, OrderInv, Ordered, BufferOrder
<1>4. /\ l = t2 \o w
      /\ w = [j \in 1 .. n |-> w[j]] /\ \A j \in 1 .. n : w[j].no = b[j].no
  <2>1. DOMAIN buffer'[c] = 1 .. n
    BY <1>1, LenProperties
  <2> QED  BY <1>1, <2>1 DEF Coming
<1> HIDE DEF t, t2, b, n, k, w, l
<1>5. /\ DOMAIN l = 1 .. (k - 1) + n
      /\ \A j \in 1 .. k - 1 : l[j] = t2[j]
      /\ \A j \in 1 .. n : l[(k - 1) + j].no = b[j].no
  <2>1. /\ DOMAIN l = 1 .. (k - 1) + n
        /\ \A j \in 1 .. k - 1 : l[j] = t2[j]
        /\ \A j \in 1 .. n : l[(k - 1) + j] = w[j]
    BY <1>1, <1>2, <1>4, SentSequence
  <2> QED  BY <1>4, <2>1
<1>6. t[1].no = updates - n - k + 1 /\ no > t[1].no /\ no <= updates
  <2>1. 1 \in 1 .. k
    BY <1>2
  <2>2. t[1].no = updates - n - k + 1
    BY <1>3, <2>1
  <2> QED  BY <2>2 DEF t
<1> DEFINE i == no - (updates - n - k + 1)
<1>7. i \in 1 .. (k - 1) + n /\ no = updates - n - k + 1 + i /\ i \in Nat
  BY <1>1, <1>2, <1>6
<1> HIDE DEF i
<1>8. CASE i <= k - 1
  <2>1. i \in 1 .. k - 1 /\ i + 1 \in 1 .. k
    BY <1>2, <1>7, <1>8
  <2>2. l[i] = t[i + 1] /\ t[i + 1].no = updates - n - k + (i + 1)
    BY <1>2, <1>3, <1>5, <2>1
  <2>3. l[i].no = no
    BY <1>1, <1>2, <1>7, <2>2
  <2> QED  BY <1>5, <1>7, <2>3 DEF l
<1>9. CASE i > k - 1
  <2> DEFINE j == i - (k - 1)
  <2>1. j \in 1 .. n /\ (k - 1) + j = i
    BY <1>1, <1>2, <1>7, <1>9
  <2> HIDE DEF j
  <2>2. l[i].no = updates - n + j
    BY <1>3, <1>5, <2>1
  <2>3. l[i].no = no
    BY <1>1, <1>2, <1>7, <2>1, <2>2
  <2> QED  BY <1>5, <1>7, <2>3 DEF l
<1> QED  BY <1>2, <1>7, <1>8, <1>9

(* A record gives way to an older one from the stream only while it is     *)
(* still coming itself, or was lost, and disappears only if the store has  *)
(* not kept it.                                                            *)
LEMMA StreamStep ==
  ASSUME TypeInv, OrderInv, SyncInv, ViewInv, Next,
         NEW c \in Clients, NEW id \in EventIds,
         board'[c][id] < board[c][id], replies' = replies
  PROVE  \/ board'[c][id] = 0 /\ store[id] # board[c][id]
         \/ c \in gap
         \/ \E i \in DOMAIN Coming(c)' : Coming(c)'[i].no = board[c][id]
<1> DEFINE no == board[c][id]
           h == transit[c][1]
<1>1. no \in Nat /\ NoNewerThanStore(id, no) /\ ~(no < no)
  BY ViewNumbers DEF ViewInv, Viewed
<1>2. board' # board
  BY <1>1
<1>3. PICK d \in Clients : Receive(d)
  <2>1. ASSUME NEW d \in Clients, NEW reply \in replies[d], ApplyLocal(d, reply) PROVE FALSE
    <3>1. replies'[d] = replies[d] \ {reply}
      BY <2>1 DEF ApplyLocal, TypeInv
    <3> QED  BY <3>1
  <2> QED  BY <1>2, <2>1 DEF Next, Triage, Operate, Connect, Pump, Drop
<1>4. d = c
  BY <1>1, <1>3 DEF Receive, ReceiveSnapshot, ReceiveAlarm, TypeInv
<1>5. Receive(c)
  BY <1>3, <1>4
<1>6. /\ h = Head(transit[c]) /\ h \in FitMessage
      /\ HeadSnap(c) <=> h.event = "snapshot"
  BY <1>5, ReceiveEffect, ReceiveComing
<1>7. /\ h.event \in {"alarm", "snapshot"} /\ h.no \in Nat
      /\ h.event = "alarm" => h.id \in EventIds
      /\ h.event = "snapshot" => \A e \in EventIds : h.alarms[e] \in Nat
  <2>1. /\ h.event \in {"alarm", "snapshot"} /\ h.no \in 0 .. MaxUpdates
        /\ h.event = "alarm" => h.id \in EventIds
    BY <1>6, MessageFields
  <2>2. h.no \in Nat
    BY <2>1, StreamAssumption
  <2>3. HeadSnap(c) => \A e \in EventIds : h.alarms[e] \in Nat
    BY ViewNumbers
  <2> QED  BY <1>6, <2>1, <2>2, <2>3
<1>8. no > h.no /\ c \notin gap => \E i \in DOMAIN Coming(c)' : Coming(c)'[i].no = no
  <2>1. no <= updates
    BY <1>1 DEF NoNewerThanStore
  <2> QED  BY <1>1, <1>5, <2>1, NewerIsComing
<1>9. CASE h.event = "alarm"
  <2>1. board'[c] = [board[c] EXCEPT ![h.id] = h.no]
    BY <1>5, <1>6, <1>9 DEF Receive, ReceiveSnapshot, ReceiveAlarm, TypeInv
  <2>2. board'[c][id] = h.no
    <3>1. board[c] \in Alarms
      BY DEF TypeInv
    <3> QED  BY <1>1, <1>7, <1>9, <2>1, <3>1 DEF Alarms
  <2> QED  BY <1>1, <1>7, <1>8, <2>2
<1>10. CASE h.event = "snapshot"
  <2>1. board'[c][id] = h.alarms[id] /\ h.alarms[id] \in Nat
    BY <1>5, <1>6, <1>7, <1>10 DEF Receive, ReceiveSnapshot, ReceiveAlarm, Seeded, TypeInv
  <2>2. /\ h.alarms[id] = 0 => store[id] = 0 \/ store[id] > h.no
        /\ no <= h.no => h.alarms[id] = 0 \/ no <= h.alarms[id]
    <3>1. SnapshotFits(c, h) /\ no \in Shown(c, id)
      BY <1>6, <1>10 DEF ViewInv, Viewed, Shown
    <3> QED  BY <3>1 DEF SnapshotFits
  <2>3. CASE no <= h.no
    <3>1. h.alarms[id] = 0 /\ no > 0
      BY <1>1, <2>1, <2>2, <2>3
    <3>2. store[id] # no
      BY <1>1, <1>7, <2>2, <2>3, <3>1
    <3> QED  BY <2>1, <3>1, <3>2
  <2>4. CASE ~(no <= h.no)
    BY <1>1, <1>7, <1>8, <2>4
  <2> QED  BY <2>3, <2>4
<1> QED  BY <1>7, <1>9, <1>10

(* The stream takes a board back only where a reply was ahead of it, and   *)
(* then brings the newer record too.                                       *)
THEOREM StreamBringsNewer == Spec => StreamMakesUp
<1> DEFINE IInv == TypeInv /\ OrderInv /\ SyncInv /\ ViewInv
           Made == \A c \in Clients, id \in EventIds :
                     board'[c][id] < board[c][id] /\ replies' = replies
                       => \/ board'[c][id] = 0 /\ store[id] # board[c][id]
                          \/ c \in gap
                          \/ \E i \in DOMAIN Coming(c)' : Coming(c)'[i].no = board[c][id]
<1>1. Init => IInv
  BY TypeInit, OrderInit, SyncInit, ViewInit
<1>2. IInv /\ [Next]_vars => IInv'
  BY TypeStep, OrderStep, SyncStep, ViewStep
<1>3. IInv /\ [Next]_vars => [Made]_vars
  BY StreamStep
<1> HIDE DEF IInv, Made
<1>4. Spec => [][Made]_vars
  BY <1>1, <1>2, <1>3, PTL DEF Spec
<1> QED  BY <1>4 DEF Made, StreamMakesUp

-----------------------------------------------------------------------------
(* Alarms nobody acts on.  No reply is on its way for them, every update   *)
(* on its way is newer than the board, and so is a snapshot, which has     *)
(* nothing newer than itself.                                              *)

Ahead(c) ==
  /\ \A reply \in replies[c] : reply.id \in Actionable
  /\ \A a \in ComingAlarms(c) : a.id \notin Actionable => a.no > board[c][a.id]
  /\ HeadSnap(c) => \A id \in EventIds :
       /\ transit[c][1].alarms[id] <= transit[c][1].no
       /\ id \notin Actionable => board[c][id] <= transit[c][1].no

AheadInv == \A c \in Clients : Ahead(c)

(* A client that a step leaves alone. *)
LEMMA AheadKept ==
  ASSUME NEW d \in Clients, Ahead(d), buffer'[d] = buffer[d], transit'[d] = transit[d],
         board'[d] = board[d], replies'[d] \subseteq replies[d]
  PROVE  Ahead(d)'
<1>1. ComingAlarms(d)' = ComingAlarms(d) /\ (HeadSnap(d)' <=> HeadSnap(d))
  BY ComingKept
<1> QED  BY <1>1 DEF Ahead

(* An update of the store is newer than every board. *)
LEMMA AheadUpsert ==
  ASSUME TypeInv, ViewInv, AheadInv,
         NEW id \in EventIds, NEW become \in Kinds(id), Upsert(id, become),
         UNCHANGED <<transit, board>>,
         \A c \in Clients : \A reply \in replies'[c] : reply \in replies[c] \/ reply.id \in Actionable
  PROVE  AheadInv'
<1> SUFFICES ASSUME NEW c \in Clients PROVE Ahead(c)'
  BY DEF AheadInv
<1> DEFINE u == Published(id, become)
<1>1. ComingAlarms(c)' \subseteq ComingAlarms(c) \cup {u} /\ (HeadSnap(c)' <=> HeadSnap(c))
  BY UpsertComing
<1>2. u.id = id /\ u.no = updates + 1
  BY DEF Published
<1>3. board[c][id] <= updates /\ board[c][id] \in Nat /\ updates \in Nat
  BY ViewNumbers DEF ViewInv, Viewed, NoNewerThanStore
<1>4. u.no > board[c][u.id]
  BY <1>2, <1>3
<1> HIDE DEF u
<1> QED  BY <1>1, <1>4 DEF AheadInv, Ahead

(* The browser takes the oldest on its way. *)
LEMMA AheadReceive ==
  ASSUME TypeInv, OrderInv, AheadInv, NEW c \in Clients, Receive(c)
  PROVE  Ahead(c)'
<1> DEFINE h == Head(transit[c])
<1>1. h \in FitMessage /\ replies' = replies
  BY ReceiveEffect
<1>2. /\ h = transit[c][1] /\ (HeadSnap(c) <=> h.event = "snapshot") /\ ~HeadSnap(c)'
      /\ h.event = "snapshot" => ComingAlarms(c)' = ComingAlarms(c)
      /\ h.event = "alarm" => ComingAlarms(c) = {Alarm(h)} \cup ComingAlarms(c)'
      /\ \A a \in ComingAlarms(c)' : a.no > h.no
  BY ReceiveComing
<1>3. ComingAlarms(c)' \subseteq ComingAlarms(c)
  BY <1>1, <1>2, MessageFields
<1>4. \A a \in ComingAlarms(c) : a.id \in EventIds /\ a.no \in Nat
  BY ComingType
<1>5. /\ h.event \in {"alarm", "snapshot"} /\ h.no \in Nat
      /\ h.event = "alarm" => h.id \in EventIds
      /\ h.event = "snapshot" => \A id \in EventIds : h.alarms[id] \in Nat
  <2>1. h.no \in 0 .. MaxUpdates /\ h.event \in {"alarm", "snapshot"}
        /\ (h.event = "alarm" => h.id \in EventIds)
    BY <1>1, MessageFields
  <2> QED  BY <1>2, <2>1, StreamAssumption, ViewNumbers
<1>6. ASSUME NEW a \in ComingAlarms(c)', a.id \notin Actionable PROVE a.no > board'[c][a.id]
  <2>1. CASE h.event = "snapshot"
    <3>1. board'[c][a.id] = h.alarms[a.id]
      BY <2>1 DEF Receive, ReceiveAlarm, ReceiveSnapshot, Seeded, TypeInv
    <3>2. h.alarms[a.id] <= h.no /\ h.no < a.no
      BY <1>2, <1>3, <1>4, <2>1 DEF AheadInv, Ahead
    <3> QED  BY <1>3, <1>4, <1>5, <2>1, <3>1, <3>2
  <2>2. CASE h.event = "alarm"
    <3>1. board'[c] = [board[c] EXCEPT ![h.id] = h.no] /\ board[c] \in Alarms
      BY <2>2 DEF Receive, ReceiveAlarm, ReceiveSnapshot, TypeInv
    <3>2. board'[c][a.id] = IF a.id = h.id THEN h.no ELSE board[c][a.id]
      BY <1>3, <1>4, <3>1 DEF Alarms
    <3>3. a.no > h.no /\ a.no > board[c][a.id]
      BY <1>2, <1>3, <1>6 DEF AheadInv, Ahead
    <3> QED  BY <3>2, <3>3
  <2> QED  BY <1>5, <2>1, <2>2
<1> QED  BY <1>1, <1>2, <1>6 DEF AheadInv, Ahead

LEMMA AheadStep ==
  ASSUME TypeInv, OrderInv, ViewInv, AheadInv, [Next]_vars
  PROVE  AheadInv'
<1>1. ASSUME NEW id \in EventIds, Triage(id) PROVE AheadInv'
  BY <1>1, AheadUpsert DEF Triage
<1>2. ASSUME NEW c \in Clients, NEW id \in EventIds, Operate(c, id) PROVE AheadInv'
  <2>1. (IF kind[id] = "alerting" THEN "handled" ELSE kind[id]) \in Kinds(id)
    BY DEF TypeInv, Kinds
  <2>2. \A d \in Clients : \A reply \in replies'[d] : reply \in replies[d] \/ reply.id \in Actionable
    BY <1>2 DEF Operate, TypeInv
  <2> QED  BY <1>2, <2>1, <2>2, AheadUpsert DEF Operate
<1>3. ASSUME NEW c \in Clients, Connect(c) PROVE AheadInv'
  <2>1. /\ buffer'[c] = <<>> /\ transit'[c] = <<Snapshot>> /\ UNCHANGED <<board, replies>>
        /\ \A d \in Clients \ {c} : buffer'[d] = buffer[d] /\ transit'[d] = transit[d]
    BY <1>3 DEF Connect, TypeInv
  <2>2. Snapshot.no = updates /\ Snapshot.alarms = store /\ Snapshot.event = "snapshot"
    BY DEF Snapshot
  <2>3. ComingFrom(<<>>, <<Snapshot>>) = {}
    BY <2>2, NothingComing
  <2>4. ComingAlarms(c)' = {}
    BY <2>1, <2>3 DEF ComingAlarms, ComingFrom, ToSet, Alarm
  <2>5. transit'[c][1] = Snapshot
    BY <2>1
  <2>6. \A id \in EventIds : store[id] <= updates /\ board[c][id] <= updates
    BY DEF ViewInv, Viewed, NoNewerThanStore
  <2>7. Ahead(c)'
    BY <2>1, <2>2, <2>4, <2>5, <2>6 DEF AheadInv, Ahead
  <2>8. ASSUME NEW d \in Clients \ {c} PROVE Ahead(d)'
    BY <2>1, AheadKept DEF AheadInv
  <2> QED  BY <2>7, <2>8 DEF AheadInv
<1>4. ASSUME NEW c \in Clients, Pump(c) PROVE AheadInv'
  <2>1. /\ UNCHANGED <<board, replies>>
        /\ \A d \in Clients \ {c} : buffer'[d] = buffer[d] /\ transit'[d] = transit[d]
    BY <1>4, PumpEffect DEF Pump, TypeInv
  <2>2. Ahead(c)'
    BY <1>4, <2>1, PumpComing DEF AheadInv, Ahead
  <2>3. ASSUME NEW d \in Clients \ {c} PROVE Ahead(d)'
    BY <2>1, AheadKept DEF AheadInv
  <2> QED  BY <2>2, <2>3 DEF AheadInv
<1>5. ASSUME NEW c \in Clients, Drop(c) PROVE AheadInv'
  <2>1. /\ buffer'[c] = <<>> /\ transit'[c] = <<>> /\ UNCHANGED <<board, replies>>
        /\ \A d \in Clients \ {c} : buffer'[d] = buffer[d] /\ transit'[d] = transit[d]
    BY <1>5 DEF Drop, TypeInv
  <2>2. ComingFrom(<<>>, <<>>) = {}
    BY NothingComing
  <2>3. ComingAlarms(c)' = {} /\ ~HeadSnap(c)'
    BY <2>1, <2>2 DEF ComingAlarms, ComingFrom, ToSet, Alarm, HeadSnap
  <2>4. Ahead(c)'
    BY <2>1, <2>3 DEF AheadInv, Ahead
  <2>5. ASSUME NEW d \in Clients \ {c} PROVE Ahead(d)'
    BY <2>1, AheadKept DEF AheadInv
  <2> QED  BY <2>4, <2>5 DEF AheadInv
<1>6. ASSUME NEW c \in Clients, Receive(c) PROVE AheadInv'
  <2>1. /\ UNCHANGED <<buffer, replies>>
        /\ \A d \in Clients \ {c} : transit'[d] = transit[d]
    BY <1>6, ReceiveEffect DEF TypeInv
  <2>2. \A d \in Clients \ {c} : board'[d] = board[d]
    BY <1>6 DEF Receive, ReceiveSnapshot, ReceiveAlarm, TypeInv
  <2>3. ASSUME NEW d \in Clients \ {c} PROVE Ahead(d)'
    BY <2>1, <2>2, AheadKept DEF AheadInv
  <2> QED  BY <1>6, <2>3, AheadReceive DEF AheadInv
<1>7. ASSUME NEW c \in Clients, NEW reply \in replies[c], ApplyLocal(c, reply) PROVE AheadInv'
  <2>1. /\ UNCHANGED <<buffer, transit>>
        /\ replies'[c] = replies[c] \ {reply}
        /\ board'[c] = [board[c] EXCEPT ![reply.id] = reply.no]
        /\ \A d \in Clients \ {c} : board'[d] = board[d] /\ replies'[d] = replies[d]
    BY <1>7 DEF ApplyLocal, serverVars, TypeInv
  <2>2. reply.id \in Actionable /\ board[c] \in Alarms
    BY DEF AheadInv, Ahead, TypeInv
  <2>3. \A id \in EventIds \ Actionable : board'[c][id] = board[c][id]
    BY <2>1, <2>2 DEF Alarms
  <2>4. ComingAlarms(c)' = ComingAlarms(c) /\ (HeadSnap(c)' <=> HeadSnap(c))
    BY <2>1, ComingKept
  <2>5. \A a \in ComingAlarms(c) : a.id \in EventIds
    BY ComingType
  <2>6. Ahead(c)'
    BY <2>1, <2>3, <2>4, <2>5 DEF AheadInv, Ahead
  <2>7. ASSUME NEW d \in Clients \ {c} PROVE Ahead(d)'
    BY <2>1, AheadKept DEF AheadInv
  <2> QED  BY <2>6, <2>7 DEF AheadInv
<1>8. CASE UNCHANGED vars
  <2>1. UNCHANGED <<buffer, transit, board, replies>>
    BY <1>8 DEF vars, serverVars
  <2> QED  BY <2>1, AheadKept DEF AheadInv
<1> QED  BY <1>1, <1>2, <1>3, <1>4, <1>5, <1>6, <1>7, <1>8 DEF Next

LEMMA AheadInit == Init => AheadInv
<1> SUFFICES ASSUME Init, NEW c \in Clients PROVE Ahead(c)
  BY DEF AheadInv
<1>1. buffer[c] = <<>> /\ transit[c] = <<>> /\ replies[c] = {}
  BY DEF Init
<1>2. ComingAlarms(c) = {} /\ ~HeadSnap(c)
  BY <1>1, NothingComing DEF ComingAlarms, HeadSnap
<1> QED  BY <1>1, <1>2 DEF Ahead

(* The record of an alarm nobody acts on never gives way to an older one. *)
LEMMA UntouchedStep ==
  ASSUME TypeInv, OrderInv, ViewInv, AheadInv, Next,
         NEW c \in Clients, NEW id \in EventIds \ Actionable,
         board'[c][id] < board[c][id]
  PROVE  board'[c][id] = 0 /\ store[id] # board[c][id]
<1> DEFINE no == board[c][id]
           h == transit[c][1]
<1>1. no \in Nat /\ ~(no < no) /\ store[id] \in Nat
  BY ViewNumbers
<1>2. board' # board
  BY <1>1
<1>3. PICK d \in Clients : Receive(d)
  <2>1. ASSUME NEW d \in Clients, NEW reply \in replies[d], ApplyLocal(d, reply) PROVE FALSE
    <3>1. board' = [board EXCEPT ![d][reply.id] = reply.no] /\ reply.id # id
      BY <2>1 DEF ApplyLocal, AheadInv, Ahead
    <3>2. board'[c][id] = board[c][id]
      BY <3>1 DEF TypeInv, Alarms
    <3> QED  BY <1>1, <3>2
  <2> QED  BY <1>2, <2>1 DEF Next, Triage, Operate, Connect, Pump, Drop
<1>4. Receive(c)
  <2>1. d = c
    BY <1>1, <1>3 DEF Receive, ReceiveSnapshot, ReceiveAlarm, TypeInv
  <2> QED  BY <1>3, <2>1
<1>5. /\ h = Head(transit[c]) /\ h \in FitMessage
      /\ HeadSnap(c) <=> h.event = "snapshot"
      /\ h.event = "alarm" => Alarm(h) \in ComingAlarms(c)
  BY <1>4, ReceiveEffect, ReceiveComing
<1>6. /\ h.event \in {"alarm", "snapshot"}
      /\ h.event = "alarm" => h.id \in EventIds
  BY <1>5, MessageFields
<1>7. CASE h.event = "alarm"
  <2>1. board'[c] = [board[c] EXCEPT ![h.id] = h.no] /\ board[c] \in Alarms
    BY <1>4, <1>5, <1>7 DEF Receive, ReceiveSnapshot, ReceiveAlarm, TypeInv
  <2>2. h.id = id /\ board'[c][id] = h.no
    BY <1>1, <1>6, <1>7, <2>1 DEF Alarms
  <2>3. Alarm(h).id = id /\ Alarm(h).no = h.no
    BY <2>2 DEF Alarm
  <2>4. h.no > no
    BY <1>5, <1>7, <2>3 DEF AheadInv, Ahead
  <2>5. h.no \in Nat
    BY <1>5, <1>7, <2>3, ComingType
  <2> QED  BY <1>1, <2>2, <2>4, <2>5
<1>8. CASE h.event = "snapshot"
  <2>1. board'[c][id] = h.alarms[id] /\ h.alarms[id] \in Nat /\ h.no \in Nat
    <3>1. h.alarms[id] \in Nat /\ h.no \in Nat
      BY <1>5, <1>8, ViewNumbers
    <3> QED  BY <1>4, <1>5, <1>8, <3>1 DEF Receive, ReceiveSnapshot, ReceiveAlarm, Seeded, TypeInv
  <2>2. no <= h.no
    BY <1>5, <1>8 DEF AheadInv, Ahead
  <2>3. /\ h.alarms[id] = 0 => store[id] = 0 \/ store[id] > h.no
        /\ no <= h.no => h.alarms[id] = 0 \/ no <= h.alarms[id]
    <3>1. SnapshotFits(c, h) /\ no \in Shown(c, id)
      BY <1>5, <1>8 DEF ViewInv, Viewed, Shown
    <3> QED  BY <3>1 DEF SnapshotFits
  <2>4. h.alarms[id] = 0 /\ no > 0
    BY <1>1, <2>1, <2>2, <2>3
  <2> QED  BY <1>1, <2>1, <2>2, <2>3, <2>4
<1> QED  BY <1>6, <1>7, <1>8

(* Whatever buffers overflow and connections break, an alarm nobody acts   *)
(* on never goes back on a board.                                          *)
THEOREM NeverBackUntouched == Spec => UntouchedMovesOn
<1> DEFINE IInv == TypeInv /\ OrderInv /\ SyncInv /\ ViewInv /\ AheadInv
           Forward == \A c \in Clients, id \in EventIds \ Actionable :
                        board'[c][id] < board[c][id] => board'[c][id] = 0 /\ store[id] # board[c][id]
<1>1. Init => IInv
  BY TypeInit, OrderInit, SyncInit, ViewInit, AheadInit
<1>2. IInv /\ [Next]_vars => IInv'
  BY TypeStep, OrderStep, SyncStep, ViewStep, AheadStep
<1>3. IInv /\ [Next]_vars => [Forward]_vars
  BY UntouchedStep
<1> HIDE DEF IInv, Forward
<1>4. Spec => [][Forward]_vars
  BY <1>1, <1>2, <1>3, PTL DEF Spec
<1> QED  BY <1>4 DEF Forward, UntouchedMovesOn

-----------------------------------------------------------------------------
(* Sound.  A tone, or the silence in its place, is of an announced alarm;  *)
(* while no connection was lost an announced alarm had the one or the      *)
(* other or was there when the page loaded, and the page loads with the    *)
(* first snapshot; and an alarm that is critical and active is announced   *)
(* or its announcement is on its way.                                      *)

Loaded(c) == UNION onLoad[c]

ToneTold(c, id) ==
  /\ chirps[c][id] <= IF id \in silenced[c] THEN 0 ELSE 1
  /\ chirps[c][id] = 1 \/ id \in silenced[c] => id \in announced[c]
  /\ drops = 0 /\ id \in announced[c] => chirps[c][id] = 1 \/ id \in silenced[c] \cup Loaded(c)

LoadsOnce(c) == drops = 0 /\ (c \notin connected \/ HeadSnap(c)) => onLoad[c] = {}

WillAlert(c, id) ==
  \/ id \in announced[c]
  \/ \E a \in ComingAlarms(c) : a.id = id /\ a.kind = "alerting"
  \/ HeadSnap(c) /\ id \in transit[c][1].critical

Sounding(c) ==
  /\ \A id \in MayBeCritical : ToneTold(c, id)
  /\ LoadsOnce(c)
  /\ c \in connected \ gap => \A id \in EventIds : kind[id] = "alerting" => WillAlert(c, id)

SoundInv == \A c \in Clients : Sounding(c)

(* A client that a step leaves alone. *)
LEMMA SoundKept ==
  ASSUME NEW d \in Clients, Sounding(d),
         buffer'[d] = buffer[d], transit'[d] = transit[d],
         announced'[d] = announced[d], chirps'[d] = chirps[d],
         silenced'[d] = silenced[d], onLoad'[d] = onLoad[d],
         kind' = kind, drops' = 0 => drops = 0,
         d \in connected => d \in connected',
         d \in connected' \ gap' => d \in connected \ gap
  PROVE  Sounding(d)'
<1>1. ComingAlarms(d)' = ComingAlarms(d) /\ (HeadSnap(d)' <=> HeadSnap(d))
  BY ComingKept
<1>2. \A id \in MayBeCritical : ToneTold(d, id)'
  BY DEF Sounding, ToneTold, Loaded
<1>3. LoadsOnce(d)'
  BY <1>1 DEF Sounding, LoadsOnce
<1>4. \A id : WillAlert(d, id) => WillAlert(d, id)'
  BY <1>1 DEF WillAlert
<1> QED  BY <1>2, <1>3, <1>4 DEF Sounding

(* An update of the store. *)
LEMMA SoundUpsert ==
  ASSUME TypeInv, SoundInv, NEW id \in EventIds, NEW become \in Kinds(id), Upsert(id, become),
         UNCHANGED <<transit, connected, drops, announced, chirps, silenced, onLoad>>
  PROVE  SoundInv'
<1> SUFFICES ASSUME NEW c \in Clients PROVE Sounding(c)'
  BY DEF SoundInv
<1> DEFINE u == Published(id, become)
<1>1. /\ c \in connected /\ ~Overflows(c) => ComingAlarms(c)' = ComingAlarms(c) \cup {u}
      /\ HeadSnap(c)' <=> HeadSnap(c)
  BY UpsertComing
<1>2. u.id = id /\ u.kind = become
  BY DEF Published
<1> HIDE DEF u
<1>3. Sounding(c)
  BY DEF SoundInv
<1>4. (\A e \in MayBeCritical : ToneTold(c, e)') /\ LoadsOnce(c)'
  BY <1>1, <1>3 DEF Sounding, ToneTold, Loaded, LoadsOnce
<1>5. ASSUME c \in connected' \ gap', NEW e \in EventIds, kind'[e] = "alerting"
      PROVE  WillAlert(c, e)'
  <2>1. c \in connected \ gap /\ ~Overflows(c)
    BY <1>5 DEF Upsert
  <2>2. ComingAlarms(c)' = ComingAlarms(c) \cup {u}
    BY <1>1, <2>1
  <2>3. CASE e = id
    <3>1. become = "alerting"
      BY <1>5, <2>3 DEF Upsert
    <3> QED  BY <1>2, <2>2, <2>3, <3>1 DEF WillAlert
  <2>4. CASE e # id
    <3>1. kind[e] = "alerting"
      BY <1>5, <2>4 DEF Upsert
    <3>2. WillAlert(c, e)
      BY <1>3, <2>1, <3>1 DEF Sounding
    <3> QED  BY <1>1, <2>2, <3>2 DEF WillAlert
  <2> QED  BY <2>3, <2>4
<1> QED  BY <1>4, <1>5 DEF Sounding

(* The browser gets the next message. *)
LEMMA SoundReceive ==
  ASSUME TypeInv, OrderInv, SoundInv, NEW c \in Clients, Receive(c)
  PROVE  SoundInv'
<1> DEFINE h == Head(transit[c])
<1>1. /\ h \in FitMessage /\ transit' = [transit EXCEPT ![c] = Tail(transit[c])]
      /\ buffer' = buffer /\ kind' = kind /\ drops' = drops /\ connected' = connected
      /\ gap' = gap
  BY ReceiveEffect
<1>2. /\ h = transit[c][1] /\ (HeadSnap(c) <=> h.event = "snapshot") /\ ~HeadSnap(c)'
      /\ h.event = "snapshot" => ComingAlarms(c)' = ComingAlarms(c)
      /\ h.event = "alarm" => ComingAlarms(c) = {Alarm(h)} \cup ComingAlarms(c)'
  BY ReceiveComing
<1>3. c \in connected
  BY ReceiveEffect DEF OrderInv, Ordered
<1>4. ASSUME NEW d \in Clients \ {c} PROVE Sounding(d)'
  <2>1. transit'[d] = transit[d]
    BY <1>1 DEF TypeInv
  <2>2. /\ announced'[d] = announced[d] /\ chirps'[d] = chirps[d]
        /\ silenced'[d] = silenced[d] /\ onLoad'[d] = onLoad[d]
    <3>1. CASE ReceiveSnapshot(c)
      BY <3>1 DEF ReceiveSnapshot, TypeInv
    <3>2. CASE ReceiveAlarm(c)
      BY <3>2 DEF ReceiveAlarm, Announce, TypeInv
    <3> QED  BY <3>1, <3>2 DEF Receive
  <2> QED  BY <1>1, <2>1, <2>2, SoundKept DEF SoundInv
<1>5. Sounding(c)
  BY DEF SoundInv
<1>6. LoadsOnce(c)'
  BY <1>1, <1>2, <1>3 DEF LoadsOnce
<1>7. CASE h.event = "snapshot"
  <2>1. ReceiveSnapshot(c)
    BY <1>7 DEF Receive, ReceiveAlarm
  <2>2. /\ announced'[c] = announced[c] \cup h.critical /\ chirps' = chirps /\ silenced' = silenced
        /\ onLoad'[c] = IF onLoad[c] = {} THEN {h.critical} ELSE onLoad[c]
    BY <2>1 DEF ReceiveSnapshot, SeededIds, TypeInv
  <2> HIDE DEF h
  <2>3. ASSUME NEW id \in MayBeCritical PROVE ToneTold(c, id)'
    <3>1. ToneTold(c, id)
      BY <1>5 DEF Sounding
    <3>2. /\ chirps'[c][id] <= IF id \in silenced'[c] THEN 0 ELSE 1
          /\ chirps'[c][id] = 1 \/ id \in silenced'[c] => id \in announced'[c]
      BY <2>2, <3>1 DEF ToneTold
    <3>3. ASSUME drops' = 0, id \in announced'[c]
          PROVE  chirps'[c][id] = 1 \/ id \in silenced'[c] \cup Loaded(c)'
      <4>1. onLoad[c] = {}
        BY <1>1, <1>2, <1>5, <1>7, <3>3 DEF Sounding, LoadsOnce
      <4>2. Loaded(c)' = h.critical /\ Loaded(c) = {}
        BY <2>2, <4>1 DEF Loaded
      <4> QED  BY <1>1, <2>2, <3>1, <3>3, <4>2 DEF ToneTold
    <3> QED  BY <3>2, <3>3 DEF ToneTold
  <2>4. ASSUME NEW id, WillAlert(c, id) PROVE WillAlert(c, id)'
    BY <1>2, <1>7, <2>2, <2>4 DEF WillAlert
  <2>5. Sounding(c)'
    BY <1>1, <1>5, <1>6, <2>3, <2>4 DEF Sounding
  <2> QED  BY <1>4, <2>5 DEF SoundInv
<1>8. CASE h.event = "alarm"
  <2>1. ReceiveAlarm(c)
    BY <1>8 DEF Receive, ReceiveSnapshot
  <2>2. /\ onLoad' = onLoad
        /\ \/ IsNewCritical(c, h) /\ Announce(c, h.id)
           \/ ~IsNewCritical(c, h) /\ UNCHANGED <<announced, chirps, silenced>>
    BY <2>1 DEF ReceiveAlarm
  <2>3. h.id \in EventIds /\ h.kind \in Kinds(h.id)
    BY <1>1, <1>8, MessageFields
  <2> HIDE DEF h
  <2>4. /\ announced[c] \subseteq announced'[c]
        /\ h.kind = "alerting" => h.id \in announced'[c]
    BY <2>2 DEF IsNewCritical, Announce, TypeInv
  <2>5. ASSUME NEW id \in MayBeCritical PROVE ToneTold(c, id)'
    <3>1. ToneTold(c, id) /\ chirps[c][id] \in 0 .. 2
      BY <1>5 DEF Sounding, TypeInv
    <3>2. CASE IsNewCritical(c, h) /\ id = h.id
      <4>1. chirps[c][id] = 0 /\ id \notin silenced[c]
        <5>1. id \notin announced[c]
          BY <3>2 DEF IsNewCritical
        <5>2. chirps[c][id] <= 1 /\ chirps[c][id] # 1 /\ id \notin silenced[c]
          BY <3>1, <5>1 DEF ToneTold
        <5> QED  BY <3>1, <5>2
      <4>2. Announce(c, id)
        BY <2>2, <3>2
      <4>3. id \in announced'[c]
        BY <4>2 DEF Announce, TypeInv
      <4>4. \/ chirps'[c][id] = 1 /\ id \notin silenced'[c]
            \/ chirps'[c][id] = 0 /\ id \in silenced'[c]
        <5>1. CASE chirps' = [chirps EXCEPT ![c][id] = IF @ < 2 THEN @ + 1 ELSE @] /\ UNCHANGED silenced
          <6>1. chirps'[c][id] = IF chirps[c][id] < 2 THEN chirps[c][id] + 1 ELSE chirps[c][id]
            BY <5>1 DEF TypeInv
          <6> QED  BY <4>1, <5>1, <6>1
        <5>2. CASE silenced' = [silenced EXCEPT ![c] = @ \cup {id}] /\ UNCHANGED chirps
          BY <4>1, <5>2 DEF TypeInv
        <5> QED  BY <4>2, <5>1, <5>2 DEF Announce
      <4> QED  BY <4>3, <4>4 DEF ToneTold
    <3>3. CASE ~(IsNewCritical(c, h) /\ id = h.id)
      <4>1. /\ chirps'[c][id] = chirps[c][id]
            /\ id \in announced'[c] <=> id \in announced[c]
            /\ id \in silenced'[c] <=> id \in silenced[c]
        <5>1. CASE IsNewCritical(c, h)
          <6>1. id # h.id /\ Announce(c, h.id)
            BY <2>2, <3>3, <5>1
          <6>2. chirps'[c][id] = chirps[c][id]
            BY <6>1 DEF Announce, TypeInv
          <6>3. id \in announced'[c] <=> id \in announced[c]
            BY <6>1 DEF Announce, TypeInv
          <6>4. id \in silenced'[c] <=> id \in silenced[c]
            BY <6>1 DEF Announce, TypeInv
          <6> QED  BY <6>2, <6>3, <6>4
        <5>2. CASE ~IsNewCritical(c, h)
          BY <2>2, <5>2
        <5> QED  BY <5>1, <5>2
      <4> QED  BY <1>1, <2>2, <3>1, <4>1 DEF ToneTold, Loaded
    <3> QED  BY <3>2, <3>3
  <2>6. ASSUME NEW id, WillAlert(c, id) PROVE WillAlert(c, id)'
    <3>1. CASE id \in announced[c]
      BY <2>4, <3>1 DEF WillAlert
    <3>2. ASSUME NEW a \in ComingAlarms(c), a.id = id, a.kind = "alerting"
          PROVE  WillAlert(c, id)'
      <4>1. CASE a = Alarm(h)
        BY <2>4, <3>2, <4>1 DEF WillAlert, Alarm
      <4>2. CASE a \in ComingAlarms(c)'
        BY <3>2, <4>2 DEF WillAlert
      <4> QED  BY <1>2, <1>8, <4>1, <4>2
    <3> QED  BY <1>2, <1>8, <2>6, <3>1, <3>2 DEF WillAlert
  <2>7. Sounding(c)'
    BY <1>1, <1>5, <1>6, <2>5, <2>6 DEF Sounding
  <2> QED  BY <1>4, <2>7 DEF SoundInv
<1> QED  BY <1>1, <1>7, <1>8, MessageFields

(* Every step keeps the tones. *)
LEMMA SoundStep ==
  ASSUME TypeInv, OrderInv, SoundInv, [Next]_vars
  PROVE  SoundInv'
<1>1. ASSUME NEW id \in EventIds, Triage(id) PROVE SoundInv'
  BY <1>1, SoundUpsert DEF Triage, soundVars
<1>2. ASSUME NEW c \in Clients, NEW id \in EventIds, Operate(c, id) PROVE SoundInv'
  <2>1. (IF kind[id] = "alerting" THEN "handled" ELSE kind[id]) \in Kinds(id)
    BY DEF TypeInv, Kinds
  <2> QED  BY <1>2, <2>1, SoundUpsert DEF Operate, soundVars
<1>3. ASSUME NEW c \in Clients, Connect(c) PROVE SoundInv'
  <2>1. /\ transit'[c] = <<Snapshot>> /\ c \notin connected
        /\ \A d \in Clients \ {c} : buffer'[d] = buffer[d] /\ transit'[d] = transit[d]
        /\ connected' = connected \cup {c}
        /\ UNCHANGED <<kind, drops, gap, announced, chirps, silenced, onLoad>>
    BY <1>3 DEF Connect, TypeInv, storeVars, soundVars
  <2>2. /\ Snapshot.event = "snapshot"
        /\ \A id \in EventIds : kind[id] = "alerting" => id \in Snapshot.critical
    BY DEF Snapshot
  <2>3. transit'[c][1] = Snapshot /\ transit'[c] # <<>>
    BY <2>1
  <2>4. Sounding(c)
    BY DEF SoundInv
  <2>5. (\A id \in MayBeCritical : ToneTold(c, id)') /\ LoadsOnce(c)'
    BY <2>1, <2>4 DEF Sounding, ToneTold, Loaded, LoadsOnce
  <2>6. \A id \in EventIds : kind'[id] = "alerting" => WillAlert(c, id)'
    BY <2>1, <2>2, <2>3 DEF WillAlert, HeadSnap
  <2>7. Sounding(c)'
    BY <2>5, <2>6 DEF Sounding
  <2>8. ASSUME NEW d \in Clients \ {c} PROVE Sounding(d)'
    BY <2>1, SoundKept DEF SoundInv
  <2> QED  BY <2>7, <2>8 DEF SoundInv
<1>4. ASSUME NEW c \in Clients, Pump(c) PROVE SoundInv'
  <2>1. /\ UNCHANGED <<kind, drops, connected, gap, announced, chirps, silenced, onLoad>>
        /\ \A d \in Clients \ {c} : buffer'[d] = buffer[d] /\ transit'[d] = transit[d]
    BY <1>4, PumpEffect DEF Pump, TypeInv, storeVars, soundVars
  <2>2. /\ ComingAlarms(c)' = ComingAlarms(c) /\ (HeadSnap(c)' <=> HeadSnap(c))
        /\ HeadSnap(c) => transit'[c][1] = transit[c][1]
    BY <1>4, PumpComing
  <2>3. Sounding(c)
    BY DEF SoundInv
  <2>4. (\A id \in MayBeCritical : ToneTold(c, id)') /\ LoadsOnce(c)'
    BY <2>1, <2>2, <2>3 DEF Sounding, ToneTold, Loaded, LoadsOnce
  <2>5. \A id : WillAlert(c, id) => WillAlert(c, id)'
    BY <2>1, <2>2 DEF WillAlert
  <2>6. Sounding(c)'
    BY <2>1, <2>3, <2>4, <2>5 DEF Sounding
  <2>7. ASSUME NEW d \in Clients \ {c} PROVE Sounding(d)'
    BY <2>1, SoundKept DEF SoundInv
  <2> QED  BY <2>6, <2>7 DEF SoundInv
<1>5. ASSUME NEW c \in Clients, Drop(c) PROVE SoundInv'
  <2>1. /\ UNCHANGED <<kind, announced, chirps, silenced, onLoad>>
        /\ \A d \in Clients \ {c} : buffer'[d] = buffer[d] /\ transit'[d] = transit[d]
        /\ connected' = connected \ {c} /\ gap' = gap \ {c}
    BY <1>5 DEF Drop, TypeInv, storeVars, soundVars
  <2>2. drops' # 0
    <3>1. drops \in Nat /\ drops' = drops + 1
      BY <1>5, StreamAssumption DEF Drop, TypeInv
    <3> QED  BY <3>1
  <2>3. Sounding(c)
    BY DEF SoundInv
  <2>4. (\A id \in MayBeCritical : ToneTold(c, id)') /\ LoadsOnce(c)'
    BY <2>1, <2>2, <2>3 DEF Sounding, ToneTold, Loaded, LoadsOnce
  <2>5. Sounding(c)'
    BY <2>1, <2>4 DEF Sounding
  <2>6. ASSUME NEW d \in Clients \ {c} PROVE Sounding(d)'
    BY <2>1, <2>2, SoundKept DEF SoundInv
  <2> QED  BY <2>5, <2>6 DEF SoundInv
<1>6. ASSUME NEW c \in Clients, Receive(c) PROVE SoundInv'
  BY <1>6, SoundReceive
<1>7. ASSUME NEW c \in Clients, NEW reply \in replies[c], ApplyLocal(c, reply) PROVE SoundInv'
  <2>1. UNCHANGED <<kind, buffer, transit, connected, drops, gap, announced, chirps, silenced, onLoad>>
    BY <1>7 DEF ApplyLocal, serverVars, storeVars, soundVars
  <2> QED  BY <2>1, SoundKept DEF SoundInv
<1>8. CASE UNCHANGED vars
  <2>1. UNCHANGED <<kind, buffer, transit, connected, drops, gap, announced, chirps, silenced, onLoad>>
    BY <1>8 DEF vars, serverVars, storeVars, soundVars
  <2> QED  BY <2>1, SoundKept DEF SoundInv
<1> QED  BY <1>1, <1>2, <1>3, <1>4, <1>5, <1>6, <1>7, <1>8 DEF Next

LEMMA SoundInit == Init => SoundInv
<1> SUFFICES ASSUME Init, NEW c \in Clients PROVE Sounding(c)
  BY DEF SoundInv
<1>1. /\ announced[c] = {} /\ onLoad[c] = {} /\ connected = {} /\ silenced[c] = {}
      /\ \A id \in MayBeCritical : chirps[c][id] = 0
  BY DEF Init
<1> QED  BY <1>1 DEF Sounding, ToneTold, LoadsOnce

(* No alarm chirps twice, through any reconnections and however the sound  *)
(* is switched; and while a connection holds and loses nothing, every      *)
(* alarm that is critical and active has chirped, had its moment while     *)
(* the sound was off, or was there when the page loaded.                   *)
THEOREM OneChirpEach == Spec => []ChirpsOnce
<1>1. Init => TypeInv /\ OrderInv /\ SoundInv
  BY TypeInit, OrderInit, SoundInit
<1>2. TypeInv /\ OrderInv /\ SoundInv /\ [Next]_vars => (TypeInv /\ OrderInv /\ SoundInv)'
  BY TypeStep, OrderStep, SoundStep
<1>3. TypeInv /\ SoundInv => ChirpsOnce
  <2> SUFFICES ASSUME TypeInv, SoundInv, NEW c \in Clients, NEW id \in MayBeCritical
               PROVE  /\ chirps[c][id] <= IF id \in silenced[c] THEN 0 ELSE 1
                      /\ Outstanding(c, id) /\ drops = 0
                           => chirps[c][id] = 1 \/ id \in silenced[c] \cup UNION onLoad[c]
    BY DEF ChirpsOnce
  <2>1. Sounding(c) /\ ToneTold(c, id)
    BY DEF SoundInv, Sounding
  <2>2. ASSUME Outstanding(c, id), drops = 0
        PROVE  chirps[c][id] = 1 \/ id \in silenced[c] \cup UNION onLoad[c]
    <3>1. /\ c \in connected \ gap /\ ComingAlarms(c) = {} /\ ~HeadSnap(c) /\ kind[id] = "alerting"
          /\ id \in EventIds
      BY <2>2, QuietMeansNothing, StreamAssumption DEF Outstanding
    <3>2. WillAlert(c, id)
      BY <2>1, <3>1 DEF Sounding
    <3>3. id \in announced[c]
      BY <3>1, <3>2 DEF WillAlert
    <3> QED  BY <2>1, <2>2, <3>3 DEF ToneTold, Loaded
  <2> QED  BY <2>1, <2>2 DEF ToneTold
<1> QED  BY <1>1, <1>2, <1>3, PTL DEF Spec
=============================================================================
