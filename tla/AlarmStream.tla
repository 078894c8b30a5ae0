----------------------------- MODULE AlarmStream -----------------------------
(***************************************************************************)
(* From the alarm store to the operator's screen: AlarmStore's fan-out to  *)
(* its subscribers, the SSE stream of one dashboard (_stream_events) and   *)
(* the dashboard's own map of alarms (useAlarmStream), with the replies of *)
(* the acknowledge and resolve requests arriving beside the stream.        *)
(*                                                                         *)
(* The store's updates are numbered: a record is the number of the update  *)
(* that wrote it, 0 standing for none, and what the dashboard's sound asks *)
(* of it.  The rest of its content is in AlarmPipeline.                    *)
(*                                                                         *)
(* Between a subscriber's buffer and the browser a message passes through  *)
(* the pump's hands, the merged queue and the socket, each a FIFO that     *)
(* makes the one before it wait: together one FIFO of Transit messages.    *)
(* Metrics messages share it and change nothing here.                      *)
(***************************************************************************)
EXTENDS Integers, Sequences, FiniteSets, SequencesExt

CONSTANTS Clients, EventIds,
          Actionable,        \* the alarms the operators act on
          MayBeCritical,     \* the alarms a verdict can make critical
          StoreCapacity,     \* Settings.store_capacity
          SubscriberBuffer,  \* SUBSCRIBER_BUFFER
          Transit,           \* messages between the buffer and the browser
          MaxUpdates,        \* bound: updates of the store in a behaviour
          MaxDrops           \* bound: connections lost in a behaviour

ASSUME StreamAssumption ==
  /\ Actionable \subseteq EventIds /\ MayBeCritical \subseteq EventIds
  /\ StoreCapacity \in Nat \ {0}
  /\ SubscriberBuffer \in Nat \ {0}
  /\ Transit \in Nat \ {0}
  /\ MaxUpdates \in Nat /\ MaxDrops \in Nat

VARIABLES
  store,       \* AlarmStore._records
  kind,        \* per alarm: not critical, critical and active, or handled
  updates,     \* how many updates the store has published
  connected,   \* the clients with a subscription
  buffer,      \* per client: its queue in AlarmStore._subscribers
  lagged,      \* AlarmStore._lagged: the clients whose buffer overflowed
  transit,     \* per client: the messages on their way to the browser
  board,       \* per client: the alarms of useAlarmStream's state
  announced,   \* per client: announcedRef
  replies,     \* per client: the HTTP responses on their way to it
  drops,       \* how many connections were lost
  gap,         \* history: the clients that missed an update since they connected
  overwritten, \* history: the clients whose board went back to an older record
  chirps,      \* history: per client and alarm, the tones played, up to two
  silenced,    \* history: per client, the alarms announced with the sound off
  onLoad       \* history: per client, the alarms critical when the page loaded:
               \* a set of one set, empty before

storeVars == <<store, kind, updates>>
serverVars == <<storeVars, buffer, lagged>>
soundVars == <<announced, chirps, silenced, onLoad>>
vars == <<serverVars, connected, transit, board, replies, drops, gap, overwritten,
          soundVars>>

Empty == [id \in EventIds |-> 0]

Retained == {id \in EventIds : store[id] # 0}

-----------------------------------------------------------------------------
(* AlarmStore *)

(* Which alarm goes when the store is full is AlarmPipeline's affair: here *)
(* any but the one written.                                                *)
Stored(id) ==
  LET written == [store EXCEPT ![id] = updates + 1]
  IN IF Cardinality(Retained \cup {id}) <= StoreCapacity THEN {written}
     ELSE {[written EXCEPT ![gone] = 0] : gone \in Retained \ {id}}

Overflows(c) == Len(buffer[c]) >= SubscriberBuffer

Offered_Newest(c, update) ==
  IF Overflows(c) THEN buffer[c] ELSE Append(buffer[c], update)

Offered_Lifo(c, update) ==
  <<update>> \o (IF Overflows(c) THEN Front(buffer[c]) ELSE buffer[c])

Kinds(id) == IF id \in MayBeCritical THEN {"calm", "alerting", "handled"} ELSE {"calm"}

(* A full buffer loses its oldest update; publishing never waits. *)
Offered(c, update) ==
  Append(IF Overflows(c) THEN Tail(buffer[c]) ELSE buffer[c], update)

Upsert(id, become) ==
  /\ updates < MaxUpdates
  /\ store' \in Stored(id)
  /\ kind' = [e \in EventIds |-> IF e = id THEN become
                                 ELSE IF store'[e] = 0 THEN "calm" ELSE kind[e]]
  /\ updates' = updates + 1
  /\ buffer' = [c \in Clients |->
                  IF c \in connected THEN Offered(c, [id |-> id, no |-> updates', kind |-> become])
                  ELSE buffer[c]]
  /\ lagged' = lagged \cup {c \in connected : Overflows(c)}
  /\ gap' = gap \cup {c \in connected : Overflows(c)}

(* The pipeline writes a new alarm or a verdict, or an operator elsewhere  *)
(* acts on the alarm.                                                      *)
Triage(id) ==
  /\ \E become \in Kinds(id) : Upsert(id, become)
  /\ UNCHANGED <<connected, transit, board, replies, drops, overwritten, soundVars>>

(* The server handles a click on acknowledge or resolve.  The client's     *)
(* buttons for the alarm are disabled until the reply is there.            *)
Operate(c, id) ==
  /\ id \in Actionable \cap Retained
  /\ board[c][id] # 0
  /\ \A reply \in replies[c] : reply.id # id
  /\ Upsert(id, IF kind[id] = "alerting" THEN "handled" ELSE kind[id])
  /\ replies' = [replies EXCEPT ![c] = @ \cup {[id |-> id, no |-> updates']}]
  /\ UNCHANGED <<connected, transit, board, drops, overwritten, soundVars>>

-----------------------------------------------------------------------------
(* _stream_events *)

Snapshot == [event |-> "snapshot", alarms |-> store, no |-> updates, lagged |-> FALSE,
             critical |-> {id \in EventIds : kind[id] # "calm"}]

(* The generator subscribes and takes the snapshot without an await between. *)
Connect(c) ==
  /\ c \notin connected
  /\ connected' = connected \cup {c}
  /\ buffer' = [buffer EXCEPT ![c] = <<>>]
  /\ transit' = [transit EXCEPT ![c] = <<Snapshot>>]
  /\ UNCHANGED <<storeVars, lagged, board, replies, drops, gap, overwritten, soundVars>>

Taken_Newest(c) == Last(buffer[c])

Taken(c) == Head(buffer[c])

(* pump_alarms: the next update of the buffer, marked if the buffer has    *)
(* overflowed since the last one.                                          *)
Pump(c) ==
  /\ c \in connected
  /\ buffer[c] # <<>>
  /\ Len(transit[c]) < Transit
  /\ LET update == Taken(c)
     IN transit' = [transit EXCEPT ![c] =
          Append(@, [event |-> "alarm", id |-> update.id, no |-> update.no,
                     kind |-> update.kind, lagged |-> c \in lagged])]
  /\ buffer' = [buffer EXCEPT ![c] = Tail(@)]
  /\ lagged' = lagged \ {c}
  /\ UNCHANGED <<storeVars, connected, board, replies, drops, gap, overwritten,
                 soundVars>>

Unsubscribed_KeepsLag(c) == lagged

Unsubscribed(c) == lagged \ {c}

(* The connection breaks: the subscription is closed, what was on its way  *)
(* is lost, the board stays as it is.                                      *)
Drop(c) ==
  /\ c \in connected
  /\ drops < MaxDrops
  /\ drops' = drops + 1
  /\ connected' = connected \ {c}
  /\ buffer' = [buffer EXCEPT ![c] = <<>>]
  /\ lagged' = Unsubscribed(c)
  /\ transit' = [transit EXCEPT ![c] = <<>>]
  /\ gap' = gap \ {c}
  /\ UNCHANGED <<storeVars, board, replies, overwritten, soundVars>>

-----------------------------------------------------------------------------
(* useAlarmStream *)

Seeded_Merge(c, alarms) ==
  [id \in EventIds |-> IF board[c][id] # 0 THEN board[c][id] ELSE alarms[id]]

(* The snapshot replaces the whole map. *)
Seeded(c, alarms) == alarms

SeededIds_Replaced(c, critical) == critical

(* The criticals of a snapshot join the announced ones without a sound. *)
SeededIds(c, critical) == announced[c] \cup critical

IsNewCritical(c, message) == message.kind = "alerting" /\ message.id \notin announced[c]

(* announce: with the tone where the sound is on (soundRef).  The operator *)
(* switches it whenever he likes, so here it is on or off.                 *)
Announce(c, id) ==
  /\ announced' = [announced EXCEPT ![c] = @ \cup {id}]
  /\ \/ /\ chirps' = [chirps EXCEPT ![c][id] = IF @ < 2 THEN @ + 1 ELSE @]
        /\ UNCHANGED silenced
     \/ /\ silenced' = [silenced EXCEPT ![c] = @ \cup {id}]
        /\ UNCHANGED chirps

ReceiveSnapshot(c) ==
  LET message == Head(transit[c])
  IN /\ message.event = "snapshot"
     /\ board' = [board EXCEPT ![c] = Seeded(c, message.alarms)]
     /\ overwritten' = overwritten \ {c}
     /\ announced' = [announced EXCEPT ![c] = SeededIds(c, message.critical)]
     /\ onLoad' = [onLoad EXCEPT ![c] = IF @ = {} THEN {message.critical} ELSE @]
     /\ UNCHANGED <<chirps, silenced>>

(* An update is taken as it comes, the lagged mark is not read. *)
ReceiveAlarm(c) ==
  LET message == Head(transit[c])
  IN /\ message.event = "alarm"
     /\ board' = [board EXCEPT ![c][message.id] = message.no]
     /\ \/ IsNewCritical(c, message) /\ Announce(c, message.id)
        \/ ~IsNewCritical(c, message) /\ UNCHANGED <<announced, chirps, silenced>>
     /\ UNCHANGED <<overwritten, onLoad>>

(* The browser gets the next message. *)
Receive(c) ==
  /\ transit[c] # <<>>
  /\ ReceiveSnapshot(c) \/ ReceiveAlarm(c)
  /\ transit' = [transit EXCEPT ![c] = Tail(@)]
  /\ UNCHANGED <<serverVars, connected, replies, drops, gap>>

(* applyLocal: the record in the reply of a request replaces the one shown. *)
ApplyLocal(c, reply) ==
  /\ reply \in replies[c]
  /\ replies' = [replies EXCEPT ![c] = @ \ {reply}]
  /\ board' = [board EXCEPT ![c][reply.id] = reply.no]
  /\ overwritten' = IF reply.no < board[c][reply.id] THEN overwritten \cup {c} ELSE overwritten
  /\ UNCHANGED <<serverVars, connected, transit, drops, gap, soundVars>>

-----------------------------------------------------------------------------
Init ==
  /\ store = Empty
  /\ kind = [id \in EventIds |-> "calm"]
  /\ updates = 0
  /\ connected = {}
  /\ buffer = [c \in Clients |-> <<>>]
  /\ lagged = {}
  /\ transit = [c \in Clients |-> <<>>]
  /\ board = [c \in Clients |-> Empty]
  /\ replies = [c \in Clients |-> {}]
  /\ drops = 0
  /\ gap = {}
  /\ overwritten = {}
  /\ announced = [c \in Clients |-> {}]
  /\ chirps = [c \in Clients |-> [id \in MayBeCritical |-> 0]]
  /\ silenced = [c \in Clients |-> {}]
  /\ onLoad = [c \in Clients |-> {}]

Next ==
  \/ \E id \in EventIds : Triage(id)
  \/ \E c \in Clients : \/ \E id \in EventIds : Operate(c, id)
                        \/ Connect(c) \/ Pump(c) \/ Drop(c) \/ Receive(c)
                        \/ \E reply \in replies[c] : ApplyLocal(c, reply)

Spec == Init /\ [][Next]_vars

(* EventSource reconnects by itself, the pump is a task of the loop, the   *)
(* browser reads its stream and a reply arrives.                           *)
Fairness ==
  \A c \in Clients :
    /\ WF_vars(Connect(c)) /\ WF_vars(Pump(c)) /\ WF_vars(Receive(c))
    /\ WF_vars(\E reply \in replies[c] : ApplyLocal(c, reply))

FairSpec == Spec /\ Fairness

-----------------------------------------------------------------------------
(* Properties *)

Number  == 1 .. MaxUpdates
Kind    == {"calm", "alerting", "handled"}
Alarms  == [EventIds -> 0 .. MaxUpdates]
Update  == [id : EventIds, no : Number, kind : Kind]
Message == [event : {"alarm"}, id : EventIds, no : Number, kind : Kind, lagged : BOOLEAN]
           \cup [event : {"snapshot"}, alarms : Alarms, no : 0 .. MaxUpdates,
                 lagged : {FALSE}, critical : SUBSET MayBeCritical]

TypeOK ==
  /\ store \in Alarms
  /\ kind \in [EventIds -> Kind]
  /\ updates \in 0 .. MaxUpdates
  /\ connected \subseteq Clients
  /\ buffer \in [Clients -> Seq(Update)]
  /\ \A c \in Clients : Len(buffer[c]) <= SubscriberBuffer
  /\ lagged \subseteq connected
  /\ transit \in [Clients -> Seq(Message)]
  /\ \A c \in Clients : Len(transit[c]) <= Transit
  /\ board \in [Clients -> Alarms]
  /\ replies \in [Clients -> SUBSET [id : EventIds, no : Number]]
  /\ drops \in 0 .. MaxDrops
  /\ gap \subseteq connected
  /\ overwritten \subseteq Clients
  /\ announced \in [Clients -> SUBSET MayBeCritical]
  /\ chirps \in [Clients -> [MayBeCritical -> 0 .. 2]]
  /\ silenced \in [Clients -> SUBSET MayBeCritical]
  /\ onLoad \in [Clients -> SUBSET SUBSET MayBeCritical]

(* What a client has still to be sent or to receive, oldest first, with    *)
(* the mark its oldest buffered update will carry.                         *)
Coming(c) ==
  transit[c] \o [i \in DOMAIN buffer[c] |->
                   [no |-> buffer[c][i].no, lagged |-> i = 1 /\ c \in lagged]]

(* No silent gap: after the snapshot a client is sent every update of the  *)
(* store, in order, and where its buffer lost some the next one says so    *)
(* (store.py:8: "mark it lagged so it can re-request a snapshot").         *)
NoSilentGap ==
  \A c \in Clients : \A i \in 1 .. Len(Coming(c)) - 1 :
    Coming(c)[i + 1].no = Coming(c)[i].no + 1 \/ Coming(c)[i + 1].lagged

(* What comes to a client as a line of DashboardFeed. *)
Line(c) ==
  [i \in DOMAIN Coming(c) |->
     [no |-> Coming(c)[i].no, marked |-> Coming(c)[i].lagged,
      snapshot |-> i <= Len(transit[c]) /\ transit[c][i].event = "snapshot"]]

Feed == INSTANCE DashboardFeed WITH
  Backlog <- SubscriberBuffer,
  Limit <- SubscriberBuffer + Transit,
  published <- updates,
  line <- [c \in Clients |-> Line(c)]

(* Buffer, pump, merged queue and socket are one line from the store to    *)
(* the dashboard: nothing is sent twice, out of turn or behind a snapshot  *)
(* that has it, only what waited longest for the pump is ever lost, and a  *)
(* mark stays with the message behind the loss until it is received.       *)
ImplementsFeed == Feed!Spec

(* Nothing is on its way to the client. *)
Quiet(c) == c \in connected /\ Coming(c) = <<>> /\ replies[c] = {}

Agrees(c) == \A id \in Retained : board[c][id] = store[id]

(* Once everything sent has arrived, the board shows the store's record of *)
(* every retained alarm, unless the buffer overflowed or a late reply went *)
(* over a newer record: subscribing with the snapshot leaves no window     *)
(* (api.py:89), through any number of reconnections.                       *)
BoardInSync ==
  \A c \in Clients : Quiet(c) /\ c \notin gap \cup overwritten => Agrees(c)

(* Everything sent has been heard and the alarm is critical and active. *)
Outstanding(c, id) ==
  c \in connected \ gap /\ Coming(c) = <<>> /\ kind[id] = "alerting"

(* No alarm chirps twice, nor one whose moment fell into a muted sound,    *)
(* although the same alarm comes in snapshots and in updates, with any     *)
(* verdict and status and in any order and the sound is switched at any    *)
(* time; and over a connection that holds and loses nothing each alarm     *)
(* that is critical and active has chirped, unless the sound was off or    *)
(* the page found it critical when it loaded.                              *)
ChirpsOnce ==
  \A c \in Clients, id \in MayBeCritical :
    /\ chirps[c][id] <= IF id \in silenced[c] THEN 0 ELSE 1
    /\ Outstanding(c, id) /\ drops = 0
         => chirps[c][id] = 1 \/ id \in silenced[c] \cup UNION onLoad[c]

(* README.md:352: "Critical alarms cannot be missed. [...] a two-tone      *)
(* chirp plays for each new critical", after a reconnection too, but for   *)
(* one that came while the sound was off.                                  *)
CriticalsHeard ==
  \A c \in Clients, id \in MayBeCritical :
    Outstanding(c, id) => chirps[c][id] = 1 \/ id \in silenced[c] \cup UNION onLoad[c]

(* The stream takes a board back only where it was ahead of the stream,    *)
(* and then it brings the newer record too: an alarm's record gives way to *)
(* an older one only while the record itself is still coming, or was lost  *)
(* in a gap, and disappears with a snapshot only if the store has not kept *)
(* that record.                                                            *)
StreamMakesUp ==
  [][\A c \in Clients, id \in EventIds :
       board'[c][id] < board[c][id] /\ replies' = replies
         => \/ board'[c][id] = 0 /\ store[id] # board[c][id]
            \/ c \in gap
            \/ \E i \in DOMAIN Coming(c)' : Coming(c)'[i].no = board[c][id]]_vars

(* An alarm nobody acts on never goes back on a board: not by an overflow, *)
(* not by a reconnection, whatever was lost.  It can only leave with a     *)
(* snapshot, when the store has not kept the record that was shown.        *)
UntouchedMovesOn ==
  [][\A c \in Clients, id \in EventIds \ Actionable :
       board'[c][id] < board[c][id] => board'[c][id] = 0 /\ store[id] # board[c][id]]_vars

(* Every update reaches a connected client, or a newer one of the alarm    *)
(* does, unless its connection breaks, its buffer overflows or a late      *)
(* reply goes over it.                                                     *)
UpdatesArrive ==
  \A c \in Clients, id \in EventIds, n \in 1 .. MaxUpdates :
    c \in connected /\ store[id] = n
      ~> \/ board[c][id] >= n \/ store[id] = 0
         \/ c \notin connected \/ c \in gap \cup overwritten

(* useAlarmStream.ts:92 says of a click's reply "The SSE update is         *)
(* idempotent": with every update delivered, the board agrees.             *)
ReplyIsIdempotent ==
  \A c \in Clients : Quiet(c) /\ c \notin gap => Agrees(c)

(* store.py:8 says a lagged client is marked "so it can re-request a       *)
(* snapshot": its board does not disagree with the store for ever.         *)
BoardResyncs == \A c \in Clients : []<>(~Quiet(c) \/ Agrees(c))
=============================================================================
