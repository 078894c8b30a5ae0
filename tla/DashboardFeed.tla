---------------------------- MODULE DashboardFeed ----------------------------
(***************************************************************************)
(* What the server promises a dashboard, with no buffer, no pump and no    *)
(* socket: while it is connected, one line of numbered messages leads to   *)
(* it.  The line begins with a snapshot and every update joins it at the   *)
(* end; the dashboard takes from the front.  One that keeps up is sent     *)
(* everything; from a line of Backlog messages or more an update may push  *)
(* out the oldest of the last Backlog, which is never the snapshot, and    *)
(* the message behind it is marked.  AlarmStream is shown to implement     *)
(* this specification.                                                     *)
(***************************************************************************)
EXTENDS Integers, Sequences

CONSTANTS Clients,
          Backlog,   \* the updates kept for a client that does not read
          Limit      \* the longest a line gets

VARIABLES published, connected, line

vars == <<published, connected, line>>

Message(no, snapshot) == [no |-> no, snapshot |-> snapshot, marked |-> FALSE]

Marked(message) == [message EXCEPT !.marked = TRUE]

(* The line without its i-th message, the next one marked. *)
PushedOut(q, i) ==
  [j \in 1 .. Len(q) - 1 |->
     IF j < i THEN q[j] ELSE IF j = i THEN Marked(q[j + 1]) ELSE q[j + 1]]

Init == published = 0 /\ connected = {} /\ line = [c \in Clients |-> <<>>]

Joins(c, update) == Len(line[c]) < Limit /\ line'[c] = Append(line[c], update)

PushesOut(c, update) ==
  LET oldest == Len(line[c]) - Backlog + 1
  IN /\ oldest > 0
     /\ ~line[c][oldest].snapshot
     /\ line'[c] = PushedOut(Append(line[c], update), oldest)

Publish ==
  /\ published' = published + 1
  /\ line' = [c \in Clients |-> line'[c]]
  /\ \A c \in Clients :
       LET update == Message(published', FALSE)
       IN IF c \in connected THEN Joins(c, update) \/ PushesOut(c, update)
          ELSE line'[c] = line[c]
  /\ UNCHANGED connected

Connect(c) ==
  /\ c \notin connected
  /\ connected' = connected \cup {c}
  /\ line' = [line EXCEPT ![c] = <<Message(published, TRUE)>>]
  /\ UNCHANGED published

Receive(c) ==
  /\ line[c] # <<>>
  /\ line' = [line EXCEPT ![c] = Tail(@)]
  /\ UNCHANGED <<published, connected>>

Breaks(c) ==
  /\ c \in connected
  /\ connected' = connected \ {c}
  /\ line' = [line EXCEPT ![c] = <<>>]
  /\ UNCHANGED published

Next == Publish \/ \E c \in Clients : Connect(c) \/ Receive(c) \/ Breaks(c)

Safety == Init /\ [][Next]_vars

(* A dashboard is connected again and gets what is in its line. *)
Spec == Safety /\ \A c \in Clients : WF_vars(Connect(c)) /\ WF_vars(Receive(c))
=============================================================================
