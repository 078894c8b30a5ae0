--------------------------- MODULE AlarmFeedProofs ---------------------------
(***************************************************************************)
(* AlarmStream implements DashboardFeed, for any clients, alarms and       *)
(* sizes: buffer, pump, merged queue and socket are one line of messages.  *)
(* A message that is sent and an update that waits have their place in it; *)
(* the pump moves the border between the two and nothing else.             *)
(***************************************************************************)
EXTENDS AlarmStreamProofs

-----------------------------------------------------------------------------
(* The line of what is in transit and of what waits in the buffer. *)

LineMessage == [no : Nat, snapshot : BOOLEAN, marked : BOOLEAN]

Sent(m) == [no |-> m.no, snapshot |-> m.event = "snapshot", marked |-> m.lagged]

Waiting(u, mark) == [no |-> u.no, snapshot |-> FALSE, marked |-> mark]

Place(t, b, lag, i) ==
  IF i <= Len(t) THEN Sent(t[i]) ELSE Waiting(b[i - Len(t)], i = Len(t) + 1 /\ lag)

LineOf(t, b, lag) == [i \in 1 .. Len(t) + Len(b) |-> Place(t, b, lag, i)]

(* A place in the line is taken by a message. *)
LEMMA PlaceType ==
  ASSUME NEW t \in Seq(FitMessage), NEW b \in Seq(FitUpdate), NEW lag \in BOOLEAN,
         NEW i \in 1 .. Len(t) + Len(b)
  PROVE  Place(t, b, lag, i) \in LineMessage
<1>1. Len(t) \in Nat /\ Len(b) \in Nat
  BY LenProperties
<1>2. CASE i <= Len(t)
  <2>1. i \in 1 .. Len(t)
    BY <1>1, <1>2
  <2>2. t[i] \in FitMessage
    BY <2>1, ElementOfSeq
  <2>3. t[i].no \in 0 .. MaxUpdates
    BY <2>2, MessageFields
  <2>4. t[i].lagged \in BOOLEAN
    BY <2>2 DEF FitMessage, Message
  <2>5. t[i].no \in Nat
    BY <2>3, StreamAssumption
  <2> QED  BY <1>2, <2>4, <2>5 DEF Place, Sent, LineMessage
<1>3. CASE ~(i <= Len(t))
  <2>1. i - Len(t) \in 1 .. Len(b)
    BY <1>1, <1>3
  <2>2. b[i - Len(t)] \in FitUpdate
    BY <2>1, ElementOfSeq
  <2>3. b[i - Len(t)].no \in Nat
    BY <2>2, StreamAssumption DEF FitUpdate, Update, Number
  <2>4. (i = Len(t) + 1 /\ lag) \in BOOLEAN
    OBVIOUS
  <2> QED  BY <1>3, <2>3, <2>4 DEF Place, Waiting, LineMessage
<1> QED  BY <1>2, <1>3

(* The line is a sequence of these places. *)
LEMMA LineType ==
  ASSUME NEW t \in Seq(FitMessage), NEW b \in Seq(FitUpdate), NEW lag \in BOOLEAN
  PROVE  /\ LineOf(t, b, lag) \in Seq(LineMessage)
         /\ Len(LineOf(t, b, lag)) = Len(t) + Len(b)
         /\ Len(t) \in Nat /\ Len(b) \in Nat
         /\ \A i \in 1 .. Len(t) + Len(b) : LineOf(t, b, lag)[i] = Place(t, b, lag, i)
<1> DEFINE n == Len(t) + Len(b)
           q == LineOf(t, b, lag)
<1>1. Len(t) \in Nat /\ Len(b) \in Nat /\ n \in Nat
  BY LenProperties
<1>2. q \in [1 .. n -> LineMessage]
  BY PlaceType DEF LineOf
<1>3. \A i \in 1 .. n : q[i] = Place(t, b, lag, i)
  BY DEF LineOf
<1> HIDE DEF q, n
<1>4. q \in Seq(LineMessage)
  BY <1>1, <1>2, SeqDef
<1>5. Len(q) \in Nat /\ 1 .. Len(q) = 1 .. n
  BY <1>2, <1>4, LenProperties
<1>6. Len(q) = n
  BY <1>1, <1>5
<1> QED  BY <1>1, <1>3, <1>4, <1>6 DEF q, n

(* The line of AlarmStream is the one from its transit and buffer. *)
LineFrom(t, b, lag) ==
  LET coming == t \o [i \in DOMAIN b |-> [no |-> b[i].no, lagged |-> i = 1 /\ lag]]
  IN [i \in DOMAIN coming |->
        [no |-> coming[i].no, marked |-> coming[i].lagged,
         snapshot |-> i <= Len(t) /\ t[i].event = "snapshot"]]

LEMMA LineParts ==
  ASSUME NEW t \in Seq(FitMessage), NEW b \in Seq(FitUpdate), NEW lag \in BOOLEAN
  PROVE  LineFrom(t, b, lag) = LineOf(t, b, lag)
<1> DEFINE k == Len(t)
           n == Len(b)
           w == [i \in DOMAIN b |-> [no |-> b[i].no, lagged |-> i = 1 /\ lag]]
           S == FitMessage \cup [no : Nat, lagged : BOOLEAN]
           l == t \o w
<1>1. k \in Nat /\ n \in Nat /\ DOMAIN b = 1 .. n
  BY LenProperties
<1>2. ASSUME NEW i \in 1 .. n
      PROVE  w[i] \in S /\ w[i].no = b[i].no /\ w[i].lagged = (i = 1 /\ lag)
  <2>1. b[i] \in FitUpdate
    BY ElementOfSeq
  <2>2. b[i].no \in Nat /\ (i = 1 /\ lag) \in BOOLEAN
    BY <2>1, StreamAssumption DEF FitUpdate, Update, Number
  <2> QED  BY <1>1, <2>2
<1>3. w \in Seq(S) /\ Len(w) = n
  <2>1. w \in [1 .. n -> S]
    BY <1>1, <1>2
  <2> HIDE DEF w, S, n
  <2>2. w \in Seq(S)
    BY <1>1, <2>1, SeqDef
  <2>3. Len(w) \in Nat /\ 1 .. Len(w) = 1 .. n
    BY <2>1, <2>2, LenProperties
  <2> QED  BY <1>1, <2>2, <2>3
<1>4. t \in Seq(S)
  BY SeqMonotonic
<1>5. LineFrom(t, b, lag) =
        [i \in DOMAIN l |-> [no |-> l[i].no, marked |-> l[i].lagged,
                             snapshot |-> i <= k /\ t[i].event = "snapshot"]]
  BY DEF LineFrom
<1> HIDE DEF w, S
<1>6. /\ l \in Seq(S) /\ Len(l) = k + n
      /\ \A i \in 1 .. k + n : l[i] = IF i <= k THEN t[i] ELSE w[i - k]
  <2>1. /\ t \o w \in Seq(S) /\ Len(t \o w) = Len(t) + Len(w)
        /\ \A i \in 1 .. Len(t) + Len(w) : (t \o w)[i] = IF i <= Len(t) THEN t[i] ELSE w[i - Len(t)]
    BY <1>3, <1>4, ConcatProperties
  <2> QED  BY <1>3, <2>1
<1>7. DOMAIN l = 1 .. k + n
  BY <1>6, LenProperties
<1> HIDE DEF l
<1>8. ASSUME NEW i \in 1 .. k + n
      PROVE  [no |-> l[i].no, marked |-> l[i].lagged,
              snapshot |-> i <= k /\ t[i].event = "snapshot"] = Place(t, b, lag, i)
  <2>1. CASE i <= k
    <3>1. l[i] = t[i] /\ (i <= k /\ t[i].event = "snapshot") = (t[i].event = "snapshot")
      BY <1>6, <2>1
    <3> QED  BY <2>1, <3>1 DEF Place, Sent
  <2>2. CASE ~(i <= k)
    <3>1. i - k \in 1 .. n /\ l[i] = w[i - k] /\ (i <= k /\ t[i].event = "snapshot") = FALSE
      BY <1>1, <1>6, <2>2
    <3>2. l[i].no = b[i - k].no /\ l[i].lagged = (i - k = 1 /\ lag)
      BY <1>2, <3>1
    <3>3. (i - k = 1 /\ lag) = (i = k + 1 /\ lag)
      BY <1>1
    <3> QED  BY <2>2, <3>1, <3>2, <3>3 DEF Place, Waiting
  <2> QED  BY <2>1, <2>2
<1>9. LineFrom(t, b, lag) =
        [i \in 1 .. k + n |-> [no |-> l[i].no, marked |-> l[i].lagged,
                               snapshot |-> i <= k /\ t[i].event = "snapshot"]]
  BY <1>5, <1>7
<1>10. LineFrom(t, b, lag) = [i \in 1 .. k + n |-> Place(t, b, lag, i)]
  BY <1>8, <1>9
<1> QED  BY <1>10 DEF LineOf

-----------------------------------------------------------------------------
(* What becomes of a line. *)

(* The pump takes the mark along with the update. *)
LEMMA LinePumped ==
  ASSUME NEW t \in Seq(FitMessage), NEW b \in Seq(FitUpdate), NEW lag \in BOOLEAN, b # <<>>
  PROVE  LineOf(Append(t, PumpedMessage(Head(b), lag)), Tail(b), FALSE) = LineOf(t, b, lag)
<1> DEFINE m == PumpedMessage(Head(b), lag)
           t2 == Append(t, m)
           b2 == Tail(b)
           k == Len(t)
           n == Len(b)
           q == LineOf(t, b, lag)
           r == LineOf(t2, b2, FALSE)
<1>1. /\ b2 \in Seq(FitUpdate) /\ Len(b2) = n - 1 /\ n \in Nat \ {0} /\ Head(b) = b[1]
      /\ Head(b) \in FitUpdate /\ \A i \in 1 .. n - 1 : b2[i] = b[i + 1]
  BY TakenElements
<1>2. m \in FitMessage
  BY <1>1, SentFits, Zenon
<1>3. m.no = b[1].no /\ m.event = "alarm" /\ m.lagged = lag
  BY <1>1 DEF PumpedMessage
<1> HIDE DEF m
<1>4. /\ t2 \in Seq(FitMessage) /\ Len(t2) = k + 1 /\ t2[k + 1] = m
      /\ \A i \in 1 .. k : t2[i] = t[i]
  BY <1>2, AppendedElements
<1> HIDE DEF t2, b2
<1>5. /\ q \in Seq(LineMessage) /\ Len(q) = k + n /\ k \in Nat
      /\ \A i \in 1 .. k + n : q[i] = Place(t, b, lag, i)
  BY LineType
<1>6. /\ r \in Seq(LineMessage) /\ Len(r) = k + n
      /\ \A i \in 1 .. k + n : r[i] = Place(t2, b2, FALSE, i)
  <2>1. /\ r \in Seq(LineMessage) /\ Len(r) = Len(t2) + Len(b2)
        /\ \A i \in 1 .. Len(t2) + Len(b2) : r[i] = Place(t2, b2, FALSE, i)
    BY <1>1, <1>4, LineType
  <2>2. Len(t2) + Len(b2) = k + n
    BY <1>1, <1>4, <1>5
  <2> QED  BY <2>1, <2>2
<1>7. ASSUME NEW i \in 1 .. k + n PROVE Place(t2, b2, FALSE, i) = Place(t, b, lag, i)
  <2>1. CASE i <= k
    <3>1. t2[i] = t[i] /\ i <= Len(t2)
      BY <1>4, <1>5, <2>1
    <3> QED  BY <2>1, <3>1 DEF Place
  <2>2. CASE i = k + 1
    <3>1. i <= Len(t2) /\ ~(i <= k) /\ i - k = 1
      BY <1>4, <1>5, <2>2
    <3>2. Place(t2, b2, FALSE, i) = Sent(m)
      BY <1>4, <2>2, <3>1 DEF Place
    <3>3. Place(t, b, lag, i) = Waiting(b[1], lag)
      BY <2>2, <3>1 DEF Place
    <3> QED  BY <1>3, <3>2, <3>3 DEF Sent, Waiting
  <2>3. CASE i > k + 1
    <3>1. /\ ~(i <= Len(t2)) /\ ~(i <= k) /\ i # Len(t) + 1 /\ i - Len(t2) \in 1 .. n - 1
          /\ (i - Len(t2)) + 1 = i - k
      BY <1>1, <1>4, <1>5, <2>3
    <3>2. b2[i - Len(t2)] = b[i - k]
      BY <1>1, <3>1
    <3>3. Place(t2, b2, FALSE, i) = Waiting(b[i - k], FALSE)
      BY <3>1, <3>2 DEF Place
    <3>4. Place(t, b, lag, i) = Waiting(b[i - k], FALSE)
      BY <3>1 DEF Place
    <3> QED  BY <3>3, <3>4
  <2>4. k \in Nat /\ n \in Nat
    BY <1>1, <1>5
  <2>5. i <= k \/ i = k + 1 \/ i > k + 1
    BY <2>4
  <2> QED  BY <2>1, <2>2, <2>3, <2>5, Zenon
<1> HIDE DEF q, r
<1>8. q = r
  BY <1>5, <1>6, <1>7, SeqEqual
<1> QED  BY <1>8 DEF q, r, t2, b2, m

(* The dashboard takes what is first in line. *)
LEMMA LineTaken ==
  ASSUME NEW t \in Seq(FitMessage), NEW b \in Seq(FitUpdate), NEW lag \in BOOLEAN, t # <<>>
  PROVE  LineOf(t, b, lag) # <<>> /\ LineOf(Tail(t), b, lag) = Tail(LineOf(t, b, lag))
<1> DEFINE t2 == Tail(t)
           k == Len(t)
           n == Len(b)
           q == LineOf(t, b, lag)
           r == LineOf(t2, b, lag)
           q2 == Tail(q)
<1>1. /\ t2 \in Seq(FitMessage) /\ Len(t2) = k - 1 /\ k \in Nat \ {0}
      /\ \A i \in 1 .. k - 1 : t2[i] = t[i + 1]
  BY TakenElements
<1> HIDE DEF t2
<1>2. /\ q \in Seq(LineMessage) /\ Len(q) = k + n /\ n \in Nat
      /\ \A i \in 1 .. k + n : q[i] = Place(t, b, lag, i)
  BY LineType
<1>3. /\ r \in Seq(LineMessage) /\ Len(r) = (k - 1) + n
      /\ \A i \in 1 .. (k - 1) + n : r[i] = Place(t2, b, lag, i)
  BY <1>1, LineType
<1> HIDE DEF q, r
<1>4. q # <<>>
  BY <1>1, <1>2, EmptySeq
<1>5. /\ q2 \in Seq(LineMessage) /\ Len(q2) = (k - 1) + n
      /\ \A i \in 1 .. (k - 1) + n : q2[i] = q[i + 1]
  <2>1. /\ q2 \in Seq(LineMessage) /\ Len(q2) = Len(q) - 1
        /\ \A i \in 1 .. Len(q) - 1 : q2[i] = q[i + 1]
    BY <1>2, <1>4, TakenElements
  <2>2. Len(q) - 1 = (k - 1) + n
    BY <1>1, <1>2
  <2> QED  BY <2>1, <2>2
<1>6. ASSUME NEW i \in 1 .. (k - 1) + n PROVE r[i] = q2[i]
  <2>1. i + 1 \in 1 .. k + n
    BY <1>1, <1>2
  <2>2. r[i] = Place(t2, b, lag, i) /\ q2[i] = Place(t, b, lag, i + 1)
    BY <1>2, <1>3, <1>5, <2>1
  <2>3. CASE i <= k - 1
    <3>1. i <= Len(t2) /\ i + 1 <= k /\ t2[i] = t[i + 1]
      BY <1>1, <2>3
    <3> QED  BY <2>2, <3>1 DEF Place
  <2>4. CASE ~(i <= k - 1)
    <3>1. /\ ~(i <= Len(t2)) /\ ~(i + 1 <= k) /\ i - Len(t2) = (i + 1) - k
          /\ (i = Len(t2) + 1) = (i + 1 = k + 1)
      BY <1>1, <2>4
    <3> QED  BY <2>2, <3>1 DEF Place
  <2> QED  BY <2>3, <2>4
<1> HIDE DEF q2
<1>7. r = q2
  BY <1>3, <1>5, <1>6, SeqEqual
<1> QED  BY <1>4, <1>7 DEF r, q2, q, t2

(* A new update at the end of the buffer is at the end of the line. *)
LEMMA LineJoined ==
  ASSUME NEW t \in Seq(FitMessage), NEW b \in Seq(FitUpdate), NEW lag \in BOOLEAN,
         NEW u \in FitUpdate, lag => b # <<>>
  PROVE  LineOf(t, Append(b, u), lag) = Append(LineOf(t, b, lag), Waiting(u, FALSE))
<1> DEFINE b2 == Append(b, u)
           k == Len(t)
           n == Len(b)
           q == LineOf(t, b, lag)
           r == LineOf(t, b2, lag)
           e == Waiting(u, FALSE)
           q2 == Append(q, e)
<1>1. /\ b2 \in Seq(FitUpdate) /\ Len(b2) = n + 1 /\ b2[n + 1] = u
      /\ \A i \in 1 .. n : b2[i] = b[i]
  BY AppendedElements
<1> HIDE DEF b2
<1>2. /\ q \in Seq(LineMessage) /\ Len(q) = k + n /\ n \in Nat /\ k \in Nat
      /\ \A i \in 1 .. k + n : q[i] = Place(t, b, lag, i)
  BY LineType
<1>3. /\ r \in Seq(LineMessage) /\ Len(r) = (k + n) + 1
      /\ \A i \in 1 .. (k + n) + 1 : r[i] = Place(t, b2, lag, i)
  <2>1. /\ r \in Seq(LineMessage) /\ Len(r) = k + (n + 1)
        /\ \A i \in 1 .. k + (n + 1) : r[i] = Place(t, b2, lag, i)
    BY <1>1, LineType
  <2>2. k + (n + 1) = (k + n) + 1
    BY <1>2
  <2> QED  BY <2>1, <2>2
<1>4. e \in LineMessage
  BY StreamAssumption DEF Waiting, LineMessage, FitUpdate, Update, Number
<1> HIDE DEF q, r, k, n, e
<1>5. /\ q2 \in Seq(LineMessage) /\ Len(q2) = (k + n) + 1
      /\ q2[(k + n) + 1] = e
      /\ \A i \in 1 .. k + n : q2[i] = q[i]
  <2>1. /\ q2 \in Seq(LineMessage) /\ Len(q2) = Len(q) + 1
        /\ q2[Len(q) + 1] = e
        /\ \A i \in 1 .. Len(q) : q2[i] = q[i]
    BY <1>2, <1>4, AppendedElements
  <2> QED  BY <1>2, <2>1
<1>6. ASSUME NEW i \in 1 .. (k + n) + 1 PROVE r[i] = q2[i]
  <2>1. CASE i <= k
    <3>1. i \in 1 .. k + n
      BY <1>2, <2>1
    <3> QED  BY <1>2, <1>3, <1>5, <2>1, <3>1 DEF Place, k
  <2>2. CASE ~(i <= k) /\ i <= k + n
    <3>1. i \in 1 .. k + n /\ i - k \in 1 .. n
      BY <1>2, <2>2
    <3>2. b2[i - k] = b[i - k]
      BY <1>1, <3>1
    <3> QED  BY <1>2, <1>3, <1>5, <2>2, <3>1, <3>2 DEF Place, k
  <2>3. CASE i = (k + n) + 1
    <3>1. ~(i <= k) /\ i - k = n + 1
      BY <1>2, <2>3
    <3>2. r[i] = Waiting(u, i = k + 1 /\ lag)
      BY <1>1, <1>3, <2>3, <3>1 DEF Place, k
    <3>3. (i = k + 1 /\ lag) = FALSE
      <4>1. CASE lag
        <5>1. b # <<>>
          BY <4>1, Zenon
        <5>2. n # 0
          BY <5>1, EmptySeq DEF n
        <5> QED  BY <1>2, <2>3, <5>2
      <4>2. CASE ~lag
        BY <4>2
      <4> QED  BY <4>1, <4>2
    <3> QED  BY <1>5, <2>3, <3>2, <3>3 DEF e
  <2>4. i <= k \/ (~(i <= k) /\ i <= k + n) \/ i = (k + n) + 1
    BY <1>2
  <2> QED  BY <2>1, <2>2, <2>3, <2>4, Zenon
<1> HIDE DEF q2
<1>7. r = q2
  BY <1>3, <1>5, <1>6, SeqEqual
<1> QED  BY <1>7 DEF r, q2, q, b2, k, n, e

(* A full buffer loses its head: the line loses the message there, and the *)
(* one behind it is marked.                                                *)
LEMMA LinePushed ==
  ASSUME NEW t \in Seq(FitMessage), NEW b \in Seq(FitUpdate), NEW lag \in BOOLEAN,
         NEW u \in FitUpdate, b # <<>>
  PROVE  LineOf(t, Append(Tail(b), u), TRUE) =
           Feed!PushedOut(Append(LineOf(t, b, lag), Waiting(u, FALSE)), Len(t) + 1)
<1> DEFINE b2 == Append(Tail(b), u)
           k == Len(t)
           n == Len(b)
           e == Waiting(u, FALSE)
           q == Append(LineOf(t, b, lag), e)
           r == LineOf(t, b2, TRUE)
           p == Feed!PushedOut(q, k + 1)
<1>1. /\ b2 \in Seq(FitUpdate) /\ Len(b2) = n /\ n \in Nat \ {0} /\ b2[n] = u
      /\ \A i \in 1 .. n - 1 : b2[i] = b[i + 1]
  <2> DEFINE b1 == Tail(b)
  <2>1. /\ b1 \in Seq(FitUpdate) /\ Len(b1) = n - 1 /\ n \in Nat \ {0}
        /\ \A i \in 1 .. n - 1 : b1[i] = b[i + 1]
    BY TakenElements
  <2> HIDE DEF b1
  <2>2. /\ Append(b1, u) \in Seq(FitUpdate) /\ Len(Append(b1, u)) = Len(b1) + 1
        /\ Append(b1, u)[Len(b1) + 1] = u
        /\ \A i \in 1 .. Len(b1) : Append(b1, u)[i] = b1[i]
    BY <2>1, AppendedElements
  <2>3. Len(b1) + 1 = n
    BY <2>1
  <2> QED  BY <2>1, <2>2, <2>3 DEF b1
<1> HIDE DEF b2
<1>2. /\ LineOf(t, b, lag) \in Seq(LineMessage) /\ Len(LineOf(t, b, lag)) = k + n /\ k \in Nat
      /\ \A i \in 1 .. k + n : LineOf(t, b, lag)[i] = Place(t, b, lag, i)
  BY LineType
<1>3. /\ r \in Seq(LineMessage) /\ Len(r) = k + n
      /\ \A i \in 1 .. k + n : r[i] = Place(t, b2, TRUE, i)
  BY <1>1, LineType
<1>4. e \in LineMessage
  BY StreamAssumption DEF Waiting, LineMessage, FitUpdate, Update, Number
<1>5. /\ q \in Seq(LineMessage) /\ Len(q) = (k + n) + 1
      /\ q[(k + n) + 1] = e
      /\ \A i \in 1 .. k + n : q[i] = Place(t, b, lag, i)
  <2> DEFINE l == LineOf(t, b, lag)
  <2> HIDE DEF l, k, n, e
  <2>1. /\ Append(l, e) \in Seq(LineMessage)
        /\ Len(Append(l, e)) = Len(l) + 1
        /\ Append(l, e)[Len(l) + 1] = e
        /\ \A i \in 1 .. Len(l) : Append(l, e)[i] = l[i]
    BY <1>2, <1>4, AppendedElements DEF l
  <2> QED  BY <1>2, <2>1 DEF l
<1> HIDE DEF q, r, k, n, e
<1>6. p = [j \in 1 .. k + n |-> IF j < k + 1 THEN q[j]
                               ELSE IF j = k + 1 THEN Feed!Marked(q[j + 1]) ELSE q[j + 1]]
  <2>1. Len(q) - 1 = k + n
    BY <1>1, <1>2, <1>5
  <2> QED  BY <2>1 DEF Feed!PushedOut
<1> HIDE DEF p
<1>7. ASSUME NEW i \in 1 .. k + n
      PROVE  r[i] = IF i < k + 1 THEN q[i]
                    ELSE IF i = k + 1 THEN Feed!Marked(q[i + 1]) ELSE q[i + 1]
  <2>1. CASE i <= k
    <3>1. i < k + 1
      BY <1>2, <2>1
    <3> QED  BY <1>3, <1>5, <2>1, <3>1 DEF Place, k
  <2>2. CASE ~(i <= k)
    <3>0. ~(i < k + 1) /\ i - k \in 1 .. n
      BY <1>1, <1>2, <2>2
    <3>1. r[i] = Waiting(b2[i - k], i = k + 1)
      <4>1. (i = k + 1 /\ TRUE) = (i = k + 1)
        OBVIOUS
      <4> QED  BY <1>3, <2>2, <4>1 DEF Place, k
    <3>2. q[i + 1] = Waiting(b2[i - k], FALSE)
      <4>1. CASE i = k + n
        <5>1. i + 1 = (k + n) + 1 /\ i - k = n
          BY <1>1, <1>2, <4>1
        <5> QED  BY <1>1, <1>5, <5>1 DEF e
      <4>2. CASE i # k + n
        <5>1. /\ i + 1 \in 1 .. k + n /\ ~(i + 1 <= k) /\ i + 1 # k + 1
              /\ i - k \in 1 .. n - 1 /\ (i + 1) - k = (i - k) + 1
          BY <1>1, <1>2, <2>2, <4>2
        <5>2. q[i + 1] = Waiting(b[(i + 1) - k], FALSE)
          BY <1>5, <5>1 DEF Place, k
        <5>3. b2[i - k] = b[(i - k) + 1]
          BY <1>1, <5>1
        <5> QED  BY <5>1, <5>2, <5>3
      <4> QED  BY <4>1, <4>2
    <3>3. Feed!Marked(Waiting(b2[i - k], FALSE)) = Waiting(b2[i - k], TRUE)
      <4> DEFINE x == b2[i - k].no
                 off == FALSE
                 on == TRUE
      <4> HIDE DEF x, off, on
      <4>1. [[no |-> x, snapshot |-> off, marked |-> off] EXCEPT !.marked = on]
              = [no |-> x, snapshot |-> off, marked |-> on]
        OBVIOUS
      <4> QED  BY <4>1, Zenon DEF Waiting, Feed!Marked, x, off, on
    <3> QED  BY <3>0, <3>1, <3>2, <3>3
  <2> QED  BY <2>1, <2>2
<1>8. DOMAIN r = 1 .. k + n /\ r = [i \in 1 .. k + n |-> r[i]]
  BY <1>3, LenProperties
<1>9. r = p
  BY <1>6, <1>7, <1>8
<1> QED  BY <1>9 DEF r, p, q, b2, k, e

(* The line of a client that has just connected, and that of one gone. *)
LEMMA LineBegun ==
  ASSUME NEW m \in FitMessage, NEW lag \in BOOLEAN
  PROVE  LineOf(<<m>>, <<>>, lag) = <<Sent(m)>>
<1>1. Len(<<m>>) = 1 /\ Len(<<>>) = 0 /\ <<m>>[1] = m
  OBVIOUS
<1>2. LineOf(<<m>>, <<>>, lag) = [i \in 1 .. 1 |-> Place(<<m>>, <<>>, lag, i)]
  BY <1>1 DEF LineOf
<1>3. Place(<<m>>, <<>>, lag, 1) = Sent(m)
  BY <1>1 DEF Place
<1> QED  BY <1>2, <1>3

LEMMA LineGone ==
  ASSUME NEW lag \in BOOLEAN
  PROVE  LineOf(<<>>, <<>>, lag) = <<>>
<1>1. Len(<<>>) = 0
  OBVIOUS
<1> QED  BY <1>1 DEF LineOf

-----------------------------------------------------------------------------
(* A verdict or a click is an update of the store. *)
LEMMA StoreSteps ==
  ASSUME TypeInv, NEW id \in EventIds,
         Triage(id) \/ \E c \in Clients : Operate(c, id)
  PROVE  /\ \E become \in Kinds(id) : Upsert(id, become)
         /\ UNCHANGED <<transit, connected>>
<1>1. (IF kind[id] = "alerting" THEN "handled" ELSE kind[id]) \in Kinds(id)
  BY DEF TypeInv, Kinds
<1> QED  BY <1>1 DEF Triage, Operate

(* A mark waits for an update to be put on. *)

LagInv == \A c \in lagged : buffer[c] # <<>>

LEMMA LagInit == Init => LagInv
BY DEF Init, LagInv

LEMMA LagStep ==
  ASSUME TypeInv, LagInv, [Next]_vars
  PROVE  LagInv'
<1>1. ASSUME NEW id \in EventIds, NEW become \in Kinds(id), Upsert(id, become)
      PROVE  LagInv'
  <2>1. Published(id, become) \in FitUpdate
    BY <1>1, UpsertType
  <2>2. lagged' \subseteq connected /\ connected \subseteq Clients
    BY <1>1, UpsertType DEF TypeInv
  <2>3. \A c \in connected : buffer'[c] = Offered(c, Published(id, become))
    BY <1>1, <2>2, UpsertType
  <2>4. ASSUME NEW c \in lagged' PROVE buffer'[c] # <<>>
    <3>1. c \in Clients /\ buffer'[c] = Offered(c, Published(id, become))
      BY <2>2, <2>3
    <3>2. Len(Offered(c, Published(id, become))) \in Nat \ {0}
      BY <2>1, <3>1, OfferedBuffer
    <3> QED  BY <3>1, <3>2, EmptySeq
  <2> QED  BY <2>4 DEF LagInv
<1>2. ASSUME NEW id \in EventIds, Triage(id) PROVE LagInv'
  BY <1>1, <1>2, StoreSteps
<1>3. ASSUME NEW c \in Clients, NEW id \in EventIds, Operate(c, id) PROVE LagInv'
  BY <1>1, <1>3, StoreSteps
<1>4. ASSUME NEW c \in Clients, Connect(c) PROVE LagInv'
  BY <1>4 DEF Connect, LagInv, TypeInv
<1>5. ASSUME NEW c \in Clients, Pump(c) PROVE LagInv'
  BY <1>5 DEF Pump, LagInv, TypeInv
<1>6. ASSUME NEW c \in Clients, Drop(c) PROVE LagInv'
  BY <1>6 DEF Drop, Unsubscribed, LagInv, TypeInv
<1>7. ASSUME NEW c \in Clients, Receive(c) PROVE LagInv'
  BY <1>7, ReceiveEffect DEF LagInv
<1>8. ASSUME NEW c \in Clients, NEW reply \in replies[c], ApplyLocal(c, reply) PROVE LagInv'
  BY <1>8 DEF ApplyLocal, serverVars, LagInv
<1>9. ASSUME UNCHANGED vars PROVE LagInv'
  BY <1>9 DEF vars, serverVars, LagInv
<1> QED  BY <1>2, <1>3, <1>4, <1>5, <1>6, <1>7, <1>8, <1>9 DEF Next


-----------------------------------------------------------------------------
(* The refinement. *)

Lines == [c \in Clients |-> Line(c)]

LEMMA LineIs ==
  ASSUME TypeInv, NEW c \in Clients
  PROVE  Line(c) = LineOf(transit[c], buffer[c], c \in lagged)
<1>1. (c \in lagged) \in BOOLEAN /\ transit[c] \in Seq(FitMessage) /\ buffer[c] \in Seq(FitUpdate)
  BY DEF TypeInv
<1>2. Line(c) = LineFrom(transit[c], buffer[c], c \in lagged)
  BY DEF Line, Coming, LineFrom
<1> QED  BY <1>1, <1>2, LineParts, Zenon

LEMMA LineNext ==
  ASSUME TypeInv', NEW c \in Clients
  PROVE  Line(c)' = LineOf(transit'[c], buffer'[c], c \in lagged')
<1>1. (c \in lagged') \in BOOLEAN /\ transit'[c] \in Seq(FitMessage) /\ buffer'[c] \in Seq(FitUpdate)
  BY DEF TypeInv
<1>2. Line(c)' = LineFrom(transit'[c], buffer'[c], c \in lagged')
  BY DEF Line, Coming, LineFrom
<1> QED  BY <1>1, <1>2, LineParts, Zenon

(* A client whose messages a step leaves alone. *)
LEMMA LineKept ==
  ASSUME TypeInv, TypeInv', NEW d \in Clients,
         transit'[d] = transit[d], buffer'[d] = buffer[d], d \in lagged' <=> d \in lagged
  PROVE  Line(d)' = Line(d)
<1>1. (d \in lagged') = (d \in lagged)
  OBVIOUS
<1> QED  BY <1>1, LineIs, LineNext

(* An update of the store reaches a line in one of the two ways. *)
LEMMA LinePublished ==
  ASSUME TypeInv, TypeInv', LagInv, NEW id \in EventIds, NEW become \in Kinds(id),
         Upsert(id, become), UNCHANGED transit, NEW c \in connected
  PROVE  LET u == Waiting(Published(id, become), FALSE)
         IN \/ /\ Len(Line(c)) < SubscriberBuffer + Transit
               /\ Line(c)' = Append(Line(c), u)
            \/ LET oldest == Len(Line(c)) - SubscriberBuffer + 1
               IN /\ oldest > 0
                  /\ ~Line(c)[oldest].snapshot
                  /\ Line(c)' = Feed!PushedOut(Append(Line(c), u), oldest)
<1> DEFINE u == Published(id, become)
           t == transit[c]
           b == buffer[c]
           k == Len(transit[c])
           n == Len(buffer[c])
           lag == c \in lagged
           e == Waiting(u, FALSE)
<1>1. c \in Clients /\ lag \in BOOLEAN /\ t \in Seq(FitMessage) /\ b \in Seq(FitUpdate)
  BY DEF TypeInv
<1>2. u \in FitUpdate /\ buffer'[c] = Offered(c, u) /\ transit'[c] = t
  BY <1>1, UpsertType
<1>3. lagged' = lagged \cup {d \in connected : Overflows(d)}
  BY DEF Upsert
<1>4. Line(c) = LineOf(t, b, lag) /\ Line(c)' = LineOf(t, Offered(c, u), c \in lagged')
  BY <1>1, <1>2, LineIs, LineNext
<1>5. /\ Len(Line(c)) = k + n /\ k \in Nat /\ n \in Nat
      /\ \A i \in 1 .. k + n : Line(c)[i] = Place(t, b, lag, i)
  <2> HIDE DEF lag
  <2>1. /\ Len(LineOf(t, b, lag)) = Len(t) + Len(b) /\ Len(t) \in Nat /\ Len(b) \in Nat
        /\ \A i \in 1 .. Len(t) + Len(b) : LineOf(t, b, lag)[i] = Place(t, b, lag, i)
    BY <1>1, LineType
  <2> QED  BY <1>4, <2>1
<1>6. /\ k <= Transit /\ n <= SubscriberBuffer
      /\ Transit \in Nat \ {0} /\ SubscriberBuffer \in Nat \ {0}
  BY <1>1, StreamAssumption DEF TypeInv
<1>7. CASE ~Overflows(c)
  <2>1. Offered(c, u) = Append(b, u) /\ n < SubscriberBuffer
    BY <1>5, <1>6, <1>7 DEF Offered, Overflows
  <2>2. (c \in lagged') = lag
    BY <1>3, <1>7
  <2>3. lag => b # <<>>
    BY DEF LagInv
  <2>b. Line(c)' = LineOf(t, Append(b, u), lag)
    <3> DEFINE after == c \in lagged'
    <3>1. Line(c)' = LineOf(t, Offered(c, u), after)
      BY <1>4
    <3>2. after = lag
      BY <2>2
    <3> HIDE DEF after, lag, t, b, u
    <3> QED  BY <2>1, <3>1, <3>2
  <2> HIDE DEF u, t, b, lag
  <2>a. LineOf(t, Append(b, u), lag) = Append(LineOf(t, b, lag), Waiting(u, FALSE))
    BY <1>1, <1>2, <2>3, LineJoined
  <2>4. Line(c)' = Append(Line(c), Waiting(u, FALSE))
    BY <1>4, <2>a, <2>b
  <2>5. Len(Line(c)) < SubscriberBuffer + Transit
    <3>1. /\ Len(Line(c)) = k + n /\ k \in Nat /\ n \in Nat /\ k <= Transit /\ n < SubscriberBuffer
          /\ Transit \in Nat /\ SubscriberBuffer \in Nat
      BY <1>5, <1>6, <2>1
    <3> HIDE DEF k, n
    <3> QED  BY <3>1
  <2> QED  BY <2>4, <2>5 DEF u
<1>8. CASE Overflows(c)
  <2>1. n = SubscriberBuffer /\ b # <<>>
    BY <1>1, <1>5, <1>6, <1>8, EmptySeq DEF Overflows
  <2>2. Offered(c, u) = Append(Tail(b), u)
    BY <1>8 DEF Offered
  <2>3. (c \in lagged') = TRUE
    BY <1>3, <1>8
  <2>4. Len(Line(c)) - SubscriberBuffer + 1 = k + 1 /\ k + 1 > 0 /\ k + 1 \in 1 .. k + n
        /\ ~(k + 1 <= k)
    BY <1>5, <1>6, <2>1
  <2>5. Line(c)[k + 1] = Waiting(b[(k + 1) - k], k + 1 = k + 1 /\ lag)
    BY <1>5, <2>4, Zenon DEF Place
  <2>6. ~Line(c)[k + 1].snapshot
    BY <2>5 DEF Waiting
  <2> HIDE DEF u, t, b, lag
  <2>a. LineOf(t, Append(Tail(b), u), TRUE) =
          Feed!PushedOut(Append(LineOf(t, b, lag), Waiting(u, FALSE)), Len(t) + 1)
    BY <1>1, <1>2, <2>1, LinePushed
  <2>b. Line(c)' = LineOf(t, Append(Tail(b), u), TRUE)
    BY <1>4, <2>2, <2>3, Zenon
  <2>c. Line(c)' = Feed!PushedOut(Append(Line(c), Waiting(u, FALSE)), Len(t) + 1)
    BY <1>4, <2>a, <2>b, Zenon
  <2>7. Line(c)' = Feed!PushedOut(Append(Line(c), Waiting(u, FALSE)), k + 1)
    BY <2>c DEF t
  <2> QED  BY <2>4, <2>6, <2>7 DEF u
<1> QED  BY <1>7, <1>8

(* One client's line changes, the others keep theirs. *)
LEMMA OneLine ==
  ASSUME NEW c \in Clients, NEW q, Line(c)' = q, \A d \in Clients \ {c} : Line(d)' = Line(d)
  PROVE  Lines' = [Lines EXCEPT ![c] = q]
BY DEF Lines

(* Every step does to the lines what DashboardFeed promises, or nothing. *)
LEMMA FeedStep ==
  ASSUME TypeInv, TypeInv', LagInv, [Next]_vars
  PROVE  Feed!Next \/ UNCHANGED <<updates, connected, Lines>>
<1>1. ASSUME NEW id \in EventIds, Triage(id) \/ \E c \in Clients : Operate(c, id)
      PROVE  Feed!Next
  <2>1. transit' = transit /\ connected' = connected
    BY <1>1, StoreSteps
  <2>2. PICK become \in Kinds(id) : Upsert(id, become)
    BY <1>1, StoreSteps
  <2> DEFINE u == Waiting(Published(id, become), FALSE)
  <2>3. updates' = updates + 1 /\ u = Feed!Message(updates', FALSE)
    BY <2>2, UpsertType DEF Published, Waiting, Feed!Message
  <2> HIDE DEF u
  <2>4. ASSUME NEW c \in Clients, c \notin connected PROVE Line(c)' = Line(c)
    <3>1. buffer'[c] = buffer[c] /\ c \notin lagged /\ c \notin lagged'
      BY <2>2, <2>4, UpsertType DEF TypeInv
    <3> QED  BY <2>1, <3>1, LineKept
  <2>5. ASSUME NEW c \in connected PROVE Feed!Joins(c, u) \/ Feed!PushesOut(c, u)
    <3>1. c \in Clients /\ Lines[c] = Line(c) /\ Lines'[c] = Line(c)'
      BY DEF TypeInv, Lines
    <3>2. \/ /\ Len(Line(c)) < SubscriberBuffer + Transit
             /\ Line(c)' = Append(Line(c), u)
          \/ LET oldest == Len(Line(c)) - SubscriberBuffer + 1
             IN /\ oldest > 0
                /\ ~Line(c)[oldest].snapshot
                /\ Line(c)' = Feed!PushedOut(Append(Line(c), u), oldest)
      BY <2>1, <2>2, LinePublished DEF u
    <3> QED  BY <3>1, <3>2, Zenon DEF Feed!Joins, Feed!PushesOut, Lines
  <2>6. Feed!Publish
    <3>1. Lines' = [c \in Clients |-> Line(c)']
      BY DEF Lines
    <3> QED  BY <2>1, <2>3, <2>4, <2>5, <3>1, Zenon DEF Feed!Publish, Lines
  <2> QED  BY <2>6 DEF Feed!Next
<1>2. ASSUME NEW c \in Clients, Connect(c) PROVE Feed!Next
  <2>1. /\ c \notin connected /\ connected' = connected \cup {c} /\ updates' = updates
        /\ transit' = [transit EXCEPT ![c] = <<Snapshot>>]
        /\ buffer' = [buffer EXCEPT ![c] = <<>>] /\ lagged' = lagged
    BY <1>2 DEF Connect, storeVars
  <2>2. transit'[c] = <<Snapshot>> /\ buffer'[c] = <<>>
    BY <2>1 DEF TypeInv
  <2>3. Line(c)' = <<Sent(Snapshot)>>
    <3>1. Line(c)' = LineOf(<<Snapshot>>, <<>>, c \in lagged')
      BY <2>2, LineNext
    <3>2. Snapshot \in FitMessage
      BY SentFits
    <3>3. (c \in lagged') \in BOOLEAN
      OBVIOUS
    <3> QED  BY <3>1, <3>2, <3>3, LineBegun
  <2>4. ASSUME NEW d \in Clients \ {c} PROVE Line(d)' = Line(d)
    BY <2>1, LineKept DEF TypeInv
  <2>5. Lines' = [Lines EXCEPT ![c] = <<Feed!Message(updates, TRUE)>>]
    <3>1. Sent(Snapshot) = Feed!Message(updates, TRUE)
      BY DEF Sent, Snapshot, Feed!Message
    <3> QED  BY <2>3, <2>4, <3>1, OneLine
  <2>6. Feed!Connect(c)
    BY <2>1, <2>5 DEF Feed!Connect, Lines
  <2> QED  BY <2>6 DEF Feed!Next
<1>3. ASSUME NEW c \in Clients, Pump(c) PROVE UNCHANGED <<updates, connected, Lines>>
  <2>1. /\ updates' = updates /\ connected' = connected /\ lagged' = lagged \ {c}
    BY <1>3 DEF Pump, storeVars
  <2> DEFINE b == buffer[c]
             m == PumpedMessage(Head(buffer[c]), c \in lagged)
  <2>2. /\ b # <<>> /\ transit' = [transit EXCEPT ![c] = Append(transit[c], m)]
        /\ buffer' = [buffer EXCEPT ![c] = Tail(b)]
    BY <1>3, PumpEffect
  <2>3. transit'[c] = Append(transit[c], m) /\ buffer'[c] = Tail(b)
    BY <2>2 DEF TypeInv
  <2>4. Line(c)' = Line(c)
    <3>1. Line(c)' = LineOf(Append(transit[c], m), Tail(b), FALSE)
      <4>1. (c \in lagged') = FALSE
        BY <2>1
      <4> QED  BY <2>3, <4>1, LineNext
    <3>2. /\ (c \in lagged) \in BOOLEAN /\ transit[c] \in Seq(FitMessage)
          /\ buffer[c] \in Seq(FitUpdate)
      BY DEF TypeInv
    <3>3. LineOf(Append(transit[c], m), Tail(b), FALSE) = LineOf(transit[c], b, c \in lagged)
      BY <2>2, <3>2, LinePumped
    <3> QED  BY <3>1, <3>3, LineIs
  <2>5. ASSUME NEW d \in Clients \ {c} PROVE Line(d)' = Line(d)
    BY <2>1, <2>2, LineKept DEF TypeInv
  <2> QED  BY <2>1, <2>4, <2>5 DEF Lines
<1>4. ASSUME NEW c \in Clients, Drop(c) PROVE Feed!Next
  <2>1. /\ c \in connected /\ connected' = connected \ {c} /\ updates' = updates
        /\ transit' = [transit EXCEPT ![c] = <<>>]
        /\ buffer' = [buffer EXCEPT ![c] = <<>>] /\ lagged' = lagged \ {c}
    BY <1>4 DEF Drop, Unsubscribed, storeVars
  <2>2. transit'[c] = <<>> /\ buffer'[c] = <<>>
    BY <2>1 DEF TypeInv
  <2>3. Line(c)' = <<>>
    <3>1. Line(c)' = LineOf(<<>>, <<>>, c \in lagged')
      BY <2>2, LineNext
    <3>2. (c \in lagged') \in BOOLEAN
      OBVIOUS
    <3> QED  BY <3>1, <3>2, LineGone
  <2>4. ASSUME NEW d \in Clients \ {c} PROVE Line(d)' = Line(d)
    BY <2>1, LineKept DEF TypeInv
  <2>5. Lines' = [Lines EXCEPT ![c] = <<>>]
    BY <2>3, <2>4, OneLine
  <2>6. Feed!Breaks(c)
    BY <2>1, <2>5 DEF Feed!Breaks, Lines
  <2> QED  BY <2>6 DEF Feed!Next
<1>5. ASSUME NEW c \in Clients, Receive(c) PROVE Feed!Next
  <2>1. /\ transit[c] # <<>> /\ transit' = [transit EXCEPT ![c] = Tail(transit[c])]
        /\ UNCHANGED <<updates, buffer, lagged, connected>>
    BY <1>5, ReceiveEffect
  <2>2. transit'[c] = Tail(transit[c]) /\ (c \in lagged') = (c \in lagged)
    BY <2>1 DEF TypeInv
  <2>3. Line(c) # <<>> /\ Line(c)' = Tail(Line(c))
    <3>1. /\ (c \in lagged) \in BOOLEAN /\ transit[c] \in Seq(FitMessage)
          /\ buffer[c] \in Seq(FitUpdate)
      BY DEF TypeInv
    <3>2. Line(c)' = LineOf(Tail(transit[c]), buffer[c], c \in lagged)
      BY <2>1, <2>2, LineNext
    <3>3. Line(c) = LineOf(transit[c], buffer[c], c \in lagged)
      BY LineIs
    <3>4. /\ LineOf(transit[c], buffer[c], c \in lagged) # <<>>
          /\ LineOf(Tail(transit[c]), buffer[c], c \in lagged)
               = Tail(LineOf(transit[c], buffer[c], c \in lagged))
      BY <2>1, <3>1, LineTaken
    <3> QED  BY <3>2, <3>3, <3>4
  <2>4. ASSUME NEW d \in Clients \ {c} PROVE Line(d)' = Line(d)
    BY <2>1, LineKept DEF TypeInv
  <2>5. Lines' = [Lines EXCEPT ![c] = Tail(Line(c))]
    BY <2>3, <2>4, OneLine
  <2>6. Lines[c] = Line(c)
    BY DEF Lines
  <2>7. Feed!Receive(c)
    BY <2>1, <2>3, <2>5, <2>6 DEF Feed!Receive, Lines
  <2> QED  BY <2>7 DEF Feed!Next
<1>6. ASSUME NEW c \in Clients, NEW reply \in replies[c], ApplyLocal(c, reply)
      PROVE  UNCHANGED <<updates, connected, Lines>>
  <2>1. UNCHANGED <<updates, connected, transit, buffer, lagged>>
    BY <1>6 DEF ApplyLocal, serverVars, storeVars
  <2>2. \A d \in Clients : Line(d)' = Line(d)
    BY <2>1, LineKept
  <2> QED  BY <2>1, <2>2 DEF Lines
<1>7. ASSUME UNCHANGED vars PROVE UNCHANGED <<updates, connected, Lines>>
  <2>1. UNCHANGED <<updates, connected, transit, buffer, lagged>>
    BY <1>7 DEF vars, serverVars, storeVars
  <2>2. \A d \in Clients : Line(d)' = Line(d)
    BY <2>1, LineKept
  <2> QED  BY <2>1, <2>2 DEF Lines
<1> QED  BY <1>1, <1>2, <1>3, <1>4, <1>5, <1>6, <1>7 DEF Next

(* For any clients, alarms, buffer and transit sizes, and any number of    *)
(* reconnections, the stream implements the safety part of DashboardFeed:  *)
(* what leads to a dashboard is one line that begins with a snapshot, is   *)
(* given every update and loses only what waited longest for the pump,     *)
(* with a mark on the message behind it.                                   *)
THEOREM StreamImplementsFeed == Spec => Feed!Safety
<1>1. Init => TypeInv /\ LagInv
  BY TypeInit, LagInit
<1>2. TypeInv /\ LagInv /\ [Next]_vars => (TypeInv /\ LagInv)'
  BY TypeStep, LagStep
<1>3. Init => Feed!Init
  <2> SUFFICES ASSUME Init PROVE Feed!Init
    OBVIOUS
  <2>1. ASSUME NEW c \in Clients PROVE Line(c) = <<>>
    <3>1. transit[c] = <<>> /\ buffer[c] = <<>>
      BY DEF Init
    <3>2. Line(c) = LineOf(<<>>, <<>>, c \in lagged)
      BY <3>1, TypeInit, LineIs
    <3>3. (c \in lagged) \in BOOLEAN
      OBVIOUS
    <3> QED  BY <3>2, <3>3, LineGone
  <2> QED  BY <2>1 DEF Init, Feed!Init
<1>4. TypeInv /\ LagInv /\ TypeInv' /\ [Next]_vars
        => [Feed!Next]_<<updates, connected, Lines>>
  BY FeedStep
<1> QED  BY <1>1, <1>2, <1>3, <1>4, PTL DEF Spec, Feed!Safety, Feed!vars, Lines

=============================================================================
