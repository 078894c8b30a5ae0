----------------------------- MODULE FeedsProofs -----------------------------
(***************************************************************************)
(* Theorems about the two producers of Feeds, for any delays, cooldown,    *)
(* run lengths and warm-up, through any failures and a stop at any time.   *)
(***************************************************************************)
EXTENDS Feeds, FiniteSetTheorems, TLAPS

-----------------------------------------------------------------------------
(* The powers of two.  The provers know 2 ^ n only as a term: what doubles *)
(* is the number of subsets of a set that gains an element.                *)

LEMMA SubsetsDouble ==
  ASSUME NEW S, IsFiniteSet(S), NEW x, x \notin S
  PROVE  /\ IsFiniteSet(SUBSET S)
         /\ Cardinality(SUBSET (S \cup {x})) = 2 * Cardinality(SUBSET S)
<1> DEFINE without == SUBSET S
           with == {T \cup {x} : T \in SUBSET S}
           f == [T \in without |-> T \cup {x}]
<1>1. IsFiniteSet(without) /\ Cardinality(without) \in Nat
  BY FS_SUBSET, FS_CardinalityType
<1>2. f \in Bijection(without, with)
  <2>1. \A T, U \in without : f[T] = f[U] => T = U
    OBVIOUS
  <2>2. f \in [without -> with] /\ DOMAIN f = without
    OBVIOUS
  <2>3. \A V \in with : \E T \in without : f[T] = V
    OBVIOUS
  <2> HIDE DEF f, with, without
  <2>4. f \in Injection(without, with)
    BY <2>1, <2>2 DEF Injection, IsInjective
  <2>5. f \in Surjection(without, with)
    BY <2>2, <2>3 DEF Surjection
  <2> QED  BY <2>4, <2>5 DEF Bijection
<1>3. IsFiniteSet(with) /\ Cardinality(with) = Cardinality(without)
  <2>1. ExistsBijection(without, with)
    BY <1>2 DEF ExistsBijection
  <2> QED  BY <1>1, <2>1, FS_Bijection
<1>4. without \cap with = {}
  OBVIOUS
<1>5. SUBSET (S \cup {x}) = without \cup with
  <2>1. ASSUME NEW V \in SUBSET (S \cup {x}) PROVE V \in without \cup with
    <3>1. CASE x \in V
      <4>1. V \ {x} \in SUBSET S /\ V = (V \ {x}) \cup {x}
        BY <3>1
      <4> QED  BY <4>1
    <3>2. CASE x \notin V
      BY <3>2
    <3> QED  BY <3>1, <3>2
  <2> QED  BY <2>1
<1> HIDE DEF without, with
<1>6. Cardinality(without \cup with) = Cardinality(without) + Cardinality(with) - Cardinality({})
  BY <1>1, <1>3, <1>4, FS_Union
<1>7. Cardinality(without \cup with) = 2 * Cardinality(without)
  BY <1>1, <1>3, <1>6, FS_EmptySet
<1>8. Cardinality(SUBSET (S \cup {x})) = 2 * Cardinality(without)
  BY <1>5, <1>7
<1> QED  BY <1>1, <1>8 DEF without

(* 2 ^ n is a natural number and the next power is twice it. *)
LEMMA PowerDoubles ==
  ASSUME NEW n \in Nat
  PROVE  2 ^ n \in Nat /\ 2 ^ (n + 1) = 2 * 2 ^ n
<1>1. IsFiniteSet(1 .. n) /\ Cardinality(1 .. n) = n
  BY FS_Interval
<1>2. IsFiniteSet(1 .. n + 1) /\ Cardinality(1 .. n + 1) = n + 1
  BY FS_Interval
<1>3. Cardinality(SUBSET (1 .. n)) = 2 ^ n
  BY <1>1, FS_SUBSET
<1>4. Cardinality(SUBSET (1 .. n + 1)) = 2 ^ (n + 1)
  BY <1>2, FS_SUBSET
<1>5. n + 1 \notin 1 .. n /\ 1 .. n + 1 = (1 .. n) \cup {n + 1}
  OBVIOUS
<1>6. /\ IsFiniteSet(SUBSET (1 .. n))
      /\ Cardinality(SUBSET (1 .. n + 1)) = 2 * Cardinality(SUBSET (1 .. n))
  BY <1>1, <1>5, SubsetsDouble
<1>7. Cardinality(SUBSET (1 .. n)) \in Nat
  BY <1>6, FS_CardinalityType
<1> QED  BY <1>3, <1>4, <1>6, <1>7

-----------------------------------------------------------------------------
(* The ingest loop. *)

(* The delay of the n-th failure in a row, as BackoffSchedule has it. *)
DelayOf(n) ==
  LET doubled == InitialBackoff * 2 ^ (n - 1)
  IN IF n = 1 \/ doubled < MaxBackoff THEN doubled ELSE MaxBackoff

FailuresWithNext == IF failures < FailureCap THEN failures + 1 ELSE failures

(* What the backoff variable holds at every await: the delay of the sleep  *)
(* or, before an attempt, of the failure it may end in.                    *)
BackoffInv ==
  /\ link = "sleeping" => failures >= 1 /\ backoff = DelayOf(failures)
  /\ link = "connecting" => backoff = DelayOf(FailuresWithNext)
  /\ link \in {"receiving", "accepting"} => failures = 0 /\ backoff = InitialBackoff

IngestInv == IngestTypeOK /\ FeedLampHonest /\ BackoffInv

LEMMA FirstDelay == DelayOf(1) = InitialBackoff
<1>1. 1 - 1 = 0 /\ 2 ^ 0 = 1
  OBVIOUS
<1> QED  BY <1>1, BackoffAssumption DEF DelayOf

(* One more doubling leads to the next delay, capped (ingest.py:70). *)
LEMMA NextDelay ==
  ASSUME NEW n \in 1 .. FailureCap
  PROVE  NextBackoff(DelayOf(n)) = DelayOf(IF n < FailureCap THEN n + 1 ELSE n)
<1> DEFINE k == n - 1
           this == InitialBackoff * 2 ^ k
           next == InitialBackoff * 2 ^ (k + 1)
           last == InitialBackoff * 2 ^ (FailureCap - 1)
<1>1. /\ n \in Nat \ {0} /\ k \in Nat /\ InitialBackoff \in Nat \ {0} /\ MaxBackoff \in Nat \ {0}
      /\ FailureCap \in Nat \ {0, 1} /\ last >= MaxBackoff
  BY BackoffAssumption
<1>2. 2 ^ k \in Nat /\ 2 ^ (k + 1) = 2 * 2 ^ k
  BY <1>1, PowerDoubles
<1>3. this \in Nat /\ next = 2 * this
  BY <1>1, <1>2
<1>4. DelayOf(n) = IF n = 1 \/ this < MaxBackoff THEN this ELSE MaxBackoff
  BY DEF DelayOf
<1>5. CASE n < FailureCap
  <2>1. (n + 1) - 1 = k + 1 /\ n + 1 # 1
    BY <1>1
  <2>2. DelayOf(n + 1) = IF next < MaxBackoff THEN next ELSE MaxBackoff
    BY <2>1 DEF DelayOf
  <2> HIDE DEF this, next
  <2> QED  BY <1>1, <1>3, <1>4, <1>5, <2>2 DEF NextBackoff
<1>6. CASE ~(n < FailureCap)
  <2>1. n = FailureCap /\ n # 1
    BY <1>1, <1>6
  <2>2. this = last
    BY <2>1
  <2> HIDE DEF this, next, last
  <2>3. DelayOf(n) = MaxBackoff
    BY <1>1, <1>3, <1>4, <2>1, <2>2
  <2> QED  BY <1>1, <1>6, <2>3 DEF NextBackoff
<1> QED  BY <1>5, <1>6

LEMMA IngestInvInit == IngestInit => IngestInv
<1> SUFFICES ASSUME IngestInit PROVE IngestInv
  OBVIOUS
<1>1. FailuresWithNext = 1
  BY BackoffAssumption DEF IngestInit, FailuresWithNext
<1>2. /\ InitialBackoff \in Nat \ {0} /\ MaxBackoff \in Nat \ {0} /\ FailureCap \in Nat \ {0, 1}
      /\ link = "connecting" /\ backoff = InitialBackoff /\ failures = 0
      /\ streamConnected = FALSE /\ feedUp = FALSE /\ closedCleanly = FALSE
  BY BackoffAssumption DEF IngestInit
<1>3. /\ failures \in 0 .. FailureCap
      /\ backoff \in 1 .. (IF InitialBackoff > MaxBackoff THEN InitialBackoff ELSE MaxBackoff)
  BY <1>2
<1>4. IngestTypeOK /\ FeedLampHonest
  BY <1>2, <1>3 DEF IngestTypeOK, FeedLampHonest
<1>5. BackoffInv
  BY <1>1, <1>2, FirstDelay DEF BackoffInv
<1> QED  BY <1>4, <1>5 DEF IngestInv

(* No step of the loop, nor its cancellation, breaks any of the three. *)
LEMMA IngestInvStep ==
  ASSUME IngestInv, IngestStep \/ FeedComesBack \/ IngestCancelled \/ UNCHANGED ingestVars
  PROVE  IngestInv'
<1>1. /\ IngestTypeOK /\ FeedLampHonest /\ BackoffInv
      /\ failures \in Nat /\ failures <= FailureCap /\ FailureCap \in Nat \ {0, 1}
      /\ InitialBackoff \in Nat \ {0} /\ MaxBackoff \in Nat \ {0}
  BY BackoffAssumption DEF IngestInv, IngestTypeOK
<1>2. ASSUME Connects PROVE IngestInv'
  <2>a. /\ backoff' = InitialBackoff /\ failures' = 0 /\ link' = "receiving"
        /\ streamConnected' = TRUE /\ closedCleanly' = FALSE /\ feedUp' = feedUp
    BY <1>2 DEF Connects, BackoffOnceConnected
  <2>b. /\ failures' \in 0 .. FailureCap
        /\ backoff' \in 1 .. (IF InitialBackoff > MaxBackoff THEN InitialBackoff ELSE MaxBackoff)
    BY <1>1, <2>a
  <2>1. IngestTypeOK' /\ FeedLampHonest'
    BY <1>1, <2>a, <2>b DEF IngestTypeOK, FeedLampHonest
  <2>2. BackoffInv'
    BY <1>2 DEF Connects, BackoffOnceConnected, BackoffInv
  <2> QED  BY <2>1, <2>2 DEF IngestInv
<1>3. ASSUME Message \/ Accepted PROVE IngestInv'
  BY <1>1, <1>3 DEF Message, Accepted, IngestInv, IngestTypeOK, FeedLampHonest, BackoffInv
<1>4. ASSUME Fails PROVE IngestInv'
  <2>a. /\ link' = "sleeping" /\ streamConnected' = FALSE
        /\ UNCHANGED <<backoff, feedUp, closedCleanly>>
    BY <1>4 DEF Fails, LampAfterFailure
  <2>b. failures' \in 0 .. FailureCap
    BY <1>1, <1>4 DEF Fails
  <2>1. IngestTypeOK' /\ FeedLampHonest'
    BY <1>1, <2>a, <2>b DEF IngestTypeOK, FeedLampHonest
  <2>2. /\ link' = "sleeping" /\ backoff' = backoff /\ failures' = FailuresWithNext
        /\ failures' >= 1
    BY <1>1, <1>4 DEF Fails, FailuresWithNext
  <2>3. backoff = DelayOf(FailuresWithNext)
    <3>1. CASE link = "connecting"
      BY <1>1, <3>1 DEF BackoffInv
    <3>2. CASE link # "connecting"
      <4>1. failures = 0 /\ backoff = InitialBackoff
        BY <1>1, <1>4, <3>2 DEF Fails, BackoffInv
      <4>2. FailuresWithNext = 1
        BY <1>1, <4>1 DEF FailuresWithNext
      <4> QED  BY <4>1, <4>2, FirstDelay
    <3> QED  BY <3>1, <3>2
  <2>4. BackoffInv'
    BY <2>2, <2>3 DEF BackoffInv
  <2> QED  BY <2>1, <2>4 DEF IngestInv
<1>5. ASSUME ClosesCleanly PROVE IngestInv'
  <2>1. IngestTypeOK' /\ FeedLampHonest'
    BY <1>1, <1>5 DEF ClosesCleanly, IngestTypeOK, FeedLampHonest
  <2>2. /\ link' = "connecting" /\ failures' = 0 /\ backoff' = InitialBackoff
    BY <1>1, <1>5 DEF ClosesCleanly, BackoffInv
  <2>3. FailuresWithNext' = 1
    BY <1>1, <2>2 DEF FailuresWithNext
  <2>4. BackoffInv'
    BY <2>2, <2>3, FirstDelay DEF BackoffInv
  <2> QED  BY <2>1, <2>4 DEF IngestInv
<1>6. ASSUME Wakes PROVE IngestInv'
  <2>1. /\ link = "sleeping" /\ link' = "connecting" /\ backoff' = NextBackoff(backoff)
        /\ failures' = failures /\ UNCHANGED <<streamConnected, feedUp, closedCleanly>>
    BY <1>6 DEF Wakes, AfterSleep
  <2>2. IngestTypeOK'
    BY <1>1, <2>1 DEF IngestTypeOK, NextBackoff
  <2>3. FeedLampHonest'
    BY <1>1, <2>1 DEF FeedLampHonest
  <2>4. failures \in 1 .. FailureCap /\ backoff = DelayOf(failures)
    BY <1>1, <2>1 DEF BackoffInv
  <2>5. backoff' = DelayOf(FailuresWithNext)
    BY <2>1, <2>4, NextDelay DEF FailuresWithNext
  <2>6. FailuresWithNext' = FailuresWithNext
    BY <2>1 DEF FailuresWithNext
  <2>7. BackoffInv'
    BY <2>1, <2>5, <2>6 DEF BackoffInv
  <2> QED  BY <2>2, <2>3, <2>7 DEF IngestInv
<1>7. ASSUME IngestCancelled PROVE IngestInv'
  BY <1>1, <1>7 DEF IngestCancelled, IngestInv, IngestTypeOK, FeedLampHonest, BackoffInv
<1>8. ASSUME FeedComesBack \/ UNCHANGED ingestVars PROVE IngestInv'
  <2>1. /\ UNCHANGED <<link, backoff, streamConnected, failures, closedCleanly>>
        /\ feedUp' \in BOOLEAN
    BY <1>1, <1>8 DEF FeedComesBack, ingestVars, IngestTypeOK
  <2>2. FailuresWithNext' = FailuresWithNext
    BY <2>1 DEF FailuresWithNext
  <2> QED  BY <1>1, <2>1, <2>2 DEF IngestInv, IngestTypeOK, FeedLampHonest, BackoffInv
<1> QED  BY <1>2, <1>3, <1>4, <1>5, <1>6, <1>7, <1>8 DEF IngestStep

-----------------------------------------------------------------------------
(* The camera task. *)

(* How the debouncer's counters are related to what was read: outside an   *)
(* episode the last alert's motion has ended; in one, the quiet run is the *)
(* run of readings without motion and is not yet long enough to end it.    *)
DebouncerInv ==
  /\ ~inEpisode => ended
  /\ inEpisode => quietRun = calm /\ quietRun < QuietRunRequired
  /\ risingRun <= moving

(* How far the capture is at each await. *)
CaptureInv ==
  /\ camera = "opening" => ~capture
  /\ camera = "warming" => capture /\ warmed < WarmupFrames
  /\ camera = "dropping" => ~videoConnected

VideoInv == VideoTypeOK /\ CameraLampHonest /\ DebouncerInv /\ CaptureInv

LEMMA VideoInvInit == VideoInit => VideoInv
<1> SUFFICES ASSUME VideoInit PROVE VideoInv
  OBVIOUS
<1>1. /\ warmed \in 0 .. WarmupFrames /\ quietRun \in 0 .. QuietRunRequired
      /\ risingRun \in 0 .. RisingEdgeFrames - 1 /\ sinceEnd \in 0 .. VideoCooldown
      /\ calm \in 0 .. QuietRunRequired /\ moving \in 0 .. RisingEdgeFrames
      /\ risingRun <= moving
  BY VideoAssumption DEF VideoInit
<1>2. /\ camera = "opening" /\ capture = FALSE /\ previous = FALSE /\ inEpisode = FALSE
      /\ videoConnected = FALSE /\ steady = FALSE /\ ended = TRUE
  BY DEF VideoInit
<1>3. VideoTypeOK /\ DebouncerInv
  BY <1>1, <1>2 DEF VideoTypeOK, DebouncerInv
<1> QED  BY <1>2, <1>3 DEF VideoInv, CameraLampHonest, CaptureInv

(* What a reading does to the debouncer (MotionDebouncer.observe).         *)
LEMMA ReadingKeepsDebouncer ==
  ASSUME VideoTypeOK, DebouncerInv, NEW detected \in BOOLEAN,
         IF detected THEN ObserveMotion ELSE ObserveQuiet, Recorded(detected)
  PROVE  /\ DebouncerInv'
         /\ inEpisode' \in BOOLEAN /\ ended' \in BOOLEAN
         /\ quietRun' \in 0 .. QuietRunRequired
         /\ risingRun' \in 0 .. RisingEdgeFrames - 1
         /\ sinceEnd' \in 0 .. VideoCooldown
         /\ calm' \in 0 .. QuietRunRequired
         /\ moving' \in 0 .. RisingEdgeFrames
<1>1. /\ QuietRunRequired \in Nat \ {0} /\ RisingEdgeFrames \in Nat \ {0} /\ VideoCooldown \in Nat
      /\ quietRun \in 0 .. QuietRunRequired /\ risingRun \in 0 .. RisingEdgeFrames - 1
      /\ sinceEnd \in 0 .. VideoCooldown /\ calm \in 0 .. QuietRunRequired
      /\ moving \in 0 .. RisingEdgeFrames /\ inEpisode \in BOOLEAN /\ ended \in BOOLEAN
  BY VideoAssumption DEF VideoTypeOK
<1>2. /\ ~inEpisode => ended
      /\ inEpisode => quietRun = calm /\ quietRun < QuietRunRequired
      /\ risingRun <= moving
  BY DEF DebouncerInv
<1>3. CASE detected
  <2>1. /\ quietRun' = 0 /\ calm' = 0 /\ sinceEnd' = sinceEnd
        /\ moving' = UpTo(moving + 1, RisingEdgeFrames)
        /\ ended' = (~Alerts(TRUE) /\ (ended \/ calm' = QuietRunRequired))
    BY <1>3 DEF ObserveMotion, Recorded
  <2>2. moving' \in 0 .. RisingEdgeFrames /\ (moving' = moving + 1 \/ moving' = RisingEdgeFrames)
    BY <1>1, <2>1 DEF UpTo
  <2>3. CASE inEpisode \/ CoolingDown
    <3>1. inEpisode' = inEpisode /\ risingRun' = risingRun /\ ~Alerts(TRUE)
      BY <1>3, <2>3 DEF ObserveMotion, Alerts
    <3>2. ended' = (ended \/ calm' = QuietRunRequired)
      BY <2>1, <3>1
    <3>3. ended' \in BOOLEAN /\ (~inEpisode' => ended')
      BY <1>2, <3>1, <3>2
    <3>4. risingRun' <= moving'
      BY <1>1, <1>2, <2>2, <3>1
    <3>5. risingRun' \in 0 .. RisingEdgeFrames - 1 /\ quietRun' \in 0 .. QuietRunRequired
      BY <1>1, <2>1, <3>1
    <3>6. sinceEnd' \in 0 .. VideoCooldown /\ calm' \in 0 .. QuietRunRequired
      BY <1>1, <2>1
    <3>7. inEpisode' => quietRun' = calm' /\ quietRun' < QuietRunRequired
      BY <1>1, <2>1
    <3>8. DebouncerInv'
      BY <3>3, <3>4, <3>7 DEF DebouncerInv
    <3>9. inEpisode' \in BOOLEAN
      BY <1>1, <3>1
    <3> QED  BY <2>2, <3>3, <3>5, <3>6, <3>8, <3>9
  <2>4. CASE ~(inEpisode \/ CoolingDown) /\ Alerts(TRUE)
    <3>1. inEpisode' = TRUE /\ risingRun' = 0 /\ ended' = FALSE
      BY <1>3, <2>1, <2>4 DEF ObserveMotion
    <3> QED  BY <1>1, <2>1, <2>2, <3>1 DEF DebouncerInv
  <2>5. CASE ~(inEpisode \/ CoolingDown) /\ ~Alerts(TRUE)
    <3>a. Alerts(TRUE) = FALSE
      BY <2>5 DEF Alerts
    <3>1. inEpisode' = FALSE /\ risingRun' = risingRun + 1
      BY <1>3, <2>5, <3>a DEF ObserveMotion
    <3>2. risingRun + 1 < RisingEdgeFrames
      BY <1>1, <2>5 DEF Alerts
    <3>3. ended' = TRUE
      BY <1>2, <2>1, <2>5
    <3>4. risingRun' <= moving'
      BY <1>1, <1>2, <2>2, <3>1, <3>2
    <3>5. risingRun' \in 0 .. RisingEdgeFrames - 1 /\ quietRun' \in 0 .. QuietRunRequired
      BY <1>1, <2>1, <3>1, <3>2
    <3>6. DebouncerInv'
      BY <3>1, <3>3, <3>4 DEF DebouncerInv
    <3>7. sinceEnd' \in 0 .. VideoCooldown /\ calm' \in 0 .. QuietRunRequired
      BY <1>1, <2>1
    <3> QED  BY <2>2, <3>1, <3>3, <3>5, <3>6, <3>7
  <2> QED  BY <2>3, <2>4, <2>5
<1>4. CASE ~detected
  <2>1. /\ risingRun' = 0 /\ moving' = 0
        /\ calm' = UpTo(calm + 1, QuietRunRequired)
        /\ ended' = (ended \/ calm' = QuietRunRequired)
    BY <1>4 DEF ObserveQuiet, Recorded, Alerts
  <2>2. calm' \in 0 .. QuietRunRequired
    BY <1>1, <2>1 DEF UpTo
  <2>3. CASE inEpisode
    <3>1. /\ quietRun' = quietRun + 1 /\ inEpisode' = ~QuietEnough
          /\ sinceEnd' = IF QuietEnough THEN 0 ELSE sinceEnd
      BY <1>4, <2>3 DEF ObserveQuiet
    <3>2. calm' = quietRun'
      BY <1>1, <1>2, <2>1, <2>3, <3>1 DEF UpTo
    <3>3. QuietEnough <=> quietRun' = QuietRunRequired
      BY <1>1, <1>2, <2>3, <3>1 DEF QuietEnough
    <3>4. quietRun' \in 0 .. QuietRunRequired /\ sinceEnd' \in 0 .. VideoCooldown
      BY <1>1, <1>2, <2>3, <3>1
    <3>5. ~inEpisode' => ended'
      BY <2>1, <3>1, <3>2, <3>3
    <3>6. inEpisode' \in BOOLEAN /\ (inEpisode' => quietRun' < QuietRunRequired)
      <4>1. inEpisode' => quietRun' # QuietRunRequired
        BY <3>1, <3>3
      <4> QED  BY <1>1, <3>1, <3>4, <4>1
    <3> QED  BY <1>1, <2>1, <2>2, <3>2, <3>4, <3>5, <3>6 DEF DebouncerInv
  <2>4. CASE ~inEpisode
    <3>1. UNCHANGED <<quietRun, inEpisode, sinceEnd>>
      BY <1>4, <2>4 DEF ObserveQuiet
    <3>2. ended' = TRUE
      BY <1>2, <2>1, <2>4
    <3> QED  BY <1>1, <2>1, <2>2, <2>4, <3>1, <3>2 DEF DebouncerInv
  <2> QED  BY <2>3, <2>4
<1> QED  BY <1>3, <1>4

(* No step of the task, nor its cancellation, breaks the invariant. *)
LEMMA VideoInvStep ==
  ASSUME VideoInv,
         \/ VideoStep \/ VideoCancelled \/ Releases \/ TimePasses \/ SceneMoves
         \/ UNCHANGED videoVars
  PROVE  VideoInv'
<1>1. /\ VideoTypeOK /\ CameraLampHonest /\ DebouncerInv /\ CaptureInv
      /\ WarmupFrames \in Nat /\ VideoCooldown \in Nat
  BY VideoAssumption DEF VideoInv
<1>2. ASSUME UNCHANGED readingVars
      PROVE  DebouncerInv'
  BY <1>1, <1>2 DEF readingVars, debouncerVars, DebouncerInv
<1>3. ASSUME NEW n \in 0 .. WarmupFrames, Warmed(n), capture' = TRUE, ~videoConnected
      PROVE  VideoInv'
  <2>1. /\ UNCHANGED readingVars /\ steady' = steady /\ warmed' = n
        /\ \/ n = WarmupFrames /\ camera' = "reading" /\ previous' = FALSE /\ videoConnected' = TRUE
           \/ n # WarmupFrames /\ camera' = "warming" /\ UNCHANGED <<previous, videoConnected>>
    BY <1>3 DEF Warmed
  <2>2. VideoTypeOK'
    BY <1>1, <1>3, <2>1 DEF VideoTypeOK, readingVars, debouncerVars
  <2>3. n # WarmupFrames => n < WarmupFrames
    BY <1>1
  <2>4. CameraLampHonest' /\ CaptureInv'
    BY <1>3, <2>1, <2>3 DEF CameraLampHonest, CaptureInv
  <2> QED  BY <1>2, <2>1, <2>2, <2>4 DEF VideoInv
<1>4. ASSUME Opens PROVE VideoInv'
  <2>1. ~videoConnected
    BY <1>1, <1>4 DEF Opens, CameraLampHonest, CaptureInv
  <2>2. 0 \in 0 .. WarmupFrames
    BY <1>1
  <2> QED  BY <1>3, <1>4, <2>1, <2>2 DEF Opens
<1>5. ASSUME WarmsUp PROVE VideoInv'
  <2>1. capture /\ warmed < WarmupFrames /\ camera = "warming"
    BY <1>1, <1>5 DEF WarmsUp, CaptureInv
  <2>2. warmed \in Nat
    BY <1>1 DEF VideoTypeOK
  <2>3. warmed # WarmupFrames /\ warmed + 1 \in 0 .. WarmupFrames
    BY <1>1, <2>1, <2>2
  <2>4. ~videoConnected
    BY <1>1, <2>1, <2>3 DEF CameraLampHonest
  <2>5. capture' = TRUE
    BY <1>1, <1>5, <2>1 DEF WarmsUp, VideoTypeOK
  <2> QED  BY <1>3, <1>5, <2>3, <2>4, <2>5 DEF WarmsUp
<1>6. ASSUME NEW detected \in BOOLEAN, Reads(detected) PROVE VideoInv'
  <2>1. /\ camera = "reading" /\ camera' \in {"emitting", "pausing"}
        /\ UNCHANGED <<capture, warmed, videoConnected, steady>>
        /\ IF detected THEN ObserveMotion ELSE ObserveQuiet
        /\ Recorded(detected) /\ previous' = TRUE
    BY <1>6 DEF Reads, Update
  <2>2. /\ DebouncerInv'
        /\ inEpisode' \in BOOLEAN /\ ended' \in BOOLEAN
        /\ quietRun' \in 0 .. QuietRunRequired
        /\ risingRun' \in 0 .. RisingEdgeFrames - 1
        /\ sinceEnd' \in 0 .. VideoCooldown
        /\ calm' \in 0 .. QuietRunRequired
        /\ moving' \in 0 .. RisingEdgeFrames
    BY <1>1, <2>1, ReadingKeepsDebouncer
  <2>3. VideoTypeOK'
    BY <1>1, <2>1, <2>2 DEF VideoTypeOK
  <2>4. CameraLampHonest' /\ CaptureInv'
    BY <1>1, <2>1 DEF CameraLampHonest, CaptureInv
  <2> QED  BY <2>2, <2>3, <2>4 DEF VideoInv
<1>7. ASSUME UNCHANGED <<warmed, previous, readingVars, steady>>,
             camera' \in {"emitting", "pausing", "dropping", "retrying", "releasing",
                          "ended", "opening", "reading"},
             camera' = "opening" => ~capture', camera' = "dropping" => ~videoConnected',
             capture' \in BOOLEAN, videoConnected' \in BOOLEAN,
             videoConnected' /\ camera' # "ended"
               => capture' /\ videoConnected /\ camera # "ended"
      PROVE  VideoInv'
  <2>1. VideoTypeOK'
    BY <1>1, <1>7 DEF VideoTypeOK, readingVars, debouncerVars
  <2>2. CameraLampHonest'
    BY <1>1, <1>7 DEF CameraLampHonest
  <2>3. CaptureInv'
    BY <1>7 DEF CaptureInv
  <2> QED  BY <1>2, <1>7, <2>1, <2>2, <2>3 DEF VideoInv
<1>8. ASSUME EventAccepted PROVE VideoInv'
  <2>1. /\ UNCHANGED <<capture, warmed, previous, readingVars, videoConnected, steady>>
        /\ camera = "emitting" /\ camera' = "pausing"
    BY <1>8 DEF EventAccepted
  <2> QED  BY <1>1, <1>7, <2>1 DEF VideoTypeOK, CameraLampHonest
<1>9. ASSUME SourceFails PROVE VideoInv'
  <2>1. /\ UNCHANGED <<capture, warmed, previous, readingVars, steady>>
        /\ camera' \in {"dropping", "retrying"} /\ videoConnected' = FALSE
    BY <1>9 DEF SourceFails, LampAfterError
  <2> QED  BY <1>1, <1>7, <2>1 DEF VideoTypeOK
<1>10. ASSUME FailsUnexpectedly PROVE VideoInv'
  <2>1. /\ UNCHANGED <<capture, warmed, previous, readingVars, steady>> /\ camera' = "retrying"
        /\ videoConnected' = FALSE
    BY <1>10 DEF FailsUnexpectedly, LampAfterError
  <2> QED  BY <1>1, <1>7, <2>1 DEF VideoTypeOK
<1>11. ASSUME NextRound PROVE VideoInv'
  <2>1. /\ UNCHANGED <<capture, warmed, previous, readingVars, videoConnected, steady>>
        /\ camera \in {"pausing", "retrying"}
        /\ camera' = IF capture THEN "reading" ELSE "opening"
    BY <1>11 DEF NextRound
  <2> QED  BY <1>1, <1>7, <2>1 DEF VideoTypeOK, CameraLampHonest
<1>12. ASSUME VideoCancelled PROVE VideoInv'
  <2>1. /\ UNCHANGED <<capture, warmed, previous, readingVars, videoConnected, steady>>
        /\ camera # "ended"
        /\ camera' = IF capture /\ camera \notin {"pausing", "dropping", "retrying"}
                     THEN "releasing" ELSE "ended"
    BY <1>12 DEF VideoCancelled
  <2>2. camera' = "releasing" => capture
    BY <2>1
  <2>3. videoConnected => capture
    BY <1>1, <2>1 DEF CameraLampHonest
  <2> QED  BY <1>1, <1>7, <2>1, <2>2, <2>3 DEF VideoTypeOK
<1>13. ASSUME Releases PROVE VideoInv'
  <2>1. /\ UNCHANGED <<warmed, previous, readingVars, videoConnected, steady>>
        /\ camera' = "ended" /\ capture' = FALSE
    BY <1>13 DEF Releases
  <2> QED  BY <1>1, <1>7, <2>1 DEF VideoTypeOK
<1>14. ASSUME TimePasses PROVE VideoInv'
  <2>1. /\ UNCHANGED <<camera, capture, warmed, previous, inEpisode, quietRun, risingRun,
                       videoConnected, steady, calm, ended, moving>>
        /\ sinceEnd' \in 0 .. VideoCooldown
    BY <1>1, <1>14 DEF TimePasses, VideoTypeOK
  <2> QED  BY <1>1, <2>1
           DEF VideoInv, VideoTypeOK, CameraLampHonest, DebouncerInv, CaptureInv
<1>15. ASSUME SceneMoves \/ UNCHANGED videoVars PROVE VideoInv'
  <2>1. /\ UNCHANGED <<camera, capture, warmed, previous, readingVars, videoConnected>>
        /\ steady' \in BOOLEAN
    BY <1>1, <1>15 DEF SceneMoves, videoVars, VideoTypeOK
  <2> QED  BY <1>1, <2>1
           DEF VideoInv, VideoTypeOK, CameraLampHonest, DebouncerInv, CaptureInv,
               readingVars, debouncerVars
<1>16. ASSUME Drops PROVE VideoInv'
  <2>1. /\ UNCHANGED <<warmed, previous, readingVars, videoConnected, steady>>
        /\ camera = "dropping" /\ camera' = "retrying" /\ capture' = FALSE
    BY <1>16 DEF Drops
  <2>2. ~videoConnected
    BY <1>1, <2>1 DEF CaptureInv
  <2> QED  BY <1>1, <1>7, <2>1, <2>2 DEF VideoTypeOK
<1>17. ASSUME VideoStep PROVE VideoInv'
  BY <1>4, <1>5, <1>6, <1>8, <1>9, <1>10, <1>11, <1>16, <1>17 DEF VideoStep, VideoProgress
<1> QED  BY <1>12, <1>13, <1>14, <1>15, <1>17

(* An alert is emitted by a reading, outside an episode, at the end of a   *)
(* long enough run with motion.                                            *)
LEMMA AlertEndsARun ==
  ASSUME VideoInv, camera # "emitting", camera' = "emitting",
         \/ VideoStep \/ VideoCancelled \/ Releases \/ TimePasses \/ SceneMoves
         \/ UNCHANGED videoVars
  PROVE  ended /\ moving' = RisingEdgeFrames
<1>1. PICK detected \in BOOLEAN : Reads(detected)
  BY DEF VideoStep, VideoProgress, Opens, WarmsUp, Warmed, EventAccepted, SourceFails, Drops,
         FailsUnexpectedly, NextRound, VideoCancelled, Releases, TimePasses, SceneMoves,
         videoVars
<1>2. Alerts(detected) /\ Recorded(detected)
  BY <1>1 DEF Reads
<1>3. detected /\ ~inEpisode /\ risingRun + 1 >= RisingEdgeFrames
  BY <1>2 DEF Alerts
<1>4. ended /\ risingRun <= moving
  BY <1>3 DEF VideoInv, DebouncerInv
<1>5. moving' = UpTo(moving + 1, RisingEdgeFrames)
  BY <1>2, <1>3 DEF Recorded
<1>6. /\ moving \in 0 .. RisingEdgeFrames /\ risingRun \in 0 .. RisingEdgeFrames - 1
      /\ RisingEdgeFrames \in Nat \ {0}
  BY VideoAssumption DEF VideoInv, VideoTypeOK
<1>7. moving' = RisingEdgeFrames
  BY <1>3, <1>4, <1>5, <1>6 DEF UpTo
<1> QED  BY <1>4, <1>7

-----------------------------------------------------------------------------
(* The two side by side, and their stop. *)

RuntimeTypeOK ==
  /\ phase \in {"running", "stopping", "stopped"}
  /\ cancelled \subseteq Tasks /\ absorbed \subseteq Tasks

FeedsInv == IngestInv /\ VideoInv /\ RuntimeTypeOK

(* What a step of the runtime is to each of the two.                       *)
LEMMA StepOfEach ==
  ASSUME [Next]_vars
  PROVE  /\ \/ IngestStep \/ FeedComesBack \/ IngestCancelled
            \/ UNCHANGED ingestVars
         /\ \/ VideoStep \/ VideoCancelled \/ Releases \/ TimePasses \/ SceneMoves
            \/ UNCHANGED videoVars
BY DEF Next, vars, Stops, IngestEnds, VideoEnds, IngestAbsorbs, VideoAbsorbs, Stopped,
       IngestStep, VideoStep, VideoProgress

LEMMA RuntimeStep ==
  ASSUME RuntimeTypeOK, [Next]_vars
  PROVE  RuntimeTypeOK'
<1>1. UNCHANGED runtimeVars => RuntimeTypeOK'
  BY DEF runtimeVars, RuntimeTypeOK
<1>2. Stops \/ Stopped => RuntimeTypeOK'
  BY DEF Stops, Stopped, RuntimeTypeOK, Tasks
<1>3. IngestEnds \/ VideoEnds \/ IngestAbsorbs \/ VideoAbsorbs => RuntimeTypeOK'
  BY DEF IngestEnds, VideoEnds, IngestAbsorbs, VideoAbsorbs, Delivered, RuntimeTypeOK, Tasks
<1> QED  BY <1>1, <1>2, <1>3 DEF Next, vars

LEMMA FeedsInvInit == Init => FeedsInv
BY IngestInvInit, VideoInvInit DEF Init, FeedsInv, RuntimeTypeOK

LEMMA FeedsInvStep == FeedsInv /\ [Next]_vars => FeedsInv'
BY StepOfEach, IngestInvStep, VideoInvStep, RuntimeStep DEF FeedsInv

(* Every state is well typed: no run of the debouncer outgrows its bound   *)
(* and no delay the maximum.                                               *)
THEOREM TypeCorrect == Spec => []TypeOK
<1>1. FeedsInv => TypeOK
  BY DEF FeedsInv, IngestInv, VideoInv, RuntimeTypeOK, TypeOK
<1> QED  BY <1>1, FeedsInvInit, FeedsInvStep, PTL DEF Spec

(* For any initial and maximal delay, the n-th failure in a row waits for  *)
(* the initial delay doubled n - 1 times, up to the maximum.               *)
THEOREM BackoffDoubles == Spec => []BackoffSchedule
<1>1. FeedsInv => BackoffSchedule
  BY DEF FeedsInv, IngestInv, BackoffInv, DelayOf, BackoffSchedule
<1> QED  BY <1>1, FeedsInvInit, FeedsInvStep, PTL DEF Spec

(* The lamp of the feed is lit only over a connection, or over one closed  *)
(* cleanly a moment ago, through failures and a stop.                      *)
THEOREM FeedLampTells == Spec => []FeedLampHonest
<1>1. FeedsInv => FeedLampHonest
  BY DEF FeedsInv, IngestInv
<1> QED  BY <1>1, FeedsInvInit, FeedsInvStep, PTL DEF Spec

(* For any warm-up, the lamp of the camera is lit only over an open        *)
(* capture that has been warmed up in full, as long as the task runs.      *)
THEOREM CameraLampTells == Spec => []CameraLampHonest
<1>1. FeedsInv => CameraLampHonest
  BY DEF FeedsInv, VideoInv
<1> QED  BY <1>1, FeedsInvInit, FeedsInvStep, PTL DEF Spec

(* For any cooldown and run lengths, an alert starts a new episode: the    *)
(* motion of the last one has ended and a full run with motion has come.   *)
THEOREM NewEpisodePerAlert == Spec => OneAlertPerEpisode
<1>1. FeedsInv /\ [Next]_vars =>
        [camera # "emitting" /\ camera' = "emitting" =>
           ended /\ moving' = RisingEdgeFrames]_videoVars
  BY StepOfEach, AlertEndsARun DEF FeedsInv
<1> QED  BY <1>1, FeedsInvInit, FeedsInvStep, PTL DEF Spec, OneAlertPerEpisode

-----------------------------------------------------------------------------
(* The capture. *)

(* The worker reads only from a capture it holds, and opens one only if it *)
(* holds none.                                                             *)
OneCapture ==
  /\ camera \in {"warming", "reading", "emitting", "pausing", "dropping"} => capture
  /\ camera = "opening" => ~capture

LEMMA OneCaptureStep ==
  ASSUME OneCapture, capture \in BOOLEAN,
         \/ VideoStep \/ VideoCancelled \/ Releases \/ TimePasses \/ SceneMoves
         \/ UNCHANGED videoVars
  PROVE  OneCapture'
<1>1. CASE Opens \/ WarmsUp
  BY <1>1 DEF Opens, WarmsUp, Warmed, OneCapture
<1>2. ASSUME NEW detected \in BOOLEAN, Reads(detected) PROVE OneCapture'
  <2>1. camera = "reading" /\ camera' \in {"emitting", "pausing"} /\ capture' = capture
    BY <1>2 DEF Reads
  <2> QED  BY <2>1 DEF OneCapture
<1>3. CASE EventAccepted \/ Drops \/ NextRound \/ SourceFails \/ FailsUnexpectedly
  BY <1>3 DEF EventAccepted, Drops, NextRound, SourceFails, FailsUnexpectedly, OneCapture
<1>4. CASE VideoCancelled \/ Releases \/ TimePasses \/ SceneMoves \/ UNCHANGED videoVars
  BY <1>4 DEF VideoCancelled, Releases, TimePasses, SceneMoves, videoVars, OneCapture
<1> QED  BY <1>1, <1>2, <1>3, <1>4 DEF VideoStep, VideoProgress

(* Through failures of either kind, retries and the stop, a frame is never *)
(* read without an open capture, and none is opened over another.          *)
THEOREM CaptureIsHeld == Spec => []OneCapture
<1>1. Init => OneCapture
  BY DEF Init, VideoInit, OneCapture
<1>2. FeedsInv /\ OneCapture /\ [Next]_vars => OneCapture'
  BY StepOfEach, OneCaptureStep DEF FeedsInv, VideoInv, VideoTypeOK
<1> QED  BY <1>1, <1>2, FeedsInvInit, FeedsInvStep, PTL DEF Spec

-----------------------------------------------------------------------------
(* The stop.  A cancellation that is pending belongs to a task that still  *)
(* runs; one that was taken has ended its task, or was absorbed.           *)

IngestStopped ==
  /\ phase = "running" => link # "ended"
  /\ phase # "running" => IF "ingest" \in cancelled THEN link # "ended"
                          ELSE link = "ended" \/ "ingest" \in absorbed
  /\ link = "ended" => ~streamConnected

VideoStopped ==
  /\ phase = "running" => camera \notin {"releasing", "ended"}
  /\ phase # "running" => IF "video" \in cancelled THEN camera \notin {"releasing", "ended"}
                          ELSE camera \in {"releasing", "ended"} \/ "video" \in absorbed

StopInv ==
  /\ phase = "running" => cancelled = {}
  /\ IngestStopped /\ VideoStopped
  /\ phase = "stopped" => link = "ended" /\ camera = "ended"

LEMMA StopInvStep ==
  ASSUME FeedsInv, StopInv, [Next]_vars
  PROVE  StopInv'
<1>0. phase \in {"running", "stopping", "stopped"} /\ cancelled \subseteq Tasks
  BY DEF FeedsInv, RuntimeTypeOK
<1>1. ASSUME IngestStep, "ingest" \notin cancelled, UNCHANGED <<videoVars, runtimeVars>>
      PROVE  StopInv'
  <2>1. link # "ended" /\ link' # "ended"
    BY <1>1 DEF IngestStep, Connects, Message, Accepted, Fails, ClosesCleanly, Wakes, AfterSleep
  <2>2. UNCHANGED <<phase, cancelled, absorbed, camera>>
    BY <1>1 DEF runtimeVars, videoVars
  <2> QED  BY <1>1, <2>1, <2>2 DEF StopInv, IngestStopped, VideoStopped
<1>2. ASSUME VideoStep, "video" \notin cancelled, UNCHANGED <<ingestVars, runtimeVars>>
      PROVE  StopInv'
  <2>1. camera \notin {"releasing", "ended"} /\ camera' \notin {"releasing", "ended"}
    BY <1>2 DEF VideoStep, VideoProgress, Opens, WarmsUp, Warmed, EventAccepted, Drops, NextRound,
                Reads, SourceFails, FailsUnexpectedly
  <2>2. UNCHANGED <<phase, cancelled, absorbed, link, streamConnected>>
    BY <1>2 DEF runtimeVars, ingestVars
  <2> QED  BY <1>2, <2>1, <2>2 DEF StopInv, IngestStopped, VideoStopped
<1>3. ASSUME Releases, UNCHANGED <<ingestVars, runtimeVars>> PROVE StopInv'
  BY <1>3 DEF Releases, ingestVars, runtimeVars, StopInv, IngestStopped, VideoStopped
<1>4. ASSUME UNCHANGED <<link, streamConnected, camera, runtimeVars>> PROVE StopInv'
  BY <1>4 DEF runtimeVars, StopInv, IngestStopped, VideoStopped
<1>5. ASSUME Stops PROVE StopInv'
  BY <1>5 DEF Stops, Tasks, ingestVars, videoVars, StopInv, IngestStopped, VideoStopped
<1>6. ASSUME IngestEnds PROVE StopInv'
  BY <1>6 DEF IngestEnds, Delivered, IngestCancelled, videoVars, StopInv, IngestStopped, VideoStopped
<1>7. ASSUME VideoEnds PROVE StopInv'
  BY <1>7 DEF VideoEnds, Delivered, VideoCancelled, ingestVars, StopInv, IngestStopped, VideoStopped
<1>8. ASSUME IngestAbsorbs PROVE StopInv'
  BY <1>8 DEF IngestAbsorbs, Delivered, Accepted, videoVars, StopInv, IngestStopped, VideoStopped
<1>9. ASSUME VideoAbsorbs PROVE StopInv'
  BY <1>9 DEF VideoAbsorbs, Delivered, EventAccepted, ingestVars, StopInv, IngestStopped, VideoStopped
<1>10. ASSUME Stopped PROVE StopInv'
  BY <1>10 DEF Stopped, ingestVars, videoVars, StopInv, IngestStopped, VideoStopped
<1>11. FeedComesBack => UNCHANGED <<link, streamConnected>>
  BY DEF FeedComesBack
<1>12. TimePasses \/ SceneMoves => camera' = camera
  BY DEF TimePasses, SceneMoves
<1> QED  BY <1>1, <1>2, <1>3, <1>4, <1>5, <1>6, <1>7, <1>8, <1>9, <1>10, <1>11, <1>12
         DEF Next, vars, videoVars, ingestVars

(* Neither task ends by itself, whatever fails: only a stop ends it.  Once *)
(* both cancellations are taken and none was absorbed, both tasks are at   *)
(* their end, at most one still at the release of its capture; and when    *)
(* the stop returns, both have ended and the feed's lamp is out.           *)
StopIsClean ==
  /\ phase = "running" => link # "ended" /\ camera # "ended"
  /\ phase # "running" /\ cancelled \cup absorbed = {}
       => link = "ended" /\ camera \in {"releasing", "ended"}
  /\ phase = "stopped" => link = "ended" /\ camera = "ended" /\ ~streamConnected

(* For any run lengths, delays and failures, in whatever the two tasks are *)
(* when the stop comes.                                                    *)
THEOREM StopEndsBoth == Spec => []StopIsClean
<1>1. Init => StopInv
  BY DEF Init, IngestInit, VideoInit, StopInv, IngestStopped, VideoStopped
<1>2. FeedsInv /\ StopInv /\ [Next]_vars => StopInv'
  BY StopInvStep
<1>3. StopInv => StopIsClean
  BY DEF StopInv, IngestStopped, VideoStopped, StopIsClean
<1> QED  BY <1>1, <1>2, <1>3, FeedsInvInit, FeedsInvStep, PTL DEF Spec
=============================================================================
