------------------------------ MODULE IngestLoop ------------------------------
(***************************************************************************)
(* ingest_loop: the connection to the event feed, the backoff between      *)
(* attempts and what the dashboard is told of it.  Its awaits are the      *)
(* connection attempt, the next message, the intake and the sleep.         *)
(*                                                                         *)
(* Delays are in units that divide both settings.  The jitter, a quarter   *)
(* either way, decides nothing and is left out.                            *)
(***************************************************************************)
EXTENDS Integers

CONSTANTS InitialBackoff,   \* Settings.reconnect_initial_s
          MaxBackoff,       \* Settings.reconnect_max_s
          FailureCap        \* bound: failures are counted up to here

ASSUME BackoffAssumption ==
  /\ InitialBackoff \in Nat \ {0}
  /\ MaxBackoff \in Nat \ {0}
  /\ FailureCap \in Nat \ {0, 1}
  /\ InitialBackoff * 2 ^ (FailureCap - 1) >= MaxBackoff

VARIABLES
  link,             \* the await: connecting, receiving, accepting, sleeping,
                    \* or ended
  backoff,          \* the delay of the next failure, and of the sleep
  streamConnected,  \* Metrics.stream_connected
  feedUp,           \* the feed stays up from now on
  failures,         \* history: failures since the last connection
  closedCleanly     \* history: the last connection ended with a close frame

ingestVars == <<link, backoff, streamConnected, feedUp, failures, closedCleanly>>

-----------------------------------------------------------------------------
NextBackoff_Uncapped(current) == 2 * current

NextBackoff(current) == IF 2 * current < MaxBackoff THEN 2 * current ELSE MaxBackoff

BackoffOnceConnected_Kept == backoff

BackoffOnceConnected == InitialBackoff

Connects ==
  /\ link = "connecting"
  /\ link' = "receiving"
  /\ streamConnected' = TRUE
  /\ backoff' = BackoffOnceConnected
  /\ failures' = 0
  /\ closedCleanly' = FALSE
  /\ UNCHANGED feedUp

(* A message goes to the intake, which may wait for room in the queue. *)
Message ==
  /\ link = "receiving"
  /\ link' = "accepting"
  /\ UNCHANGED <<backoff, streamConnected, feedUp, failures, closedCleanly>>

Accepted ==
  /\ link = "accepting"
  /\ link' = "receiving"
  /\ UNCHANGED <<backoff, streamConnected, feedUp, failures, closedCleanly>>

LampAfterFailure_Kept == streamConnected

LampAfterFailure == FALSE

(* Both except clauses: the attempt fails, the connection breaks, or the   *)
(* handling of a message raises.                                           *)
Fails ==
  /\ link \in {"connecting", "receiving", "accepting"}
  /\ ~feedUp
  /\ link' = "sleeping"
  /\ streamConnected' = LampAfterFailure
  /\ failures' = IF failures < FailureCap THEN failures + 1 ELSE failures
  /\ UNCHANGED <<backoff, feedUp, closedCleanly>>

(* The feed closes the connection with a close frame: the iteration ends   *)
(* without an exception and the loop connects again.                       *)
ClosesCleanly ==
  /\ link = "receiving"
  /\ ~feedUp
  /\ link' = "connecting"
  /\ closedCleanly' = TRUE
  /\ UNCHANGED <<backoff, streamConnected, feedUp, failures>>

AfterSleep_Ends == "ended"

AfterSleep == "connecting"

Wakes ==
  /\ link = "sleeping"
  /\ link' = AfterSleep
  /\ backoff' = NextBackoff(backoff)
  /\ UNCHANGED <<streamConnected, feedUp, failures, closedCleanly>>

IngestCancelled_Retried ==
  /\ link' = "sleeping"
  /\ streamConnected' = FALSE
  /\ UNCHANGED <<backoff, feedUp, failures, closedCleanly>>

(* The task is cancelled: in the try body its handler puts the lamp out    *)
(* and re-raises, in a sleep nothing handles it and the lamp is out.       *)
IngestCancelled ==
  /\ link' = "ended"
  /\ streamConnected' = FALSE
  /\ UNCHANGED <<backoff, feedUp, failures, closedCleanly>>

FeedComesBack == ~feedUp /\ feedUp' = TRUE
                 /\ UNCHANGED <<link, backoff, streamConnected, failures, closedCleanly>>

IngestInit ==
  /\ link = "connecting"
  /\ backoff = InitialBackoff
  /\ streamConnected = FALSE
  /\ feedUp = FALSE
  /\ failures = 0
  /\ closedCleanly = FALSE

IngestStep == Connects \/ Message \/ Accepted \/ Fails \/ ClosesCleanly \/ Wakes

(* An attempt ends, in a connection if the feed is up; an accept returns   *)
(* (AlarmPipeline); a sleep ends.                                          *)
IngestFairness ==
  /\ WF_ingestVars(Connects)
  /\ WF_ingestVars(Accepted)
  /\ WF_ingestVars(Wakes)

-----------------------------------------------------------------------------
(* Properties *)

IngestTypeOK ==
  /\ link \in {"connecting", "receiving", "accepting", "sleeping", "ended"}
  /\ backoff \in 1 .. (IF InitialBackoff > MaxBackoff THEN InitialBackoff ELSE MaxBackoff)
  /\ streamConnected \in BOOLEAN /\ feedUp \in BOOLEAN /\ closedCleanly \in BOOLEAN
  /\ failures \in 0 .. FailureCap

(* The n-th failure in a row since a connection waits for the initial      *)
(* delay doubled n - 1 times, up to the maximum (ingest.py:6).             *)
BackoffSchedule ==
  link = "sleeping" =>
    LET doubled == InitialBackoff * 2 ^ (failures - 1)
    IN backoff = IF failures = 1 \/ doubled < MaxBackoff THEN doubled ELSE MaxBackoff

(* The lamp is lit only over a connection, or over one that the feed has   *)
(* closed cleanly a moment ago.                                            *)
FeedLampHonest ==
  streamConnected =>
    link \in {"receiving", "accepting"} \/ (link = "connecting" /\ closedCleanly)

(* ingest.py:6 says "Reconnection uses exponential backoff": a lost        *)
(* connection is followed by a sleep before the next attempt.              *)
ReconnectsAfterSleep ==
  [][link # "connecting" /\ link' = "connecting" => link = "sleeping"]_ingestVars
=============================================================================
