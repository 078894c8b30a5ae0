-------------------------------- MODULE Feeds --------------------------------
(***************************************************************************)
(* The two producers the runtime starts, side by side on the event loop,   *)
(* and the stop of the runtime, which cancels them and waits for both.     *)
(* Each hands one event at a time to the intake, where it may wait (the    *)
(* producers of AlarmPipeline).  The triage workers, cancelled with them,  *)
(* re-raise wherever they await.                                           *)
(***************************************************************************)
EXTENDS IngestLoop, VideoWorker

VARIABLES
  phase,      \* SentinelRuntime: running, stopping (in gather), stopped
  cancelled,  \* the tasks that have a cancellation to take at their await
  absorbed    \* history: the tasks that lost theirs

runtimeVars == <<phase, cancelled, absorbed>>
vars == <<ingestVars, videoVars, runtimeVars>>

Tasks == {"ingest", "video"}

-----------------------------------------------------------------------------
Stops ==
  /\ phase = "running"
  /\ phase' = "stopping"
  /\ cancelled' = Tasks
  /\ UNCHANGED <<ingestVars, videoVars, absorbed>>

Delivered(task) ==
  /\ task \in cancelled
  /\ cancelled' = cancelled \ {task}
  /\ UNCHANGED phase

(* A cancellation comes before anything else the task awaits. *)
IngestEnds == /\ Delivered("ingest") /\ IngestCancelled
              /\ UNCHANGED <<videoVars, absorbed>>

VideoEnds == /\ Delivered("video") /\ VideoCancelled
             /\ UNCHANGED <<ingestVars, absorbed>>

(* In Python 3.11 the wait_for of a submit whose put has just finished     *)
(* returns its result and the cancellation is gone.                        *)
IngestAbsorbs == /\ Delivered("ingest") /\ Accepted
                 /\ absorbed' = absorbed \cup {"ingest"} /\ UNCHANGED videoVars

VideoAbsorbs == /\ Delivered("video") /\ EventAccepted
                /\ absorbed' = absorbed \cup {"video"} /\ UNCHANGED ingestVars

(* gather returns. *)
Stopped ==
  /\ phase = "stopping"
  /\ link = "ended" /\ camera = "ended"
  /\ phase' = "stopped"
  /\ UNCHANGED <<ingestVars, videoVars, cancelled, absorbed>>

-----------------------------------------------------------------------------
Init ==
  /\ IngestInit /\ VideoInit
  /\ phase = "running" /\ cancelled = {} /\ absorbed = {}

Next ==
  \/ /\ \/ "ingest" \notin cancelled /\ IngestStep
        \/ FeedComesBack
     /\ UNCHANGED <<videoVars, runtimeVars>>
  \/ /\ \/ "video" \notin cancelled /\ VideoStep
        \/ Releases \/ TimePasses \/ SceneMoves
     /\ UNCHANGED <<ingestVars, runtimeVars>>
  \/ Stops \/ IngestEnds \/ VideoEnds \/ IngestAbsorbs \/ VideoAbsorbs \/ Stopped

Spec == Init /\ [][Next]_vars

FairSpec ==
  /\ Spec
  /\ IngestFairness /\ VideoFairness
  /\ WF_vars(IngestEnds) /\ WF_vars(VideoEnds) /\ WF_vars(Stopped)

-----------------------------------------------------------------------------
(* Properties *)

TypeOK ==
  /\ IngestTypeOK /\ VideoTypeOK
  /\ phase \in {"running", "stopping", "stopped"}
  /\ cancelled \subseteq Tasks /\ absorbed \subseteq Tasks

(* Once the feed stays up the loop finds it, with no restart, and keeps it *)
(* for as long as the runtime runs (test_ingest.py:115).                   *)
FindsTheFeed ==
  feedUp ~> [](\/ link \in {"receiving", "accepting"} /\ streamConnected
               \/ phase # "running")

(* Motion that goes on is alerted, whether it began in the cooldown, in    *)
(* the last episode or while the source was away: the debouncer enters an  *)
(* episode, which it does only with an alert, and stays in it for as long  *)
(* as the runtime runs.                                                    *)
MotionIsAlerted == steady ~> [](inEpisode \/ phase # "running")

(* A stop ends: whatever the two tasks are awaiting when they are          *)
(* cancelled, both end and gather returns, with the feed's lamp out,       *)
(* unless a submit has taken a cancellation (runtime.py:113-117).          *)
StopEnds ==
  phase = "stopping" ~> \/ phase = "stopped" /\ ~streamConnected
                        \/ absorbed # {}
=============================================================================
