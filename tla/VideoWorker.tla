------------------------------ MODULE VideoWorker ------------------------------
(***************************************************************************)
(* The camera task: video_worker with its capture and detector, and the    *)
(* MotionDebouncer that turns readings into alerts.  Its awaits are the    *)
(* executor calls (open, read), the intake and the sleeps.                 *)
(*                                                                         *)
(* A reading is whether motion was detected.  The detector compares a      *)
(* frame with the one before, so the first frame after a reset never       *)
(* detects.  The debouncer's clock is the time since the last episode      *)
(* ended, in ticks up to the cooldown.                                     *)
(***************************************************************************)
EXTENDS Integers

CONSTANTS VideoCooldown,      \* Settings.video_cooldown_s, in ticks
          QuietRunRequired,   \* MotionDebouncer's quiet_run_required
          RisingEdgeFrames,   \* Settings.video_rising_edge_frames
          WarmupFrames        \* video_worker's warmup_frames

ASSUME VideoAssumption ==
  /\ VideoCooldown \in Nat
  /\ QuietRunRequired \in Nat \ {0}
  /\ RisingEdgeFrames \in Nat \ {0}
  /\ WarmupFrames \in Nat

VARIABLES
  camera,       \* the await: opening, warming, reading, emitting, pausing, dropping,
                \* retrying, or, once cancelled, releasing, and ended
  capture,      \* whether the worker holds an open capture
  warmed,       \* the frames of the warm-up read so far
  previous,     \* whether the detector has a frame to compare with
  inEpisode, quietRun, risingRun,   \* the debouncer
  sinceEnd,     \* time since _last_episode_end
  videoConnected,   \* Metrics.video_connected
  steady,       \* from now on the source works and the scene moves
  calm,         \* history: consecutive readings without motion
  ended,        \* history: the motion of the last alert has ended
  moving        \* history: consecutive readings with motion

debouncerVars == <<inEpisode, quietRun, risingRun, sinceEnd>>
readingVars == <<debouncerVars, calm, ended, moving>>
videoVars == <<camera, capture, warmed, previous, readingVars, videoConnected, steady>>

UpTo(n, bound) == IF n < bound THEN n ELSE bound

-----------------------------------------------------------------------------
(* MotionDebouncer.observe *)

CoolingDown_Inclusive == sinceEnd <= VideoCooldown

CoolingDown == sinceEnd < VideoCooldown

Alerts(detected) ==
  /\ detected
  /\ ~inEpisode
  /\ ~CoolingDown
  /\ risingRun + 1 >= RisingEdgeFrames

QuietEnough_OneFrame == TRUE

QuietEnough == quietRun + 1 >= QuietRunRequired

ObserveMotion ==
  /\ quietRun' = 0
  /\ IF inEpisode \/ CoolingDown
     THEN UNCHANGED <<inEpisode, risingRun>>
     ELSE /\ inEpisode' = Alerts(TRUE)
          /\ risingRun' = IF Alerts(TRUE) THEN 0 ELSE risingRun + 1
  /\ UNCHANGED sinceEnd

ObserveQuiet ==
  /\ risingRun' = 0
  /\ IF inEpisode
     THEN /\ quietRun' = quietRun + 1
          /\ inEpisode' = ~QuietEnough
          /\ sinceEnd' = IF QuietEnough THEN 0 ELSE sinceEnd
     ELSE UNCHANGED <<quietRun, inEpisode, sinceEnd>>

(* The histories of a reading. *)
Recorded(detected) ==
  /\ calm' = IF detected THEN 0 ELSE UpTo(calm + 1, QuietRunRequired)
  /\ moving' = IF detected THEN UpTo(moving + 1, RisingEdgeFrames) ELSE 0
  /\ ended' = (~Alerts(detected) /\ (ended \/ calm' = QuietRunRequired))

-----------------------------------------------------------------------------
(* video_worker *)

(* n frames of the warm-up are read: after the last one the detector is    *)
(* reset and the source counts as connected.                               *)
Warmed(n) ==
  /\ warmed' = n
  /\ IF n = WarmupFrames
     THEN camera' = "reading" /\ previous' = FALSE /\ videoConnected' = TRUE
     ELSE camera' = "warming" /\ UNCHANGED <<previous, videoConnected>>
  /\ UNCHANGED <<readingVars, steady>>

Opens == camera = "opening" /\ capture' = TRUE /\ Warmed(0)

WarmsUp == camera = "warming" /\ Warmed(warmed + 1) /\ UNCHANGED capture

(* FrameDiffDetector.update: any reading, once there is a frame to compare *)
(* with.                                                                   *)
Update(detected) ==
  /\ detected => previous
  /\ steady /\ previous => detected
  /\ previous' = TRUE

(* A frame is read, compared and fed to the debouncer. *)
Reads(detected) ==
  /\ camera = "reading"
  /\ Update(detected)
  /\ IF detected THEN ObserveMotion ELSE ObserveQuiet
  /\ Recorded(detected)
  /\ camera' = IF Alerts(detected) THEN "emitting" ELSE "pausing"
  /\ UNCHANGED <<capture, warmed, videoConnected, steady>>

EventAccepted ==
  /\ camera = "emitting"
  /\ camera' = "pausing"
  /\ UNCHANGED <<capture, warmed, previous, readingVars, videoConnected, steady>>

LampAfterError_Kept == videoConnected

LampAfterError == FALSE

(* VideoSourceError: the capture is released, the next round opens anew. *)
SourceFails ==
  /\ camera \in {"opening", "warming", "reading"}
  /\ ~steady
  /\ camera' = IF capture THEN "dropping" ELSE "retrying"
  /\ videoConnected' = LampAfterError
  /\ UNCHANGED <<capture, warmed, previous, readingVars, steady>>

(* The executor has released it. *)
Drops ==
  /\ camera = "dropping"
  /\ camera' = "retrying"
  /\ capture' = FALSE
  /\ UNCHANGED <<warmed, previous, readingVars, videoConnected, steady>>

(* Any other exception, of an executor call or of the accept: the capture  *)
(* is kept.                                                                *)
FailsUnexpectedly ==
  /\ \/ camera \in {"opening", "warming", "reading"} /\ ~steady
     \/ camera = "emitting"
  /\ camera' = "retrying"
  /\ videoConnected' = LampAfterError
  /\ UNCHANGED <<capture, warmed, previous, readingVars, steady>>

(* The sleep is over; the next round opens the source only if it has none. *)
NextRound ==
  /\ camera \in {"pausing", "retrying"}
  /\ camera' = IF capture THEN "reading" ELSE "opening"
  /\ UNCHANGED <<capture, warmed, previous, readingVars, videoConnected, steady>>

(* The task is cancelled: the handler releases the capture and re-raises.  *)
(* Outside the try body, in a sleep or in the handler of an error, it is   *)
(* left as it is.                                                          *)
VideoCancelled ==
  /\ camera # "ended"
  /\ camera' = IF capture /\ camera \notin {"pausing", "dropping", "retrying"}
               THEN "releasing" ELSE "ended"
  /\ UNCHANGED <<capture, warmed, previous, readingVars, videoConnected, steady>>

Releases ==
  /\ camera = "releasing"
  /\ camera' = "ended"
  /\ capture' = FALSE
  /\ UNCHANGED <<warmed, previous, readingVars, videoConnected, steady>>

TimePasses ==
  /\ sinceEnd < VideoCooldown
  /\ sinceEnd' = sinceEnd + 1
  /\ UNCHANGED <<camera, capture, warmed, previous, inEpisode, quietRun, risingRun,
                 videoConnected, steady, calm, ended, moving>>

SceneMoves == ~steady /\ steady' = TRUE
              /\ UNCHANGED <<camera, capture, warmed, previous, readingVars, videoConnected>>

VideoInit ==
  /\ camera = "opening"
  /\ capture = FALSE
  /\ warmed = 0
  /\ previous = FALSE
  /\ inEpisode = FALSE /\ quietRun = 0 /\ risingRun = 0
  /\ sinceEnd = VideoCooldown
  /\ videoConnected = FALSE
  /\ steady = FALSE
  /\ calm = 0 /\ ended = TRUE /\ moving = 0

VideoProgress == \/ Opens \/ WarmsUp \/ EventAccepted \/ Drops \/ NextRound
                 \/ \E detected \in BOOLEAN : Reads(detected)

VideoStep == VideoProgress \/ SourceFails \/ FailsUnexpectedly

(* Executor calls and sleeps end, an accept returns, time passes. *)
VideoFairness ==
  /\ WF_videoVars(VideoProgress) /\ WF_videoVars(Releases)
  /\ WF_videoVars(TimePasses)

-----------------------------------------------------------------------------
(* Properties *)

VideoTypeOK ==
  /\ camera \in {"opening", "warming", "reading", "emitting", "pausing", "dropping",
                 "retrying", "releasing", "ended"}
  /\ capture \in BOOLEAN /\ previous \in BOOLEAN
  /\ warmed \in 0 .. WarmupFrames
  /\ inEpisode \in BOOLEAN
  /\ quietRun \in 0 .. QuietRunRequired
  /\ risingRun \in 0 .. RisingEdgeFrames - 1
  /\ sinceEnd \in 0 .. VideoCooldown
  /\ videoConnected \in BOOLEAN /\ steady \in BOOLEAN /\ ended \in BOOLEAN
  /\ calm \in 0 .. QuietRunRequired
  /\ moving \in 0 .. RisingEdgeFrames

(* One alert per motion episode: between two alerts the readings have been *)
(* quiet for the required run, and the readings that lead to an alert have *)
(* all shown motion, through any reconnection and either kind of error     *)
(* (MotionDebouncer.observe).                                              *)
OneAlertPerEpisode ==
  [][camera # "emitting" /\ camera' = "emitting" =>
       ended /\ moving' = RisingEdgeFrames]_videoVars

(* The lamp says camera live only over an open capture that has been       *)
(* warmed up in full, as long as the task runs.                            *)
CameraLampHonest ==
  videoConnected /\ camera # "ended" => capture /\ warmed = WarmupFrames
=============================================================================
