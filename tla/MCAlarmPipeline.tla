--------------------------- MODULE MCAlarmPipeline ---------------------------
(***************************************************************************)
(* Small instances of AlarmPipeline: two producers (the feed and the       *)
(* camera), a queue of one, a board of two alarms.                         *)
(***************************************************************************)
EXTENDS AlarmPipeline, TLC

CONSTANTS feed, camera, w1, w2, e1, e2, e3, d1, d2, d3, d4

(* d1 critical, d2 ordinary, d3 of a fast-path type, d4 ordinary and, in   *)
(* the instance below, a second delivery of d1's id.                       *)
MCDeliveries   == {d1, d2, d3, d4}
MCEventIds     == {e1, e2, e3}
MCIdOf         == d1 :> e1 @@ d2 :> e2 @@ d3 :> e3 @@ d4 :> e1
MCRuleSeverity == d1 :> "critical" @@ d2 :> "warning" @@ d3 :> "critical" @@ d4 :> "info"
MCFastPath     == {d3}

(* Three deliveries with ids of their own. *)
MCDistinct         == {d1, d2, d3}
MCDistinctIdOf     == d1 :> e1 @@ d2 :> e2 @@ d3 :> e3
MCDistinctSeverity == d1 :> "critical" @@ d2 :> "warning" @@ d3 :> "warning"
MCNoFastPath       == {}
=============================================================================
