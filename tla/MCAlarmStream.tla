---------------------------- MODULE MCAlarmStream ----------------------------
(* Small instances of AlarmStream: a dashboard and three alarms, of which the store keeps two. *)
EXTENDS AlarmStream
CONSTANTS c1, e1, e2, e3
=============================================================================
