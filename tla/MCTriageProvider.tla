-------------------------- MODULE MCTriageProvider --------------------------
(* Three workers: a straggler, a trial and a third caller. *)
EXTENDS TriageProvider
CONSTANTS w1, w2, w3
=============================================================================
