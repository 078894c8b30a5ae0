--------------------------- MODULE AlarmLifecycle ---------------------------
(***************************************************************************)
(* What the ingest side promises about one delivered alarm, with no queue, *)
(* no worker and no store: it is received, it gets its final verdict or it *)
(* is shed for overload, and neither of these is ever taken back.  A       *)
(* critical alarm is never shed, an authoritative one never waits.         *)
(* AlarmPipeline is shown to implement this specification.                 *)
(***************************************************************************)
CONSTANTS Deliveries,     \* the events delivered to the intake
          Critical,       \* those the rule engine finds critical
          Authoritative   \* those the rules settle alone (the fast path)

VARIABLE stage

Stages == {"unseen", "pending", "settled", "shed"}

Moves(d, from, to) == stage[d] = from /\ stage' = [stage EXCEPT ![d] = to]

Init == stage = [d \in Deliveries |-> "unseen"]

Receive(d) == d \notin Authoritative /\ Moves(d, "unseen", "pending")

SettleAtOnce(d) == d \in Authoritative /\ Moves(d, "unseen", "settled")

Settle(d) == Moves(d, "pending", "settled")

Shed(d) == d \notin Critical /\ Moves(d, "pending", "shed")

Next == \E d \in Deliveries : Receive(d) \/ SettleAtOnce(d) \/ Settle(d) \/ Shed(d)

Safety == Init /\ [][Next]_stage

(* A received alarm does not stay pending. *)
Spec == Safety /\ \A d \in Deliveries : WF_stage(Settle(d) \/ Shed(d))
=============================================================================
