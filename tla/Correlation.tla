----------------------------- MODULE Correlation -----------------------------
(***************************************************************************)
(* CorrelationEngine: the sliding window of sightings per site and the     *)
(* escalation decided from it.  evaluate does not await, so a call is one  *)
(* step; intake and the triage workers call it in any order (Assessment).  *)
(*                                                                         *)
(* The engine compares a sighting's time with now only: a sighting is its  *)
(* age in ticks, up to one past the window.  The event types in a sighting *)
(* serve the wording of the reason and are left out.                       *)
(***************************************************************************)
EXTENDS Integers, Sequences, FiniteSetsExt, SequencesExt

CONSTANTS Sites,
          Threshold,        \* Settings.correlation_threshold
          Window,           \* Settings.correlation_window_s, in ticks
          MaxEvaluations    \* bound: calls of evaluate in a behaviour

ASSUME CorrelationAssumption ==
  /\ Threshold \in Nat /\ Threshold >= 2
  /\ Window \in Nat \ {0}
  /\ MaxEvaluations \in Nat

Severity == {"info", "warning", "critical"}
CountedSeverities == {"warning", "critical"}

Age == 0 .. Window + 1

VARIABLES
  window,      \* _by_site: the ages of the sightings kept, oldest first
  escalated,   \* whether the last call of evaluate escalated its alarm
  evaluations, \* the calls of evaluate so far
  seen         \* history: the ages of every warning and critical of a site

vars == <<window, escalated, evaluations, seen>>

-----------------------------------------------------------------------------
Expired_Boundary(age) == age >= Window

(* window[0].at < now - window_s *)
Expired(age) == age > Window

(* _window_for: the sightings from the first that has not expired. *)
Pruned(ages) ==
  LET fresh == {i \in DOMAIN ages : ~Expired(ages[i])}
  IN IF fresh = {} THEN <<>> ELSE SubSeq(ages, Min(fresh), Len(ages))

WithSighting(ages) == Append(ages, 0)

Reaches_OneLess(ages) == Len(ages) >= Threshold - 1

Reaches(ages) == Len(ages) >= Threshold

(* evaluate: whether the alarm is escalated is all it changes in it. *)
Evaluate(site, severity) ==
  LET pruned == Pruned(window[site])
      ages   == IF severity \in CountedSeverities THEN WithSighting(pruned) ELSE pruned
  IN /\ evaluations < MaxEvaluations
     /\ evaluations' = evaluations + 1
     /\ window' = [window EXCEPT ![site] = ages]
     /\ escalated' = (severity # "critical" /\ Reaches(ages))
     /\ seen' = IF severity = "info" THEN seen ELSE [seen EXCEPT ![site] = Append(@, 0)]

Older(ages) == [i \in DOMAIN ages |-> IF ages[i] <= Window THEN ages[i] + 1 ELSE ages[i]]

Tick ==
  /\ \E site \in Sites : Older(seen[site]) # seen[site]
  /\ window' = [site \in Sites |-> Older(window[site])]
  /\ seen' = [site \in Sites |-> Older(seen[site])]
  /\ UNCHANGED <<escalated, evaluations>>

Init ==
  /\ window = [site \in Sites |-> <<>>]
  /\ seen = [site \in Sites |-> <<>>]
  /\ escalated = FALSE
  /\ evaluations = 0

-----------------------------------------------------------------------------
(* Properties *)

TypeOK ==
  /\ window \in [Sites -> Seq(Age)]
  /\ seen \in [Sites -> Seq(Age)]
  /\ evaluations \in 0 .. MaxEvaluations
  /\ escalated \in BOOLEAN

(* The window is what remains of the sightings when some of the oldest are *)
(* dropped, and every one dropped is out of the window: pruning at the     *)
(* head alone never keeps a stale sighting in front of a fresh one nor     *)
(* forgets one that still counts, however rarely the site is evaluated.    *)
NoRecentSightingLost ==
  \A site \in Sites :
    \E dropped \in 0 .. Len(seen[site]) :
      /\ window[site] = SubSeq(seen[site], dropped + 1, Len(seen[site]))
      /\ \A i \in 1 .. dropped : seen[site][i] > Window

(* The sightings of a site inside the window, by definition. *)
Recent(ages) == {i \in DOMAIN ages : ages[i] <= Window}

(* A call escalates if and only if its alarm is not critical and, with its *)
(* own sighting, the site alone has had the threshold of sightings within  *)
(* the window, wherever the calls for other sites came in between.         *)
EscalatesOnPattern ==
  [][\A site \in Sites, severity \in Severity :
       Evaluate(site, severity) =>
         (escalated' <=> /\ severity # "critical"
                              /\ Cardinality(Recent(seen'[site])) >= Threshold)]_vars
=============================================================================
