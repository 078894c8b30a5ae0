--------------------------- MODULE AssessmentProofs ---------------------------
(***************************************************************************)
(* What Assessment guarantees for any sites, thresholds, windows, payloads,*)
(* replies, bounds and prices.                                             *)
(***************************************************************************)
EXTENDS Assessment, SequenceTheorems, FiniteSetTheorems, WellFoundedInduction, TLAPS

-----------------------------------------------------------------------------
(* The rules *)

(* The severity the confidence leaves is no worse for a guess than for     *)
(* anything else, and no worse for less of a reported confidence           *)
(* (rules.classify).                                                       *)
LEMMA ByConfidenceMonotone ==
  ASSUME NEW type, NEW c \in Confidence, NEW d \in Confidence,
         \/ c \in 0 .. LowConfidence - 1
         \/ d >= LowConfidence /\ (c = Unreported \/ c <= d)
  PROVE  NoWorse(ByConfidence(type, c), ByConfidence(type, d))
<1> USE RulesAssumption DEF Confidence, Unreported
<1>1. BaseSeverity(type) \in {"info", "warning", "critical"}
  BY DEF BaseSeverity
<1>2. CASE BaseSeverity(type) = "critical"
  BY <1>2 DEF ByConfidence, Downgraded, Upgraded, Lowered, NoWorse
<1>3. CASE BaseSeverity(type) = "warning"
  BY <1>3 DEF ByConfidence, Downgraded, Upgraded, Lowered, Raised, NoWorse
<1>4. CASE BaseSeverity(type) = "info"
  BY <1>4 DEF ByConfidence, Downgraded, Upgraded, Lowered, NoWorse
<1> QED  BY <1>1, <1>2, <1>3, <1>4

(* Severities stay in their range, and the shift of the night keeps their  *)
(* order, so the order of the confidences is the order of the verdicts     *)
(* whatever the hour (rules.classify).                                     *)
LEMMA ClassifyMonotone ==
  ASSUME NEW type, NEW hour, NEW c \in Confidence, NEW d \in Confidence,
         \/ c \in 0 .. LowConfidence - 1
         \/ d >= LowConfidence /\ (c = Unreported \/ c <= d)
  PROVE  NoWorse(Classify(type, c, hour), Classify(type, d, hour))
<1>1. NoWorse(ByConfidence(type, c), ByConfidence(type, d))
  BY ByConfidenceMonotone
<1>2. /\ ByConfidence(type, c) \in Severity
      /\ ByConfidence(type, d) \in Severity
  BY DEF ByConfidence, BaseSeverity, Lowered, Raised, Severity
<1> QED
  BY <1>1, <1>2 DEF Classify, MeansMoreNow, Raised, NoWorse, Severity

-----------------------------------------------------------------------------
(* Windows *)

(* A non-empty set of naturals has a least element, which Min chooses.     *)
LEMMA MinIsLeast ==
  ASSUME NEW S \in SUBSET Nat, S # {}
  PROVE  Min(S) \in S /\ \A y \in S : Min(S) <= y
<1>1. PICK x \in S : \A y \in S : ~(<<y, x>> \in OpToRel(<, Nat))
  BY NatLessThanWellFounded, WFMin
<1>2. ASSUME NEW y \in S PROVE ~(y < x)
  <2>1. <<y, x>> \in Nat \X Nat /\ <<y, x>>[1] = y /\ <<y, x>>[2] = x
    OBVIOUS
  <2>2. y < x => <<y, x>> \in OpToRel(<, Nat)
    BY <2>1, Zenon DEF OpToRel
  <2> QED  BY <1>1, <2>2, Zenon
<1>3. \A y \in S : x <= y
  BY <1>2
<1> QED  BY <1>3 DEF Min

(* What is left of a sequence without its first d elements. *)
LEMMA SuffixElements ==
  ASSUME NEW S, NEW s \in Seq(S), NEW d \in 0 .. Len(s)
  PROVE  /\ SubSeq(s, d + 1, Len(s)) \in Seq(S)
         /\ Len(SubSeq(s, d + 1, Len(s))) = Len(s) - d
         /\ \A i \in 1 .. Len(s) - d : SubSeq(s, d + 1, Len(s))[i] = s[d + i]
<1>1. \A i \in d + 1 .. Len(s) : s[i] \in S
  BY ElementOfSeq, LenProperties
<1>2. d + 1 \in Int /\ Len(s) \in Int
  BY LenProperties
<1>3. /\ SubSeq(s, d + 1, Len(s)) \in Seq(S)
      /\ Len(SubSeq(s, d + 1, Len(s))) = IF d + 1 <= Len(s) THEN Len(s) - (d + 1) + 1 ELSE 0
      /\ \A i \in 1 .. Len(s) - (d + 1) + 1 : SubSeq(s, d + 1, Len(s))[i] = s[d + 1 + i - 1]
  BY <1>1, <1>2, SubSeqProperties
<1> QED  BY <1>3, LenProperties

(* Dropping d elements and then e of what is left drops d + e. *)
LEMMA SuffixOfSuffix ==
  ASSUME NEW S, NEW s \in Seq(S), NEW d \in 0 .. Len(s), NEW e \in 0 .. Len(s) - d
  PROVE  LET t == SubSeq(s, d + 1, Len(s))
         IN SubSeq(t, e + 1, Len(t)) = SubSeq(s, (d + e) + 1, Len(s))
<1> DEFINE t == SubSeq(s, d + 1, Len(s))
           u == SubSeq(t, e + 1, Len(t))
           v == SubSeq(s, (d + e) + 1, Len(s))
<1>1. /\ t \in Seq(S) /\ Len(t) = Len(s) - d
      /\ \A i \in 1 .. Len(s) - d : t[i] = s[d + i]
  BY SuffixElements
<1>2. Len(s) \in Nat
  BY LenProperties
<1>3. e \in 0 .. Len(t) /\ d + e \in 0 .. Len(s)
  BY <1>1, <1>2
<1> HIDE DEF t
<1>4. /\ u \in Seq(S) /\ Len(u) = Len(t) - e
      /\ \A i \in 1 .. Len(t) - e : u[i] = t[e + i]
  BY <1>1, <1>3, SuffixElements
<1>5. /\ v \in Seq(S) /\ Len(v) = Len(s) - (d + e)
      /\ \A i \in 1 .. Len(s) - (d + e) : v[i] = s[d + e + i]
  BY <1>3, SuffixElements
<1> HIDE DEF u, v
<1>6. Len(u) = Len(v)
  BY <1>1, <1>2, <1>4, <1>5
<1>7. ASSUME NEW i \in 1 .. Len(u) PROVE u[i] = v[i]
  <2>1. e + i \in 1 .. Len(s) - d /\ u[i] = t[e + i]
    BY <1>1, <1>2, <1>4
  <2>2. t[e + i] = s[d + (e + i)]
    BY <1>1, <2>1
  <2>3. v[i] = s[d + e + i]
    BY <1>5, <1>6
  <2> QED  BY <1>2, <2>1, <2>2, <2>3
<1>8. u = v
  BY <1>4, <1>5, <1>6, <1>7, SeqEqual
<1> QED  BY <1>8 DEF t, u, v

(* An element appended to a suffix is appended to the whole.               *)
LEMMA AppendToSuffix ==
  ASSUME NEW S, NEW s \in Seq(S), NEW d \in 0 .. Len(s), NEW x \in S
  PROVE  Append(SubSeq(s, d + 1, Len(s)), x)
           = SubSeq(Append(s, x), d + 1, Len(Append(s, x)))
<1> DEFINE t == SubSeq(s, d + 1, Len(s))
           a == Append(s, x)
           u == Append(t, x)
           v == SubSeq(a, d + 1, Len(a))
<1>1. /\ t \in Seq(S) /\ Len(t) = Len(s) - d
      /\ \A i \in 1 .. Len(s) - d : t[i] = s[d + i]
  BY SuffixElements
<1>2. Len(s) \in Nat
  BY LenProperties
<1>3. /\ a \in Seq(S) /\ Len(a) = Len(s) + 1 /\ a[Len(s) + 1] = x
      /\ \A i \in 1 .. Len(s) : a[i] = s[i]
  BY AppendProperties
<1> HIDE DEF t, a
<1>4. /\ u \in Seq(S) /\ Len(u) = Len(t) + 1 /\ u[Len(t) + 1] = x
      /\ \A i \in 1 .. Len(t) : u[i] = t[i]
  BY <1>1, AppendProperties
<1>5. d \in 0 .. Len(a)
  BY <1>2, <1>3
<1>6. /\ v \in Seq(S) /\ Len(v) = Len(a) - d
      /\ \A i \in 1 .. Len(a) - d : v[i] = a[d + i]
  BY <1>3, <1>5, SuffixElements
<1> HIDE DEF u, v
<1>7. Len(u) = Len(v)
  BY <1>1, <1>2, <1>3, <1>4, <1>6
<1>8. ASSUME NEW i \in 1 .. Len(u) PROVE u[i] = v[i]
  <2>1. CASE i = Len(t) + 1
    BY <2>1, <1>1, <1>2, <1>3, <1>4, <1>6
  <2>2. CASE i \in 1 .. Len(t)
    BY <2>2, <1>1, <1>2, <1>3, <1>4, <1>6
  <2> QED  BY <2>1, <2>2, <1>1, <1>2, <1>4
<1>9. u = v
  BY <1>4, <1>6, <1>7, <1>8, SeqEqual
<1> QED  BY <1>9 DEF t, a, u, v

(* Pruning drops the expired sightings before the first fresh one and      *)
(* nothing else (CorrelationEngine._window_for).                           *)
LEMMA PrunedIsSuffix ==
  ASSUME NEW ages \in Seq(Age)
  PROVE  \E d \in 0 .. Len(ages) :
           /\ Pruned(ages) = SubSeq(ages, d + 1, Len(ages))
           /\ \A i \in 1 .. d : ages[i] > Window
           /\ d < Len(ages) => ages[d + 1] <= Window
<1> DEFINE fresh == {i \in DOMAIN ages : ~Expired(ages[i])}
<1>1. /\ Len(ages) \in Nat
      /\ DOMAIN ages = 1 .. Len(ages)
      /\ \A i \in 1 .. Len(ages) : ages[i] \in Age
  BY LenProperties, ElementOfSeq
<1>2. \A i \in 1 .. Len(ages) : ages[i] \in Int /\ Window \in Int
  BY <1>1, CorrelationAssumption DEF Age
<1>3. CASE fresh = {}
  <2>1. Pruned(ages) = <<>>
    BY <1>3 DEF Pruned
  <2>2. SubSeq(ages, Len(ages) + 1, Len(ages)) = <<>>
    BY <1>1, SubSeqEmpty
  <2>3. \A i \in 1 .. Len(ages) : ages[i] > Window
    BY <1>1, <1>3 DEF Expired
  <2> QED  BY <1>1, <2>1, <2>2, <2>3
<1>4. CASE fresh # {}
  <2>1. fresh \in SUBSET Nat
    BY <1>1
  <2>2. Min(fresh) \in fresh /\ \A i \in fresh : Min(fresh) <= i
    BY <1>4, <2>1, MinIsLeast
  <2>3. Pruned(ages) = SubSeq(ages, Min(fresh), Len(ages))
    BY <1>4 DEF Pruned
  <2>4. PICK d \in 0 .. Len(ages) : Min(fresh) = d + 1
    <3>1. Min(fresh) \in 1 .. Len(ages)
      BY <1>1, <2>2
    <3>2. Min(fresh) - 1 \in 0 .. Len(ages) /\ Min(fresh) = (Min(fresh) - 1) + 1
      BY <1>1, <3>1
    <3> QED  BY <3>2
  <2> HIDE DEF fresh
  <2>5. \A i \in 1 .. d : i \notin fresh
    BY <1>1, <2>2, <2>4
  <2>6. \A i \in 1 .. d : ages[i] > Window
    BY <1>1, <2>4, <2>5 DEF fresh, Expired
  <2>7. ages[d + 1] <= Window
    <3>1. d + 1 \in DOMAIN ages /\ ~(ages[d + 1] > Window)
      BY <2>2, <2>4 DEF fresh, Expired
    <3> QED  BY <1>1, <1>2, <3>1
  <2> QED  BY <2>3, <2>4, <2>6, <2>7
<1> QED  BY <1>3, <1>4

(* A tick ages every sighting up to one past the window and drops none of  *)
(* them (a tick of Correlation).                                           *)
LEMMA OlderElements ==
  ASSUME NEW ages \in Seq(Age)
  PROVE  /\ Older(ages) \in Seq(Age)
         /\ Len(Older(ages)) = Len(ages)
         /\ \A i \in 1 .. Len(ages) :
              Older(ages)[i] = IF ages[i] <= Window THEN ages[i] + 1 ELSE ages[i]
<1>1. /\ Len(ages) \in Nat
      /\ DOMAIN ages = 1 .. Len(ages)
      /\ \A i \in 1 .. Len(ages) : ages[i] \in Age
  BY LenProperties, ElementOfSeq
<1>2. Older(ages) = [i \in 1 .. Len(ages) |-> IF ages[i] <= Window THEN ages[i] + 1 ELSE ages[i]]
  BY <1>1 DEF Older
<1>3. \A i \in 1 .. Len(ages) : (IF ages[i] <= Window THEN ages[i] + 1 ELSE ages[i]) \in Age
  BY <1>1, CorrelationAssumption DEF Age
<1> QED  BY <1>1, <1>2, <1>3

(* Dropping the first d sightings and ageing the rest commute (a tick of   *)
(* Correlation).                                                           *)
LEMMA OlderSuffix ==
  ASSUME NEW ages \in Seq(Age), NEW d \in 0 .. Len(ages)
  PROVE  Older(SubSeq(ages, d + 1, Len(ages)))
           = SubSeq(Older(ages), d + 1, Len(Older(ages)))
<1> DEFINE t == SubSeq(ages, d + 1, Len(ages))
           o == Older(ages)
           u == Older(t)
           v == SubSeq(o, d + 1, Len(o))
<1>1. Len(ages) \in Nat
  BY LenProperties
<1>2. /\ t \in Seq(Age) /\ Len(t) = Len(ages) - d
      /\ \A i \in 1 .. Len(ages) - d : t[i] = ages[d + i]
  BY SuffixElements
<1>3. /\ o \in Seq(Age) /\ Len(o) = Len(ages)
      /\ \A i \in 1 .. Len(ages) : o[i] = IF ages[i] <= Window THEN ages[i] + 1 ELSE ages[i]
  BY OlderElements
<1> HIDE DEF t, o
<1>4. /\ u \in Seq(Age) /\ Len(u) = Len(t)
      /\ \A i \in 1 .. Len(t) : u[i] = IF t[i] <= Window THEN t[i] + 1 ELSE t[i]
  BY <1>2, OlderElements
<1>5. d \in 0 .. Len(o)
  BY <1>3
<1>6. /\ v \in Seq(Age) /\ Len(v) = Len(o) - d
      /\ \A i \in 1 .. Len(o) - d : v[i] = o[d + i]
  BY <1>3, <1>5, SuffixElements
<1> HIDE DEF u, v
<1>7. Len(u) = Len(v)
  BY <1>2, <1>3, <1>4, <1>6
<1>8. ASSUME NEW i \in 1 .. Len(u) PROVE u[i] = v[i]
  <2>1. i \in 1 .. Len(ages) - d /\ d + i \in 1 .. Len(ages)
    BY <1>1, <1>2, <1>4
  <2>2. t[i] = ages[d + i] /\ v[i] = o[d + i]
    BY <1>2, <1>3, <1>6, <2>1
  <2> QED  BY <1>2, <1>3, <1>4, <2>1, <2>2
<1>9. u = v
  BY <1>4, <1>6, <1>7, <1>8, SeqEqual
<1> QED  BY <1>9 DEF t, o, u, v

-----------------------------------------------------------------------------
(* The inductive invariant: the sightings of a site are ordered by age, so *)
(* that what pruning leaves is exactly what is recent; and the verdict     *)
(* published last fits.                                                    *)
Ordered(ages) == \A i, j \in 1 .. Len(ages) : i <= j => ages[i] >= ages[j]

SeenOrdered == \A site \in Sites : Ordered(seen[site])

AssessmentInv == AssessmentTypeOK /\ NoRecentSightingLost /\ SeenOrdered /\ VerdictFits

(* A sighting younger than all before it keeps the order.                  *)
LEMMA AppendOrdered ==
  ASSUME NEW ages \in Seq(Age), Ordered(ages)
  PROVE  Append(ages, 0) \in Seq(Age) /\ Ordered(Append(ages, 0))
<1>1. 0 \in Age /\ \A x \in Age : x \in Int /\ x >= 0
  BY CorrelationAssumption DEF Age
<1>2. /\ Append(ages, 0) \in Seq(Age) /\ Len(Append(ages, 0)) = Len(ages) + 1
      /\ Append(ages, 0)[Len(ages) + 1] = 0
      /\ \A i \in 1 .. Len(ages) : Append(ages, 0)[i] = ages[i]
  BY <1>1, AppendProperties
<1>3. Len(ages) \in Nat /\ \A i \in 1 .. Len(ages) : ages[i] \in Age
  BY LenProperties, ElementOfSeq
<1>4. ASSUME NEW i \in 1 .. Len(ages) + 1, NEW j \in 1 .. Len(ages) + 1, i <= j
      PROVE  Append(ages, 0)[i] >= Append(ages, 0)[j]
  <2>1. CASE j = Len(ages) + 1
    <3>1. Append(ages, 0)[i] \in Age
      BY <1>2, ElementOfSeq
    <3> QED  BY <1>1, <1>2, <2>1, <3>1
  <2>2. CASE j \in 1 .. Len(ages)
    <3>1. i \in 1 .. Len(ages)
      BY <1>3, <1>4, <2>2
    <3> QED  BY <1>2, <1>4, <2>2, <3>1 DEF Ordered
  <2> QED  BY <1>3, <2>1, <2>2
<1> QED  BY <1>2, <1>4 DEF Ordered

(* After a call of evaluate the window of the site is the sightings from   *)
(* the first fresh one, its own included; other sites are untouched.       *)
LEMMA EvaluateWindow ==
  ASSUME AssessmentInv, NEW site \in Sites, NEW severity \in Severity,
         Evaluate(site, severity)
  PROVE  /\ seen' \in [Sites -> Seq(Age)] /\ window' \in [Sites -> Seq(Age)]
         /\ \A other \in Sites \ {site} :
              seen'[other] = seen[other] /\ window'[other] = window[other]
         /\ Ordered(seen'[site])
         /\ \E d \in 0 .. Len(seen'[site]) :
              /\ window'[site] = SubSeq(seen'[site], d + 1, Len(seen'[site]))
              /\ \A i \in 1 .. d : seen'[site][i] > Window
              /\ d < Len(seen'[site]) => seen'[site][d + 1] <= Window
<1> DEFINE kept == window[site]
           whole == seen[site]
<1>1. /\ window \in [Sites -> Seq(Age)] /\ seen \in [Sites -> Seq(Age)]
      /\ kept \in Seq(Age) /\ whole \in Seq(Age) /\ Ordered(whole)
  BY DEF AssessmentInv, AssessmentTypeOK, TypeOK, SeenOrdered
<1>2. /\ Len(kept) \in Nat /\ Len(whole) \in Nat
      /\ \A i \in 1 .. Len(whole) : whole[i] \in Int
      /\ Window \in Nat /\ 0 \in Age
  BY <1>1, LenProperties, ElementOfSeq, CorrelationAssumption DEF Age
<1>3. PICK d \in 0 .. Len(whole) :
         /\ kept = SubSeq(whole, d + 1, Len(whole))
         /\ \A i \in 1 .. d : whole[i] > Window
  BY DEF AssessmentInv, NoRecentSightingLost
<1>4. /\ Len(kept) = Len(whole) - d
      /\ \A i \in 1 .. Len(whole) - d : kept[i] = whole[d + i]
  BY <1>1, <1>3, SuffixElements
<1>5. PICK e \in 0 .. Len(kept) :
         /\ Pruned(kept) = SubSeq(kept, e + 1, Len(kept))
         /\ \A i \in 1 .. e : kept[i] > Window
         /\ e < Len(kept) => kept[e + 1] <= Window
  BY <1>1, PrunedIsSuffix
<1>6. d + e \in 0 .. Len(whole) /\ e \in 0 .. Len(whole) - d
  BY <1>2, <1>4
<1>7. Pruned(kept) = SubSeq(whole, (d + e) + 1, Len(whole))
  BY <1>1, <1>3, <1>5, <1>6, SuffixOfSuffix
<1>8. ASSUME NEW i \in 1 .. d + e PROVE whole[i] > Window
  <2>1. CASE i \in 1 .. d
    BY <1>3, <2>1
  <2>2. CASE i \in d + 1 .. d + e
    <3>1. i - d \in 1 .. e /\ i - d \in 1 .. Len(whole) - d /\ d + (i - d) = i
      BY <1>2, <1>4, <2>2
    <3> QED  BY <1>4, <1>5, <3>1
  <2> QED  BY <1>2, <2>1, <2>2
<1>9. d + e < Len(whole) => whole[d + e + 1] <= Window
  <2> SUFFICES ASSUME d + e < Len(whole) PROVE whole[d + e + 1] <= Window
    OBVIOUS
  <2>1. e < Len(kept) /\ e + 1 \in 1 .. Len(whole) - d
    BY <1>2, <1>4
  <2>2. kept[e + 1] = whole[d + (e + 1)]
    BY <1>4, <2>1
  <2>3. d + (e + 1) = d + e + 1
    OBVIOUS
  <2> QED  BY <1>5, <2>1, <2>2, <2>3
<1>10. Pruned(kept) \in Seq(Age)
  BY <1>1, <1>6, <1>7, SuffixElements
<1> HIDE DEF kept, whole
<1>11. CASE severity = "info"
  <2>1. seen' = seen /\ window' = [window EXCEPT ![site] = Pruned(kept)]
    BY <1>11 DEF Evaluate, CountedSeverities, kept
  <2>2. seen'[site] = whole /\ window'[site] = Pruned(kept)
    BY <1>1, <2>1 DEF whole
  <2>3. window' \in [Sites -> Seq(Age)]
    BY <1>1, <1>10, <2>1
  <2> QED  BY <1>1, <1>6, <1>7, <1>8, <1>9, <2>1, <2>2, <2>3
<1>12. CASE severity # "info"
  <2>1. /\ seen' = [seen EXCEPT ![site] = Append(whole, 0)]
        /\ window' = [window EXCEPT ![site] = Append(Pruned(kept), 0)]
    BY <1>12 DEF Evaluate, Severity, CountedSeverities, WithSighting, kept, whole
  <2>2. /\ Append(whole, 0) \in Seq(Age) /\ Len(Append(whole, 0)) = Len(whole) + 1
        /\ Append(Pruned(kept), 0)
             = SubSeq(Append(whole, 0), (d + e) + 1, Len(Append(whole, 0)))
    <3>1. PICK f \in 0 .. Len(whole) : f = d + e
      BY <1>6
    <3>2. whole \in Seq(Age) /\ 0 \in Age
      BY <1>1, <1>2
    <3>3. Append(SubSeq(whole, f + 1, Len(whole)), 0)
            = SubSeq(Append(whole, 0), f + 1, Len(Append(whole, 0)))
      BY <3>2, AppendToSuffix
    <3>4. Append(whole, 0) \in Seq(Age) /\ Len(Append(whole, 0)) = Len(whole) + 1
      BY <3>2, AppendProperties
    <3> QED  BY <1>7, <3>1, <3>3, <3>4
  <2>3. Ordered(Append(whole, 0))
    BY <1>1, AppendOrdered
  <2>4. /\ \A i \in 1 .. Len(whole) : Append(whole, 0)[i] = whole[i]
        /\ Append(whole, 0)[Len(whole) + 1] = 0
    BY <1>1, <1>2, AppendProperties
  <2>5. /\ \A i \in 1 .. d + e : Append(whole, 0)[i] > Window
        /\ Append(whole, 0)[d + e + 1] <= Window
    BY <1>2, <1>6, <1>8, <1>9, <2>4
  <2>6. Append(Pruned(kept), 0) \in Seq(Age)
    BY <1>2, <1>10, AppendProperties
  <2>7. /\ seen' \in [Sites -> Seq(Age)] /\ window' \in [Sites -> Seq(Age)]
        /\ seen'[site] = Append(whole, 0) /\ window'[site] = Append(Pruned(kept), 0)
        /\ \A other \in Sites \ {site} :
             seen'[other] = seen[other] /\ window'[other] = window[other]
    BY <1>1, <2>1, <2>2, <2>6
  <2>8. d + e \in 0 .. Len(Append(whole, 0))
    BY <1>2, <1>6, <2>2
  <2> QED  BY <2>2, <2>3, <2>5, <2>7, <2>8
<1> QED  BY <1>11, <1>12

(* So the engine's count is the number of recent sightings, and a call     *)
(* escalates exactly on the pattern (CorrelationEngine.evaluate).          *)
LEMMA EscalatesExactly ==
  ASSUME AssessmentInv, NEW site \in Sites, NEW severity \in Severity,
         Evaluate(site, severity)
  PROVE  escalated' <=> /\ severity # "critical"
                        /\ Cardinality(Recent(seen'[site])) >= Threshold
<1> DEFINE whole == seen'[site]
           kept == window'[site]
<1>1. /\ seen' \in [Sites -> Seq(Age)] /\ window' \in [Sites -> Seq(Age)]
      /\ Ordered(whole)
      /\ \E d \in 0 .. Len(whole) :
           /\ kept = SubSeq(whole, d + 1, Len(whole))
           /\ \A i \in 1 .. d : whole[i] > Window
           /\ d < Len(whole) => whole[d + 1] <= Window
  BY EvaluateWindow
<1>2. escalated' = (severity # "critical" /\ Len(kept) >= Threshold)
  <2>1. /\ window \in [Sites -> Seq(Age)]
        /\ window' = [window EXCEPT ![site] =
                        IF severity \in CountedSeverities
                        THEN WithSighting(Pruned(window[site])) ELSE Pruned(window[site])]
        /\ escalated' = (severity # "critical"
                          /\ Reaches(IF severity \in CountedSeverities
                                      THEN WithSighting(Pruned(window[site]))
                                      ELSE Pruned(window[site])))
    BY DEF Evaluate, AssessmentInv, AssessmentTypeOK, TypeOK
  <2>2. kept = IF severity \in CountedSeverities
               THEN WithSighting(Pruned(window[site])) ELSE Pruned(window[site])
    BY <2>1
  <2> HIDE DEF kept
  <2> QED  BY <2>1, <2>2 DEF Reaches
<1>3. /\ whole \in Seq(Age) /\ Len(whole) \in Nat /\ DOMAIN whole = 1 .. Len(whole)
      /\ \A i \in 1 .. Len(whole) : whole[i] \in Int
      /\ Window \in Nat
  <2>1. whole \in Seq(Age)
    BY <1>1
  <2> QED  BY <2>1, LenProperties, ElementOfSeq, CorrelationAssumption DEF Age
<1> HIDE DEF whole, kept
<1>4. PICK d \in 0 .. Len(whole) :
           /\ kept = SubSeq(whole, d + 1, Len(whole))
           /\ \A i \in 1 .. d : whole[i] > Window
           /\ d < Len(whole) => whole[d + 1] <= Window
  BY <1>1
<1>5. Len(kept) = Len(whole) - d
  BY <1>3, <1>4, SuffixElements
<1>6. \A i \in d + 1 .. Len(whole) : whole[i] <= Window
  <2> SUFFICES ASSUME NEW i \in d + 1 .. Len(whole) PROVE whole[i] <= Window
    OBVIOUS
  <2>1. d < Len(whole) /\ d + 1 \in 1 .. Len(whole) /\ i \in 1 .. Len(whole) /\ d + 1 <= i
    BY <1>3
  <2>2. whole[d + 1] >= whole[i] /\ whole[d + 1] <= Window
    BY <1>1, <1>4, <2>1 DEF Ordered
  <2> QED  BY <1>3, <2>1, <2>2
<1>7. Recent(whole) = d + 1 .. Len(whole)
  <2>1. \A i \in 1 .. d : ~(whole[i] <= Window)
    BY <1>3, <1>4
  <2>2. \A i \in 1 .. Len(whole) : i \in 1 .. d \/ i \in d + 1 .. Len(whole)
    BY <1>3
  <2>3. \A i \in d + 1 .. Len(whole) : i \in 1 .. Len(whole)
    BY <1>3
  <2>4. \A i : i \in Recent(whole) <=> i \in 1 .. Len(whole) /\ whole[i] <= Window
    BY <1>3 DEF Recent
  <2>5. \A i : i \in d + 1 .. Len(whole) => i \in Recent(whole)
    BY <1>6, <2>3, <2>4, Zenon
  <2>6. \A i : i \in Recent(whole) => i \in d + 1 .. Len(whole)
    BY <2>1, <2>2, <2>4, Zenon
  <2> QED  BY <2>5, <2>6, Zenon
<1>8. Cardinality(d + 1 .. Len(whole)) = Len(whole) - d
  <2>1. Cardinality(d + 1 .. Len(whole))
          = IF d + 1 > Len(whole) THEN 0 ELSE Len(whole) - (d + 1) + 1
    <3>1. d + 1 \in Int /\ Len(whole) \in Int
      BY <1>3
    <3> QED  BY <3>1, FS_Interval, Zenon
  <2> QED  BY <1>3, <2>1
<1> QED  BY <1>2, <1>5, <1>7, <1>8 DEF whole

(* A call keeps the invariant of the windows.                              *)
LEMMA EvaluateKeeps ==
  ASSUME AssessmentInv, NEW site \in Sites, NEW severity \in Severity,
         Evaluate(site, severity)
  PROVE  TypeOK' /\ NoRecentSightingLost' /\ SeenOrdered'
<1>1. /\ seen' \in [Sites -> Seq(Age)] /\ window' \in [Sites -> Seq(Age)]
      /\ \A other \in Sites \ {site} :
           seen'[other] = seen[other] /\ window'[other] = window[other]
      /\ Ordered(seen'[site])
      /\ \E d \in 0 .. Len(seen'[site]) :
           /\ window'[site] = SubSeq(seen'[site], d + 1, Len(seen'[site]))
           /\ \A i \in 1 .. d : seen'[site][i] > Window
  BY EvaluateWindow
<1>2. TypeOK'
  <2>1. evaluations' \in 0 .. MaxEvaluations /\ escalated' \in BOOLEAN
    <3>1. evaluations \in 0 .. MaxEvaluations
      BY DEF AssessmentInv, AssessmentTypeOK, TypeOK
    <3>2. evaluations < MaxEvaluations /\ evaluations' = evaluations + 1
      BY DEF Evaluate
    <3>3. escalated' \in BOOLEAN
      BY DEF Evaluate
    <3> QED  BY <3>1, <3>2, <3>3, CorrelationAssumption
  <2> QED  BY <1>1, <2>1 DEF TypeOK
<1>3. NoRecentSightingLost'
  BY <1>1 DEF AssessmentInv, NoRecentSightingLost
<1>4. SeenOrdered'
  BY <1>1 DEF AssessmentInv, SeenOrdered
<1> QED  BY <1>2, <1>3, <1>4

(* So does a tick: an expired sighting stays expired.                      *)
LEMMA TickKeeps ==
  ASSUME AssessmentInv, Tick
  PROVE  TypeOK' /\ NoRecentSightingLost' /\ SeenOrdered'
<1>1. window \in [Sites -> Seq(Age)] /\ seen \in [Sites -> Seq(Age)]
  BY DEF AssessmentInv, AssessmentTypeOK, TypeOK
<1>2. \A site \in Sites : /\ window'[site] = Older(window[site])
                         /\ seen'[site] = Older(seen[site])
  BY DEF Tick
<1>3. \A site \in Sites : Older(window[site]) \in Seq(Age) /\ Older(seen[site]) \in Seq(Age)
  BY <1>1, OlderElements
<1>4. TypeOK'
  <2>1. window' \in [Sites -> Seq(Age)] /\ seen' \in [Sites -> Seq(Age)]
    BY <1>3 DEF Tick
  <2>2. evaluations' = evaluations /\ escalated' = escalated
    BY DEF Tick
  <2> QED  BY <2>1, <2>2 DEF AssessmentInv, AssessmentTypeOK, TypeOK
<1>5. ASSUME NEW site \in Sites
      PROVE  /\ \E d \in 0 .. Len(seen'[site]) :
                  /\ window'[site] = SubSeq(seen'[site], d + 1, Len(seen'[site]))
                  /\ \A i \in 1 .. d : seen'[site][i] > Window
             /\ Ordered(seen'[site])
  <2> DEFINE whole == seen[site]
             older == Older(whole)
  <2>1. whole \in Seq(Age) /\ Ordered(whole)
    BY <1>1 DEF AssessmentInv, SeenOrdered
  <2>2. /\ Len(whole) \in Nat
        /\ \A i \in 1 .. Len(whole) : whole[i] \in Int
        /\ Window \in Nat
    BY <2>1, LenProperties, ElementOfSeq, CorrelationAssumption DEF Age
  <2>3. /\ Len(older) = Len(whole)
        /\ \A i \in 1 .. Len(whole) :
             older[i] = IF whole[i] <= Window THEN whole[i] + 1 ELSE whole[i]
    BY <2>1, OlderElements
  <2>4. PICK d \in 0 .. Len(whole) :
           /\ window[site] = SubSeq(whole, d + 1, Len(whole))
           /\ \A i \in 1 .. d : whole[i] > Window
    BY DEF AssessmentInv, NoRecentSightingLost
  <2>5. window'[site] = SubSeq(older, d + 1, Len(older))
    BY <1>2, <2>1, <2>4, OlderSuffix
  <2>6. seen'[site] = older
    BY <1>2
  <2> HIDE DEF whole, older
  <2>7. \A i \in 1 .. d : older[i] > Window
    BY <2>2, <2>3, <2>4
  <2>8. Ordered(older)
    <3>1. ASSUME NEW i \in 1 .. Len(whole), NEW j \in 1 .. Len(whole), i <= j
          PROVE  older[i] >= older[j]
      <4>1. whole[i] >= whole[j]
        BY <2>1, <3>1 DEF Ordered
      <4> QED  BY <2>2, <2>3, <4>1
    <3> QED  BY <2>3, <3>1 DEF Ordered
  <2> QED  BY <2>3, <2>4, <2>5, <2>6, <2>7, <2>8
<1>6. NoRecentSightingLost'
  BY <1>5 DEF NoRecentSightingLost
<1>7. SeenOrdered'
  BY <1>5 DEF SeenOrdered
<1> QED  BY <1>4, <1>6, <1>7

(* The rules give one of the three severities.                             *)
LEMMA SeverityOfRules ==
  ASSUME NEW event PROVE RuleSeverity(event) \in Severity
BY DEF RuleSeverity, Classify, ByConfidence, BaseSeverity, Lowered, Raised, Severity

(* What is evaluated is a verdict of the rules or one of the model's, and  *)
(* its severity is one of the three (_triage_one).                         *)
LEMMA VerdictsOfRules ==
  ASSUME NEW event \in Alarms
  PROVE  /\ ByRules(event).origin = "rules"
         /\ ByRules(event).severity = RuleSeverity(event)
         /\ ByRules(event).is_real_threat = RuleThreat(event)
         /\ RuleSeverity(event) \in Severity
BY SeverityOfRules DEF ByRules

(* Whatever the length of a text that says something, what is kept of it   *)
(* is neither empty nor too long (_truncate).                              *)
LEMMA TruncatedFits ==
  ASSUME NEW length \in Nat, NEW limit \in Nat, limit >= 2
  PROVE  /\ Truncated(length, limit) \subseteq 0 .. limit
         /\ length > 0 => Truncated(length, limit) \subseteq 1 .. limit
BY DEF Truncated

(* However the API counts the tokens it had cached, even below zero, a     *)
(* call costs no more than with no token cached, and nothing negative      *)
(* unless it used a negative number of tokens (estimate_cost).             *)
CostWithin(cost, tokens) ==
  /\ cost <= tokens.prompt * PriceIn + tokens.completion * PriceOut
  /\ tokens.prompt >= 0 /\ tokens.completion >= 0 => cost >= 0

LEMMA CostFits ==
  ASSUME NEW tokens, tokens.prompt \in Int, tokens.completion \in Int, tokens.cached \in Int
  PROVE  EstimateCost(tokens) \in Int /\ CostWithin(EstimateCost(tokens), tokens)
<1> DEFINE p == tokens.prompt
           c == tokens.completion
           b == BilledCached(tokens)
<1>1. p \in Int /\ c \in Int /\ b \in Nat /\ (p >= 0 => b <= p) /\ (p < 0 => b = 0)
  BY DEF BilledCached
<1>2. PriceIn \in Nat /\ PriceOut \in Nat /\ PriceCached \in Nat /\ PriceCached <= PriceIn
  BY ReplyAssumption
<1> HIDE DEF p, c, b
<1>3. (p - b) * PriceIn + b * PriceCached \in Int /\ c * PriceOut \in Int /\ p * PriceIn \in Int
  BY <1>1, <1>2
<1>4. c >= 0 => c * PriceOut >= 0
  BY <1>1, <1>2
<1>5. /\ (p - b) * PriceIn + b * PriceCached <= p * PriceIn
      /\ p >= 0 => (p - b) * PriceIn + b * PriceCached >= 0
  <2>1. CASE p < 0
    BY <1>1, <1>2, <2>1
  <2>2. CASE p >= 0
    <3>1. PICK d \in Nat : p = b + d
      <4>1. p - b \in Nat /\ p = b + (p - b)
        BY <1>1, <2>2
      <4> QED  BY <4>1
    <3>2. PICK e \in Nat : PriceIn = PriceCached + e
      <4>1. PriceIn - PriceCached \in Nat /\ PriceIn = PriceCached + (PriceIn - PriceCached)
        BY <1>2
      <4> QED  BY <4>1
    <3>3. /\ d * PriceIn \in Nat /\ b * PriceCached \in Nat /\ b * e \in Nat
          /\ b * PriceIn \in Nat
      BY <1>1, <1>2, <3>1, <3>2
    <3>4. p * PriceIn = b * PriceIn + d * PriceIn
      BY <1>1, <1>2, <3>1
    <3>5. b * PriceIn = b * PriceCached + b * e
      BY <1>1, <1>2, <3>2
    <3>6. (p - b) * PriceIn = d * PriceIn
      <4>1. p - b = d
        BY <1>1, <3>1
      <4> QED  BY <4>1
    <3> QED  BY <3>3, <3>4, <3>5, <3>6
  <2> QED  BY <1>1, <2>1, <2>2
<1>6. /\ (p - b) * PriceIn + b * PriceCached + c * PriceOut <= p * PriceIn + c * PriceOut
      /\ p >= 0 /\ c >= 0 => (p - b) * PriceIn + b * PriceCached + c * PriceOut >= 0
      /\ (p - b) * PriceIn + b * PriceCached + c * PriceOut \in Int
  BY <1>3, <1>4, <1>5
<1> QED  BY <1>6 DEF p, c, b, EstimateCost, CostWithin

(* The verdicts of the model before an escalation touches them.            *)
ModelVerdict ==
  [origin : {"llm"}, severity : Severity, is_real_threat : BOOLEAN,
   summary : 1 .. MaxSummary, recommended_action : 1 .. MaxAction,
   reasoning : 0 .. MaxReasoning, tokens : [prompt : Int, completion : Int, cached : Int],
   cost : Int, overrode : BOOLEAN]

(* A verdict of the model fits the card before an escalation touches it    *)
(* (OpenAICompatibleProvider.triage).                                      *)
LEMMA VerdictsOfModel ==
  ASSUME NEW event, NEW reply \in Reply, Extracts(reply),
         NEW decided \in ByModel(event, reply)
  PROVE  /\ decided \in ModelVerdict
         /\ decided.severity = reply.severity.word
         /\ CostWithin(decided.cost, decided.tokens)
         /\ decided.overrode <=> reply.severity.word # RuleSeverity(event)
<1> DEFINE tokens == UsageTokens(reply.usage)
           threat == reply.is_real_threat \in {"true", "yes"}
           overrode == reply.severity.word # RuleSeverity(event)
           made(s, a, r) ==
             [origin |-> "llm", severity |-> reply.severity.word,
              is_real_threat |-> threat, summary |-> s, recommended_action |-> a,
              reasoning |-> r, tokens |-> tokens, cost |-> EstimateCost(tokens),
              overrode |-> overrode]
<1>1. /\ reply.summary \in Text /\ reply.recommended_action \in Text
      /\ reply.reasoning \in Text /\ reply.usage \in Usage
  BY DEF Reply
<1>2. /\ reply.severity.word \in Severity
      /\ reply.summary > 0 /\ reply.recommended_action > 0 /\ reply.reasoning # NoText
  BY DEF Extracts, Validates, ValidSeverities, Severity
<1>3. /\ reply.summary \in Nat /\ reply.recommended_action \in Nat /\ reply.reasoning \in Nat
  BY <1>1, <1>2 DEF Text, NoText
<1>4. /\ Truncated(reply.summary, MaxSummary) \subseteq 1 .. MaxSummary
      /\ Truncated(reply.recommended_action, MaxAction) \subseteq 1 .. MaxAction
      /\ Truncated(reply.reasoning, MaxReasoning) \subseteq 0 .. MaxReasoning
  BY <1>2, <1>3, ReplyAssumption, TruncatedFits
<1>5. tokens \in [prompt : Int, completion : Int, cached : Int]
  <2>1. /\ reply.usage.prompt \in Int /\ reply.usage.completion \in Int
        /\ Cached(reply.usage) \in Int
    BY <1>1 DEF Usage, Cached
  <2> QED  BY <2>1 DEF UsageTokens
<1>6. threat \in BOOLEAN /\ overrode \in BOOLEAN
  OBVIOUS
<1>7. ByModel(event, reply) =
        {made(s, a, r) : s \in Truncated(reply.summary, MaxSummary),
                         a \in Truncated(reply.recommended_action, MaxAction),
                         r \in Truncated(reply.reasoning, MaxReasoning)}
  BY DEF ByModel
<1> HIDE DEF made
<1>8. PICK s \in Truncated(reply.summary, MaxSummary),
           a \in Truncated(reply.recommended_action, MaxAction),
           r \in Truncated(reply.reasoning, MaxReasoning) : decided = made(s, a, r)
  BY <1>7
<1> HIDE DEF tokens, threat, overrode
<1>9. EstimateCost(tokens) \in Int /\ CostWithin(EstimateCost(tokens), tokens)
  BY <1>5, CostFits
<1>10. EstimateCost(tokens) \in Int
  BY <1>9
<1>11. s \in 1 .. MaxSummary /\ a \in 1 .. MaxAction /\ r \in 0 .. MaxReasoning
  BY <1>4, <1>8
<1>12. /\ decided.severity = reply.severity.word /\ decided.tokens = tokens
       /\ decided.cost = EstimateCost(tokens) /\ decided.overrode = overrode
  BY <1>8, Zenon DEF made
<1>13. decided \in ModelVerdict
  BY <1>2, <1>5, <1>6, <1>8, <1>10, <1>11, Zenon DEF made, ModelVerdict
<1>14. decided.overrode <=> reply.severity.word # RuleSeverity(event)
  BY <1>12, Zenon DEF overrode
<1> QED  BY <1>9, <1>12, <1>13, <1>14, Zenon

(* An evaluation publishes the verdict it is given, raised if escalated.   *)
LEMMA SettledKeeps ==
  ASSUME AssessmentInv, alarm # NoAlarm, NEW decided, decided.severity \in Severity,
         SettledWith(decided)
  PROVE  TypeOK' /\ NoRecentSightingLost' /\ SeenOrdered' /\ AssessmentTypeOK'
<1>1. alarm \in Alarms /\ alarm.site \in Sites
  BY DEF AssessmentInv, AssessmentTypeOK, Alarms
<1>2. Evaluate(alarm.site, decided.severity) /\ alarm' = NoAlarm
  BY DEF SettledWith
<1>3. TypeOK' /\ NoRecentSightingLost' /\ SeenOrdered'
  BY <1>1, <1>2, EvaluateKeeps
<1> QED  BY <1>2, <1>3 DEF AssessmentTypeOK

(* What the rules decide fits, escalated or not.                           *)
LEMMA SettledByRulesFits ==
  ASSUME AssessmentInv, alarm # NoAlarm, SettledWith(ByRules(alarm))
  PROVE  VerdictFits'
<1>1. alarm \in Alarms
  BY DEF AssessmentInv, AssessmentTypeOK
<1>2. RuleSeverity(alarm) \in Severity
  BY SeverityOfRules
<1>3. verdict' = Raising(ByRules(alarm))
  BY DEF SettledWith
<1>4. CASE escalated'
  <2>1. /\ verdict'.severity = "critical" /\ verdict'.is_real_threat = TRUE
        /\ verdict'.origin = "rules"
    BY <1>3, <1>4 DEF Raising, ByRules
  <2> QED  BY <2>1 DEF VerdictFits, Severity
<1>5. CASE ~escalated'
  <2>1. verdict'.severity = RuleSeverity(alarm) /\ verdict'.origin = "rules"
    BY <1>3, <1>5 DEF Raising, ByRules
  <2> QED  BY <1>2, <1>5, <2>1 DEF VerdictFits
<1> QED  BY <1>4, <1>5

(* And so does what the model decides.                                     *)
LEMMA SettledByModelFits ==
  ASSUME AssessmentInv, alarm # NoAlarm, NEW reply \in Reply, Extracts(reply),
         NEW decided \in ByModel(alarm, reply), SettledWith(decided)
  PROVE  /\ VerdictFits' /\ decided.severity \in Severity
         /\ verdict'.origin = "llm"
         /\ verdict'.severity = IF escalated' THEN "critical" ELSE reply.severity.word
         /\ verdict'.overrode <=> reply.severity.word # RuleSeverity(alarm)
<1>1. /\ decided \in ModelVerdict
      /\ decided.severity = reply.severity.word
      /\ CostWithin(decided.cost, decided.tokens)
      /\ decided.overrode <=> reply.severity.word # RuleSeverity(alarm)
  BY VerdictsOfModel
<1>2. verdict' = Raising(decided)
  BY DEF SettledWith
<1>3. MaxReasoning \in Nat /\ ReasonLength \in Nat
  BY ReplyAssumption, AssessmentAssumption
<1>4. /\ decided.origin = "llm" /\ decided.severity \in Severity
      /\ decided.summary \in 1 .. MaxSummary /\ decided.recommended_action \in 1 .. MaxAction
      /\ decided.reasoning \in 0 .. MaxReasoning
  BY <1>1 DEF ModelVerdict
<1>5. CASE escalated'
  <2>1. verdict' = [decided EXCEPT !.severity = "critical", !.is_real_threat = TRUE,
                                   !.reasoning = decided.reasoning + ReasonLength]
    BY <1>2, <1>5 DEF Raising
  <2>2. /\ verdict'.origin = decided.origin /\ verdict'.severity = "critical"
        /\ verdict'.is_real_threat = TRUE /\ verdict'.summary = decided.summary
        /\ verdict'.recommended_action = decided.recommended_action
        /\ verdict'.reasoning = decided.reasoning + ReasonLength
        /\ verdict'.tokens = decided.tokens /\ verdict'.cost = decided.cost
        /\ verdict'.overrode = decided.overrode
    BY <1>1, <2>1 DEF ModelVerdict
  <2>3. decided.reasoning + ReasonLength \in 0 .. MaxReasoning + ReasonLength
    BY <1>3, <1>4
  <2>4. "critical" \in Severity
    BY DEF Severity
  <2>5. VerdictFits'
    BY <1>1, <1>4, <1>5, <2>2, <2>3, <2>4 DEF VerdictFits, CostWithin
  <2>6. verdict'.overrode <=> reply.severity.word # RuleSeverity(alarm)
    BY <1>1, <2>2, Zenon
  <2> QED  BY <1>4, <1>5, <2>2, <2>5, <2>6
<1>6. CASE ~escalated'
  <2>1. verdict' = decided
    BY <1>2, <1>6 DEF Raising
  <2>2. decided.reasoning \in 0 .. MaxReasoning + 0
    BY <1>3, <1>4
  <2>3. VerdictFits'
    BY <1>1, <1>4, <1>6, <2>1, <2>2 DEF VerdictFits, CostWithin
  <2>4. verdict'.overrode <=> reply.severity.word # RuleSeverity(alarm)
    BY <1>1, <2>1, Zenon
  <2> QED  BY <1>1, <1>4, <1>6, <2>1, <2>3, <2>4
<1> QED  BY <1>5, <1>6

(* A payload in any disorder comes to an alarm the rules can read.         *)
LEMMA NormalisedIsAlarm ==
  ASSUME NEW payload \in Payloads
  PROVE  Normalised(payload) \subseteq Alarms
<1>1. payload \in Payload
  BY AssessmentAssumption
<1>2. /\ payload.site \in Sites \cup {Missing} /\ payload.type \in EventTypes \cup {Missing}
      /\ payload.confidence \in Int \cup {Missing} /\ payload.hour \in Hours \cup {Missing}
  BY <1>1 DEF Payload
<1>3. (IF payload.site = Missing THEN UnknownField ELSE payload.site) \in Sites
  BY <1>2, AssessmentAssumption
<1>4. (IF payload.type = Missing THEN "unknown" ELSE payload.type) \in EventTypes
  BY <1>2 DEF EventTypes
<1>5. CoerceConfidence(payload.confidence) \in Confidence
  BY <1>2 DEF CoerceConfidence, Confidence, Unreported
<1>6. (IF payload.hour = Missing THEN Hours ELSE {payload.hour}) \subseteq Hours
  BY <1>2
<1> QED  BY <1>3, <1>4, <1>5, <1>6, Zenon DEF Normalised, Alarms

(* The invariant holds along every behaviour of Assessment.                *)
LEMMA InvHolds == AssessmentSpec => []AssessmentInv
<1>1. AssessmentInit => AssessmentInv
  <2> SUFFICES ASSUME AssessmentInit PROVE AssessmentInv
    OBVIOUS
  <2>1. /\ window = [site \in Sites |-> <<>>] /\ seen = [site \in Sites |-> <<>>]
        /\ escalated = FALSE /\ evaluations = 0 /\ alarm = NoAlarm /\ verdict = NoVerdict
    BY DEF AssessmentInit, Init
  <2>2. <<>> \in Seq(Age) /\ Len(<<>>) = 0
    BY EmptySeq
  <2>3. AssessmentTypeOK
    <3>1. window \in [Sites -> Seq(Age)] /\ seen \in [Sites -> Seq(Age)]
      BY <2>1, <2>2
    <3>2. evaluations \in 0 .. MaxEvaluations
      BY <2>1, CorrelationAssumption
    <3>3. escalated \in BOOLEAN /\ alarm \in Alarms \cup {NoAlarm}
      BY <2>1
    <3> QED  BY <3>1, <3>2, <3>3 DEF AssessmentTypeOK, TypeOK
  <2>4. \A site \in Sites : seen[site] = <<>> /\ window[site] = <<>>
    BY <2>1
  <2>5. SubSeq(<<>>, 0 + 1, 0) = <<>>
    BY SubSeqEmpty
  <2>6. NoRecentSightingLost
    <3> SUFFICES ASSUME NEW site \in Sites
                 PROVE  \E dropped \in 0 .. Len(seen[site]) :
                          /\ window[site] = SubSeq(seen[site], dropped + 1, Len(seen[site]))
                          /\ \A i \in 1 .. dropped : seen[site][i] > Window
      BY DEF NoRecentSightingLost
    <3>1. Len(seen[site]) = 0
      BY <2>2, <2>4
    <3>2. window[site] = SubSeq(seen[site], 0 + 1, Len(seen[site]))
      BY <2>4, <2>5, <3>1
    <3> QED  BY <3>1, <3>2
  <2>7. SeenOrdered
    BY <2>2, <2>4 DEF SeenOrdered, Ordered
  <2>8. VerdictFits
    BY <2>1 DEF VerdictFits
  <2> QED  BY <2>3, <2>6, <2>7, <2>8 DEF AssessmentInv
<1>2. AssessmentInv /\ [AssessmentNext]_assessmentVars => AssessmentInv'
  <2> SUFFICES ASSUME AssessmentInv, [AssessmentNext]_assessmentVars PROVE AssessmentInv'
    OBVIOUS
  <2>1. CASE Arrives
    <3>1. /\ UNCHANGED <<window, escalated, evaluations, seen>>
          /\ alarm' \in Alarms /\ verdict' = NoVerdict
      BY <2>1, NormalisedIsAlarm DEF Arrives, vars
    <3>2. VerdictFits'
      BY <3>1 DEF VerdictFits
    <3>3. AssessmentTypeOK' /\ NoRecentSightingLost' /\ SeenOrdered'
      BY <3>1 DEF AssessmentInv, AssessmentTypeOK, TypeOK, NoRecentSightingLost, SeenOrdered
    <3> QED  BY <3>2, <3>3 DEF AssessmentInv
  <2>2. ASSUME alarm # NoAlarm, SettledWith(ByRules(alarm)) PROVE AssessmentInv'
    <3>1. ByRules(alarm).severity \in Severity
      BY SeverityOfRules DEF ByRules
    <3>2. NoRecentSightingLost' /\ SeenOrdered' /\ AssessmentTypeOK'
      BY <2>2, <3>1, SettledKeeps
    <3>3. VerdictFits'
      BY <2>2, SettledByRulesFits
    <3> QED  BY <3>2, <3>3 DEF AssessmentInv
  <2>3. CASE AssessedByModel
    <3>1. PICK reply \in Replies : AnsweredWith(reply)
      BY <2>3 DEF AssessedByModel
    <3>2. reply \in Reply /\ alarm # NoAlarm
      BY <3>1, AssessmentAssumption DEF AnsweredWith
    <3>3. CASE ~Extracts(reply)
      BY <2>2, <3>1, <3>2, <3>3 DEF AnsweredWith
    <3>4. CASE Extracts(reply)
      <4>1. PICK decided \in ByModel(alarm, reply) : SettledWith(decided)
        BY <3>1, <3>4 DEF AnsweredWith
      <4>2. VerdictFits' /\ decided.severity \in Severity
        BY <3>2, <3>4, <4>1, SettledByModelFits
      <4>3. NoRecentSightingLost' /\ SeenOrdered' /\ AssessmentTypeOK'
        BY <3>2, <4>1, <4>2, SettledKeeps
      <4> QED  BY <4>2, <4>3 DEF AssessmentInv
    <3> QED  BY <3>3, <3>4
  <2>4. CASE TimePasses
    <3>1. Tick /\ alarm' = alarm /\ verdict' = verdict
      BY <2>4 DEF TimePasses
    <3>2. TypeOK' /\ NoRecentSightingLost' /\ SeenOrdered'
      BY <3>1, TickKeeps
    <3>3. escalated' = escalated
      BY <3>1 DEF Tick
    <3>4. VerdictFits'
      BY <3>1, <3>3 DEF AssessmentInv, VerdictFits
    <3> QED  BY <3>1, <3>2, <3>4 DEF AssessmentInv, AssessmentTypeOK
  <2>5. CASE UNCHANGED assessmentVars
    BY <2>5 DEF assessmentVars, vars, AssessmentInv, AssessmentTypeOK, TypeOK,
                NoRecentSightingLost, SeenOrdered, VerdictFits
  <2> QED  BY <2>1, <2>2, <2>3, <2>4, <2>5 DEF AssessmentNext, AssessedByRules
<1> QED  BY <1>1, <1>2, PTL DEF AssessmentSpec

-----------------------------------------------------------------------------
(* Theorems *)

(* Every state of Assessment is well typed.                                *)
THEOREM TypeCorrect == AssessmentSpec => []AssessmentTypeOK
<1>1. AssessmentInv => AssessmentTypeOK
  BY DEF AssessmentInv
<1> QED  BY <1>1, InvHolds, PTL

(* Whatever the window, the threshold and the pace of the alarms, the      *)
(* engine never forgets a sighting that is still in the window.            *)
THEOREM WindowKeepsRecent == AssessmentSpec => []NoRecentSightingLost
<1>1. AssessmentInv => NoRecentSightingLost
  BY DEF AssessmentInv
<1> QED  BY <1>1, InvHolds, PTL

(* An event the rules hold for a threat is still one for a surer detector  *)
(* (rules.classify).                                                       *)
LEMMA ThreatMonotone ==
  ASSUME NEW type, NEW hour, NEW c \in Confidence, NEW d \in Confidence,
         \/ type \notin FastPathTypes /\ c \in 0 .. LowConfidence - 1
         \/ d >= LowConfidence /\ (c = Unreported \/ c <= d),
         RealThreat(type, c, hour)
  PROVE  RealThreat(type, d, hour)
<1>1. NoWorse(Classify(type, c, hour), Classify(type, d, hour))
  BY ClassifyMonotone
<1>2. LowConfidence \in 1 .. 100 /\ c \in Int /\ d \in Int
  BY RulesAssumption DEF Confidence, Unreported
<1>3. CASE Classify(type, c, hour) = "critical"
  BY <1>1, <1>3 DEF NoWorse, RealThreat
<1>4. CASE Classify(type, c, hour) # "critical"
  <2>1. Classify(type, c, hour) = "warning" /\ c >= LowConfidence
    BY <1>4 DEF RealThreat
  <2>2. d >= LowConfidence
    BY <1>2, <2>1 DEF Unreported
  <2>3. Classify(type, d, hour) \in {"warning", "critical"}
    BY <1>1, <2>1 DEF NoWorse
  <2> QED  BY <2>2, <2>3 DEF RealThreat
<1> QED  BY <1>3, <1>4

(* For every threshold of confidence, hour and event, a surer detector     *)
(* never lowers the rules' verdict.                                        *)
THEOREM SurerIsNoMilder == AssessmentSpec => []ConfidenceNeverLowers
<1>1. AssessmentInv => ConfidenceNeverLowers
  <2> SUFFICES ASSUME AssessmentInv, alarm # NoAlarm, NEW other \in Reported,
                      \/ Guess(alarm.type, alarm.confidence)
                      \/ /\ other >= LowConfidence
                         /\ alarm.confidence = Unreported \/ alarm.confidence <= other
               PROVE  LET surer == [alarm EXCEPT !.confidence = other]
                      IN /\ NoWorse(RuleSeverity(alarm), RuleSeverity(surer))
                         /\ RuleThreat(alarm) => RuleThreat(surer)
    BY DEF ConfidenceNeverLowers
  <2>1. alarm \in Alarms
    BY DEF AssessmentInv, AssessmentTypeOK
  <2>2. other \in Confidence
    <3>1. PICK payload \in Payloads : other = CoerceConfidence(payload.confidence)
      BY DEF Reported
    <3>2. payload.confidence \in Int \cup {Missing}
      BY AssessmentAssumption DEF Payload
    <3> QED  BY <3>1, <3>2 DEF CoerceConfidence, Confidence, Unreported
  <2>3. /\ alarm.confidence \in Confidence
        /\ [alarm EXCEPT !.confidence = other].confidence = other
        /\ [alarm EXCEPT !.confidence = other].type = alarm.type
        /\ [alarm EXCEPT !.confidence = other].hour = alarm.hour
    BY <2>1 DEF Alarms
  <2>4. \/ alarm.type \notin FastPathTypes /\ alarm.confidence \in 0 .. LowConfidence - 1
        \/ /\ other >= LowConfidence
           /\ alarm.confidence = Unreported \/ alarm.confidence <= other
    BY DEF Guess
  <2>5. NoWorse(Classify(alarm.type, alarm.confidence, alarm.hour),
                Classify(alarm.type, other, alarm.hour))
    BY <2>2, <2>3, <2>4, ClassifyMonotone
  <2>6. RealThreat(alarm.type, alarm.confidence, alarm.hour)
          => RealThreat(alarm.type, other, alarm.hour)
    BY <2>2, <2>3, <2>4, ThreatMonotone
  <2> QED  BY <2>3, <2>5, <2>6 DEF RuleSeverity, RuleThreat
<1> QED  BY <1>1, InvHolds, PTL

(* An alarm is escalated if and only if it is not critical and its own     *)
(* site has had the threshold of sightings within the window, for every    *)
(* threshold, window and number of sites.                                  *)
THEOREM EscalationIsThePattern == AssessmentSpec => EscalatesOnPattern
<1>1. AssessmentInv =>
        [\A site \in Sites, severity \in Severity :
           Evaluate(site, severity) =>
             (escalated' <=> /\ severity # "critical"
                              /\ Cardinality(Recent(seen'[site])) >= Threshold)]_vars
  BY EscalatesExactly
<1> QED  BY <1>1, InvHolds, PTL DEF EscalatesOnPattern

(* A guess is not critical by the rules, and a type that is not critical   *)
(* by itself is only info when guessed.                                    *)
LEMMA GuessIsMild ==
  ASSUME NEW event \in Alarms, Guess(event.type, event.confidence)
  PROVE  /\ RuleSeverity(event) # "critical"
         /\ event.type \notin CriticalTypes => RuleSeverity(event) = "info"
<1>1. event.type \notin FastPathTypes /\ event.confidence \in 0 .. LowConfidence - 1
  BY DEF Guess
<1>2. Downgraded(BaseSeverity(event.type), event.confidence)
  BY <1>1, RulesAssumption DEF Downgraded, Unreported
<1>3. ByConfidence(event.type, event.confidence) = Lowered(BaseSeverity(event.type))
  BY <1>2 DEF ByConfidence
<1>4. CASE event.type \in CriticalTypes
  <2>1. event.type \notin IntrusionTypes
    BY <1>4 DEF CriticalTypes, FastPathTypes, IntrusionTypes, ForcedEntryTypes
  <2>2. RuleSeverity(event) = "warning"
    BY <1>1, <1>3, <1>4, <2>1
       DEF RuleSeverity, Classify, MeansMoreNow, BaseSeverity, Lowered
  <2> QED  BY <1>4, <2>2
<1>5. CASE event.type \notin CriticalTypes
  <2>1. ByConfidence(event.type, event.confidence) = "info"
    BY <1>3, <1>5 DEF BaseSeverity, Lowered
  <2>2. RuleSeverity(event) = "info"
    BY <1>1, <2>1 DEF RuleSeverity, Classify, MeansMoreNow
  <2> QED  BY <2>2
<1> QED  BY <1>4, <1>5

(* A step that leaves no alarm awaited decides one, by the rules or by a   *)
(* reply they have no part in (_triage_one, EventIntake.accept).           *)
LEMMA DecidedBy ==
  ASSUME AssessmentInv, AssessmentNext, alarm # NoAlarm, alarm' = NoAlarm,
         verdict'.origin = "rules"
  PROVE  SettledWith(ByRules(alarm))
<1>1. CASE Arrives
  BY <1>1 DEF Arrives
<1>2. CASE AssessedByRules
  BY <1>2 DEF AssessedByRules
<1>3. CASE AssessedByModel
  <2>1. PICK reply \in Replies : AnsweredWith(reply)
    BY <1>3 DEF AssessedByModel
  <2>2. CASE Extracts(reply)
    <3>1. reply \in Reply
      BY AssessmentAssumption
    <3>2. PICK decided \in ByModel(alarm, reply) : SettledWith(decided)
      BY <2>1, <2>2 DEF AnsweredWith
    <3>3. verdict'.origin = "llm"
      BY <2>2, <3>1, <3>2, SettledByModelFits
    <3> QED  BY <3>3
  <2> QED  BY <2>1, <2>2 DEF AnsweredWith
<1>4. CASE TimePasses
  BY <1>4 DEF TimePasses
<1> QED  BY <1>1, <1>2, <1>3, <1>4 DEF AssessmentNext

(* With the model out, a guess reaches the operator as critical only in a  *)
(* pattern, to which it adds nothing unless its type is critical by        *)
(* itself, for every setting of the rules and the engine.                  *)
THEOREM GuessWaitsForPattern == AssessmentSpec => GuessNeedsPattern
<1>1. AssessmentInv /\ [AssessmentNext]_assessmentVars =>
        [(/\ alarm # NoAlarm /\ alarm' = NoAlarm
          /\ Guess(alarm.type, alarm.confidence)
          /\ verdict'.origin = "rules" /\ verdict'.severity = "critical")
         => /\ escalated'
            /\ Cardinality(Recent(seen'[alarm.site])) >= Threshold
            /\ alarm.type \notin CriticalTypes => seen' = seen]_assessmentVars
  <2> SUFFICES ASSUME AssessmentInv, AssessmentNext, alarm # NoAlarm, alarm' = NoAlarm,
                      Guess(alarm.type, alarm.confidence),
                      verdict'.origin = "rules", verdict'.severity = "critical"
               PROVE  /\ escalated'
                      /\ Cardinality(Recent(seen'[alarm.site])) >= Threshold
                      /\ alarm.type \notin CriticalTypes => seen' = seen
    OBVIOUS
  <2>1. SettledWith(ByRules(alarm)) /\ alarm \in Alarms
    BY DecidedBy DEF AssessmentInv, AssessmentTypeOK
  <2>2. Evaluate(alarm.site, RuleSeverity(alarm)) /\ verdict' = Raising(ByRules(alarm))
    BY <2>1 DEF SettledWith, ByRules
  <2>3. alarm.site \in Sites /\ RuleSeverity(alarm) \in Severity
    BY <2>1, SeverityOfRules DEF Alarms
  <2>4. /\ RuleSeverity(alarm) # "critical"
        /\ alarm.type \notin CriticalTypes => RuleSeverity(alarm) = "info"
    BY <2>1, GuessIsMild
  <2>5. escalated'
    BY <2>2, <2>4 DEF Raising, ByRules
  <2>6. Cardinality(Recent(seen'[alarm.site])) >= Threshold
    BY <2>2, <2>3, <2>5, EscalatesExactly
  <2>7. alarm.type \notin CriticalTypes => seen' = seen
    BY <2>2, <2>4 DEF Evaluate
  <2> QED  BY <2>5, <2>6, <2>7
<1> QED  BY <1>1, InvHolds, PTL DEF GuessNeedsPattern, AssessmentSpec

(* For all bounds and prices, whatever the API answers the published       *)
(* verdict fits the dashboard.                                             *)
THEOREM VerdictAlwaysFits == AssessmentSpec => []VerdictFits
<1>1. AssessmentInv => VerdictFits
  BY DEF AssessmentInv
<1> QED  BY <1>1, InvHolds, PTL

(* A reply that keeps the schema and says something is replaced by the     *)
(* rules' fallback exactly if its usage raises; otherwise it is used and   *)
(* never made milder, with any counts of tokens.                           *)
THEOREM GoodReplyNeverLost == AssessmentSpec => GoodReplyIsUsed
<1> DEFINE Used(reply) ==
             IF reply.usage.shape \in UsageErrors THEN verdict'.origin = "rules"
             ELSE /\ verdict'.origin = "llm"
                  /\ NoWorse(reply.severity.word, verdict'.severity)
                  /\ verdict'.overrode <=> reply.severity.word # RuleSeverity(alarm)
           GoodIsUsed ==
             \A reply \in Replies :
               /\ ConformsToSchema(reply)
               /\ reply.summary > 0 /\ reply.recommended_action > 0
               /\ AnsweredWith(reply)
               => Used(reply)
<1>1. AssessmentInv => GoodIsUsed
  <2> SUFFICES ASSUME AssessmentInv, NEW reply \in Replies, ConformsToSchema(reply),
                      reply.summary > 0, reply.recommended_action > 0, AnsweredWith(reply)
               PROVE  Used(reply)
    BY Zenon
  <2>1. reply \in Reply /\ alarm # NoAlarm
    BY AssessmentAssumption DEF AnsweredWith
  <2>2. CASE reply.usage.shape \in UsageErrors
    <3>1. SettledWith(ByRules(alarm))
      BY <2>2 DEF AnsweredWith, Extracts
    <3>2. verdict' = Raising(ByRules(alarm))
      BY <3>1 DEF SettledWith
    <3>3. verdict'.origin = "rules"
      BY <3>2 DEF Raising, ByRules
    <3> QED  BY <2>2, <3>3
  <2>3. CASE reply.usage.shape \notin UsageErrors
    <3>1. Extracts(reply)
      BY <2>3 DEF Extracts, Validates, ConformsToSchema
    <3>2. PICK decided \in ByModel(alarm, reply) : SettledWith(decided)
      BY <3>1 DEF AnsweredWith
    <3>3. /\ verdict'.origin = "llm"
          /\ verdict'.severity = IF escalated' THEN "critical" ELSE reply.severity.word
          /\ verdict'.overrode <=> reply.severity.word # RuleSeverity(alarm)
      BY <2>1, <3>1, <3>2, SettledByModelFits
    <3>4. NoWorse(reply.severity.word, verdict'.severity)
      BY <3>3 DEF NoWorse
    <3> QED  BY <2>3, <3>3, <3>4, Zenon
  <2> QED  BY <2>2, <2>3
<1>2. AssessmentInv => [GoodIsUsed]_assessmentVars
  BY <1>1
<1> QED  BY <1>2, InvHolds, PTL DEF GoodReplyIsUsed

=============================================================================
