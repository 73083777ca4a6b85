------------------------- MODULE PairMatcherProofs -------------------------
(***************************************************************************)
(* Proofs about PairMatcher, for every set of keys (infinite ones too),     *)
(* every window, eviction period and flush size.                            *)
(***************************************************************************)
EXTENDS PairMatcher, FiniteSetTheorems, TLAPS

----------------------------------------------------------------------------
(* Facts about the pending maps.                                            *)

PendingType == [Endpoint -> [Key -> Time \cup {None}]]

USE DEF Endpoint

\* The other endpoint is an endpoint, and not the same one.
LEMMA OtherFacts ==
  ASSUME NEW e \in Endpoint
  PROVE  /\ Other(e) \in Endpoint
         /\ Other(e) # e
         /\ \A f \in Endpoint : f = e \/ f = Other(e)
  BY DEF Other

\* The cutoff is a natural number and does not fall when the mark rises.
LEMMA CutoffFacts ==
  ASSUME NEW a \in Nat, NEW b \in Nat, a <= b
  PROVE  /\ Cutoff(a) \in Nat
         /\ Cutoff(a) <= Cutoff(b)
         /\ \A s \in Nat : s < Cutoff(a) <=> s + Window < a
  BY WindowAssumption DEF Cutoff

\* Raising the high water mark keeps it a slot and never lowers it.
LEMMA RaisedFacts ==
  ASSUME NEW k \in Key, high_water_slot \in Nat
  PROVE  /\ Raised(SlotOf[k]) \in Nat
         /\ high_water_slot <= Raised(SlotOf[k])
  BY KeyAssumption DEF Raised

\* One eviction pass removes exactly the stale entries of both maps.
LEMMA SweepFacts ==
  ASSUME NEW p \in PendingType, NEW c \in Nat,
         NEW e \in Endpoint, IsFiniteSet(Held(p, e))
  PROVE  /\ Swept(p, c) \in PendingType
         /\ \A k \in Key : Swept(p, c)[e][k] = IF k \in Stale(p, e, c) THEN None ELSE p[e][k]
         /\ Held(Swept(p, c), e) = Held(p, e) \ Stale(p, e, c)
         /\ IsFiniteSet(Held(Swept(p, c), e))
         /\ IsFiniteSet(Stale(p, e, c))
         /\ Cardinality(Stale(p, e, c)) \in Nat
         /\ Cardinality(Held(Swept(p, c), e)) + Cardinality(Stale(p, e, c))
              = Cardinality(Held(p, e))
         /\ Stale(Swept(p, c), e, c) = {}
<1>1. Swept(p, c) \in PendingType
  BY DEF Swept, PendingType
<1>2. \A k \in Key : Swept(p, c)[e][k] = IF k \in Stale(p, e, c) THEN None ELSE p[e][k]
  BY DEF Swept
<1>3. Held(Swept(p, c), e) = Held(p, e) \ Stale(p, e, c)
  BY <1>2 DEF Held, Stale
<1>4. Stale(p, e, c) \in SUBSET Held(p, e)
  BY DEF Stale
<1>5. IsFiniteSet(Stale(p, e, c)) /\ IsFiniteSet(Held(Swept(p, c), e))
  BY <1>3, <1>4, FS_Subset
<1>6. /\ Cardinality(Stale(p, e, c)) \in Nat
      /\ Cardinality(Held(p, e)) \in Nat
  BY <1>5, FS_CardinalityType
<1>7. Cardinality(Held(p, e) \ Stale(p, e, c))
        = Cardinality(Held(p, e)) - Cardinality(Held(p, e) \cap Stale(p, e, c))
  BY FS_Difference, <1>5
<1>8. Held(p, e) \cap Stale(p, e, c) = Stale(p, e, c)
  BY <1>4
<1>9. Stale(Swept(p, c), e, c) = {}
  BY <1>3 DEF Stale
<1>10. Cardinality(Held(Swept(p, c), e)) + Cardinality(Stale(p, e, c))
         = Cardinality(Held(p, e))
  BY <1>3, <1>6, <1>7, <1>8
<1>11. QED
  BY <1>1, <1>2, <1>3, <1>5, <1>6, <1>9, <1>10

----------------------------------------------------------------------------
(* The pass `observe` may run before it looks for the partner.              *)

SweptBy(k) ==
  IF PassDue THEN Swept(pending, Cutoff(Raised(SlotOf[k]))) ELSE pending
EvictedAt(k) ==
  IF PassDue THEN EvictedBy(pending, Cutoff(Raised(SlotOf[k]))) ELSE evicted
CutoffAt(k) == IF PassDue THEN Cutoff(Raised(SlotOf[k])) ELSE last_cutoff
CountAt == IF PassDue THEN 0 ELSE obs_count + 1

\* The pass keeps the maps well formed and takes out stale entries only.
LEMMA SweptByFacts ==
  ASSUME TypeOK, NEW k \in Key, NEW e \in Endpoint
  PROVE  /\ SweptBy(k) \in PendingType
         /\ IsFiniteSet(Held(SweptBy(k), e))
         /\ Cardinality(Held(SweptBy(k), e)) \in Nat
         /\ \A j \in Key : SweptBy(k)[e][j] # None => SweptBy(k)[e][j] = pending[e][j]
         /\ \A j \in Held(pending, e) :
              SlotOf[j] >= Cutoff(Raised(SlotOf[k])) => j \in Held(SweptBy(k), e)
         /\ CutoffAt(k) \in Nat
         /\ CountAt \in 0..(EvictEvery - 1)
<1> DEFINE c == Cutoff(Raised(SlotOf[k]))
<1>1. /\ pending \in PendingType
      /\ IsFiniteSet(Held(pending, e))
      /\ last_cutoff \in Nat
      /\ obs_count \in 0..(EvictEvery - 1)
  BY DEF TypeOK, PendingType
<1>2. c \in Nat
  BY RaisedFacts, CutoffFacts DEF TypeOK
<1>3. CutoffAt(k) \in Nat
  BY <1>1, <1>2 DEF CutoffAt
<1>4. CountAt \in 0..(EvictEvery - 1)
  BY <1>1, EvictEveryAssumption DEF CountAt, PassDue
<1>5. CASE PassDue
  <2>1. SweptBy(k) = Swept(pending, c)
    BY <1>5 DEF SweptBy
  <2> HIDE DEF c
  <2>2. /\ Swept(pending, c) \in PendingType
        /\ IsFiniteSet(Held(Swept(pending, c), e))
        /\ \A j \in Key : Swept(pending, c)[e][j]
             = IF j \in Stale(pending, e, c) THEN None ELSE pending[e][j]
        /\ Held(Swept(pending, c), e) = Held(pending, e) \ Stale(pending, e, c)
    <3>1. pending \in PendingType /\ IsFiniteSet(Held(pending, e)) /\ c \in Nat
      BY <1>1, <1>2
    <3> HIDE DEF Endpoint
    <3>2. QED
      BY <3>1, SweepFacts
  <2>3. \A j \in Held(pending, e) : SlotOf[j] >= c => j \notin Stale(pending, e, c)
    BY <1>2, KeyAssumption DEF Stale, Held
  <2>4. \A j \in Key : SweptBy(k)[e][j] # None => SweptBy(k)[e][j] = pending[e][j]
    BY <2>1, <2>2
  <2>5. \A j \in Held(pending, e) : SlotOf[j] >= c => j \in Held(SweptBy(k), e)
    BY <2>1, <2>2, <2>3
  <2>6. Cardinality(Held(SweptBy(k), e)) \in Nat
    BY <2>1, <2>2, FS_CardinalityType
  <2>7. QED
    BY <2>1, <2>2, <2>4, <2>5, <2>6, <1>3, <1>4 DEF c
<1>6. CASE ~PassDue
  <2>1. SweptBy(k) = pending
    BY <1>6 DEF SweptBy
  <2>2. QED
    BY <2>1, <1>1, <1>3, <1>4, FS_CardinalityType
<1>7. QED
  BY <1>5, <1>6

\* What the pass takes out of an endpoint's map, it adds to its counter.
LEMMA SweptByCounts ==
  ASSUME TypeOK, NEW k \in Key, NEW e \in Endpoint
  PROVE  /\ EvictedAt(k) \in [Endpoint -> Nat]
         /\ EvictedAt(k)[e] + Cardinality(Held(SweptBy(k), e))
              = evicted[e] + Cardinality(Held(pending, e))
<1> DEFINE c == Cutoff(Raised(SlotOf[k]))
<1>1. /\ pending \in PendingType
      /\ \A f \in Endpoint : IsFiniteSet(Held(pending, f))
      /\ evicted \in [Endpoint -> Nat]
  BY DEF TypeOK, PendingType
<1>2. c \in Nat
  BY RaisedFacts, CutoffFacts DEF TypeOK
<1> HIDE DEF c
<1>3. \A f \in Endpoint :
        /\ Cardinality(Stale(pending, f, c)) \in Nat
        /\ Cardinality(Held(Swept(pending, c), f)) + Cardinality(Stale(pending, f, c))
             = Cardinality(Held(pending, f))
        /\ Cardinality(Held(Swept(pending, c), f)) \in Nat
        /\ Cardinality(Held(pending, f)) \in Nat
  BY <1>1, <1>2, SweepFacts, FS_CardinalityType
<1>4. CASE PassDue
  <2>1. EvictedAt(k) = EvictedBy(pending, c) /\ SweptBy(k) = Swept(pending, c)
    BY <1>4 DEF EvictedAt, SweptBy, c
  <2>2. EvictedBy(pending, c) \in [Endpoint -> Nat]
    BY <1>1, <1>3 DEF EvictedBy
  <2>3. EvictedBy(pending, c)[e] = evicted[e] + Cardinality(Stale(pending, e, c))
    BY DEF EvictedBy
  <2>4. QED
    BY <2>1, <2>2, <2>3, <1>1, <1>3
<1>5. CASE ~PassDue
  BY <1>5, <1>1 DEF EvictedAt, SweptBy
<1>6. QED
  BY <1>4, <1>5

\* Right after the pass nothing is below its cutoff; between passes the bound
\* grows by one per call.
LEMMA SweptByStale ==
  ASSUME TypeOK, BoundedStale, NEW k \in Key
  PROVE  /\ \A e \in Endpoint : IsFiniteSet(Stale(SweptBy(k), e, CutoffAt(k)))
         /\ Cardinality(Stale(SweptBy(k), 1, CutoffAt(k)))
              + Cardinality(Stale(SweptBy(k), 2, CutoffAt(k))) <= CountAt
<1> DEFINE c == Cutoff(Raised(SlotOf[k]))
<1>1. /\ pending \in PendingType
      /\ \A f \in Endpoint : IsFiniteSet(Held(pending, f))
      /\ last_cutoff \in Nat
      /\ obs_count \in Nat
  BY DEF TypeOK, PendingType
<1>2. c \in Nat
  BY RaisedFacts, CutoffFacts DEF TypeOK
<1>3. CASE PassDue
  <2>1. SweptBy(k) = Swept(pending, c) /\ CutoffAt(k) = c /\ CountAt = 0
    BY <1>3 DEF SweptBy, CutoffAt, CountAt
  <2> HIDE DEF c
  <2>2. \A f \in Endpoint : Stale(Swept(pending, c), f, c) = {}
    BY <1>1, <1>2, SweepFacts
  <2>3. Stale(SweptBy(k), 1, CutoffAt(k)) = {} /\ Stale(SweptBy(k), 2, CutoffAt(k)) = {}
    BY <2>1, <2>2
  <2>4. QED
    BY <2>1, <2>3, FS_EmptySet
<1>4. CASE ~PassDue
  <2>1. SweptBy(k) = pending /\ CutoffAt(k) = last_cutoff /\ CountAt = obs_count + 1
    BY <1>4 DEF SweptBy, CutoffAt, CountAt
  <2>2. \A f \in Endpoint : IsFiniteSet(Stale(pending, f, last_cutoff))
    BY <1>1, SweepFacts
  <2>3. QED
    BY <2>1, <2>2 DEF BoundedStale
<1>5. QED
  BY <1>3, <1>4

----------------------------------------------------------------------------
(* A call of `observe` preserves the invariant.                             *)

\* The parts of `observe` shared by a match and a hold.
ObserveFrame(e, k) ==
  /\ ~reported
  /\ high_water_slot' = Raised(SlotOf[k])
  /\ obs_count' = CountAt
  /\ evicted' = EvictedAt(k)
  /\ last_cutoff' = CutoffAt(k)
  /\ observed' = [observed EXCEPT ![e] = @ + 1]
  /\ seen' = [seen EXCEPT ![e] = @ \cup {k}]
  /\ UNCHANGED reported

LEMMA ObserveSplit ==
  ASSUME NEW e \in Endpoint, NEW k \in Key, NEW t \in Time, Observe(e, k, t)
  PROVE  /\ ObserveFrame(e, k)
         /\ Match(e, k, t, SweptBy(k)) \/ Hold(e, k, t, SweptBy(k))
  BY DEF Observe, ObserveFrame, SweptBy, EvictedAt, CutoffAt, CountAt

\* How a match changes the pending maps.
LEMMA MatchPending ==
  ASSUME TypeOK, NEW e \in Endpoint, NEW k \in Key, NEW t \in Time,
         Match(e, k, t, SweptBy(k))
  PROVE  /\ pending' \in PendingType
         /\ Held(pending', e) = Held(SweptBy(k), e)
         /\ Held(pending', Other(e)) = Held(SweptBy(k), Other(e)) \ {k}
         /\ k \in Held(SweptBy(k), Other(e))
<1>1. SweptBy(k) \in PendingType /\ Other(e) \in Endpoint /\ Other(e) # e
  BY SweptByFacts, OtherFacts
<1>2. pending' = [SweptBy(k) EXCEPT ![Other(e)][k] = None]
  BY DEF Match
<1>3. pending' \in PendingType
  BY <1>1, <1>2 DEF PendingType
<1>4. \A j \in Key : /\ pending'[e][j] = SweptBy(k)[e][j]
                     /\ pending'[Other(e)][j]
                          = IF j = k THEN None ELSE SweptBy(k)[Other(e)][j]
  BY <1>1, <1>2 DEF PendingType
<1>5. k \in Held(SweptBy(k), Other(e))
  BY DEF Match, Held
<1>6. QED
  BY <1>3, <1>4, <1>5 DEF Held

\* How a hold changes them.
LEMMA HoldPending ==
  ASSUME TypeOK, NEW e \in Endpoint, NEW k \in Key, NEW t \in Time,
         Hold(e, k, t, SweptBy(k))
  PROVE  /\ pending' \in PendingType
         /\ Held(pending', e) = Held(SweptBy(k), e) \cup {k}
         /\ Held(pending', Other(e)) = Held(SweptBy(k), Other(e))
         /\ k \notin Held(SweptBy(k), Other(e))
<1>1. SweptBy(k) \in PendingType /\ Other(e) \in Endpoint /\ Other(e) # e
  BY SweptByFacts, OtherFacts
<1>2. pending' = [SweptBy(k) EXCEPT ![e][k] = t]
  BY DEF Hold
<1>3. t # None
  BY TimeAssumption DEF None
<1>4. pending' \in PendingType
  BY <1>1, <1>2 DEF PendingType
<1>5. \A j \in Key : /\ pending'[e][j] = IF j = k THEN t ELSE SweptBy(k)[e][j]
                     /\ pending'[Other(e)][j] = SweptBy(k)[Other(e)][j]
  BY <1>1, <1>2 DEF PendingType
<1>6. k \notin Held(SweptBy(k), Other(e))
  BY DEF Hold, Held
<1>7. QED
  BY <1>3, <1>4, <1>5, <1>6 DEF Held

\* The merge of a full buffer keeps the sample count.
LEMMA PushDeltaFacts ==
  ASSUME TypeOK, PushDelta
  PROVE  /\ buffer' \in 0..(BufferFlush - 1)
         /\ digest' \in Nat
         /\ buffer' + digest' = buffer + digest + 1
  BY BufferFlushAssumption DEF TypeOK, PushDelta

\* A timestamp comparison names at most one winner.
LEMMA WinnersFacts ==
  ASSUME NEW e \in Endpoint, NEW a, NEW b
  PROVE  ~(1 \in Winners(e, a, b) /\ 2 \in Winners(e, a, b))
  BY DEF Winners, Other

LEMMA ObserveType ==
  ASSUME TypeOK, NEW e \in Endpoint, NEW k \in Key, NEW t \in Time, Observe(e, k, t)
  PROVE  TypeOK'
<1>1. ObserveFrame(e, k) /\ (Match(e, k, t, SweptBy(k)) \/ Hold(e, k, t, SweptBy(k)))
  BY ObserveSplit
<1>2. /\ high_water_slot' \in Nat
      /\ obs_count' \in 0..(EvictEvery - 1)
      /\ last_cutoff' \in Nat
      /\ evicted' \in [Endpoint -> Nat]
      /\ observed' \in [Endpoint -> Nat]
      /\ seen' \in [Endpoint -> SUBSET Key]
      /\ reported' \in BOOLEAN
  BY <1>1, SweptByFacts, SweptByCounts, RaisedFacts DEF ObserveFrame, TypeOK
<1>3. \A f \in Endpoint : IsFiniteSet(Held(SweptBy(k), f))
  BY SweptByFacts
<1>4. CASE Match(e, k, t, SweptBy(k))
  <2>1. pending' \in PendingType
    BY <1>4, MatchPending
  <2>2. \A f \in Endpoint : IsFiniteSet(Held(pending', f))
    BY <1>3, <1>4, MatchPending, FS_RemoveElement, OtherFacts
  <2>3. buffer' \in 0..(BufferFlush - 1) /\ digest' \in Nat
    BY <1>4, PushDeltaFacts DEF Match
  <2>4. /\ matched' \in Nat
        /\ faster' \in [Endpoint -> Nat]
        /\ overwritten' \in [Endpoint -> Nat]
        /\ paired' \in SUBSET Key
    BY <1>4 DEF Match, TypeOK
  <2>5. QED
    BY <1>2, <2>1, <2>2, <2>3, <2>4 DEF TypeOK, PendingType
<1>5. CASE Hold(e, k, t, SweptBy(k))
  <2>1. pending' \in PendingType
    BY <1>5, HoldPending
  <2>2. \A f \in Endpoint : IsFiniteSet(Held(pending', f))
    BY <1>3, <1>5, HoldPending, FS_AddElement, OtherFacts
  <2>3. /\ UNCHANGED <<buffer, digest, matched, faster, paired>>
        /\ overwritten' \in [Endpoint -> Nat]
    BY <1>5 DEF Hold, TypeOK
  <2>4. QED
    BY <1>2, <2>1, <2>2, <2>3 DEF TypeOK, PendingType
<1>6. QED
  BY <1>1, <1>4, <1>5

LEMMA ObserveConservation ==
  ASSUME TypeOK, Conservation, NEW e \in Endpoint, NEW k \in Key, NEW t \in Time,
         Observe(e, k, t)
  PROVE  Conservation'
<1>1. ObserveFrame(e, k) /\ (Match(e, k, t, SweptBy(k)) \/ Hold(e, k, t, SweptBy(k)))
  BY ObserveSplit
<1> DEFINE h(f) == Cardinality(Held(SweptBy(k), f))
<1>2. \A f \in Endpoint :
        /\ h(f) \in Nat
        /\ IsFiniteSet(Held(SweptBy(k), f))
        /\ EvictedAt(k)[f] \in Nat
        /\ observed[f] = matched + h(f) + EvictedAt(k)[f] + overwritten[f]
  <2> SUFFICES ASSUME NEW f \in Endpoint
               PROVE  /\ h(f) \in Nat
                      /\ IsFiniteSet(Held(SweptBy(k), f))
                      /\ EvictedAt(k)[f] \in Nat
                      /\ observed[f] = matched + h(f) + EvictedAt(k)[f] + overwritten[f]
    OBVIOUS
  <2>1. h(f) \in Nat /\ IsFiniteSet(Held(SweptBy(k), f))
    BY SweptByFacts
  <2>2. EvictedAt(k)[f] \in Nat
    BY SweptByCounts
  <2>3. EvictedAt(k)[f] + h(f) = evicted[f] + Cardinality(Held(pending, f))
    BY SweptByCounts
  <2>4. observed[f] = matched + Cardinality(Held(pending, f)) + evicted[f] + overwritten[f]
    BY DEF Conservation
  <2>5. Cardinality(Held(pending, f)) \in Nat
    BY FS_CardinalityType DEF TypeOK
  <2>6. matched \in Nat /\ evicted[f] \in Nat /\ overwritten[f] \in Nat /\ observed[f] \in Nat
    BY DEF TypeOK
  <2> HIDE DEF h
  <2>7. QED
    BY <2>1, <2>2, <2>3, <2>4, <2>5, <2>6
<1>3. Other(e) \in Endpoint /\ Other(e) # e /\ \A f \in Endpoint : f = e \/ f = Other(e)
  BY OtherFacts
<1>4. /\ observed'[e] = observed[e] + 1
      /\ observed'[Other(e)] = observed[Other(e)]
      /\ evicted' = EvictedAt(k)
  BY <1>1, <1>3 DEF ObserveFrame, TypeOK
<1>5. CASE Match(e, k, t, SweptBy(k))
  <2>1. Cardinality(Held(pending', e)) = h(e)
    BY <1>5, MatchPending
  <2>2. Cardinality(Held(pending', Other(e))) = h(Other(e)) - 1
    BY <1>5, <1>2, <1>3, MatchPending, FS_RemoveElement
  <2>3. matched' = matched + 1 /\ overwritten' = overwritten
    BY <1>5 DEF Match
  <2>4. /\ matched \in Nat
        /\ \A f \in Endpoint : observed[f] \in Nat /\ overwritten[f] \in Nat
    BY DEF TypeOK
  <2> HIDE DEF h
  <2>5. observed'[e]
          = matched' + Cardinality(Held(pending', e)) + evicted'[e] + overwritten'[e]
    BY <1>2, <1>4, <2>1, <2>2, <2>3, <2>4
  <2>6. observed'[Other(e)] = matched' + Cardinality(Held(pending', Other(e)))
          + evicted'[Other(e)] + overwritten'[Other(e)]
    BY <1>2, <1>3, <1>4, <2>1, <2>2, <2>3, <2>4
  <2>7. QED
    BY <1>3, <2>5, <2>6 DEF Conservation
<1>6. CASE Hold(e, k, t, SweptBy(k))
  <2>1. Cardinality(Held(pending', Other(e))) = h(Other(e))
    BY <1>6, HoldPending
  <2>2. Cardinality(Held(pending', e))
          = IF k \in Held(SweptBy(k), e) THEN h(e) ELSE h(e) + 1
    BY <1>6, <1>2, HoldPending, FS_AddElement
  <2>3. /\ overwritten'[e] = IF k \in Held(SweptBy(k), e) THEN overwritten[e] + 1
                                                         ELSE overwritten[e]
        /\ overwritten'[Other(e)] = overwritten[Other(e)]
        /\ matched' = matched
    BY <1>6, <1>3 DEF Hold, Held, TypeOK
  <2>4. /\ matched \in Nat
        /\ \A f \in Endpoint : observed[f] \in Nat /\ overwritten[f] \in Nat
    BY DEF TypeOK
  <2> HIDE DEF h
  <2>5. observed'[e]
          = matched' + Cardinality(Held(pending', e)) + evicted'[e] + overwritten'[e]
    BY <1>2, <1>4, <2>1, <2>2, <2>3, <2>4
  <2>6. observed'[Other(e)] = matched' + Cardinality(Held(pending', Other(e)))
          + evicted'[Other(e)] + overwritten'[Other(e)]
    BY <1>2, <1>3, <1>4, <2>1, <2>2, <2>3, <2>4
  <2>7. QED
    BY <1>3, <2>5, <2>6 DEF Conservation
<1>7. QED
  BY <1>1, <1>5, <1>6

\* A key still waits at one endpoint only: what a match leaves and what a hold
\* adds are both on the side where the partner is not.
LEMMA ObserveOneSide ==
  ASSUME TypeOK, OneSidePerKey,
         NEW e \in Endpoint, NEW k \in Key, NEW t \in Time, Observe(e, k, t)
  PROVE  OneSidePerKey'
<1>1. Match(e, k, t, SweptBy(k)) \/ Hold(e, k, t, SweptBy(k))
  BY ObserveSplit
<1>2. ASSUME NEW f \in Endpoint
      PROVE  Held(SweptBy(k), f) \subseteq Held(pending, f)
  <2>1. \A j \in Key : SweptBy(k)[f][j] # None => SweptBy(k)[f][j] = pending[f][j]
    BY SweptByFacts
  <2>2. QED
    BY <2>1 DEF Held
<1>3. \A j \in Key : ~(j \in Held(SweptBy(k), e) /\ j \in Held(SweptBy(k), Other(e)))
  <2>1. Other(e) \in Endpoint
    BY OtherFacts
  <2>2. /\ Held(SweptBy(k), e) \subseteq Held(pending, e)
        /\ Held(SweptBy(k), Other(e)) \subseteq Held(pending, Other(e))
    BY <1>2, <2>1
  <2>3. \A j \in Key : ~(j \in Held(pending, e) /\ j \in Held(pending, Other(e)))
    BY DEF OneSidePerKey, Other
  <2>4. QED
    BY <2>2, <2>3
<1>4. \A j \in Key : ~(j \in Held(pending', e) /\ j \in Held(pending', Other(e)))
  BY <1>1, <1>3, MatchPending, HoldPending
<1>5. QED
  BY <1>4 DEF OneSidePerKey, Other

LEMMA ObserveSamples ==
  ASSUME TypeOK, SamplePerMatch,
         NEW e \in Endpoint, NEW k \in Key, NEW t \in Time, Observe(e, k, t)
  PROVE  SamplePerMatch'
<1>1. Match(e, k, t, SweptBy(k)) \/ Hold(e, k, t, SweptBy(k))
  BY ObserveSplit
<1>2. /\ buffer \in Nat /\ digest \in Nat /\ matched \in Nat
      /\ faster \in [Endpoint -> Nat]
  BY DEF TypeOK
<1>3. CASE Match(e, k, t, SweptBy(k))
  <2> DEFINE w == Winners(e, t, SweptBy(k)[Other(e)][k])
  <2>1. buffer' + digest' = buffer + digest + 1 /\ matched' = matched + 1
    BY <1>3, PushDeltaFacts DEF Match
  <2>2. faster' = [f \in Endpoint |-> IF f \in w THEN faster[f] + 1 ELSE faster[f]]
    BY <1>3 DEF Match
  <2>3. ~(1 \in w /\ 2 \in w)
    BY WinnersFacts
  <2> HIDE DEF w
  <2>4. /\ faster'[1] = IF 1 \in w THEN faster[1] + 1 ELSE faster[1]
        /\ faster'[2] = IF 2 \in w THEN faster[2] + 1 ELSE faster[2]
    BY <2>2
  <2>5. faster'[1] + faster'[2] <= matched'
    BY <1>2, <2>1, <2>3, <2>4 DEF SamplePerMatch
  <2>6. QED
    BY <1>2, <2>1, <2>5 DEF SamplePerMatch
<1>4. CASE Hold(e, k, t, SweptBy(k))
  BY <1>4 DEF Hold, SamplePerMatch
<1>5. QED
  BY <1>1, <1>3, <1>4

\* A key leaves its endpoint's map by being paired or by the pass, and the
\* pass takes nothing at or above the cutoff.
LEMMA ObserveWaits ==
  ASSUME TypeOK, WaitsInWindow,
         NEW e \in Endpoint, NEW k \in Key, NEW t \in Time, Observe(e, k, t)
  PROVE  WaitsInWindow'
<1>1. ObserveFrame(e, k) /\ (Match(e, k, t, SweptBy(k)) \/ Hold(e, k, t, SweptBy(k)))
  BY ObserveSplit
<1> DEFINE c == Cutoff(Raised(SlotOf[k]))
<1>2. c \in Nat /\ Cutoff(high_water_slot) \in Nat /\ Cutoff(high_water_slot) <= c
  BY RaisedFacts, CutoffFacts DEF TypeOK
<1>3. Cutoff(high_water_slot)' = c
  BY <1>1 DEF ObserveFrame, Cutoff
<1>4. \A f \in Endpoint : \A j \in Held(pending, f) :
        SlotOf[j] >= c => j \in Held(SweptBy(k), f)
  BY SweptByFacts
<1>5. \A f \in Endpoint : \A j \in seen'[f] : j \in seen[f] \/ (f = e /\ j = k)
  BY <1>1 DEF ObserveFrame, TypeOK
<1>6. \A j \in Key : SlotOf[j] \in Nat
  BY KeyAssumption
<1>7. \A f \in Endpoint : seen[f] \subseteq Key
  BY DEF TypeOK
<1> HIDE DEF c
<1>8. \A f \in Endpoint : \A j \in seen[f] :
        j \in Held(SweptBy(k), f) \/ j \in paired \/ SlotOf[j] < c
  BY <1>2, <1>4, <1>6, <1>7 DEF WaitsInWindow
<1>9. CASE Match(e, k, t, SweptBy(k))
  <2>1. paired' = paired \cup {k}
    BY <1>9 DEF Match
  <2>2. \A f \in Endpoint : Held(SweptBy(k), f) \subseteq Held(pending', f) \cup {k}
    BY <1>9, MatchPending, OtherFacts
  <2>3. \A f \in Endpoint : \A j \in seen'[f] :
          j \in Held(pending', f) \/ j \in paired' \/ SlotOf[j] < c
    BY <1>5, <1>8, <2>1, <2>2
  <2>4. QED
    BY <1>3, <2>3 DEF WaitsInWindow
<1>10. CASE Hold(e, k, t, SweptBy(k))
  <2>1. paired' = paired
    BY <1>10 DEF Hold
  <2>2. \A f \in Endpoint : Held(SweptBy(k), f) \subseteq Held(pending', f)
    BY <1>10, HoldPending, OtherFacts
  <2>3. k \in Held(pending', e)
    BY <1>10, HoldPending
  <2>4. \A f \in Endpoint : \A j \in seen'[f] :
          j \in Held(pending', f) \/ j \in paired' \/ SlotOf[j] < c
    BY <1>5, <1>8, <2>1, <2>2, <2>3
  <2>5. QED
    BY <1>3, <2>4 DEF WaitsInWindow
<1>11. QED
  BY <1>1, <1>9, <1>10

\* One call adds at most one entry below the cutoff of the latest pass.
LEMMA ObserveBounded ==
  ASSUME TypeOK, BoundedStale,
         NEW e \in Endpoint, NEW k \in Key, NEW t \in Time, Observe(e, k, t)
  PROVE  BoundedStale'
<1>1. ObserveFrame(e, k) /\ (Match(e, k, t, SweptBy(k)) \/ Hold(e, k, t, SweptBy(k)))
  BY ObserveSplit
<1> DEFINE S(f) == Stale(SweptBy(k), f, CutoffAt(k))
           T(f) == Stale(pending', f, CutoffAt(k))
<1>2. /\ \A f \in Endpoint : IsFiniteSet(S(f))
      /\ Cardinality(S(1)) + Cardinality(S(2)) <= CountAt
  BY SweptByStale
<1>3. CountAt \in Nat
  BY SweptByFacts
<1>4. last_cutoff' = CutoffAt(k) /\ obs_count' = CountAt
  BY <1>1 DEF ObserveFrame
<1>5. T(Other(e)) \subseteq S(Other(e)) /\ T(e) \subseteq S(e) \cup {k}
  BY <1>1, MatchPending, HoldPending DEF Stale
<1>6. Other(e) \in Endpoint
  BY OtherFacts
<1> HIDE DEF S, T
<1>7. /\ Cardinality(T(Other(e))) <= Cardinality(S(Other(e)))
      /\ IsFiniteSet(T(Other(e)))
  BY <1>2, <1>5, <1>6, FS_Subset
<1>8. /\ IsFiniteSet(S(e) \cup {k})
      /\ Cardinality(S(e) \cup {k}) \in Nat
      /\ Cardinality(S(e) \cup {k}) <= Cardinality(S(e)) + 1
  <2>1. IsFiniteSet(S(e)) /\ Cardinality(S(e)) \in Nat
    BY <1>2, FS_CardinalityType
  <2>2. /\ IsFiniteSet(S(e) \cup {k})
        /\ Cardinality(S(e) \cup {k})
             = IF k \in S(e) THEN Cardinality(S(e)) ELSE Cardinality(S(e)) + 1
    BY <2>1, FS_AddElement
  <2>3. QED
    BY <2>1, <2>2
<1>9. Cardinality(T(e)) <= Cardinality(S(e) \cup {k}) /\ IsFiniteSet(T(e))
  BY <1>5, <1>8, FS_Subset
<1>10. \A f \in Endpoint : Cardinality(S(f)) \in Nat /\ Cardinality(T(f)) \in Nat
  BY <1>2, <1>7, <1>9, FS_CardinalityType, OtherFacts
<1>11. Cardinality(T(1)) + Cardinality(T(2)) <= CountAt + 1
  <2>1. Cardinality(T(e)) + Cardinality(T(Other(e))) <= CountAt + 1
    <3>1. Cardinality(S(e)) + Cardinality(S(Other(e))) <= CountAt
      BY <1>2, <1>10 DEF Other
    <3>2. QED
      BY <3>1, <1>3, <1>6, <1>7, <1>8, <1>9, <1>10
  <2>2. QED
    BY <2>1, <1>10 DEF Other
<1>12. QED
  BY <1>4, <1>11 DEF BoundedStale, T

LEMMA ObserveStep ==
  ASSUME IInv, NEW e \in Endpoint, NEW k \in Key, NEW t \in Time, Observe(e, k, t)
  PROVE  IInv'
<1>1. ReportExact'
  BY DEF Observe, ReportExact
<1>2. QED
  BY <1>1, ObserveType, ObserveConservation, ObserveOneSide, ObserveSamples,
     ObserveWaits, ObserveBounded DEF IInv

----------------------------------------------------------------------------
(* The final summary preserves the invariant.                               *)

LEMMA SummariseStep ==
  ASSUME IInv, Summarise
  PROVE  IInv'
<1> DEFINE c == Cutoff(high_water_slot)
<1>1. /\ pending \in PendingType
      /\ \A f \in Endpoint : IsFiniteSet(Held(pending, f))
      /\ c \in Nat
      /\ TypeOK
  BY CutoffFacts DEF IInv, TypeOK, PendingType
<1>2. /\ pending' = Swept(pending, c)
      /\ evicted' = EvictedBy(pending, c)
      /\ last_cutoff' = c
      /\ digest' = digest + buffer /\ buffer' = 0
      /\ UNCHANGED <<high_water_slot, obs_count, matched, faster, observed,
                     overwritten, seen, paired>>
  BY DEF Summarise
<1>3. c' = c
  BY <1>2 DEF Cutoff
<1> HIDE DEF c
<1>4. \A f \in Endpoint :
        /\ pending' \in PendingType
        /\ Held(pending', f) = Held(pending, f) \ Stale(pending, f, c)
        /\ IsFiniteSet(Held(pending', f))
        /\ Stale(pending', f, c) = {}
        /\ Cardinality(Stale(pending, f, c)) \in Nat
        /\ Cardinality(Held(pending', f)) + Cardinality(Stale(pending, f, c))
             = Cardinality(Held(pending, f))
        /\ Cardinality(Held(pending, f)) \in Nat
        /\ Cardinality(Held(pending', f)) \in Nat
  <2> SUFFICES ASSUME NEW f \in Endpoint
               PROVE  /\ pending' \in PendingType
                      /\ Held(pending', f) = Held(pending, f) \ Stale(pending, f, c)
                      /\ IsFiniteSet(Held(pending', f))
                      /\ Stale(pending', f, c) = {}
                      /\ Cardinality(Stale(pending, f, c)) \in Nat
                      /\ Cardinality(Held(pending', f)) + Cardinality(Stale(pending, f, c))
                           = Cardinality(Held(pending, f))
                      /\ Cardinality(Held(pending, f)) \in Nat
                      /\ Cardinality(Held(pending', f)) \in Nat
    OBVIOUS
  <2>1. pending \in PendingType /\ IsFiniteSet(Held(pending, f)) /\ c \in Nat
    BY <1>1
  <2>2. pending' = Swept(pending, c)
    BY <1>2
  <2> HIDE DEF Endpoint
  <2>3. /\ Swept(pending, c) \in PendingType
        /\ Held(Swept(pending, c), f) = Held(pending, f) \ Stale(pending, f, c)
        /\ IsFiniteSet(Held(Swept(pending, c), f))
        /\ Stale(Swept(pending, c), f, c) = {}
        /\ Cardinality(Stale(pending, f, c)) \in Nat
        /\ Cardinality(Held(Swept(pending, c), f)) + Cardinality(Stale(pending, f, c))
             = Cardinality(Held(pending, f))
    BY <2>1, SweepFacts
  <2>4. Cardinality(Held(pending, f)) \in Nat /\ Cardinality(Held(pending', f)) \in Nat
    BY <2>1, <2>2, <2>3, FS_CardinalityType
  <2>5. QED
    BY <2>2, <2>3, <2>4
<1>5. \A f \in Endpoint : evicted'[f] = evicted[f] + Cardinality(Stale(pending, f, c))
  BY <1>2 DEF EvictedBy
<1>6. evicted' \in [Endpoint -> Nat]
  BY <1>1, <1>2, <1>4 DEF EvictedBy, TypeOK
<1>7. TypeOK'
  <2>1. reported' \in BOOLEAN
    BY DEF Summarise
  <2>2. buffer' \in 0..(BufferFlush - 1) /\ digest' \in Nat
    BY <1>1, <1>2, BufferFlushAssumption DEF TypeOK
  <2>3. pending' \in PendingType /\ \A f \in Endpoint : IsFiniteSet(Held(pending', f))
    BY <1>4
  <2>4. QED
    BY <1>1, <1>2, <1>6, <2>1, <2>2, <2>3 DEF TypeOK, PendingType
<1>8. OneSidePerKey'
  BY <1>4 DEF IInv, OneSidePerKey
<1>9. Conservation'
  <2> SUFFICES ASSUME NEW f \in Endpoint
               PROVE  observed'[f] = matched' + Cardinality(Held(pending', f))
                                       + evicted'[f] + overwritten'[f]
    BY DEF Conservation
  <2>1. observed[f] = matched + Cardinality(Held(pending, f)) + evicted[f] + overwritten[f]
    BY DEF IInv, Conservation
  <2>2. matched \in Nat /\ evicted[f] \in Nat /\ overwritten[f] \in Nat
    BY <1>1 DEF TypeOK
  <2>3. QED
    BY <1>2, <1>4, <1>5, <2>1, <2>2
<1>10. SamplePerMatch'
  BY <1>1, <1>2 DEF IInv, SamplePerMatch, TypeOK
<1>11. WaitsInWindow'
  <2>1. \A f \in Endpoint : \A j \in Held(pending, f) :
          j \in Held(pending', f) \/ SlotOf[j] < c
    BY <1>4 DEF Stale
  <2>2. \A f \in Endpoint : \A j \in seen[f] :
          j \in Held(pending, f) \/ j \in paired \/ SlotOf[j] < c
    BY DEF IInv, WaitsInWindow, c
  <2>3. \A f \in Endpoint : \A j \in seen'[f] :
          j \in Held(pending', f) \/ j \in paired' \/ SlotOf[j] < c
    BY <1>2, <2>1, <2>2
  <2>4. QED
    BY <1>3, <2>3 DEF WaitsInWindow, c
<1>12. BoundedStale'
  <2>1. Stale(pending', 1, last_cutoff') = {} /\ Stale(pending', 2, last_cutoff') = {}
    BY <1>2, <1>4
  <2>2. obs_count' \in Nat
    BY <1>7 DEF TypeOK
  <2>3. QED
    BY <2>1, <2>2, FS_EmptySet DEF BoundedStale
<1>13. ReportExact'
  <2>1. \A f \in Endpoint : Stale(pending', f, c') = {}
    BY <1>3, <1>4
  <2>2. digest' = matched'
    BY <1>1, <1>2 DEF IInv, SamplePerMatch, TypeOK
  <2>3. QED
    BY <2>1, <2>2 DEF ReportExact, c
<1>14. QED
  BY <1>7, <1>8, <1>9, <1>10, <1>11, <1>12, <1>13 DEF IInv

----------------------------------------------------------------------------
(* The theorems.                                                            *)

LEMMA InitInvariant == Init => IInv
<1> SUFFICES ASSUME Init PROVE IInv
  OBVIOUS
<1>1. \A e \in Endpoint : Held(pending, e) = {} /\ \A c : Stale(pending, e, c) = {}
  BY DEF Init, Held, Stale
<1>2. IsFiniteSet({}) /\ Cardinality({}) = 0
  BY FS_EmptySet
<1>3. TypeOK
  <2>1. \A e \in Endpoint : IsFiniteSet(Held(pending, e))
    BY <1>1, <1>2
  <2>2. pending \in [Endpoint -> [Key -> Time \cup {None}]]
    BY DEF Init
  <2>3. obs_count \in 0..(EvictEvery - 1) /\ buffer \in 0..(BufferFlush - 1)
    BY EvictEveryAssumption, BufferFlushAssumption DEF Init
  <2>4. QED
    BY <2>1, <2>2, <2>3 DEF Init, TypeOK
<1>4. Conservation /\ BoundedStale
  BY <1>1, <1>2 DEF Init, Conservation, BoundedStale
<1>5. OneSidePerKey /\ SamplePerMatch /\ WaitsInWindow /\ ReportExact
  BY <1>1 DEF Init, OneSidePerKey, SamplePerMatch, WaitsInWindow, ReportExact
<1>6. QED
  BY <1>3, <1>4, <1>5 DEF IInv

LEMMA NextInvariant == IInv /\ [Next]_vars => IInv'
<1> SUFFICES ASSUME IInv, [Next]_vars PROVE IInv'
  OBVIOUS
<1>1. CASE \E e \in Endpoint, k \in Key, t \in Time : Observe(e, k, t)
  BY <1>1, ObserveStep
<1>2. CASE Summarise
  BY <1>2, SummariseStep
<1>3. CASE UNCHANGED vars
  <2> USE <1>3 DEF vars, codeVars, histVars, IInv
  <2>1. TypeOK'
    BY DEF TypeOK
  <2>2. OneSidePerKey' /\ Conservation' /\ SamplePerMatch'
    BY DEF OneSidePerKey, Conservation, SamplePerMatch, Held
  <2>3. WaitsInWindow'
    BY DEF WaitsInWindow, Held, Cutoff
  <2>4. BoundedStale' /\ ReportExact'
    BY DEF BoundedStale, ReportExact, Held, Stale, Cutoff
  <2>5. QED
    BY <2>1, <2>2, <2>3, <2>4
<1>4. QED
  BY <1>1, <1>2, <1>3 DEF Next

\* The conjunction of all invariants is preserved by every order of calls.
THEOREM Invariance == Spec => []IInv
  BY InitInvariant, NextInvariant, PTL DEF Spec

\* Every variable of the matcher keeps its type; the sample buffer stays below
\* its flush size and the pending maps stay finite.
THEOREM TypeCorrect == Spec => []TypeOK
<1>1. IInv => TypeOK
  BY DEF IInv
<1>2. QED
  BY <1>1, Invariance, PTL

\* No key is pending at both endpoints, whatever the order of the calls.
THEOREM OneSide == Spec => []OneSidePerKey
<1>1. IInv => OneSidePerKey
  BY DEF IInv
<1>2. QED
  BY <1>1, Invariance, PTL

\* Each observation is matched, waiting, evicted or overwritten, exactly once.
THEOREM Conserved == Spec => []Conservation
<1>1. IInv => Conservation
  BY DEF IInv
<1>2. QED
  BY <1>1, Invariance, PTL

\* The digest holds one sample per match once the buffer is flushed.
THEOREM Sampled == Spec => []SamplePerMatch
<1>1. IInv => SamplePerMatch
  BY DEF IInv
<1>2. QED
  BY <1>1, Invariance, PTL

\* A key delivered by both endpoints is paired unless it left the window.
THEOREM Complete == Spec => []NoMissedPair
<1>1. IInv => NoMissedPair
  <2> SUFFICES ASSUME IInv, NEW k \in seen[1] \cap seen[2], k \notin paired,
                      ~(SlotOf[k] < Cutoff(high_water_slot))
               PROVE  FALSE
    BY DEF NoMissedPair
  <2>1. k \in Held(pending, 1) /\ k \in Held(pending, 2)
    BY DEF IInv, WaitsInWindow
  <2>2. k \in Key
    BY DEF IInv, TypeOK
  <2>3. QED
    BY <2>1, <2>2 DEF IInv, OneSidePerKey
<1>2. QED
  BY <1>1, Invariance, PTL

\* Entries below the latest cutoff number at most the calls since its pass.
THEOREM Bounded == Spec => []BoundedStale
<1>1. IInv => BoundedStale
  BY DEF IInv
<1>2. QED
  BY <1>1, Invariance, PTL

\* The summary leaves nothing evictable pending and no sample unmerged.
THEOREM Exact == Spec => []ReportExact
<1>1. IInv => ReportExact
  BY DEF IInv
<1>2. QED
  BY <1>1, Invariance, PTL

----------------------------------------------------------------------------
(* The action property and the refinement.                                  *)

\* How `observe` and the summary change what is held, in the terms of both.
LEMMA ObserveLeaves ==
  ASSUME TypeOK, NEW e \in Endpoint, NEW k \in Key, NEW t \in Time, Observe(e, k, t)
  PROVE  \A f \in Endpoint : \A j \in Held(pending, f) :
           \/ j \in Held(pending', f)
           \/ SlotOf[j] < Cutoff(high_water_slot')
           \/ f = Other(e) /\ j = k /\ Match(e, k, t, SweptBy(k))
<1>1. ObserveFrame(e, k) /\ (Match(e, k, t, SweptBy(k)) \/ Hold(e, k, t, SweptBy(k)))
  BY ObserveSplit
<1>2. Cutoff(Raised(SlotOf[k])) \in Nat /\ \A j \in Key : SlotOf[j] \in Nat
  BY RaisedFacts, CutoffFacts, KeyAssumption DEF TypeOK
<1>3. \A f \in Endpoint : \A j \in Held(pending, f) :
        j \in Held(SweptBy(k), f) \/ SlotOf[j] < Cutoff(Raised(SlotOf[k]))
  <2>1. \A f \in Endpoint : \A j \in Held(pending, f) :
          SlotOf[j] >= Cutoff(Raised(SlotOf[k])) => j \in Held(SweptBy(k), f)
    BY SweptByFacts
  <2>2. \A f \in Endpoint : \A j \in Held(pending, f) : j \in Key
    BY DEF Held
  <2>3. QED
    BY <1>2, <2>1, <2>2
<1>4. high_water_slot' = Raised(SlotOf[k])
  BY <1>1 DEF ObserveFrame
<1>5. CASE Match(e, k, t, SweptBy(k))
  <2>1. \A f \in Endpoint : \A j \in Held(SweptBy(k), f) :
          j \in Held(pending', f) \/ (f = Other(e) /\ j = k)
    BY <1>5, MatchPending, OtherFacts
  <2>2. QED
    BY <1>3, <1>4, <1>5, <2>1
<1>6. CASE Hold(e, k, t, SweptBy(k))
  <2>1. \A f \in Endpoint : Held(SweptBy(k), f) \subseteq Held(pending', f)
    BY <1>6, HoldPending, OtherFacts
  <2>2. QED
    BY <1>3, <1>4, <2>1
<1>7. QED
  BY <1>1, <1>5, <1>6

LEMMA SummariseLeaves ==
  ASSUME TypeOK, Summarise
  PROVE  /\ \A f \in Endpoint : /\ Held(pending', f) \subseteq Held(pending, f)
                                /\ \A j \in Held(pending', f) : pending'[f][j] = pending[f][j]
         /\ \A f \in Endpoint : \A j \in Held(pending, f) :
              j \in Held(pending', f) \/ SlotOf[j] < Cutoff(high_water_slot')
<1> DEFINE c == Cutoff(high_water_slot)
<1>1. /\ pending \in PendingType
      /\ \A f \in Endpoint : IsFiniteSet(Held(pending, f))
      /\ c \in Nat
  BY CutoffFacts DEF TypeOK, PendingType
<1>2. pending' = Swept(pending, c) /\ high_water_slot' = high_water_slot
  BY DEF Summarise
<1> HIDE DEF c
<1>3. \A f \in Endpoint :
        /\ Held(pending', f) = Held(pending, f) \ Stale(pending, f, c)
        /\ \A j \in Key : pending'[f][j]
             = IF j \in Stale(pending, f, c) THEN None ELSE pending[f][j]
  <2> SUFFICES ASSUME NEW f \in Endpoint
               PROVE  /\ Held(Swept(pending, c), f) = Held(pending, f) \ Stale(pending, f, c)
                      /\ \A j \in Key : Swept(pending, c)[f][j]
                           = IF j \in Stale(pending, f, c) THEN None ELSE pending[f][j]
    BY <1>2
  <2>1. pending \in PendingType /\ IsFiniteSet(Held(pending, f)) /\ c \in Nat
    BY <1>1
  <2> HIDE DEF Endpoint
  <2>2. QED
    BY <2>1, SweepFacts
<1>4. QED
  BY <1>2, <1>3 DEF Stale, Held, c

\* An entry inside the window leaves the maps only through a match.
THEOREM LeavesByMatch == Spec => InWindowLeavesByMatch
<1> DEFINE left == {x \in Endpoint \X Key :
                      /\ x[2] \in Held(pending, x[1]) \ Held(pending', x[1])
                      /\ SlotOf[x[2]] + Window >= high_water_slot'}
<1>1. TypeOK /\ [Next]_vars => Cardinality(left) <= matched' - matched \/ UNCHANGED vars
  <2> SUFFICES ASSUME TypeOK, Next PROVE Cardinality(left) <= matched' - matched
    OBVIOUS
  <2>1. /\ matched \in Nat
        /\ \A j \in Key : SlotOf[j] \in Nat
        /\ Window \in Nat
    BY KeyAssumption, WindowAssumption DEF TypeOK
  <2>2. ASSUME NEW e \in Endpoint, NEW k \in Key, NEW t \in Time, Observe(e, k, t)
        PROVE  Cardinality(left) <= matched' - matched
    <3>1. high_water_slot' \in Nat
      BY <2>2, ObserveType DEF TypeOK
    <3>2. \A j \in Key : SlotOf[j] < Cutoff(high_water_slot')
            => ~(SlotOf[j] + Window >= high_water_slot')
      BY <2>1, <3>1, CutoffFacts
    <3>3. \A x \in left : /\ x = <<Other(e), k>>
                          /\ Match(e, k, t, SweptBy(k))
      <4> SUFFICES ASSUME NEW f \in Endpoint, NEW j \in Key, <<f, j>> \in left
                   PROVE  /\ <<f, j>> = <<Other(e), k>>
                          /\ Match(e, k, t, SweptBy(k))
        OBVIOUS
      <4>1. /\ j \in Held(pending, f) /\ j \notin Held(pending', f)
            /\ SlotOf[j] + Window >= high_water_slot'
        OBVIOUS
      <4>2. QED
        BY <2>2, <3>2, <4>1, ObserveLeaves
    <3> HIDE DEF left
    <3>4. CASE left = {}
      <4>1. matched' = matched \/ matched' = matched + 1
        BY <2>2, ObserveSplit DEF Match, Hold
      <4>2. Cardinality(left) = 0
        BY <3>4, FS_EmptySet
      <4>3. QED
        BY <2>1, <4>1, <4>2
    <3>5. CASE left # {}
      <4>1. left = {<<Other(e), k>>} /\ matched' = matched + 1
        BY <3>3, <3>5 DEF Match
      <4>2. Cardinality(left) = 1
        BY <4>1, FS_Singleton
      <4>3. QED
        BY <2>1, <4>1, <4>2
    <3>6. QED
      BY <3>4, <3>5
  <2>3. CASE Summarise
    <3>1. high_water_slot' \in Nat /\ matched' = matched
      BY <2>3 DEF Summarise, TypeOK
    <3>2. \A j \in Key : SlotOf[j] < Cutoff(high_water_slot')
            => ~(SlotOf[j] + Window >= high_water_slot')
      BY <2>1, <3>1, CutoffFacts
    <3>3. left = {}
      BY <2>3, <3>2, SummariseLeaves
    <3> HIDE DEF left
    <3>4. QED
      BY <2>1, <3>1, <3>3, FS_EmptySet
  <2>4. QED
    BY <2>2, <2>3 DEF Next
<1>2. QED
  BY <1>1, TypeCorrect, PTL DEF Spec, InWindowLeavesByMatch

\* The abstract waiting sets change as the maps do.
LEMMA WaitingFacts ==
  ASSUME NEW p, NEW e \in Endpoint
  PROVE  \A a : a \in Waiting(p)[e] <=> \E j \in Held(p, e) : a = <<j, p[e][j]>>
  BY DEF Waiting

\* An abstract arrival is forgotten only below the horizon or as the partner.
LEMMA ObserveImplements ==
  ASSUME TypeOK, NEW e \in Endpoint, NEW k \in Key, NEW t \in Time, Observe(e, k, t)
  PROVE  Abstract!Hold(e, k, t) \/ Abstract!Pair(e, k, t)
<1>1. ObserveFrame(e, k) /\ (Match(e, k, t, SweptBy(k)) \/ Hold(e, k, t, SweptBy(k)))
  BY ObserveSplit
<1>2. /\ SweptBy(k) \in PendingType
      /\ Other(e) \in Endpoint /\ Other(e) # e /\ Abstract!Other(e) = Other(e)
      /\ \A f \in Endpoint : f = e \/ f = Other(e)
  BY SweptByFacts, OtherFacts DEF Abstract!Other, Other
<1>3. \A f \in Endpoint : \A j \in Held(SweptBy(k), f) :
        j \in Held(pending, f) /\ SweptBy(k)[f][j] = pending[f][j]
  <2> SUFFICES ASSUME NEW f \in Endpoint, NEW j \in Held(SweptBy(k), f)
               PROVE  j \in Held(pending, f) /\ SweptBy(k)[f][j] = pending[f][j]
    OBVIOUS
  <2>1. \A i \in Key : SweptBy(k)[f][i] # None => SweptBy(k)[f][i] = pending[f][i]
    BY SweptByFacts
  <2>2. QED
    BY <2>1 DEF Held
<1>4. \A f \in Endpoint : \A j \in Held(pending, f) :
        \/ j \in Held(pending', f)
        \/ SlotOf[j] < Cutoff(high_water_slot')
        \/ f = Other(e) /\ j = k /\ Match(e, k, t, SweptBy(k))
  BY ObserveLeaves
<1>5. \A f \in Endpoint : \A a :
        /\ a \in Waiting(pending)[f] <=> \E j \in Held(pending, f) : a = <<j, pending[f][j]>>
        /\ a \in Waiting(pending')[f] <=> \E j \in Held(pending', f) : a = <<j, pending'[f][j]>>
  BY WaitingFacts
<1>6. CASE Hold(e, k, t, SweptBy(k))
  <2>1. /\ Held(pending', e) = Held(SweptBy(k), e) \cup {k}
        /\ Held(pending', Other(e)) = Held(SweptBy(k), Other(e))
        /\ k \notin Held(SweptBy(k), Other(e))
    BY <1>6, HoldPending
  <2>2. pending' = [SweptBy(k) EXCEPT ![e][k] = t]
    BY <1>6 DEF Hold
  <2>3. \A j \in Key : /\ pending'[e][j] = IF j = k THEN t ELSE SweptBy(k)[e][j]
                       /\ pending'[Other(e)][j] = SweptBy(k)[Other(e)][j]
    BY <1>2, <2>2 DEF PendingType
  <2>4. \A f \in Endpoint : Held(SweptBy(k), f) \subseteq Key
    BY DEF Held
  <2>5. <<k, t>> \in Waiting(pending')[e]
    BY <1>5, <2>1, <2>3
  <2>6. Waiting(pending')[e] \subseteq Waiting(pending)[e] \cup {<<k, t>>}
    BY <1>3, <1>5, <2>1, <2>3, <2>4
  <2>7. /\ Waiting(pending')[Other(e)] \subseteq Waiting(pending)[Other(e)]
        /\ \A a \in Waiting(pending')[Other(e)] : a[1] # k
    BY <1>2, <1>3, <1>5, <2>1, <2>3, <2>4
  <2>8. \A a \in Waiting(pending)[e] \ (Waiting(pending')[e]
                                          \cup {b \in Waiting(pending)[e] : b[1] = k}) :
          SlotOf[a[1]] < Cutoff(high_water_slot')
    <3> SUFFICES ASSUME NEW j \in Held(pending, e), j # k,
                        <<j, pending[e][j]>> \notin Waiting(pending')[e]
                 PROVE  SlotOf[j] < Cutoff(high_water_slot')
      BY <1>5
    <3>1. j \in Held(pending', e) => pending'[e][j] = pending[e][j]
      BY <1>3, <2>1, <2>3, <2>4
    <3>2. QED
      BY <1>2, <1>4, <1>5, <3>1
  <2>9. \A a \in Waiting(pending)[Other(e)] \ (Waiting(pending')[Other(e)] \cup {}) :
          SlotOf[a[1]] < Cutoff(high_water_slot')
    <3> SUFFICES ASSUME NEW j \in Held(pending, Other(e)),
                        <<j, pending[Other(e)][j]>> \notin Waiting(pending')[Other(e)]
                 PROVE  SlotOf[j] < Cutoff(high_water_slot')
      BY <1>2, <1>5
    <3>1. j \in Held(pending', Other(e)) => pending'[Other(e)][j] = pending[Other(e)][j]
      BY <1>2, <1>3, <2>1, <2>3, <2>4
    <3>2. ~Match(e, k, t, SweptBy(k))
      BY <1>6 DEF Hold, Match
    <3>3. QED
      BY <1>2, <1>4, <1>5, <3>1, <3>2
  <2>10. UNCHANGED <<matched, faster>>
    BY <1>6 DEF Hold
  <2>11. Abstract!Hold(e, k, t)
    BY <1>2, <2>5, <2>6, <2>7, <2>8, <2>9, <2>10 DEF Abstract!Hold, Abstract!Forgets
  <2>12. QED
    BY <2>11
<1>7. CASE Match(e, k, t, SweptBy(k))
  <2> DEFINE a == <<k, SweptBy(k)[Other(e)][k]>>
  <2>1. /\ Held(pending', e) = Held(SweptBy(k), e)
        /\ Held(pending', Other(e)) = Held(SweptBy(k), Other(e)) \ {k}
        /\ k \in Held(SweptBy(k), Other(e))
    BY <1>7, MatchPending
  <2>2. pending' = [SweptBy(k) EXCEPT ![Other(e)][k] = None]
    BY <1>7 DEF Match
  <2>3. \A j \in Key : /\ pending'[e][j] = SweptBy(k)[e][j]
                       /\ j # k => pending'[Other(e)][j] = SweptBy(k)[Other(e)][j]
    BY <1>2, <2>2 DEF PendingType
  <2>4. \A f \in Endpoint : Held(SweptBy(k), f) \subseteq Key
    BY DEF Held
  <2>5. a \in Waiting(pending)[Other(e)] /\ a[1] = k
    BY <1>2, <1>3, <1>5, <2>1
  <2>6. Waiting(pending')[Other(e)] \subseteq Waiting(pending)[Other(e)] \ {a}
    BY <1>2, <1>3, <1>5, <2>1, <2>3, <2>4
  <2>7. Waiting(pending')[e] \subseteq Waiting(pending)[e]
    BY <1>3, <1>5, <2>1, <2>3, <2>4
  <2>8. \A b \in Waiting(pending)[e] \ (Waiting(pending')[e] \cup {}) :
          SlotOf[b[1]] < Cutoff(high_water_slot')
    <3> SUFFICES ASSUME NEW j \in Held(pending, e),
                        <<j, pending[e][j]>> \notin Waiting(pending')[e]
                 PROVE  SlotOf[j] < Cutoff(high_water_slot')
      BY <1>5
    <3>1. j \in Held(pending', e) => pending'[e][j] = pending[e][j]
      BY <1>3, <2>1, <2>3, <2>4
    <3>2. QED
      BY <1>2, <1>4, <1>5, <3>1
  <2>9. \A b \in Waiting(pending)[Other(e)] \ (Waiting(pending')[Other(e)] \cup {a}) :
          SlotOf[b[1]] < Cutoff(high_water_slot')
    <3> SUFFICES ASSUME NEW j \in Held(pending, Other(e)),
                        <<j, pending[Other(e)][j]>> \notin Waiting(pending')[Other(e)],
                        <<j, pending[Other(e)][j]>> # a
                 PROVE  SlotOf[j] < Cutoff(high_water_slot')
      BY <1>2, <1>5
    <3>1. j # k
      BY <1>2, <1>3, <2>1
    <3>2. j \in Held(pending', Other(e)) => pending'[Other(e)][j] = pending[Other(e)][j]
      BY <1>2, <1>3, <2>1, <2>3, <2>4, <3>1
    <3>3. QED
      BY <1>2, <1>4, <1>5, <3>1, <3>2
  <2>10. matched' = matched + 1
    BY <1>7 DEF Match
  <2>11. faster' = [f \in Endpoint |->
           IF (f = e /\ t < a[2]) \/ (f # e /\ a[2] < t) THEN faster[f] + 1 ELSE faster[f]]
    <3>1. SweptBy(k)[Other(e)][k] \in Nat /\ t \in Nat
      BY <1>2, <2>1, TimeAssumption DEF PendingType, Held
    <3>2. \A f \in Endpoint : f \in Winners(e, t, SweptBy(k)[Other(e)][k])
            <=> (f = e /\ t < a[2]) \/ (f # e /\ a[2] < t)
      BY <1>2, <3>1 DEF Winners
    <3>3. QED
      BY <1>7, <3>2 DEF Match
  <2> HIDE DEF a
  <2>12. Abstract!Pair(e, k, t)
    BY <1>2, <2>5, <2>6, <2>7, <2>8, <2>9, <2>10, <2>11
       DEF Abstract!Pair, Abstract!Forgets, Abstract!Endpoint
  <2>13. QED
    BY <2>12
<1>8. QED
  BY <1>1, <1>6, <1>7

LEMMA SummariseImplements ==
  ASSUME TypeOK, Summarise
  PROVE  Abstract!Forget
<1>1. \A f \in Endpoint : \A a :
        /\ a \in Waiting(pending)[f] <=> \E j \in Held(pending, f) : a = <<j, pending[f][j]>>
        /\ a \in Waiting(pending')[f] <=> \E j \in Held(pending', f) : a = <<j, pending'[f][j]>>
  BY WaitingFacts
<1>2. \A f \in Endpoint : Waiting(pending')[f] \subseteq Waiting(pending)[f]
  BY <1>1, SummariseLeaves
<1>3. \A f \in Endpoint : \A a \in Waiting(pending)[f] \ (Waiting(pending')[f] \cup {}) :
        SlotOf[a[1]] < Cutoff(high_water_slot')
  <2> SUFFICES ASSUME NEW f \in Endpoint, NEW j \in Held(pending, f),
                      <<j, pending[f][j]>> \notin Waiting(pending')[f]
               PROVE  SlotOf[j] < Cutoff(high_water_slot')
    BY <1>1
  <2>1. QED
    BY <1>1, SummariseLeaves
<1>4. UNCHANGED <<matched, faster>>
  BY DEF Summarise
<1>5. QED
  BY <1>2, <1>3, <1>4 DEF Abstract!Forget, Abstract!Forgets, Abstract!Endpoint

\* The matcher implements the abstract pairing: every call of `observe` is an
\* abstract arrival that waits or pairs, and the summary only forgets.
THEOREM Refinement == Spec => ImplementsPairing
<1>1. Init => Abstract!Init
  <2> SUFFICES ASSUME Init PROVE Abstract!Init
    OBVIOUS
  <2>1. Waiting(pending) = [e \in Endpoint |-> {}]
    BY DEF Init, Waiting, Held
  <2>2. Cutoff(high_water_slot) = 0
    BY WindowAssumption DEF Init, Cutoff
  <2>3. QED
    BY <2>1, <2>2 DEF Init, Abstract!Init, Abstract!Endpoint
<1>2. TypeOK /\ TypeOK' /\ [Next]_vars => [Abstract!Next]_(Abstract!vars)
  <2> SUFFICES ASSUME TypeOK, TypeOK', [Next]_vars
               PROVE  [Abstract!Next]_(Abstract!vars)
    OBVIOUS
  <2>1. ASSUME high_water_slot <= high_water_slot'
        PROVE  Cutoff(high_water_slot)' >= Cutoff(high_water_slot)
    <3>1. Cutoff(high_water_slot)' = Cutoff(high_water_slot')
      BY DEF Cutoff
    <3>2. /\ high_water_slot \in Nat /\ high_water_slot' \in Nat
      BY DEF TypeOK
    <3>3. /\ Cutoff(high_water_slot) \in Nat /\ Cutoff(high_water_slot') \in Nat
          /\ Cutoff(high_water_slot) <= Cutoff(high_water_slot')
      BY <2>1, <3>2, CutoffFacts
    <3>4. QED
      BY <3>1, <3>3
  <2>2. ASSUME NEW e \in Endpoint, NEW k \in Key, NEW t \in Time, Observe(e, k, t)
        PROVE  Abstract!Next
    <3>1. Abstract!Hold(e, k, t) \/ Abstract!Pair(e, k, t)
      BY <2>2, ObserveImplements
    <3>2. high_water_slot <= high_water_slot'
      BY RaisedFacts, <2>2 DEF Observe, TypeOK
    <3>3. QED
      BY <2>1, <3>1, <3>2 DEF Abstract!Next, Abstract!Endpoint
  <2>3. CASE Summarise
    <3>1. Abstract!Forget
      BY <2>3, SummariseImplements
    <3>2. high_water_slot <= high_water_slot'
      BY <2>3 DEF Summarise, TypeOK
    <3>3. QED
      BY <2>1, <3>1, <3>2 DEF Abstract!Next
  <2>4. CASE UNCHANGED vars
    BY <2>4 DEF vars, codeVars, Abstract!vars, Waiting, Held, Cutoff
  <2>5. QED
    BY <2>2, <2>3, <2>4 DEF Next
<1>3. QED
  BY <1>1, <1>2, TypeCorrect, PTL DEF Spec, ImplementsPairing, Abstract!Spec

============================================================================
