---------------------------- MODULE PairMatcher ----------------------------
(***************************************************************************)
(* The identity matcher of src/src/matching/mod.rs: the single-threaded     *)
(* core that pairs the arrival of one event at endpoint 1 with the arrival  *)
(* of the same event at endpoint 2.  Its callers hold a mutex (slots,       *)
(* transactions, blocks) or a DashMap shard lock (accounts) for the whole   *)
(* call, so one call of `observe` is one step; the two dispatcher threads   *)
(* decide the order of the calls, so any order of calls is a behaviour.     *)
(*                                                                          *)
(* Every caller's key contains the slot it passes (AccountKey, TxKey,       *)
(* BlockKey and the bare slot of SlotMatcher), so the slot is a function of *)
(* the key.  A delta matters here only by its sign, so the t-digest and the *)
(* buffer in front of it are the number of samples they hold.  The policy   *)
(* is SlotWindow, the only one the program constructs.                      *)
(***************************************************************************)
EXTENDS Integers, FiniteSets

CONSTANTS
  Key,          \* identity tuples
  SlotOf,       \* the slot inside each key
  Time,         \* arrival timestamps (mono_ns)
  Window,       \* SlotWindow { window }
  EvictEvery,   \* EVICT_EVERY
  BufferFlush,  \* TDIGEST_BUFFER_FLUSH
  MaxObs        \* bound: calls of `observe` per endpoint

ASSUME KeyAssumption == SlotOf \in [Key -> Nat]
ASSUME TimeAssumption == Time \subseteq Nat
ASSUME WindowAssumption == Window \in Nat
ASSUME EvictEveryAssumption == EvictEvery \in Nat \ {0}
ASSUME BufferFlushAssumption == BufferFlush \in Nat \ {0}
ASSUME MaxObsAssumption == MaxObs \in Nat

VARIABLES
  pending,          \* pending_ep1, pending_ep2: arrival time, or None
  high_water_slot,
  obs_count,        \* modulo EvictEvery, the only way the code reads it
  buffer,           \* samples waiting for a merge
  digest,           \* samples merged into the t-digest
  matched,
  faster,           \* ep1_faster, ep2_faster
  evicted,          \* ep1_unmatched_evicted, ep2_unmatched_evicted
  reported,         \* the summary has been taken: nothing observes any more
  \* History variables, read by no action.
  observed,         \* calls of `observe` per endpoint
  overwritten,      \* entries replaced by a later one with the same key
  last_cutoff,      \* the cutoff of the latest eviction pass
  seen,             \* keys each endpoint has delivered
  paired            \* keys with at least one match

codeVars == <<pending, high_water_slot, obs_count, buffer, digest, matched,
              faster, evicted, reported>>
histVars == <<observed, overwritten, last_cutoff, seen, paired>>
vars == <<codeVars, histVars>>

Endpoint == {1, 2}
Other(e) == 3 - e
None == -1

----------------------------------------------------------------------------
(* Helpers of the code.                                                     *)

\* `high_water_slot.saturating_sub(window)`
Cutoff(hw) == IF hw > Window THEN hw - Window ELSE 0

\* `if slot > self.high_water_slot { self.high_water_slot = slot }`
Raised(slot) == IF slot > high_water_slot THEN slot ELSE high_water_slot

Held(p, e) == {k \in Key : p[e][k] # None}

\* Variant: the retain test is `>` instead of `>=`.
StaleAtEdge(p, e, cutoff) == {k \in Held(p, e) : SlotOf[k] <= cutoff}

\* What one `evict` pass takes out, and what it leaves.
Stale(p, e, cutoff) == {k \in Held(p, e) : SlotOf[k] < cutoff}
\* Variant: only the first map is swept.
SweptOneSide(p, cutoff) ==
  [p EXCEPT ![1] = [k \in Key |-> IF k \in Stale(p, 1, cutoff) THEN None ELSE p[1][k]]]
Swept(p, cutoff) ==
  [e \in Endpoint |-> [k \in Key |->
     IF k \in Stale(p, e, cutoff) THEN None ELSE p[e][k]]]
EvictedBy(p, cutoff) ==
  [e \in Endpoint |-> evicted[e] + Cardinality(Stale(p, e, cutoff))]

\* This call of `observe` is the EvictEvery-th since the last pass.
PassDue == obs_count + 1 = EvictEvery

\* `push_delta`: the buffer is merged as soon as it is full.
PushDelta ==
  IF buffer + 1 >= BufferFlush
  THEN buffer' = 0 /\ digest' = digest + buffer + 1
  ELSE buffer' = buffer + 1 /\ UNCHANGED digest

\* Variant: the sign of the delta is read the other way round.
WinnersSwapped(e, mine, theirs) ==
  IF mine > theirs THEN {e} ELSE IF mine < theirs THEN {Other(e)} ELSE {}

\* `delta_ns = ep2 - ep1`; a tie favours nobody.
Winners(e, mine, theirs) ==
  IF mine < theirs THEN {e} ELSE IF mine > theirs THEN {Other(e)} ELSE {}

----------------------------------------------------------------------------
(* Operations.                                                              *)

Init ==
  /\ pending = [e \in Endpoint |-> [k \in Key |-> None]]
  /\ high_water_slot = 0
  /\ obs_count = 0
  /\ buffer = 0
  /\ digest = 0
  /\ matched = 0
  /\ faster = [e \in Endpoint |-> 0]
  /\ evicted = [e \in Endpoint |-> 0]
  /\ reported = FALSE
  /\ observed = [e \in Endpoint |-> 0]
  /\ overwritten = [e \in Endpoint |-> 0]
  /\ last_cutoff = 0
  /\ seen = [e \in Endpoint |-> {}]
  /\ paired = {}

\* Variant: the partner is read with `get` instead of `remove`.
MatchKeepingPartner(e, k, t, swept) ==
  /\ swept[Other(e)][k] # None
  /\ pending' = swept
  /\ PushDelta
  /\ matched' = matched + 1
  /\ faster' = [f \in Endpoint |->
       IF f \in Winners(e, t, swept[Other(e)][k]) THEN faster[f] + 1 ELSE faster[f]]
  /\ paired' = paired \cup {k}
  /\ UNCHANGED overwritten

\* The opposite endpoint holds the key: take its entry and record the delta.
Match(e, k, t, swept) ==
  /\ swept[Other(e)][k] # None
  /\ pending' = [swept EXCEPT ![Other(e)][k] = None]
  /\ PushDelta
  /\ matched' = matched + 1
  /\ faster' = [f \in Endpoint |->
       IF f \in Winners(e, t, swept[Other(e)][k]) THEN faster[f] + 1 ELSE faster[f]]
  /\ paired' = paired \cup {k}
  /\ UNCHANGED overwritten

\* Variant: the event is held without looking at the other map.
HoldUnchecked(e, k, t, swept) ==
  /\ pending' = [swept EXCEPT ![e][k] = t]
  /\ overwritten' = [overwritten EXCEPT ![e] = IF swept[e][k] # None THEN @ + 1 ELSE @]
  /\ UNCHANGED <<buffer, digest, matched, faster, paired>>

\* It does not: hold the event, replacing an earlier one with the same key.
Hold(e, k, t, swept) ==
  /\ swept[Other(e)][k] = None
  /\ pending' = [swept EXCEPT ![e][k] = t]
  /\ overwritten' = [overwritten EXCEPT ![e] = IF swept[e][k] # None THEN @ + 1 ELSE @]
  /\ UNCHANGED <<buffer, digest, matched, faster, paired>>

\* `observe`: raise the high water mark, run the batched eviction pass if it
\* is due, and only then look for the partner.
Observe(e, k, t) ==
  LET cutoff == Cutoff(Raised(SlotOf[k]))
      swept == IF PassDue THEN Swept(pending, cutoff) ELSE pending
  IN /\ ~reported
     /\ observed[e] < MaxObs
     /\ high_water_slot' = Raised(SlotOf[k])
     /\ obs_count' = IF PassDue THEN 0 ELSE obs_count + 1
     /\ evicted' = IF PassDue THEN EvictedBy(pending, cutoff) ELSE evicted
     /\ last_cutoff' = IF PassDue THEN cutoff ELSE last_cutoff
     /\ Match(e, k, t, swept) \/ Hold(e, k, t, swept)
     /\ observed' = [observed EXCEPT ![e] = @ + 1]
     /\ seen' = [seen EXCEPT ![e] = @ \cup {k}]
     /\ UNCHANGED reported

\* Variant: the summary does not run the last pass.
SummariseUnswept ==
  /\ ~reported
  /\ reported' = TRUE
  /\ digest' = digest + buffer
  /\ buffer' = 0
  /\ UNCHANGED <<pending, high_water_slot, obs_count, matched, faster, evicted,
                 observed, overwritten, last_cutoff, seen, paired>>

\* `LatencyDigestSummary::from_matcher`: one last pass, and the quantiles
\* flush the buffer.  The dispatchers are gone by then.
Summarise ==
  /\ ~reported
  /\ reported' = TRUE
  /\ pending' = Swept(pending, Cutoff(high_water_slot))
  /\ evicted' = EvictedBy(pending, Cutoff(high_water_slot))
  /\ last_cutoff' = Cutoff(high_water_slot)
  /\ digest' = digest + buffer
  /\ buffer' = 0
  /\ UNCHANGED <<high_water_slot, obs_count, matched, faster, observed,
                 overwritten, seen, paired>>

Next ==
  \/ \E e \in Endpoint, k \in Key, t \in Time : Observe(e, k, t)
  \/ Summarise

Spec == Init /\ [][Next]_vars

----------------------------------------------------------------------------
(* Properties.                                                              *)

\* The state keeps its types; the buffer never reaches its flush size.
TypeOK ==
  /\ pending \in [Endpoint -> [Key -> Time \cup {None}]]
  /\ \A e \in Endpoint : IsFiniteSet(Held(pending, e))
  /\ high_water_slot \in Nat
  /\ obs_count \in 0..(EvictEvery - 1)
  /\ buffer \in 0..(BufferFlush - 1)
  /\ digest \in Nat
  /\ matched \in Nat
  /\ faster \in [Endpoint -> Nat]
  /\ evicted \in [Endpoint -> Nat]
  /\ reported \in BOOLEAN
  /\ observed \in [Endpoint -> Nat]
  /\ overwritten \in [Endpoint -> Nat]
  /\ last_cutoff \in Nat
  /\ seen \in [Endpoint -> SUBSET Key]
  /\ paired \in SUBSET Key

\* `observe` takes the partner out before it would hold the event, so a key
\* never waits on both sides at once: a pair that could be reported is.
OneSidePerKey ==
  \A k \in Key : ~(k \in Held(pending, 1) /\ k \in Held(pending, 2))

\* Every observation of an endpoint is used once: it was matched, is waiting,
\* was evicted, or was overwritten.  A match consumes one of each endpoint.
Conservation ==
  \A e \in Endpoint :
    observed[e] = matched + Cardinality(Held(pending, e)) + evicted[e] + overwritten[e]

\* The digest gets exactly one sample per match across all flushes, and the
\* directional counters never count a match twice.
SamplePerMatch ==
  /\ buffer + digest = matched
  /\ faster[1] + faster[2] <= matched

\* A key both endpoints delivered has been paired unless its slot has left the
\* window: batching the eviction never loses a pair a healthy run would report.
NoMissedPair ==
  \A k \in seen[1] \cap seen[2] :
    k \in paired \/ SlotOf[k] < Cutoff(high_water_slot)

\* Why: a key an endpoint delivered is still held there until it is paired or
\* its slot leaves the window.
WaitsInWindow ==
  \A e \in Endpoint : \A k \in seen[e] :
    k \in Held(pending, e) \/ k \in paired \/ SlotOf[k] < Cutoff(high_water_slot)

\* The memory bound the batching keeps: below the cutoff of the latest pass
\* there are at most the entries held since, the call that ran it included.
BoundedStale ==
  Cardinality(Stale(pending, 1, last_cutoff))
    + Cardinality(Stale(pending, 2, last_cutoff)) <= obs_count + 1

\* The summary's counts are exact: nothing evictable is still pending and no
\* sample is outside the digest the quantiles are read from.
ReportExact ==
  reported =>
    /\ \A e \in Endpoint : Stale(pending, e, Cutoff(high_water_slot)) = {}
    /\ digest = matched

\* The inductive invariant behind the properties above.
IInv ==
  /\ TypeOK
  /\ OneSidePerKey
  /\ Conservation
  /\ SamplePerMatch
  /\ WaitsInWindow
  /\ BoundedStale
  /\ ReportExact

\* An entry whose slot is within the window of the high water mark leaves the
\* maps only through a match: one such entry per match.
InWindowLeavesByMatch ==
  [][LET left == {x \in Endpoint \X Key :
                    /\ x[2] \in Held(pending, x[1]) \ Held(pending', x[1])
                    /\ SlotOf[x[2]] + Window >= high_water_slot'}
     IN Cardinality(left) <= matched' - matched]_vars

\* The matcher implements the abstract pairing of module Pairing, with the
\* cutoff of the current high water mark as its horizon.
Waiting(p) == [e \in Endpoint |-> {<<k, p[e][k]>> : k \in Held(p, e)}]
Abstract == INSTANCE Pairing WITH
  waiting <- Waiting(pending),
  horizon <- Cutoff(high_water_slot)
ImplementsPairing == Abstract!Spec

============================================================================
