------------------------------ MODULE Trackers ------------------------------
(***************************************************************************)
(* The trackers the dispatcher of endpoint 1 owns, fed the way it feeds     *)
(* them: each subscription the plan opens on the endpoint stamps its events *)
(* on arrival and puts them in a ring of its own, and the dispatcher drains *)
(* ring after ring (module Pipeline), so the trackers see each subscription *)
(* in order but the subscriptions one after the other, not in the order of  *)
(* arrival.  An event that finds its ring full is dropped and counted; the  *)
(* two are one step here, where nothing reads the count in between.  Events *)
(* the trackers ignore are left out, and so is the shutdown (Pipeline).     *)
(***************************************************************************)
EXTENDS Integers, Sequences, FiniteSets, SubscriptionPlan, Stability, CrossStream

CONSTANTS
  Configs,      \* configurations (SubscriptionPlan)
  RingBaseline, \* --ring-capacity
  DrainBudget,  \* DRAIN_BUDGET_PER_RING
  MaxTime,      \* bound: the clock
  MaxEvents     \* bound: events in all

ASSUME TrackersAssumption ==
  /\ KeySlot \in [Key -> Nat] /\ CrossWindow \in Nat
  /\ StallThreshold \in Nat /\ DrainBudget \in Nat \ {0}
  /\ MaxUsize \in Nat /\ RingBaseline \in 0 .. MaxUsize
  /\ MaxTime \in Nat /\ MaxEvents \in Nat

\* What a run goes on with: at least one commitment, with --solo at least one
\* stream, a positive number of programs per filter.
ASSUME ConfigsAssumption ==
  \A c \in Configs :
    /\ c.solo \in BOOLEAN /\ (c.solo => c.solo_streams \in Seq(MainStreams) \ {<<>>})
    /\ c.commitments \in Seq(Commitments) \ {<<>>}
    /\ c.programs \in Seq(ToSet(c.programs)) /\ c.per_filter \in Nat \ {0}

VARIABLES
  subs,         \* the subscriptions of the endpoint, in the order of their rings
  now,
  rings,        \* the events waiting in each ring
  dropped,      \* per ring, ReceiverStats::dropped
  cur, drained, \* where the dispatcher is
  stability,
  cross,
  \* History variables, read by no action.
  arrived,      \* the times at which slot events arrived
  taken,        \* the same of those that found room in their ring
  order         \* events in the order the trackers observed them

vars == <<subs, now, rings, dropped, cur, drained, stability, cross, arrived, taken, order>>

\* What a subscription may deliver.  Slot events carry every stage whatever
\* the commitment; the stages between the commitments are left out.  What is
\* sampled from transactions and accounts is counted only, so they need no time.
SlotEvent(s, stage, c, ts) ==
  [kind |-> "slot", slot |-> s, stage |-> stage, commitment |-> c, ts |-> ts]
KeyEvent(kind, k) == [kind |-> kind, key |-> k]
Deliverable(sub, ts) ==
  IF CarriesSlots(sub)
  THEN {SlotEvent(s, stage, sub.commitment, ts) :
          s \in Slot, stage \in {"processed", "confirmed"}}
  ELSE IF sub.stream \in {"transactions", "accounts"}
       THEN {KeyEvent(sub.stream, k) : k \in Key} ELSE {}

Init ==
  /\ subs \in {OfEndpoint(PlanOf(c), 1) : c \in Configs}
  /\ now = 0
  /\ rings = [i \in DOMAIN subs |-> <<>>]
  /\ dropped = [i \in DOMAIN subs |-> 0]
  /\ cur = 1 /\ drained = 0
  /\ stability = NewStability
  /\ cross = NewCross
  /\ arrived = <<>> /\ taken = <<>> /\ order = <<>>

\* Events so far, wherever they are.
Sent ==
  Len(order) + FoldFunction(LAMBDA ring, n : n + Len(ring), 0, rings)
    + FoldFunction(+, 0, dropped)

Tick ==
  /\ now < MaxTime
  /\ now' = now + 1
  /\ UNCHANGED <<subs, rings, dropped, cur, drained, stability, cross, arrived, taken, order>>

\* The times of slot events, with that of this one.
WithTime(times, ev) == IF ev.kind = "slot" THEN Append(times, ev.ts) ELSE times

\* Variant: the drop is not counted.
DropUncounted(i) == UNCHANGED dropped

Drop(i) == dropped' = [dropped EXCEPT ![i] = @ + 1]

HasRoom(i) == Len(rings[i]) < RingCapacity(subs[i].stream, RingBaseline)

\* A receiver stamps an event and puts it in its ring, if there is room.
Arrive(i, ev) ==
  /\ Sent < MaxEvents
  /\ \/ /\ HasRoom(i)
        /\ rings' = [rings EXCEPT ![i] = Append(@, ev)]
        /\ taken' = WithTime(taken, ev)
        /\ UNCHANGED dropped
     \/ /\ ~HasRoom(i)
        /\ Drop(i)
        /\ UNCHANGED <<rings, taken>>
  /\ arrived' = WithTime(arrived, ev)
  /\ UNCHANGED <<subs, now, cur, drained, stability, cross, order>>

\* The event at the head of the ring is taken out and observed.
Observed(ev) ==
  /\ stability' = IF ev.kind = "slot"
                  THEN ObserveSlot(stability, ev.slot, ev.stage, ev.commitment, ev.ts)
                  ELSE stability
  /\ cross' = CASE ev.kind = "transactions" -> ObserveTx(cross, ev.key)
                [] ev.kind = "accounts" -> ObserveAccount(cross, ev.key)
                [] OTHER -> cross
  /\ order' = Append(order, ev)
  /\ rings' = [rings EXCEPT ![cur] = Tail(@)]
  /\ drained' = drained + 1
  /\ UNCHANGED <<subs, now, dropped, cur, arrived, taken>>

\* `dispatch_event`, as far as the trackers are concerned.
Dispatch ==
  /\ drained < DrainBudget /\ rings[cur] # <<>>
  /\ Observed(Head(rings[cur]))

\* On to the next ring, or from the last one to the first.
NextRing ==
  /\ drained = DrainBudget \/ rings[cur] = <<>>
  /\ cur' = IF cur = Len(subs) THEN 1 ELSE cur + 1
  /\ drained' = 0
  /\ UNCHANGED <<subs, now, rings, dropped, stability, cross, arrived, taken, order>>

Next ==
  \/ Tick
  \/ \E i \in DOMAIN subs : \E ev \in Deliverable(subs[i], now) : Arrive(i, ev)
  \/ Dispatch \/ NextRing

Spec == Init /\ [][Next]_vars

----------------------------------------------------------------------------
(* Properties.                                                              *)

Times == 0..MaxTime

\* The events that can come on the subscriptions of the endpoint.
Events == UNION {Deliverable(subs[i], ts) : i \in DOMAIN subs, ts \in Times}

\* The dispatcher is at a ring, and rings and trackers hold nothing else;
\* proved, not checked.
TypeOK ==
  /\ Len(subs) \in Nat \ {0} /\ DOMAIN subs = 1 .. Len(subs) /\ now \in Times
  /\ rings \in [DOMAIN subs -> Seq(Events)] /\ dropped \in [DOMAIN subs -> Nat]
  /\ cur \in DOMAIN subs
  /\ order \in Seq(Events)
  /\ cross \in [tx : SUBSET Key, account : SUBSET Key, high : Nat, sampled : [Key -> Nat]]

\* Two of these times with more than the threshold and none of them in between.
SilencesAmong(times) ==
  {p \in times \X times :
     p[2] - p[1] > StallThreshold /\ \A c \in times : c <= p[1] \/ c >= p[2]}

\* The silences of the endpoint, whatever became of its events.
Silences == SilencesAmong(Range(arrived))

\* Where slot events come on one subscription only, the stalls recorded so far
\* are exactly the silences among the events its ring took, up to the one the
\* tracker saw last, each recorded once.  A stall that was no silence of the
\* endpoint costs at least one event counted as dropped: in a run that reports
\* no drop every stall is real.
SlotSources == {i \in DOMAIN subs : CarriesSlots(subs[i])}
StallsExact ==
  \A src \in SlotSources : SlotSources = {src} =>
    /\ Range(stability.stalls) =
         {p \in SilencesAmong(Range(taken)) : p[2] <= stability.last}
    /\ IsInjective(stability.stalls)
    /\ Cardinality(Range(stability.stalls) \ Silences) <= dropped[src]

\* With an entries subscription, which brings slot events as well, and with
\* events dropped, no silence goes unrecorded: once events from before and then
\* from after it have been observed, some stall spans it.
IsSlotEvent(ev) == ev.kind = "slot"
SilencesCovered ==
  \A p \in Silences :
    \A i, j \in {k \in DOMAIN order : IsSlotEvent(order[k])} :
      (i < j /\ order[i].ts <= p[1] /\ order[j].ts >= p[2]) =>
        \E q \in Range(stability.stalls) : q[1] <= p[1] /\ q[2] >= p[2]

\* "any gap > 600 ms is recorded as a stall", between "consecutive messages on
\* the slot-status stream" (stability.rs): a stall is a silence.  NOT what the
\* code does with an entries subscription, even if no event is dropped: each
\* stamp is compared with that of the event observed before, and after one that
\* waited in its ring the next looks late.
StallsAreSilences == Range(stability.stalls) \subseteq Silences

\* Where in the order of observation a slot reaches a stage on the stream of
\* that commitment.
SeenAt(slot, stage) ==
  {i \in DOMAIN order : /\ IsSlotEvent(order[i]) /\ order[i].slot = slot
                        /\ order[i].stage = stage /\ order[i].commitment = stage}

\* What the tracker holds of a slot is its first arrival at the stage the slot
\* subscription is labelled with; it is never paired off, so the tracker grows
\* by one entry for each slot of the run.
FirstArrivalHeld ==
  /\ stability.drifts = <<>>
  /\ \A slot \in Slot : \A stage \in {"processed", "confirmed"} :
       LET seen == SeenAt(slot, stage)
       IN stability[stage][slot] = IF seen = {} THEN NoTime ELSE order[Min(seen)].ts

\* "Processed->Confirmed drift: when both commitment subscriptions are active"
\* (stability.rs), "populated only on dual-commitment runs" (RUNBOOK.md): in
\* such a run a slot observed at both stages has a drift.  NOT what the code
\* does: the plan opens one slot subscription per endpoint, labelled with the
\* first commitment, and a stage counts under its own label only.
ObservedStages(slot) ==
  {order[i].stage : i \in {j \in DOMAIN order :
     order[j].kind = "slot" /\ order[j].slot = slot}}
DriftPopulated ==
  \A slot \in Slot :
    ObservedStages(slot) = {"processed", "confirmed"} =>
      \E i \in DOMAIN stability.drifts : stability.drifts[i].slot = slot

ObservedKeys(kind) == {order[i].key : i \in {j \in DOMAIN order : order[j].kind = kind}}

\* A transaction observed together with an account update of its own has been
\* sampled, whichever came first, unless its slot has left the window.
CrossPaired ==
  \A k \in ObservedKeys("transactions") \cap ObservedKeys("accounts") :
    cross.sampled[k] > 0 \/ KeySlot[k] < CrossCutoff(cross.high)

\* Each sample uses up one transaction and one account update, and what waits
\* is within the window: neither stream alone can fill the maps.
CrossBounded ==
  /\ \A k \in cross.tx \cup cross.account : KeySlot[k] >= CrossCutoff(cross.high)
  /\ \A k \in Key : \A kind \in {"transactions", "accounts"} :
       cross.sampled[k] <=
         Cardinality({i \in DOMAIN order : order[i].kind = kind /\ order[i].key = k})

============================================================================
