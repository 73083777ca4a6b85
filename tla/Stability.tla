----------------------------- MODULE Stability ------------------------------
(***************************************************************************)
(* The stability tracker of one endpoint, src/src/stability.rs, as a record *)
(* and the operator that updates it for one slot-status event.  Arrival     *)
(* times are what the receiver stamped on the event; the gaps and drifts    *)
(* are kept as the pairs of arrivals they are computed from.  The notices   *)
(* of disconnects and reconnects are left out: nothing in the program sends *)
(* them.                                                                    *)
(***************************************************************************)
EXTENDS Integers, Sequences

CONSTANTS
  Slot,
  StallThreshold   \* STALL_THRESHOLD_MS

NoTime == -1

NewStability == [
  last |-> NoTime,                           \* last_slot_event_ts
  gaps |-> 0,                                \* samples of slot_gaps
  stalls |-> <<>>,                           \* stall_events, as <<from, to>>
  processed |-> [s \in Slot |-> NoTime],     \* processed_arrivals
  confirmed |-> [s \in Slot |-> NoTime],     \* confirmed_arrivals
  drifts |-> <<>>]                           \* samples of drift_digest

\* Variant: the comparison is made after last_slot_event_ts has moved.
IsStallLate(t, ts) == FALSE

\* Variant: the threshold itself is a stall.
IsStallAtEdge(t, ts) == t.last # NoTime /\ ts - t.last >= StallThreshold

\* A gap of more than the threshold since the event observed last.
IsStall(t, ts) == t.last # NoTime /\ ts - t.last > StallThreshold

WithGap(t, ts) ==
  [t EXCEPT !.last = ts,
            !.gaps = IF t.last = NoTime THEN @ ELSE @ + 1,
            !.stalls = IF IsStall(t, ts) THEN Append(@, <<t.last, ts>>) ELSE @]

\* Variant: the later of two arrivals of a slot replaces the earlier one.
LatestOf(arrivals, slot, ts) == ts

FirstOf(arrivals, slot, ts) == IF arrivals[slot] = NoTime THEN ts ELSE arrivals[slot]

\* `record_drift`: both arrivals of the slot are taken out.
WithDrift(t, slot, processed, confirmed) ==
  [t EXCEPT !.processed[slot] = NoTime, !.confirmed[slot] = NoTime,
            !.drifts = Append(@, [slot |-> slot, processed |-> processed,
                                  confirmed |-> confirmed])]

\* A stage counts on the stream of its own commitment only.  The arrival is
\* kept until the other one comes; a repetition does not replace it.
WithStage(t, slot, stage, commitment, ts) ==
  CASE stage = "processed" /\ commitment = "processed" ->
         IF t.confirmed[slot] # NoTime
         THEN WithDrift(t, slot, ts, t.confirmed[slot])
         ELSE [t EXCEPT !.processed[slot] = FirstOf(t.processed, slot, ts)]
    [] stage = "confirmed" /\ commitment = "confirmed" ->
         IF t.processed[slot] # NoTime
         THEN WithDrift(t, slot, t.processed[slot], ts)
         ELSE [t EXCEPT !.confirmed[slot] = FirstOf(t.confirmed, slot, ts)]
    [] OTHER -> t

ObserveSlot(t, slot, stage, commitment, ts) ==
  WithStage(WithGap(t, ts), slot, stage, commitment, ts)

============================================================================
