------------------------------ MODULE Session -------------------------------
(***************************************************************************)
(* What a run makes of its events: the two dispatchers hand each event to   *)
(* the shared matchers, to the raw writer and to their counters, in three   *)
(* steps; the ping tasks sample the endpoints beside them; after the        *)
(* shutdown the coordinator puts the result together.  `dispatch_event`,    *)
(* `ping_task` and the end of `execute` in src/src/run.rs.                  *)
(*                                                                          *)
(* The rings and the waiting for threads are module Pipeline; here an event *)
(* simply comes, and the coordinator gives a dispatcher up at any moment.   *)
(***************************************************************************)
EXTENDS Dispatch, RawWriter, Selection, Functions

CONSTANTS
  Setups       \* what a run may be: solo, raw_records, with_transactions,
               \* with_blocks, the updates that may come, and bounds: how many
               \* updates (max_updates) and pings (max_pings) per endpoint

ASSUME SessionAssumption ==
  /\ BufferRecords \in Nat \ {0}
  /\ \A s \in Setups : /\ s.max_updates \in Nat /\ s.max_pings \in Nat
                       /\ \A u \in s.updates : IsUpdate(u)

VARIABLES
  setup,
  shutdown,
  delivered,         \* per endpoint, the updates its server has sent so far
  decode_errors,     \* ReceiverStats::decode_errors, per endpoint
  dpc,               \* where a dispatcher is: "idle", "raw", "count", "done"
  matchers,
  raw,               \* the raw writer
  records,           \* the records handed to it, in order
  counts,            \* IngestCountersPartial: events per kind, per endpoint
  last_counted_slot, \* per endpoint
  total_slots,
  ping_pc,           \* where a ping task is
  samples,           \* per endpoint, how many durations PingTracker::sum_us holds
  ping_count,        \* PingTracker::count, per endpoint
  cpc,               \* where the coordinator is
  reclaimed,         \* the dispatchers it has joined
  log,               \* the warning it took from the raw writer
  reading,           \* per endpoint, what it has read of the ping tracker
  document           \* the result, None before

dispatching == <<delivered, decode_errors, dpc, matchers, raw, records, counts, last_counted_slot, total_slots>>
pinging == <<ping_pc, samples, ping_count>>
closing == <<cpc, reclaimed, log, reading, document>>
vars == <<setup, shutdown, dispatching, pinging, closing>>

Endpoint == {1, 2}
Kinds == {"account", "transaction", "block", "entry"}
None == <<>>
Zero == [k \in Kinds |-> 0]

\* A run with one endpoint has one ping task.  Bound: a setup that asks for no
\* pings leaves the tasks out, which share nothing with the dispatchers.
PingsTask(e) == setup.max_pings > 0 /\ (setup.solo => e = 1)

Init ==
  /\ setup \in Setups
  /\ shutdown = FALSE
  /\ delivered = [e \in Endpoint |-> <<>>] /\ decode_errors = [e \in Endpoint |-> 0]
  /\ dpc = [e \in Endpoint |-> "idle"]
  /\ matchers = NewMatchers
  /\ raw = NewWriter /\ records = <<>>
  /\ counts = [e \in Endpoint |-> Zero]
  /\ last_counted_slot = [e \in Endpoint |-> 0] /\ total_slots = 0
  /\ ping_pc = [e \in Endpoint |-> IF PingsTask(e) THEN "outer" ELSE "ended"]
  /\ samples = [e \in Endpoint |-> 0] /\ ping_count = [e \in Endpoint |-> 0]
  /\ cpc = "loop" /\ reclaimed = {} /\ log = FALSE
  /\ reading = [e \in Endpoint |-> None] /\ document = None

Running == cpc # "exited"
Goes(e, at) == dpc' = [dpc EXCEPT ![e] = at]

----------------------------------------------------------------------------
(* The dispatchers.                                                         *)

\* An update comes and is decoded; an event reaches the matchers, and what is
\* no event is counted if it should have been one.
Take(e, update) ==
  /\ Running /\ dpc[e] = "idle" /\ Len(delivered[e]) < setup.max_updates
  /\ (setup.solo => e = 1)
  /\ delivered' = [delivered EXCEPT ![e] = Append(@, update)]
  /\ \/ /\ Decodes(update)
        /\ matchers' = Dispatched(matchers, e, update)
        /\ Goes(e, IF setup.raw_records THEN "raw" ELSE "count")
        /\ UNCHANGED decode_errors
     \/ /\ ~Decodes(update)
        /\ decode_errors' = [decode_errors EXCEPT ![e] = IF IsControl(update) THEN @ ELSE @ + 1]
        /\ UNCHANGED <<dpc, matchers>>
  /\ UNCHANGED <<setup, shutdown, raw, records, counts, last_counted_slot, total_slots, pinging, closing>>

\* The events the dispatcher has taken.
Events == {u \in setup.updates : Decodes(u)}
Taken(e) == Only(delivered[e], Events)

\* It is written, under the writer's mutex.
WriteRaw(e) ==
  /\ Running /\ dpc[e] = "raw"
  /\ raw' \in Write(raw, <<e, Last(Taken(e))>>)
  /\ records' = Append(records, <<e, Last(Taken(e))>>)
  /\ Goes(e, "count")
  /\ UNCHANGED <<setup, shutdown, delivered, decode_errors, matchers, counts, last_counted_slot, total_slots, pinging, closing>>

\* Variant: a slot is counted again when it is repeated.
CountsSlotAgain(e, event) ==
  e = 1 /\ event.kind = "slot" /\ event.stage = "processed" /\ event.slot >= last_counted_slot[1]

CountsSlot(e, event) ==
  e = 1 /\ event.kind = "slot" /\ event.stage = "processed" /\ event.slot > last_counted_slot[1]

\* It is counted.
Count(e) ==
  LET event == Last(Taken(e))
  IN /\ Running /\ dpc[e] = "count"
     /\ IF CountsSlot(e, event)
        THEN /\ last_counted_slot' = [last_counted_slot EXCEPT ![e] = event.slot]
             /\ total_slots' = total_slots + 1
        ELSE UNCHANGED <<last_counted_slot, total_slots>>
     /\ counts' = IF event.kind = "slot" THEN counts
                  ELSE [counts EXCEPT ![e][event.kind] = @ + 1]
     /\ Goes(e, "idle")
     /\ UNCHANGED <<setup, shutdown, delivered, decode_errors, matchers, raw, records, pinging, closing>>

Return(e) ==
  /\ Running /\ shutdown /\ dpc[e] = "idle"
  /\ Goes(e, "done")
  /\ UNCHANGED <<setup, shutdown, delivered, decode_errors, matchers, raw, records, counts, last_counted_slot,
                 total_slots, pinging, closing>>

----------------------------------------------------------------------------
(* The ping tasks.  They run beside the end of the run: nothing waits for   *)
(* them.                                                                    *)

PingGoes(e, from, to) ==
  /\ Running /\ ping_pc[e] = from
  /\ ping_pc' = [ping_pc EXCEPT ![e] = to]
  /\ UNCHANGED <<setup, shutdown, dispatching, closing>>

PingStays == UNCHANGED <<samples, ping_count>>

\* Variant: the inner loop does not look at the flag.
PingInnerBlind(e) == PingGoes(e, "inner", "asking") /\ PingStays

\* `loop` over the pings of one connection.
PingInner(e) == PingGoes(e, "inner", IF shutdown THEN "ended" ELSE "asking") /\ PingStays

\* `while`, a connection that is made or not.
PingOuter(e) == PingGoes(e, "outer", IF shutdown THEN "ended" ELSE "connecting") /\ PingStays
PingConnect(e) == \E to \in {"inner", "pause_outer"} : PingGoes(e, "connecting", to) /\ PingStays

\* `record`: the sum first, then the count.
PingAnswered(e) ==
  /\ samples[e] < setup.max_pings
  /\ PingGoes(e, "asking", "count")
  /\ samples' = [samples EXCEPT ![e] = @ + 1]
  /\ UNCHANGED ping_count
PingCounted(e) ==
  /\ PingGoes(e, "count", "pause_inner")
  /\ ping_count' = [ping_count EXCEPT ![e] = @ + 1]
  /\ UNCHANGED samples

\* An error, a refusal or no answer in time: a new connection at once.
PingFails(e) == PingGoes(e, "asking", "outer") /\ PingStays

\* `sleep_unless_shutdown` sees the flag at one of its ticks, or has gone by
\* before it was raised.
PauseEnds(e) ==
  /\ PingStays
  /\ \/ PingGoes(e, "pause_outer", "outer")
     \/ PingGoes(e, "pause_inner", "inner")
     \/ shutdown /\ \E from \in {"pause_outer", "pause_inner"} : PingGoes(e, from, "ended")

----------------------------------------------------------------------------
(* The coordinator.                                                         *)

\* The stop condition, SIGINT, or no receiver left.
Stop ==
  /\ cpc = "loop"
  /\ shutdown' = TRUE /\ cpc' = "join"
  /\ UNCHANGED <<setup, dispatching, pinging, reclaimed, log, reading, document>>

\* A dispatcher that has not finished by the deadline is given up.
Join ==
  /\ cpc = "join"
  /\ reclaimed' = {e \in Endpoint : dpc[e] = "done"}
  /\ cpc' = "flush"
  /\ UNCHANGED <<setup, shutdown, dispatching, pinging, log, reading, document>>

\* The last flush, and the warning taken for the log.
FlushRaw ==
  /\ cpc = "flush"
  /\ \E flushed \in Flush(raw) : raw' = WarningTaken(flushed) /\ log' = flushed.warning
  /\ cpc' = "merge"
  /\ UNCHANGED <<setup, shutdown, delivered, decode_errors, dpc, matchers, records, counts, last_counted_slot,
                 total_slots, pinging, reclaimed, reading, document>>

\* The counters of the dispatchers that were joined, and the matchers if no
\* dispatcher shares them any more, else empty ones.
Merge ==
  /\ cpc = "merge"
  /\ document' = <<[counts |-> [e \in Endpoint |-> IF e \in reclaimed THEN counts[e] ELSE Zero],
                    slots |-> total_slots,
                    comparative |-> Comparative(
                      IF \A e \in Endpoint : dpc[e] = "done" THEN matchers ELSE NewMatchers,
                      setup.with_transactions, setup.with_blocks)]>>
  /\ cpc' = "pings"
  /\ UNCHANGED <<setup, shutdown, dispatching, pinging, reclaimed, log, reading>>

\* `average_ms`: the sum, then the count.
ReadSum(e) ==
  /\ cpc = "pings" /\ reading[e] = None /\ (e = 2 => ~setup.solo /\ Len(reading[1]) = 2)
  /\ reading' = [reading EXCEPT ![e] = <<samples[e]>>]
  /\ UNCHANGED <<setup, shutdown, dispatching, pinging, cpc, reclaimed, log, document>>
ReadCount(e) ==
  /\ cpc = "pings" /\ Len(reading[e]) = 1
  /\ reading' = [reading EXCEPT ![e] = Append(@, ping_count[e])]
  /\ UNCHANGED <<setup, shutdown, dispatching, pinging, cpc, reclaimed, log, document>>

PingsRead == \A e \in Endpoint : (e = 1 \/ ~setup.solo) => Len(reading[e]) = 2

\* The document is written, or an error says why not; then, if no dispatcher
\* holds it, the raw writer goes away, and the process with all that is left.
\* A dispatcher given up forces an exit that drops nothing, unless the error
\* comes first.
Exit ==
  /\ cpc = "pings" /\ PingsRead
  /\ document' \in {document, None}
  /\ raw' \in IF \/ reclaimed = Endpoint
                 \/ document' = None /\ \A e \in Endpoint : dpc[e] = "done"
             THEN Dropped(raw) ELSE {raw}
  /\ cpc' = "exited"
  /\ UNCHANGED <<setup, shutdown, delivered, decode_errors, dpc, matchers, records, counts, last_counted_slot,
                 total_slots, pinging, reclaimed, log, reading>>

Next ==
  \/ \E e \in Endpoint :
       \/ \E update \in setup.updates : Take(e, update)
       \/ WriteRaw(e) \/ Count(e) \/ Return(e)
       \/ PingOuter(e) \/ PingConnect(e) \/ PingInner(e)
       \/ PingAnswered(e) \/ PingCounted(e) \/ PingFails(e) \/ PauseEnds(e)
       \/ ReadSum(e) \/ ReadCount(e)
  \/ Stop \/ Join \/ FlushRaw \/ Merge \/ Exit

Spec == Init /\ [][Next]_vars

----------------------------------------------------------------------------
(* Properties.                                                              *)

\* What is one thing to a reader of the result: a slot at a stage, a write to an
\* account, a transaction, and a block at a commitment.
Thing(event) == IF event.kind = "block" THEN event ELSE [event EXCEPT !.commitment = NoLevel]
Measured(n, event) ==
  CASE n = "accounts" -> event.kind = "account"
    [] n = "transactions" -> event.kind = "transaction"
    [] n = "blocks" -> event.kind = "block" /\ event.commitment # NoLevel
    [] OTHER -> event.kind = "slot" /\ event.stage = n
Times(e, thing) == Cardinality({i \in DOMAIN delivered[e] : Thing(delivered[e][i]) = thing})
Least(m, n) == IF m < n THEN m ELSE n

\* However the deliveries of the endpoints interleave, a thing both delivered is
\* matched, and no more often than both delivered it; different things never
\* match.  (What endpoint 1 did not deliver has no part in either sum.)
PairedOnce ==
  \A n \in MatcherNames :
    LET first == {delivered[1][i] : i \in DOMAIN delivered[1]}
        things == {Thing(event) : event \in {u \in first : Decodes(u) /\ Measured(n, u)}}
    IN matchers[n].matched \in
         SumFunction([t \in things |-> Least(1, Times(2, t))])
         .. SumFunction([t \in things |-> Least(Times(1, t), Times(2, t))])

\* The slot count, which ends a run with --slots and enters the result, never
\* counts a slot twice, whatever the order and the subscription its processed
\* event comes on; slots that come in order are all counted, but for slot 0.
ProcessedSeen ==
  {i \in DOMAIN delivered[1] :
     /\ delivered[1][i].kind = "slot" /\ delivered[1][i].stage = "processed"
     /\ ~(dpc[1] \in {"raw", "count"} /\ i = Len(delivered[1]))}
SlotsSeen == {delivered[1][i].slot : i \in ProcessedSeen}
SlotsCountedOnce ==
  /\ total_slots <= Cardinality(SlotsSeen)
  /\ (\A i, j \in ProcessedSeen : i < j => delivered[1][i].slot <= delivered[1][j].slot) =>
       total_slots = Cardinality(SlotsSeen \ {0})

\* The file of raw records is at any time an initial part of the records handed
\* over by both dispatchers, in that order, with no hole after a failed write:
\* what follows an error never reaches it, not at the last flush nor when the
\* writer is dropped.
RawHasNoHole ==
  /\ IsPrefix(raw.disk \o raw.buffer, records)
  /\ raw.bytes_written <= Len(raw.disk \o raw.buffer)

\* When both dispatchers were joined and the coordinator found no warning, the
\* file holds every update of either server that reached its dispatcher but those
\* counted as malformed and control messages, in order.
RawComplete ==
  (cpc = "exited" /\ setup.raw_records /\ reclaimed = Endpoint /\ ~log) =>
    \A e \in Endpoint :
      LET own == Only(raw.disk, {e} \X Events)
          skipped == {i \in DOMAIN delivered[e] : delivered[e][i].kind = "control"}
      IN /\ [i \in DOMAIN own |-> own[i][2]] = Taken(e)
         /\ Len(own) + decode_errors[e] + Cardinality(skipped) = Len(delivered[e])

\* The average ping divides a sum by a count read after it, beside a task that
\* may be between its two additions and may add one more sample, but no second
\* one: after the shutdown the two numbers differ by one sample at most.
PingReadingClose ==
  \A e \in Endpoint :
    Len(reading[e]) = 2 => reading[e][2] \in (reading[e][1] - 1) .. (reading[e][1] + 1)

=============================================================================
