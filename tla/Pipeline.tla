------------------------------ MODULE Pipeline ------------------------------
(***************************************************************************)
(* The capture pipeline of src/src/run.rs and src/src/collect/ring.rs: one  *)
(* receiver thread and one bounded ring per subscription, one dispatcher    *)
(* thread per endpoint that drains the rings of its endpoint, and the       *)
(* coordinator that stops the run, waits a bounded time for everybody and   *)
(* writes the result.                                                       *)
(*                                                                          *)
(* A step is what one thread does between two points where another thread   *)
(* can interfere: an atomic load or store, a channel operation, a mutex.    *)
(* Time is not modelled: a bounded wait may end at any moment, as it does   *)
(* when the thread waited for is slow or wedged.                            *)
(*                                                                          *)
(* Events have no content here, so a ring is the number of events it holds  *)
(* and what happened to the events of a subscription is counted per         *)
(* subscription: `observed` stands for what the shared matchers recorded of *)
(* them, `counted` for what the dispatcher's own trackers and counters did. *)
(* How a receiver decides to reconnect or give up is module Receiver.       *)
(***************************************************************************)
EXTENDS Integers, Sequences, FiniteSets

CONSTANTS
  Sub,            \* subscriptions of the plan
  Rings,          \* per endpoint, its subscriptions in the order of the plan
  Capacity,       \* ring capacity
  DrainBudget,    \* DRAIN_BUDGET_PER_RING
  RawRecords,     \* --raw-records is given
  SlotSub,        \* the subscriptions whose events may raise the slot count
  HasSlots,       \* StopCondition: --slots is given ...
  StopSlots,      \* ... with this value
  HasDuration,    \* StopCondition: --duration is given
  MaxSent         \* bound: events decoded per subscription

Endpoint == {1, 2}

ASSUME RingsAssumption ==
  /\ Rings \in [Endpoint -> Seq(Sub)]
  /\ \A s \in Sub : \E e \in Endpoint : \E i \in 1..Len(Rings[e]) : Rings[e][i] = s
  /\ \A i \in 1..Len(Rings[1]) : \A j \in 1..Len(Rings[2]) : Rings[1][i] # Rings[2][j]
ASSUME CapacityAssumption == Capacity \in Nat \ {0}
ASSUME DrainBudgetAssumption == DrainBudget \in Nat \ {0}
ASSUME StopAssumption ==
  /\ RawRecords \in BOOLEAN
  /\ HasSlots \in BOOLEAN /\ HasDuration \in BOOLEAN /\ (HasSlots \/ HasDuration)
  /\ StopSlots \in Nat
  /\ SlotSub \subseteq Sub
ASSUME MaxSentAssumption == MaxSent \in [Sub -> Nat]

VARIABLES
  shutdown,       \* the shared flag
  rx,             \* where each receiver thread is
  ring,           \* events waiting in each ring
  dropped,        \* ReceiverStats::dropped
  received,       \* ReceiverStats::received
  dpc,            \* where each dispatcher thread is
  cur,            \* the ring it is at, as an index into Rings
  drained,        \* drained_this_ring
  got_any,
  seen_shutdown,  \* shutdown_observed_at is set
  raw_lock,       \* holder of the raw writer's mutex
  observed,       \* events recorded by the shared matchers
  counted,        \* events recorded by the dispatcher's own state
  total_slots,    \* the live slot counter
  elapsed,        \* --duration is over
  cpc,            \* where the coordinator is
  reclaimed,      \* dispatchers whose state came back through join
  stuck,          \* receivers that missed the join deadline
  report,         \* what goes into the result file
  \* History variables, read by no action.
  sent,           \* events handed to try_send
  lost,           \* events try_send found nobody to receive
  late            \* events that entered the ring after the shutdown

rxVars == <<rx, sent, lost, late, dropped>>
dispatcherVars == <<dpc, cur, drained, got_any, seen_shutdown, raw_lock, received,
                    observed, counted, total_slots>>
coordVars == <<cpc, reclaimed, stuck, report>>
vars == <<shutdown, ring, elapsed, rxVars, dispatcherVars, coordVars>>

None == 0

EndpointOf(s) == IF \E i \in 1..Len(Rings[1]) : Rings[1][i] = s THEN 1 ELSE 2

Finished(e) == dpc[e] = "finished"

Empty == [kept |-> FALSE, received |-> [s \in Sub |-> 0], dropped |-> [s \in Sub |-> 0],
          counted |-> [s \in Sub |-> 0], observed |-> [s \in Sub |-> 0]]

Init ==
  /\ shutdown = FALSE
  /\ rx = [s \in Sub |-> "outer"]
  /\ ring = [s \in Sub |-> 0]
  /\ dropped = [s \in Sub |-> 0]
  /\ received = [s \in Sub |-> 0]
  /\ dpc = [e \in Endpoint |-> "drain"]
  /\ cur = [e \in Endpoint |-> 1]
  /\ drained = [e \in Endpoint |-> 0]
  /\ got_any = [e \in Endpoint |-> FALSE]
  /\ seen_shutdown = [e \in Endpoint |-> FALSE]
  /\ raw_lock = None
  /\ observed = [s \in Sub |-> 0]
  /\ counted = [s \in Sub |-> 0]
  /\ total_slots = 0
  /\ elapsed = FALSE
  /\ cpc = "loop"
  /\ reclaimed = {}
  /\ stuck = {}
  /\ report = Empty
  /\ sent = [s \in Sub |-> 0]
  /\ lost = [s \in Sub |-> 0]
  /\ late = [s \in Sub |-> 0]

----------------------------------------------------------------------------
(* Receivers.                                                               *)

\* The receiver of s moves from `from` to `to`.
RxGoes(s, from, to) == rx[s] = from /\ rx' = [rx EXCEPT ![s] = to]

\* Variant: the flag is looked at only between connections.
RxInnerUnchecked(s) ==
  /\ RxGoes(s, "inner", "poll")
  /\ UNCHANGED <<shutdown, ring, elapsed, sent, lost, late, dropped, dispatcherVars, coordVars>>

\* Top of the outer loop: look at the flag, then connect and subscribe.
RxOuter(s) ==
  /\ RxGoes(s, "outer", IF shutdown THEN "finished" ELSE "connecting")
  /\ UNCHANGED <<shutdown, ring, elapsed, sent, lost, late, dropped, dispatcherVars, coordVars>>

\* Connected; or refused and retrying after the pause; or giving up.
RxConnect(s) ==
  /\ \E to \in {"inner", "outer", "finished"} : RxGoes(s, "connecting", to)
  /\ UNCHANGED <<shutdown, ring, elapsed, sent, lost, late, dropped, dispatcherVars, coordVars>>

\* Top of the inner loop: look at the flag, then await an item.
RxInner(s) ==
  /\ RxGoes(s, "inner", IF shutdown THEN "finished" ELSE "poll")
  /\ UNCHANGED <<shutdown, ring, elapsed, sent, lost, late, dropped, dispatcherVars, coordVars>>

\* The poll timed out or brought nothing to send; or the stream ended; or its
\* error was one too many.
RxPoll(s) ==
  /\ \E to \in {"inner", "outer", "finished"} : RxGoes(s, "poll", to)
  /\ UNCHANGED <<shutdown, ring, elapsed, sent, lost, late, dropped, dispatcherVars, coordVars>>

\* A decoded event goes to the ring.  A dispatcher that has returned has
\* dropped its end of the channel: the event is gone and nothing counts it.
TrySend(s) ==
  /\ rx[s] = "poll" /\ sent[s] < MaxSent[s]
  /\ sent' = [sent EXCEPT ![s] = @ + 1]
  /\ \/ /\ ring[s] < Capacity /\ ~Finished(EndpointOf(s))
        /\ ring' = [ring EXCEPT ![s] = @ + 1]
        /\ late' = [late EXCEPT ![s] = IF shutdown THEN @ + 1 ELSE @]
        /\ RxGoes(s, "poll", "inner")
        /\ UNCHANGED lost
     \/ /\ ring[s] = Capacity /\ ~Finished(EndpointOf(s))
        /\ RxGoes(s, "poll", "overflow")
        /\ UNCHANGED <<ring, lost, late>>
     \/ /\ Finished(EndpointOf(s))
        /\ lost' = [lost EXCEPT ![s] = @ + 1]
        /\ RxGoes(s, "poll", "inner")
        /\ UNCHANGED <<ring, late>>
  /\ UNCHANGED <<shutdown, elapsed, dropped, dispatcherVars, coordVars>>

\* The drop is counted after try_send has returned.
CountDrop(s) ==
  /\ RxGoes(s, "overflow", "inner")
  /\ dropped' = [dropped EXCEPT ![s] = @ + 1]
  /\ UNCHANGED <<shutdown, ring, elapsed, sent, lost, late, dispatcherVars, coordVars>>

\* The process leaves when the coordinator is done, and every thread with it.
Running == cpc # "done"

Receiver(s) ==
  /\ Running
  /\ \/ RxOuter(s) \/ RxConnect(s) \/ RxInner(s)
     \/ RxPoll(s) \/ TrySend(s) \/ CountDrop(s)

----------------------------------------------------------------------------
(* Dispatchers.                                                             *)

AtRing(e) == dpc[e] = "drain" /\ cur[e] <= Len(Rings[e])
RingAt(e) == Rings[e][cur[e]]

\* Variant: the event is counted as received without leaving the ring.
RecvPeeking(e) ==
  /\ AtRing(e) /\ drained[e] < DrainBudget /\ ring[RingAt(e)] > 0
  /\ received' = [received EXCEPT ![RingAt(e)] = @ + 1]
  /\ got_any' = [got_any EXCEPT ![e] = TRUE]
  /\ drained' = [drained EXCEPT ![e] = @ + 1]
  /\ dpc' = [dpc EXCEPT ![e] = "match"]
  /\ UNCHANGED <<shutdown, ring, elapsed, rxVars, coordVars, cur, seen_shutdown, raw_lock,
                 observed, counted, total_slots>>

\* Variant: one event more than the share of the pass.
RecvOneMore(e) ==
  /\ AtRing(e) /\ drained[e] <= DrainBudget /\ ring[RingAt(e)] > 0
  /\ ring' = [ring EXCEPT ![RingAt(e)] = @ - 1]
  /\ received' = [received EXCEPT ![RingAt(e)] = @ + 1]
  /\ got_any' = [got_any EXCEPT ![e] = TRUE]
  /\ drained' = [drained EXCEPT ![e] = @ + 1]
  /\ dpc' = [dpc EXCEPT ![e] = "match"]
  /\ UNCHANGED <<shutdown, elapsed, rxVars, coordVars, cur, seen_shutdown, raw_lock,
                 observed, counted, total_slots>>

\* `try_recv` returns an event: it is counted, then dispatched.
Recv(e) ==
  /\ AtRing(e) /\ drained[e] < DrainBudget /\ ring[RingAt(e)] > 0
  /\ ring' = [ring EXCEPT ![RingAt(e)] = @ - 1]
  /\ received' = [received EXCEPT ![RingAt(e)] = @ + 1]
  /\ got_any' = [got_any EXCEPT ![e] = TRUE]
  /\ drained' = [drained EXCEPT ![e] = @ + 1]
  /\ dpc' = [dpc EXCEPT ![e] = "match"]
  /\ UNCHANGED <<shutdown, elapsed, rxVars, coordVars, cur, seen_shutdown, raw_lock,
                 observed, counted, total_slots>>

\* Variant: the share of a ring is never given back.
NextRingNoReset(e) ==
  /\ AtRing(e) /\ (drained[e] = DrainBudget \/ ring[RingAt(e)] = 0)
  /\ cur' = [cur EXCEPT ![e] = @ + 1]
  /\ UNCHANGED <<shutdown, ring, elapsed, rxVars, coordVars, dpc, drained, got_any,
                 seen_shutdown, raw_lock, received, observed, counted, total_slots>>

\* The ring is empty or its share of the pass is used up.
NextRing(e) ==
  /\ AtRing(e) /\ (drained[e] = DrainBudget \/ ring[RingAt(e)] = 0)
  /\ cur' = [cur EXCEPT ![e] = @ + 1]
  /\ drained' = [drained EXCEPT ![e] = 0]
  /\ UNCHANGED <<shutdown, ring, elapsed, rxVars, coordVars, dpc, got_any, seen_shutdown,
                 raw_lock, received, observed, counted, total_slots>>

\* `dispatch_event`: first the shared matchers, under their own locks...
Match(e) ==
  /\ dpc[e] = "match"
  /\ observed' = [observed EXCEPT ![RingAt(e)] = @ + 1]
  /\ dpc' = [dpc EXCEPT ![e] = IF RawRecords THEN "lock" ELSE "count"]
  /\ UNCHANGED <<shutdown, ring, elapsed, rxVars, coordVars, cur, drained, got_any,
                 seen_shutdown, raw_lock, received, counted, total_slots>>

\* ... then the raw record, written while the shared writer is locked...
LockRaw(e) ==
  /\ dpc[e] = "lock" /\ raw_lock = None
  /\ raw_lock' = e
  /\ dpc' = [dpc EXCEPT ![e] = "write"]
  /\ UNCHANGED <<shutdown, ring, elapsed, rxVars, coordVars, cur, drained, got_any,
                 seen_shutdown, received, observed, counted, total_slots>>

WriteRaw(e) ==
  /\ dpc[e] = "write"
  /\ raw_lock' = None
  /\ dpc' = [dpc EXCEPT ![e] = "count"]
  /\ UNCHANGED <<shutdown, ring, elapsed, rxVars, coordVars, cur, drained, got_any,
                 seen_shutdown, received, observed, counted, total_slots>>

\* ... and the dispatcher's own trackers and counters.  The slot counter goes
\* up only for a slot above the last one counted.
Count(e) ==
  /\ dpc[e] = "count"
  /\ counted' = [counted EXCEPT ![RingAt(e)] = @ + 1]
  /\ \/ total_slots' = total_slots
     \/ e = 1 /\ RingAt(e) \in SlotSub /\ total_slots' = total_slots + 1
  /\ dpc' = [dpc EXCEPT ![e] = "drain"]
  /\ UNCHANGED <<shutdown, ring, elapsed, rxVars, coordVars, cur, drained, got_any,
                 seen_shutdown, raw_lock, received, observed>>

\* Variant: a dispatcher goes on as long as the run does.
EndPassStubborn(e) ==
  /\ dpc[e] = "drain" /\ cur[e] > Len(Rings[e])
  /\ cur' = [cur EXCEPT ![e] = 1]
  /\ got_any' = [got_any EXCEPT ![e] = FALSE]
  /\ UNCHANGED <<shutdown, ring, elapsed, rxVars, coordVars, dpc, seen_shutdown, drained,
                 raw_lock, received, observed, counted, total_slots>>

\* End of a pass.  After shutdown the dispatcher returns when the pass found
\* nothing, or when its post-shutdown budget is over, which takes an earlier
\* pass that saw the flag; otherwise it starts over.
EndPass(e) ==
  /\ dpc[e] = "drain" /\ cur[e] > Len(Rings[e])
  /\ seen_shutdown' = [seen_shutdown EXCEPT ![e] = shutdown]
  /\ \/ /\ shutdown /\ (~got_any[e] \/ seen_shutdown[e])
        /\ dpc' = [dpc EXCEPT ![e] = "finished"]
     \/ /\ ~shutdown \/ got_any[e]
        /\ UNCHANGED dpc
  /\ cur' = [cur EXCEPT ![e] = 1]
  /\ got_any' = [got_any EXCEPT ![e] = FALSE]
  /\ UNCHANGED <<shutdown, ring, elapsed, rxVars, coordVars, drained, raw_lock, received,
                 observed, counted, total_slots>>

Dispatcher(e) ==
  /\ Running
  /\ \/ Recv(e) \/ NextRing(e) \/ Match(e) \/ LockRaw(e) \/ WriteRaw(e)
     \/ Count(e) \/ EndPass(e)

----------------------------------------------------------------------------
(* The coordinator, the signal handler and the clock of --duration.         *)

Sigint ==
  /\ Running
  /\ shutdown' = TRUE
  /\ UNCHANGED <<ring, elapsed, rxVars, dispatcherVars, coordVars>>

\* Only the coordinator's loop reads the clock, so the end of --duration counts
\* while the loop runs.
DurationElapses ==
  /\ HasDuration /\ cpc = "loop"
  /\ elapsed' = TRUE
  /\ UNCHANGED <<shutdown, ring, rxVars, dispatcherVars, coordVars>>

ShouldStop == (HasSlots /\ total_slots >= StopSlots) \/ elapsed
AllReceiversFinished == \A s \in Sub : rx[s] = "finished"

\* The coordinator moves from `from` to `to`.
CoordGoes(from, to) == cpc = from /\ cpc' = to

\* Variant: receivers that have gone do not end the run.
CoordStopAlone ==
  /\ CoordGoes("loop", "reclaim1")
  /\ shutdown \/ ShouldStop
  /\ shutdown' = TRUE
  /\ UNCHANGED <<ring, elapsed, rxVars, dispatcherVars, reclaimed, stuck, report>>

\* The coordinator loop ends: the flag is up, the stop condition holds, or
\* every receiver has gone.
CoordStop ==
  /\ CoordGoes("loop", "reclaim1")
  /\ shutdown \/ ShouldStop \/ AllReceiversFinished
  /\ shutdown' = TRUE
  /\ UNCHANGED <<ring, elapsed, rxVars, dispatcherVars, reclaimed, stuck, report>>

\* Variant: the dispatcher is joined however long it takes.
ReclaimJoining(e, from, to) ==
  /\ CoordGoes(from, to) /\ Finished(e)
  /\ reclaimed' = reclaimed \cup {e}
  /\ UNCHANGED <<shutdown, ring, elapsed, rxVars, dispatcherVars, stuck, report>>

\* After the bounded wait, `reclaim_dispatcher` joins the thread if it has
\* finished and gives it up if it has not.
Reclaim(e, from, to) ==
  /\ CoordGoes(from, to)
  /\ reclaimed' = IF Finished(e) THEN reclaimed \cup {e} ELSE reclaimed
  /\ UNCHANGED <<shutdown, ring, elapsed, rxVars, dispatcherVars, stuck, report>>

\* Variant: the receivers are not waited for at all.
SkipReceivers ==
  /\ CoordGoes("receivers", "flush")
  /\ UNCHANGED <<shutdown, ring, elapsed, rxVars, dispatcherVars, reclaimed, stuck, report>>

\* After the second bounded wait, the receivers still running are stuck.
AwaitReceivers ==
  /\ CoordGoes("receivers", "flush")
  /\ stuck' = {s \in Sub : rx[s] # "finished"}
  /\ UNCHANGED <<shutdown, ring, elapsed, rxVars, dispatcherVars, reclaimed, report>>

\* The raw writer is locked for the last flush: this wait has no bound.
FlushRaw ==
  /\ CoordGoes("flush", "received")
  /\ RawRecords => raw_lock = None
  /\ UNCHANGED <<shutdown, ring, elapsed, rxVars, dispatcherVars, reclaimed, stuck, report>>

\* The joined counters (zero for a dispatcher given up) and the capture totals.
ReadReceived ==
  /\ CoordGoes("received", "dropped")
  /\ report' = [report EXCEPT
       !.received = received,
       !.counted = [s \in Sub |-> IF EndpointOf(s) \in reclaimed THEN counted[s] ELSE 0]]
  /\ UNCHANGED <<shutdown, ring, elapsed, rxVars, dispatcherVars, reclaimed, stuck>>

ReadDropped ==
  /\ CoordGoes("dropped", "unwrap")
  /\ report' = [report EXCEPT !.dropped = dropped]
  /\ UNCHANGED <<shutdown, ring, elapsed, rxVars, dispatcherVars, reclaimed, stuck>>

\* Variant: one dispatcher less is enough.
UnwrapShared ==
  /\ CoordGoes("unwrap", "write")
  /\ report' = IF \E e \in Endpoint : Finished(e)
               THEN [report EXCEPT !.kept = TRUE, !.observed = observed]
               ELSE report
  /\ UNCHANGED <<shutdown, ring, elapsed, rxVars, dispatcherVars, reclaimed, stuck>>

\* `Arc::try_unwrap`: the shared matchers if no dispatcher holds them any
\* more, otherwise empty ones.
Unwrap ==
  /\ CoordGoes("unwrap", "write")
  /\ report' = IF \A e \in Endpoint : Finished(e)
               THEN [report EXCEPT !.kept = TRUE, !.observed = observed]
               ELSE report
  /\ UNCHANGED <<shutdown, ring, elapsed, rxVars, dispatcherVars, reclaimed, stuck>>

\* The result file is written and the process leaves; stuck threads go with it.
WriteResult ==
  /\ CoordGoes("write", "done")
  /\ UNCHANGED <<shutdown, ring, elapsed, rxVars, dispatcherVars, reclaimed, stuck, report>>

Coordinator ==
  \/ CoordStop
  \/ Reclaim(1, "reclaim1", "reclaim2")
  \/ Reclaim(2, "reclaim2", "receivers")
  \/ AwaitReceivers \/ FlushRaw \/ ReadReceived \/ ReadDropped \/ Unwrap \/ WriteResult

Next ==
  \/ \E s \in Sub : Receiver(s)
  \/ \E e \in Endpoint : Dispatcher(e)
  \/ Sigint
  \/ DurationElapses
  \/ Coordinator
  \/ ~Running /\ UNCHANGED vars

Spec == Init /\ [][Next]_vars

\* The coordinator is scheduled and its bounded waits end.
CoordFair == WF_vars(Coordinator)
CoordSpec == Spec /\ CoordFair

\* The dispatchers are scheduled and no write of theirs blocks for ever.
DispatchersFair == \A e \in Endpoint : WF_vars(Dispatcher(e))

----------------------------------------------------------------------------
(* Properties.                                                              *)

TypeOK ==
  /\ shutdown \in BOOLEAN /\ elapsed \in BOOLEAN
  /\ rx \in [Sub -> {"outer", "connecting", "inner", "poll", "overflow", "finished"}]
  /\ ring \in [Sub -> 0..Capacity]
  /\ dropped \in [Sub -> Nat] /\ received \in [Sub -> Nat]
  /\ observed \in [Sub -> Nat] /\ counted \in [Sub -> Nat]
  /\ sent \in [Sub -> Nat] /\ lost \in [Sub -> Nat] /\ late \in [Sub -> Nat]
  /\ dpc \in [Endpoint -> {"drain", "match", "lock", "write", "count", "finished"}]
  /\ cur \in [Endpoint -> Nat \ {0}]
  /\ \A e \in Endpoint : cur[e] <= Len(Rings[e]) + 1
  /\ drained \in [Endpoint -> 0..DrainBudget]
  /\ got_any \in [Endpoint -> BOOLEAN] /\ seen_shutdown \in [Endpoint -> BOOLEAN]
  /\ raw_lock \in Endpoint \cup {None}
  /\ total_slots \in Nat
  /\ cpc \in {"loop", "reclaim1", "reclaim2", "receivers", "flush", "received",
              "dropped", "unwrap", "write", "done"}
  /\ reclaimed \in SUBSET Endpoint
  /\ stuck \in SUBSET Sub
  /\ report \in [kept : BOOLEAN, received : [Sub -> Nat], dropped : [Sub -> Nat],
                 counted : [Sub -> Nat], observed : [Sub -> Nat]]

\* 1 when the dispatcher of s is at one of the steps `at` of an event of s.
InHand(s, at) ==
  LET e == EndpointOf(s)
  IN IF dpc[e] \in at /\ RingAt(e) = s THEN 1 ELSE 0

\* The ledger of a subscription: an event given to try_send is waiting in its
\* ring, was received, was or is about to be counted as dropped, or was offered
\* to a dispatcher that is gone; and a received event has reached the matchers
\* and the dispatcher's counters, or is in the dispatcher's hands.
EventLedger ==
  \A s \in Sub :
    /\ sent[s] = ring[s] + received[s] + dropped[s] + lost[s]
                   + IF rx[s] = "overflow" THEN 1 ELSE 0
    /\ received[s] = observed[s] + InHand(s, {"match"})
    /\ observed[s] = counted[s] + InHand(s, {"lock", "write", "count"})

\* Nothing is lost without a count while the run is on, and after the shutdown
\* a receiver loses at most the one event it was waiting for: it looks at the
\* flag before every poll.
LossOnlyAtTheEnd ==
  \A s \in Sub : lost[s] <= IF shutdown THEN 1 ELSE 0

\* The raw writer is locked by the dispatcher that is writing, never by one
\* that has moved on, so the last flush waits for a write in progress only.
RawLockHeld ==
  \A e \in Endpoint : raw_lock = e <=> dpc[e] = "write"

\* Dispatchers joined and receivers gone: the result is complete.  What it
\* reports as received is what the matchers and the counters saw, and what was
\* sent is reported as received or dropped but for what the rings still held
\* and the events that came after.
Clean == cpc = "done" /\ reclaimed = Endpoint /\ stuck = {}
CleanReportComplete ==
  Clean =>
    /\ report.kept
    /\ \A s \in Sub :
         /\ report.received[s] = report.observed[s]
         /\ report.received[s] = report.counted[s]
         /\ sent[s] = report.received[s] + report.dropped[s] + ring[s] + lost[s]

\* The shared matchers are read only when nobody can add to them: if they made
\* it into the result they hold everything that was received.
KeptMeansFinal ==
  report.kept => \A s \in Sub : report.observed[s] = received[s]

\* "any residual events are drained" (run.rs, dispatcher_thread_main): a
\* dispatcher that returns after a pass that found nothing leaves only events
\* that came after the shutdown.  NOT what the code does: the pass may have
\* begun before the shutdown, and a ring been filled after its turn.
Returns(e) == ~Finished(e) /\ Finished(e)'
LeavesOnlyLate(e) == \A s \in Sub : EndpointOf(s) = e => ring[s] <= late[s]
DrainedOnReturn ==
  [][\A e \in Endpoint : Returns(e) /\ ~got_any[e] => LeavesOnlyLate(e)]_vars

\* What it does: it holds of a dispatcher that had seen the flag at the end of
\* an earlier pass, because it looks at every ring again.
DrainedOnSecondLook ==
  [][\A e \in Endpoint :
       Returns(e) /\ ~got_any[e] /\ seen_shutdown[e] => LeavesOnlyLate(e)]_vars

\* A run that has been told to stop writes its result, whatever the receivers
\* and the dispatchers do: any of them may be wedged.  With --raw-records this
\* is NOT so: a dispatcher wedged in the middle of a raw record keeps the lock
\* the coordinator needs for the last flush.
StopsWithResult == CoordFair => (shutdown ~> cpc = "done")

\* It also stops by itself once every receiver has given up.
StopsWithoutReceivers == CoordFair => (AllReceiversFinished ~> cpc = "done")

\* The dispatchers return after the shutdown, whatever the receivers and the
\* coordinator do, unless the process leaves first.
DispatchersReturn ==
  DispatchersFair => \A e \in Endpoint : shutdown ~> (Finished(e) \/ cpc = "done")

============================================================================
