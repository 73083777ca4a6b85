# grpc-bench in TLA+

grpc-bench compares two Solana Geyser gRPC endpoints: it subscribes to the same
streams at both, stamps every update on arrival, pairs the two arrivals of each
event and reports who was faster and by how much. What the report is worth
depends on code that is easy to get subtly wrong and hard to test: threads that
hand events over through bounded rings, matching state that is evicted while it
is used, a shutdown that must produce a result whatever the workers are doing,
counters read at different moments that must still add up, and a configuration
put together from a command line, an overlay and a file.

This directory holds TLA+ models of that code, the TLC configurations that check
them, and proofs checked by TLAPS. Source paths below are relative to
`src/src/`.

## 1. The system

| Component | State | Operations | Talks to |
|---|---|---|---|
| Configuration (`config.rs`, `bin/grpc-bench.rs`) | none | parse, validate, merge with the overlay | affinity, start of a run |
| Program list (`programs.rs`) | none | `load` | start of a run |
| Start of a run (`run.rs` `execute`) | plan, version answers, threads spawned, real-time count | ask the endpoints, plan, spawn receivers, escalate, open the raw file | version check, subscription plan, affinity, rings |
| Version check (`proto.rs`) | none | parse the answer, classify, warn | endpoints |
| Subscription plan (`subscribe/mod.rs`) | none | `from_run_config` | configuration, program list |
| Affinity (`collect/mod.rs`) | none | `auto_for_core_count`, `from_flat_vec`, `from_structured`, `core_for_subscription` | configuration |
| Receivers (`run.rs` `receiver_thread_main`, `subscribe/yellowstone.rs`) | connection, last error and its count, statistics | connect, subscribe, poll, decode, `try_send`, reconnect, give up | server, their ring, the shutdown flag |
| Decoding (`collect/mod.rs` `decode`) | none | update to event, nothing or an error | receivers |
| Rings (`collect/ring.rs`) | bounded channel, `received`, `dropped` | `try_send`, `try_recv` | one receiver, one dispatcher |
| Dispatchers (`run.rs` `dispatcher_thread_main`, `dispatch_event`) | position in a pass, counters, their endpoint's trackers | drain passes with a budget per ring, dispatch, return | rings, shared matchers, raw writer, slot counter, shutdown flag |
| Matchers (`matching/`) | pending events of both endpoints, digests, counts | `dispatch`, `observe`, `evict`, summaries | both dispatchers under locks; coordinator at the end |
| Stability tracker (`stability.rs`) | last slot event, arrivals per stage | `observe` | one dispatcher |
| Cross-stream tracker (`crossstream.rs`) | waiting transactions and account updates | `observe_tx`, `observe_account` | one dispatcher |
| Raw writer (`raw.rs`) | file, buffer, first error | `write`, `flush`, `take_warning`, drop | both dispatchers and the coordinator, under a mutex |
| Ping tasks (`run.rs` `ping_task`) | sum and count of durations | ping every 30 s | their own connection; the coordinator reads the average |
| Coordinator (`run.rs` `execute`) | stage of the shutdown, the result | wait, stop, join with deadlines, flush, merge, write | everybody |
| Output document (`summary.rs`) | none | serialise | coordinator |
| Host metadata, timestamps (`env.rs`, `timing/`) | none | reads of `/proc` and clocks | coordinator, receivers |

How they interact: one receiver thread and one ring per subscription; one
dispatcher thread per endpoint draining the rings of that endpoint in the order
of the plan; the matchers shared by the two dispatchers through
`Arc<Mutex<_>>` (accounts: a sharded map); everything else of an endpoint owned
by its dispatcher and handed back by `join`. A shared flag stops all of them:
SIGINT, the stop condition or the end of all receivers raises it.

Where it is hard, and the properties that matter:

- **Pairing.** The two arrivals of an event come in either order, any number of
  events apart, and the pending maps are swept only every 256 calls. No pair
  inside the window may be missed, none counted twice, memory must stay bounded,
  the summary must be exact although eviction and the digest are batched, and
  things that are not the same must never pair.
- **Accounting.** Every decoded event must be in exactly one place: waiting in a
  ring, in a dispatcher's hands, matched and counted, or counted as dropped. The
  readings that enter the result are taken one after the other while threads may
  still run.
- **Stopping.** The result must be written after SIGINT whatever receivers and
  dispatchers do. Joining is bounded, and what was not joined must not corrupt
  what is reported.
- **Reconnecting.** A receiver must give up exactly on a repeated failure, must
  keep looking at the shutdown flag, and must not give up on a flapping stream
  that still delivers.
- **Order of observation.** A dispatcher drains ring after ring, so what it
  observes is not in order of arrival. Trackers that look at consecutive events
  are exposed to it, and so is the slot count that ends a run.
- **A disk that fails.** The raw records must never have a hole in the middle,
  and a file that lost records must not look complete.
- **Starting.** What is refused, what is opened, which core and priority each
  thread gets and what the result says of it depend on options, defaults,
  overlay and answers with missing fields, each with a rule of its own.
- **Boundaries.** The edge of the windows, the stall threshold, the last chunk
  of programs, the split of the cores, ring sizes at both ends.

The list of hazards, each at its line with the properties that cover it, is in
`PROJECT.json`.

## 2. Modules

| Module | Models | Extends or uses |
|---|---|---|
| `PairMatcher` | `matching/mod.rs`: `PairMatcher` with batched eviction, buffered digest and summary | |
| `Pairing` | abstract: what a cross-endpoint matcher promises | |
| `PairMatcherProofs` | proofs about `PairMatcher` | `PairMatcher` |
| `Pipeline` | `run.rs`, `collect/ring.rs`: receivers, rings, dispatchers, raw writer's lock, coordinator, shutdown | |
| `PipelineProofs` | proofs about `Pipeline` | `Pipeline` |
| `Receiver` | `run.rs` `receiver_thread_main`: outcomes of every call, error count, reconnects | implements `ReceiverLife` |
| `ReceiverLife` | abstract: the receiver thread `Pipeline` assumes | |
| `ReceiverProofs` | proofs about `Receiver` | `Receiver` |
| `AccountMatcher` | `matching/accounts.rs`: shards per owner, identity key, two books per program, two summaries | |
| `AccountProofs` | proofs about `AccountMatcher` | `AccountMatcher`, `DataLemmas` |
| `Stability`, `CrossStream` | `stability.rs`, `crossstream.rs` as records with update operators | |
| `Trackers` | the two trackers of an endpoint fed through the rings | `SubscriptionPlan`, `Stability`, `CrossStream` |
| `TrackersProofs` | proofs about both trackers | `Trackers`, `DataLemmas` |
| `Dispatch` | `decode`, `dispatch` and the slot, transaction and block matchers: what becomes an event, which matcher takes it under which key | |
| `RawWriter` | `raw.rs` as a record with operators that return the set of outcomes | |
| `Session` | `dispatch_event` with the content of events, `ping_task`, the end of `execute`: joining, flushing, merging, reading the averages | `Dispatch`, `RawWriter` |
| `SessionProofs` | proofs about `Session` | `Session`, `DataLemmas` |
| `SubscriptionPlan` | `subscribe/mod.rs` `from_run_config` as an operator | |
| `Affinity` | `collect/mod.rs`: the three forms of a core layout and their validation | |
| `Config` | `config.rs`: defaults, overlay, validation, merge | `Affinity` |
| `Programs` | `programs.rs`: the list of programs over lines of columns | |
| `Proto` | `proto.rs`: verdict and warnings on a version answer | |
| `StartUp` | `main` and the first part of `execute`: validate, load, ask, plan, spawn, escalate, open | `Config`, `Programs`, `SubscriptionPlan`, `Proto` |
| `StartUpProofs` | proofs about `StartUp` | `StartUp`, `DataLemmas` |
| `Selection` | what the program does with lists: filter, drop repetitions, cut into chunks | used by the plan, the program list, the session |
| `DataLemmas` | proofs: induction, the operators of `Selection`, concatenation, sums, counting, taking turns | `Selection` |
| `MC...` | constants for TLC | the module they are named after |

`PROJECT.json` maps every definition to its lines. Definitions whose comment
begins with "Variant" are deliberate mistakes; no specification uses them. Each
of them breaks a property of some run, which shows that the property says
something about the code.

### How states and actions correspond to the code

*PairMatcher.* One call of `observe` is one action because callers hold a lock
for the whole call; the two dispatchers decide the order of calls, so every
order is a behaviour. The action does everything the call does: raise the high
water mark, run the eviction pass when it is the `EVICT_EVERY`-th call, then
look for the partner, then count or hold. `Summarise` is
`LatencyDigestSummary::from_matcher` with its last pass and flush. Latencies are
compared by sign, so the digest is the number of samples in it.

*Pipeline.* A step is what a thread does between two points where another can
interfere. `try_send` and the increment of `dropped` that follows it are two
steps, and so are the pop of `try_recv` with its `received` count, the matchers,
the raw record under its mutex, and the dispatcher's own counters. The
coordinator's stages are `cpc`: reclaim both dispatchers, wait for the
receivers, flush the raw file, read `received`, read `dropped`, unwrap the
matchers, write. Time is not modelled: a bounded wait may end at any moment,
which covers every speed of every thread. Events have no content; what happened
to those of a subscription is counted per subscription.

*Receiver.* `pc` is the point in the two nested loops; every outcome of
connecting, subscribing, polling and decoding is an action. The refinement
`ImplementsLife` says that the thread `Pipeline` assumes is the one that is
there.

*AccountMatcher.* One shard per owner as in the code, each a pair matcher
reduced to what it holds and counts, with the program's digest beside it.
`Report` is `summary` followed by `per_program_summary`; shards of one name
overwrite each other in the table in an order nobody chooses, as in the code.

*Trackers.* A subscription stamps its events on arrival and puts them into its
ring, or counts them as dropped when the ring is full: rings have the capacity
`RingCapacity` gives the stream, as in the code, and dropping and counting are
one step here, since nothing reads the count in between (`Pipeline` has the two
steps, and the shutdown). The dispatcher goes from ring to ring with its budget.
`arrived` and `taken` are the times of all slot events and of those that found
room. The subscriptions
are those `PlanOf` gives for a configuration, in plan order, so a finding here
is about runs a user can start.

*Session.* Where `Pipeline` has threads and no content, `Session` has content
and only the steps that content depends on: an update is decoded and dispatched
(`Take`), its record written under the mutex (`WriteRaw`), and counted
(`Count`). An update is written as the event it decodes to, with marks for an
identity or a stage that does not decode. Each matcher is what `Pairing` says of
one inside its window. The raw writer is a buffer over a file: a spill that
fails may have written any number of records of the buffer, and the buffer keeps
the rest, which the drop of the writer attempts once more. The ping tasks are
their two nested loops with `record` as two additions, because the coordinator
reads the two numbers one after the other while the tasks go on. Ping durations
are left out: the sum is the number of samples in it. Rings, joins and deadlines
are `Pipeline`'s; here an event simply comes, and `Join` finds any subset of
dispatchers finished.

The atomics of the ping tracker are `Relaxed`. The model interleaves, so it does
not show the two additions of one `record` in the other order; the property it
checks allows a difference of one sample in either direction, which is all that
reordering could add.

*StartUp.* The command line is a record of the options something reads, with
the content of the files it names. `ParseArgs` is `Config::from_cli`,
`LoadPrograms` is `ProgramSet::load`. The endpoints are asked one after the
other, a refusal ends the run, then the plan, and the receivers one by one with
`idx_in_endpoint`. Each receiver asks for its real-time priority on its own, at
any time after its spawn, and the main thread after the last spawn; both count
in `rt_applied`. Answers are records of shape, package, plugin version and proto
version, each missing, unreadable or a triple, and of whether a Solana version is
named.

## 3. What is checked

TLC, all runs with the constants in the `.cfg` file of that name:

| Run | States of | Properties |
|---|---|---|
| `pair_matcher` | all orders of arrival of three keys at two endpoints | `OneSidePerKey`, `Conservation`, `NoMissedPair`, `BoundedStale`, `ReportExact`, `InWindowLeavesByMatch`, `ImplementsPairing` |
| `pipeline` | two receivers, two dispatchers, coordinator, raw records, `--slots` | `TypeOK`, `EventLedger`, `LossOnlyAtTheEnd`, `CleanReportComplete`, `KeptMeansFinal`, `DrainedOnSecondLook` |
| `pipeline_live` | solo mode, two rings in one dispatcher, `--slots` and `--duration`, no raw records | `StopsWithResult`, `StopsWithoutReceivers`, `DispatchersReturn` |
| `raw_wedged` | as `pipeline_live` with raw records, events in both rings, `--slots` only | `StopsWithResult` fails |
| `receiver` | one receiver against every sequence of outcomes | `GivesUpExactly`, `ImplementsLife`, `FinishesUnlessHung` |
| `accounts` | four writes of three owners, two versions | `PairedAcrossVersions`, `BooksAgree`, `TableAddsUp` |
| `accounts_cpi` | the same | `OneMatchPerIdentity` fails |
| `trackers` | five configurations, two slots, three keys, a slot ring of one event | `StallsExact`, `SilencesCovered`, `FirstArrivalHeld`, `CrossPaired`, `CrossBounded` |
| `phantom_stall` | slots beside entries | `StallsAreSilences` fails |
| `drift_missing` | two commitments | `DriftPopulated` fails |
| `start_up` | twelve accepted and twenty-six rejected command lines, all kinds of version answers | `RefusedForCause`, `AnswerOnRecord`, `EveryProgramOnce`, `StreamBudget`, `CoresApart`, `CanStop`, `OverlayOnlyFillsIn`, `RealtimeHonest` |
| `session` | seven setups: slots in any order, routing, two commitments, raw records with and without a second endpoint, ping tasks | `PairedOnce`, `SlotsCountedOnce`, `RawHasNoHole`, `RawComplete`, `PingReadingClose` |

What the newer of these say:

- `StallsExact`: with one source of slot events the stalls are the silences among
  the events its ring took. An event the ring did not take may have come in such
  a silence; then the endpoint was not silent, and the stall is wrong. There are
  never more of these than events counted as dropped, so that the stalls of a
  report without drops are all real.
- `RefusedForCause`: a run is refused exactly when an endpoint's answer gives
  cause under the three version rules, and no thread is spawned before every
  endpoint has answered. `AnswerOnRecord`: whatever an endpoint answers other
  than the version the program was built with leaves a warning, with one
  exception named in section 5.
- `CoresApart`: however the pins were given, no two receivers of different
  endpoints share a core and none shares with control or main thread.
- `CanStop`: a run that is let start can end by itself, with one exception
  named in section 5.
- `OverlayOnlyFillsIn`: an overlay changes only what the command line leaves
  open. `RealtimeHonest`: the result claims real-time priority exactly when
  every thread that counts was granted it.
- `PairedOnce`: in every matcher the number of matches is between one and the
  smaller number of deliveries for each thing both endpoints delivered, so
  different things never pair and a common one is never missed.
- `SlotsCountedOnce`, `RawHasNoHole`, `RawComplete`, `PingReadingClose`: see the
  comments in `Session`.

### Bounds, and why they are enough

- `pair_matcher`: `Window = 1`, slots 1, 2 and 4, so that a key is inside the
  window, on its edge and outside it, and one pass finds several stale entries; `EvictEvery = 3` with three calls per
  endpoint puts a pass before, between and after the arrivals of a pair;
  `BufferFlush = 2` reaches a flush and a partly filled buffer. `MaxObs` only
  cuts the length of runs. The theorems below lift all of these bounds.
- `pipeline`: rings of one event and a budget of one make every ring full and
  every share used up; two events on one subscription and one on the other are
  enough for a drop, a late event and an event offered to a dispatcher that is
  gone. The safety properties are proved for all values, so this run is there to
  find mistakes cheaply and to exercise the mutants.
- `pipeline_live`: solo mode leaves the dispatcher of endpoint 2 without rings,
  the degenerate case of its loop; one slot event is enough for the stop
  condition to hold or never hold, with the clock of `--duration` beside it, and
  the second ring stays empty, so that each pass goes over a ring with nothing in it.
- `receiver`: the real limit of five, two error texts so that they can
  alternate, three events, decode errors and stream ends each so that a memory
  of failures can be cleared and refilled.
- `accounts`: two writes of one program a window apart, one of a program ahead
  of it and one of an owner without a name; two write versions; `EvictEvery = 2`.
- `trackers`: three time units around a threshold of one, three events, a
  budget of one. A baseline of 8 gives the slots a ring of one event and the
  others more than three. Three slot events, the second of them dropped, make a
  stall that is no silence: the bound of `StallsExact` is reached. In two rings
  three events make a phantom stall without a drop; `phantom_stall` and `drift_missing` have rings no run of theirs
  fills, so that their counterexamples are not about drops.
- `start_up`: one command line per rule around a plain one. Heavy and light
  programs in one list, chunk sizes that divide it, that do not, and zero; hosts
  of 4, 6, 7, 8 and 12 cores; flat and structured pins, single and overlapping;
  ring baselines of 1, 9, 64 and one that saturates a small `usize`; an overlay
  against options given, defaulted and invalid; every malformed kind of row in
  the program list; versions on both sides of every comparison, in all shapes of
  an answer.
- `session`: a setup per question, because the parts of the state do not
  interact: three slot events per endpoint for a repetition and a step back; two
  identities at two commitments twice at each endpoint; a buffer of two records
  with two events per endpoint, or four at one, so that a spill, a failed spill
  and the drop with records left occur; two or three pings, so that one falls
  before, one into and one after the reading. The theorems below lift
  all of these bounds.

### Fairness

Only where the operating system or a timeout justifies it, and as a hypothesis
of the liveness property that needs it:

- `CoordFair`: the coordinator is scheduled and its waits are bounded by
  `DISPATCHER_JOIN_TIMEOUT` and `RECEIVER_JOIN_TIMEOUT`. Nothing is assumed of
  receivers or dispatchers: `StopsWithResult` holds with all of them wedged.
- `DispatchersFair`: a dispatcher is scheduled and its writes return, for
  `DispatchersReturn` only.
- `Receiver!Fair`: polls end after `STREAM_POLL_TIMEOUT`, pauses end, connection
  attempts time out. Subscribing is left out, since `open_subscription` has no
  timeout.

Deadlock is checked in `pipeline` and `receiver`; in the other models a run
may come to its end (a summary was taken, the bound was reached, the run
started, the process exited).

## 4. What is proved

Every safety and action property of the passing runs, and both refinements, are
theorems: TLAPS checks them for all values of the constants. What is assumed of
the constants is named in the modules and evaluated by TLC on every run:

- batch, buffer, ring and budget sizes are positive; slots, times and bounds are
  natural numbers; every subscription is in a ring of exactly one endpoint and
  every configuration opens one on endpoint 1;
- `StartUpAssumption`, `ProtoAssumption`: a command line, an answer to
  `GetVersion` and the versions built in have the types their Rust types have
  (`IsCommandLine`, `IsAffinity`, `IsReport`), for instance three natural
  numbers for a version, and a ring baseline fits a `usize`;
- `ConfigsAssumption`: the trackers run under what `Config` accepts, at least
  one commitment, one stream in solo mode, one program per filter;
- `SessionAssumption`: what a server sends is an update (`IsUpdate`).

**`PairMatcherProofs`.** All safety and action properties of
`pair_matcher`, type correctness, and `Refinement`: the matcher implements
`Pairing`. The inductive invariant `IInv` adds to the checked properties
`WaitsInWindow`: a key an endpoint delivered is still held there, or paired, or
its slot has left the window. `NoMissedPair` follows from it with
`OneSidePerKey`, and is not inductive by itself, because it says nothing of a
key that only one endpoint has delivered. The arithmetic of evictions rests on
lemmas about one pass (`SweepFacts`) and on cardinalities of finite sets; that
the pending maps are finite is part of the type invariant, since the set of keys
need not be. The refinement maps the held entries to waiting arrivals and the
cutoff of the high water mark to the horizon.

**`PipelineProofs`.** All safety and action properties of `pipeline`. The
invariant is built in layers, each proved preserved given those before it:

1. `Types` and `AtRings`: a dispatcher with an event in hand is at one of its
   own rings. Three frame lemmas say what each kind of thread leaves alone.
2. `RawLockHeld` and `EventLedger` are inductive over `Types`.
3. `LossInv`: a dispatcher has returned only after the shutdown, and a receiver
   that lost an event is between two looks at the flag. It bounds losses by one.
4. `ReportInv`: what the coordinator has read still holds, because a joined
   dispatcher and a finished receiver take no further step. With the ledger it
   gives `CleanReportComplete` and `KeptMeansFinal`.
5. `LookInv`: in a pass that began after the flag was seen and has found
   nothing, the rings behind the dispatcher hold late events only. At the end of
   the pass "behind" is everything, which is `DrainedOnSecondLook`.

**`ReceiverProofs`.** `GivesUpExactly` for any limit and any error texts, and
`ImplementsLife`, so that the thread `Pipeline` is proved about is the one the
code has. The code keeps one text and one count; the history variable `recent`
keeps the failures themselves. The invariant says what the count means: it is
the length of the longest run of equal failures at the end of `recent`, and
before the end of the thread it is below the limit (`AtTheLimit`). A failure at
the limit then is the limit-th equal one, and one with a new text starts a run
of length one.

**`DataLemmas`.** Most of the remaining theorems are about data of any length: a
plan is a concatenation, a summary is a sum, a check looks at what was selected
from a history. The library's induction theorems take a predicate, which the
provers cannot instantiate. Here the hypothesis is a set: from the least element
of a set of naturals follows `Induct` (a set with 0 and every successor has all
of `Nat`) and `InductOverSet` for finite sets. With these the recursive functions
behind `Only`, `FlattenSeq` and the sums of the community modules are shown to
exist (`SelectorExists`, `ConcatenatorExists`, `AdderExists`), after which each
is characterised by first-order facts: what a selection holds and in what order
(`OnlyIs`, `OnlyAppend`), where an element of a concatenation comes from and
where it is (`FlattenComesFrom`), that a sum changes by what one term changes by
(`SumPlusOne`), how many elements of a sequence are in a set (`HowMany`, additive
over concatenation), that chunks cut a list without loss or overlap
(`ChunksFacts`), and how often each of n is taken after m turns (`TurnsFacts`).
`Only` is written as a recursive function where the library has `SelectSeq`,
because a proof can unfold it.

**`SessionProofs`.** All properties of `session`, for any updates and setups.

- `RawHasNoHole`: while no error is latched, file and buffer together are the
  records handed over; once one is, nothing is added to either, and spilling,
  failed or not, flushing and dropping only move records from buffer to file
  (`SpillKeeps`, `FailedKeeps`). What the two hold is always a prefix.
- `PingReadingClose`: the sum is ahead of the count by one exactly between the
  two additions; after the shutdown no new ping starts, so that from one reading
  to the other at most one sample is completed (`OneMoreAtMost`).
- The others rest on `DispatchInv`, which says what a dispatcher has in hand.
  `SlotInv`: there is a set of slots, as many as were counted, all of which came,
  none of which is above the last one counted, and which is all but slot 0 while
  slots come in order. The set is not in the state; each step that counts gives
  a new one with one slot more.
- `RawComplete`: a dispatcher has written what it took, but for the event in
  hand (`WrittenInv`); what was delivered is taken, malformed or a control
  message (`CountedInv`); an error is in the warning until the coordinator takes
  it, so if it found none the last flush put everything on disk (`FileInv`).
- `PairedOnce`: `PairInv` gives each matcher a number of matches per thing, which
  add up to its count: with what waits they are never more than an endpoint
  delivered of it, and what was delivered was matched or waits. That a thing is
  one key within a matcher, and a key one thing, is a lemma about the keys of
  the code (`KeysAreThings`).

**`AccountProofs`.** All properties of `accounts`, with the type invariant.
`PairedAcrossVersions`: the invariant says of every delivery where it is, waiting
in its owner's shard, matched, or behind the window of that shard (`Placed`),
that no identity waits on both sides (`OneSide`), and that the high water mark
of a shard is the latest slot its own program was seen in (`MarkIsLatest`), which
is what makes the property speak of the program alone. `BooksAgree`: the matches
of a shard are the sum over the writes of its owner; writes seen are finitely
many and the others have no match (`BooksInv`). `TableAddsUp`: a sum over owners
is the sum over the rows of the table, the names being apart.

**`TrackersProofs`.** All properties of `trackers`, for any configurations and
any order in which the dispatcher drains rings.

- `CrossPaired` and `CrossBounded`: lemmas about one observation (`TxFacts`,
  `AccountFacts`), an invariant on where every observed key is, and one on
  counts: samples plus the waiting entry never outnumber the observations of a
  key on a stream.
- `SilencesCovered`: the tracker's clock is at the slot event observed last
  (`ClockInv`), so the clock goes over a silence in one observation, and that
  one records a stall around it.
- `FirstArrivalHeld`: what carries slots has one commitment or none, a fact
  about every plan (`PlanFacts`), so one stage only is ever recorded (`OneLabel`).
- `StallsExact`: with one source, the tracker has seen the first events the ring
  took and the others wait there, in order (`Consumed`); stalls are the
  wide gaps between neighbours among the first (`FarNeighbours`). Slot times that
  arrived and that no taken event has are at most as many as drops
  (`FewMissing`). A wide gap that is no silence of the endpoint has one of them
  strictly inside, and as the gaps are disjoint each has another
  (`PhantomsAreMissing`), which bounds their number.

**`StartUpProofs`.** All properties of `start_up`, for any command lines, program
lists, answers and sizes. The invariant follows the phases: what is validated is
accepted and becomes the configuration (`ConfigInv`); there are no more answers
than endpoints, and a run goes on only past answers without a cause (`AnswerInv`);
the plan is that of the configuration (`PlanInv`); there is a receiver for each
subscription once all are spawned, none has real-time priority in a run that did
not ask for it, and the count is that of the threads that have (`ReceiverInv`).

- `RefusedForCause`: the code asks in an order and stops at the first cause,
  `HasCause` states the rules; the lemma `RefusalHasCause` is their equivalence,
  which comes down to the order of versions. `AnswerOnRecord` likewise
  (`SilentAnswers`).
- `EveryProgramOnce` and `StreamBudget`: the subscriptions of a plan in a set are
  counted as the sum over its parts (`PlanCount`, `MainPlanCount`), those of one
  commitment from the filters: a heavy program is alone, the others are in
  exactly one chunk (`ListedInOneFilter`, `NumberOfFilters`, `FilterSizes`).
- `CoresApart`: pins that were accepted are apart, in each of their forms: the
  split of `auto`, a flat vector, and sections by role with distinct cores
  (`PinsApart`, from `AutoApart`, `FlatApart`, `StructuredApart`); the receivers
  of an endpoint have taken its cores in turn, core j as often as `Turns` says
  (`SpreadInv`), and no two such numbers are further apart than one.
- `CanStop`: the plan of an accepted run has a slot subscription on endpoint 1,
  but for a solo run that did not ask for one (`SlotsAreAsked`). `OverlayOnlyFillsIn`, `RealtimeHonest`: from
  `ConfigInv` and `ReceiverInv`.

**Only model-checked.** Liveness: `StopsWithResult`, `StopsWithoutReceivers`,
`DispatchersReturn` and `FinishesUnlessHung`, which hold under fairness and are
out of TLAPS's reach. A TLC run is also what shows that the properties are not
empty: each is broken by a mutant of the code under the run's constants.

## 5. Findings

Each is a run that ends in a counterexample, against a sentence of the
repository:

1. **`raw_wedged`** (code). The last flush takes the raw writer's mutex without
   a bound (`run.rs:666`). A dispatcher blocked inside a raw write holds it, so
   the result is not written and the forced exit, meant for just this case
   (`run.rs:771`), is not reached.
2. **`drift_missing`** (code). In a run with two commitments the
   processed-to-confirmed drift is never sampled: the plan opens one slot
   subscription per endpoint labelled with the first commitment, and the tracker
   counts a stage only under its own label.
3. **`phantom_stall`** (documentation). With an entries subscription a stall can
   be recorded although slot events arrived regularly and none was dropped: both
   subscriptions carry slot events, the tracker sees one ring after the other and
   compares each stamp with that of the event it observed before.
4. **`accounts_cpi`** (documentation). Repetitions of one identity seen
   alternately by the endpoints give one match each, not one in all.

Read in the code while modelling, without a run of their own:

*Collecting and stopping*

- `run.rs:878` says residual events are drained on return. A dispatcher whose
  pass began before the shutdown returns with events in a ring filled after its
  turn. `Pipeline` states this as `DrainedOnReturn`, which does not hold, and
  the guarantee the code does give as `DrainedOnSecondLook`, which is proved.
- A dispatcher given up at its deadline may return before the matchers are
  unwrapped; the result then has real matchers and empty per-endpoint state
  (`run.rs:728`). `KeptMeansFinal` shows the matchers are final all the same.
- `received` is counted when an event leaves the ring, so it does not include
  dropped events as the comment at `collect/mod.rs:884` suggests.
- A stream that ends without a status (`run.rs:1225`) is neither recorded nor
  followed by the pause the comment at `run.rs:1140` announces.
- The comment at `run.rs:846` (two slot subscriptions per endpoint) is about an
  earlier plan. The counter keeps the highest slot counted, so a slot that comes
  after a later one, and slot 0, are not counted, although `run.rs:265` speaks
  of distinct slots.
- Dispatchers are spawned after the main thread has raised its own priority and
  pinned itself; on Linux a new thread inherits both, while `run.rs:379` says
  dispatchers run under `SCHED_OTHER`.
- After a failed ping the task reconnects without a pause, so against an
  endpoint that accepts connections and refuses the call the 30 seconds between
  pings do not apply.
- The average ping is a sum divided by a count read after it; the two differ by
  one sample at most (`PingReadingClose`), and without a sample it is null.

*Matching and trackers*

- Owners without a name share the table entry "unknown", the last one replacing
  the others (`matching/accounts.rs:280`); `TableAddsUp` is stated for owners
  with names apart.
- `record_disconnect` and `record_reconnect` are called by tests only, so the
  disconnect list of the result (RUNBOOK.md:554) is always empty.
- A slot whose drift is never computed is never removed from
  `processed_arrivals`: it grows by one entry per slot (`FirstArrivalHeld`).
- With two commitments a transaction or account update arrives twice under a key
  without commitment, and the second arrival is held or matched like a new one:
  the two endpoints may pair across commitments. Blocks carry the commitment in
  their key and do not (`PairedOnce`).
- `common_slots` and `unique_slots` of the result are constants.

*Starting*

- The plugin baseline is not enforced when the plugin's major differs from the
  minimum's or the proto version cannot be read (`proto.rs:427`); `HasCause`
  states the rule as it is.
- An answer that names a package and no version at all is accepted as unknown
  and leaves no warning, against `proto.rs:269`. A version given as plain text
  warns about the text but not about a drift.
- An explicit `--log-level info` cannot be told from the default and loses to
  the overlay (`config.rs:217` and `config.rs:461` say the command line wins).
- `--solo --solo-streams accounts --slots N` without `--duration` is accepted and
  never ends by itself, since nobody counts slots (`CanStop` names the exception).
- A line of blanks only in the program list is a malformed row, not an empty one.
- The control core is reported and given to no thread; the host metadata report
  the pins asked for, also where pinning failed; `reconnect_test` is only echoed.

*Raw records and the result*

- A raw warning goes to the log and never into the result (`raw.rs:129` says
  it is surfaced there); `bytes_written` is reported although the last flush
  failed; `decode_errors` is counted and surfaced nowhere, against
  `collect/mod.rs:888`.

## 6. What is not modelled

- Panics: a dispatcher that panics is given up like one that is late, and its
  rings are closed early. No reachable panic was found in its loop; the models
  have none.
- The copying of protobuf fields other than those that identify an event, the
  JSON of results and raw records (`summary.rs` is types and serialisation),
  quantiles: conversions without a decision, covered by unit tests.
- `env.rs` and `timing/`: reads of `/proc`, `/sys` and clocks, each of which
  falls back to an empty value; the kernel timestamps are wired into no run.
- The periodic snapshot in the coordinator loop (`run.rs:614`): it is a line of
  the log.
- A receiver whose runtime cannot be built returns at once (`run.rs:1132-1138`).
  It has no step of its own: `Pipeline`'s receivers may finish at their first
  attempt to connect (`RxConnect`), having sent nothing, and the rest of the
  system sees the same in both cases.
- Options that are only echoed in the result (`reconnect_test`) or handed on to
  the connection (tokens, size limits).
- `EvictionPolicy::Lru`: never constructed.
- Memory order: the models interleave. The only place where two `Relaxed`
  counters are compared is the ping average, see section 2.

## 7. Plan

All parts of the first plan are done, and every safety property a run checks is
proved. What would be worth adding:

1. `Session` as a refinement of what it takes over: its matchers against
   `Pairing` inside the window, its dispatchers against those of `Pipeline`
   with content forgotten.
2. An abstract specification of the shutdown, and `Pipeline` shown to implement
   it: one result, after the flag, from numbers that no longer change or are
   marked as partial.
3. `AccountMatcher`'s shards as instances of `Pairing`, one per owner.
4. `Session` over the rings of `Pipeline` in place of events that simply come,
   if the joint state space can be kept small.
5. The pairing across commitments as a run of its own, if the repository comes
   to say what it should be.
