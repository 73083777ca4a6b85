------------------------------ MODULE StartUp -------------------------------
(***************************************************************************)
(* The start of a run: `main`, and the first part of `execute` in           *)
(* src/src/run.rs.  Validate the command line, load the programs, connect   *)
(* to each endpoint and ask for its version, refuse or go on, make the      *)
(* plan, and spawn a receiver with a ring and a core for each subscription. *)
(* Each of these threads asks for its real-time priority on its own.  What  *)
(* the threads do then is module Pipeline.                                  *)
(***************************************************************************)
EXTENDS Config, Programs, SubscriptionPlan, Proto, FiniteSets

CONSTANTS
  CommandLines, \* command lines (Config) the program may be started with
  Reports       \* per endpoint, the answers it may give to GetVersion

ASSUME StartUpAssumption ==
  /\ MaxUsize \in Nat
  /\ \A c \in CommandLines : IsCommandLine(c) /\ c.ring_capacity <= MaxUsize
  /\ \A e \in {1, 2} : \A r \in Reports[e] : IsReport(r)

VARIABLES
  cli,
  phase,        \* "args", "load", "connect", "ask", "plan", "spawn", "escalate",
                \* "raw", "started"; at the end "rejected", "refused" or "failed"
  config,       \* None until it is validated
  answers,      \* per endpoint asked so far, its answer to GetVersion
  plan,
  idx,          \* idx_in_endpoint: receivers spawned per endpoint
  receivers,    \* what each receiver was spawned with, in order, and its policy
  coordinator,  \* the policy of the main thread
  rt_applied    \* rt_applied_count

vars == <<cli, phase, config, answers, plan, idx, receivers, coordinator, rt_applied>>

Init ==
  /\ cli \in CommandLines
  /\ phase = "args"
  /\ config = None
  /\ answers = <<>>
  /\ plan = <<>>
  /\ idx = [e \in {1, 2} |-> 0]
  /\ receivers = <<>>
  /\ coordinator = "other"
  /\ rt_applied = 0

Config1 == config[1]

----------------------------------------------------------------------------
\* `main`: exit code 2 on a configuration error.
ParseArgs ==
  /\ phase = "args"
  /\ IF Acceptable(cli)
     THEN config' = Some(ConfigOf(cli)) /\ phase' = "load"
     ELSE phase' = "rejected" /\ UNCHANGED config
  /\ UNCHANGED <<cli, answers, plan, idx, receivers, coordinator, rt_applied>>

LoadPrograms ==
  /\ phase = "load"
  /\ IF ProgramsLoad(cli.programs)
     THEN /\ config' = Some([Config1 EXCEPT !.programs = ProgramsOf(cli.programs)])
          /\ phase' = "connect"
     ELSE phase' = "failed" /\ UNCHANGED config
  /\ UNCHANGED <<cli, answers, plan, idx, receivers, coordinator, rt_applied>>

\* The endpoint it is at.
Asking == Len(answers) + 1

Connected ==
  /\ phase = "connect"
  /\ phase' = "ask"
  /\ UNCHANGED <<cli, config, answers, plan, idx, receivers, coordinator, rt_applied>>

\* A token or URL that cannot be used, no connection within the timeout, an
\* error in answer to GetVersion, or none within its timeout.
ConnectOrAskFails ==
  /\ phase \in {"connect", "ask"}
  /\ phase' = "failed"
  /\ UNCHANGED <<cli, config, answers, plan, idx, receivers, coordinator, rt_applied>>

AfterAnswer(e) == IF e = 1 /\ ~Config1.solo THEN "connect" ELSE "plan"

\* It answers: a refusal ends the run, anything else is recorded at most as a
\* warning.
Answer(r) ==
  /\ phase = "ask" /\ r \in Reports[Asking]
  /\ answers' = Append(answers, r)
  /\ phase' = IF IsRefusal(Verdict(r)) THEN "refused" ELSE AfterAnswer(Asking)
  /\ UNCHANGED <<cli, config, plan, idx, receivers, coordinator, rt_applied>>

MakePlan ==
  /\ phase = "plan"
  /\ plan' = PlanOf(Config1)
  /\ phase' = IF plan' = <<>> THEN "failed" ELSE "spawn"
  /\ UNCHANGED <<cli, config, answers, idx, receivers, coordinator, rt_applied>>

IdxAfter(sub) == [idx EXCEPT ![sub.endpoint] = @ + 1]

\* The next subscription of the plan gets a ring, a core and a thread, which
\* starts with the policy of a thread that asked for nothing.
Spawn ==
  /\ phase = "spawn"
  /\ LET sub == plan[Len(receivers) + 1]
         e == sub.endpoint
     IN /\ receivers' = Append(receivers,
             [endpoint |-> e, stream |-> sub.stream,
              core |-> CoreFor(Config1.layout, e, idx[e]),
              capacity |-> RingCapacity(sub.stream, Config1.ring_capacity),
              policy |-> IF Config1.realtime THEN "new" ELSE "other"])
        /\ idx' = IdxAfter(sub)
  /\ phase' = IF Len(receivers) + 1 < Len(plan) THEN "spawn" ELSE "escalate"
  /\ UNCHANGED <<cli, config, answers, plan, coordinator, rt_applied>>

\* `apply_realtime` in a receiver thread, granted or not; a pin that fails is
\* only logged.
ReceiverEscalates(i, granted) ==
  /\ i \in DOMAIN receivers /\ receivers[i].policy = "new"
  /\ receivers' = [receivers EXCEPT ![i].policy = IF granted THEN "fifo" ELSE "other"]
  /\ rt_applied' = IF granted THEN rt_applied + 1 ELSE rt_applied
  /\ UNCHANGED <<cli, phase, config, answers, plan, idx, coordinator>>

\* The main thread does the same once it has spawned the receivers.
Escalate(granted) ==
  /\ phase = "escalate" /\ (granted => Config1.realtime)
  /\ coordinator' = IF granted THEN "fifo" ELSE coordinator
  /\ rt_applied' = IF granted THEN rt_applied + 1 ELSE rt_applied
  /\ phase' = "raw"
  /\ UNCHANGED <<cli, config, answers, plan, idx, receivers>>

\* With --raw-records the file is created; without it or if that works, the
\* dispatchers start.
OpenRaw ==
  /\ phase = "raw"
  /\ phase' \in IF Given(Config1.raw_records) THEN {"started", "failed"} ELSE {"started"}
  /\ UNCHANGED <<cli, config, answers, plan, idx, receivers, coordinator, rt_applied>>

\* Variant: the main thread is forgotten.
RtExpectedOfReceivers == IF Config1.realtime THEN Len(plan) ELSE 0

\* `rt_expected_count`: the receivers and the main thread.
RtExpected == IF Config1.realtime THEN Len(plan) + 1 ELSE 0

\* What the result says of real-time priority, read at the end of the run.
RtClaim == RtExpected > 0 /\ rt_applied >= RtExpected

Next ==
  \/ ParseArgs \/ LoadPrograms \/ Connected \/ ConnectOrAskFails
  \/ \E r \in Reports[1] \cup Reports[2] : Answer(r)
  \/ MakePlan \/ Spawn
  \/ \E i \in DOMAIN receivers, granted \in BOOLEAN : ReceiverEscalates(i, granted)
  \/ \E granted \in BOOLEAN : Escalate(granted)
  \/ OpenRaw

Spec == Init /\ [][Next]_vars

----------------------------------------------------------------------------
(* Properties.                                                              *)

\* Below the minimum of its package: of the minimum's own major, with an
\* earlier minor, or of the same minor an earlier patch.
TooOld(package, v) ==
  /\ package \in DOMAIN Minimum
  /\ LET m == Minimum[package]
     IN v[1] = m[1] /\ (v[2] < m[2] \/ (v[2] = m[2] /\ v[3] < m[3]))

\* What is wrong with an answer whose proto version can be read: the major of
\* the proto version, or the plugin version, or where there is none the proto
\* version in its place.
HasCause(r) ==
  LET proto == IF r.proto = Missing THEN r.version ELSE r.proto
  IN /\ Readable(proto)
     /\ \/ proto[1] < Harness[1]
        \/ Readable(r.version) /\ TooOld(r.package, r.version)
        \/ ~Readable(r.version) /\ TooOld(r.package, proto)

\* The run is refused exactly when an endpoint gave cause, no other answer,
\* however incomplete, stops it; and no thread is started before every
\* endpoint the plan connects to has answered without giving cause.
RefusedForCause ==
  /\ phase = "refused" <=> \E i \in DOMAIN answers : HasCause(answers[i])
  /\ receivers # <<>> =>
       \A i \in DOMAIN plan :
         plan[i].stream # "entries" =>
           plan[i].endpoint \in DOMAIN answers /\ ~HasCause(answers[plan[i].endpoint])

\* What an endpoint answered other than the version the program was built with
\* is on record as a warning, in whatever shape it came; all but one case: an
\* answer that names a package and no version at all leaves no trace.
AnswerOnRecord ==
  \A i \in DOMAIN answers :
    LET r == answers[i]
        proto == IF r.proto = Missing THEN r.version ELSE r.proto
    IN (phase = "started" /\ Warnings(r) = {}) =>
         \/ proto = Harness
         \/ proto = Missing /\ r.package # NoPackage

\* Per endpoint and commitment each program of the file is in exactly one
\* account filter, and against a second endpoint a heavy one is alone in it.
Listed == {line[2] : line \in {l \in ToSet(cli.programs[1]) : Len(l) > 1 /\ l[1] # CommentColumn}}
AccountFiltersOf(e, commitment) ==
  {i \in DOMAIN plan : /\ plan[i].stream = "accounts"
                       /\ plan[i].endpoint = e /\ plan[i].commitment = commitment}
EveryProgramOnce ==
  plan # <<>> =>
  \A e \in {1, 2} : \A n \in DOMAIN cli.commitment :
    LET filters == AccountFiltersOf(e, cli.commitment[n])
        Watching(p) == {i \in filters : p \in ToSet(plan[i].programs)}
    IN /\ ~cli.solo => filters # {}
       /\ filters # {} =>
         /\ \A p \in Listed : Cardinality(Watching(p)) = 1
         /\ ~cli.solo =>
              \A i \in filters :
                /\ Len(plan[i].programs) \in 1..Config1.per_filter
                /\ ToSet(plan[i].programs) \cap Heavy # {} => Len(plan[i].programs) = 1

\* The number of streams an endpoint must admit is the one RUNBOOK.md gives
\* operators to stay below a provider's cap: 1 (slots) + per commitment the
\* heavy programs, the rest divided by the chunk size and rounded up, one for
\* transactions and one for blocks; entries go to a URL of their own.
Streams(e) == {i \in DOMAIN plan : plan[i].endpoint = e /\ plan[i].stream # "entries"}
StreamBudget ==
  (plan # <<>> /\ ~cli.solo) =>
    LET light == Cardinality(Listed \ Heavy)
        perCommitment ==
          Cardinality({n \in 1..light : (n - 1) % Config1.per_filter = 0})
            + Cardinality(Listed \cap Heavy)
            + (IF cli.with_transactions THEN 1 ELSE 0)
            + (IF cli.with_blocks THEN 1 ELSE 0)
    IN \A e \in {1, 2} :
         Cardinality(Streams(e)) = 1 + Len(cli.commitment) * perCommitment

\* Wherever the pins come from, no two receivers of different endpoints share
\* a core, none sits on the core of the main thread or on the control core, and
\* the cores of an endpoint are used evenly; a single core given for all is the
\* exception.  `auto` leaves cores 0 and 1 to the kernel.
Asked ==
  IF Given(cli.cpu_affinity) THEN ToSet(AllSections(cli.cpu_affinity[1]))
  ELSE UNION {ToSet(OverlayOf(cli).cpu_affinity[i]) : i \in DOMAIN OverlayOf(cli).cpu_affinity}
On(e, core) == {i \in DOMAIN receivers : receivers[i].endpoint = e /\ receivers[i].core = core}
CoresApart ==
  /\ \A i \in DOMAIN receivers :
       LET core == receivers[i].core
       IN core # NoCore =>
            /\ Cardinality(Asked) # 1 =>
                 /\ core \notin {Config1.layout.control, Config1.layout.processor}
                 /\ On(3 - receivers[i].endpoint, core) = {}
            /\ Asked = {} => core \in 2..(cli.cpu_affinity[1].nproc - 1)
  /\ receivers # <<>> =>
       \A e \in {1, 2} : \A c, d \in ToSet(Config1.layout.receivers[e]) :
         Cardinality(On(e, c)) <= Cardinality(On(e, d)) + 1

\* A run that was let start can end by itself: after a time, or at a number of
\* slots for which endpoint 1 is asked for slot events; but for --solo without
\* the slot stream and without a time, which is accepted and never ends so.
CanStop ==
  phase = "started" =>
    \/ Given(cli.duration)
    \/ /\ Given(cli.slots)
       /\ \/ \E i \in DOMAIN plan : plan[i].endpoint = 1 /\ CarriesSlots(plan[i])
          \/ cli.solo /\ "slots" \notin ToSet(cli.solo_streams)

\* The overlay fills in what the command line leaves open and changes nothing
\* else: raw_records, the pins, and a log level other than the default are as
\* they would be without it, and so is every field it has no name for.
OverlayOnlyFillsIn ==
  config # None =>
    LET alone == ConfigOf([cli EXCEPT !.config = None])
    IN \A f \in DOMAIN alone :
         \/ f = "raw_records" /\ ~Given(cli.raw_records)
         \/ f = "layout" /\ ~Given(cli.cpu_affinity)
         \/ f = "log_level" /\ cli.log_level = "info"
         \/ f = "programs"
         \/ Config1[f] = alone[f]

\* The result claims real-time priority exactly when every receiver and the
\* main thread were granted it, whatever the order in which they asked.
RealtimeHonest ==
  phase = "started" =>
    (RtClaim <=> /\ cli.realtime /\ coordinator = "fifo"
                 /\ Len(receivers) = Len(plan)
                 /\ \A i \in DOMAIN receivers : receivers[i].policy = "fifo")

============================================================================
