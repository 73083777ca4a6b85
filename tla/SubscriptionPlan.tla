-------------------------- MODULE SubscriptionPlan --------------------------
(***************************************************************************)
(* Which subscriptions a run opens and in which order: from_run_config of   *)
(* src/src/subscribe/mod.rs, as an operator on the configuration.  And how  *)
(* many events the ring of each holds (src/src/run.rs).                     *)
(*                                                                          *)
(* A configuration is a record: solo, solo_streams, commitments (distinct,  *)
(* in the order given), programs (distinct, in the order of the file),      *)
(* per_filter, with_transactions, with_blocks, and the endpoints that have  *)
(* an entries URL.  Of a request only the programs of its filter are kept.  *)
(***************************************************************************)
EXTENDS Integers, Sequences, SequencesExt, Selection

CONSTANTS
  Heavy,           \* KNOWN_HEAVY_PROGRAMS
  MaxUsize         \* usize::MAX

MainStreams == {"slots", "accounts", "transactions", "blocks"}
Commitments == {"processed", "confirmed", "finalized"}

\* Entries subscriptions have no commitment in their role.
NoCommitment == "none"

Subscription(e, stream, commitment, programs) ==
  [endpoint |-> e, stream |-> stream, commitment |-> commitment, programs |-> programs]

\* The programs a filter of this stream lists.
FilterOf(c, stream) ==
  IF stream \in {"accounts", "transactions"} THEN c.programs ELSE <<>>

\* --solo: the listed streams on endpoint 1, once each, unchunked.
SoloPlan(c) ==
  LET streams == Distinct(c.solo_streams)
  IN [i \in DOMAIN streams |->
        Subscription(1, streams[i], c.commitments[1], FilterOf(c, streams[i]))]

\* Variant: heavy programs are chunked with the others.
AccountFiltersMixed(c) == Chunks(c.programs, c.per_filter)

\* A heavy program is alone in its filter; the others are chunked.
AccountFilters(c) ==
  LET heavy == Only(c.programs, Heavy)
      light == Only(c.programs, ToSet(c.programs) \ Heavy)
  IN [i \in DOMAIN heavy |-> <<heavy[i]>>] \o Chunks(light, c.per_filter)

\* Accounts, then transactions, then blocks.
PerCommitment(c, e, commitment) ==
  LET filters == AccountFilters(c)
      Other(wanted, stream) ==
        IF wanted THEN <<Subscription(e, stream, commitment, FilterOf(c, stream))>> ELSE <<>>
  IN [i \in DOMAIN filters |-> Subscription(e, "accounts", commitment, filters[i])]
       \o Other(c.with_transactions, "transactions")
       \o Other(c.with_blocks, "blocks")

\* One slot subscription, labelled with the first commitment, then the rest
\* commitment by commitment.
MainPlan(c, e) ==
  <<Subscription(e, "slots", c.commitments[1], <<>>)>>
    \o FlattenSeq([i \in DOMAIN c.commitments |-> PerCommitment(c, e, c.commitments[i])])

EntriesPlan(c, e) ==
  IF e \in c.entries THEN <<Subscription(e, "entries", NoCommitment, <<>>)>> ELSE <<>>

PlanOf(c) ==
  IF c.solo THEN SoloPlan(c)
  ELSE MainPlan(c, 1) \o MainPlan(c, 2) \o EntriesPlan(c, 1) \o EntriesPlan(c, 2)

\* The subscriptions of one endpoint, the order of its dispatcher's rings.
OfEndpoint(plan, e) == Only(plan, {s \in ToSet(plan) : s.endpoint = e})

\* Slot events come on a slot subscription, and on an entries subscription,
\* whose request carries a slot filter too.
CarriesSlots(s) == s.stream \in {"slots", "entries"}

\* `saturating_mul`
SaturatingMul(a, b) == IF a * b > MaxUsize THEN MaxUsize ELSE a * b

\* `ring_capacity_for`: never less than one event.
RingCapacity(stream, baseline) ==
  LET scaled == CASE stream = "accounts" -> SaturatingMul(baseline, 4)
                  [] stream \in {"transactions", "entries"} -> baseline
                  [] stream = "blocks" -> baseline \div 2
                  [] stream = "slots" -> baseline \div 8
  IN IF scaled = 0 THEN 1 ELSE scaled

============================================================================
