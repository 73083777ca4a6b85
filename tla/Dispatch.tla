------------------------------ MODULE Dispatch ------------------------------
(***************************************************************************)
(* From an update of the server to an event, `decode` of                    *)
(* src/src/collect/mod.rs, and on to a matcher under a key: `dispatch` and  *)
(* StreamMatchers of src/src/matching/mod.rs with the slot, transaction and *)
(* block matchers.  A matcher does inside its window what module Pairing    *)
(* says, so of each only the keys that wait and the matches are kept.       *)
(***************************************************************************)
EXTENDS Integers, FiniteSets

\* An event: the kind of its payload, the stage of a slot event, its slot, the
\* signature, blockhash or account it carries, the commitment of the
\* subscription it came on (NoLevel for entries subscriptions).
Event(kind, stage, slot, id, commitment) ==
  [kind |-> kind, stage |-> stage, slot |-> slot, id |-> id, commitment |-> commitment]
NoLevel == "none"
NoId == "none"

Stages == {"first_shred", "completed", "created_bank", "processed", "confirmed", "finalized"}

\* An update is written as the event it decodes to.  One of the kind "control"
\* is none of the five that are measured; a stage may be unknown to the
\* program, and an identity Broken: absent, of the wrong length or not base58.
Broken == "broken"
IsControl(update) == update.kind = "control"
Malformed(update) ==
  \/ update.kind = "slot" /\ update.stage \notin Stages \cup {"dead"}
  \/ update.kind \in {"account", "transaction", "block"} /\ update.id = Broken
Decodes(update) == ~IsControl(update) /\ ~Malformed(update)

\* Only slot events have a stage.
IsUpdate(u) ==
  /\ u = Event(u.kind, u.stage, u.slot, u.id, u.commitment)
  /\ u.kind \in {"slot", "account", "transaction", "block", "entry", "control"}
  /\ u.slot \in Nat /\ (u.kind # "slot" => u.stage = NoId)

MatcherNames == Stages \cup {"accounts", "transactions", "blocks"}

\* A slot marked dead, an entry, and a block of an entries subscription go to
\* no matcher.
MatchersOf(event) ==
  CASE event.kind = "slot" -> {event.stage} \cap Stages
    [] event.kind = "account" -> {"accounts"}
    [] event.kind = "transaction" -> {"transactions"}
    [] event.kind = "block" -> IF event.commitment = NoLevel THEN {} ELSE {"blocks"}
    [] event.kind = "entry" -> {}

\* Variant: blocks of different commitments are not told apart.
KeyOfHash(event) == [slot |-> event.slot, id |-> event.id, commitment |-> NoLevel]

\* Only blocks are told apart by the commitment.
KeyOf(event) ==
  [slot |-> event.slot, id |-> event.id,
   commitment |-> IF event.kind = "block" THEN event.commitment ELSE NoLevel]

NewMatchers == [n \in MatcherNames |-> [waiting |-> [e \in {1, 2} |-> {}], matched |-> 0]]

\* One `observe`: a key the other endpoint waits with is a match.
ObservedBy(m, e, key) ==
  IF key \in m.waiting[3 - e]
  THEN [waiting |-> [m.waiting EXCEPT ![3 - e] = @ \ {key}], matched |-> m.matched + 1]
  ELSE [m EXCEPT !.waiting[e] = @ \cup {key}]

\* `dispatch`
Dispatched(matchers, e, event) ==
  [n \in MatcherNames |->
     IF n \in MatchersOf(event) THEN ObservedBy(matchers[n], e, KeyOf(event)) ELSE matchers[n]]

\* What enters the result: a summary per stage and for accounts, and one for
\* transactions and blocks where they were asked for.
Comparative(matchers, with_transactions, with_blocks) ==
  [n \in Stages \cup {"accounts"} \cup (IF with_transactions THEN {"transactions"} ELSE {})
                \cup (IF with_blocks THEN {"blocks"} ELSE {}) |-> matchers[n].matched]

=============================================================================
