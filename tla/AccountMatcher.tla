--------------------------- MODULE AccountMatcher ---------------------------
(***************************************************************************)
(* The account matcher of src/src/matching/accounts.rs.  Account updates    *)
(* are routed by owner to a shard, which holds a pair matcher and the       *)
(* digest of its program; `observe` holds the lock of the shard throughout. *)
(* At the end the overall summary adds the shards up and the per-program    *)
(* summary lists them by the short name of their owner.                     *)
(*                                                                          *)
(* A write is what one transaction does to one account: (slot, pubkey,      *)
(* txn_signature).  Each delivery of it carries the write version of the    *)
(* validator behind the endpoint.  It carries the owner as well, taken here *)
(* to be the same at both endpoints.  The pair matcher of a shard is that   *)
(* of module PairMatcher, reduced to what is pending and what is counted.   *)
(***************************************************************************)
EXTENDS Integers, FiniteSets, FiniteSetsExt, Functions

CONSTANTS
  Write,        \* (slot, pubkey, txn_signature)
  Version,      \* write versions
  Owner,        \* owners of accounts
  SlotOf,       \* the slot of each write
  OwnerOf,      \* the owner of the account of each write
  NameOf,       \* program_short_names, "unknown" where there is none
  Strict,       \* strict_account_key
  Window,       \* SlotWindow { window }
  EvictEvery,   \* EVICT_EVERY
  MaxObs        \* bound: calls of `observe` per endpoint

ASSUME AccountAssumption ==
  /\ SlotOf \in [Write -> Nat]
  /\ OwnerOf \in [Write -> Owner]
  /\ Strict \in BOOLEAN
  /\ Version \subseteq Nat
  /\ Window \in Nat /\ EvictEvery \in Nat \ {0} /\ MaxObs \in Nat

VARIABLES
  shards,       \* one record per owner seen so far
  report,       \* the two summaries, once taken
  \* History variables, read by no action.
  observed,     \* calls of `observe` per endpoint
  seen,         \* writes each endpoint has delivered
  paired        \* per write, the matches it took part in

vars == <<shards, report, observed, seen, paired>>

Endpoint == {1, 2}
Other(e) == 3 - e
NoReport == [overall |-> 0, programs |-> <<>>]

Cutoff(high) == IF high > Window THEN high - Window ELSE 0

\* The identity: the write version belongs to it in strict mode only.
KeyOf(w, v) == <<w, IF Strict THEN v ELSE 0>>
SlotOfKey(k) == SlotOf[k[1]]

Kept(pending, high) == [e \in Endpoint |-> {k \in pending[e] : SlotOfKey(k) >= Cutoff(high)}]

NewShard == [pending |-> [e \in Endpoint |-> {}], high |-> 0, obs |-> 0,
             matched |-> 0, program |-> 0]

Init ==
  /\ shards = <<>>
  /\ report = NoReport
  /\ observed = [e \in Endpoint |-> 0]
  /\ seen = [e \in Endpoint |-> {}]
  /\ paired = [w \in Write |-> 0]

\* `entry(owner).or_insert_with`
ShardOf(o) == IF o \in DOMAIN shards THEN shards[o] ELSE NewShard

\* Variant: one high water mark for all shards.
HighOfAll(o, slot) ==
  LET highs == {slot} \cup {shards[p].high : p \in DOMAIN shards} IN Max(highs)

HighAfter(o, slot) == IF slot > ShardOf(o).high THEN slot ELSE ShardOf(o).high

\* Calls since the last eviction pass.
ObsAfter(s) == (s.obs + 1) % EvictEvery

\* Variant: only the first match of a program is pushed to its digest.
PushedFirst(s) == 1

\* ProgramDigest::push
Pushed(s) == s.program + 1

\* The pair matcher of the shard takes the event; a match goes to the digest
\* of the program as well.
ObservedIn(s, e, k, high, kept) ==
  IF k \in kept[Other(e)]
  THEN [pending |-> [kept EXCEPT ![Other(e)] = @ \ {k}], high |-> high,
        obs |-> ObsAfter(s), matched |-> s.matched + 1, program |-> Pushed(s)]
  ELSE [pending |-> [kept EXCEPT ![e] = @ \cup {k}], high |-> high,
        obs |-> ObsAfter(s), matched |-> s.matched, program |-> s.program]

Observe(e, w, v) ==
  LET o == OwnerOf[w]
      s == ShardOf(o)
      high == HighAfter(o, SlotOf[w])
      kept == IF s.obs + 1 = EvictEvery THEN Kept(s.pending, high) ELSE s.pending
      hit == KeyOf(w, v) \in kept[Other(e)]
  IN /\ report = NoReport /\ observed[e] < MaxObs
     /\ shards' = [p \in DOMAIN shards \cup {o} |->
          IF p = o THEN ObservedIn(s, e, KeyOf(w, v), high, kept) ELSE shards[p]]
     /\ observed' = [observed EXCEPT ![e] = @ + 1]
     /\ seen' = [seen EXCEPT ![e] = @ \cup {w}]
     /\ paired' = [paired EXCEPT ![w] = IF hit THEN @ + 1 ELSE @]
     /\ UNCHANGED report

\* Variant: the matches of a shard that still has pending entries are left out.
OverallPartial ==
  SumFunction([o \in DOMAIN shards |->
    IF shards[o].pending = [e \in Endpoint |-> {}] THEN shards[o].matched ELSE 0])

Overall == SumFunction([o \in DOMAIN shards |-> shards[o].matched])

\* `summary` and `per_program_summary`: a last eviction in every shard, then
\* the sums, and the programs by name; of two shards with one name the one
\* visited last stays.  (With no shard both summaries are empty.)
Report ==
  LET names == {NameOf[o] : o \in DOMAIN shards}
  IN /\ report = NoReport /\ shards # <<>>
     /\ shards' = [o \in DOMAIN shards |->
          [shards[o] EXCEPT !.pending = Kept(@, shards[o].high)]]
     /\ \E last \in [names -> DOMAIN shards] :
          /\ \A n \in names : NameOf[last[n]] = n
          /\ report' = [overall |-> Overall,
                        programs |-> [n \in names |-> shards[last[n]].program]]
     /\ UNCHANGED <<observed, seen, paired>>

Next ==
  \/ \E e \in Endpoint, w \in Write, v \in Version : Observe(e, w, v)
  \/ Report

Spec == Init /\ [][Next]_vars

----------------------------------------------------------------------------
(* Properties.                                                              *)

Keys == Write \X (Version \cup {0})

Shard == [pending : [Endpoint -> SUBSET Keys], high : Nat, obs : 0..(EvictEvery - 1),
          matched : Nat, program : Nat]

\* The shards are well formed whatever is delivered; proved, not checked.
TypeOK ==
  /\ DOMAIN shards \subseteq Owner
  /\ \A o \in DOMAIN shards : shards[o] \in Shard
  /\ observed \in [Endpoint -> 0..MaxObs]
  /\ seen \in [Endpoint -> SUBSET Write]
  /\ paired \in [Write -> Nat]

\* The latest slot in which a program was seen to write.
LatestSlot(o) == Max({0} \cup {SlotOf[w] : w \in {u \in seen[1] \cup seen[2] : OwnerOf[u] = o}})

\* In lenient mode a write that both endpoints delivered is paired whatever
\* versions they gave it, unless its own program has moved a window past it:
\* the slots of other programs evict nothing here.
PairedAcrossVersions ==
  ~Strict =>
    \A w \in seen[1] \cap seen[2] :
      paired[w] > 0 \/ SlotOf[w] < Cutoff(LatestSlot(OwnerOf[w]))

\* The two books kept on a program, in its pair matcher and in its digest,
\* agree with each other and with the matches of its writes.
BooksAgree ==
  \A o \in DOMAIN shards :
    /\ shards[o].program = shards[o].matched
    /\ shards[o].matched =
         SumFunctionOnSet(paired, {w \in seen[1] \cup seen[2] : OwnerOf[w] = o})

\* The per-program table adds up to the overall count, as long as at most one
\* owner seen has no name of its own: ProgramSet refuses duplicate names.
NamesApart == \A o, p \in DOMAIN shards : NameOf[o] = NameOf[p] => o = p
TableAddsUp ==
  report # NoReport /\ NamesApart =>
    report.overall = SumFunction(report.programs)

\* "a CPI burst of N writes contributes one match instead of N" (accounts.rs):
\* deliveries with one identity give one match.  NOT what the code does: when
\* the two endpoints alternate, each repetition finds a partner.
OneMatchPerIdentity == ~Strict => \A w \in Write : paired[w] <= 1

============================================================================
