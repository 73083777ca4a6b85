--------------------------- MODULE AccountProofs ----------------------------
(***************************************************************************)
(* Proofs about AccountMatcher, for any writes, owners, versions and slots, *)
(* any window and any distance between eviction passes.                     *)
(*                                                                          *)
(* PairedAcrossVersions speaks of writes that both endpoints delivered.  It *)
(* becomes inductive once it says of every single delivery where it is:     *)
(* waiting in the shard of its owner, matched, or behind the window of that *)
(* shard, whose high water mark is the latest slot its program was seen in. *)
(* The books are sums over the writes seen so far, of which there are       *)
(* finitely many; a step changes one term, or adds one that is zero or one. *)
(***************************************************************************)
EXTENDS AccountMatcher, DataLemmas

USE DEF Endpoint

\* What is known of one call of `observe`.
LEMMA KeyFacts ==
  ASSUME NEW w \in Write, NEW v \in Version
  PROVE  KeyOf(w, v) \in Keys /\ SlotOfKey(KeyOf(w, v)) = SlotOf[w] /\ SlotOf[w] \in Nat
BY AccountAssumption DEF KeyOf, Keys, SlotOfKey

LEMMA CutoffFacts ==
  ASSUME NEW h \in Nat, NEW g \in Nat, h <= g
  PROVE  Cutoff(h) \in Nat /\ Cutoff(h) <= Cutoff(g)
BY AccountAssumption DEF Cutoff

LEMMA KeptFacts ==
  ASSUME NEW p \in [Endpoint -> SUBSET Keys], NEW h \in Nat
  PROVE  /\ Kept(p, h) \in [Endpoint -> SUBSET Keys]
         /\ \A e \in Endpoint : Kept(p, h)[e] = {k \in p[e] : SlotOfKey(k) >= Cutoff(h)}
BY DEF Kept

LEMMA ShardOfType ==
  ASSUME TypeOK, NEW o \in Owner
  PROVE  ShardOf(o) \in Shard
BY AccountAssumption DEF TypeOK, ShardOf, NewShard, Shard

LEMMA ObservedInFacts ==
  ASSUME NEW s \in Shard, NEW e \in Endpoint, NEW k \in Keys, NEW high \in Nat,
         NEW kept \in [Endpoint -> SUBSET Keys]
  PROVE  /\ ObservedIn(s, e, k, high, kept) \in Shard
         /\ ObservedIn(s, e, k, high, kept).high = high
         /\ k \in kept[Other(e)] =>
              /\ ObservedIn(s, e, k, high, kept).pending[e] = kept[e]
              /\ ObservedIn(s, e, k, high, kept).pending[Other(e)] = kept[Other(e)] \ {k}
         /\ k \notin kept[Other(e)] =>
              /\ ObservedIn(s, e, k, high, kept).pending[e] = kept[e] \cup {k}
              /\ ObservedIn(s, e, k, high, kept).pending[Other(e)] = kept[Other(e)]
<1>1. Other(e) \in Endpoint /\ Other(e) # e
  BY DEF Other
<1>2. ObsAfter(s) \in 0..(EvictEvery - 1)
  BY AccountAssumption DEF ObsAfter, Shard
<1>3. Pushed(s) \in Nat /\ s.matched + 1 \in Nat /\ s.matched \in Nat /\ s.program \in Nat
  BY DEF Pushed, Shard
<1>4. CASE k \in kept[Other(e)]
  <2>1. [kept EXCEPT ![Other(e)] = @ \ {k}] \in [Endpoint -> SUBSET Keys]
    BY <1>1
  <2>2. QED
    BY <1>1, <1>2, <1>3, <1>4, <2>1 DEF ObservedIn, Shard
<1>5. CASE k \notin kept[Other(e)]
  <2>1. [kept EXCEPT ![e] = @ \cup {k}] \in [Endpoint -> SUBSET Keys]
    OBVIOUS
  <2>2. QED
    BY <1>1, <1>2, <1>3, <1>5, <2>1 DEF ObservedIn, Shard
<1>6. QED
  BY <1>4, <1>5

----------------------------------------------------------------------------
(* Types.                                                                   *)

\* The shards stay well formed.
THEOREM AccountTypes == Spec => []TypeOK
<1>1. Init => TypeOK
  BY AccountAssumption DEF Init, TypeOK
<1>2. TypeOK /\ [Next]_vars => TypeOK'
  <2> SUFFICES ASSUME TypeOK, [Next]_vars PROVE TypeOK'
    OBVIOUS
  <2>1. ASSUME NEW e \in Endpoint, NEW w \in Write, NEW v \in Version, Observe(e, w, v)
        PROVE  TypeOK'
    <3> DEFINE o == OwnerOf[w]
               s == ShardOf(o)
               high == HighAfter(o, SlotOf[w])
               kept == IF s.obs + 1 = EvictEvery THEN Kept(s.pending, high) ELSE s.pending
    <3>1. o \in Owner /\ s \in Shard
      BY AccountAssumption, ShardOfType
    <3>2. high \in Nat
      BY <3>1, KeyFacts DEF HighAfter, Shard
    <3>3. kept \in [Endpoint -> SUBSET Keys]
      BY <3>1, <3>2, KeptFacts DEF Shard
    <3>4. shards' = [p \in DOMAIN shards \cup {o} |->
            IF p = o THEN ObservedIn(s, e, KeyOf(w, v), high, kept) ELSE shards[p]]
      BY <2>1 DEF Observe
    <3> HIDE DEF o, s, high, kept
    <3>5. ObservedIn(s, e, KeyOf(w, v), high, kept) \in Shard
      BY <3>1, <3>2, <3>3, KeyFacts, ObservedInFacts
    <3>6. /\ DOMAIN shards' \subseteq Owner
          /\ \A p \in DOMAIN shards' : shards'[p] \in Shard
      BY <3>1, <3>4, <3>5 DEF TypeOK
    <3>7. /\ observed' \in [Endpoint -> 0..MaxObs]
          /\ seen' \in [Endpoint -> SUBSET Write]
          /\ paired' \in [Write -> Nat]
      BY <2>1, AccountAssumption DEF Observe, TypeOK
    <3>8. QED
      BY <3>6, <3>7 DEF TypeOK
  <2>2. ASSUME Report PROVE TypeOK'
    <3>1. \A o \in DOMAIN shards :
            [shards[o] EXCEPT !.pending = Kept(@, shards[o].high)] \in Shard
      BY KeptFacts DEF TypeOK, Shard
    <3>2. shards' = [o \in DOMAIN shards |->
            [shards[o] EXCEPT !.pending = Kept(@, shards[o].high)]]
      BY <2>2 DEF Report
    <3>3. UNCHANGED <<observed, seen, paired>>
      BY <2>2 DEF Report
    <3>4. QED
      BY <3>1, <3>2, <3>3 DEF TypeOK
  <2>3. CASE UNCHANGED vars
    BY <2>3 DEF TypeOK, vars
  <2>4. QED
    BY <2>1, <2>2, <2>3 DEF Next
<1>3. QED
  BY <1>1, <1>2, PTL DEF Spec

----------------------------------------------------------------------------
(* Pairing across write versions.                                           *)

\* The high water mark of a shard is the latest slot of its program.
MarkIsLatest ==
  /\ \A e \in Endpoint : \A w \in seen[e] :
       OwnerOf[w] \in DOMAIN shards /\ SlotOf[w] <= shards[OwnerOf[w]].high
  /\ \A o \in DOMAIN shards :
       shards[o].high = 0 \/ \E w \in seen[1] \cup seen[2] :
                               OwnerOf[w] = o /\ SlotOf[w] = shards[o].high

\* No identity waits on both sides of a shard.
OneSide ==
  \A o \in DOMAIN shards :
    \A k \in Keys : ~(k \in shards[o].pending[1] /\ k \in shards[o].pending[2])

\* Where a delivered write is (lenient mode: the version is not in the key).
Placed ==
  ~Strict =>
    \A e \in Endpoint : \A w \in seen[e] :
      \/ <<w, 0>> \in shards[OwnerOf[w]].pending[e]
      \/ paired[w] > 0
      \/ SlotOf[w] < Cutoff(shards[OwnerOf[w]].high)

AccountInv == TypeOK /\ MarkIsLatest /\ OneSide /\ Placed

LEMMA InitPlaced == Init => AccountInv
BY AccountTypes, AccountAssumption DEF Init, AccountInv, TypeOK, MarkIsLatest, OneSide, Placed

\* One call of `observe` keeps all of it.
LEMMA ObserveKeeps ==
  ASSUME AccountInv, TypeOK',
         NEW e \in Endpoint, NEW w \in Write, NEW v \in Version, Observe(e, w, v)
  PROVE  AccountInv'
<1> DEFINE o == OwnerOf[w]
           s == ShardOf(o)
           high == HighAfter(o, SlotOf[w])
           kept == IF s.obs + 1 = EvictEvery THEN Kept(s.pending, high) ELSE s.pending
           k == KeyOf(w, v)
           t == ObservedIn(s, e, k, high, kept)
           hit == k \in kept[Other(e)]
<1>1. o \in Owner /\ s \in Shard
  BY AccountAssumption, ShardOfType DEF AccountInv
<1>2. high \in Nat /\ s.high <= high /\ SlotOf[w] <= high /\ s.high \in Nat
  BY <1>1, KeyFacts DEF HighAfter, Shard
<1>3. high = s.high \/ high = SlotOf[w]
  BY DEF HighAfter
<1>4. kept \in [Endpoint -> SUBSET Keys]
  BY <1>1, <1>2, KeptFacts DEF Shard
<1>5. \A f \in Endpoint : /\ kept[f] \subseteq s.pending[f]
                          /\ \A x \in s.pending[f] \ kept[f] : SlotOfKey(x) < Cutoff(high)
  <2>1. SUFFICES ASSUME NEW f \in Endpoint
                 PROVE  /\ kept[f] \subseteq s.pending[f]
                        /\ \A x \in s.pending[f] \ kept[f] : SlotOfKey(x) < Cutoff(high)
    OBVIOUS
  <2>2. CASE s.obs + 1 # EvictEvery
    BY <2>2
  <2>3. CASE s.obs + 1 = EvictEvery
    <3>1. kept[f] = {x \in s.pending[f] : SlotOfKey(x) >= Cutoff(high)}
      BY <1>1, <1>2, <2>3, KeptFacts DEF Shard
    <3>2. \A x \in s.pending[f] : SlotOfKey(x) \in Nat
      BY <1>1, AccountAssumption DEF Shard, Keys, SlotOfKey
    <3>3. Cutoff(high) \in Nat
      BY <1>2, CutoffFacts
    <3>4. QED
      BY <3>1, <3>2, <3>3
  <2>4. QED
    BY <2>2, <2>3
<1>6. /\ shards' = [p \in DOMAIN shards \cup {o} |-> IF p = o THEN t ELSE shards[p]]
      /\ seen' = [seen EXCEPT ![e] = @ \cup {w}]
      /\ paired' = [paired EXCEPT ![w] = IF hit THEN @ + 1 ELSE @]
  <2>1. shards' = [p \in DOMAIN shards \cup {o} |-> IF p = o THEN t ELSE shards[p]]
    BY DEF Observe
  <2>2. seen' = [seen EXCEPT ![e] = @ \cup {w}]
    BY DEF Observe
  <2>3. paired' = [paired EXCEPT ![w] = IF hit THEN @ + 1 ELSE @]
    BY DEF Observe
  <2>4. QED
    BY <2>1, <2>2, <2>3
<1>7. \A f \in Endpoint : \A x \in Keys :
        ~(x \in s.pending[1] /\ x \in s.pending[2])
  BY <1>1 DEF AccountInv, OneSide, ShardOf, NewShard
<1>8. k \in Keys /\ SlotOfKey(k) = SlotOf[w] /\ SlotOf[w] \in Nat
  BY KeyFacts
<1> HIDE DEF s, high, kept, k
<1>9. /\ t.high = high /\ t \in Shard
      /\ hit => t.pending[e] = kept[e] /\ t.pending[Other(e)] = kept[Other(e)] \ {k}
      /\ ~hit => t.pending[e] = kept[e] \cup {k} /\ t.pending[Other(e)] = kept[Other(e)]
  <2>1. high \in Nat
    BY <1>2
  <2>2. t \in Shard
    BY <1>1, <1>4, <1>8, <2>1, ObservedInFacts
  <2>3. t.high = high
    BY <1>1, <1>4, <1>8, <2>1, ObservedInFacts
  <2>4. ASSUME hit PROVE t.pending[e] = kept[e]
    BY <1>1, <1>4, <1>8, <2>1, <2>4, ObservedInFacts
  <2>5. ASSUME hit PROVE t.pending[Other(e)] = kept[Other(e)] \ {k}
    BY <1>1, <1>4, <1>8, <2>1, <2>5, ObservedInFacts
  <2>6. ASSUME ~hit
        PROVE  t.pending[e] = kept[e] \cup {k} /\ t.pending[Other(e)] = kept[Other(e)]
    <3>1. t.pending = [kept EXCEPT ![e] = @ \cup {k}]
      BY <2>6 DEF ObservedIn
    <3>2. Other(e) \in Endpoint /\ Other(e) # e
      BY DEF Other
    <3> HIDE DEF t, hit
    <3>3. QED
      BY <1>4, <3>1, <3>2
  <2>7. QED
    BY <2>2, <2>3, <2>4, <2>5, <2>6
<1>10. Other(e) \in Endpoint /\ \A f \in Endpoint : f = e \/ f = Other(e)
  BY DEF Other
<1> HIDE DEF t, hit
<1>11. \A f \in Endpoint : seen[f] \subseteq seen'[f] /\ seen[f] \subseteq Write
  BY <1>6 DEF AccountInv, TypeOK
<1>12. /\ w \in seen'[e]
       /\ \A f \in Endpoint : \A u \in seen'[f] : u \in seen[f] \/ (u = w /\ f = e)
  BY <1>6 DEF AccountInv, TypeOK
<1>13. MarkIsLatest'
  <2>1. ASSUME NEW f \in Endpoint, NEW u \in seen'[f]
        PROVE  OwnerOf[u] \in DOMAIN shards' /\ SlotOf[u] <= shards'[OwnerOf[u]].high
    <3>1. CASE u \in seen[f]
      <4>1. OwnerOf[u] \in DOMAIN shards /\ SlotOf[u] <= shards[OwnerOf[u]].high
        BY <3>1 DEF AccountInv, MarkIsLatest
      <4>2. CASE OwnerOf[u] # o
        BY <1>6, <4>1, <4>2
      <4>3. CASE OwnerOf[u] = o
        <5>1. s = shards[o]
          BY <4>1, <4>3 DEF s, ShardOf
        <5>2. SlotOf[u] \in Nat
          BY <1>11, <3>1, AccountAssumption
        <5>3. SlotOf[u] <= high
          BY <1>2, <4>1, <4>3, <5>1, <5>2
        <5>4. QED
          BY <1>6, <1>9, <4>3, <5>3
      <4>4. QED
        BY <4>2, <4>3
    <3>2. CASE u = w
      BY <1>2, <1>6, <1>9, <3>2
    <3>3. QED
      BY <1>12, <3>1, <3>2
  <2>2. ASSUME NEW p \in DOMAIN shards'
        PROVE  shards'[p].high = 0 \/ \E u \in seen'[1] \cup seen'[2] :
                 OwnerOf[u] = p /\ SlotOf[u] = shards'[p].high
    <3>1. CASE p # o
      BY <1>6, <1>11, <3>1 DEF AccountInv, MarkIsLatest
    <3>2. CASE p = o /\ high = SlotOf[w]
      BY <1>6, <1>9, <1>12, <3>2
    <3>3. CASE p = o /\ high = s.high
      <4>1. CASE o \in DOMAIN shards
        <5>1. s = shards[o]
          BY <4>1 DEF s, ShardOf
        <5>2. QED
          BY <1>6, <1>9, <1>11, <3>3, <4>1, <5>1 DEF AccountInv, MarkIsLatest
      <4>2. CASE o \notin DOMAIN shards
        <5>1. s.high = 0
          BY <4>2 DEF s, ShardOf, NewShard
        <5>2. QED
          BY <1>6, <1>9, <3>3, <5>1
      <4>3. QED
        BY <4>1, <4>2
    <3>4. QED
      BY <1>3, <3>1, <3>2, <3>3
  <2>3. QED
    BY <2>1, <2>2 DEF MarkIsLatest
<1>14. OneSide'
  <2>1. ASSUME NEW x \in Keys PROVE ~(x \in t.pending[e] /\ x \in t.pending[Other(e)])
    <3>1. ~(x \in s.pending[e] /\ x \in s.pending[Other(e)])
      BY <1>7 DEF Other
    <3>2. ~(x \in kept[e] /\ x \in kept[Other(e)])
      BY <1>5, <1>10, <3>1
    <3>3. QED
      BY <1>9, <3>2 DEF hit
  <2>2. \A x \in Keys : ~(x \in t.pending[1] /\ x \in t.pending[2])
    BY <1>10, <2>1 DEF Other
  <2>3. QED
    BY <1>6, <2>2 DEF AccountInv, OneSide
<1>15. Placed'
  <2> SUFFICES ASSUME ~Strict, NEW f \in Endpoint, NEW u \in seen'[f]
               PROVE  \/ <<u, 0>> \in shards'[OwnerOf[u]].pending[f]
                      \/ paired'[u] > 0
                      \/ SlotOf[u] < Cutoff(shards'[OwnerOf[u]].high)
    BY DEF Placed
  <2>1. k = <<w, 0>>
    BY DEF k, KeyOf
  <2>2. u \in Write /\ SlotOf[u] \in Nat
    BY <1>11, <1>12, AccountAssumption
  <2>3. paired[u] \in Nat /\ paired'[u] \in Nat /\ paired'[u] >= paired[u]
        /\ (u = w /\ hit => paired'[u] > 0)
    BY <1>6, <2>2 DEF AccountInv, TypeOK
  <2>4. CASE OwnerOf[u] # o
    <3>1. u \in seen[f] /\ OwnerOf[u] \in DOMAIN shards
      BY <1>12, <2>4 DEF AccountInv, MarkIsLatest
    <3>2. shards'[OwnerOf[u]] = shards[OwnerOf[u]]
      BY <1>6, <2>4, <3>1
    <3>3. QED
      BY <2>3, <3>1, <3>2 DEF AccountInv, Placed
  <2>5. CASE OwnerOf[u] = o
    <3>1. shards'[OwnerOf[u]] = t
      BY <1>6, <2>5
    <3>2. CASE u = w /\ hit
      BY <2>3, <3>2
    <3>3. CASE u = w /\ f = e /\ ~hit
      BY <1>9, <2>1, <3>1, <3>3
    <3>4. CASE u \in seen[f] /\ ~(u = w /\ hit)
      <4>1. OwnerOf[u] \in DOMAIN shards
        BY <3>4 DEF AccountInv, MarkIsLatest
      <4>2. s = shards[o]
        BY <2>5, <4>1 DEF s, ShardOf
      <4>3. \/ <<u, 0>> \in s.pending[f]
            \/ paired[u] > 0
            \/ SlotOf[u] < Cutoff(s.high)
        BY <2>5, <3>4, <4>2 DEF AccountInv, Placed
      <4>4. CASE paired[u] > 0
        BY <2>3, <4>4
      <4>5. CASE SlotOf[u] < Cutoff(s.high)
        <5>1. Cutoff(s.high) \in Nat /\ Cutoff(high) \in Nat /\ Cutoff(s.high) <= Cutoff(high)
          BY <1>2, CutoffFacts
        <5>2. SlotOf[u] < Cutoff(high)
          BY <2>2, <4>5, <5>1
        <5>3. QED
          BY <1>9, <3>1, <5>2
      <4>6. CASE <<u, 0>> \in s.pending[f]
        <5>1. CASE <<u, 0>> \notin kept[f]
          <6>1. SlotOfKey(<<u, 0>>) = SlotOf[u]
            BY DEF SlotOfKey
          <6>2. SlotOf[u] < Cutoff(high)
            BY <1>5, <4>6, <5>1, <6>1
          <6>3. QED
            BY <1>9, <3>1, <6>2
        <5>2. CASE <<u, 0>> \in kept[f]
          <6>1. hit => <<u, 0>> # k
            BY <2>1, <3>4
          <6>2. <<u, 0>> \in t.pending[f]
            BY <1>9, <1>10, <5>2, <6>1
          <6>3. QED
            BY <3>1, <6>2
        <5>3. QED
          BY <5>1, <5>2
      <4>7. QED
        BY <4>3, <4>4, <4>5, <4>6
    <3>5. QED
      BY <1>12, <3>2, <3>3, <3>4
  <2>6. QED
    BY <2>4, <2>5
<1>16. QED
  BY <1>13, <1>14, <1>15 DEF AccountInv

\* The pass of the summary evicts only what is behind the window.
LEMMA ReportKeeps ==
  ASSUME AccountInv, TypeOK', Report
  PROVE  AccountInv'
<1>1. /\ DOMAIN shards' = DOMAIN shards
      /\ \A o \in DOMAIN shards :
           shards'[o] = [shards[o] EXCEPT !.pending = Kept(@, shards[o].high)]
      /\ UNCHANGED <<seen, paired>>
  BY DEF Report
<1>2. \A o \in DOMAIN shards : shards[o] \in Shard
  BY DEF AccountInv, TypeOK
<1>3. \A o \in DOMAIN shards :
        /\ shards'[o].high = shards[o].high /\ shards[o].high \in Nat
        /\ shards'[o].pending = Kept(shards[o].pending, shards[o].high)
  BY <1>1, <1>2 DEF Shard
<1>4. \A o \in DOMAIN shards : \A f \in Endpoint :
        shards'[o].pending[f] =
          {x \in shards[o].pending[f] : SlotOfKey(x) >= Cutoff(shards[o].high)}
  BY <1>2, <1>3, KeptFacts DEF Shard
<1>5. MarkIsLatest'
  BY <1>1, <1>3 DEF AccountInv, MarkIsLatest
<1>6. OneSide'
  BY <1>1, <1>4 DEF AccountInv, OneSide
<1>7. Placed'
  <2> SUFFICES ASSUME ~Strict, NEW f \in Endpoint, NEW u \in seen'[f]
               PROVE  \/ <<u, 0>> \in shards'[OwnerOf[u]].pending[f]
                      \/ paired'[u] > 0
                      \/ SlotOf[u] < Cutoff(shards'[OwnerOf[u]].high)
    BY DEF Placed
  <2> DEFINE o == OwnerOf[u]
  <2>1. u \in seen[f] /\ o \in DOMAIN shards
    BY <1>1 DEF AccountInv, MarkIsLatest
  <2>2. \/ <<u, 0>> \in shards[o].pending[f]
        \/ paired[u] > 0
        \/ SlotOf[u] < Cutoff(shards[o].high)
    BY <2>1 DEF AccountInv, Placed
  <2>3. SlotOfKey(<<u, 0>>) = SlotOf[u]
    BY DEF SlotOfKey
  <2>4. SlotOf[u] \in Nat /\ Cutoff(shards[o].high) \in Nat
    BY <1>3, <2>1, CutoffFacts, AccountAssumption DEF AccountInv, TypeOK
  <2>5. QED
    BY <1>1, <1>3, <1>4, <2>1, <2>2, <2>3, <2>4
<1>8. QED
  BY <1>5, <1>6, <1>7 DEF AccountInv

LEMMA NextPlaced == AccountInv /\ TypeOK' /\ [Next]_vars => AccountInv'
<1>1. AccountInv /\ UNCHANGED vars => AccountInv'
  BY DEF AccountInv, TypeOK, MarkIsLatest, OneSide, Placed, vars
<1>2. QED
  BY <1>1, ObserveKeeps, ReportKeeps DEF Next

\* In a state of the invariant the latest slot of a program is the high water
\* mark of its shard.
LEMMA LatestIsMark ==
  ASSUME AccountInv, NEW o \in DOMAIN shards
  PROVE  LatestSlot(o) = shards[o].high
<1> DEFINE slots == {0} \cup {SlotOf[w] : w \in {u \in seen[1] \cup seen[2] : OwnerOf[u] = o}}
           h == shards[o].high
<1>1. h \in Nat
  BY DEF AccountInv, TypeOK, Shard
<1>2. h \in slots
  BY DEF AccountInv, MarkIsLatest
<1>3. slots \subseteq Nat
  BY AccountAssumption DEF AccountInv, TypeOK
<1>4. \A x \in slots : h >= x
  BY <1>1 DEF AccountInv, MarkIsLatest
<1>5. \A y \in slots : (\A x \in slots : y >= x) => y = h
  BY <1>1, <1>2, <1>3, <1>4
<1> HIDE DEF slots
<1>6. Max(slots) = h
  BY <1>2, <1>4, <1>5 DEF Max
<1>7. QED
  BY <1>6 DEF LatestSlot, slots

\* In lenient mode a write that both endpoints delivered is paired whatever
\* versions they gave it, unless its own program moved a window past it.
THEOREM PairsAcrossVersions == Spec => []PairedAcrossVersions
<1>1. AccountInv => PairedAcrossVersions
  <2> SUFFICES ASSUME AccountInv, ~Strict, NEW w \in seen[1] \cap seen[2]
               PROVE  paired[w] > 0 \/ SlotOf[w] < Cutoff(LatestSlot(OwnerOf[w]))
    BY DEF PairedAcrossVersions
  <2> DEFINE o == OwnerOf[w]
  <2>1. o \in DOMAIN shards /\ w \in Write
    BY DEF AccountInv, MarkIsLatest, TypeOK
  <2>2. <<w, 0>> \in Keys
    BY <2>1 DEF Keys
  <2>3. ~(<<w, 0>> \in shards[o].pending[1] /\ <<w, 0>> \in shards[o].pending[2])
    BY <2>1, <2>2 DEF AccountInv, OneSide
  <2>4. paired[w] > 0 \/ SlotOf[w] < Cutoff(shards[o].high)
    BY <2>3 DEF AccountInv, Placed
  <2>5. LatestSlot(o) = shards[o].high
    BY <2>1, LatestIsMark
  <2>6. QED
    BY <2>4, <2>5
<1>2. QED
  BY <1>1, NextPlaced, AccountTypes, InitPlaced, PTL DEF Spec

----------------------------------------------------------------------------
(* The books.                                                               *)

WritesOf(o) == {w \in seen[1] \cup seen[2] : OwnerOf[w] = o}

\* What was not seen was not paired; what was seen is finite, and so is the
\* number of shards.
BooksInv ==
  /\ BooksAgree
  /\ IsFiniteSet(seen[1] \cup seen[2]) /\ IsFiniteSet(DOMAIN shards)
  /\ \A w \in Write \ (seen[1] \cup seen[2]) : paired[w] = 0

LEMMA WritesOfFacts ==
  ASSUME AccountInv, BooksInv, NEW o
  PROVE  /\ IsFiniteSet(WritesOf(o)) /\ WritesOf(o) \subseteq Write
         /\ \A w \in WritesOf(o) : paired[w] \in Int
<1>1. IsFiniteSet(WritesOf(o))
  BY FS_Subset DEF BooksInv, WritesOf
<1>2. QED
  BY <1>1 DEF AccountInv, TypeOK, WritesOf

\* The books of a shard before the step, the new one included.
LEMMA BooksOfShard ==
  ASSUME AccountInv, BooksInv, NEW o
  PROVE  /\ ShardOf(o).program = ShardOf(o).matched
         /\ ShardOf(o).matched = SumFunctionOnSet(paired, WritesOf(o))
<1>1. CASE o \in DOMAIN shards
  BY <1>1 DEF BooksInv, BooksAgree, ShardOf, WritesOf
<1>2. CASE o \notin DOMAIN shards
  <2>1. WritesOf(o) = {}
    BY <1>2 DEF WritesOf, AccountInv, MarkIsLatest
  <2>2. QED
    BY <1>2, <2>1, SumEmpty DEF ShardOf, NewShard
<1>3. QED
  BY <1>1, <1>2

LEMMA ObserveBooks ==
  ASSUME AccountInv, BooksInv,
         NEW e \in Endpoint, NEW w \in Write, NEW v \in Version, Observe(e, w, v)
  PROVE  BooksInv'
<1> DEFINE o == OwnerOf[w]
           s == ShardOf(o)
           high == HighAfter(o, SlotOf[w])
           kept == IF s.obs + 1 = EvictEvery THEN Kept(s.pending, high) ELSE s.pending
           k == KeyOf(w, v)
           t == ObservedIn(s, e, k, high, kept)
           hit == k \in kept[Other(e)]
           W == WritesOf(o)
           sum == SumFunctionOnSet(paired, W)
<1>1. /\ shards' = [p \in DOMAIN shards \cup {o} |-> IF p = o THEN t ELSE shards[p]]
      /\ paired' = [paired EXCEPT ![w] = IF hit THEN @ + 1 ELSE @]
  <2>1. shards' = [p \in DOMAIN shards \cup {o} |-> IF p = o THEN t ELSE shards[p]]
    BY DEF Observe
  <2>2. paired' = [paired EXCEPT ![w] = IF hit THEN @ + 1 ELSE @]
    BY DEF Observe
  <2>3. QED
    BY <2>1, <2>2
<1>2. seen' = [seen EXCEPT ![e] = @ \cup {w}]
  BY DEF Observe
<1>3. s.program = s.matched /\ s.matched = sum
  BY BooksOfShard
<1>4. t.matched = (IF hit THEN s.matched + 1 ELSE s.matched)
      /\ t.program = (IF hit THEN s.program + 1 ELSE s.program)
  BY DEF ObservedIn, Pushed
<1>5. t.program = t.matched /\ t.matched = IF hit THEN sum + 1 ELSE sum
  BY <1>3, <1>4
<1> HIDE DEF hit, t, s, high, kept, k
<1>6. /\ seen'[1] \cup seen'[2] = (seen[1] \cup seen[2]) \cup {w}
      /\ \A u \in Write : u # w => paired'[u] = paired[u]
      /\ paired'[w] = (IF hit THEN paired[w] + 1 ELSE paired[w])
      /\ paired[w] \in Nat /\ (w \notin seen[1] \cup seen[2] => paired[w] = 0)
  BY <1>1, <1>2 DEF AccountInv, TypeOK, BooksInv
<1>7. /\ WritesOf(o)' = W \cup {w} /\ (w \notin W => paired[w] = 0)
      /\ \A p : p # o => WritesOf(p)' = WritesOf(p)
  BY <1>6 DEF WritesOf
<1>8. IsFiniteSet(W) /\ W \subseteq Write /\ \A u \in W : paired[u] \in Int
  BY WritesOfFacts
<1>9. SumFunctionOnSet(paired', W \cup {w}) = IF hit THEN sum + 1 ELSE sum
  <2> HIDE DEF W
  <2>1. \A u \in W : u # w => paired'[u] = paired[u]
    BY <1>6, <1>8
  <2>2. CASE hit
    <3>1. \A u \in W \ {w} : paired'[u] = paired[u]
      BY <2>1
    <3>2. (w \in W => paired'[w] = paired[w] + 1) /\ (w \notin W => paired'[w] = 1)
      BY <1>6, <1>7, <2>2
    <3>3. QED
      BY <1>8, <2>2, <3>1, <3>2, SumPlusOne
  <2>3. CASE ~hit
    <3>1. \A u \in W : paired'[u] = paired[u]
      BY <1>6, <1>8, <2>3
    <3>2. SumFunctionOnSet(paired', W) = sum
      BY <1>8, <3>1, SumSame
    <3>3. CASE w \in W
      BY <2>3, <3>2, <3>3
    <3>4. CASE w \notin W
      <4>1. paired'[w] = 0 /\ \A u \in W : paired'[u] \in Int
        BY <1>6, <1>7, <1>8, <2>3, <3>1, <3>4
      <4>2. SumFunctionOnSet(paired', W \cup {w}) = paired'[w] + SumFunctionOnSet(paired', W)
        BY <1>8, <3>4, <4>1, SumAdd
      <4>3. sum \in Int
        BY <1>8, SumRest
      <4>4. QED
        BY <2>3, <3>2, <4>1, <4>2, <4>3
    <3>5. QED
      BY <3>3, <3>4
  <2>4. QED
    BY <2>2, <2>3
<1>10. ASSUME NEW p \in DOMAIN shards'
       PROVE  /\ shards'[p].program = shards'[p].matched
              /\ shards'[p].matched = SumFunctionOnSet(paired', WritesOf(p)')
  <2>1. CASE p = o
    BY <1>1, <1>5, <1>7, <1>9, <2>1
  <2>2. CASE p # o
    <3>1. p \in DOMAIN shards /\ shards'[p] = shards[p]
      BY <1>1, <2>2
    <3>2. /\ shards[p].program = shards[p].matched
          /\ shards[p].matched = SumFunctionOnSet(paired, WritesOf(p))
      BY <3>1 DEF BooksInv, BooksAgree, WritesOf
    <3>3. \A u \in WritesOf(p) : paired[u] \in Int /\ paired[u] = paired'[u]
      BY <1>6, <2>2, WritesOfFacts DEF WritesOf
    <3>4. SumFunctionOnSet(paired, WritesOf(p)) = SumFunctionOnSet(paired', WritesOf(p))
      BY <3>3, WritesOfFacts, SumSame
    <3>5. QED
      BY <1>7, <2>2, <3>1, <3>2, <3>4
  <2>3. QED
    BY <2>1, <2>2
<1>11. BooksAgree'
  BY <1>10 DEF BooksAgree, WritesOf
<1>12. IsFiniteSet(seen'[1] \cup seen'[2]) /\ IsFiniteSet(DOMAIN shards')
  <2>1. DOMAIN shards' = DOMAIN shards \cup {o}
    BY <1>1
  <2>2. IsFiniteSet(seen[1] \cup seen[2]) /\ IsFiniteSet(DOMAIN shards)
    BY DEF BooksInv
  <2>3. /\ IsFiniteSet((seen[1] \cup seen[2]) \cup {w})
        /\ IsFiniteSet(DOMAIN shards \cup {o})
    BY <2>2, FS_AddElement
  <2>4. QED
    BY <1>6, <2>1, <2>3
<1>13. \A u \in Write \ (seen'[1] \cup seen'[2]) : paired'[u] = 0
  BY <1>6 DEF BooksInv
<1>14. QED
  BY <1>11, <1>12, <1>13 DEF BooksInv

LEMMA BooksStep == AccountInv /\ BooksInv /\ [Next]_vars => BooksInv'
<1> SUFFICES ASSUME AccountInv, BooksInv, [Next]_vars PROVE BooksInv'
  OBVIOUS
<1>1. CASE Report
  <2>1. /\ DOMAIN shards' = DOMAIN shards /\ UNCHANGED <<seen, paired>>
        /\ \A o \in DOMAIN shards :
             shards'[o] = [shards[o] EXCEPT !.pending = Kept(@, shards[o].high)]
    BY <1>1 DEF Report
  <2>2. \A o \in DOMAIN shards : /\ shards'[o].matched = shards[o].matched
                                 /\ shards'[o].program = shards[o].program
    BY <2>1 DEF AccountInv, TypeOK, Shard
  <2>3. QED
    BY <2>1, <2>2 DEF BooksInv, BooksAgree
<1>2. CASE UNCHANGED vars
  BY <1>2 DEF vars, BooksInv, BooksAgree
<1>3. QED
  BY <1>1, <1>2, ObserveBooks DEF Next

LEMMA AccountInvariant == Spec => [](AccountInv /\ BooksInv)
<1>1. Init => BooksInv
  <2> SUFFICES ASSUME Init PROVE BooksInv
    OBVIOUS
  <2>1. seen[1] \cup seen[2] = {} /\ DOMAIN shards = {} /\ \A w \in Write : paired[w] = 0
    BY DEF Init
  <2>2. QED
    BY <2>1, FS_EmptySet DEF BooksInv, BooksAgree
<1>2. QED
  BY <1>1, AccountTypes, InitPlaced, NextPlaced, BooksStep, PTL DEF Spec

\* The pair matcher of a program, its digest and the matches of its writes
\* agree at any time.
THEOREM TwoBooksAgree == Spec => []BooksAgree
<1>1. BooksInv => BooksAgree
  BY DEF BooksInv
<1>2. QED
  BY <1>1, AccountInvariant, PTL

\* The per-program table adds up to the overall count where names tell the
\* owners apart.
THEOREM TablesAddUp == Spec => []TableAddsUp
<1>1. Init => TableAddsUp
  BY DEF Init, TableAddsUp
<1>2. AccountInv /\ BooksInv /\ TableAddsUp /\ [Next]_vars => TableAddsUp'
  <2> SUFFICES ASSUME AccountInv, BooksInv, TableAddsUp, [Next]_vars, report' # NoReport, NamesApart'
               PROVE  report'.overall = SumFunction(report'.programs)
    BY DEF TableAddsUp
  <2>1. ASSUME NEW e \in Endpoint, NEW w \in Write, NEW v \in Version, Observe(e, w, v)
        PROVE  FALSE
    BY <2>1 DEF Observe
  <2>2. CASE Report
    <3> DEFINE names == {NameOf[o] : o \in DOMAIN shards}
               f == [o \in DOMAIN shards |-> shards[o].matched]
    <3>1. PICK last \in [names -> DOMAIN shards] :
            /\ \A n \in names : NameOf[last[n]] = n
            /\ report' = [overall |-> Overall,
                          programs |-> [n \in names |-> shards[last[n]].program]]
      BY <2>2 DEF Report
    <3> DEFINE k == [n \in names |-> shards[last[n]].program]
    <3>2. \A o, p \in DOMAIN shards : NameOf[o] = NameOf[p] => o = p
      BY <2>2 DEF Report, NamesApart
    <3>3. IsFiniteSet(DOMAIN shards)
      BY DEF BooksInv
    <3>4. ASSUME NEW o \in DOMAIN shards
          PROVE  f[o] \in Int /\ k[NameOf[o]] = f[o]
      <4>1. last[NameOf[o]] = o
        BY <3>1, <3>2
      <4>2. shards[o].program = shards[o].matched /\ shards[o].matched \in Nat
        BY DEF BooksInv, BooksAgree, AccountInv, TypeOK, Shard
      <4>3. QED
        BY <4>1, <4>2
    <3>5. DOMAIN f = DOMAIN shards /\ DOMAIN k = names
      OBVIOUS
    <3>6. Overall = SumFunctionOnSet(f, DOMAIN shards) /\ SumFunction(k) = SumFunctionOnSet(k, names)
      BY <3>5 DEF Overall, SumFunction
    <3>7. report'.overall = Overall /\ report'.programs = k
      BY <3>1
    <3>8. PICK b : b = NameOf
      OBVIOUS
    <3>9. names = {b[o] : o \in DOMAIN shards}
      BY <3>8
    <3> HIDE DEF f, k, names
    <3>10. SumFunctionOnSet(k, names) = SumFunctionOnSet(f, DOMAIN shards)
      BY <3>2, <3>3, <3>4, <3>8, <3>9, SumRenamed
    <3>11. QED
      BY <3>6, <3>7, <3>10
  <2>3. CASE UNCHANGED vars
    BY <2>3 DEF vars, TableAddsUp, NamesApart
  <2>4. QED
    BY <2>1, <2>2, <2>3 DEF Next
<1>3. QED
  BY <1>1, <1>2, AccountInvariant, PTL DEF Spec

============================================================================
