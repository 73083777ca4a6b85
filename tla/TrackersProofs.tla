--------------------------- MODULE TrackersProofs ---------------------------
(***************************************************************************)
(* Proofs about the trackers of an endpoint, for any configurations, keys,  *)
(* slots, window and thresholds and any number of events.                   *)
(*                                                                          *)
(* The dispatcher takes events from rings in an order nobody controls; what *)
(* is proved holds for every order.                                         *)
(*                                                                          *)
(* Cross-stream tracker: each key observed on one stream waits there, was   *)
(* sampled, or is behind the window (Placed), and a key sampled or waiting  *)
(* on a stream was observed that often on it (Counted).                     *)
(*                                                                          *)
(* Stability tracker: what carries slots on an endpoint has one commitment  *)
(* or none (PlanFacts); the tracker's clock is at the slot event observed   *)
(* last (ClockInv); and if slots come on one subscription only,             *)
(* the tracker has seen the first events the ring took and the rest wait    *)
(* there, in order (Consumed); a slot time the ring did not take was        *)
(* counted as dropped (FewMissing), and each stall that is no silence spans *)
(* such a time of its own (PhantomsAreMissing).                             *)
(***************************************************************************)
EXTENDS Trackers, DataLemmas

CrossType == [tx : SUBSET Key, account : SUBSET Key, high : Nat, sampled : [Key -> Nat]]

\* The slot of a key is behind the window of the tracker.
Behind(k, c) == KeySlot[k] < CrossCutoff(c.high)

\* What waits is inside the window and waits on one side only.
Tidy(c) ==
  /\ c.tx \cap c.account = {}
  /\ \A k \in c.tx \cup c.account : ~Behind(k, c)

LEMMA Slots ==
  ASSUME NEW k \in Key
  PROVE  KeySlot[k] \in Nat
BY TrackersAssumption

LEMMA CrossCutoffMonotone ==
  ASSUME NEW g \in Nat, NEW h \in Nat, g <= h
  PROVE  CrossCutoff(g) \in Nat /\ CrossCutoff(h) \in Nat /\ CrossCutoff(g) <= CrossCutoff(h)
BY TrackersAssumption DEF CrossCutoff

\* The sweep after each event, at the new high water mark.
LEMMA SweepFacts ==
  ASSUME NEW c \in CrossType, NEW k \in Key, c.tx \cap c.account = {}
  PROVE  LET d == Evicted(WithWater(c, k))
         IN /\ d \in CrossType /\ Tidy(d)
            /\ d.high >= c.high /\ d.sampled = c.sampled
            /\ d.tx \subseteq c.tx /\ d.account \subseteq c.account
            /\ \A j \in c.tx \ d.tx : Behind(j, d)
            /\ \A j \in c.account \ d.account : Behind(j, d)
<1> DEFINE h == IF KeySlot[k] > c.high THEN KeySlot[k] ELSE c.high
           u == WithWater(c, k)
           d == Evicted(u)
<1>1. h \in Nat /\ h >= c.high
  BY Slots DEF CrossType
<1>2. u \in CrossType /\ u.tx = c.tx /\ u.account = c.account /\ u.sampled = c.sampled /\ u.high = h
  BY <1>1 DEF WithWater, CrossType
<1> HIDE DEF u, h
<1>3. /\ d.tx = {j \in u.tx : KeySlot[j] >= CrossCutoff(u.high)}
      /\ d.account = {j \in u.account : KeySlot[j] >= CrossCutoff(u.high)}
      /\ d.high = u.high /\ d.sampled = u.sampled /\ d \in CrossType
  BY <1>2 DEF Evicted, CrossType
<1>4. CrossCutoff(u.high) \in Nat
  BY <1>1, <1>2, CrossCutoffMonotone
<1> HIDE DEF d
<1>5. \A j \in Key : KeySlot[j] >= CrossCutoff(u.high) <=> ~Behind(j, d)
  BY <1>3, <1>4, Slots DEF Behind
<1>6. c.tx \subseteq Key /\ c.account \subseteq Key
  BY DEF CrossType
<1>7. Tidy(d)
  BY <1>2, <1>3, <1>5, <1>6 DEF Tidy
<1>8. QED
  BY <1>1, <1>2, <1>3, <1>5, <1>6, <1>7 DEF d, u

\* What one transaction does.
LEMMA TxFacts ==
  ASSUME NEW c \in CrossType, NEW k \in Key, Tidy(c)
  PROVE  LET d == ObserveTx(c, k)
         IN /\ d \in CrossType /\ Tidy(d) /\ d.high >= c.high
            /\ k \in c.account =>
                 /\ d.sampled = [c.sampled EXCEPT ![k] = @ + 1]
                 /\ d.tx \subseteq c.tx /\ d.account \subseteq c.account \ {k}
            /\ k \notin c.account =>
                 /\ d.sampled = c.sampled
                 /\ d.tx \subseteq c.tx \cup {k} /\ d.account \subseteq c.account
            /\ \A j \in c.tx : j \in d.tx \/ Behind(j, d)
            /\ \A j \in c.account : j \in d.account \/ Behind(j, d) \/ d.sampled[j] > 0
            /\ k \in d.tx \/ Behind(k, d) \/ d.sampled[k] > 0
<1> DEFINE b == IF k \in c.account
                THEN [c EXCEPT !.account = @ \ {k}, !.sampled[k] = @ + 1]
                ELSE [c EXCEPT !.tx = @ \cup {k}]
           d == ObserveTx(c, k)
<1>1. /\ k \in c.account =>
           /\ b.tx = c.tx /\ b.account = c.account \ {k}
           /\ b.sampled = [c.sampled EXCEPT ![k] = @ + 1] /\ b.sampled[k] > 0
      /\ k \notin c.account =>
           /\ b.tx = c.tx \cup {k} /\ b.account = c.account /\ b.sampled = c.sampled
      /\ b \in CrossType /\ b.high = c.high
  <2>1. CASE k \in c.account
    <3> DEFINE more == [c.sampled EXCEPT ![k] = @ + 1]
    <3>1. b = [c EXCEPT !.account = @ \ {k}, !.sampled = more]
      BY <2>1
    <3>2. more \in [Key -> Nat] /\ more[k] > 0
      BY DEF CrossType
    <3> HIDE DEF b, more
    <3>3. /\ b.tx = c.tx /\ b.account = c.account \ {k}
          /\ b.sampled = more /\ b.high = c.high
      BY <3>1 DEF CrossType
    <3>4. b \in CrossType
      BY <3>1, <3>2 DEF CrossType
    <3>5. QED
      BY <2>1, <3>2, <3>3, <3>4 DEF more
  <2>2. CASE k \notin c.account
    <3>1. b = [c EXCEPT !.tx = @ \cup {k}]
      BY <2>2
    <3> HIDE DEF b
    <3>2. QED
      BY <2>2, <3>1 DEF CrossType
  <2>3. QED
    BY <2>1, <2>2
<1>2. b.tx \cap b.account = {}
  BY <1>1 DEF Tidy
<1>3. d = Evicted(WithWater(b, k))
  BY DEF ObserveTx
<1> HIDE DEF b, d
<1>4. /\ d \in CrossType /\ Tidy(d)
      /\ d.high >= b.high /\ d.sampled = b.sampled
      /\ d.tx \subseteq b.tx /\ d.account \subseteq b.account
      /\ \A j \in b.tx \ d.tx : Behind(j, d)
      /\ \A j \in b.account \ d.account : Behind(j, d)
  BY <1>1, <1>2, <1>3, SweepFacts
<1>5. \A j \in c.tx : j \in d.tx \/ Behind(j, d)
  BY <1>1, <1>4
<1>6. \A j \in c.account : j \in d.account \/ Behind(j, d) \/ d.sampled[j] > 0
  BY <1>1, <1>4
<1>7. k \in d.tx \/ Behind(k, d) \/ d.sampled[k] > 0
  BY <1>1, <1>4
<1>8. QED
  BY <1>1, <1>4, <1>5, <1>6, <1>7 DEF d

\* What one account update does.
LEMMA AccountFacts ==
  ASSUME NEW c \in CrossType, NEW k \in Key, Tidy(c)
  PROVE  LET d == ObserveAccount(c, k)
         IN /\ d \in CrossType /\ Tidy(d) /\ d.high >= c.high
            /\ k \in c.tx =>
                 /\ d.sampled = [c.sampled EXCEPT ![k] = @ + 1]
                 /\ d.account \subseteq c.account /\ d.tx \subseteq c.tx \ {k}
            /\ k \notin c.tx =>
                 /\ d.sampled = c.sampled
                 /\ d.account \subseteq c.account \cup {k} /\ d.tx \subseteq c.tx
            /\ \A j \in c.account : j \in d.account \/ Behind(j, d)
            /\ \A j \in c.tx : j \in d.tx \/ Behind(j, d) \/ d.sampled[j] > 0
            /\ k \in d.account \/ Behind(k, d) \/ d.sampled[k] > 0
<1> DEFINE b == IF k \in c.tx
                THEN [c EXCEPT !.tx = @ \ {k}, !.sampled[k] = @ + 1]
                ELSE [c EXCEPT !.account = @ \cup {k}]
           d == ObserveAccount(c, k)
<1>1. /\ k \in c.tx =>
           /\ b.account = c.account /\ b.tx = c.tx \ {k}
           /\ b.sampled = [c.sampled EXCEPT ![k] = @ + 1] /\ b.sampled[k] > 0
      /\ k \notin c.tx =>
           /\ b.account = c.account \cup {k} /\ b.tx = c.tx /\ b.sampled = c.sampled
      /\ b \in CrossType /\ b.high = c.high
  <2>1. CASE k \in c.tx
    <3> DEFINE more == [c.sampled EXCEPT ![k] = @ + 1]
    <3>1. b = [c EXCEPT !.tx = @ \ {k}, !.sampled = more]
      BY <2>1
    <3>2. more \in [Key -> Nat] /\ more[k] > 0
      BY DEF CrossType
    <3> HIDE DEF b, more
    <3>3. /\ b.account = c.account /\ b.tx = c.tx \ {k}
          /\ b.sampled = more /\ b.high = c.high
      BY <3>1 DEF CrossType
    <3>4. b \in CrossType
      BY <3>1, <3>2 DEF CrossType
    <3>5. QED
      BY <2>1, <3>2, <3>3, <3>4 DEF more
  <2>2. CASE k \notin c.tx
    <3>1. b = [c EXCEPT !.account = @ \cup {k}]
      BY <2>2
    <3> HIDE DEF b
    <3>2. QED
      BY <2>2, <3>1 DEF CrossType
  <2>3. QED
    BY <2>1, <2>2
<1>2. b.tx \cap b.account = {}
  BY <1>1 DEF Tidy
<1>3. d = Evicted(WithWater(b, k))
  BY DEF ObserveAccount
<1> HIDE DEF b, d
<1>4. /\ d \in CrossType /\ Tidy(d)
      /\ d.high >= b.high /\ d.sampled = b.sampled
      /\ d.tx \subseteq b.tx /\ d.account \subseteq b.account
      /\ \A j \in b.tx \ d.tx : Behind(j, d)
      /\ \A j \in b.account \ d.account : Behind(j, d)
  BY <1>1, <1>2, <1>3, SweepFacts
<1>5. \A j \in c.account : j \in d.account \/ Behind(j, d)
  BY <1>1, <1>4
<1>6. \A j \in c.tx : j \in d.tx \/ Behind(j, d) \/ d.sampled[j] > 0
  BY <1>1, <1>4
<1>7. k \in d.account \/ Behind(k, d) \/ d.sampled[k] > 0
  BY <1>1, <1>4
<1>8. QED
  BY <1>1, <1>4, <1>5, <1>6, <1>7 DEF d

----------------------------------------------------------------------------
(* What the plan opens on endpoint 1.                                       *)

AllStreams == MainStreams \cup {"entries"}
Labels == Commitments \cup {NoCommitment}

\* Subscriptions of configuration c.
SubscriptionOf(c) ==
  [endpoint : {1, 2}, stream : AllStreams, commitment : Labels, programs : Seq(ToSet(c.programs))]

\* The slot events of a plan all come under one label, or under none.
Labelled(p, label) ==
  \A i \in 1 .. Len(p) : CarriesSlots(p[i]) => p[i].commitment \in {label, NoCommitment}

LEMMA SingleFacts ==
  ASSUME NEW S, NEW x \in S
  PROVE  <<x>> \in Seq(S) /\ Len(<<x>>) = 1 /\ <<x>>[1] = x
OBVIOUS

LEMMA SubscriptionType ==
  ASSUME NEW c \in Configs, NEW e \in {1, 2}, NEW stream \in AllStreams,
         NEW commitment \in Labels, NEW programs \in Seq(ToSet(c.programs))
  PROVE  LET x == Subscription(e, stream, commitment, programs)
         IN /\ x \in SubscriptionOf(c) /\ x.endpoint = e /\ x.stream = stream
            /\ x.commitment = commitment
BY DEF Subscription, SubscriptionOf

LEMMA LabelledConcat ==
  ASSUME NEW S, NEW p \in Seq(S), NEW q \in Seq(S), NEW l, Labelled(p, l), Labelled(q, l)
  PROVE  p \o q \in Seq(S) /\ Labelled(p \o q, l)
<1>1. Len(p) \in Nat /\ Len(q) \in Nat
  BY LenProperties
<1>2. /\ p \o q \in Seq(S) /\ Len(p \o q) = Len(p) + Len(q)
      /\ \A i \in 1 .. Len(p) + Len(q) :
           (p \o q)[i] = IF i <= Len(p) THEN p[i] ELSE q[i - Len(p)]
  BY ConcatProperties
<1>3. ASSUME NEW i \in 1 .. Len(p \o q), CarriesSlots((p \o q)[i])
      PROVE  (p \o q)[i].commitment \in {l, NoCommitment}
  <2>1. CASE i <= Len(p)
    <3>1. i \in 1 .. Len(p) /\ (p \o q)[i] = p[i]
      BY <1>1, <1>2, <2>1
    <3>2. QED
      BY <1>3, <3>1 DEF Labelled
  <2>2. CASE ~(i <= Len(p))
    <3>1. i - Len(p) \in 1 .. Len(q) /\ (p \o q)[i] = q[i - Len(p)]
      BY <1>1, <1>2, <2>2
    <3>2. QED
      BY <1>3, <3>1 DEF Labelled
  <2>3. QED
    BY <2>1, <2>2
<1>4. QED
  BY <1>2, <1>3 DEF Labelled

LEMMA ConfigFacts ==
  ASSUME NEW c \in Configs
  PROVE  /\ c.solo => c.solo_streams \in Seq(AllStreams) /\ Len(c.solo_streams) \in Nat \ {0}
         /\ c.commitments \in Seq(Labels) /\ Len(c.commitments) \in Nat \ {0}
         /\ \A i \in 1 .. Len(c.commitments) : c.commitments[i] \in Labels
         /\ c.programs \in Seq(ToSet(c.programs)) /\ c.per_filter \in Nat \ {0}
<1>1. /\ c.solo => c.solo_streams \in Seq(MainStreams) /\ c.solo_streams # <<>>
      /\ c.commitments \in Seq(Commitments) /\ c.commitments # <<>>
      /\ c.programs \in Seq(ToSet(c.programs)) /\ c.per_filter \in Nat \ {0}
  BY ConfigsAssumption
<1>2. c.commitments \in Seq(Labels) /\ (c.solo => c.solo_streams \in Seq(AllStreams))
  BY <1>1, SeqMonotonic DEF Labels, AllStreams
<1>3. QED
  BY <1>1, <1>2, EmptySeq, ElementOfSeq

LEMMA FilterType ==
  ASSUME NEW c \in Configs, NEW stream
  PROVE  FilterOf(c, stream) \in Seq(ToSet(c.programs)) /\ <<>> \in Seq(ToSet(c.programs))
<1>1. c.programs \in Seq(ToSet(c.programs)) /\ <<>> \in Seq(ToSet(c.programs))
  BY ConfigFacts, EmptySeq
<1>2. QED
  BY <1>1 DEF FilterOf

\* The account filters, and the plan of one commitment.
LEMMA AccountFiltersType ==
  ASSUME NEW c \in Configs
  PROVE  AccountFilters(c) \in Seq(Seq(ToSet(c.programs)))
<1> DEFINE P == ToSet(c.programs)
           heavy == Only(c.programs, Heavy)
           light == Only(c.programs, P \ Heavy)
           alone == [i \in DOMAIN heavy |-> <<heavy[i]>>]
<1>1. heavy \in Seq(P) /\ light \in Seq(P) /\ c.per_filter \in Nat \ {0}
  BY ConfigFacts, OnlyComesFrom
<1> HIDE DEF heavy, light, P
<1>2. alone \in Seq(Seq(P))
  <2>1. Len(heavy) \in Nat /\ DOMAIN heavy = 1 .. Len(heavy)
        /\ \A i \in 1 .. Len(heavy) : <<heavy[i]>> \in Seq(P)
    BY <1>1, LenProperties, ElementOfSeq
  <2>2. alone \in [1 .. Len(heavy) -> Seq(P)]
    BY <2>1
  <2>3. QED
    BY <2>1, <2>2, SeqDef
<1>3. Chunks(light, c.per_filter) \in Seq(Seq(P))
  BY <1>1, ChunksFacts
<1> HIDE DEF alone
<1>4. alone \o Chunks(light, c.per_filter) \in Seq(Seq(P))
  BY <1>2, <1>3, ConcatProperties
<1>5. QED
  BY <1>4 DEF AccountFilters, alone, heavy, light, P

LEMMA PerCommitmentFacts ==
  ASSUME NEW c \in Configs, NEW e \in {1, 2}, NEW commitment \in Labels, NEW l
  PROVE  /\ PerCommitment(c, e, commitment) \in Seq(SubscriptionOf(c))
         /\ Labelled(PerCommitment(c, e, commitment), l)
<1> DEFINE S == SubscriptionOf(c)
           filters == AccountFilters(c)
           accounts == [i \in DOMAIN filters |-> Subscription(e, "accounts", commitment, filters[i])]
           Other(wanted, stream) ==
             IF wanted THEN <<Subscription(e, stream, commitment, FilterOf(c, stream))>> ELSE <<>>
<1>1. accounts \in Seq(S) /\ Labelled(accounts, l)
  <2>1. /\ Len(filters) \in Nat /\ DOMAIN filters = 1 .. Len(filters)
        /\ \A i \in 1 .. Len(filters) : filters[i] \in Seq(ToSet(c.programs))
    BY AccountFiltersType, LenProperties, ElementOfSeq
  <2> HIDE DEF filters
  <2>2. accounts \in [1 .. Len(filters) -> S]
    <3>1. "accounts" \in AllStreams
      BY DEF AllStreams, MainStreams
    <3>2. \A i \in 1 .. Len(filters) : Subscription(e, "accounts", commitment, filters[i]) \in S
      BY <2>1, <3>1, SubscriptionType
    <3>3. QED
      BY <2>1, <3>2
  <2>3. accounts \in Seq(S) /\ Len(accounts) = Len(filters)
    BY <2>1, <2>2, SeqDef, LenProperties
  <2>4. \A i \in 1 .. Len(accounts) : accounts[i].stream = "accounts"
    BY <2>1, <2>3 DEF Subscription
  <2>5. QED
    BY <2>3, <2>4 DEF Labelled, CarriesSlots
<1>2. ASSUME NEW wanted, NEW stream \in {"transactions", "blocks"}
      PROVE  Other(wanted, stream) \in Seq(S) /\ Labelled(Other(wanted, stream), l)
  <2>1. FilterOf(c, stream) \in Seq(ToSet(c.programs))
    BY FilterType
  <2>2. Subscription(e, stream, commitment, FilterOf(c, stream)) \in S
    BY <2>1, SubscriptionType DEF AllStreams, MainStreams
  <2>3. ~CarriesSlots(Subscription(e, stream, commitment, FilterOf(c, stream)))
    BY DEF Subscription, CarriesSlots
  <2>4. Labelled(<<Subscription(e, stream, commitment, FilterOf(c, stream))>>, l)
    BY <2>2, <2>3, SingleFacts DEF Labelled
  <2>5. Labelled(<<>>, l)
    BY EmptySeq DEF Labelled
  <2>6. QED
    BY <2>2, <2>4, <2>5, SingleFacts, EmptySeq
<1> HIDE DEF accounts, Other, S, filters
<1>3. /\ accounts \o Other(c.with_transactions, "transactions") \in Seq(S)
      /\ Labelled(accounts \o Other(c.with_transactions, "transactions"), l)
  BY <1>1, <1>2, LabelledConcat
<1>4. /\ (accounts \o Other(c.with_transactions, "transactions")) \o Other(c.with_blocks, "blocks")
           \in Seq(S)
      /\ Labelled((accounts \o Other(c.with_transactions, "transactions"))
                    \o Other(c.with_blocks, "blocks"), l)
  BY <1>2, <1>3, LabelledConcat
<1>5. QED
  BY <1>4 DEF PerCommitment, accounts, Other, S, filters

LEMMA MainPlanFacts ==
  ASSUME NEW c \in Configs, NEW e \in {1, 2}
  PROVE  /\ MainPlan(c, e) \in Seq(SubscriptionOf(c)) /\ Labelled(MainPlan(c, e), c.commitments[1])
         /\ Len(MainPlan(c, e)) \in Nat \ {0} /\ MainPlan(c, e)[1].endpoint = e
<1> DEFINE S == SubscriptionOf(c)
           l == c.commitments[1]
           slots == Subscription(e, "slots", l, <<>>)
           each == [i \in DOMAIN c.commitments |-> PerCommitment(c, e, c.commitments[i])]
           rest == FlattenSeq(each)
<1>1. slots \in S /\ slots.endpoint = e /\ slots.commitment = l
  <2>1. "slots" \in AllStreams /\ <<>> \in Seq(ToSet(c.programs))
    BY FilterType DEF AllStreams, MainStreams
  <2>2. l \in Labels
    BY ConfigFacts
  <2> DEFINE none == <<>>
             stream == "slots"
  <2>3. stream \in AllStreams /\ none \in Seq(ToSet(c.programs))
    BY <2>1
  <2> HIDE DEF none, stream, l, S
  <2>4. Subscription(e, stream, l, none) \in SubscriptionOf(c)
        /\ Subscription(e, stream, l, none).endpoint = e
        /\ Subscription(e, stream, l, none).commitment = l
    BY <2>2, <2>3, SubscriptionType
  <2>5. QED
    BY <2>4 DEF none, stream, S
<1> HIDE DEF slots
<1>2. <<slots>> \in Seq(S) /\ Labelled(<<slots>>, l)
  BY <1>1, SingleFacts DEF Labelled
<1>3. /\ each \in Seq(Seq(S)) /\ \A i \in 1 .. Len(each) : Labelled(each[i], l)
  <2>1. /\ Len(c.commitments) \in Nat /\ DOMAIN c.commitments = 1 .. Len(c.commitments)
        /\ \A i \in 1 .. Len(c.commitments) : c.commitments[i] \in Labels
    BY ConfigFacts, LenProperties
  <2>2. ASSUME NEW i \in 1 .. Len(c.commitments)
        PROVE  each[i] \in Seq(S) /\ Labelled(each[i], l)
    BY <2>1, PerCommitmentFacts
  <2>3. each \in [1 .. Len(c.commitments) -> Seq(S)]
    BY <2>1, <2>2
  <2>4. each \in Seq(Seq(S)) /\ Len(each) = Len(c.commitments)
    BY <2>1, <2>3, SeqDef, LenProperties
  <2>5. QED
    BY <2>2, <2>4
<1> HIDE DEF each, S, l
<1>4. rest \in Seq(S) /\ Labelled(rest, l)
  <2>1. rest \in Seq(S) /\ \E outer, inner : FlatFrom(rest, each, Len(each), outer, inner)
    BY <1>3, FlattenComesFrom
  <2> HIDE DEF rest
  <2>2. PICK outer, inner : FlatFrom(rest, each, Len(each), outer, inner)
    BY <2>1
  <2>3. ASSUME NEW k \in 1 .. Len(rest), CarriesSlots(rest[k])
        PROVE  rest[k].commitment \in {l, NoCommitment}
    <3>1. /\ outer[k] \in 1 .. Len(each) /\ inner[k] \in 1 .. Len(each[outer[k]])
          /\ rest[k] = each[outer[k]][inner[k]]
      BY <2>2 DEF FlatFrom
    <3>2. Labelled(each[outer[k]], l)
      BY <1>3, <3>1
    <3>3. QED
      BY <2>3, <3>1, <3>2 DEF Labelled
  <2>4. QED
    BY <2>1, <2>3 DEF Labelled
<1> HIDE DEF rest
<1>5. <<slots>> \o rest \in Seq(S) /\ Labelled(<<slots>> \o rest, l)
  BY <1>2, <1>4, LabelledConcat
<1>6. Len(<<slots>> \o rest) \in Nat \ {0} /\ (<<slots>> \o rest)[1] = slots
  <2>1. Len(<<slots>>) = 1 /\ <<slots>>[1] = slots /\ Len(rest) \in Nat
    BY <1>4, LenProperties
  <2>2. Len(<<slots>> \o rest) = Len(<<slots>>) + Len(rest)
    BY <1>2, <1>4, ConcatProperties
  <2>3. 1 \in 1 .. Len(<<slots>>) + Len(rest)
    BY <2>1
  <2>4. (<<slots>> \o rest)[1] = <<slots>>[1]
    BY <1>2, <1>4, <2>1, <2>3, ConcatProperties
  <2>5. QED
    BY <2>1, <2>2, <2>4
<1>7. MainPlan(c, e) = <<slots>> \o rest
  BY DEF MainPlan, slots, rest, each, l
<1>8. QED
  BY <1>1, <1>5, <1>6, <1>7 DEF S, l

LEMMA EntriesPlanFacts ==
  ASSUME NEW c \in Configs, NEW e \in {1, 2}, NEW l
  PROVE  EntriesPlan(c, e) \in Seq(SubscriptionOf(c)) /\ Labelled(EntriesPlan(c, e), l)
<1> DEFINE x == Subscription(e, "entries", NoCommitment, <<>>)
<1>1. x \in SubscriptionOf(c) /\ x.commitment = NoCommitment
  <2>1. "entries" \in AllStreams /\ NoCommitment \in Labels /\ <<>> \in Seq(ToSet(c.programs))
    BY FilterType DEF AllStreams, Labels
  <2> DEFINE none == <<>>
             stream == "entries"
  <2>2. stream \in AllStreams /\ none \in Seq(ToSet(c.programs))
    BY <2>1
  <2> HIDE DEF none, stream
  <2>3. /\ Subscription(e, stream, NoCommitment, none) \in SubscriptionOf(c)
        /\ Subscription(e, stream, NoCommitment, none).commitment = NoCommitment
    BY <2>1, <2>2, SubscriptionType
  <2>4. QED
    BY <2>3 DEF none, stream
<1> HIDE DEF x
<1>2. <<x>> \in Seq(SubscriptionOf(c)) /\ Labelled(<<x>>, l)
  BY <1>1, SingleFacts DEF Labelled
<1>3. <<>> \in Seq(SubscriptionOf(c)) /\ Labelled(<<>>, l)
  BY EmptySeq DEF Labelled
<1>4. QED
  BY <1>2, <1>3 DEF EntriesPlan, x

LEMMA SoloPlanFacts ==
  ASSUME NEW c \in Configs, c.solo
  PROVE  /\ SoloPlan(c) \in Seq(SubscriptionOf(c)) /\ Labelled(SoloPlan(c), c.commitments[1])
         /\ Len(SoloPlan(c)) \in Nat \ {0} /\ SoloPlan(c)[1].endpoint = 1
<1> DEFINE streams == Distinct(c.solo_streams)
           n == Len(streams)
           p == SoloPlan(c)
<1>1. /\ streams \in Seq(AllStreams) /\ n \in Nat \ {0} /\ DOMAIN streams = 1 .. n
      /\ \A i \in 1 .. n : streams[i] \in AllStreams
  <2>1. c.solo_streams \in Seq(AllStreams) /\ 1 \in 1 .. Len(c.solo_streams)
    BY ConfigFacts
  <2>2. streams \in Seq(AllStreams)
        /\ \A i \in 1 .. Len(c.solo_streams) : \E k \in 1 .. n : streams[k] = c.solo_streams[i]
    BY <2>1, DistinctFacts
  <2>3. \E k \in 1 .. n : TRUE
    BY <2>1, <2>2
  <2>4. QED
    BY <2>2, <2>3, LenProperties, ElementOfSeq
<1>2. p = [i \in DOMAIN streams |->
             Subscription(1, streams[i], c.commitments[1], FilterOf(c, streams[i]))]
  BY DEF SoloPlan
<1> HIDE DEF streams, n, p
<1>3. ASSUME NEW i \in 1 .. n
      PROVE  /\ p[i] \in SubscriptionOf(c)
             /\ p[i].commitment = c.commitments[1] /\ p[i].endpoint = 1
  <2>1. FilterOf(c, streams[i]) \in Seq(ToSet(c.programs))
    BY FilterType
  <2>2. c.commitments[1] \in Labels
    BY ConfigFacts
  <2>3. QED
    BY <1>1, <1>2, <2>1, <2>2, SubscriptionType
<1>4. p \in [1 .. n -> SubscriptionOf(c)]
  BY <1>1, <1>2, <1>3
<1>5. p \in Seq(SubscriptionOf(c)) /\ Len(p) = n
  BY <1>1, <1>4, SeqDef, LenProperties
<1>6. QED
  BY <1>1, <1>3, <1>5 DEF Labelled, p

\* Endpoint 1 gets at least one subscription, and the slot events of all of
\* them have at most one label.
LEMMA PlanFacts ==
  ASSUME NEW c \in Configs
  PROVE  LET opened == OfEndpoint(PlanOf(c), 1)
         IN /\ Len(opened) \in Nat \ {0} /\ DOMAIN opened = 1 .. Len(opened)
            /\ Labelled(opened, c.commitments[1])
<1> DEFINE p == PlanOf(c)
           S == SubscriptionOf(c)
           l == c.commitments[1]
           T == {s \in ToSet(p) : s.endpoint = 1}
           opened == OfEndpoint(p, 1)
<1>1. /\ p \in Seq(S) /\ Labelled(p, l)
      /\ Len(p) \in Nat \ {0} /\ p[1].endpoint = 1
  <2>1. CASE c.solo
    BY <2>1, SoloPlanFacts DEF PlanOf
  <2>2. CASE ~c.solo
    <3> DEFINE a == MainPlan(c, 1)
               b == MainPlan(c, 2)
               d == EntriesPlan(c, 1)
               e == EntriesPlan(c, 2)
    <3>1. /\ a \in Seq(S) /\ b \in Seq(S) /\ d \in Seq(S) /\ e \in Seq(S)
          /\ Labelled(a, l) /\ Labelled(b, l) /\ Labelled(d, l) /\ Labelled(e, l)
          /\ Len(a) \in Nat \ {0} /\ a[1].endpoint = 1
      BY MainPlanFacts, EntriesPlanFacts
    <3>2. p = ((a \o b) \o d) \o e
      BY <2>2 DEF PlanOf
    <3> HIDE DEF a, b, d, e, p, S, l
    <3>3. a \o b \in Seq(S) /\ Labelled(a \o b, l)
      BY <3>1, LabelledConcat
    <3>4. (a \o b) \o d \in Seq(S) /\ Labelled((a \o b) \o d, l)
      BY <3>1, <3>3, LabelledConcat
    <3>5. p \in Seq(S) /\ Labelled(p, l)
      BY <3>1, <3>2, <3>4, LabelledConcat
    <3>6. Len(a) \in Nat \ {0} /\ Len(b) \in Nat /\ Len(d) \in Nat /\ Len(e) \in Nat
      BY <3>1, LenProperties
    <3>7. Len(a \o b) = Len(a) + Len(b) /\ (a \o b)[1] = a[1]
      BY <3>1, <3>6, ConcatProperties
    <3>8. Len((a \o b) \o d) = Len(a) + Len(b) + Len(d) /\ ((a \o b) \o d)[1] = a[1]
      BY <3>1, <3>3, <3>6, <3>7, ConcatProperties
    <3>9. Len(p) = Len(a) + Len(b) + Len(d) + Len(e) /\ p[1] = a[1]
      BY <3>1, <3>2, <3>4, <3>6, <3>8, ConcatProperties
    <3>10. QED
      BY <3>1, <3>5, <3>6, <3>9
  <2>3. QED
    BY <2>1, <2>2
<1>2. opened \in Seq(S) /\ \E h : ComesFrom(opened, p, T, h)
  BY <1>1, OnlyComesFrom DEF OfEndpoint
<1>3. p[1] \in T
  <2>1. DOMAIN p = 1 .. Len(p) /\ 1 \in 1 .. Len(p)
    BY <1>1, LenProperties
  <2>2. QED
    BY <1>1, <2>1 DEF ToSet
<1> HIDE DEF p, S, l, T, opened
<1>4. PICK h : ComesFrom(opened, p, T, h)
  BY <1>2
<1>5. Len(opened) \in Nat /\ DOMAIN opened = 1 .. Len(opened)
  BY <1>2, LenProperties
<1>6. \E j \in 1 .. Len(opened) : h[j] = 1
  BY <1>1, <1>3, <1>4 DEF ComesFrom
<1>7. ASSUME NEW j \in 1 .. Len(opened), CarriesSlots(opened[j])
      PROVE  opened[j].commitment \in {l, NoCommitment}
  <2>1. h[j] \in 1 .. Len(p) /\ opened[j] = p[h[j]]
    BY <1>4 DEF ComesFrom
  <2>2. QED
    BY <1>1, <1>7, <2>1 DEF Labelled
<1>8. Labelled(opened, l)
  BY <1>7 DEF Labelled
<1>9. QED
  BY <1>5, <1>6, <1>8 DEF opened, p, l

----------------------------------------------------------------------------
(* The dispatcher and what it feeds the tracker.                            *)

LEMMA EventFacts ==
  ASSUME NEW ev \in Events, ev.kind \in {"transactions", "accounts"}
  PROVE  ev.key \in Key
<1>1. PICK i \in DOMAIN subs, ts \in Times : ev \in Deliverable(subs[i], ts)
  BY DEF Events
<1>2. CASE CarriesSlots(subs[i])
  BY <1>1, <1>2 DEF Deliverable, SlotEvent
<1>3. CASE ~CarriesSlots(subs[i])
  BY <1>1, <1>3 DEF Deliverable, KeyEvent
<1>4. QED
  BY <1>2, <1>3

\* The dispatcher takes an event of its own ring.
LEMMA HeadFacts ==
  ASSUME TypeOK, rings[cur] # <<>>
  PROVE  /\ Head(rings[cur]) \in Events /\ Tail(rings[cur]) \in Seq(Events)
         /\ Append(order, Head(rings[cur])) \in Seq(Events)
<1>1. rings[cur] \in Seq(Events) /\ order \in Seq(Events)
  BY DEF TypeOK
<1>2. QED
  BY <1>1, HeadTailProperties, AppendProperties

\* What the tracker is after an event.
CrossAfter(ev) ==
  CASE ev.kind = "transactions" -> ObserveTx(cross, ev.key)
    [] ev.kind = "accounts" -> ObserveAccount(cross, ev.key)
    [] OTHER -> cross

CrossInv == TypeOK /\ Tidy(cross)

\* The events waiting, and those observed, are what the subscriptions can
\* deliver, and the tracker holds keys inside its window.
LEMMA CrossTypes == Spec => []CrossInv
<1>1. Init => CrossInv
  <2> SUFFICES ASSUME Init PROVE CrossInv
    OBVIOUS
  <2>1. Len(subs) \in Nat \ {0} /\ DOMAIN subs = 1 .. Len(subs)
    BY PlanFacts DEF Init
  <2>2. now \in Times /\ cur \in DOMAIN subs
    BY <2>1, TrackersAssumption DEF Init, Times
  <2>3. /\ order \in Seq(Events) /\ rings \in [DOMAIN subs -> Seq(Events)]
        /\ dropped \in [DOMAIN subs -> Nat]
    BY DEF Init
  <2>4. cross \in CrossType /\ Tidy(cross)
    BY DEF Init, NewCross, CrossType, Tidy
  <2>5. QED
    BY <2>1, <2>2, <2>3, <2>4 DEF CrossInv, TypeOK, CrossType
<1>2. CrossInv /\ [Next]_vars => CrossInv'
  <2> SUFFICES ASSUME CrossInv, [Next]_vars PROVE CrossInv'
    OBVIOUS
  <2>1. subs' = subs
    BY DEF Next, Tick, Arrive, Drop, Dispatch, Observed, NextRing, vars
  <2>2. Events' = Events
    BY <2>1 DEF Events
  <2>3. CASE Tick
    <3>1. now' \in Times
      BY <2>3, TrackersAssumption DEF Tick, CrossInv, TypeOK, Times
    <3>2. QED
      BY <2>2, <2>3, <3>1 DEF Tick, CrossInv, TypeOK
  <2>4. ASSUME NEW i \in DOMAIN subs, NEW ev \in Deliverable(subs[i], now), Arrive(i, ev)
        PROVE  CrossInv'
    <3>1. ev \in Events
      BY DEF Events, CrossInv, TypeOK
    <3>2. Append(rings[i], ev) \in Seq(Events)
      BY <3>1, AppendProperties DEF CrossInv, TypeOK
    <3>3. rings' \in [DOMAIN subs -> Seq(Events)] /\ dropped' \in [DOMAIN subs -> Nat]
      <4>1. rings \in [DOMAIN subs -> Seq(Events)] /\ dropped \in [DOMAIN subs -> Nat]
        BY DEF CrossInv, TypeOK
      <4>2. \/ rings' = [rings EXCEPT ![i] = Append(@, ev)] /\ dropped' = dropped
            \/ rings' = rings /\ dropped' = [dropped EXCEPT ![i] = @ + 1]
        BY <2>4 DEF Arrive, Drop
      <4>3. [dropped EXCEPT ![i] = @ + 1] \in [DOMAIN subs -> Nat]
        BY <4>1
      <4>4. [rings EXCEPT ![i] = Append(@, ev)] \in [DOMAIN subs -> Seq(Events)]
        BY <3>2, <4>1
      <4>5. QED
        BY <4>1, <4>2, <4>3, <4>4
    <3>4. QED
      BY <2>2, <2>4, <3>3 DEF Arrive, CrossInv, TypeOK
  <2>5. CASE Dispatch
    <3> DEFINE ev == Head(rings[cur])
    <3>1. /\ ev \in Events /\ Tail(rings[cur]) \in Seq(Events)
          /\ Append(order, ev) \in Seq(Events)
      BY <2>5, HeadFacts DEF Dispatch, CrossInv
    <3>2. /\ order' = Append(order, ev) /\ rings' = [rings EXCEPT ![cur] = Tail(@)]
          /\ cross' = CrossAfter(ev) /\ UNCHANGED <<subs, now, dropped, cur>>
      BY <2>5 DEF Dispatch, Observed, CrossAfter
    <3>3. cross \in CrossType /\ Tidy(cross)
      BY DEF CrossInv, TypeOK, CrossType
    <3> HIDE DEF ev
    <3>4. CrossAfter(ev) \in CrossType /\ Tidy(CrossAfter(ev))
      <4>1. CASE ev.kind = "transactions"
        BY <3>1, <3>3, <4>1, EventFacts, TxFacts DEF CrossAfter
      <4>2. CASE ev.kind = "accounts"
        BY <3>1, <3>3, <4>2, EventFacts, AccountFacts DEF CrossAfter
      <4>3. CASE ev.kind \notin {"transactions", "accounts"}
        BY <3>3, <4>3 DEF CrossAfter
      <4>4. QED
        BY <4>1, <4>2, <4>3
    <3>5. rings' \in [DOMAIN subs -> Seq(Events)]
      BY <3>1, <3>2 DEF CrossInv, TypeOK
    <3>6. QED
      BY <2>2, <3>1, <3>2, <3>4, <3>5 DEF CrossInv, TypeOK, CrossType
  <2>6. CASE NextRing
    BY <2>2, <2>6 DEF NextRing, CrossInv, TypeOK
  <2>7. CASE UNCHANGED vars
    BY <2>2, <2>7 DEF vars, CrossInv, TypeOK
  <2>8. QED
    BY <2>3, <2>4, <2>5, <2>6, <2>7 DEF Next
<1>3. QED
  BY <1>1, <1>2, PTL DEF Spec

\* A step of the system is one observation or leaves the tracker alone.
LEMMA OneObservation ==
  ASSUME CrossInv, [Next]_vars
  PROVE  \/ UNCHANGED <<cross, order>>
         \/ \E ev \in Events : order' = Append(order, ev) /\ cross' = CrossAfter(ev)
<1>1. ASSUME Dispatch
      PROVE  \E ev \in Events : order' = Append(order, ev) /\ cross' = CrossAfter(ev)
  <2> DEFINE ev == Head(rings[cur])
  <2>1. ev \in Events
    BY <1>1, HeadFacts DEF Dispatch, CrossInv
  <2>2. order' = Append(order, ev) /\ cross' = CrossAfter(ev)
    BY <1>1 DEF Dispatch, Observed, CrossAfter
  <2>3. QED
    BY <2>1, <2>2
<1>2. CASE ~Dispatch
  BY <1>2 DEF Next, Tick, Arrive, NextRing, vars
<1>3. QED
  BY <1>1, <1>2

----------------------------------------------------------------------------
(* CrossPaired.                                                             *)

\* Where a key observed on a stream is.
Placed ==
  /\ \A k \in ObservedKeys("transactions") :
       k \in Key /\ (k \in cross.tx \/ cross.sampled[k] > 0 \/ Behind(k, cross))
  /\ \A k \in ObservedKeys("accounts") :
       k \in Key /\ (k \in cross.account \/ cross.sampled[k] > 0 \/ Behind(k, cross))

LEMMA ObservedAppend ==
  ASSUME NEW ev, order \in Seq(Events), ev \in Events, order' = Append(order, ev), NEW kind
  PROVE  \A k \in ObservedKeys(kind)' :
           k \in ObservedKeys(kind) \/ (ev.kind = kind /\ ev.key = k)
<1>1. /\ Len(order) \in Nat /\ DOMAIN order = 1 .. Len(order)
      /\ DOMAIN order' = 1 .. (Len(order) + 1)
      /\ order'[Len(order) + 1] = ev
      /\ \A i \in 1 .. Len(order) : order'[i] = order[i]
  BY AppendProperties, LenProperties
<1>2. \A i \in DOMAIN order' : i \in DOMAIN order \/ i = Len(order) + 1
  BY <1>1
<1> SUFFICES ASSUME NEW i \in DOMAIN order', order'[i].kind = kind
             PROVE  \/ order'[i].key \in ObservedKeys(kind)
                    \/ ev.kind = kind /\ ev.key = order'[i].key
  BY DEF ObservedKeys
<1>3. CASE i \in DOMAIN order
  BY <1>1, <1>3 DEF ObservedKeys
<1>4. CASE i = Len(order) + 1
  BY <1>1, <1>4
<1>5. QED
  BY <1>2, <1>3, <1>4

\* A tracker that moves on keeps what it has settled.
LEMMA SettledStays ==
  ASSUME NEW c \in CrossType, NEW d \in CrossType, NEW k \in Key, d.high >= c.high, Behind(k, c)
  PROVE  Behind(k, d)
<1>1. c.high \in Nat /\ d.high \in Nat /\ KeySlot[k] \in Nat
  BY Slots DEF CrossType
<1>2. CrossCutoff(c.high) \in Nat /\ CrossCutoff(d.high) \in Nat
      /\ CrossCutoff(c.high) <= CrossCutoff(d.high)
  BY <1>1, CrossCutoffMonotone
<1>3. QED
  BY <1>1, <1>2 DEF Behind

\* What one event does to the tracker, said of every key.
LEMMA CrossAfterFacts ==
  ASSUME CrossInv, NEW ev \in Events
  PROVE  LET d == CrossAfter(ev)
         IN /\ d \in CrossType /\ Tidy(d) /\ d.high >= cross.high
            /\ \A k \in Key : d.sampled[k] >= cross.sampled[k]
            /\ \A k \in cross.tx : k \in d.tx \/ Behind(k, d) \/ d.sampled[k] > 0
            /\ \A k \in cross.account : k \in d.account \/ Behind(k, d) \/ d.sampled[k] > 0
            /\ ev.kind = "transactions" =>
                 ev.key \in d.tx \/ Behind(ev.key, d) \/ d.sampled[ev.key] > 0
            /\ ev.kind = "accounts" =>
                 ev.key \in d.account \/ Behind(ev.key, d) \/ d.sampled[ev.key] > 0
<1> DEFINE d == CrossAfter(ev)
<1>1. cross \in CrossType /\ Tidy(cross) /\ cross.sampled \in [Key -> Nat] /\ cross.high \in Nat
  BY DEF CrossInv, TypeOK, CrossType
<1>2. CASE ev.kind = "transactions"
  <2>1. ev.key \in Key /\ d = ObserveTx(cross, ev.key)
    BY <1>2, EventFacts DEF CrossAfter
  <2> HIDE DEF d
  <2>2. d.sampled = cross.sampled \/ d.sampled = [cross.sampled EXCEPT ![ev.key] = @ + 1]
    BY <1>1, <2>1, TxFacts
  <2>3. \A k \in Key : d.sampled[k] >= cross.sampled[k]
    BY <1>1, <2>1, <2>2
  <2>4. d \in CrossType /\ Tidy(d) /\ d.high >= cross.high
    BY <1>1, <2>1, TxFacts
  <2>5. \A k \in cross.tx : k \in d.tx \/ Behind(k, d)
    BY <1>1, <2>1, TxFacts
  <2>6. \A k \in cross.account : k \in d.account \/ Behind(k, d) \/ d.sampled[k] > 0
    BY <1>1, <2>1, TxFacts
  <2>7. ev.key \in d.tx \/ Behind(ev.key, d) \/ d.sampled[ev.key] > 0
    BY <1>1, <2>1, TxFacts
  <2>8. QED
    BY <1>2, <2>3, <2>4, <2>5, <2>6, <2>7 DEF d
<1>3. CASE ev.kind = "accounts"
  <2>1. ev.key \in Key /\ d = ObserveAccount(cross, ev.key)
    BY <1>3, EventFacts DEF CrossAfter
  <2> HIDE DEF d
  <2>2. d.sampled = cross.sampled \/ d.sampled = [cross.sampled EXCEPT ![ev.key] = @ + 1]
    BY <1>1, <2>1, AccountFacts
  <2>3. \A k \in Key : d.sampled[k] >= cross.sampled[k]
    BY <1>1, <2>1, <2>2
  <2>4. d \in CrossType /\ Tidy(d) /\ d.high >= cross.high
    BY <1>1, <2>1, AccountFacts
  <2>5. \A k \in cross.account : k \in d.account \/ Behind(k, d)
    BY <1>1, <2>1, AccountFacts
  <2>6. \A k \in cross.tx : k \in d.tx \/ Behind(k, d) \/ d.sampled[k] > 0
    BY <1>1, <2>1, AccountFacts
  <2>7. ev.key \in d.account \/ Behind(ev.key, d) \/ d.sampled[ev.key] > 0
    BY <1>1, <2>1, AccountFacts
  <2>8. QED
    BY <1>3, <2>3, <2>4, <2>5, <2>6, <2>7 DEF d
<1>4. CASE ev.kind \notin {"transactions", "accounts"}
  BY <1>1, <1>4 DEF CrossAfter
<1>5. QED
  BY <1>2, <1>3, <1>4

LEMMA ObservationPlaces ==
  ASSUME CrossInv, Placed, NEW ev \in Events,
         order' = Append(order, ev), cross' = CrossAfter(ev)
  PROVE  Placed'
<1>1. order \in Seq(Events) /\ cross \in CrossType /\ cross.sampled \in [Key -> Nat]
  BY DEF CrossInv, TypeOK, CrossType
<1>2. /\ cross' \in CrossType /\ cross'.high >= cross.high
      /\ \A k \in Key : cross'.sampled[k] >= cross.sampled[k]
      /\ \A k \in cross.tx : k \in cross'.tx \/ Behind(k, cross') \/ cross'.sampled[k] > 0
      /\ \A k \in cross.account : k \in cross'.account \/ Behind(k, cross') \/ cross'.sampled[k] > 0
      /\ ev.kind = "transactions" =>
           ev.key \in cross'.tx \/ Behind(ev.key, cross') \/ cross'.sampled[ev.key] > 0
      /\ ev.kind = "accounts" =>
           ev.key \in cross'.account \/ Behind(ev.key, cross') \/ cross'.sampled[ev.key] > 0
  BY CrossAfterFacts
<1>3. \A k \in Key : Behind(k, cross) => Behind(k, cross')
  BY <1>1, <1>2, SettledStays
<1>4. \A k \in Key : cross.sampled[k] > 0 => cross'.sampled[k] > 0
  <2>1. cross'.sampled \in [Key -> Nat]
    BY <1>2 DEF CrossType
  <2>2. QED
    BY <1>1, <1>2, <2>1
<1>5. ASSUME NEW k \in ObservedKeys("transactions")'
      PROVE  k \in Key /\ (k \in cross'.tx \/ cross'.sampled[k] > 0 \/ Behind(k, cross'))
  <2>1. k \in ObservedKeys("transactions") \/ (ev.kind = "transactions" /\ ev.key = k)
    BY <1>1, ObservedAppend
  <2>2. CASE k \in ObservedKeys("transactions")
    BY <1>2, <1>3, <1>4, <2>2 DEF Placed
  <2>3. CASE ev.kind = "transactions" /\ ev.key = k
    BY <1>2, <2>3, EventFacts
  <2>4. QED
    BY <2>1, <2>2, <2>3
<1>6. ASSUME NEW k \in ObservedKeys("accounts")'
      PROVE  k \in Key /\ (k \in cross'.account \/ cross'.sampled[k] > 0 \/ Behind(k, cross'))
  <2>1. k \in ObservedKeys("accounts") \/ (ev.kind = "accounts" /\ ev.key = k)
    BY <1>1, ObservedAppend
  <2>2. CASE k \in ObservedKeys("accounts")
    BY <1>2, <1>3, <1>4, <2>2 DEF Placed
  <2>3. CASE ev.kind = "accounts" /\ ev.key = k
    BY <1>2, <2>3, EventFacts
  <2>4. QED
    BY <2>1, <2>2, <2>3
<1>7. QED
  BY <1>5, <1>6 DEF Placed

\* A transaction observed together with an account update of its own has been
\* sampled, whichever came first, unless its slot has left the window.
THEOREM PairsWithinEndpoint == Spec => []CrossPaired
<1>1. Init => Placed
  BY DEF Init, Placed, ObservedKeys
<1>2. CrossInv /\ Placed /\ [Next]_vars => Placed'
  <2> SUFFICES ASSUME CrossInv, Placed, [Next]_vars PROVE Placed'
    OBVIOUS
  <2>1. CASE UNCHANGED <<cross, order>>
    BY <2>1 DEF Placed, ObservedKeys
  <2>2. QED
    BY <2>1, OneObservation, ObservationPlaces
<1>3. CrossInv /\ Placed => CrossPaired
  <2> SUFFICES ASSUME CrossInv, Placed,
                      NEW k \in ObservedKeys("transactions") \cap ObservedKeys("accounts")
               PROVE  cross.sampled[k] > 0 \/ Behind(k, cross)
    BY DEF CrossPaired, Behind
  <2>1. ~(k \in cross.tx /\ k \in cross.account)
    BY DEF CrossInv, Tidy
  <2>2. QED
    BY <2>1 DEF Placed
<1>4. QED
  BY <1>1, <1>2, <1>3, CrossTypes, PTL DEF Spec

----------------------------------------------------------------------------
(* CrossBounded.                                                            *)

\* Where an event of this stream with this key stands in the order.
Places(s, kind, k) == {i \in DOMAIN s : s[i].kind = kind /\ s[i].key = k}

LEMMA PlacesFinite ==
  ASSUME NEW S, NEW s \in Seq(S), NEW kind, NEW k
  PROVE  IsFiniteSet(Places(s, kind, k)) /\ Cardinality(Places(s, kind, k)) \in Nat
<1>1. Len(s) \in Nat /\ DOMAIN s = 1 .. Len(s)
  BY LenProperties
<1>2. IsFiniteSet(1 .. Len(s))
  BY <1>1, FS_Interval
<1>3. Places(s, kind, k) \in SUBSET (1 .. Len(s))
  BY <1>1 DEF Places
<1>4. IsFiniteSet(Places(s, kind, k))
  BY <1>2, <1>3, FS_Subset
<1>5. QED
  BY <1>4, FS_CardinalityType

LEMMA PlacesAppend ==
  ASSUME NEW S, NEW s \in Seq(S), NEW ev \in S, NEW kind, NEW k
  PROVE  /\ Cardinality(Places(Append(s, ev), kind, k)) >= Cardinality(Places(s, kind, k))
         /\ ev.kind = kind /\ ev.key = k =>
              Cardinality(Places(Append(s, ev), kind, k)) = Cardinality(Places(s, kind, k)) + 1
<1> DEFINE n == Len(s) + 1
           old == Places(s, kind, k)
           new == Places(Append(s, ev), kind, k)
<1>1. /\ Len(s) \in Nat /\ DOMAIN s = 1 .. Len(s)
      /\ DOMAIN Append(s, ev) = 1 .. n /\ Append(s, ev)[n] = ev
      /\ \A i \in 1 .. Len(s) : Append(s, ev)[i] = s[i]
  BY AppendProperties, LenProperties
<1>2. DOMAIN Append(s, ev) = (DOMAIN s) \cup {n} /\ n \notin DOMAIN s
  BY <1>1
<1>3. n \notin old
  BY <1>2 DEF Places
<1>4. IsFiniteSet(old) /\ Cardinality(old) \in Nat
  BY PlacesFinite
<1>5. CASE ev.kind = kind /\ ev.key = k
  <2>1. new = old \cup {n}
    BY <1>1, <1>2, <1>5 DEF Places
  <2> HIDE DEF old, new, n
  <2>2. Cardinality(new) = Cardinality(old) + 1
    BY <1>3, <1>4, <2>1, FS_AddElement
  <2>3. QED
    BY <1>4, <2>2 DEF old, new
<1>6. CASE ~(ev.kind = kind /\ ev.key = k)
  <2>1. new = old
    BY <1>1, <1>2, <1>6 DEF Places
  <2>2. QED
    BY <1>4, <1>6, <2>1
<1>7. QED
  BY <1>5, <1>6

\* One more than the samples if the key waits on the stream.
Used(c, kind, k) ==
  c.sampled[k] + IF k \in (IF kind = "transactions" THEN c.tx ELSE c.account) THEN 1 ELSE 0

Streams == {"transactions", "accounts"}

\* Samples and waiting entries never outnumber the observations.
Counted ==
  \A k \in Key : \A kind \in Streams :
    Used(cross, kind, k) <= Cardinality(Places(order, kind, k))

\* An event adds at most one to what is used, and nothing elsewhere.
LEMMA UsedAfter ==
  ASSUME CrossInv, NEW ev \in Events, NEW k \in Key, NEW kind \in Streams
  PROVE  /\ Used(CrossAfter(ev), kind, k) \in Nat /\ Used(cross, kind, k) \in Nat
         /\ Used(CrossAfter(ev), kind, k) <= Used(cross, kind, k) + 1
         /\ ~(ev.kind = kind /\ ev.key = k) =>
              Used(CrossAfter(ev), kind, k) <= Used(cross, kind, k)
<1> DEFINE d == CrossAfter(ev)
<1>1. cross \in CrossType /\ Tidy(cross) /\ cross.sampled \in [Key -> Nat]
  BY DEF CrossInv, TypeOK, CrossType
<1>2. d \in CrossType /\ d.sampled \in [Key -> Nat]
  BY CrossAfterFacts DEF CrossType
<1>3. CASE ev.kind = "transactions"
  <2>1. ev.key \in Key /\ d = ObserveTx(cross, ev.key)
    BY <1>3, EventFacts DEF CrossAfter
  <2> HIDE DEF d
  <2>2. CASE ev.key \in cross.account
    <3>1. /\ d.sampled = [cross.sampled EXCEPT ![ev.key] = @ + 1]
          /\ d.tx \subseteq cross.tx /\ d.account \subseteq cross.account \ {ev.key}
          /\ ev.key \notin cross.tx
      BY <1>1, <2>1, <2>2, TxFacts DEF Tidy
    <3>2. QED
      BY <1>1, <1>2, <1>3, <2>1, <2>2, <3>1 DEF Used, Streams, d
  <2>3. CASE ev.key \notin cross.account
    <3>1. /\ d.sampled = cross.sampled
          /\ d.tx \subseteq cross.tx \cup {ev.key} /\ d.account \subseteq cross.account
      BY <1>1, <2>1, <2>3, TxFacts
    <3>2. QED
      BY <1>1, <1>2, <1>3, <2>1, <2>3, <3>1 DEF Used, Streams, d
  <2>4. QED
    BY <2>2, <2>3
<1>4. CASE ev.kind = "accounts"
  <2>1. ev.key \in Key /\ d = ObserveAccount(cross, ev.key)
    BY <1>4, EventFacts DEF CrossAfter
  <2> HIDE DEF d
  <2>2. CASE ev.key \in cross.tx
    <3>1. /\ d.sampled = [cross.sampled EXCEPT ![ev.key] = @ + 1]
          /\ d.account \subseteq cross.account /\ d.tx \subseteq cross.tx \ {ev.key}
          /\ ev.key \notin cross.account
      BY <1>1, <2>1, <2>2, AccountFacts DEF Tidy
    <3>2. QED
      BY <1>1, <1>2, <1>4, <2>1, <2>2, <3>1 DEF Used, Streams, d
  <2>3. CASE ev.key \notin cross.tx
    <3>1. /\ d.sampled = cross.sampled
          /\ d.account \subseteq cross.account \cup {ev.key} /\ d.tx \subseteq cross.tx
      BY <1>1, <2>1, <2>3, AccountFacts
    <3>2. QED
      BY <1>1, <1>2, <1>4, <2>1, <2>3, <3>1 DEF Used, Streams, d
  <2>4. QED
    BY <2>2, <2>3
<1>5. CASE ev.kind \notin {"transactions", "accounts"}
  BY <1>1, <1>5 DEF CrossAfter, Used
<1>6. QED
  BY <1>3, <1>4, <1>5

\* Each sample uses up one transaction and one account update, and what waits
\* is within the window.
THEOREM WaitsBounded == Spec => []CrossBounded
<1>1. Init => Counted
  <2> SUFFICES ASSUME Init, NEW k \in Key, NEW kind \in Streams
               PROVE  Used(cross, kind, k) <= Cardinality(Places(order, kind, k))
    BY DEF Counted
  <2>1. Used(cross, kind, k) = 0
    BY DEF Init, NewCross, Used
  <2>2. order \in Seq({})
    BY DEF Init
  <2>3. QED
    BY <2>1, <2>2, PlacesFinite
<1>2. CrossInv /\ Counted /\ [Next]_vars => Counted'
  <2> SUFFICES ASSUME CrossInv, Counted, [Next]_vars PROVE Counted'
    OBVIOUS
  <2>1. CASE UNCHANGED <<cross, order>>
    BY <2>1 DEF Counted, Used, Places
  <2>2. ASSUME NEW ev \in Events, order' = Append(order, ev), cross' = CrossAfter(ev),
               NEW k \in Key, NEW kind \in Streams
        PROVE  Used(cross', kind, k) <= Cardinality(Places(order', kind, k))
    <3>1. order \in Seq(Events)
      BY DEF CrossInv, TypeOK
    <3>2. /\ Cardinality(Places(order', kind, k)) >= Cardinality(Places(order, kind, k))
          /\ ev.kind = kind /\ ev.key = k =>
               Cardinality(Places(order', kind, k)) = Cardinality(Places(order, kind, k)) + 1
      BY <2>2, <3>1, PlacesAppend
    <3>3. Cardinality(Places(order, kind, k)) \in Nat /\ order' \in Seq(Events)
      BY <2>2, <3>1, PlacesFinite, AppendProperties
    <3>4. Cardinality(Places(order', kind, k)) \in Nat
      BY <3>3, PlacesFinite
    <3>5. /\ Used(cross', kind, k) \in Nat /\ Used(cross, kind, k) \in Nat
          /\ Used(cross', kind, k) <= Used(cross, kind, k) + 1
          /\ ~(ev.kind = kind /\ ev.key = k) => Used(cross', kind, k) <= Used(cross, kind, k)
      BY <2>2, UsedAfter
    <3>6. Used(cross, kind, k) <= Cardinality(Places(order, kind, k))
      BY DEF Counted
    <3>7. QED
      BY <3>2, <3>3, <3>4, <3>5, <3>6
  <2>3. QED
    BY <2>1, <2>2, OneObservation DEF Counted
<1>3. CrossInv /\ Counted => CrossBounded
  <2> SUFFICES ASSUME CrossInv, Counted PROVE CrossBounded
    OBVIOUS
  <2>1. ASSUME NEW k \in cross.tx \cup cross.account
        PROVE  KeySlot[k] >= CrossCutoff(cross.high)
    <3>1. k \in Key /\ ~Behind(k, cross) /\ cross.high \in Nat
      BY DEF CrossInv, TypeOK, Tidy
    <3>2. QED
      BY <3>1, Slots, CrossCutoffMonotone DEF Behind
  <2>2. ASSUME NEW k \in Key, NEW kind \in Streams
        PROVE  cross.sampled[k] <= Cardinality(Places(order, kind, k))
    <3>1. cross.sampled[k] \in Nat /\ Cardinality(Places(order, kind, k)) \in Nat
      BY PlacesFinite DEF CrossInv, TypeOK
    <3>2. Used(cross, kind, k) <= Cardinality(Places(order, kind, k))
      BY DEF Counted
    <3>3. QED
      BY <3>1, <3>2 DEF Used
  <2>3. QED
    BY <2>1, <2>2 DEF CrossBounded, Places, Streams
<1>4. QED
  BY <1>1, <1>2, <1>3, CrossTypes, PTL DEF Spec

----------------------------------------------------------------------------
(* The stability tracker.                                                   *)

Stamp == Times \cup {NoTime}
StabilityType ==
  [last : Stamp, gaps : Nat, stalls : Seq(Times \X Times),
   processed : [Slot -> Stamp], confirmed : [Slot -> Stamp],
   drifts : Seq([slot : Slot, processed : Times, confirmed : Times])]

\* What one slot event does: the clock and the stalls.
LEMMA GapFacts ==
  ASSUME NEW t \in StabilityType, NEW ts \in Times
  PROVE  LET d == WithGap(t, ts)
         IN /\ d \in StabilityType /\ d.last = ts
            /\ d.stalls = IF IsStall(t, ts) THEN Append(t.stalls, <<t.last, ts>>) ELSE t.stalls
            /\ d.processed = t.processed /\ d.confirmed = t.confirmed /\ d.drifts = t.drifts
<1> DEFINE stalls == IF IsStall(t, ts) THEN Append(t.stalls, <<t.last, ts>>) ELSE t.stalls
           gaps == IF t.last = NoTime THEN t.gaps ELSE t.gaps + 1
           d == WithGap(t, ts)
<1>1. d = [t EXCEPT !.last = ts, !.gaps = gaps, !.stalls = stalls]
  BY DEF WithGap
<1>2. gaps \in Nat /\ ts \in Stamp
  BY DEF StabilityType, Stamp
<1>3. stalls \in Seq(Times \X Times)
  <2>1. t.stalls \in Seq(Times \X Times) /\ t.last \in Stamp
    BY DEF StabilityType
  <2>2. CASE IsStall(t, ts)
    <3>1. <<t.last, ts>> \in Times \X Times
      BY <2>1, <2>2 DEF IsStall, Stamp
    <3>2. QED
      BY <2>1, <3>1, AppendProperties
  <2>3. CASE ~IsStall(t, ts)
    BY <2>1, <2>3
  <2>4. QED
    BY <2>2, <2>3
<1> HIDE DEF stalls, gaps, d
<1>4. d \in StabilityType /\ d.last = ts /\ d.stalls = stalls
      /\ d.processed = t.processed /\ d.confirmed = t.confirmed /\ d.drifts = t.drifts
  BY <1>1, <1>2, <1>3 DEF StabilityType
<1>5. QED
  BY <1>4 DEF d, stalls

\* The same, and what becomes of the arrivals kept: d is t after a stage of
\* a slot on the stream of a commitment.
ObservedInto(t, d, slot, stage, commitment, ts) ==
  /\ d \in StabilityType /\ d.last = ts
  /\ d.stalls = IF IsStall(t, ts) THEN Append(t.stalls, <<t.last, ts>>) ELSE t.stalls
  /\ stage # commitment =>
       d.processed = t.processed /\ d.confirmed = t.confirmed /\ d.drifts = t.drifts
  /\ stage = "processed" /\ commitment = "processed" /\ t.confirmed[slot] = NoTime =>
       /\ d.processed = [t.processed EXCEPT ![slot] = FirstOf(t.processed, slot, ts)]
       /\ d.confirmed = t.confirmed /\ d.drifts = t.drifts
  /\ stage = "confirmed" /\ commitment = "confirmed" /\ t.processed[slot] = NoTime =>
       /\ d.confirmed = [t.confirmed EXCEPT ![slot] = FirstOf(t.confirmed, slot, ts)]
       /\ d.processed = t.processed /\ d.drifts = t.drifts

LEMMA ObserveFacts ==
  ASSUME NEW t \in StabilityType, NEW slot \in Slot, NEW stage \in {"processed", "confirmed"},
         NEW commitment, NEW ts \in Times
  PROVE  ObservedInto(t, ObserveSlot(t, slot, stage, commitment, ts), slot, stage, commitment, ts)
<1> DEFINE g == WithGap(t, ts)
           d == ObserveSlot(t, slot, stage, commitment, ts)
           stalls == IF IsStall(t, ts) THEN Append(t.stalls, <<t.last, ts>>) ELSE t.stalls
<1>1. /\ g \in StabilityType /\ g.last = ts /\ g.stalls = stalls
      /\ g.processed = t.processed /\ g.confirmed = t.confirmed /\ g.drifts = t.drifts
  BY GapFacts
<1>2. d = WithStage(g, slot, stage, commitment, ts)
  BY DEF ObserveSlot
<1> HIDE DEF g, d, stalls
<1>3. ts \in Stamp /\ NoTime \in Stamp /\ g.processed \in [Slot -> Stamp]
      /\ g.confirmed \in [Slot -> Stamp]
      /\ g.drifts \in Seq([slot : Slot, processed : Times, confirmed : Times])
  BY <1>1 DEF Stamp, StabilityType
<1>4. ASSUME NEW p \in Times, NEW c \in Times
      PROVE  LET w == WithDrift(g, slot, p, c)
             IN w \in StabilityType /\ w.last = g.last /\ w.stalls = g.stalls
  <2> DEFINE drift == [slot |-> slot, processed |-> p, confirmed |-> c]
             drifts == Append(g.drifts, drift)
             ps == [g.processed EXCEPT ![slot] = NoTime]
             cs == [g.confirmed EXCEPT ![slot] = NoTime]
             w == WithDrift(g, slot, p, c)
  <2>1. drifts \in Seq([slot : Slot, processed : Times, confirmed : Times])
    BY <1>3, AppendProperties
  <2>2. ps \in [Slot -> Stamp] /\ cs \in [Slot -> Stamp]
    BY <1>3
  <2>3. w = [g EXCEPT !.processed = ps, !.confirmed = cs, !.drifts = drifts]
    BY <1>1 DEF WithDrift, StabilityType
  <2> HIDE DEF w, ps, cs, drifts
  <2>4. w \in StabilityType /\ w.last = g.last /\ w.stalls = g.stalls
    BY <1>1, <2>1, <2>2, <2>3 DEF StabilityType
  <2>5. QED
    BY <2>4 DEF w
<1>5. ASSUME stage # commitment
      PROVE  ObservedInto(t, d, slot, stage, commitment, ts)
  <2>1. d = g
    BY <1>2, <1>5 DEF WithStage
  <2>2. QED
    BY <1>1, <1>5, <2>1 DEF ObservedInto, stalls
<1>6. ASSUME stage = "processed" /\ commitment = "processed"
      PROVE  ObservedInto(t, d, slot, stage, commitment, ts)
  <2> DEFINE ps == [g.processed EXCEPT ![slot] = FirstOf(g.processed, slot, ts)]
  <2>1. ps \in [Slot -> Stamp]
    BY <1>3 DEF FirstOf
  <2>2. CASE g.confirmed[slot] # NoTime
    <3>1. d = WithDrift(g, slot, ts, g.confirmed[slot]) /\ g.confirmed[slot] \in Times
      BY <1>2, <1>3, <1>6, <2>2 DEF WithStage, Stamp
    <3>2. d \in StabilityType /\ d.last = g.last /\ d.stalls = g.stalls
      BY <1>4, <3>1
    <3>3. QED
      BY <1>1, <1>6, <2>2, <3>2 DEF ObservedInto, stalls
  <2>3. CASE g.confirmed[slot] = NoTime
    <3>1. d = [g EXCEPT !.processed = ps]
      BY <1>1, <1>2, <1>6, <2>3 DEF WithStage, StabilityType
    <3> HIDE DEF ps
    <3>2. /\ d \in StabilityType /\ d.last = g.last /\ d.stalls = g.stalls /\ d.processed = ps
          /\ d.confirmed = g.confirmed /\ d.drifts = g.drifts
      BY <1>1, <2>1, <3>1 DEF StabilityType
    <3>3. QED
      BY <1>1, <1>6, <3>2 DEF ObservedInto, stalls, ps
  <2>4. QED
    BY <2>2, <2>3
<1>7. ASSUME stage = "confirmed" /\ commitment = "confirmed"
      PROVE  ObservedInto(t, d, slot, stage, commitment, ts)
  <2> DEFINE cs == [g.confirmed EXCEPT ![slot] = FirstOf(g.confirmed, slot, ts)]
  <2>1. cs \in [Slot -> Stamp]
    BY <1>3 DEF FirstOf
  <2>2. CASE g.processed[slot] # NoTime
    <3>1. d = WithDrift(g, slot, g.processed[slot], ts) /\ g.processed[slot] \in Times
      BY <1>2, <1>3, <1>7, <2>2 DEF WithStage, Stamp
    <3>2. d \in StabilityType /\ d.last = g.last /\ d.stalls = g.stalls
      BY <1>4, <3>1
    <3>3. QED
      BY <1>1, <1>7, <2>2, <3>2 DEF ObservedInto, stalls
  <2>3. CASE g.processed[slot] = NoTime
    <3>1. d = [g EXCEPT !.confirmed = cs]
      BY <1>1, <1>2, <1>7, <2>3 DEF WithStage, StabilityType
    <3> HIDE DEF cs
    <3>2. /\ d \in StabilityType /\ d.last = g.last /\ d.stalls = g.stalls /\ d.confirmed = cs
          /\ d.processed = g.processed /\ d.drifts = g.drifts
      BY <1>1, <2>1, <3>1 DEF StabilityType
    <3>3. QED
      BY <1>1, <1>7, <3>2 DEF ObservedInto, stalls, cs
  <2>4. QED
    BY <2>2, <2>3
<1>8. ObservedInto(t, d, slot, stage, commitment, ts)
  <2>1. \/ stage # commitment
        \/ stage = "processed" /\ commitment = "processed"
        \/ stage = "confirmed" /\ commitment = "confirmed"
    OBVIOUS
  <2>2. QED
    BY <1>5, <1>6, <1>7, <2>1
<1>9. QED
  BY <1>8 DEF d

\* What a slot event is.
LEMMA SlotEventFacts ==
  ASSUME NEW ts \in Times, NEW i \in DOMAIN subs, NEW ev \in Deliverable(subs[i], ts)
  PROVE  /\ IsSlotEvent(ev) <=> CarriesSlots(subs[i])
         /\ IsSlotEvent(ev) =>
              /\ ev.slot \in Slot /\ ev.stage \in {"processed", "confirmed"}
              /\ ev.commitment = subs[i].commitment /\ ev.ts = ts
<1>1. CASE CarriesSlots(subs[i])
  <2>1. PICK s \in Slot, stage \in {"processed", "confirmed"} :
          ev = SlotEvent(s, stage, subs[i].commitment, ts)
    BY <1>1 DEF Deliverable
  <2>2. QED
    BY <1>1, <2>1 DEF SlotEvent, IsSlotEvent
<1>2. CASE ~CarriesSlots(subs[i])
  <2>1. subs[i].stream \in {"transactions", "accounts"} /\ \E k \in Key : ev = KeyEvent(subs[i].stream, k)
    BY <1>2 DEF Deliverable
  <2>2. ~IsSlotEvent(ev)
    BY <2>1 DEF KeyEvent, IsSlotEvent
  <2>3. QED
    BY <1>2, <2>2
<1>3. QED
  BY <1>1, <1>2

\* Slot events arrive in the order of time, none later than now.
ArrivedInOrder ==
  /\ arrived \in Seq(Times)
  /\ \A a \in 1 .. Len(arrived) : arrived[a] <= now
  /\ \A a, b \in 1 .. Len(arrived) : a <= b => arrived[a] <= arrived[b]

\* So do those that found room.
TakenInOrder ==
  /\ taken \in Seq(Times) /\ Range(taken) \subseteq Range(arrived)
  /\ \A a \in 1 .. Len(taken) : taken[a] <= now
  /\ \A a, b \in 1 .. Len(taken) : a <= b => taken[a] <= taken[b]

\* A ring holds slot events or none, and only such as have arrived.
RingsSound ==
  \A i \in DOMAIN subs : \A k \in 1 .. Len(rings[i]) :
    /\ IsSlotEvent(rings[i][k]) <=> CarriesSlots(subs[i])
    /\ IsSlotEvent(rings[i][k]) => rings[i][k].ts \in Range(arrived)

OrderSound ==
  \A k \in 1 .. Len(order) : IsSlotEvent(order[k]) => order[k].ts \in Range(arrived)

\* The clock of the tracker is at the slot event observed last.
AtLastSeen ==
  \/ stability.last = NoTime /\ \A k \in 1 .. Len(order) : ~IsSlotEvent(order[k])
  \/ \E k \in 1 .. Len(order) :
       /\ IsSlotEvent(order[k]) /\ order[k].ts = stability.last
       /\ \A m \in 1 .. Len(order) : IsSlotEvent(order[m]) => m <= k

ClockInv ==
  /\ stability \in StabilityType
  /\ ArrivedInOrder /\ TakenInOrder /\ RingsSound /\ OrderSound /\ AtLastSeen

\* The three kinds of step, as far as the tracker is concerned.
Quiet ==
  /\ UNCHANGED <<subs, rings, dropped, stability, arrived, taken, order>>
  /\ now' >= now
Arrival ==
  \E i \in DOMAIN subs : \E ev \in Deliverable(subs[i], now) :
    /\ \/ /\ rings' = [rings EXCEPT ![i] = Append(@, ev)] /\ dropped' = dropped
          /\ taken' = IF IsSlotEvent(ev) THEN Append(taken, ev.ts) ELSE taken
       \/ /\ dropped' = [dropped EXCEPT ![i] = @ + 1]
          /\ UNCHANGED <<rings, taken>>
    /\ arrived' = IF IsSlotEvent(ev) THEN Append(arrived, ev.ts) ELSE arrived
    /\ UNCHANGED <<subs, now, stability, order>>
Observation ==
  /\ rings[cur] # <<>>
  /\ LET ev == Head(rings[cur])
     IN /\ stability' = IF IsSlotEvent(ev)
                        THEN ObserveSlot(stability, ev.slot, ev.stage, ev.commitment, ev.ts)
                        ELSE stability
        /\ order' = Append(order, ev)
  /\ rings' = [rings EXCEPT ![cur] = Tail(@)]
  /\ UNCHANGED <<subs, now, dropped, arrived, taken>>

LEMMA ThreeKinds ==
  ASSUME CrossInv, [Next]_vars
  PROVE  Quiet \/ Arrival \/ Observation
<1>1. now \in Times /\ now \in Int
  BY TrackersAssumption DEF CrossInv, TypeOK, Times
<1>2. CASE Tick
  BY <1>1, <1>2 DEF Tick, Quiet
<1>3. ASSUME NEW i \in DOMAIN subs, NEW ev \in Deliverable(subs[i], now), Arrive(i, ev)
      PROVE  Arrival
  BY <1>3 DEF Arrive, Drop, WithTime, Arrival, IsSlotEvent
<1>4. CASE Dispatch
  BY <1>4 DEF Dispatch, Observed, Observation, IsSlotEvent
<1>5. CASE NextRing
  BY <1>1, <1>5 DEF NextRing, Quiet
<1>6. CASE UNCHANGED vars
  BY <1>1, <1>6 DEF vars, Quiet
<1>7. QED
  BY <1>2, <1>3, <1>4, <1>5, <1>6 DEF Next

LEMMA AppendFacts ==
  ASSUME NEW S, NEW s \in Seq(S), NEW x \in S
  PROVE  /\ Append(s, x) \in Seq(S) /\ Len(s) \in Nat
         /\ Len(Append(s, x)) = Len(s) + 1 /\ Append(s, x)[Len(s) + 1] = x
         /\ \A i \in 1 .. Len(s) : Append(s, x)[i] = s[i]
         /\ Range(Append(s, x)) = Range(s) \cup {x}
<1>1. /\ Append(s, x) \in Seq(S) /\ Len(s) \in Nat /\ DOMAIN s = 1 .. Len(s)
      /\ Len(Append(s, x)) = Len(s) + 1 /\ Append(s, x)[Len(s) + 1] = x
      /\ DOMAIN Append(s, x) = 1 .. (Len(s) + 1)
      /\ \A i \in 1 .. Len(s) : Append(s, x)[i] = s[i]
  BY AppendProperties, LenProperties
<1>2. 1 .. (Len(s) + 1) = (1 .. Len(s)) \cup {Len(s) + 1}
  BY <1>1
<1>3. Range(Append(s, x)) = Range(s) \cup {x}
  BY <1>1, <1>2 DEF Range
<1>4. QED
  BY <1>1, <1>3

\* A sequence in order stays so with a time that is not before any of its own.
LEMMA OneMoreInOrder ==
  ASSUME NEW s \in Seq(Times), NEW t \in Times,
         \A a \in 1 .. Len(s) : s[a] <= t,
         \A a, b \in 1 .. Len(s) : a <= b => s[a] <= s[b]
  PROVE  LET r == Append(s, t)
         IN /\ r \in Seq(Times) /\ Range(r) = Range(s) \cup {t}
            /\ \A a \in 1 .. Len(r) : r[a] <= t
            /\ \A a, b \in 1 .. Len(r) : a <= b => r[a] <= r[b]
<1> DEFINE r == Append(s, t)
<1>1. /\ r \in Seq(Times) /\ Len(s) \in Nat
      /\ Len(r) = Len(s) + 1 /\ r[Len(s) + 1] = t
      /\ \A k \in 1 .. Len(s) : r[k] = s[k]
      /\ Range(r) = Range(s) \cup {t}
  BY AppendFacts
<1>2. t \in Int
  BY DEF Times
<1> HIDE DEF r
<1>3. \A a \in 1 .. Len(r) : r[a] <= t
  BY <1>1, <1>2
<1>4. ASSUME NEW a \in 1 .. Len(r), NEW b \in 1 .. Len(r), a <= b
      PROVE  r[a] <= r[b]
  <2>1. CASE b = Len(s) + 1
    BY <1>1, <1>3, <2>1
  <2>2. CASE b # Len(s) + 1
    <3>1. a \in 1 .. Len(s) /\ b \in 1 .. Len(s)
      BY <1>1, <1>4, <2>2
    <3>2. QED
      BY <1>1, <1>4, <3>1
  <2>3. QED
    BY <2>1, <2>2
<1>5. QED
  BY <1>1, <1>3, <1>4 DEF r

\* The event the dispatcher takes, and what it leaves.
LEMMA TakenFacts ==
  ASSUME CrossInv, ClockInv, rings[cur] # <<>>
  PROVE  LET ev == Head(rings[cur])
         IN /\ ev \in Events /\ ev = rings[cur][1] /\ 1 \in 1 .. Len(rings[cur])
            /\ IsSlotEvent(ev) <=> CarriesSlots(subs[cur])
            /\ IsSlotEvent(ev) =>
                 /\ ev.slot \in Slot /\ ev.stage \in {"processed", "confirmed"} /\ ev.ts \in Times
                 /\ ev.ts \in Range(arrived)
                 /\ \E i \in DOMAIN subs : CarriesSlots(subs[i]) /\ ev.commitment = subs[i].commitment
            /\ Len(Tail(rings[cur])) = Len(rings[cur]) - 1
            /\ \A k \in 1 .. Len(Tail(rings[cur])) : Tail(rings[cur])[k] = rings[cur][k + 1]
<1> DEFINE r == rings[cur]
           ev == Head(r)
<1>1. r \in Seq(Events) /\ cur \in DOMAIN subs
  BY DEF CrossInv, TypeOK
<1>2. /\ ev \in Events /\ Len(Tail(r)) = Len(r) - 1
      /\ \A k \in 1 .. Len(Tail(r)) : Tail(r)[k] = r[k + 1]
  BY <1>1, HeadTailProperties
<1>3. ev = r[1] /\ 1 \in 1 .. Len(r)
  <2>1. Len(r) \in Nat \ {0}
    BY <1>1, EmptySeq
  <2>2. QED
    BY <2>1
<1>4. /\ IsSlotEvent(ev) <=> CarriesSlots(subs[cur])
      /\ IsSlotEvent(ev) => ev.ts \in Range(arrived)
  BY <1>1, <1>3 DEF ClockInv, RingsSound
<1>5. PICK i \in DOMAIN subs, ts \in Times : ev \in Deliverable(subs[i], ts)
  BY <1>2 DEF Events
<1> HIDE DEF ev, r
<1>6. IsSlotEvent(ev) =>
        /\ ev.slot \in Slot /\ ev.stage \in {"processed", "confirmed"} /\ ev.ts \in Times
        /\ CarriesSlots(subs[i]) /\ ev.commitment = subs[i].commitment
  BY <1>5, SlotEventFacts
<1>7. QED
  BY <1>2, <1>3, <1>4, <1>6 DEF ev, r

LEMMA ClockStep == CrossInv /\ ClockInv /\ CrossInv' /\ [Next]_vars => ClockInv'
<1> SUFFICES ASSUME CrossInv, ClockInv, CrossInv', [Next]_vars PROVE ClockInv'
  OBVIOUS
<1>1. Quiet \/ Arrival \/ Observation
  BY ThreeKinds
<1>2. CASE Quiet
  <2>1. now \in Int /\ now' \in Int /\ now <= now'
    BY <1>2 DEF CrossInv, TypeOK, Times, Quiet
  <2>2. ASSUME NEW s \in Seq(Times), \A a \in 1 .. Len(s) : s[a] <= now
        PROVE  \A a \in 1 .. Len(s) : s[a] <= now'
    <3>1. \A a \in 1 .. Len(s) : s[a] \in Times
      BY ElementOfSeq
    <3>2. QED
      BY <2>1, <2>2, <3>1 DEF Times
  <2>3. ArrivedInOrder' /\ TakenInOrder'
    BY <1>2, <2>2 DEF Quiet, ClockInv, ArrivedInOrder, TakenInOrder
  <2>4. QED
    BY <1>2, <2>3 DEF Quiet, ClockInv, RingsSound, OrderSound, AtLastSeen

<1>3. CASE Arrival
  <2>1. PICK i, ev :
          /\ i \in DOMAIN subs
          /\ ev \in Deliverable(subs[i], now)
          /\ \/ /\ rings' = [rings EXCEPT ![i] = Append(@, ev)]
                /\ taken' = IF IsSlotEvent(ev) THEN Append(taken, ev.ts) ELSE taken
             \/ UNCHANGED <<rings, taken>>
          /\ arrived' = IF IsSlotEvent(ev) THEN Append(arrived, ev.ts) ELSE arrived
          /\ UNCHANGED <<subs, now, stability, order>>
    BY <1>3 DEF Arrival
  <2>2. now \in Times /\ now \in Int /\ ev \in Events /\ rings[i] \in Seq(Events)
        /\ DOMAIN rings = DOMAIN subs
    <3>1. now \in Times /\ rings \in [DOMAIN subs -> Seq(Events)]
      BY DEF CrossInv, TypeOK
    <3>2. ev \in Events
      BY <2>1, <3>1 DEF Events
    <3>3. QED
      BY <2>1, <3>1, <3>2 DEF Times
  <2>3. /\ IsSlotEvent(ev) <=> CarriesSlots(subs[i])
        /\ IsSlotEvent(ev) => ev.ts = now
    BY <2>1, <2>2, SlotEventFacts
  <2>4. arrived \in Seq(Times)
    BY DEF ClockInv, ArrivedInOrder
  <2>5. /\ ArrivedInOrder' /\ Range(arrived) \subseteq Range(arrived')
        /\ IsSlotEvent(ev) => Range(arrived') = Range(arrived) \cup {now}
    <3>1. CASE ~IsSlotEvent(ev)
      BY <2>1, <3>1 DEF ClockInv, ArrivedInOrder
    <3>2. CASE IsSlotEvent(ev)
      <4>1. arrived' = Append(arrived, now)
        BY <2>1, <2>3, <3>2
      <4>2. /\ \A a \in 1 .. Len(arrived) : arrived[a] <= now
            /\ \A a, b \in 1 .. Len(arrived) : a <= b => arrived[a] <= arrived[b]
        BY DEF ClockInv, ArrivedInOrder
      <4>3. /\ arrived' \in Seq(Times) /\ Range(arrived') = Range(arrived) \cup {now}
            /\ \A a \in 1 .. Len(arrived') : arrived'[a] <= now
            /\ \A a, b \in 1 .. Len(arrived') : a <= b => arrived'[a] <= arrived'[b]
        BY <2>2, <2>4, <4>1, <4>2, OneMoreInOrder
      <4>4. QED
        BY <2>1, <4>3 DEF ArrivedInOrder
    <3>3. QED
      BY <3>1, <3>2
  <2>6. TakenInOrder'
    <3>1. /\ taken \in Seq(Times) /\ Range(taken) \subseteq Range(arrived)
          /\ \A a \in 1 .. Len(taken) : taken[a] <= now
          /\ \A a, b \in 1 .. Len(taken) : a <= b => taken[a] <= taken[b]
      BY DEF ClockInv, TakenInOrder
    <3>2. CASE taken' = taken
      BY <2>1, <2>5, <3>1, <3>2 DEF TakenInOrder
    <3>3. CASE IsSlotEvent(ev) /\ taken' = Append(taken, ev.ts)
      <4>1. taken' = Append(taken, now)
        BY <2>3, <3>3
      <4>2. /\ taken' \in Seq(Times) /\ Range(taken') = Range(taken) \cup {now}
            /\ \A a \in 1 .. Len(taken') : taken'[a] <= now
            /\ \A a, b \in 1 .. Len(taken') : a <= b => taken'[a] <= taken'[b]
        BY <2>2, <3>1, <4>1, OneMoreInOrder
      <4>3. Range(taken') \subseteq Range(arrived')
        BY <2>5, <3>1, <3>3, <4>2
      <4>4. QED
        BY <2>1, <4>2, <4>3 DEF TakenInOrder
    <3>4. QED
      BY <2>1, <3>2, <3>3
  <2>7. RingsSound'
    <3> SUFFICES ASSUME NEW j \in DOMAIN subs, NEW k \in 1 .. Len(rings'[j])
                 PROVE  /\ IsSlotEvent(rings'[j][k]) <=> CarriesSlots(subs[j])
                        /\ IsSlotEvent(rings'[j][k]) => rings'[j][k].ts \in Range(arrived')
      BY <2>1 DEF RingsSound
    <3>1. CASE j # i \/ rings' = rings
      <4>1. rings'[j] = rings[j]
        BY <2>1, <2>2, <3>1
      <4>2. QED
        BY <2>5, <4>1 DEF ClockInv, RingsSound
    <3>2. CASE j = i /\ rings' # rings
      <4>1. rings'[j] = Append(rings[i], ev)
        BY <2>1, <2>2, <3>2
      <4>2. /\ Len(rings[i]) \in Nat
            /\ Len(rings'[j]) = Len(rings[i]) + 1 /\ rings'[j][Len(rings[i]) + 1] = ev
            /\ \A m \in 1 .. Len(rings[i]) : rings'[j][m] = rings[i][m]
        BY <2>2, <4>1, AppendFacts
      <4>3. CASE k = Len(rings[i]) + 1
        BY <2>3, <2>5, <3>2, <4>2, <4>3
      <4>4. CASE k # Len(rings[i]) + 1
        <5>1. k \in 1 .. Len(rings[i]) /\ rings'[j][k] = rings[i][k]
          BY <4>2, <4>4
        <5>2. QED
          BY <2>5, <3>2, <5>1 DEF ClockInv, RingsSound
      <4>5. QED
        BY <4>3, <4>4
    <3>3. QED
      BY <3>1, <3>2
  <2>8. OrderSound'
    BY <2>1, <2>5 DEF ClockInv, OrderSound
  <2>9. stability' \in StabilityType /\ AtLastSeen'
    BY <2>1 DEF ClockInv, AtLastSeen
  <2>10. QED
    BY <2>5, <2>6, <2>7, <2>8, <2>9 DEF ClockInv
<1>4. CASE Observation
  <2> DEFINE ev == Head(rings[cur])
             n == Len(order)
  <2>1. /\ rings[cur] # <<>> /\ order' = Append(order, ev)
        /\ stability' = IF IsSlotEvent(ev)
                        THEN ObserveSlot(stability, ev.slot, ev.stage, ev.commitment, ev.ts)
                        ELSE stability
        /\ rings' = [rings EXCEPT ![cur] = Tail(@)]
        /\ UNCHANGED <<subs, now, arrived, taken>>
    BY <1>4 DEF Observation
  <2>2. /\ ev \in Events
        /\ IsSlotEvent(ev) =>
             /\ ev.slot \in Slot /\ ev.stage \in {"processed", "confirmed"} /\ ev.ts \in Times
             /\ ev.ts \in Range(arrived)
        /\ Len(Tail(rings[cur])) = Len(rings[cur]) - 1
        /\ \A k \in 1 .. Len(Tail(rings[cur])) : Tail(rings[cur])[k] = rings[cur][k + 1]
    BY <2>1, TakenFacts
  <2>3. order \in Seq(Events) /\ DOMAIN rings = DOMAIN subs /\ Len(rings[cur]) \in Nat
    BY LenProperties DEF CrossInv, TypeOK
  <2> HIDE DEF ev
  <2>4. /\ n \in Nat /\ Len(order') = n + 1 /\ order'[n + 1] = ev
        /\ \A k \in 1 .. n : order'[k] = order[k]
    BY <2>1, <2>2, <2>3, AppendFacts
  <2> HIDE DEF n
  <2>5. ArrivedInOrder' /\ TakenInOrder'
    BY <2>1 DEF ClockInv, ArrivedInOrder, TakenInOrder
  <2>6. RingsSound'
    <3> SUFFICES ASSUME NEW j \in DOMAIN subs, NEW k \in 1 .. Len(rings'[j])
                 PROVE  /\ IsSlotEvent(rings'[j][k]) <=> CarriesSlots(subs[j])
                        /\ IsSlotEvent(rings'[j][k]) => rings'[j][k].ts \in Range(arrived)
      BY <2>1 DEF RingsSound
    <3>1. CASE j # cur
      <4>1. rings'[j] = rings[j]
        BY <2>1, <2>3, <3>1
      <4>2. QED
        BY <4>1 DEF ClockInv, RingsSound
    <3>2. CASE j = cur
      <4>1. rings'[j] = Tail(rings[cur])
        BY <2>1, <2>3, <3>2
      <4>2. k + 1 \in 1 .. Len(rings[cur]) /\ rings'[j][k] = rings[cur][k + 1]
        BY <2>2, <2>3, <4>1
      <4>3. QED
        BY <3>2, <4>2 DEF ClockInv, RingsSound
    <3>3. QED
      BY <3>1, <3>2
  <2>7. OrderSound'
    <3> SUFFICES ASSUME NEW k \in 1 .. n + 1, IsSlotEvent(order'[k])
                 PROVE  order'[k].ts \in Range(arrived)
      BY <2>1, <2>4 DEF OrderSound
    <3>1. CASE k = n + 1
      BY <2>2, <2>4, <3>1
    <3>2. CASE k # n + 1
      <4>1. k \in 1 .. n /\ order'[k] = order[k]
        BY <2>4, <3>2
      <4>2. QED
        BY <4>1 DEF ClockInv, OrderSound, n
    <3>3. QED
      BY <3>1, <3>2
  <2>8. CASE IsSlotEvent(ev)
    <3>1. stability' \in StabilityType /\ stability'.last = ev.ts
      <4>1. stability' = ObserveSlot(stability, ev.slot, ev.stage, ev.commitment, ev.ts)
        BY <2>1, <2>8
      <4>2. stability \in StabilityType
        BY DEF ClockInv
      <4>3. ObservedInto(stability, stability', ev.slot, ev.stage, ev.commitment, ev.ts)
        BY <2>2, <2>8, <4>1, <4>2, ObserveFacts
      <4>4. QED
        BY <4>3 DEF ObservedInto
    <3>2. \A m \in 1 .. n + 1 : m <= n + 1
      BY <2>4
    <3>3. n + 1 \in 1 .. n + 1
      BY <2>4
    <3>4. AtLastSeen'
      BY <2>4, <2>8, <3>1, <3>2, <3>3 DEF AtLastSeen
    <3>5. QED
      BY <2>5, <2>6, <2>7, <3>1, <3>4 DEF ClockInv
  <2>9. CASE ~IsSlotEvent(ev)
    <3>1. stability' = stability
      BY <2>1, <2>9
    <3>2. \A m \in 1 .. n + 1 : IsSlotEvent(order'[m]) => m \in 1 .. n /\ order'[m] = order[m]
      BY <2>4, <2>9
    <3>3. \A m \in 1 .. n : m \in 1 .. n + 1
      BY <2>4
    <3>4. AtLastSeen'
      <4>1. CASE stability.last = NoTime /\ \A k \in 1 .. n : ~IsSlotEvent(order[k])
        BY <2>4, <3>1, <3>2, <4>1 DEF AtLastSeen
      <4>2. ASSUME NEW k \in 1 .. n, IsSlotEvent(order[k]), order[k].ts = stability.last,
                   \A m \in 1 .. n : IsSlotEvent(order[m]) => m <= k
            PROVE  AtLastSeen'
        <5>1. k \in 1 .. Len(order') /\ order'[k] = order[k]
          BY <2>4, <3>3
        <5>2. \A m \in 1 .. Len(order') : IsSlotEvent(order'[m]) => m <= k
          BY <2>4, <3>2, <4>2
        <5>3. QED
          BY <3>1, <4>2, <5>1, <5>2 DEF AtLastSeen
      <4>3. QED
        BY <4>1, <4>2 DEF ClockInv, AtLastSeen, n
    <3>5. stability' \in StabilityType
      BY <3>1 DEF ClockInv
    <3>6. QED
      BY <2>5, <2>6, <2>7, <3>4, <3>5 DEF ClockInv
  <2>10. QED
    BY <2>8, <2>9
<1>5. QED
  BY <1>1, <1>2, <1>3, <1>4

\* Slot events arrive and wait in the order of time, and the clock of the
\* tracker is at the one observed last.
LEMMA Clocks == Spec => []ClockInv
<1>1. Init => ClockInv
  <2> SUFFICES ASSUME Init PROVE ClockInv
    OBVIOUS
  <2>1. Len(<<>>) = 0
    OBVIOUS
  <2>2. /\ arrived = <<>> /\ taken = <<>> /\ order = <<>>
        /\ \A i \in DOMAIN subs : rings[i] = <<>>
    BY DEF Init
  <2>3. arrived \in Seq(Times) /\ taken \in Seq(Times) /\ Range(taken) = Range(arrived)
    BY <2>2
  <2>4. stability \in StabilityType /\ stability.last = NoTime
    <3>1. stability = NewStability
      BY DEF Init
    <3>2. <<>> \in Seq(Times \X Times)
          /\ <<>> \in Seq([slot : Slot, processed : Times, confirmed : Times])
      OBVIOUS
    <3>3. QED
      BY <3>1, <3>2 DEF NewStability, StabilityType, Stamp
  <2>5. QED
    BY <2>1, <2>2, <2>3, <2>4
    DEF ClockInv, ArrivedInOrder, TakenInOrder, RingsSound, OrderSound, AtLastSeen
<1>2. QED
  BY <1>1, ClockStep, CrossTypes, PTL DEF Spec

----------------------------------------------------------------------------
(* SilencesCovered.                                                         *)

LEMMA SilenceFacts ==
  ASSUME ClockInv, NEW p \in Silences
  PROVE  /\ p[1] \in Range(arrived) /\ p[2] \in Range(arrived)
         /\ p[1] \in Int /\ p[2] \in Int /\ p[2] - p[1] > StallThreshold /\ p[1] < p[2]
         /\ \A c \in Range(arrived) : c \in Int /\ (c <= p[1] \/ c >= p[2])
<1>1. \A c \in Range(arrived) : c \in Int
  <2>1. arrived \in Seq(Times)
    BY DEF ClockInv, ArrivedInOrder
  <2>2. \A i \in 1 .. Len(arrived) : arrived[i] \in Times
    BY <2>1, ElementOfSeq
  <2>3. DOMAIN arrived = 1 .. Len(arrived)
    BY <2>1, LenProperties
  <2>4. QED
    BY <2>2, <2>3 DEF Range, Times
<1>2. /\ p[1] \in Range(arrived) /\ p[2] \in Range(arrived) /\ p[2] - p[1] > StallThreshold
      /\ \A c \in Range(arrived) : c <= p[1] \/ c >= p[2]
  BY DEF Silences, SilencesAmong
<1>3. QED
  BY <1>1, <1>2, TrackersAssumption

\* No arrival makes a silence between two events that came before it.
LEMMA SilencesGrow ==
  ASSUME CrossInv, ClockInv, ClockInv', Arrival, NEW p \in Silences'
  PROVE  p \in Silences \/ p[2] \notin Range(arrived)
<1>1. Range(arrived) \subseteq Range(arrived')
  <2>1. PICK i, ev :
          /\ i \in DOMAIN subs
          /\ ev \in Deliverable(subs[i], now)
          /\ arrived' = IF IsSlotEvent(ev) THEN Append(arrived, ev.ts) ELSE arrived
    BY DEF Arrival
  <2>2. now \in Times /\ arrived \in Seq(Times)
    BY DEF CrossInv, TypeOK, ClockInv, ArrivedInOrder
  <2>3. IsSlotEvent(ev) => ev.ts \in Times
    BY <2>1, <2>2, SlotEventFacts
  <2>4. QED
    BY <2>1, <2>2, <2>3, AppendFacts
<1>2. /\ p = <<p[1], p[2]>> /\ p[1] \in Range(arrived') /\ p[2] \in Range(arrived')
      /\ p[2] - p[1] > StallThreshold
      /\ \A c \in Range(arrived') : c <= p[1] \/ c >= p[2]
  BY DEF Silences, SilencesAmong
<1>3. CASE p[1] \in Range(arrived) /\ p[2] \in Range(arrived)
  BY <1>1, <1>2, <1>3 DEF Silences, SilencesAmong
<1>4. CASE p[1] \notin Range(arrived) /\ p[2] \in Range(arrived)
  <2>1. PICK i, ev :
          /\ i \in DOMAIN subs
          /\ ev \in Deliverable(subs[i], now)
          /\ arrived' = IF IsSlotEvent(ev) THEN Append(arrived, ev.ts) ELSE arrived
    BY DEF Arrival
  <2>2. now \in Times /\ arrived \in Seq(Times)
    BY DEF CrossInv, TypeOK, ClockInv, ArrivedInOrder
  <2>3. IsSlotEvent(ev) => ev.ts = now
    BY <2>1, <2>2, SlotEventFacts
  <2>4. p[1] = now
    BY <1>2, <1>4, <2>1, <2>2, <2>3, AppendFacts
  <2>5. PICK a \in 1 .. Len(arrived) : p[2] = arrived[a]
    BY <1>4, <2>2, LenProperties DEF Range
  <2>6. p[2] <= now /\ p[2] \in Times
    BY <2>2, <2>5, ElementOfSeq DEF ClockInv, ArrivedInOrder
  <2>7. QED
    BY <1>2, <2>2, <2>4, <2>6, TrackersAssumption DEF Times
<1>5. QED
  BY <1>3, <1>4

LEMMA StallsKept ==
  ASSUME CrossInv, ClockInv, Observation
  PROVE  LET ev == Head(rings[cur])
         IN /\ stability'.stalls \in Seq(Times \X Times)
            /\ Range(stability.stalls) \subseteq Range(stability'.stalls)
            /\ IsSlotEvent(ev) =>
                 /\ stability'.last = ev.ts
                 /\ IsStall(stability, ev.ts) => <<stability.last, ev.ts>> \in Range(stability'.stalls)
<1> DEFINE ev == Head(rings[cur])
<1>1. /\ rings[cur] # <<>>
      /\ stability' = IF IsSlotEvent(ev)
                      THEN ObserveSlot(stability, ev.slot, ev.stage, ev.commitment, ev.ts)
                      ELSE stability
  BY DEF Observation
<1>2. stability \in StabilityType /\ stability.stalls \in Seq(Times \X Times)
      /\ stability.last \in Stamp
  BY DEF ClockInv, StabilityType
<1>3. IsSlotEvent(ev) => ev.slot \in Slot /\ ev.stage \in {"processed", "confirmed"} /\ ev.ts \in Times
  BY <1>1, TakenFacts
<1> HIDE DEF ev
<1>4. CASE ~IsSlotEvent(ev)
  BY <1>1, <1>2, <1>4 DEF ev
<1>5. CASE IsSlotEvent(ev)
  <2>1. ObservedInto(stability, stability', ev.slot, ev.stage, ev.commitment, ev.ts)
    BY <1>1, <1>2, <1>3, <1>5, ObserveFacts
  <2>2. CASE IsStall(stability, ev.ts)
    <3>1. stability'.stalls = Append(stability.stalls, <<stability.last, ev.ts>>)
          /\ stability'.last = ev.ts
      BY <2>1, <2>2 DEF ObservedInto
    <3>2. <<stability.last, ev.ts>> \in Times \X Times
      BY <1>2, <1>3, <1>5, <2>2 DEF IsStall, Stamp
    <3>3. /\ stability'.stalls \in Seq(Times \X Times)
          /\ Range(stability'.stalls) = Range(stability.stalls) \cup {<<stability.last, ev.ts>>}
      BY <1>2, <3>1, <3>2, AppendFacts
    <3>4. QED
      BY <3>1, <3>3 DEF ev
  <2>3. CASE ~IsStall(stability, ev.ts)
    BY <1>2, <2>1, <2>3 DEF ObservedInto, ev
  <2>4. QED
    BY <2>2, <2>3
<1>6. QED
  BY <1>4, <1>5

LEMMA CoveredStep ==
  CrossInv /\ ClockInv /\ ClockInv' /\ SilencesCovered /\ [Next]_vars => SilencesCovered'
<1> SUFFICES ASSUME CrossInv, ClockInv, ClockInv', SilencesCovered, [Next]_vars
             PROVE  SilencesCovered'
  OBVIOUS
<1>0. order \in Seq(Events) /\ DOMAIN order = 1 .. Len(order)
  BY LenProperties DEF CrossInv, TypeOK
<1>1. Quiet \/ Arrival \/ Observation
  BY ThreeKinds
<1>2. CASE Quiet
  BY <1>2 DEF Quiet, SilencesCovered, Silences, SilencesAmong
<1>3. CASE Arrival
  <2> SUFFICES ASSUME NEW p \in Silences',
                      NEW i \in DOMAIN order, NEW j \in DOMAIN order,
                      IsSlotEvent(order[i]), IsSlotEvent(order[j]),
                      i < j, order[i].ts <= p[1], order[j].ts >= p[2]
               PROVE  \E q \in Range(stability.stalls) : q[1] <= p[1] /\ q[2] >= p[2]
    BY <1>3 DEF Arrival, SilencesCovered
  <2>1. CASE p \in Silences
    BY <2>1 DEF SilencesCovered
  <2>2. CASE p \notin Silences
    <3>1. p[2] \notin Range(arrived)
      BY <1>3, <2>2, SilencesGrow
    <3>2. PICK k, ev :
            /\ k \in DOMAIN subs
            /\ ev \in Deliverable(subs[k], now)
            /\ arrived' = IF IsSlotEvent(ev) THEN Append(arrived, ev.ts) ELSE arrived
      BY <1>3 DEF Arrival
    <3>3. now \in Times /\ arrived \in Seq(Times)
      BY DEF CrossInv, TypeOK, ClockInv, ArrivedInOrder
    <3>4. IsSlotEvent(ev) => ev.ts = now
      BY <3>2, <3>3, SlotEventFacts
    <3>5. p[2] \in Range(arrived')
      BY DEF Silences, SilencesAmong
    <3>6. p[2] = now
      BY <3>1, <3>2, <3>3, <3>4, <3>5, AppendFacts
    <3>7. order[j].ts \in Range(arrived)
      BY <1>0 DEF ClockInv, OrderSound
    <3>8. PICK a \in 1 .. Len(arrived) : order[j].ts = arrived[a]
      BY <3>3, <3>7, LenProperties DEF Range
    <3>9. order[j].ts <= now /\ order[j].ts \in Times
      BY <3>3, <3>8, ElementOfSeq DEF ClockInv, ArrivedInOrder
    <3>10. order[j].ts = p[2]
      BY <3>3, <3>6, <3>9 DEF Times
    <3>11. QED
      BY <3>1, <3>7, <3>10
  <2>3. QED
    BY <2>1, <2>2
<1>4. CASE Observation
  <2> DEFINE ev == Head(rings[cur])
             n == Len(order)
             Holds(p) == \E q \in Range(stability'.stalls) : q[1] <= p[1] /\ q[2] >= p[2]
  <2>1. rings[cur] # <<>> /\ order' = Append(order, ev) /\ arrived' = arrived /\ ev \in Events
    BY <1>4, TakenFacts DEF Observation
  <2>2. /\ n \in Nat /\ DOMAIN order' = 1 .. n + 1 /\ order'[n + 1] = ev
        /\ \A k \in 1 .. n : order'[k] = order[k]
    BY <1>0, <2>1, AppendFacts, LenProperties
  <2>3. Range(stability.stalls) \subseteq Range(stability'.stalls)
    BY <1>4, StallsKept
  <2>4. IsSlotEvent(ev) =>
          /\ stability'.last = ev.ts /\ ev.ts \in Int
          /\ IsStall(stability, ev.ts) => <<stability.last, ev.ts>> \in Range(stability'.stalls)
    BY <1>4, <2>1, StallsKept, TakenFacts DEF Times
  <2> HIDE DEF ev
  <2> SUFFICES ASSUME NEW p \in Silences,
                      NEW i \in 1 .. n + 1, NEW j \in 1 .. n + 1,
                      IsSlotEvent(order'[i]), IsSlotEvent(order'[j]),
                      i < j, order'[i].ts <= p[1], order'[j].ts >= p[2]
               PROVE  Holds(p)
    BY <2>1, <2>2 DEF SilencesCovered, Silences, SilencesAmong
  <2> HIDE DEF n
  <2>5. i \in 1 .. n /\ order'[i] = order[i]
    BY <2>2
  <2>6. ASSUME NEW k \in 1 .. n, IsSlotEvent(order[k]), i < k, order[k].ts >= p[2]
        PROVE  Holds(p)
    <3>1. i \in {m \in DOMAIN order : IsSlotEvent(order[m])}
          /\ k \in {m \in DOMAIN order : IsSlotEvent(order[m])}
      BY <1>0, <2>5, <2>6 DEF n
    <3>2. \E q \in Range(stability.stalls) : q[1] <= p[1] /\ q[2] >= p[2]
      BY <2>5, <2>6, <3>1 DEF SilencesCovered
    <3>3. QED
      BY <2>3, <3>2
  <2>7. CASE j # n + 1
    <3>1. j \in 1 .. n /\ order'[j] = order[j]
      BY <2>2, <2>7
    <3>2. QED
      BY <2>6, <3>1
  <2>8. CASE j = n + 1
    <3>1. PICK k \in 1 .. n :
            /\ IsSlotEvent(order[k]) /\ order[k].ts = stability.last
            /\ \A m \in 1 .. n : IsSlotEvent(order[m]) => m <= k
      BY <2>5 DEF ClockInv, AtLastSeen, n
    <3>2. i <= k /\ IsSlotEvent(ev) /\ ev.ts >= p[2]
      BY <2>2, <2>5, <2>8, <3>1
    <3>3. stability.last \in Range(arrived)
      BY <3>1 DEF ClockInv, OrderSound, n
    <3>4. /\ p[1] \in Int /\ p[2] \in Int /\ p[2] - p[1] > StallThreshold /\ p[1] < p[2]
          /\ stability.last \in Int
          /\ (stability.last <= p[1] \/ stability.last >= p[2])
      BY <3>3, SilenceFacts
    <3>5. CASE stability.last >= p[2]
      <4>1. i # k
        BY <2>5, <3>1, <3>4, <3>5
      <4>2. QED
        BY <2>2, <2>6, <3>1, <3>2, <3>5, <4>1
    <3>6. CASE stability.last <= p[1]
      <4>1. stability.last # NoTime
        <5>1. \A c \in Range(arrived) : c \in Times
          BY ElementOfSeq, LenProperties DEF ClockInv, ArrivedInOrder, Range
        <5>2. QED
          BY <3>3, <5>1 DEF Times, NoTime
      <4>2. ev.ts - stability.last > StallThreshold
        BY <2>4, <3>2, <3>4, <3>6, TrackersAssumption
      <4>3. <<stability.last, ev.ts>> \in Range(stability'.stalls)
        BY <2>4, <3>2, <4>1, <4>2 DEF IsStall
      <4>4. QED
        BY <3>2, <3>6, <4>3
    <3>7. QED
      BY <3>4, <3>5, <3>6
  <2>9. QED
    BY <2>7, <2>8
<1>5. QED
  BY <1>1, <1>2, <1>3, <1>4

\* No silence of the endpoint goes unrecorded: once events from before and
\* then from after it have been observed, some stall spans it, whatever the
\* number of subscriptions that bring slot events.
THEOREM NoSilenceMissed == Spec => []SilencesCovered
<1>1. Init => SilencesCovered
  BY DEF Init, SilencesCovered
<1>2. QED
  BY <1>1, CoveredStep, CrossTypes, Clocks, PTL DEF Spec

----------------------------------------------------------------------------
(* FirstArrivalHeld.                                                        *)

LEMMA MinFacts ==
  ASSUME NEW S \in SUBSET Nat, S # {}
  PROVE  Min(S) \in S /\ \A x \in S : Min(S) <= x
<1>1. \E m \in S : \A x \in S : m <= x
  BY LeastNatural
<1>2. QED
  BY <1>1 DEF Min

LEMMA MinIs ==
  ASSUME NEW S \in SUBSET Nat, NEW m \in S, \A x \in S : m <= x
  PROVE  Min(S) = m
<1>1. Min(S) \in S /\ Min(S) <= m /\ m <= Min(S) /\ Min(S) \in Nat /\ m \in Nat
  BY MinFacts
<1>2. QED
  BY <1>1

\* An event that counts as the arrival of a slot at a stage.
Counts(ev, slot, stage) ==
  IsSlotEvent(ev) /\ ev.slot = slot /\ ev.stage = stage /\ ev.commitment = stage

FirstTime(slot, stage) ==
  IF SeenAt(slot, stage) = {} THEN NoTime ELSE order[Min(SeenAt(slot, stage))].ts

\* The first arrival after one more event: the old one, if there was one.
LEMMA FirstTimeAfter ==
  ASSUME NEW ev \in Events, order \in Seq(Events), order' = Append(order, ev),
         NEW slot, NEW stage
  PROVE  /\ ~Counts(ev, slot, stage) => FirstTime(slot, stage)' = FirstTime(slot, stage)
         /\ Counts(ev, slot, stage) =>
              FirstTime(slot, stage)' =
                IF SeenAt(slot, stage) = {} THEN ev.ts ELSE FirstTime(slot, stage)
<1> DEFINE n == Len(order)
           old == SeenAt(slot, stage)
           new == SeenAt(slot, stage)'
<1>1. /\ n \in Nat /\ DOMAIN order = 1 .. n /\ DOMAIN order' = 1 .. n + 1
      /\ order'[n + 1] = ev /\ \A k \in 1 .. n : order'[k] = order[k]
  BY AppendFacts, AppendProperties, LenProperties
<1> HIDE DEF n
<1>2. old = {i \in 1 .. n : Counts(order[i], slot, stage)}
      /\ new = {i \in 1 .. n + 1 : Counts(order'[i], slot, stage)}
  BY <1>1 DEF SeenAt, Counts
<1> HIDE DEF old, new
<1>3. old \in SUBSET Nat /\ new \in SUBSET Nat /\ old \subseteq 1 .. n
  BY <1>1, <1>2
<1>4. \A i \in 1 .. n : i \in new <=> i \in old
  BY <1>1, <1>2
<1>5. n + 1 \in new <=> Counts(ev, slot, stage)
  BY <1>1, <1>2
<1>6. CASE old = {}
  <2>1. new \subseteq {n + 1}
    BY <1>1, <1>2, <1>4, <1>6
  <2>2. CASE Counts(ev, slot, stage)
    <3>1. new = {n + 1}
      BY <1>5, <2>1, <2>2
    <3>2. Min(new) = n + 1
      BY <1>1, <1>3, <3>1, MinIs
    <3>3. QED
      BY <1>1, <1>6, <2>2, <3>1, <3>2 DEF FirstTime, old, new
  <2>3. CASE ~Counts(ev, slot, stage)
    <3>1. new = {}
      BY <1>5, <2>1, <2>3
    <3>2. QED
      BY <1>6, <2>3, <3>1 DEF FirstTime, old, new
  <2>4. QED
    BY <2>2, <2>3
<1>7. CASE old # {}
  <2> DEFINE m == Min(old)
  <2>1. m \in old /\ \A x \in old : m <= x
    BY <1>3, <1>7, MinFacts
  <2> HIDE DEF m
  <2>2. m \in 1 .. n /\ m \in new
    BY <1>3, <1>4, <2>1
  <2>3. ASSUME NEW x \in new PROVE m <= x
    <3>1. CASE x \in 1 .. n
      BY <1>4, <2>1, <3>1
    <3>2. CASE x \notin 1 .. n
      BY <1>1, <1>2, <2>2, <3>2
    <3>3. QED
      BY <3>1, <3>2
  <2>4. Min(new) = m
    BY <1>3, <2>2, <2>3, MinIs
  <2>5. order'[m] = order[m]
    BY <1>1, <2>2
  <2>6. QED
    BY <1>7, <2>2, <2>4, <2>5 DEF FirstTime, old, new, m
<1>8. QED
  BY <1>6, <1>7

\* The subscriptions of the endpoint give their slot events one label at most.
OneLabel ==
  \E l : /\ Labelled(subs, l)
         /\ \A k \in 1 .. Len(order) :
              IsSlotEvent(order[k]) => order[k].commitment \in {l, NoCommitment}

LEMMA OneLabelStep == CrossInv /\ ClockInv /\ OneLabel /\ [Next]_vars => OneLabel'
<1> SUFFICES ASSUME CrossInv, ClockInv, OneLabel, [Next]_vars PROVE OneLabel'
  OBVIOUS
<1>1. Quiet \/ Arrival \/ Observation
  BY ThreeKinds
<1>2. CASE Quiet \/ Arrival
  BY <1>2 DEF Quiet, Arrival, OneLabel, Labelled
<1>3. CASE Observation
  <2>0. PICK ev : ev = Head(rings[cur])
    OBVIOUS
  <2>1. rings[cur] # <<>> /\ order' = Append(order, ev) /\ subs' = subs /\ order \in Seq(Events)
    BY <1>3, <2>0 DEF Observation, CrossInv, TypeOK
  <2>2. /\ ev \in Events
        /\ IsSlotEvent(ev) =>
             \E i \in DOMAIN subs : CarriesSlots(subs[i]) /\ ev.commitment = subs[i].commitment
    BY <2>0, <2>1, TakenFacts
  <2>3. PICK l : /\ Labelled(subs, l)
                 /\ \A k \in 1 .. Len(order) :
                      IsSlotEvent(order[k]) => order[k].commitment \in {l, NoCommitment}
    BY DEF OneLabel
  <2>4. IsSlotEvent(ev) => ev.commitment \in {l, NoCommitment}
    <3>1. DOMAIN subs = 1 .. Len(subs)
      BY DEF CrossInv, TypeOK
    <3> SUFFICES ASSUME IsSlotEvent(ev) PROVE ev.commitment \in {l, NoCommitment}
      OBVIOUS
    <3>3. PICK i \in DOMAIN subs : CarriesSlots(subs[i]) /\ ev.commitment = subs[i].commitment
      BY <2>2
    <3>4. i \in 1 .. Len(subs)
      BY <3>1
    <3>5. QED
      BY <2>3, <3>3, <3>4 DEF Labelled
  <2>5. /\ Len(order) \in Nat /\ Len(order') = Len(order) + 1 /\ order'[Len(order) + 1] = ev
        /\ \A k \in 1 .. Len(order) : order'[k] = order[k]
    BY <2>1, <2>2, AppendFacts
  <2>6. ASSUME NEW k \in 1 .. Len(order'), IsSlotEvent(order'[k])
        PROVE  order'[k].commitment \in {l, NoCommitment}
    <3>1. CASE k = Len(order) + 1
      BY <2>4, <2>5, <2>6, <3>1
    <3>2. CASE k # Len(order) + 1
      <4>1. k \in 1 .. Len(order) /\ order'[k] = order[k]
        BY <2>5, <3>2
      <4>2. QED
        BY <2>3, <2>6, <4>1
    <3>3. QED
      BY <3>1, <3>2
  <2>7. Labelled(subs, l)'
    BY <2>1, <2>3 DEF Labelled
  <2>8. QED
    BY <2>6, <2>7 DEF OneLabel
<1>4. QED
  BY <1>1, <1>2, <1>3

\* FirstArrivalHeld, stage by stage.
FirstHeld ==
  /\ stability.drifts = <<>>
  /\ \A slot \in Slot :
       /\ stability.processed[slot] = FirstTime(slot, "processed")
       /\ stability.confirmed[slot] = FirstTime(slot, "confirmed")

\* What is seen first has a time.
LEMMA FirstTimeKnown ==
  ASSUME CrossInv, ClockInv, NEW slot, NEW stage, SeenAt(slot, stage) # {}
  PROVE  FirstTime(slot, stage) # NoTime
<1> DEFINE m == Min(SeenAt(slot, stage))
<1>1. order \in Seq(Events) /\ DOMAIN order = 1 .. Len(order) /\ Len(order) \in Nat
  BY LenProperties DEF CrossInv, TypeOK
<1>2. SeenAt(slot, stage) \in SUBSET Nat
  BY <1>1 DEF SeenAt
<1>3. m \in SeenAt(slot, stage)
  BY <1>2, MinFacts
<1>4. m \in 1 .. Len(order) /\ IsSlotEvent(order[m])
  BY <1>1, <1>3 DEF SeenAt
<1>5. order[m].ts \in Range(arrived)
  BY <1>4 DEF ClockInv, OrderSound
<1>6. order[m].ts \in Times
  BY <1>5, ElementOfSeq, LenProperties DEF ClockInv, ArrivedInOrder, Range
<1>7. QED
  BY <1>6 DEF FirstTime, Times, NoTime

LEMMA FirstHeldStep ==
  CrossInv /\ ClockInv /\ OneLabel /\ OneLabel' /\ FirstHeld /\ [Next]_vars => FirstHeld'
<1> SUFFICES ASSUME CrossInv, ClockInv, OneLabel, OneLabel', FirstHeld, [Next]_vars
             PROVE  FirstHeld'
  OBVIOUS
<1>1. Quiet \/ Arrival \/ Observation
  BY ThreeKinds
<1>2. CASE Quiet \/ Arrival
  <2>1. order' = order /\ stability' = stability
    BY <1>2 DEF Quiet, Arrival
  <2>2. ASSUME NEW slot, NEW stage
        PROVE  FirstTime(slot, stage)' = FirstTime(slot, stage)
    BY <2>1 DEF FirstTime, SeenAt
  <2>3. QED
    BY <2>1, <2>2 DEF FirstHeld
<1>3. CASE Observation
  <2>0. PICK ev : ev = Head(rings[cur])
    OBVIOUS
  <2>1. /\ rings[cur] # <<>> /\ order' = Append(order, ev) /\ order \in Seq(Events)
        /\ stability' = IF IsSlotEvent(ev)
                        THEN ObserveSlot(stability, ev.slot, ev.stage, ev.commitment, ev.ts)
                        ELSE stability
    BY <1>3, <2>0 DEF Observation, CrossInv, TypeOK
  <2>2. /\ ev \in Events
        /\ IsSlotEvent(ev) =>
             ev.slot \in Slot /\ ev.stage \in {"processed", "confirmed"} /\ ev.ts \in Times
    BY <2>0, <2>1, TakenFacts
  <2>3. stability \in StabilityType /\ stability.processed \in [Slot -> Stamp]
        /\ stability.confirmed \in [Slot -> Stamp]
    BY DEF ClockInv, StabilityType
  <2>4. ASSUME NEW slot, NEW stage
        PROVE  /\ ~Counts(ev, slot, stage) => FirstTime(slot, stage)' = FirstTime(slot, stage)
               /\ Counts(ev, slot, stage) =>
                    FirstTime(slot, stage)' =
                      IF SeenAt(slot, stage) = {} THEN ev.ts ELSE FirstTime(slot, stage)
    BY <2>1, <2>2, FirstTimeAfter
  <2>5. CASE ~IsSlotEvent(ev)
    <3>1. \A slot, stage : ~Counts(ev, slot, stage)
      BY <2>5 DEF Counts
    <3>2. QED
      BY <2>1, <2>4, <2>5, <3>1 DEF FirstHeld
  <2>6. CASE IsSlotEvent(ev)
    <3>1. ObservedInto(stability, stability', ev.slot, ev.stage, ev.commitment, ev.ts)
      BY <2>1, <2>2, <2>3, <2>6, ObserveFacts
    <3>2. CASE ev.stage # ev.commitment
      <4>1. \A slot, stage : ~Counts(ev, slot, stage)
        BY <3>2 DEF Counts
      <4>2. stability'.processed = stability.processed /\ stability'.confirmed = stability.confirmed
            /\ stability'.drifts = stability.drifts
        BY <3>1, <3>2 DEF ObservedInto
      <4>3. QED
        BY <2>4, <4>1, <4>2 DEF FirstHeld
    <3>3. ASSUME NEW stage \in {"processed", "confirmed"}, NEW other \in {"processed", "confirmed"},
                 stage # other, ev.stage = stage, ev.commitment = stage
          PROVE  /\ SeenAt(ev.slot, other) = {}
                 /\ \A slot : FirstTime(slot, other)' = FirstTime(slot, other)
                 /\ \A slot : slot # ev.slot => FirstTime(slot, stage)' = FirstTime(slot, stage)
                 /\ FirstTime(ev.slot, stage)' =
                      IF FirstTime(ev.slot, stage) = NoTime THEN ev.ts ELSE FirstTime(ev.slot, stage)
      <4>1. \A slot : ~Counts(ev, slot, other)
        BY <3>3 DEF Counts
      <4>2. \A slot : slot # ev.slot => ~Counts(ev, slot, stage)
        BY DEF Counts
      <4>3. Counts(ev, ev.slot, stage)
        BY <2>6, <3>3 DEF Counts
      <4>4. SeenAt(ev.slot, other) = {}
        <5>1. PICK l : \A k \in 1 .. Len(order') :
                         IsSlotEvent(order'[k]) => order'[k].commitment \in {l, NoCommitment}
          BY DEF OneLabel
        <5>2. /\ Len(order) \in Nat /\ Len(order') = Len(order) + 1
              /\ order'[Len(order) + 1] = ev /\ \A k \in 1 .. Len(order) : order'[k] = order[k]
              /\ DOMAIN order = 1 .. Len(order)
          BY <2>1, <2>2, AppendFacts, LenProperties
        <5>3. Len(order) + 1 \in 1 .. Len(order')
          BY <5>2
        <5>4. stage \in {l, NoCommitment}
          BY <2>6, <3>3, <5>1, <5>2, <5>3
        <5>5. l = stage
          BY <3>3, <5>4 DEF NoCommitment
        <5>6. \A k \in 1 .. Len(order) : IsSlotEvent(order[k]) => order[k].commitment # other
          <6> SUFFICES ASSUME NEW k \in 1 .. Len(order), IsSlotEvent(order[k])
                       PROVE  order[k].commitment # other
            OBVIOUS
          <6>1. k \in 1 .. Len(order') /\ order'[k] = order[k]
            BY <5>2
          <6>2. order[k].commitment \in {stage, NoCommitment}
            BY <5>1, <5>5, <6>1
          <6>3. QED
            BY <3>3, <6>2 DEF NoCommitment
        <5>7. QED
          BY <5>2, <5>6 DEF SeenAt
      <4>5. SeenAt(ev.slot, stage) = {} <=> FirstTime(ev.slot, stage) = NoTime
        BY FirstTimeKnown DEF FirstTime
      <4>6. /\ \A slot : FirstTime(slot, other)' = FirstTime(slot, other)
            /\ \A slot : slot # ev.slot => FirstTime(slot, stage)' = FirstTime(slot, stage)
        BY <2>4, <4>1, <4>2
      <4>7. FirstTime(ev.slot, stage)' =
              IF SeenAt(ev.slot, stage) = {} THEN ev.ts ELSE FirstTime(ev.slot, stage)
        BY <2>4, <4>3
      <4>8. QED
        BY <4>4, <4>5, <4>6, <4>7
    <3>4. ASSUME NEW stage \in {"processed", "confirmed"}, NEW other \in {"processed", "confirmed"},
                 stage # other, ev.stage = stage, ev.commitment = stage
          PROVE  stability[other][ev.slot] = NoTime
      BY <2>2, <2>6, <3>3, <3>4 DEF FirstHeld, FirstTime
    <3>5. CASE ev.stage = "processed" /\ ev.commitment = "processed"
      <4>1. stability.confirmed[ev.slot] = NoTime
        BY <3>4, <3>5
      <4>2. /\ stability'.processed =
                 [stability.processed EXCEPT ![ev.slot] = FirstOf(stability.processed, ev.slot, ev.ts)]
            /\ stability'.confirmed = stability.confirmed /\ stability'.drifts = stability.drifts
        BY <3>1, <3>5, <4>1 DEF ObservedInto
      <4>3. /\ \A slot : FirstTime(slot, "confirmed")' = FirstTime(slot, "confirmed")
            /\ \A slot : slot # ev.slot => FirstTime(slot, "processed")' = FirstTime(slot, "processed")
            /\ FirstTime(ev.slot, "processed")' =
                 IF FirstTime(ev.slot, "processed") = NoTime THEN ev.ts
                 ELSE FirstTime(ev.slot, "processed")
        BY <3>3, <3>5
      <4>4. ASSUME NEW slot \in Slot
            PROVE  stability'.processed[slot] = FirstTime(slot, "processed")'
        <5>1. stability.processed[slot] = FirstTime(slot, "processed")
          BY DEF FirstHeld
        <5>2. CASE slot = ev.slot
          BY <2>3, <4>2, <4>3, <5>1, <5>2 DEF FirstOf
        <5>3. CASE slot # ev.slot
          BY <2>3, <4>2, <4>3, <5>1, <5>3
        <5>4. QED
          BY <5>2, <5>3
      <4>5. QED
        BY <4>2, <4>3, <4>4 DEF FirstHeld
    <3>6. CASE ev.stage = "confirmed" /\ ev.commitment = "confirmed"
      <4>1. stability.processed[ev.slot] = NoTime
        BY <3>4, <3>6
      <4>2. /\ stability'.confirmed =
                 [stability.confirmed EXCEPT ![ev.slot] = FirstOf(stability.confirmed, ev.slot, ev.ts)]
            /\ stability'.processed = stability.processed /\ stability'.drifts = stability.drifts
        BY <3>1, <3>6, <4>1 DEF ObservedInto
      <4>3. /\ \A slot : FirstTime(slot, "processed")' = FirstTime(slot, "processed")
            /\ \A slot : slot # ev.slot => FirstTime(slot, "confirmed")' = FirstTime(slot, "confirmed")
            /\ FirstTime(ev.slot, "confirmed")' =
                 IF FirstTime(ev.slot, "confirmed") = NoTime THEN ev.ts
                 ELSE FirstTime(ev.slot, "confirmed")
        BY <3>3, <3>6
      <4>4. ASSUME NEW slot \in Slot
            PROVE  stability'.confirmed[slot] = FirstTime(slot, "confirmed")'
        <5>1. stability.confirmed[slot] = FirstTime(slot, "confirmed")
          BY DEF FirstHeld
        <5>2. CASE slot = ev.slot
          BY <2>3, <4>2, <4>3, <5>1, <5>2 DEF FirstOf
        <5>3. CASE slot # ev.slot
          BY <2>3, <4>2, <4>3, <5>1, <5>3
        <5>4. QED
          BY <5>2, <5>3
      <4>5. QED
        BY <4>2, <4>3, <4>4 DEF FirstHeld
    <3>7. QED
      BY <2>2, <2>6, <3>2, <3>5, <3>6
  <2>7. QED
    BY <2>5, <2>6
<1>4. QED
  BY <1>1, <1>2, <1>3

\* What the tracker holds of a slot is its first arrival at the stage the slot
\* subscription is labelled with; a drift is never recorded.
THEOREM FirstArrivals == Spec => []FirstArrivalHeld
<1>1. Init => OneLabel /\ FirstHeld
  <2> SUFFICES ASSUME Init PROVE OneLabel /\ FirstHeld
    OBVIOUS
  <2>1. order = <<>> /\ DOMAIN order = {} /\ Len(order) = 0
    BY DEF Init
  <2>2. PICK c \in Configs : subs = OfEndpoint(PlanOf(c), 1)
    BY DEF Init
  <2>3. Labelled(subs, c.commitments[1])
    BY <2>2, PlanFacts
  <2>4. OneLabel
    BY <2>1, <2>3 DEF OneLabel
  <2>5. \A slot, stage : FirstTime(slot, stage) = NoTime
    BY <2>1 DEF FirstTime, SeenAt
  <2>6. stability = NewStability
    BY DEF Init
  <2>7. QED
    BY <2>4, <2>5, <2>6 DEF FirstHeld, NewStability
<1>2. FirstHeld => FirstArrivalHeld
  <2> SUFFICES ASSUME FirstHeld, NEW slot \in Slot, NEW stage \in {"processed", "confirmed"}
               PROVE  /\ stability.drifts = <<>>
                      /\ stability[stage][slot] = FirstTime(slot, stage)
    BY DEF FirstArrivalHeld, FirstHeld, FirstTime
  <2>1. QED
    BY DEF FirstHeld
<1>3. QED
  BY <1>1, <1>2, OneLabelStep, FirstHeldStep, CrossTypes, Clocks, PTL DEF Spec

----------------------------------------------------------------------------
(* StallsExact.                                                             *)

\* The neighbours among the first n of a sequence of times that are further
\* apart than the threshold.
FarNeighbours(A, n) ==
  {<<A[m], A[m + 1]>> : m \in {x \in 1 .. (n - 1) : A[x + 1] - A[x] > StallThreshold}}

\* The only source of slot events is src, and the tracker has seen the first n
\* of those its ring took; the others wait there.
Consumed(src, n) ==
  /\ n \in 0 .. Len(taken) /\ Len(rings[src]) = Len(taken) - n
  /\ \A k \in 1 .. Len(rings[src]) :
       IsSlotEvent(rings[src][k]) /\ rings[src][k].ts = taken[n + k]
  /\ stability.last = IF n = 0 THEN NoTime ELSE taken[n]
  /\ Range(stability.stalls) = FarNeighbours(taken, n)
  /\ \A k, l \in 1 .. Len(stability.stalls) :
       k < l => stability.stalls[k][2] < stability.stalls[l][2]
  /\ \A k \in 1 .. Len(stability.stalls) : stability.stalls[k][2] <= stability.last

\* The times at which slot events arrived that none which found room has, no
\* more than were counted as dropped.
Missing == Range(arrived) \ Range(taken)
FewMissing(src) ==
  IsFiniteSet(Missing) /\ Cardinality(Missing) \in Nat /\ Cardinality(Missing) <= dropped[src]

OneSource ==
  \A src \in DOMAIN subs :
    SlotSources = {src} => FewMissing(src) /\ \E n : Consumed(src, n)

LEMMA FarNeighboursOfLonger ==
  ASSUME NEW A \in Seq(Times), NEW B \in Seq(Times), NEW n \in 0 .. Len(A),
         Len(A) <= Len(B), \A k \in 1 .. Len(A) : B[k] = A[k]
  PROVE  FarNeighbours(B, n) = FarNeighbours(A, n)
<1>1. Len(A) \in Nat
  BY LenProperties
<1>2. \A m \in 1 .. (n - 1) : B[m] = A[m] /\ B[m + 1] = A[m + 1]
  BY <1>1
<1>3. QED
  BY <1>2 DEF FarNeighbours

LEMMA OneSourceArrival ==
  ASSUME CrossInv, ClockInv, ClockInv', Arrival,
         NEW src \in DOMAIN subs, SlotSources = {src}, NEW n, Consumed(src, n)
  PROVE  Consumed(src, n)'
<1>1. PICK i, ev :
        /\ i \in DOMAIN subs
        /\ ev \in Deliverable(subs[i], now)
        /\ \/ /\ rings' = [rings EXCEPT ![i] = Append(@, ev)]
              /\ taken' = IF IsSlotEvent(ev) THEN Append(taken, ev.ts) ELSE taken
           \/ UNCHANGED <<rings, taken>>
        /\ UNCHANGED <<subs, now, stability, order>>
  BY DEF Arrival
<1>2. /\ now \in Times /\ ev \in Events /\ rings[src] \in Seq(Events) /\ DOMAIN rings = DOMAIN subs
      /\ Len(rings[src]) \in Nat
  <2>1. now \in Times /\ rings[src] \in Seq(Events) /\ DOMAIN rings = DOMAIN subs
    BY DEF CrossInv, TypeOK
  <2>2. ev \in Events
    BY <1>1, <2>1 DEF Events
  <2>3. QED
    BY <2>1, <2>2, LenProperties
<1>3. taken \in Seq(Times) /\ Len(taken) \in Nat
  BY LenProperties DEF ClockInv, TakenInOrder
<1>4. /\ IsSlotEvent(ev) <=> i = src
      /\ IsSlotEvent(ev) => ev.ts = now
  <2>1. CarriesSlots(subs[i]) <=> i = src
    BY <1>1 DEF SlotSources
  <2>2. QED
    BY <1>1, <1>2, <2>1, SlotEventFacts
<1>5. /\ n \in 0 .. Len(taken) /\ Len(rings[src]) = Len(taken) - n
      /\ \A k \in 1 .. Len(rings[src]) :
           IsSlotEvent(rings[src][k]) /\ rings[src][k].ts = taken[n + k]
  BY DEF Consumed
<1>6. CASE i # src \/ UNCHANGED <<rings, taken>>
  <2>1. rings'[src] = rings[src] /\ taken' = taken /\ stability' = stability
    BY <1>1, <1>2, <1>4, <1>6
  <2>2. QED
    BY <2>1 DEF Consumed, FarNeighbours
<1>7. CASE i = src /\ ~UNCHANGED <<rings, taken>>
  <2>1. taken' = Append(taken, now)
    BY <1>1, <1>4, <1>7
  <2>2. /\ taken' \in Seq(Times)
        /\ Len(taken') = Len(taken) + 1 /\ taken'[Len(taken) + 1] = now
        /\ \A k \in 1 .. Len(taken) : taken'[k] = taken[k]
    BY <1>2, <1>3, <2>1, AppendFacts
  <2>3. /\ Len(rings'[src]) = Len(rings[src]) + 1 /\ rings'[src][Len(rings[src]) + 1] = ev
        /\ \A k \in 1 .. Len(rings[src]) : rings'[src][k] = rings[src][k]
    BY <1>1, <1>2, <1>7, AppendFacts
  <2>4. n \in 0 .. Len(taken') /\ Len(rings'[src]) = Len(taken') - n
    BY <1>3, <1>5, <2>2, <2>3
  <2>5. ASSUME NEW k \in 1 .. Len(rings'[src])
        PROVE  IsSlotEvent(rings'[src][k]) /\ rings'[src][k].ts = taken'[n + k]
    <3>1. CASE k = Len(rings[src]) + 1
      <4>1. n + k = Len(taken) + 1
        BY <1>3, <1>5, <3>1
      <4>2. QED
        BY <1>4, <1>7, <2>2, <2>3, <3>1, <4>1
    <3>2. CASE k # Len(rings[src]) + 1
      <4>1. k \in 1 .. Len(rings[src]) /\ n + k \in 1 .. Len(taken)
        BY <1>2, <1>3, <1>5, <2>3, <3>2
      <4>2. QED
        BY <1>5, <2>2, <2>3, <4>1
    <3>3. QED
      BY <3>1, <3>2
  <2>6. FarNeighbours(taken', n) = FarNeighbours(taken, n)
    BY <1>3, <1>5, <2>2, FarNeighboursOfLonger
  <2>7. stability'.last = IF n = 0 THEN NoTime ELSE taken'[n]
    BY <1>1, <1>3, <1>5, <2>2 DEF Consumed
  <2>8. stability' = stability
    BY <1>1
  <2>9. QED
    BY <2>4, <2>5, <2>6, <2>7, <2>8 DEF Consumed
<1>8. QED
  BY <1>6, <1>7

\* One more time, which adds a pair if it is far from the one before.
LEMMA FarNeighboursNext ==
  ASSUME NEW A \in Seq(Times), NEW n \in 1 .. (Len(A) - 1)
  PROVE  FarNeighbours(A, n + 1) =
           IF A[n + 1] - A[n] > StallThreshold
           THEN FarNeighbours(A, n) \cup {<<A[n], A[n + 1]>>} ELSE FarNeighbours(A, n)
<1>1. Len(A) \in Nat /\ n \in Nat
  BY LenProperties
<1>2. 1 .. ((n + 1) - 1) = (1 .. (n - 1)) \cup {n}
  BY <1>1
<1>3. QED
  BY <1>2 DEF FarNeighbours

LEMMA OneSourceObservation ==
  ASSUME CrossInv, ClockInv, ClockInv', Observation,
         NEW src \in DOMAIN subs, SlotSources = {src}, NEW n, Consumed(src, n)
  PROVE  \E m : Consumed(src, m)'
<1>0. PICK ev : ev = Head(rings[cur])
  OBVIOUS
<1>1. /\ rings[cur] # <<>> /\ rings' = [rings EXCEPT ![cur] = Tail(@)] /\ taken' = taken
      /\ stability' = IF IsSlotEvent(ev)
                      THEN ObserveSlot(stability, ev.slot, ev.stage, ev.commitment, ev.ts)
                      ELSE stability
  BY <1>0 DEF Observation
<1>2. /\ ev = rings[cur][1] /\ 1 \in 1 .. Len(rings[cur])
      /\ IsSlotEvent(ev) <=> CarriesSlots(subs[cur])
      /\ IsSlotEvent(ev) =>
           ev.slot \in Slot /\ ev.stage \in {"processed", "confirmed"} /\ ev.ts \in Times
      /\ Len(Tail(rings[cur])) = Len(rings[cur]) - 1
      /\ \A k \in 1 .. Len(Tail(rings[cur])) : Tail(rings[cur])[k] = rings[cur][k + 1]
  BY <1>0, <1>1, TakenFacts
<1>3. /\ cur \in DOMAIN subs /\ DOMAIN rings = DOMAIN subs /\ Len(rings[src]) \in Nat
      /\ taken \in Seq(Times) /\ Len(taken) \in Nat
  BY LenProperties DEF CrossInv, TypeOK, ClockInv, TakenInOrder
<1>4. IsSlotEvent(ev) <=> cur = src
  BY <1>2, <1>3 DEF SlotSources
<1>5. CASE cur # src
  <2>1. rings'[src] = rings[src] /\ taken' = taken /\ stability' = stability
    BY <1>1, <1>3, <1>4, <1>5
  <2>2. Consumed(src, n)'
    BY <2>1 DEF Consumed, FarNeighbours
  <2>3. QED
    BY <2>2
<1>6. CASE cur = src
  <2>1. /\ n \in 0 .. Len(taken) /\ Len(rings[src]) = Len(taken) - n
        /\ \A k \in 1 .. Len(rings[src]) :
             IsSlotEvent(rings[src][k]) /\ rings[src][k].ts = taken[n + k]
        /\ stability.last = IF n = 0 THEN NoTime ELSE taken[n]
        /\ Range(stability.stalls) = FarNeighbours(taken, n)
        /\ \A k, l \in 1 .. Len(stability.stalls) :
             k < l => stability.stalls[k][2] < stability.stalls[l][2]
        /\ \A k \in 1 .. Len(stability.stalls) : stability.stalls[k][2] <= stability.last
    BY DEF Consumed
  <2>2. n + 1 \in 1 .. Len(taken) /\ n \in Nat /\ ev.ts = taken[n + 1]
    BY <1>2, <1>3, <1>6, <2>1
  <2>3. rings'[src] = Tail(rings[src])
    BY <1>1, <1>3, <1>6
  <2>4. Len(rings'[src]) = Len(taken) - (n + 1)
    BY <1>2, <1>3, <1>6, <2>1, <2>3
  <2>5. ASSUME NEW k \in 1 .. Len(rings'[src])
        PROVE  IsSlotEvent(rings'[src][k]) /\ rings'[src][k].ts = taken[(n + 1) + k]
    <3>1. k + 1 \in 1 .. Len(rings[src]) /\ rings'[src][k] = rings[src][k + 1]
      BY <1>2, <1>3, <1>6, <2>1, <2>3, <2>4
    <3>2. n + (k + 1) = (n + 1) + k
      BY <2>2
    <3>3. QED
      BY <2>1, <3>1, <3>2
  <2>6. /\ stability'.last = taken[n + 1]
        /\ stability'.stalls =
             IF IsStall(stability, ev.ts)
             THEN Append(stability.stalls, <<stability.last, ev.ts>>) ELSE stability.stalls
    <3>1. stability \in StabilityType
      BY DEF ClockInv
    <3>2. ObservedInto(stability, stability', ev.slot, ev.stage, ev.commitment, ev.ts)
      BY <1>1, <1>2, <1>4, <1>6, <3>1, ObserveFacts
    <3>3. QED
      BY <2>2, <3>2 DEF ObservedInto
  <2>7. stability.stalls \in Seq(Times \X Times) /\ Len(stability.stalls) \in Nat
    BY LenProperties DEF ClockInv, StabilityType
  <2>8. \A a \in 1 .. Len(taken) : taken[a] \in Times /\ taken[a] \in Int /\ taken[a] # NoTime
    <3>1. \A a \in 1 .. Len(taken) : taken[a] \in Times
      BY <1>3, ElementOfSeq
    <3>2. QED
      BY <3>1 DEF Times, NoTime
  <2>9. n # 0 => n \in 1 .. Len(taken) /\ n \in 1 .. (Len(taken) - 1) /\ taken[n] <= taken[n + 1]
    <3>1. n # 0 => n \in 1 .. Len(taken) /\ n \in 1 .. (Len(taken) - 1) /\ n <= n + 1
      BY <1>3, <2>2
    <3>2. QED
      BY <2>2, <3>1 DEF ClockInv, TakenInOrder
  <2>10. /\ Range(stability'.stalls) = FarNeighbours(taken, n + 1)
         /\ \A k, l \in 1 .. Len(stability'.stalls) :
              k < l => stability'.stalls[k][2] < stability'.stalls[l][2]
         /\ \A k \in 1 .. Len(stability'.stalls) : stability'.stalls[k][2] <= taken[n + 1]
    <3>1. CASE n = 0
      <4>1. ~IsStall(stability, ev.ts)
        BY <2>1, <3>1 DEF IsStall
      <4>2. FarNeighbours(taken, 0) = {} /\ FarNeighbours(taken, 1) = {}
        BY DEF FarNeighbours
      <4>3. stability'.stalls = stability.stalls /\ Range(stability.stalls) = {}
        BY <2>1, <2>6, <3>1, <4>1, <4>2
      <4>4. 1 .. Len(stability.stalls) = {}
        <5>1. DOMAIN stability.stalls = 1 .. Len(stability.stalls)
          BY <2>7, LenProperties
        <5>2. QED
          BY <4>3, <5>1 DEF Range
      <4>5. QED
        BY <3>1, <4>2, <4>3, <4>4
    <3>2. CASE n # 0 /\ taken[n + 1] - taken[n] > StallThreshold
      <4> DEFINE s == stability.stalls
                 pair == <<taken[n], taken[n + 1]>>
                 L == Len(s)
      <4>1. IsStall(stability, ev.ts)
        BY <2>1, <2>2, <2>8, <2>9, <3>2 DEF IsStall
      <4>2. stability'.stalls = Append(s, pair)
        BY <2>1, <2>2, <2>6, <3>2, <4>1
      <4>3. pair \in Times \X Times /\ pair[2] = taken[n + 1] /\ taken[n] < taken[n + 1]
        BY <2>2, <2>8, <2>9, <3>2, TrackersAssumption
      <4>4. L \in Nat
        BY <2>7
      <4> HIDE DEF pair
      <4>5. /\ Len(stability'.stalls) = L + 1 /\ stability'.stalls[L + 1] = pair
            /\ \A k \in 1 .. L : stability'.stalls[k] = s[k]
            /\ Range(stability'.stalls) = Range(s) \cup {pair}
        BY <2>7, <4>2, <4>3, AppendFacts
      <4>6. \A k \in 1 .. L : s[k][2] <= taken[n] /\ s[k][2] \in Int
        <5>1. \A k \in 1 .. L : s[k] \in Times \X Times
          BY <2>7, ElementOfSeq
        <5>2. QED
          BY <2>1, <3>2, <5>1 DEF Times
      <4>7. Range(stability'.stalls) = FarNeighbours(taken, n + 1)
        BY <1>3, <2>1, <2>9, <3>2, <4>5, FarNeighboursNext DEF pair
      <4>8. taken[n + 1] \in Int /\ taken[n] \in Int
        BY <2>2, <2>8, <2>9, <3>2
      <4>9. ASSUME NEW k \in 1 .. L
             PROVE  stability'.stalls[k][2] < taken[n + 1]
        <5>1. stability'.stalls[k] = s[k] /\ s[k][2] <= taken[n] /\ s[k][2] \in Int
          BY <4>5, <4>6
        <5>2. QED
          BY <4>3, <4>8, <5>1
      <4>10. \A k \in 1 .. L + 1 : stability'.stalls[k][2] <= taken[n + 1]
        <5> SUFFICES ASSUME NEW k \in 1 .. L + 1
                     PROVE  stability'.stalls[k][2] <= taken[n + 1]
          OBVIOUS
        <5>1. CASE k = L + 1
          BY <4>3, <4>5, <4>8, <5>1
        <5>2. CASE k # L + 1
          <6>1. k \in 1 .. L
            BY <4>4, <5>2
          <6>2. stability'.stalls[k][2] \in Int
            BY <4>5, <4>6, <6>1
          <6>3. QED
            BY <4>9, <4>8, <6>1, <6>2
        <5>3. QED
          BY <5>1, <5>2
      <4>11. \A k, l \in 1 .. L + 1 : k < l => stability'.stalls[k][2] < stability'.stalls[l][2]
        <5> HIDE DEF L
        <5> SUFFICES ASSUME NEW k \in 1 .. L + 1, NEW l \in 1 .. L + 1, k < l
                     PROVE  stability'.stalls[k][2] < stability'.stalls[l][2]
          OBVIOUS
        <5>1. k \in 1 .. L /\ (l = L + 1 \/ l \in 1 .. L)
          BY <4>4
        <5>2. CASE l = L + 1
          BY <4>3, <4>5, <4>9, <5>1, <5>2
        <5>3. CASE l \in 1 .. L
          BY <2>1, <4>5, <5>1, <5>3 DEF L
        <5>4. QED
          BY <5>1, <5>2, <5>3
      <4>12. QED
        BY <4>5, <4>7, <4>10, <4>11
    <3>3. CASE n # 0 /\ ~(taken[n + 1] - taken[n] > StallThreshold)
      <4>1. ~IsStall(stability, ev.ts)
        BY <2>1, <2>2, <3>3 DEF IsStall
      <4>2. stability'.stalls = stability.stalls
        BY <2>6, <4>1
      <4>3. FarNeighbours(taken, n + 1) = FarNeighbours(taken, n)
        BY <1>3, <2>9, <3>3, FarNeighboursNext
      <4>4. \A k \in 1 .. Len(stability.stalls) : stability.stalls[k][2] <= taken[n + 1]
        <5>1. \A k \in 1 .. Len(stability.stalls) : stability.stalls[k] \in Times \X Times
          BY <2>7, ElementOfSeq
        <5>2. \A k \in 1 .. Len(stability.stalls) :
                stability.stalls[k][2] \in Int /\ stability.stalls[k][2] <= taken[n]
          BY <2>1, <3>3, <5>1 DEF Times
        <5>3. QED
          BY <2>2, <2>8, <2>9, <3>3, <5>2
      <4>5. QED
        BY <2>1, <4>2, <4>3, <4>4
    <3>4. QED
      BY <3>1, <3>2, <3>3
  <2>11. n + 1 # 0 /\ n + 1 \in 0 .. Len(taken)
    BY <2>2
  <2>12. Consumed(src, n + 1)'
    BY <1>1, <2>4, <2>5, <2>6, <2>10, <2>11 DEF Consumed
  <2>13. QED
    BY <2>12
<1>7. QED
  BY <1>5, <1>6

LEMMA FewMissingStep ==
  ASSUME CrossInv, ClockInv, ClockInv', Arrival,
         NEW src \in DOMAIN subs, SlotSources = {src}, FewMissing(src)
  PROVE  FewMissing(src)'
<1>1. PICK i, ev :
        /\ i \in DOMAIN subs
        /\ ev \in Deliverable(subs[i], now)
        /\ \/ /\ dropped' = dropped
              /\ taken' = IF IsSlotEvent(ev) THEN Append(taken, ev.ts) ELSE taken
           \/ dropped' = [dropped EXCEPT ![i] = @ + 1] /\ taken' = taken
        /\ arrived' = IF IsSlotEvent(ev) THEN Append(arrived, ev.ts) ELSE arrived
  BY DEF Arrival
<1>2. /\ now \in Times /\ arrived \in Seq(Times) /\ taken \in Seq(Times)
      /\ dropped \in [DOMAIN subs -> Nat]
  BY DEF CrossInv, TypeOK, ClockInv, ArrivedInOrder, TakenInOrder
<1>3. /\ IsSlotEvent(ev) <=> i = src
      /\ IsSlotEvent(ev) => ev.ts = now
  <2>1. CarriesSlots(subs[i]) <=> i = src
    BY <1>1 DEF SlotSources
  <2>2. QED
    BY <1>1, <1>2, <2>1, SlotEventFacts
<1>4. IF i = src THEN Range(arrived') = Range(arrived) \cup {now} ELSE arrived' = arrived
  BY <1>1, <1>2, <1>3, AppendFacts
<1>5. CASE dropped' = dropped /\ Missing' \subseteq Missing
  <2>1. IsFiniteSet(Missing') /\ Cardinality(Missing') <= Cardinality(Missing)
    BY <1>5, FS_Subset DEF FewMissing
  <2>2. Cardinality(Missing') \in Nat
    BY <2>1, FS_CardinalityType
  <2>3. QED
    BY <1>2, <1>5, <2>1, <2>2 DEF FewMissing
<1>6. CASE taken' = Append(taken, now) /\ i = src /\ dropped' = dropped
  <2>1. Range(taken') = Range(taken) \cup {now}
    BY <1>2, <1>6, AppendFacts
  <2>2. Missing' \subseteq Missing
    BY <1>4, <1>6, <2>1 DEF Missing
  <2>3. QED
    BY <1>5, <1>6, <2>2
<1>7. CASE i # src
  <2>1. Missing' = Missing /\ dropped'[src] = dropped[src]
    BY <1>1, <1>2, <1>3, <1>4, <1>7 DEF Missing
  <2>2. QED
    BY <2>1 DEF FewMissing
<1>8. CASE taken' = taken /\ i = src /\ dropped' = [dropped EXCEPT ![i] = @ + 1]
  <2>1. dropped'[src] = dropped[src] + 1 /\ dropped[src] \in Nat
    BY <1>2, <1>8
  <2>2. Missing' \subseteq Missing \cup {now}
    BY <1>4, <1>8 DEF Missing
  <2>3. /\ IsFiniteSet(Missing \cup {now})
        /\ Cardinality(Missing \cup {now}) <= Cardinality(Missing) + 1
    BY FS_AddElement DEF FewMissing
  <2>4. IsFiniteSet(Missing') /\ Cardinality(Missing') <= Cardinality(Missing \cup {now})
    BY <2>2, <2>3, FS_Subset
  <2>5. Cardinality(Missing') \in Nat /\ Cardinality(Missing \cup {now}) \in Nat
    BY <2>3, <2>4, FS_CardinalityType
  <2>6. QED
    BY <2>1, <2>3, <2>4, <2>5 DEF FewMissing
<1>9. QED
  BY <1>1, <1>3, <1>6, <1>7, <1>8

LEMMA OneSourceStep == CrossInv /\ ClockInv /\ ClockInv' /\ OneSource /\ [Next]_vars => OneSource'
<1> SUFFICES ASSUME CrossInv, ClockInv, ClockInv', OneSource, [Next]_vars,
                    NEW src \in DOMAIN subs', SlotSources' = {src}
             PROVE  FewMissing(src)' /\ \E n : Consumed(src, n)'
  BY DEF OneSource
<1>1. Quiet \/ Arrival \/ Observation
  BY ThreeKinds
<1>2. subs' = subs
  BY <1>1 DEF Quiet, Arrival, Observation
<1>3. src \in DOMAIN subs /\ SlotSources = {src}
  BY <1>2 DEF SlotSources
<1>4. FewMissing(src) /\ \E n : Consumed(src, n)
  BY <1>3 DEF OneSource
<1>5. PICK n : Consumed(src, n)
  BY <1>4
<1>6. CASE Quiet
  BY <1>4, <1>5, <1>6 DEF Quiet, Consumed, FarNeighbours, FewMissing, Missing
<1>7. CASE Arrival
  BY <1>3, <1>4, <1>5, <1>7, OneSourceArrival, FewMissingStep
<1>8. CASE Observation
  <2>1. FewMissing(src)'
    BY <1>4, <1>8 DEF Observation, FewMissing, Missing
  <2>2. QED
    BY <1>3, <1>5, <1>8, <2>1, OneSourceObservation
<1>9. QED
  BY <1>1, <1>6, <1>7, <1>8

\* The far neighbours among what was observed are the silences among what the
\* ring took, as far as observed.
LEMMA FarNeighboursAreSilences ==
  ASSUME CrossInv, ClockInv, NEW src \in DOMAIN subs, NEW n, Consumed(src, n)
  PROVE  FarNeighbours(taken, n) =
           {p \in SilencesAmong(Range(taken)) : p[2] <= stability.last}
<1>1. /\ taken \in Seq(Times) /\ Len(taken) \in Nat /\ DOMAIN taken = 1 .. Len(taken)
      /\ \A a, b \in 1 .. Len(taken) : a <= b => taken[a] <= taken[b]
      /\ \A a \in 1 .. Len(taken) : taken[a] \in Times
  BY LenProperties, ElementOfSeq DEF ClockInv, TakenInOrder
<1>2. Times \subseteq Int /\ \A x \in Times : x > NoTime
  BY DEF Times, NoTime
<1>3. n \in 0 .. Len(taken) /\ stability.last = IF n = 0 THEN NoTime ELSE taken[n]
  BY DEF Consumed
<1>4. Range(taken) = {taken[a] : a \in 1 .. Len(taken)}
  BY <1>1 DEF Range
<1>5. ASSUME NEW p \in FarNeighbours(taken, n)
      PROVE  p \in SilencesAmong(Range(taken)) /\ p[2] <= stability.last
  <2>1. PICK m \in 1 .. (n - 1) :
          taken[m + 1] - taken[m] > StallThreshold /\ p = <<taken[m], taken[m + 1]>>
    BY <1>5 DEF FarNeighbours
  <2>2. m \in 1 .. Len(taken) /\ m + 1 \in 1 .. Len(taken) /\ n \in 1 .. Len(taken)
        /\ m + 1 <= n /\ m \in Nat /\ n # 0
    BY <1>1, <1>3
  <2>3. ASSUME NEW c \in Range(taken) PROVE c <= p[1] \/ c >= p[2]
    <3>1. PICK a \in 1 .. Len(taken) : c = taken[a]
      BY <1>4
    <3>2. a <= m \/ m + 1 <= a
      BY <2>2
    <3>3. QED
      BY <1>1, <1>2, <2>1, <2>2, <3>1, <3>2
  <2>4. p \in Range(taken) \X Range(taken) /\ p[2] - p[1] > StallThreshold
    BY <1>4, <2>1, <2>2
  <2>5. p[2] <= stability.last
    BY <1>1, <1>3, <2>1, <2>2
  <2>6. QED
    BY <2>3, <2>4, <2>5 DEF SilencesAmong
<1>6. ASSUME NEW p \in SilencesAmong(Range(taken)), p[2] <= stability.last
      PROVE  p \in FarNeighbours(taken, n)
  <2>1. /\ p \in Range(taken) \X Range(taken) /\ p[2] - p[1] > StallThreshold
        /\ \A c \in Range(taken) : c <= p[1] \/ c >= p[2]
    BY DEF SilencesAmong
  <2>2. p[1] \in Range(taken) /\ p[2] \in Range(taken) /\ p = <<p[1], p[2]>>
    BY <2>1
  <2>3. p[1] \in Int /\ p[2] \in Int /\ p[2] > NoTime /\ p[1] < p[2]
    <3>1. p[1] \in Times /\ p[2] \in Times
      BY <1>1, <1>4, <2>2
    <3>2. p[1] \in Int /\ p[2] \in Int /\ p[2] > NoTime
      BY <1>2, <3>1
    <3>3. p[2] - p[1] > StallThreshold /\ StallThreshold \in Nat
      BY <2>1, TrackersAssumption
    <3>4. QED
      BY <3>2, <3>3
  <2> DEFINE Late == {a \in 1 .. Len(taken) : taken[a] >= p[2]}
  <2>4. PICK b \in Late : \A a \in Late : b <= a
    <3>1. Late # {} /\ Late \subseteq Nat
      BY <1>1, <1>2, <1>4, <2>2
    <3>2. QED
      BY <3>1, LeastNatural
  <2>5. taken[b] = p[2]
    <3>1. PICK a \in 1 .. Len(taken) : taken[a] = p[2]
      BY <1>4, <2>2
    <3>2. a \in Late
      BY <2>3, <3>1
    <3>3. b <= a
      BY <2>4, <3>2
    <3>4. b \in 1 .. Len(taken) /\ taken[b] >= p[2] /\ taken[b] <= p[2]
      BY <1>1, <3>1, <3>3
    <3>5. taken[b] \in Int
      BY <1>1, <1>2, <3>4
    <3>6. QED
      BY <2>3, <3>4, <3>5
  <2>6. PICK e \in 1 .. Len(taken) : taken[e] = p[1]
    BY <1>4, <2>2
  <2>7. e < b
    BY <1>1, <2>3, <2>4, <2>5, <2>6
  <2>8. b - 1 \in 1 .. Len(taken) /\ e <= b - 1 /\ b - 1 \notin Late /\ (b - 1) + 1 = b
    BY <1>1, <2>4, <2>6, <2>7
  <2>9. taken[b - 1] = p[1]
    <3>1. taken[b - 1] \in Range(taken) /\ taken[b - 1] \in Int /\ ~(taken[b - 1] >= p[2])
      BY <1>1, <1>2, <1>4, <2>8
    <3>2. taken[b - 1] <= p[1]
      BY <2>1, <3>1
    <3>3. taken[e] <= taken[b - 1]
      BY <1>1, <2>6, <2>8
    <3>4. QED
      BY <2>3, <2>6, <3>1, <3>2, <3>3
  <2>10. n # 0 /\ n \in 1 .. Len(taken) /\ p[2] <= taken[n]
    BY <1>1, <1>3, <1>6, <2>3 DEF NoTime
  <2>11. b <= n
    BY <2>3, <2>4, <2>10
  <2>12. b - 1 \in 1 .. (n - 1)
    BY <2>8, <2>10, <2>11
  <2>13. QED
    BY <2>1, <2>2, <2>5, <2>8, <2>9, <2>12 DEF FarNeighbours
<1>7. QED
  BY <1>5, <1>6

\* Far neighbours among what the ring took that are no silence have a missing
\* time between them, each pair another one.
LEMMA PhantomsAreMissing ==
  ASSUME ClockInv, NEW n \in 0 .. Len(taken), IsFiniteSet(Missing)
  PROVE  LET phantoms == FarNeighbours(taken, n) \ Silences
         IN IsFiniteSet(phantoms) /\ Cardinality(phantoms) <= Cardinality(Missing)
<1> DEFINE phantoms == FarNeighbours(taken, n) \ Silences
           Inside(p) == {c \in Missing : p[1] < c /\ c < p[2]}
           f == [p \in phantoms |-> CHOOSE c \in Missing : c \in Inside(p)]
<1>1. /\ taken \in Seq(Times) /\ Len(taken) \in Nat /\ DOMAIN taken = 1 .. Len(taken)
      /\ Range(taken) \subseteq Range(arrived)
      /\ \A a, b \in 1 .. Len(taken) : a <= b => taken[a] <= taken[b]
      /\ \A a \in 1 .. Len(taken) : taken[a] \in Times
  BY LenProperties, ElementOfSeq DEF ClockInv, TakenInOrder
<1>2. Range(arrived) \subseteq Times /\ Times \subseteq Int
  <2>1. arrived \in Seq(Times) /\ DOMAIN arrived = 1 .. Len(arrived)
    BY LenProperties DEF ClockInv, ArrivedInOrder
  <2>2. \A a \in 1 .. Len(arrived) : arrived[a] \in Times
    BY <2>1, ElementOfSeq
  <2>3. Range(arrived) \subseteq Times
    BY <2>1, <2>2 DEF Range
  <2>4. QED
    BY <2>3 DEF Times
<1>3. ASSUME NEW p \in phantoms
      PROVE  \E m \in 1 .. (n - 1) : p = <<taken[m], taken[m + 1]>>
  BY DEF FarNeighbours
<1>4. ASSUME NEW p \in phantoms PROVE Inside(p) # {}
  <2>1. PICK m \in 1 .. (n - 1) :
          taken[m + 1] - taken[m] > StallThreshold /\ p = <<taken[m], taken[m + 1]>>
    BY DEF FarNeighbours
  <2>2. /\ m \in 1 .. Len(taken) /\ m + 1 \in 1 .. Len(taken)
        /\ \A a \in 1 .. Len(taken) : a <= m \/ m + 1 <= a
    BY <1>1
  <2>3. taken[m] \in Range(taken) /\ taken[m + 1] \in Range(taken)
    BY <1>1, <2>2 DEF Range
  <2>4. p \in Range(arrived) \X Range(arrived) /\ p[2] - p[1] > StallThreshold
    BY <1>1, <2>1, <2>3
  <2>5. PICK c \in Range(arrived) : ~(c <= p[1] \/ c >= p[2])
    BY <2>4 DEF Silences, SilencesAmong
  <2>6. p[1] < c /\ c < p[2]
    <3>1. p[1] \in Int /\ p[2] \in Int /\ c \in Int
      BY <1>2, <2>4
    <3>2. QED
      BY <2>5, <3>1
  <2>7. c \notin Range(taken)
    <3> SUFFICES ASSUME NEW a \in 1 .. Len(taken), taken[a] = c PROVE FALSE
      BY <1>1 DEF Range
    <3>1. taken[a] <= taken[m] \/ taken[m + 1] <= taken[a]
      BY <1>1, <2>2
    <3>2. QED
      BY <2>1, <2>5, <3>1
  <2>8. QED
    BY <2>6, <2>7 DEF Missing
<1>5. ASSUME NEW p \in phantoms PROVE f[p] \in Missing /\ p[1] < f[p] /\ f[p] < p[2]
  BY <1>4
<1>6. ASSUME NEW p \in phantoms, NEW q \in phantoms, f[p] = f[q] PROVE p = q
  <2>1. PICK m \in 1 .. (n - 1) : p = <<taken[m], taken[m + 1]>>
    BY <1>3
  <2>2. PICK l \in 1 .. (n - 1) : q = <<taken[l], taken[l + 1]>>
    BY <1>3
  <2>3. /\ m \in 1 .. Len(taken) /\ m + 1 \in 1 .. Len(taken)
        /\ l \in 1 .. Len(taken) /\ l + 1 \in 1 .. Len(taken)
        /\ m = l \/ m + 1 <= l \/ l + 1 <= m
    BY <1>1
  <2>4. /\ taken[m] \in Int /\ taken[m + 1] \in Int /\ taken[l] \in Int /\ taken[l + 1] \in Int
        /\ f[p] \in Int
    BY <1>1, <1>2, <1>5, <2>3 DEF Missing
  <2>5. /\ taken[m] < f[p] /\ f[p] < taken[m + 1]
        /\ taken[l] < f[p] /\ f[p] < taken[l + 1]
    BY <1>5, <1>6, <2>1, <2>2
  <2>6. CASE m + 1 <= l
    BY <1>1, <2>3, <2>4, <2>5, <2>6
  <2>7. CASE l + 1 <= m
    BY <1>1, <2>3, <2>4, <2>5, <2>7
  <2>8. QED
    BY <2>1, <2>2, <2>3, <2>6, <2>7
<1> HIDE DEF f, phantoms
<1>7. f \in [phantoms -> Missing]
  BY <1>5 DEF f
<1>8. f \in Injection(phantoms, Missing)
  BY <1>6, <1>7 DEF Injection, IsInjective
<1>9. QED
  BY <1>8, FS_Injection DEF phantoms

LEMMA OneSourceExact == CrossInv /\ ClockInv /\ OneSource => StallsExact
<1> SUFFICES ASSUME CrossInv, ClockInv, OneSource,
                    NEW src \in SlotSources, SlotSources = {src}
             PROVE  /\ Range(stability.stalls) =
                         {p \in SilencesAmong(Range(taken)) : p[2] <= stability.last}
                    /\ IsInjective(stability.stalls)
                    /\ Cardinality(Range(stability.stalls) \ Silences) <= dropped[src]
  BY DEF StallsExact
<1>1. src \in DOMAIN subs
  BY DEF SlotSources
<1>2. FewMissing(src) /\ \E n : Consumed(src, n)
  BY <1>1 DEF OneSource
<1>3. PICK n : Consumed(src, n)
  BY <1>2
<1>4. Range(stability.stalls) = {p \in SilencesAmong(Range(taken)) : p[2] <= stability.last}
  BY <1>1, <1>3, FarNeighboursAreSilences DEF Consumed
<1>5. /\ DOMAIN stability.stalls = 1 .. Len(stability.stalls) /\ Len(stability.stalls) \in Nat
      /\ \A k \in 1 .. Len(stability.stalls) : stability.stalls[k] \in Times \X Times
  BY LenProperties, ElementOfSeq DEF ClockInv, StabilityType
<1>6. ASSUME NEW k \in DOMAIN stability.stalls, NEW l \in DOMAIN stability.stalls,
             stability.stalls[k] = stability.stalls[l]
      PROVE  k = l
  <2>1. stability.stalls[k][2] \in Int
    BY <1>5 DEF Times
  <2>2. ~(k < l) /\ ~(l < k)
    BY <1>3, <1>5, <1>6, <2>1 DEF Consumed
  <2>3. QED
    BY <1>5, <2>2
<1>7. Cardinality(Range(stability.stalls) \ Silences) <= dropped[src]
  <2> DEFINE phantoms == FarNeighbours(taken, n) \ Silences
  <2>1. n \in 0 .. Len(taken) /\ Range(stability.stalls) = FarNeighbours(taken, n)
    BY <1>3 DEF Consumed
  <2>2. IsFiniteSet(phantoms) /\ Cardinality(phantoms) <= Cardinality(Missing)
    BY <1>2, <2>1, PhantomsAreMissing DEF FewMissing
  <2>3. Cardinality(phantoms) \in Nat
    BY <2>2, FS_CardinalityType
  <2>4. dropped[src] \in Nat
    BY <1>1 DEF CrossInv, TypeOK
  <2>5. QED
    BY <1>2, <2>1, <2>2, <2>3, <2>4 DEF FewMissing
<1>8. QED
  BY <1>4, <1>6, <1>7 DEF IsInjective

\* Where slot events come on one subscription only, the stalls recorded are the
\* silences among what its ring took, each recorded once, and no more of them are
\* no silence of the endpoint than events were counted as dropped.
THEOREM StallsAreTheSilences == Spec => []StallsExact
<1>1. Init => OneSource
  <2> SUFFICES ASSUME Init, NEW src \in DOMAIN subs PROVE FewMissing(src) /\ Consumed(src, 0)
    BY DEF OneSource
  <2>1. taken = <<>> /\ Len(taken) = 0 /\ rings[src] = <<>> /\ Len(rings[src]) = 0
    BY DEF Init
  <2>2. stability.last = NoTime /\ stability.stalls = <<>> /\ Len(stability.stalls) = 0
        /\ Range(stability.stalls) = {}
    BY DEF Init, NewStability, Range
  <2>3. FarNeighbours(taken, 0) = {}
    BY DEF FarNeighbours
  <2>4. 0 \in 0 .. Len(taken) /\ 1 .. Len(rings[src]) = {} /\ 1 .. Len(stability.stalls) = {}
        /\ Len(rings[src]) = Len(taken) - 0
    BY <2>1, <2>2
  <2>5. FewMissing(src)
    <3>1. Missing = {} /\ dropped[src] = 0
      BY DEF Init, Missing
    <3>2. QED
      BY <3>1, FS_EmptySet DEF FewMissing
  <2>6. QED
    BY <2>2, <2>3, <2>4, <2>5 DEF Consumed
<1>2. QED
  BY <1>1, OneSourceStep, OneSourceExact, CrossTypes, Clocks, PTL DEF Spec

=============================================================================
