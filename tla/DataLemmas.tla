----------------------------- MODULE DataLemmas -----------------------------
(***************************************************************************)
(* Induction, in the form the provers can use: an induction hypothesis is a *)
(* set, and a set of naturals that has 0 and the successor of each member   *)
(* has every natural.  From it follow induction over finite sets and the    *)
(* existence of the functions the folds of the community modules are        *)
(* defined by, and with them what those folds compute.                      *)
(***************************************************************************)
EXTENDS Integers, Sequences, FiniteSets, SequencesExt, Selection,
        FiniteSetTheorems, SequenceTheorems, WellFoundedInduction, TLAPS

----------------------------------------------------------------------------
(* Induction.                                                               *)

LEMMA LessIsRelation == \A a, b \in Nat : a < b => <<a, b>> \in OpToRel(<, Nat)
BY DEF OpToRel

LEMMA MinimalIsLeast ==
  ASSUME NEW R, NEW S, \A a, b \in Nat : a < b => <<a, b>> \in R,
         S \subseteq Nat, \E x \in S : \A y \in S : ~(<<y, x>> \in R)
  PROVE  \E m \in S : \A k \in S : m <= k
<1>1. PICK x \in S : \A y \in S : ~(<<y, x>> \in R)
  OBVIOUS
<1>2. ASSUME NEW k \in S
      PROVE  x <= k
  <2>1. x \in Nat /\ k \in Nat
    OBVIOUS
  <2>2. ~(k < x)
    BY <1>1, <2>1, Zenon
  <2>3. QED
    BY <2>1, <2>2
<1>3. QED
  BY <1>2

LEMMA LeastNatural ==
  ASSUME NEW S, S \subseteq Nat, S # {}
  PROVE  \E m \in S : \A k \in S : m <= k
<1>1. IsWellFoundedOn(OpToRel(<, Nat), Nat)
  BY NatLessThanWellFounded
<1>2. \E x \in S : \A y \in S : ~(<<y, x>> \in OpToRel(<, Nat))
  BY <1>1, WFMin
<1>3. QED
  BY <1>2, LessIsRelation, MinimalIsLeast

LEMMA GreatestNatural ==
  ASSUME NEW S, S \subseteq Nat, S # {}, NEW n \in Nat, \A k \in S : k <= n
  PROVE  \E m \in S : \A k \in S : k <= m
<1> DEFINE T == {j \in Nat : \E k \in S : j = n - k}
<1>1. PICK k0 \in S : TRUE
  OBVIOUS
<1>2. n - k0 \in T
  BY <1>1
<1>3. PICK j \in T : \A i \in T : j <= i
  BY <1>2, LeastNatural
<1>4. PICK m \in S : j = n - m
  OBVIOUS
<1>5. ASSUME NEW k \in S
      PROVE  k <= m
  <2>1. k \in Nat /\ m \in Nat /\ n - k \in T
    OBVIOUS
  <2>2. n - m <= n - k
    BY <1>3, <1>4, <2>1
  <2>3. QED
    BY <2>1, <2>2
<1>6. QED
  BY <1>5

\* Induction over the naturals.
LEMMA Induct ==
  ASSUME NEW S, 0 \in S, \A n \in Nat : n \in S => n + 1 \in S
  PROVE  Nat \subseteq S
<1> DEFINE T == Nat \ S
<1> SUFFICES ASSUME T # {} PROVE FALSE
  OBVIOUS
<1>1. PICK m \in T : \A k \in T : m <= k
  BY LeastNatural
<1>2. m # 0 /\ m \in Nat
  OBVIOUS
<1>3. m - 1 \in S
  BY <1>1, <1>2
<1>4. QED
  BY <1>2, <1>3

\* Induction over a finite set, of which Q is a set of subsets.
LEMMA InductOverSet ==
  ASSUME NEW S, IsFiniteSet(S), NEW Q, {} \in Q,
         \A T \in SUBSET S : \A x \in S \ T : T \in Q => T \cup {x} \in Q
  PROVE  S \in Q
<1> DEFINE A == {n \in Nat : \A T \in SUBSET S : Cardinality(T) = n => T \in Q}
<1>1. \A T \in SUBSET S : IsFiniteSet(T) /\ Cardinality(T) \in Nat
  BY FS_Subset, FS_CardinalityType
<1>2. 0 \in A
  BY <1>1, FS_EmptySet
<1>3. ASSUME NEW n \in Nat, n \in A
      PROVE  n + 1 \in A
  <2> SUFFICES ASSUME NEW T \in SUBSET S, Cardinality(T) = n + 1
               PROVE  T \in Q
    OBVIOUS
  <2>1. T # {}
    <3>1. Cardinality({}) = 0
      BY FS_EmptySet
    <3>2. QED
      BY <3>1
  <2>2. PICK x \in T : TRUE
    BY <2>1
  <2>3. Cardinality(T \ {x}) = n
    <3>1. IsFiniteSet(T)
      BY <1>1
    <3>2. Cardinality(T \ {x}) = Cardinality(T) - 1
      BY <2>2, <3>1, FS_RemoveElement
    <3>3. QED
      BY <3>2
  <2>4. T \ {x} \in SUBSET S /\ T \ {x} \in Q /\ x \in S \ (T \ {x})
    BY <1>3, <2>3
  <2>5. (T \ {x}) \cup {x} \in Q
    BY <2>4
  <2>6. (T \ {x}) \cup {x} = T
    OBVIOUS
  <2>7. QED
    BY <2>5, <2>6
<1>4. Nat \subseteq A
  BY <1>2, <1>3, Induct
<1>5. QED
  BY <1>1, <1>4

----------------------------------------------------------------------------
(* Functions defined by recursion.                                          *)

\* Over the subsets of a finite set, taking one element out at a time.
RecursiveOverSubsets(g, S, V, base, c, G) ==
  /\ g \in [SUBSET S -> V] /\ g[{}] = base
  /\ \A s \in (SUBSET S) \ {{}} : g[s] = G[<<g[s \ {c[s]}], c[s]>>]

LEMMA RecursionOverSubsets ==
  ASSUME NEW S, IsFiniteSet(S), NEW V, NEW base \in V,
         NEW c \in [(SUBSET S) \ {{}} -> S], \A s \in (SUBSET S) \ {{}} : c[s] \in s,
         NEW G \in [V \X S -> V]
  PROVE  \E g : RecursiveOverSubsets(g, S, V, base, c, G)
<1> DEFINE Good(g, s) == g[s] = IF s = {} THEN base ELSE G[<<g[s \ {c[s]}], c[s]>>]
           A == {n \in Nat : \E g \in [SUBSET S -> V] :
                   \A s \in SUBSET S : Cardinality(s) <= n => Good(g, s)}
<1>1. \A s \in SUBSET S : IsFiniteSet(s) /\ Cardinality(s) \in Nat
  BY FS_Subset, FS_CardinalityType
<1>2. 0 \in A
  <2> DEFINE g == [s \in SUBSET S |-> base]
  <2>1. \A s \in SUBSET S : Cardinality(s) <= 0 => s = {}
    BY <1>1, FS_EmptySet
  <2>2. g \in [SUBSET S -> V] /\ \A s \in SUBSET S : Cardinality(s) <= 0 => Good(g, s)
    BY <2>1
  <2>3. QED
    BY <2>2
<1>3. ASSUME NEW n \in Nat, n \in A
      PROVE  n + 1 \in A
  <2>1. PICK g \in [SUBSET S -> V] : \A s \in SUBSET S : Cardinality(s) <= n => Good(g, s)
    BY <1>3
  <2> DEFINE h == [s \in SUBSET S |->
                     IF s = {} THEN base
                     ELSE IF Cardinality(s) <= n THEN g[s] ELSE G[<<g[s \ {c[s]}], c[s]>>]]
  <2>2. h \in [SUBSET S -> V]
    <3>1. ASSUME NEW s \in SUBSET S, s # {}
          PROVE  G[<<g[s \ {c[s]}], c[s]>>] \in V
      <4>1. s \ {c[s]} \in SUBSET S /\ c[s] \in S
        BY <3>1
      <4>2. <<g[s \ {c[s]}], c[s]>> \in V \X S
        BY <4>1
      <4>3. QED
        BY <4>2
    <3>2. QED
      BY <3>1
  <2>3. ASSUME NEW s \in SUBSET S, Cardinality(s) <= n + 1
        PROVE  Good(h, s)
    <3>1. CASE s = {}
      BY <3>1
    <3>2. CASE s # {}
      <4>1. c[s] \in s /\ s \ {c[s]} \in SUBSET S
        BY <3>2
      <4>2. Cardinality(s \ {c[s]}) = Cardinality(s) - 1
        BY <1>1, <4>1, FS_RemoveElement
      <4>3. Cardinality(s \ {c[s]}) <= n
        BY <1>1, <2>3, <4>2
      <4>4. h[s \ {c[s]}] = g[s \ {c[s]}]
        BY <2>1, <4>1, <4>3
      <4>5. h[s] = G[<<g[s \ {c[s]}], c[s]>>]
        BY <2>1, <3>2, <4>1
      <4>6. QED
        BY <3>2, <4>4, <4>5
    <3>3. QED
      BY <3>1, <3>2
  <2>4. n + 1 \in Nat
    OBVIOUS
  <2>5. QED
    BY <2>2, <2>3, <2>4
<1>4. Nat \subseteq A
  BY <1>2, <1>3, Induct
<1>5. PICK g \in [SUBSET S -> V] : \A s \in SUBSET S : Cardinality(s) <= Cardinality(S) => Good(g, s)
  BY <1>1, <1>4
<1>6. \A s \in SUBSET S : Good(g, s)
  BY <1>5, FS_Subset
<1>7. g[{}] = base /\ \A s \in (SUBSET S) \ {{}} : g[s] = G[<<g[s \ {c[s]}], c[s]>>]
  BY <1>6
<1>8. QED
  BY <1>7 DEF RecursiveOverSubsets

\* Over an interval, from 0 up.
RecursiveOverInterval(g, n, V, base, G) ==
  /\ g \in [0 .. n -> V]
  /\ g[0] = base /\ \A i \in 1 .. n : g[i] = G[<<g[i - 1], i>>]

LEMMA RecursionOverInterval ==
  ASSUME NEW n \in Nat, NEW V, NEW base \in V, NEW G \in [V \X (1 .. n) -> V]
  PROVE  \E g : RecursiveOverInterval(g, n, V, base, G)
<1> DEFINE Good(g, i) == g[i] = IF i = 0 THEN base ELSE G[<<g[i - 1], i>>]
           A == {m \in Nat : \E g \in [0 .. n -> V] : \A i \in 0 .. n : i <= m => Good(g, i)}
<1>1. 0 \in A
  <2> DEFINE g == [i \in 0 .. n |-> base]
  <2>1. g \in [0 .. n -> V] /\ \A i \in 0 .. n : i <= 0 => Good(g, i)
    OBVIOUS
  <2>2. QED
    BY <2>1
<1>2. ASSUME NEW m \in Nat, m \in A
      PROVE  m + 1 \in A
  <2>1. PICK g \in [0 .. n -> V] : \A i \in 0 .. n : i <= m => Good(g, i)
    BY <1>2
  <2> DEFINE h == [i \in 0 .. n |-> IF i = 0 THEN base
                                    ELSE IF i <= m THEN g[i] ELSE G[<<g[i - 1], i>>]]
  <2>2. h \in [0 .. n -> V]
    <3>1. ASSUME NEW i \in 0 .. n, i # 0
          PROVE  G[<<g[i - 1], i>>] \in V
      <4>1. i - 1 \in 0 .. n /\ i \in 1 .. n
        BY <3>1
      <4>2. <<g[i - 1], i>> \in V \X (1 .. n)
        BY <4>1
      <4>3. QED
        BY <4>2
    <3>2. QED
      BY <3>1
  <2>3. ASSUME NEW i \in 0 .. n, i <= m + 1
        PROVE  Good(h, i)
    <3>1. CASE i = 0
      BY <3>1
    <3>2. CASE i # 0
      <4>1. i - 1 \in 0 .. n /\ i - 1 <= m
        BY <2>3, <3>2
      <4>2. h[i - 1] = g[i - 1]
        BY <2>1, <4>1
      <4>3. h[i] = G[<<g[i - 1], i>>]
        BY <2>1, <3>2
      <4>4. QED
        BY <3>2, <4>2, <4>3
    <3>3. QED
      BY <3>1, <3>2
  <2>4. m + 1 \in Nat
    OBVIOUS
  <2>5. QED
    BY <2>2, <2>3, <2>4
<1>3. n \in A
  <2>1. Nat \subseteq A
    BY <1>1, <1>2, Induct
  <2>2. QED
    BY <2>1
<1>4. PICK g \in [0 .. n -> V] : \A i \in 0 .. n : i <= n => Good(g, i)
  BY <1>3
<1>5. ASSUME NEW i \in 0 .. n
      PROVE  Good(g, i)
  BY <1>4
<1>6. g[0] = base
  <2>1. 0 \in 0 .. n
    OBVIOUS
  <2>2. Good(g, 0)
    BY <1>5, <2>1
  <2>3. QED
    BY <2>2
<1>7. ASSUME NEW i \in 1 .. n
      PROVE  g[i] = G[<<g[i - 1], i>>]
  <2>1. i \in 0 .. n /\ i # 0
    OBVIOUS
  <2>2. QED
    BY <1>5, <2>1
<1>8. QED
  BY <1>6, <1>7 DEF RecursiveOverInterval

----------------------------------------------------------------------------
(* Selecting from a sequence.                                               *)

\* A function that selects step by step.
Selects(f, s, T) ==
  f = [n \in 0 .. Len(s) |->
         IF n = 0 THEN <<>>
         ELSE IF s[n] \in T THEN Append(f[n - 1], s[n]) ELSE f[n - 1]]

LEMMA SelectorExists ==
  ASSUME NEW S, NEW s \in Seq(S), NEW T
  PROVE  \E f : Selects(f, s, T)
<1> DEFINE n == Len(s)
           V == Seq(S)
           none == <<>>
           G == [p \in V \X (1 .. n) |-> IF s[p[2]] \in T THEN Append(p[1], s[p[2]]) ELSE p[1]]
<1>1. n \in Nat /\ none \in V
  BY LenProperties, EmptySeq
<1>2. G \in [V \X (1 .. n) -> V]
  <2>1. ASSUME NEW p \in V \X (1 .. n)
        PROVE  (IF s[p[2]] \in T THEN Append(p[1], s[p[2]]) ELSE p[1]) \in V
    <3>1. p[1] \in Seq(S) /\ s[p[2]] \in S
      BY ElementOfSeq
    <3>2. Append(p[1], s[p[2]]) \in Seq(S)
      BY <3>1, AppendProperties
    <3>3. QED
      BY <3>1, <3>2
  <2>2. QED
    BY <2>1
<1>3. ASSUME NEW v \in V, NEW i \in 1 .. n
      PROVE  G[<<v, i>>] = IF s[i] \in T THEN Append(v, s[i]) ELSE v
  OBVIOUS
<1> HIDE DEF n, V, G, none
<1>4. PICK g : RecursiveOverInterval(g, n, V, none, G)
  BY <1>1, <1>2, RecursionOverInterval
<1>5. ASSUME NEW i \in 0 .. n
      PROVE  g[i] = IF i = 0 THEN <<>>
                    ELSE IF s[i] \in T THEN Append(g[i - 1], s[i]) ELSE g[i - 1]
  <2>1. CASE i = 0
    BY <1>4, <2>1 DEF none, RecursiveOverInterval
  <2>2. CASE i # 0
    <3>1. i \in 1 .. n /\ i - 1 \in 0 .. n
      BY <1>1, <2>2
    <3>2. g[i - 1] \in V
      BY <1>4, <3>1 DEF RecursiveOverInterval
    <3>3. g[i] = G[<<g[i - 1], i>>]
      BY <1>4, <3>1 DEF RecursiveOverInterval
    <3>4. QED
      BY <1>3, <2>2, <3>1, <3>2, <3>3
  <2>3. QED
    BY <2>1, <2>2
<1>6. g = [i \in 0 .. n |-> IF i = 0 THEN <<>>
                            ELSE IF s[i] \in T THEN Append(g[i - 1], s[i]) ELSE g[i - 1]]
  BY <1>4, <1>5 DEF RecursiveOverInterval
<1>7. QED
  BY <1>6 DEF Selects, n

\* The selection of an initial part, one element at a time.
LEMMA OnlyIs ==
  ASSUME NEW S, NEW s \in Seq(S), NEW T
  PROVE  \E f : Selects(f, s, T) /\ Only(s, T) = f[Len(s)]
<1> DEFINE f == CHOOSE g : Selects(g, s, T)
<1>1. Selects(f, s, T)
  BY SelectorExists
<1>2. Only(s, T) = f[Len(s)]
  BY DEF Only, Selects
<1> HIDE DEF f
<1>3. QED
  BY <1>1, <1>2

LEMMA OnlyEmpty ==
  ASSUME NEW S, NEW T
  PROVE  Only(<<>>, T) = <<>>
<1>1. <<>> \in Seq(S) /\ Len(<<>>) = 0
  BY EmptySeq
<1>2. PICK f : Selects(f, <<>>, T) /\ Only(<<>>, T) = f[Len(<<>>)]
  BY <1>1, OnlyIs
<1>3. QED
  BY <1>1, <1>2 DEF Selects

LEMMA OnlyAppend ==
  ASSUME NEW S, NEW s \in Seq(S), NEW x \in S, NEW T
  PROVE  Only(Append(s, x), T) = IF x \in T THEN Append(Only(s, T), x) ELSE Only(s, T)
<1> DEFINE t == Append(s, x)
           n == Len(s)
<1>1. /\ n \in Nat /\ t \in Seq(S) /\ Len(t) = n + 1 /\ t[n + 1] = x
      /\ \A i \in 1 .. n : t[i] = s[i]
  BY LenProperties, AppendProperties
<1> HIDE DEF t
<1>2. PICK f : Selects(f, s, T) /\ Only(s, T) = f[n]
  BY OnlyIs
<1>3. PICK g : Selects(g, t, T) /\ Only(t, T) = g[Len(t)]
  BY <1>1, OnlyIs
<1>4. \A i \in 0 .. n : g[i] = f[i]
  <2> DEFINE A == {i \in Nat : i <= n => g[i] = f[i]}
  <2>1. 0 \in A
    BY <1>1, <1>2, <1>3 DEF Selects
  <2>2. ASSUME NEW i \in Nat, i \in A
        PROVE  i + 1 \in A
    <3> SUFFICES ASSUME i + 1 <= n PROVE g[i + 1] = f[i + 1]
      OBVIOUS
    <3>1. /\ g[i] = f[i] /\ t[i + 1] = s[i + 1] /\ i + 1 # 0 /\ (i + 1) - 1 = i
          /\ i + 1 \in 0 .. n /\ i + 1 \in 0 .. Len(t)
      BY <1>1, <2>2
    <3>2. f[i + 1] = IF s[i + 1] \in T THEN Append(f[i], s[i + 1]) ELSE f[i]
      BY <1>2, <3>1 DEF Selects
    <3>3. g[i + 1] = IF t[i + 1] \in T THEN Append(g[i], t[i + 1]) ELSE g[i]
      BY <1>3, <3>1 DEF Selects
    <3>4. QED
      BY <3>1, <3>2, <3>3
  <2>3. Nat \subseteq A
    BY <2>1, <2>2, Induct
  <2>4. QED
    BY <2>3
<1>5. n + 1 \in 0 .. Len(t) /\ n + 1 # 0 /\ (n + 1) - 1 = n
  BY <1>1
<1>6. g[n + 1] = IF x \in T THEN Append(g[n], x) ELSE g[n]
  BY <1>1, <1>3, <1>5 DEF Selects
<1>7. g[n] = f[n]
  BY <1>1, <1>4
<1>8. QED
  BY <1>1, <1>2, <1>3, <1>6, <1>7 DEF t

\* A selection q of s: where its elements come from, in order, leaving out none.
ComesFrom(q, s, T, h) ==
  /\ h \in [1 .. Len(q) -> 1 .. Len(s)]
  /\ \A j \in 1 .. Len(q) : q[j] = s[h[j]] /\ s[h[j]] \in T
  /\ \A j, k \in 1 .. Len(q) : j < k => h[j] < h[k]
  /\ \A i \in 1 .. Len(s) : s[i] \in T => \E j \in 1 .. Len(q) : h[j] = i

LEMMA OnlyComesFrom ==
  ASSUME NEW S, NEW s \in Seq(S), NEW T
  PROVE  Only(s, T) \in Seq(S) /\ \E h : ComesFrom(Only(s, T), s, T, h)
<1> DEFINE Claim(t) == Only(t, T) \in Seq(S) /\ \E h : ComesFrom(Only(t, T), t, T, h)
           A == {n \in Nat : \A t \in Seq(S) : Len(t) = n => Claim(t)}
<1>1. 0 \in A
  <2> SUFFICES ASSUME NEW t \in Seq(S), Len(t) = 0
               PROVE  Claim(t)
    OBVIOUS
  <2>1. t = <<>>
    BY EmptySeq
  <2>2. Only(t, T) = <<>> /\ <<>> \in Seq(S) /\ Len(<<>>) = 0
    BY <2>1, OnlyEmpty, EmptySeq
  <2>3. ComesFrom(Only(t, T), t, T, [j \in 1 .. 0 |-> 1])
    BY <2>1, <2>2 DEF ComesFrom
  <2>4. QED
    BY <2>2, <2>3
<1>2. ASSUME NEW n \in Nat, n \in A
      PROVE  n + 1 \in A
  <2> SUFFICES ASSUME NEW t \in Seq(S), Len(t) = n + 1
               PROVE  Claim(t)
    OBVIOUS
  <2>1. PICK r \in Seq(S), x \in S : t = Append(r, x)
    <3>1. t # <<>>
      BY EmptySeq
    <3>2. QED
      BY <3>1, SequenceEmptyOrAppend
  <2>2. /\ Len(r) = n /\ t[n + 1] = x /\ \A i \in 1 .. n : t[i] = r[i]
    BY <2>1, AppendProperties, LenProperties
  <2>3. Claim(r)
    BY <1>2, <2>2
  <2> DEFINE q == Only(r, T)
             m == Len(q)
  <2>4. PICK h : ComesFrom(q, r, T, h)
    BY <2>3
  <2>5. q \in Seq(S) /\ m \in Nat
    BY <2>3, LenProperties
  <2>6. Only(t, T) = IF x \in T THEN Append(q, x) ELSE q
    BY <2>1, OnlyAppend
  <2> HIDE DEF q
  <2>7. CASE x \in T
    <3> DEFINE p == Append(q, x)
               g == [j \in 1 .. (m + 1) |-> IF j = m + 1 THEN n + 1 ELSE h[j]]
    <3>1. /\ p \in Seq(S) /\ Len(p) = m + 1 /\ p[m + 1] = x
          /\ \A j \in 1 .. m : p[j] = q[j]
      BY <2>5, AppendProperties
    <3> HIDE DEF p
    <3>2. \A j \in 1 .. m : g[j] = h[j] /\ h[j] \in 1 .. n
      <4> SUFFICES ASSUME NEW j \in 1 .. m
                   PROVE  g[j] = h[j] /\ h[j] \in 1 .. n
        OBVIOUS
      <4>1. h[j] \in 1 .. n
        BY <2>2, <2>4 DEF ComesFrom
      <4>2. j \in 1 .. (m + 1) /\ j # m + 1
        BY <2>5
      <4>3. QED
        BY <4>1, <4>2
    <3>3. g \in [1 .. Len(p) -> 1 .. Len(t)] /\ g[m + 1] = n + 1
      <4>1. m + 1 \in 1 .. (m + 1) /\ Len(p) = m + 1 /\ n + 1 \in 1 .. Len(t)
        BY <2>5, <3>1
      <4>2. ASSUME NEW j \in 1 .. (m + 1), j # m + 1
            PROVE  h[j] \in 1 .. Len(t)
        <5>1. j \in 1 .. m
          BY <2>5, <4>2
        <5>2. h[j] \in 1 .. n
          BY <3>2, <5>1
        <5>3. QED
          BY <5>2
      <4>3. QED
        BY <4>1, <4>2
    <3> HIDE DEF g
    <3>4. ASSUME NEW j \in 1 .. Len(p)
          PROVE  p[j] = t[g[j]] /\ t[g[j]] \in T
      <4>1. CASE j = m + 1
        BY <2>2, <2>7, <3>1, <3>3, <4>1
      <4>2. CASE j # m + 1
        <5>1. j \in 1 .. m
          BY <2>5, <3>1, <4>2
        <5>2. q[j] = r[h[j]] /\ r[h[j]] \in T
          BY <2>4, <5>1 DEF ComesFrom
        <5>3. t[h[j]] = r[h[j]]
          BY <2>2, <3>2, <5>1
        <5>4. QED
          BY <3>1, <3>2, <5>1, <5>2, <5>3
      <4>3. QED
        BY <4>1, <4>2
    <3>5. ASSUME NEW j \in 1 .. Len(p), NEW k \in 1 .. Len(p), j < k
          PROVE  g[j] < g[k]
      <4>1. j \in 1 .. m
        BY <2>5, <3>1, <3>5
      <4>2. CASE k = m + 1
        BY <3>2, <3>3, <4>1, <4>2
      <4>3. CASE k # m + 1
        <5>1. k \in 1 .. m
          BY <2>5, <3>1, <4>3
        <5>2. h[j] < h[k]
          BY <2>4, <3>5, <4>1, <5>1 DEF ComesFrom
        <5>3. QED
          BY <3>2, <4>1, <5>1, <5>2
      <4>4. QED
        BY <4>2, <4>3
    <3>6. ASSUME NEW i \in 1 .. Len(t), t[i] \in T
          PROVE  \E j \in 1 .. Len(p) : g[j] = i
      <4>1. CASE i = n + 1
        BY <2>5, <3>1, <3>3, <4>1
      <4>2. CASE i # n + 1
        <5>1. i \in 1 .. n /\ r[i] \in T
          BY <2>2, <3>6, <4>2
        <5>2. PICK j \in 1 .. m : h[j] = i
          BY <2>2, <2>4, <5>1 DEF ComesFrom
        <5>3. j \in 1 .. Len(p) /\ g[j] = i
          BY <2>5, <3>1, <3>2, <5>2
        <5>4. QED
          BY <5>3
      <4>3. QED
        BY <4>1, <4>2
    <3>7. ComesFrom(p, t, T, g)
      BY <3>3, <3>4, <3>5, <3>6 DEF ComesFrom
    <3>8. QED
      BY <2>6, <2>7, <3>1, <3>7 DEF p
  <2>8. CASE x \notin T
    <3>1. \A j \in 1 .. m : h[j] \in 1 .. n
      BY <2>2, <2>4 DEF ComesFrom
    <3>2. h \in [1 .. m -> 1 .. Len(t)]
      BY <2>2, <2>4, <3>1 DEF ComesFrom
    <3>3. \A j \in 1 .. m : q[j] = t[h[j]] /\ t[h[j]] \in T
      BY <2>2, <2>4, <3>1 DEF ComesFrom
    <3>4. \A j, k \in 1 .. m : j < k => h[j] < h[k]
      BY <2>4 DEF ComesFrom
    <3>5. ASSUME NEW i \in 1 .. Len(t), t[i] \in T
          PROVE  \E j \in 1 .. m : h[j] = i
      <4>1. i \in 1 .. n /\ r[i] \in T
        BY <2>2, <2>8, <3>5
      <4>2. QED
        BY <2>2, <2>4, <4>1 DEF ComesFrom
    <3>6. ComesFrom(q, t, T, h)
      BY <3>2, <3>3, <3>4, <3>5 DEF ComesFrom
    <3>7. QED
      BY <2>5, <2>6, <2>8, <3>6
  <2>9. QED
    BY <2>7, <2>8
<1>3. Nat \subseteq A
  BY <1>1, <1>2, Induct
<1>4. QED
  BY <1>3, LenProperties

----------------------------------------------------------------------------
(* Flattening a sequence of sequences.                                      *)

Flattens(g, seqs) ==
  g = [i \in 1 .. Len(seqs) |-> IF i = 1 THEN seqs[i] ELSE g[i - 1] \o seqs[i]]

\* The concatenation of the first parts, one part at a time.
Concatenates(f, seqs, S) ==
  /\ f \in [0 .. Len(seqs) -> Seq(S)] /\ f[0] = <<>>
  /\ \A i \in 1 .. Len(seqs) : f[i] = f[i - 1] \o seqs[i]

LEMMA ConcatenatorExists ==
  ASSUME NEW S, NEW seqs \in Seq(Seq(S))
  PROVE  \E f : Concatenates(f, seqs, S)
<1> DEFINE n == Len(seqs)
           V == Seq(S)
           none == <<>>
           G == [p \in V \X (1 .. n) |-> p[1] \o seqs[p[2]]]
<1>1. n \in Nat /\ none \in V
  BY LenProperties, EmptySeq
<1>2. G \in [V \X (1 .. n) -> V]
  <2>1. ASSUME NEW p \in V \X (1 .. n)
        PROVE  p[1] \o seqs[p[2]] \in V
    <3>1. p[1] \in Seq(S) /\ seqs[p[2]] \in Seq(S)
      BY ElementOfSeq
    <3>2. QED
      BY <3>1, ConcatProperties
  <2>2. QED
    BY <2>1
<1>3. ASSUME NEW v \in V, NEW i \in 1 .. n
      PROVE  G[<<v, i>>] = v \o seqs[i]
  OBVIOUS
<1> HIDE DEF n, V, G, none
<1>4. PICK g : RecursiveOverInterval(g, n, V, none, G)
  BY <1>1, <1>2, RecursionOverInterval
<1>5. ASSUME NEW i \in 1 .. n
      PROVE  g[i] = g[i - 1] \o seqs[i]
  <2>1. i - 1 \in 0 .. n
    BY <1>1
  <2>2. g[i - 1] \in V /\ g[i] = G[<<g[i - 1], i>>]
    BY <1>4, <2>1 DEF RecursiveOverInterval
  <2>3. QED
    BY <1>3, <2>2
<1>6. g \in [0 .. n -> V] /\ g[0] = none
  BY <1>4 DEF RecursiveOverInterval
<1>7. QED
  BY <1>5, <1>6 DEF Concatenates, n, V, none

LEMMA FlattenIs ==
  ASSUME NEW S, NEW seqs \in Seq(Seq(S))
  PROVE  \E f : Concatenates(f, seqs, S) /\ FlattenSeq(seqs) = f[Len(seqs)]
<1> DEFINE n == Len(seqs)
           g == CHOOSE h : Flattens(h, seqs)
<1>1. PICK f : Concatenates(f, seqs, S)
  BY ConcatenatorExists
<1>2. n \in Nat /\ \A i \in 1 .. n : seqs[i] \in Seq(S)
  BY LenProperties, ElementOfSeq
<1>3. \A i \in 1 .. n : f[1] = seqs[1]
  <2> SUFFICES ASSUME NEW i \in 1 .. n PROVE f[1] = seqs[1]
    OBVIOUS
  <2>1. 1 \in 1 .. n /\ seqs[1] \in Seq(S)
    BY <1>2
  <2>2. f[0] = <<>> /\ \A j \in 1 .. n : f[j] = f[j - 1] \o seqs[j]
    BY <1>1 DEF Concatenates
  <2> HIDE DEF n
  <2>3. \A j : j \in 1 .. n /\ j = 1 => f[j] = f[0] \o seqs[j]
    <3> SUFFICES ASSUME NEW j \in 1 .. n PROVE j = 1 => f[j] = f[0] \o seqs[j]
      OBVIOUS
    <3>1. f[j] = f[j - 1] \o seqs[j]
      BY <2>2
    <3>2. j = 1 => j - 1 = 0
      OBVIOUS
    <3>3. QED
      BY <3>1, <3>2, Zenon
  <2>4. f[1] = f[0] \o seqs[1]
    BY <2>1, <2>3
  <2>5. QED
    BY <2>1, <2>2, <2>4, ConcatEmptySeq
<1>4. Flattens([i \in 1 .. n |-> f[i]], seqs)
  <2> DEFINE r == [i \in 1 .. n |-> f[i]]
  <2>1. ASSUME NEW i \in 1 .. n
        PROVE  r[i] = IF i = 1 THEN seqs[i] ELSE r[i - 1] \o seqs[i]
    <3>1. CASE i = 1
      BY <1>3, <3>1
    <3>2. CASE i # 1
      <4>1. i - 1 \in 1 .. n /\ r[i - 1] = f[i - 1]
        BY <1>2, <3>2
      <4>2. QED
        BY <1>1, <3>2, <4>1 DEF Concatenates
    <3>3. QED
      BY <3>1, <3>2
  <2>2. QED
    BY <2>1 DEF Flattens
<1>5. Flattens(g, seqs)
  BY <1>4
<1>6. FlattenSeq(seqs) = IF n = 0 THEN seqs ELSE g[n]
  BY DEF FlattenSeq, Flattens
<1> HIDE DEF g
<1>7. \A i \in 1 .. n : g[i] = f[i]
  <2> DEFINE A == {i \in Nat : i \in 1 .. n => g[i] = f[i]}
  <2>1. 0 \in A
    OBVIOUS
  <2>2. ASSUME NEW i \in Nat, i \in A
        PROVE  i + 1 \in A
    <3> SUFFICES ASSUME i + 1 \in 1 .. n PROVE g[i + 1] = f[i + 1]
      OBVIOUS
    <3>1. CASE i = 0
      BY <1>3, <1>5, <3>1 DEF Flattens
    <3>2. CASE i # 0
      <4>1. i \in 1 .. n /\ (i + 1) - 1 = i /\ i + 1 # 1
        BY <3>2
      <4>2. g[i + 1] = g[i] \o seqs[i + 1]
        BY <1>5, <4>1 DEF Flattens
      <4>3. f[i + 1] = f[i] \o seqs[i + 1]
        BY <1>1, <4>1 DEF Concatenates
      <4>4. QED
        BY <2>2, <4>1, <4>2, <4>3
    <3>3. QED
      BY <3>1, <3>2
  <2>3. Nat \subseteq A
    BY <2>1, <2>2, Induct
  <2>4. QED
    BY <2>3
<1>8. CASE n = 0
  <2>1. seqs = <<>>
    BY <1>8, EmptySeq
  <2>2. QED
    BY <1>1, <1>6, <1>8, <2>1 DEF Concatenates
<1>9. CASE n # 0
  BY <1>1, <1>2, <1>6, <1>7, <1>9
<1>10. QED
  BY <1>8, <1>9

\* A flattened sequence q of n parts: element k is the inner[k]-th of part
\* outer[k], each element of each part once.
FlatFrom(q, seqs, n, outer, inner) ==
  /\ outer \in [1 .. Len(q) -> 1 .. n] /\ inner \in [1 .. Len(q) -> Nat]
  /\ \A k \in 1 .. Len(q) :
       inner[k] \in 1 .. Len(seqs[outer[k]]) /\ q[k] = seqs[outer[k]][inner[k]]
  /\ \A k, l \in 1 .. Len(q) : outer[k] = outer[l] /\ inner[k] = inner[l] => k = l
  /\ \A i \in 1 .. n : \A j \in 1 .. Len(seqs[i]) :
       \E k \in 1 .. Len(q) : outer[k] = i /\ inner[k] = j

LEMMA FlattenComesFrom ==
  ASSUME NEW S, NEW seqs \in Seq(Seq(S))
  PROVE  /\ FlattenSeq(seqs) \in Seq(S)
         /\ \E outer, inner : FlatFrom(FlattenSeq(seqs), seqs, Len(seqs), outer, inner)
<1> DEFINE n == Len(seqs)
<1>1. PICK f : Concatenates(f, seqs, S) /\ FlattenSeq(seqs) = f[n]
  BY FlattenIs
<1>2. n \in Nat /\ \A i \in 1 .. n : seqs[i] \in Seq(S) /\ Len(seqs[i]) \in Nat
  BY LenProperties, ElementOfSeq
<1>3. \A i \in 0 .. n : f[i] \in Seq(S) /\ Len(f[i]) \in Nat
  BY <1>1, LenProperties DEF Concatenates
<1> DEFINE Claim(m) == \E outer, inner : FlatFrom(f[m], seqs, m, outer, inner)
           A == {m \in Nat : m <= n => Claim(m)}
<1>4. 0 \in A
  <2>1. Len(f[0]) = 0
    BY <1>1, EmptySeq DEF Concatenates
  <2>2. FlatFrom(f[0], seqs, 0, [k \in 1 .. 0 |-> 1], [k \in 1 .. 0 |-> 1])
    BY <2>1 DEF FlatFrom
  <2>3. QED
    BY <2>2
<1>5. ASSUME NEW m \in Nat, m \in A
      PROVE  m + 1 \in A
  <2> SUFFICES ASSUME m + 1 <= n PROVE Claim(m + 1)
    OBVIOUS
  <2> DEFINE q == f[m]
             p == seqs[m + 1]
             t == f[m + 1]
             a == Len(q)
             b == Len(p)
  <2>1. m \in 0 .. n /\ m + 1 \in 1 .. n /\ m + 1 \in 0 .. n /\ (m + 1) - 1 = m
    BY <1>2
  <2>2. q \in Seq(S) /\ p \in Seq(S) /\ a \in Nat /\ b \in Nat
    BY <1>2, <1>3, <2>1
  <2>3. t = q \o p
    BY <1>1, <2>1 DEF Concatenates
  <2>4. PICK outer, inner : FlatFrom(q, seqs, m, outer, inner)
    BY <1>5
  <2> HIDE DEF q, t
  <2>5. /\ Len(t) = a + b
        /\ \A k \in 1 .. a : t[k] = q[k]
        /\ \A k \in 1 .. (a + b) : k > a => t[k] = p[k - a]
    BY <2>2, <2>3, ConcatProperties
  <2> HIDE DEF a, b
  <2> DEFINE o == [k \in 1 .. (a + b) |-> IF k <= a THEN outer[k] ELSE m + 1]
             i == [k \in 1 .. (a + b) |-> IF k <= a THEN inner[k] ELSE k - a]
  <2>6. /\ outer \in [1 .. a -> 1 .. m] /\ inner \in [1 .. a -> Nat]
        /\ \A k \in 1 .. a : inner[k] \in 1 .. Len(seqs[outer[k]]) /\ q[k] = seqs[outer[k]][inner[k]]
        /\ \A k, l \in 1 .. a : outer[k] = outer[l] /\ inner[k] = inner[l] => k = l
        /\ \A x \in 1 .. m : \A y \in 1 .. Len(seqs[x]) :
             \E k \in 1 .. a : outer[k] = x /\ inner[k] = y
    BY <2>4 DEF FlatFrom, a
  <2>7. \A k \in 1 .. (a + b) :
          /\ k <= a => k \in 1 .. a /\ o[k] = outer[k] /\ i[k] = inner[k] /\ o[k] \in 1 .. m
          /\ k > a => o[k] = m + 1 /\ i[k] = k - a /\ k - a \in 1 .. b
    BY <2>2, <2>6
  <2>8. o \in [1 .. (a + b) -> 1 .. (m + 1)] /\ i \in [1 .. (a + b) -> Nat]
    <3>1. \A k \in 1 .. (a + b) : o[k] \in 1 .. (m + 1) /\ i[k] \in Nat
      BY <2>2, <2>6, <2>7
    <3>2. QED
      BY <3>1
  <2> HIDE DEF o, i
  <2>9. ASSUME NEW k \in 1 .. (a + b)
        PROVE  i[k] \in 1 .. Len(seqs[o[k]]) /\ t[k] = seqs[o[k]][i[k]]
    <3>1. CASE k <= a
      BY <2>5, <2>6, <2>7, <3>1
    <3>2. CASE k > a
      <4>1. seqs[o[k]] = p /\ Len(p) = b
        BY <2>7, <3>2 DEF b
      <4>2. QED
        BY <2>5, <2>7, <3>2, <4>1
    <3>3. QED
      BY <2>2, <3>1, <3>2
  <2>10. ASSUME NEW k \in 1 .. (a + b), NEW l \in 1 .. (a + b), o[k] = o[l], i[k] = i[l]
         PROVE  k = l
    <3>1. CASE k <= a /\ l <= a
      BY <2>6, <2>7, <2>10, <3>1
    <3>2. CASE k > a /\ l > a
      BY <2>2, <2>7, <2>10, <3>2
    <3>3. k <= a <=> l <= a
      BY <2>2, <2>7, <2>10
    <3>4. QED
      BY <2>2, <3>1, <3>2, <3>3
  <2>11. ASSUME NEW x \in 1 .. (m + 1), NEW y \in 1 .. Len(seqs[x])
         PROVE  \E k \in 1 .. (a + b) : o[k] = x /\ i[k] = y
    <3>1. CASE x <= m
      <4>1. x \in 1 .. m
        BY <3>1
      <4>2. PICK k \in 1 .. a : outer[k] = x /\ inner[k] = y
        BY <2>6, <4>1
      <4>3. k \in 1 .. (a + b) /\ k <= a
        BY <2>2
      <4>4. QED
        BY <2>7, <4>2, <4>3
    <3>2. CASE x = m + 1
      <4>1. y \in 1 .. b
        BY <3>2 DEF b
      <4>2. a + y \in 1 .. (a + b) /\ a + y > a /\ (a + y) - a = y
        BY <2>2, <4>1
      <4>3. QED
        BY <2>7, <3>2, <4>2
    <3>3. QED
      BY <3>1, <3>2
  <2>12. FlatFrom(t, seqs, m + 1, o, i)
    BY <2>5, <2>8, <2>9, <2>10, <2>11 DEF FlatFrom
  <2>13. QED
    BY <2>12 DEF t
<1>6. Nat \subseteq A
  BY <1>4, <1>5, Induct
<1>7. Claim(n)
  BY <1>2, <1>6
<1>8. f[n] \in Seq(S)
  BY <1>2, <1>3
<1>9. QED
  BY <1>1, <1>7, <1>8

----------------------------------------------------------------------------
(* Dropping repetitions, and chunks.                                        *)

\* In a concatenation without repetitions no value is in two places.
LEMMA FlattenInjective ==
  ASSUME NEW S, NEW seqs \in Seq(Seq(S)), IsInjective(FlattenSeq(seqs)),
         NEW i \in 1 .. Len(seqs), NEW j \in 1 .. Len(seqs[i]),
         NEW k \in 1 .. Len(seqs), NEW l \in 1 .. Len(seqs[k]), seqs[i][j] = seqs[k][l]
  PROVE  i = k /\ j = l
<1> DEFINE q == FlattenSeq(seqs)
<1>1. PICK outer, inner : FlatFrom(q, seqs, Len(seqs), outer, inner)
  BY FlattenComesFrom
<1>2. q \in Seq(S)
  BY FlattenComesFrom
<1> HIDE DEF q
<1>3. DOMAIN q = 1 .. Len(q)
  BY <1>2, LenProperties
<1>4. PICK a \in 1 .. Len(q) : outer[a] = i /\ inner[a] = j
  BY <1>1 DEF FlatFrom
<1>5. PICK b \in 1 .. Len(q) : outer[b] = k /\ inner[b] = l
  BY <1>1 DEF FlatFrom
<1>6. q[a] = seqs[i][j] /\ q[b] = seqs[k][l]
  BY <1>1, <1>4, <1>5 DEF FlatFrom
<1>7. a = b
  BY <1>3, <1>6 DEF q, IsInjective
<1>8. QED
  BY <1>4, <1>5, <1>7

LEMMA DistinctFacts ==
  ASSUME NEW S, NEW s \in Seq(S)
  PROVE  LET d == Distinct(s)
         IN /\ d \in Seq(S)
            /\ \A k, l \in 1 .. Len(d) : d[k] = d[l] => k = l
            /\ \A k \in 1 .. Len(d) : \E i \in 1 .. Len(s) : d[k] = s[i]
            /\ \A i \in 1 .. Len(s) : \E k \in 1 .. Len(d) : d[k] = s[i]
<1> DEFINE n == Len(s)
           ids == [i \in DOMAIN s |-> i]
           T == {i \in DOMAIN s : \A j \in 1 .. (i - 1) : s[j] # s[i]}
           firsts == Only(ids, T)
           d == Distinct(s)
<1>1. n \in Nat /\ DOMAIN s = 1 .. n
  BY LenProperties
<1>2. ids \in Seq(Nat) /\ Len(ids) = n /\ \A i \in 1 .. n : ids[i] = i
  BY <1>1
<1>3. firsts \in Seq(Nat) /\ \E h : ComesFrom(firsts, ids, T, h)
  BY <1>2, OnlyComesFrom
<1>4. d = [k \in DOMAIN firsts |-> s[firsts[k]]]
  BY DEF Distinct
<1> HIDE DEF ids, firsts, d
<1>5. PICK h : ComesFrom(firsts, ids, T, h)
  BY <1>3
<1>6. /\ Len(firsts) \in Nat /\ DOMAIN firsts = 1 .. Len(firsts)
      /\ \A k \in 1 .. Len(firsts) : firsts[k] = h[k] /\ h[k] \in 1 .. n /\ h[k] \in T
      /\ \A j, k \in 1 .. Len(firsts) : j < k => h[j] < h[k]
      /\ \A i \in 1 .. n : i \in T => \E k \in 1 .. Len(firsts) : h[k] = i
  <2> HIDE DEF T
  <2>1. Len(firsts) \in Nat /\ DOMAIN firsts = 1 .. Len(firsts)
    BY <1>3, LenProperties
  <2>2. h \in [1 .. Len(firsts) -> 1 .. n]
    BY <1>2, <1>5 DEF ComesFrom
  <2>3. \A k \in 1 .. Len(firsts) : firsts[k] = ids[h[k]] /\ ids[h[k]] \in T
    BY <1>5 DEF ComesFrom
  <2>4. \A k \in 1 .. Len(firsts) : ids[h[k]] = h[k]
    BY <1>2, <2>2
  <2>5. \A j, k \in 1 .. Len(firsts) : j < k => h[j] < h[k]
    BY <1>5 DEF ComesFrom
  <2>6. \A i \in 1 .. n : i \in T => \E k \in 1 .. Len(firsts) : h[k] = i
    BY <1>2, <1>5 DEF ComesFrom
  <2>7. QED
    BY <2>1, <2>2, <2>3, <2>4, <2>5, <2>6
<1>7. /\ Len(d) = Len(firsts) /\ d \in Seq(S)
      /\ \A k \in 1 .. Len(d) : d[k] = s[h[k]] /\ h[k] \in 1 .. n
  <2>1. \A k \in 1 .. Len(firsts) : s[firsts[k]] \in S
    BY <1>6, ElementOfSeq
  <2>2. d \in [1 .. Len(firsts) -> S]
    BY <1>4, <1>6, <2>1
  <2>3. d \in Seq(S) /\ Len(d) = Len(firsts)
    BY <1>6, <2>2, SeqDef, LenProperties
  <2>4. QED
    BY <1>4, <1>6, <2>3
<1>8. ASSUME NEW k \in 1 .. Len(d), NEW l \in 1 .. Len(d), k < l
      PROVE  d[k] # d[l]
  <2>1. h[k] < h[l] /\ h[l] \in T /\ h[k] \in 1 .. n /\ h[l] \in 1 .. n
    BY <1>6, <1>7, <1>8
  <2>2. h[k] \in 1 .. (h[l] - 1)
    BY <1>1, <2>1
  <2>3. s[h[k]] # s[h[l]]
    BY <2>1, <2>2
  <2>4. QED
    BY <1>7, <2>3
<1>9. ASSUME NEW i \in 1 .. n
      PROVE  \E k \in 1 .. Len(d) : d[k] = s[i]
  <2> DEFINE A == {j \in Nat : j \in 1 .. n /\ s[j] = s[i]}
  <2>1. PICK j \in A : \A m \in A : j <= m
    <3>1. A \subseteq Nat /\ A # {}
      BY <1>1
    <3> HIDE DEF A
    <3>2. QED
      BY <3>1, LeastNatural
  <2>2. j \in T
    <3>1. ASSUME NEW m \in 1 .. (j - 1)
          PROVE  s[m] # s[j]
      <4>1. m \in Nat /\ m \in 1 .. n /\ m < j
        BY <1>1, <2>1
      <4>2. QED
        BY <2>1, <4>1
    <3>2. QED
      BY <1>1, <2>1, <3>1
  <2>3. PICK k \in 1 .. Len(firsts) : h[k] = j
    BY <1>6, <2>1, <2>2
  <2>4. QED
    BY <1>7, <2>1, <2>3
<1>10. \A k, l \in 1 .. Len(d) : d[k] = d[l] => k = l
  <2> SUFFICES ASSUME NEW k \in 1 .. Len(d), NEW l \in 1 .. Len(d), d[k] = d[l] PROVE k = l
    OBVIOUS
  <2>1. k \in Nat /\ l \in Nat
    BY <1>6, <1>7
  <2>2. ~(k < l) /\ ~(l < k)
    BY <1>8
  <2>3. QED
    BY <2>1, <2>2
<1>11. QED
  BY <1>7, <1>9, <1>10 DEF d

\* Where chunk i begins, and how many chunks there are.
LEMMA ChunkBounds ==
  ASSUME NEW n \in Nat, NEW size \in Nat \ {0}, NEW i \in Nat \ {0}
  PROVE  LET q == (n + size - 1) \div size
         IN /\ q \in Nat
            /\ (i - 1) * size \in Nat /\ i * size = (i - 1) * size + size
            /\ i <= q <=> (i - 1) * size < n
<1> DEFINE q == (n + size - 1) \div size
           a == (i - 1) * size
<1>1. q \in Nat /\ q * size <= n + size - 1 /\ n + size - 1 < q * size + size
  <2> DEFINE r == (n + size - 1) % size
  <2>1. n + size - 1 \in Nat
    OBVIOUS
  <2>2. q \in Int /\ r \in 0 .. (size - 1) /\ n + size - 1 = size * q + r
    BY <2>1
  <2>3. q >= 0
    BY <2>1
  <2> HIDE DEF q, r
  <2>4. size * q = q * size
    BY <2>2
  <2>5. QED
    BY <2>2, <2>3, <2>4
<1>2. a \in Nat /\ i * size = a + size
  <2>1. i - 1 \in Nat
    OBVIOUS
  <2>2. a \in Nat
    BY <2>1
  <2>3. QED
    BY <2>1, <2>2
<1> HIDE DEF q
<1>3. ASSUME i <= q PROVE a < n
  <2>1. i * size <= q * size
    BY <1>1, <1>3
  <2> HIDE DEF a
  <2>2. QED
    BY <1>1, <1>2, <2>1
<1>4. ASSUME i > q PROVE a >= n
  <2>1. q <= i - 1 /\ i - 1 \in Nat
    BY <1>1, <1>4
  <2>2. q * size <= (i - 1) * size
    BY <1>1, <2>1
  <2>3. q * size \in Int
    BY <1>1
  <2> HIDE DEF a
  <2>4. q * size <= a
    BY <2>2 DEF a
  <2>5. QED
    BY <1>1, <1>2, <2>3, <2>4
<1>5. QED
  BY <1>1, <1>2, <1>3, <1>4 DEF q

\* Each chunk holds between one and size elements, those that follow the
\* elements of the chunks before it, and every element is in a chunk.
IsCut(c, s, size) ==
  /\ \A i \in 1 .. Len(c) :
       /\ Len(c[i]) \in 1 .. size
       /\ \A m \in 1 .. Len(c[i]) :
            (i - 1) * size + m \in 1 .. Len(s) /\ c[i][m] = s[(i - 1) * size + m]
  /\ \A j \in 1 .. Len(s) :
       \E i \in 1 .. Len(c) : \E m \in 1 .. Len(c[i]) : j = (i - 1) * size + m

LEMMA ChunksFacts ==
  ASSUME NEW S, NEW s \in Seq(S), NEW size \in Nat \ {0}
  PROVE  /\ Chunks(s, size) \in Seq(Seq(S))
         /\ Len(Chunks(s, size)) = (Len(s) + size - 1) \div size
         /\ IsCut(Chunks(s, size), s, size)
<1> DEFINE n == Len(s)
           q == (n + size - 1) \div size
           c == Chunks(s, size)
           last(i) == IF i * size < n THEN i * size ELSE n
<1>1. n \in Nat
  BY LenProperties
<1>2. q \in Nat
  BY <1>1, ChunkBounds
<1>3. DOMAIN c = 1 .. q /\ \A i \in 1 .. q : c[i] = SubSeq(s, (i - 1) * size + 1, last(i))
  BY DEF Chunks
<1> HIDE DEF c
<1>4. ASSUME NEW i \in 1 .. q
      PROVE  /\ c[i] \in Seq(S) /\ Len(c[i]) \in 1 .. size
             /\ Len(c[i]) = last(i) - (i - 1) * size
             /\ \A m \in 1 .. Len(c[i]) :
                  (i - 1) * size + m \in 1 .. n /\ c[i][m] = s[(i - 1) * size + m]
  <2> DEFINE a == (i - 1) * size
             b == last(i)
  <2>1. i \in Nat \ {0} /\ i <= q
    BY <1>2
  <2>2. a \in Nat /\ i * size = a + size /\ a < n
    BY <1>1, <2>1, ChunkBounds
  <2>3. b \in Nat /\ a + 1 <= b /\ b <= n /\ b - a <= size
    <3> HIDE DEF a
    <3>1. CASE i * size < n
      BY <1>1, <2>2, <3>1
    <3>2. CASE ~(i * size < n)
      BY <1>1, <2>2, <3>2
    <3>3. QED
      BY <3>1, <3>2
  <2>4. c[i] = SubSeq(s, a + 1, b)
    BY <1>3
  <2> HIDE DEF a, b
  <2>5. \A j \in (a + 1) .. b : s[j] \in S
    <3> SUFFICES ASSUME NEW j \in (a + 1) .. b PROVE s[j] \in S
      OBVIOUS
    <3>1. j \in 1 .. Len(s)
      BY <1>1, <2>2, <2>3
    <3>2. QED
      BY <3>1, ElementOfSeq
  <2>6. /\ SubSeq(s, a + 1, b) \in Seq(S) /\ Len(SubSeq(s, a + 1, b)) = b - a
        /\ \A m \in 1 .. (b - a) : SubSeq(s, a + 1, b)[m] = s[a + m]
    <3>1. a + 1 \in Int /\ b \in Int
      BY <2>2, <2>3
    <3>2. /\ SubSeq(s, a + 1, b) \in Seq(S)
          /\ Len(SubSeq(s, a + 1, b)) = IF a + 1 <= b THEN b - (a + 1) + 1 ELSE 0
          /\ \A m \in 1 .. (b - (a + 1) + 1) : SubSeq(s, a + 1, b)[m] = s[(a + 1) + m - 1]
      BY <2>5, <3>1, SubSeqProperties
    <3>3. \A m \in 1 .. (b - a) : (a + 1) + m - 1 = a + m
      BY <2>2
    <3>4. b - (a + 1) + 1 = b - a
      BY <2>2, <2>3
    <3>5. QED
      BY <2>3, <3>2, <3>3, <3>4
  <2>7. \A m \in 1 .. (b - a) : a + m \in 1 .. n
    BY <1>1, <2>2, <2>3
  <2>8. QED
    BY <2>2, <2>3, <2>4, <2>6, <2>7 DEF a, b
<1>5. c \in Seq(Seq(S)) /\ Len(c) = q
  <2>1. c \in [1 .. q -> Seq(S)]
    <3>1. c = [i \in 1 .. q |-> SubSeq(s, (i - 1) * size + 1, last(i))]
      BY DEF c, Chunks
    <3>2. QED
      BY <1>3, <1>4, <3>1
  <2>2. c \in Seq(Seq(S))
    BY <1>2, <2>1, SeqDef
  <2>3. QED
    BY <1>2, <1>3, <2>2, LenProperties
<1>6. ASSUME NEW j \in 1 .. n
      PROVE  \E i \in 1 .. q : \E m \in 1 .. Len(c[i]) : j = (i - 1) * size + m
  <2> DEFINE i == ((j - 1) \div size) + 1
             m == ((j - 1) % size) + 1
             a == (i - 1) * size
  <2>1. j - 1 \in Nat /\ j \in Nat
    BY <1>1
  <2>2. /\ (j - 1) \div size \in Nat /\ (j - 1) % size \in 0 .. (size - 1)
        /\ j - 1 = size * ((j - 1) \div size) + ((j - 1) % size)
    BY <2>1
  <2>3. i \in Nat \ {0} /\ m \in 1 .. size /\ i - 1 = (j - 1) \div size
    BY <2>2
  <2>4. j = a + m
    <3>1. a = size * ((j - 1) \div size)
      BY <2>2, <2>3
    <3>2. a \in Int
      BY <2>3
    <3> HIDE DEF a
    <3>3. m = ((j - 1) % size) + 1
      OBVIOUS
    <3>4. QED
      BY <2>1, <2>2, <3>1, <3>2, <3>3
  <2> HIDE DEF i, m
  <2>5. a \in Nat /\ i * size = a + size /\ (i <= q <=> a < n)
    BY <1>1, <2>3, ChunkBounds
  <2> HIDE DEF a
  <2>6. a < n
    BY <1>1, <2>3, <2>4, <2>5
  <2>7. i \in 1 .. q
    BY <1>2, <2>3, <2>5, <2>6
  <2>8. Len(c[i]) = last(i) - a
    BY <1>4, <2>7 DEF a
  <2>9. m \in 1 .. Len(c[i])
    BY <1>1, <2>3, <2>4, <2>5, <2>8
  <2>10. QED
    BY <2>4, <2>7, <2>9 DEF a
<1>7. IsCut(c, s, size)
  BY <1>4, <1>5, <1>6 DEF IsCut
<1>8. QED
  BY <1>5, <1>7 DEF c

----------------------------------------------------------------------------
(* Sums.                                                                    *)

\* A function that adds up f over subsets, in the order of the choices c.
Adds(g, f, S) ==
  g = [T \in SUBSET S |->
         IF T = {} THEN 0
         ELSE f[CHOOSE x \in T : TRUE] + g[T \ {CHOOSE x \in T : TRUE}]]

LEMMA AdderExists ==
  ASSUME NEW S, IsFiniteSet(S), NEW f \in [S -> Int]
  PROVE  \E g : Adds(g, f, S) /\ g \in [SUBSET S -> Int]
<1> DEFINE c == [T \in (SUBSET S) \ {{}} |-> CHOOSE x \in T : TRUE]
           G == [p \in Int \X S |-> f[p[2]] + p[1]]
           zero == 0
<1>1. c \in [(SUBSET S) \ {{}} -> S] /\ \A T \in (SUBSET S) \ {{}} : c[T] \in T
  <2>1. ASSUME NEW T \in (SUBSET S) \ {{}}
        PROVE  (CHOOSE x \in T : TRUE) \in T
    OBVIOUS
  <2>2. QED
    BY <2>1
<1>2. G \in [Int \X S -> Int] /\ zero \in Int
  OBVIOUS
<1>3. \A T \in (SUBSET S) \ {{}} : c[T] = CHOOSE x \in T : TRUE
  OBVIOUS
<1>4. \A v \in Int, x \in S : G[<<v, x>>] = f[x] + v
  OBVIOUS
<1> HIDE DEF c, G, zero
<1>5. PICK g : RecursiveOverSubsets(g, S, Int, zero, c, G)
  BY <1>1, <1>2, RecursionOverSubsets
<1>6. g \in [SUBSET S -> Int]
  BY <1>5 DEF RecursiveOverSubsets
<1>7. ASSUME NEW T \in SUBSET S
      PROVE  g[T] = IF T = {} THEN 0
                    ELSE f[CHOOSE x \in T : TRUE] + g[T \ {CHOOSE x \in T : TRUE}]
  <2>1. CASE T = {}
    BY <1>5, <2>1 DEF RecursiveOverSubsets, zero
  <2>2. CASE T # {}
    <3>1. c[T] \in S /\ g[T \ {c[T]}] \in Int
      BY <1>1, <1>6, <2>2
    <3>2. g[T] = G[<<g[T \ {c[T]}], c[T]>>]
      BY <1>5, <2>2 DEF RecursiveOverSubsets
    <3>3. g[T] = f[c[T]] + g[T \ {c[T]}]
      BY <1>4, <3>1, <3>2
    <3>4. QED
      BY <1>3, <2>2, <3>3
  <2>3. QED
    BY <2>1, <2>2
<1>8. g = [T \in SUBSET S |->
             IF T = {} THEN 0
             ELSE f[CHOOSE x \in T : TRUE] + g[T \ {CHOOSE x \in T : TRUE}]]
  BY <1>6, <1>7
<1>9. QED
  BY <1>6, <1>8 DEF Adds

\* Two that add up the same values agree.
LEMMA AddersAgree ==
  ASSUME NEW S, NEW R, NEW f, NEW k, NEW g, NEW h, Adds(g, f, S), Adds(h, k, R),
         NEW T, IsFiniteSet(T), T \subseteq S, T \subseteq R, \A x \in T : f[x] = k[x]
  PROVE  g[T] = h[T]
<1> DEFINE A == {n \in Nat : \A U \in SUBSET T : Cardinality(U) <= n => g[U] = h[U]}
<1>1. \A U \in SUBSET T : IsFiniteSet(U) /\ Cardinality(U) \in Nat
  BY FS_Subset, FS_CardinalityType
<1>2. g[{}] = 0 /\ h[{}] = 0
  BY DEF Adds
<1>3. 0 \in A
  <2>1. ASSUME NEW U \in SUBSET T, Cardinality(U) <= 0
        PROVE  U = {}
    BY <1>1, <2>1, FS_EmptySet
  <2>2. QED
    BY <1>2, <2>1
<1>4. ASSUME NEW n \in Nat, n \in A
      PROVE  n + 1 \in A
  <2> SUFFICES ASSUME NEW U \in SUBSET T, Cardinality(U) <= n + 1
               PROVE  g[U] = h[U]
    OBVIOUS
  <2>1. CASE U = {}
    BY <1>2, <2>1
  <2>2. CASE U # {}
    <3> DEFINE x == CHOOSE y \in U : TRUE
    <3>1. x \in U
      BY <2>2
    <3>2. g[U] = f[x] + g[U \ {x}] /\ h[U] = k[x] + h[U \ {x}]
      BY <2>2 DEF Adds
    <3> HIDE DEF x
    <3>3. Cardinality(U \ {x}) <= n
      BY <1>1, <3>1, FS_RemoveElement
    <3>4. g[U \ {x}] = h[U \ {x}]
      BY <1>4, <3>3
    <3>5. QED
      BY <3>1, <3>2, <3>4
  <2>3. QED
    BY <2>1, <2>2
<1> HIDE DEF A
<1>5. Nat \subseteq A
  BY <1>3, <1>4, Induct
<1>6. Cardinality(T) \in A
  BY <1>1, <1>5
<1>7. QED
  BY <1>1, <1>6 DEF A

\* The sums over a set and its subsets come from one function.
SumsBy(g, f, S) ==
  /\ g \in [SUBSET S -> Int] /\ g[{}] = 0
  /\ \A T \in (SUBSET S) \ {{}} : \E x \in T : g[T] = f[x] + g[T \ {x}]
  /\ \A T \in SUBSET S : SumFunctionOnSet(f, T) = g[T]

LEMMA SumsAre ==
  ASSUME NEW S, IsFiniteSet(S), NEW f, \A x \in S : f[x] \in Int
  PROVE  \E g : SumsBy(g, f, S)
<1> DEFINE k == [x \in S |-> f[x]]
<1>1. k \in [S -> Int] /\ \A x \in S : k[x] = f[x]
  OBVIOUS
<1> HIDE DEF k
<1>2. PICK g : Adds(g, k, S) /\ g \in [SUBSET S -> Int]
  BY <1>1, AdderExists
<1>3. g[{}] = 0 /\ \A T \in (SUBSET S) \ {{}} : \E x \in T : g[T] = f[x] + g[T \ {x}]
  <2>1. ASSUME NEW T \in (SUBSET S) \ {{}}
        PROVE  \E x \in T : g[T] = f[x] + g[T \ {x}]
    <3> DEFINE x == CHOOSE y \in T : TRUE
    <3>1. x \in T
      OBVIOUS
    <3>2. g[T] = k[x] + g[T \ {x}]
      BY <1>2 DEF Adds
    <3> HIDE DEF x
    <3>3. QED
      BY <1>1, <3>1, <3>2
  <2>2. QED
    BY <1>2, <2>1 DEF Adds
<1>4. ASSUME NEW T \in SUBSET S
      PROVE  SumFunctionOnSet(f, T) = g[T]
  <2> DEFINE h == CHOOSE h : Adds(h, f, T)
             l == [x \in T |-> f[x]]
  <2>1. IsFiniteSet(T) /\ l \in [T -> Int]
    BY FS_Subset
  <2>2. \E h2 : Adds(h2, f, T)
    <3>1. PICK j : Adds(j, l, T)
      BY <2>1, AdderExists
    <3>2. Adds(j, f, T)
      <4>1. \A U \in SUBSET T : U # {} => l[CHOOSE x \in U : TRUE] = f[CHOOSE x \in U : TRUE]
        OBVIOUS
      <4> HIDE DEF l
      <4>2. QED
        BY <3>1, <4>1 DEF Adds
    <3>3. QED
      BY <3>2
  <2>3. Adds(h, f, T)
    BY <2>2
  <2>4. SumFunctionOnSet(f, T) = h[T]
    BY DEF SumFunctionOnSet, FoldFunctionOnSet, MapThenFoldSet, Adds
  <2> HIDE DEF h
  <2>5. h[T] = g[T]
    BY <1>1, <1>2, <2>1, <2>3, AddersAgree
  <2>6. QED
    BY <2>4, <2>5
<1>5. QED
  BY <1>2, <1>3, <1>4 DEF SumsBy

LEMMA SumEmpty ==
  ASSUME NEW f
  PROVE  SumFunctionOnSet(f, {}) = 0
<1>1. IsFiniteSet({}) /\ \A x \in {} : f[x] \in Int
  BY FS_EmptySet
<1>2. PICK g : SumsBy(g, f, {})
  BY <1>1, SumsAre
<1>3. QED
  BY <1>2 DEF SumsBy

\* Whichever element is taken out first, the sum is the same.
LEMMA SumRest ==
  ASSUME NEW S, IsFiniteSet(S), NEW f, \A x \in S : f[x] \in Int
  PROVE  /\ SumFunctionOnSet(f, S) \in Int
         /\ \A x \in S : SumFunctionOnSet(f, S) = f[x] + SumFunctionOnSet(f, S \ {x})
<1>1. PICK g : SumsBy(g, f, S)
  BY SumsAre
<1>2. /\ g \in [SUBSET S -> Int]
      /\ \A T \in (SUBSET S) \ {{}} : \E x \in T : g[T] = f[x] + g[T \ {x}]
      /\ \A T \in SUBSET S : SumFunctionOnSet(f, T) = g[T]
  BY <1>1 DEF SumsBy
<1> DEFINE A == {n \in Nat : \A T \in SUBSET S : Cardinality(T) <= n =>
                               \A x \in T : g[T] = f[x] + g[T \ {x}]}
<1>3. \A T \in SUBSET S : IsFiniteSet(T) /\ Cardinality(T) \in Nat
  BY FS_Subset, FS_CardinalityType
<1>4. 0 \in A
  <2>1. ASSUME NEW T \in SUBSET S, Cardinality(T) <= 0
        PROVE  T = {}
    BY <1>3, <2>1, FS_EmptySet
  <2>2. QED
    BY <2>1
<1>5. ASSUME NEW n \in Nat, n \in A
      PROVE  n + 1 \in A
  <2> SUFFICES ASSUME NEW T \in SUBSET S, Cardinality(T) <= n + 1, NEW x \in T
               PROVE  g[T] = f[x] + g[T \ {x}]
    OBVIOUS
  <2>1. PICK c \in T : g[T] = f[c] + g[T \ {c}]
    BY <1>2
  <2>2. CASE c = x
    BY <2>1, <2>2
  <2>3. CASE c # x
    <3>1. Cardinality(T \ {c}) <= n /\ Cardinality(T \ {x}) <= n
      BY <1>3, FS_RemoveElement
    <3>2. T \ {c} \in SUBSET S /\ T \ {x} \in SUBSET S /\ x \in T \ {c} /\ c \in T \ {x}
      BY <2>3
    <3>3. g[T \ {c}] = f[x] + g[(T \ {c}) \ {x}] /\ g[T \ {x}] = f[c] + g[(T \ {x}) \ {c}]
      BY <1>5, <3>1, <3>2
    <3>4. (T \ {c}) \ {x} = (T \ {x}) \ {c} /\ (T \ {c}) \ {x} \in SUBSET S
      OBVIOUS
    <3>5. f[x] \in Int /\ f[c] \in Int /\ g[(T \ {c}) \ {x}] \in Int
      BY <1>2, <3>4
    <3>6. PICK rest : rest = g[(T \ {c}) \ {x}]
      OBVIOUS
    <3>7. g[T] = f[c] + (f[x] + rest) /\ g[T \ {x}] = f[c] + rest /\ rest \in Int
      BY <2>1, <3>3, <3>4, <3>5, <3>6
    <3>8. QED
      BY <3>5, <3>7
  <2>4. QED
    BY <2>2, <2>3
<1> HIDE DEF A
<1>6. Nat \subseteq A
  BY <1>4, <1>5, Induct
<1>7. Cardinality(S) \in A
  BY <1>3, <1>6
<1>8. \A x \in S : g[S] = f[x] + g[S \ {x}]
  BY <1>3, <1>7 DEF A
<1>9. S \in SUBSET S /\ \A x \in S : S \ {x} \in SUBSET S
  OBVIOUS
<1>10. SumFunctionOnSet(f, S) = g[S] /\ g[S] \in Int
  BY <1>2, <1>9
<1>11. \A x \in S : SumFunctionOnSet(f, S \ {x}) = g[S \ {x}]
  BY <1>2, <1>9
<1>12. QED
  BY <1>8, <1>10, <1>11

\* One more term.
LEMMA SumAdd ==
  ASSUME NEW S, IsFiniteSet(S), NEW f, \A y \in S : f[y] \in Int, NEW x, x \notin S, f[x] \in Int
  PROVE  SumFunctionOnSet(f, S \cup {x}) = f[x] + SumFunctionOnSet(f, S)
<1>1. IsFiniteSet(S \cup {x}) /\ \A y \in S \cup {x} : f[y] \in Int
  BY FS_AddElement
<1>2. SumFunctionOnSet(f, S \cup {x}) = f[x] + SumFunctionOnSet(f, (S \cup {x}) \ {x})
  BY <1>1, SumRest
<1>3. (S \cup {x}) \ {x} = S
  OBVIOUS
<1>4. QED
  BY <1>2, <1>3

LEMMA SumAtMost ==
  ASSUME NEW S, IsFiniteSet(S), NEW f, NEW k,
         \A x \in S : f[x] \in Int /\ k[x] \in Int /\ f[x] <= k[x]
  PROVE  SumFunctionOnSet(f, S) <= SumFunctionOnSet(k, S)
<1> DEFINE Q == {T \in SUBSET S : SumFunctionOnSet(f, T) <= SumFunctionOnSet(k, T)}
<1>1. {} \in Q
  BY SumEmpty
<1>2. ASSUME NEW T \in SUBSET S, NEW x \in S \ T, T \in Q
      PROVE  T \cup {x} \in Q
  <2>1. IsFiniteSet(T) /\ \A y \in T : f[y] \in Int /\ k[y] \in Int
    BY FS_Subset
  <2>2. /\ SumFunctionOnSet(f, T \cup {x}) = f[x] + SumFunctionOnSet(f, T)
        /\ SumFunctionOnSet(k, T \cup {x}) = k[x] + SumFunctionOnSet(k, T)
        /\ SumFunctionOnSet(f, T) \in Int /\ SumFunctionOnSet(k, T) \in Int
    BY <2>1, SumAdd, SumRest
  <2>3. SumFunctionOnSet(f, T) <= SumFunctionOnSet(k, T)
    BY <1>2
  <2>4. f[x] \in Int /\ k[x] \in Int /\ f[x] <= k[x]
    OBVIOUS
  <2>5. QED
    BY <2>2, <2>3, <2>4
<1> HIDE DEF Q
<1>3. S \in Q
  BY <1>1, <1>2, InductOverSet
<1>4. QED
  BY <1>3 DEF Q

LEMMA SumSame ==
  ASSUME NEW S, IsFiniteSet(S), NEW f, NEW k, \A x \in S : f[x] \in Int /\ f[x] = k[x]
  PROVE  SumFunctionOnSet(f, S) = SumFunctionOnSet(k, S)
<1>1. \A x \in S : f[x] \in Int /\ k[x] \in Int /\ f[x] <= k[x] /\ k[x] <= f[x]
  OBVIOUS
<1>2. /\ SumFunctionOnSet(f, S) <= SumFunctionOnSet(k, S)
      /\ SumFunctionOnSet(k, S) <= SumFunctionOnSet(f, S)
      /\ SumFunctionOnSet(f, S) \in Int /\ SumFunctionOnSet(k, S) \in Int
  BY <1>1, SumAtMost, SumRest
<1>3. QED
  BY <1>2

\* One term grows by one, or comes in at one.
LEMMA SumPlusOne ==
  ASSUME NEW S, IsFiniteSet(S), NEW f, \A y \in S : f[y] \in Int, NEW x,
         NEW k, \A y \in S \ {x} : k[y] = f[y],
         x \in S => k[x] = f[x] + 1, x \notin S => k[x] = 1
  PROVE  SumFunctionOnSet(k, S \cup {x}) = SumFunctionOnSet(f, S) + 1
<1> DEFINE R == S \ {x}
<1>1. IsFiniteSet(R) /\ \A y \in R : f[y] \in Int /\ k[y] \in Int /\ k[y] = f[y]
  BY FS_RemoveElement
<1>2. SumFunctionOnSet(k, R) = SumFunctionOnSet(f, R) /\ SumFunctionOnSet(f, R) \in Int
  BY <1>1, SumSame, SumRest
<1>3. k[x] \in Int /\ x \notin R /\ R \cup {x} = S \cup {x}
  OBVIOUS
<1> HIDE DEF R
<1>4. SumFunctionOnSet(k, S \cup {x}) = k[x] + SumFunctionOnSet(k, R)
  BY <1>1, <1>3, SumAdd
<1>5. CASE x \in S
  <2>1. SumFunctionOnSet(f, S) = f[x] + SumFunctionOnSet(f, R) /\ f[x] \in Int
    BY <1>5, SumRest DEF R
  <2>2. QED
    BY <1>2, <1>4, <1>5, <2>1
<1>6. CASE x \notin S
  <2>1. R = S
    BY <1>6 DEF R
  <2>2. QED
    BY <1>2, <1>4, <1>6, <2>1
<1>7. QED
  BY <1>5, <1>6

\* What is added is zero.
LEMMA SumOfZeros ==
  ASSUME NEW S, IsFiniteSet(S), NEW f, \A x \in S : f[x] = 0
  PROVE  SumFunctionOnSet(f, S) = 0
<1> DEFINE Q == {T \in SUBSET S : SumFunctionOnSet(f, T) = 0}
<1>1. {} \in Q
  BY SumEmpty
<1>2. ASSUME NEW T \in SUBSET S, NEW x \in S \ T, T \in Q
      PROVE  T \cup {x} \in Q
  <2>1. IsFiniteSet(T) /\ (\A y \in T : f[y] \in Int) /\ f[x] \in Int /\ f[x] = 0
    BY FS_Subset
  <2>2. SumFunctionOnSet(f, T \cup {x}) = f[x] + SumFunctionOnSet(f, T)
    BY <2>1, SumAdd
  <2>3. QED
    BY <1>2, <2>1, <2>2
<1> HIDE DEF Q
<1>3. S \in Q
  BY <1>1, <1>2, InductOverSet
<1>4. QED
  BY <1>3 DEF Q

\* Other names for the terms.
LEMMA SumRenamed ==
  ASSUME NEW S, IsFiniteSet(S), NEW b, \A x, y \in S : b[x] = b[y] => x = y,
         NEW f, NEW k, \A x \in S : f[x] \in Int /\ k[b[x]] = f[x],
         NEW R, R = {b[x] : x \in S}
  PROVE  SumFunctionOnSet(k, R) = SumFunctionOnSet(f, S)
<1> DEFINE Image(T) == {b[x] : x \in T}
           Q == {T \in SUBSET S : /\ IsFiniteSet(Image(T))
                                  /\ SumFunctionOnSet(k, Image(T)) = SumFunctionOnSet(f, T)}
<1>1. {} \in Q
  <2>1. Image({}) = {}
    OBVIOUS
  <2>2. QED
    BY <2>1, SumEmpty, FS_EmptySet
<1>2. ASSUME NEW T \in SUBSET S, NEW x \in S \ T, T \in Q
      PROVE  T \cup {x} \in Q
  <2> DEFINE I == Image(T)
             y == b[x]
  <2>1. Image(T \cup {x}) = I \cup {y} /\ y \notin I
    OBVIOUS
  <2>2. IsFiniteSet(T) /\ (\A z \in T : f[z] \in Int) /\ f[x] \in Int /\ k[y] = f[x]
    BY FS_Subset
  <2>3. IsFiniteSet(I) /\ SumFunctionOnSet(k, I) = SumFunctionOnSet(f, T)
    BY <1>2
  <2>4. \A z \in I : k[z] \in Int
    OBVIOUS
  <2> HIDE DEF I, y
  <2>5. /\ SumFunctionOnSet(k, I \cup {y}) = k[y] + SumFunctionOnSet(k, I)
        /\ SumFunctionOnSet(f, T \cup {x}) = f[x] + SumFunctionOnSet(f, T)
        /\ IsFiniteSet(I \cup {y})
    BY <2>1, <2>2, <2>3, <2>4, SumAdd, FS_AddElement
  <2>6. QED
    BY <2>1, <2>2, <2>3, <2>5
<1> HIDE DEF Q
<1>3. S \in Q
  BY <1>1, <1>2, InductOverSet
<1>4. QED
  BY <1>3 DEF Q

----------------------------------------------------------------------------
(* Counting the elements of a sequence that are in a set.                   *)

HowMany(s, T) == Cardinality({i \in DOMAIN s : s[i] \in T})

\* A one-to-one image has as many elements.
LEMMA SameCardinality ==
  ASSUME NEW A, IsFiniteSet(A), NEW B, NEW b \in [A -> B],
         \A x, y \in A : b[x] = b[y] => x = y, \A z \in B : \E x \in A : b[x] = z
  PROVE  IsFiniteSet(B) /\ Cardinality(B) = Cardinality(A)
<1>1. b \in Bijection(A, B)
  BY DEF Bijection, Injection, Surjection, IsInjective
<1>2. ExistsBijection(A, B)
  BY <1>1 DEF ExistsBijection
<1>3. QED
  BY <1>2, FS_Bijection

LEMMA HowManyType ==
  ASSUME NEW S, NEW s \in Seq(S), NEW T
  PROVE  /\ IsFiniteSet({i \in DOMAIN s : s[i] \in T}) /\ HowMany(s, T) \in Nat
         /\ HowMany(s, T) = 0 <=> \A i \in DOMAIN s : s[i] \notin T
         /\ DOMAIN s = 1 .. Len(s) /\ Len(s) \in Nat
<1> DEFINE A == {i \in DOMAIN s : s[i] \in T}
<1>1. DOMAIN s = 1 .. Len(s) /\ Len(s) \in Nat
  BY LenProperties
<1>2. IsFiniteSet(1 .. Len(s)) /\ A \in SUBSET (1 .. Len(s))
  BY <1>1, FS_Interval
<1>3. IsFiniteSet(A)
  BY <1>2, FS_Subset
<1>4. Cardinality(A) \in Nat
  BY <1>3, FS_CardinalityType
<1>5. Cardinality(A) = 0 <=> A = {}
  BY <1>3, FS_EmptySet
<1>6. QED
  BY <1>1, <1>3, <1>4, <1>5 DEF HowMany

LEMMA HowManyEmpty ==
  ASSUME NEW T
  PROVE  HowMany(<<>>, T) = 0
<1>1. <<>> \in Seq({}) /\ DOMAIN <<>> = {}
  BY EmptySeq
<1>2. QED
  BY <1>1, HowManyType

LEMMA HowManyOne ==
  ASSUME NEW x, NEW T
  PROVE  HowMany(<<x>>, T) = IF x \in T THEN 1 ELSE 0
<1> DEFINE one == <<x>>
<1>1. one \in Seq({x}) /\ DOMAIN one = {1} /\ one[1] = x
  OBVIOUS
<1> HIDE DEF one
<1>2. CASE x \in T
  <2>1. {i \in DOMAIN one : one[i] \in T} = {1}
    BY <1>1, <1>2
  <2>2. QED
    BY <1>2, <2>1, FS_Singleton DEF HowMany, one
<1>3. CASE x \notin T
  <2>1. HowMany(one, T) = 0
    BY <1>1, <1>3, HowManyType
  <2>2. QED
    BY <1>3, <2>1 DEF one
<1>4. QED
  BY <1>2, <1>3

LEMMA HowManyConcat ==
  ASSUME NEW S, NEW s \in Seq(S), NEW t \in Seq(S), NEW T
  PROVE  s \o t \in Seq(S) /\ HowMany(s \o t, T) = HowMany(s, T) + HowMany(t, T)
<1> DEFINE n == Len(s)
           m == Len(t)
           q == s \o t
           A == {i \in DOMAIN s : s[i] \in T}
           B == {i \in DOMAIN t : t[i] \in T}
           C == {i \in DOMAIN q : q[i] \in T}
           D == {i \in C : i > n}
           b == [i \in B |-> i + n]
<1>1. n \in Nat /\ m \in Nat /\ DOMAIN s = 1 .. n /\ DOMAIN t = 1 .. m
  BY LenProperties
<1>2. /\ q \in Seq(S) /\ Len(q) = n + m /\ DOMAIN q = 1 .. (n + m)
      /\ \A i \in 1 .. (n + m) : q[i] = IF i <= n THEN s[i] ELSE t[i - n]
  BY ConcatProperties, LenProperties
<1>3. IsFiniteSet(A) /\ IsFiniteSet(B)
  BY HowManyType
<1> HIDE DEF n, m, q
<1>4. b \in [B -> D]
  <2>1. ASSUME NEW i \in B PROVE i + n \in D
    <3>1. i \in 1 .. m /\ t[i] \in T
      BY <1>1
    <3>2. i + n \in 1 .. (n + m) /\ i + n > n /\ (i + n) - n = i
      BY <1>1, <3>1
    <3>3. q[i + n] = t[i]
      BY <1>1, <1>2, <3>2
    <3>4. i + n \in C
      BY <1>2, <3>1, <3>2, <3>3
    <3>5. QED
      BY <3>2, <3>4
  <2>2. QED
    BY <2>1
<1>5. \A x, y \in B : b[x] = b[y] => x = y
  BY <1>1
<1>6. \A z \in D : \E x \in B : b[x] = z
  <2>1. ASSUME NEW z \in D PROVE z - n \in B /\ b[z - n] = z
    <3>1. z \in 1 .. (n + m) /\ z > n /\ q[z] \in T
      BY <1>2
    <3>2. z - n \in 1 .. m /\ q[z] = t[z - n]
      BY <1>1, <1>2, <3>1
    <3>3. z - n \in B
      BY <1>1, <3>1, <3>2
    <3>4. QED
      BY <1>1, <3>1, <3>3
  <2>2. QED
    BY <2>1
<1>7. IsFiniteSet(D) /\ Cardinality(D) = Cardinality(B)
  <2> HIDE DEF B, D, b
  <2>1. QED
    BY <1>3, <1>4, <1>5, <1>6, SameCardinality
<1>8. C = A \cup D /\ A \cap D = {}
  <2>1. \A i \in 1 .. (n + m) : i <= n => i \in 1 .. n
    BY <1>1
  <2>2. 1 .. n \subseteq 1 .. (n + m) /\ \A i \in 1 .. n : i <= n /\ ~(i > n)
    BY <1>1
  <2>3. \A i \in 1 .. (n + m) : i <= n \/ i > n
    BY <1>1
  <2>4. C \subseteq A \cup D
    BY <1>1, <1>2, <2>1, <2>3
  <2>5. A \subseteq C
    BY <1>1, <1>2, <2>2
  <2>6. A \cap D = {}
    BY <1>1, <2>2
  <2>7. QED
    BY <2>4, <2>5, <2>6
<1>9. HowMany(q, T) = Cardinality(C) /\ HowMany(s, T) = Cardinality(A) /\ HowMany(t, T) = Cardinality(B)
  BY DEF HowMany
<1> HIDE DEF A, B, C, D
<1>10. Cardinality(A \cup D) = Cardinality(A) + Cardinality(D) - Cardinality(A \cap D)
  BY <1>3, <1>7, FS_Union
<1>11. Cardinality(A \cap D) = 0 /\ Cardinality(A) \in Nat /\ Cardinality(D) \in Nat
  BY <1>3, <1>7, <1>8, FS_EmptySet, FS_CardinalityType
<1>12. QED
  BY <1>2, <1>7, <1>8, <1>9, <1>10, <1>11 DEF q

\* As many as the places of another sequence that stand for them.
LEMMA HowManyMapped ==
  ASSUME NEW s, NEW t, NEW T, NEW R, DOMAIN s = DOMAIN t,
         \A i \in DOMAIN s : s[i] \in T <=> t[i] \in R
  PROVE  HowMany(s, T) = HowMany(t, R)
<1>1. {i \in DOMAIN s : s[i] \in T} = {i \in DOMAIN t : t[i] \in R}
  OBVIOUS
<1>2. QED
  BY <1>1 DEF HowMany

LEMMA HowManyAll ==
  ASSUME NEW S, NEW s \in Seq(S), NEW T, \A i \in DOMAIN s : s[i] \in T
  PROVE  HowMany(s, T) = Len(s)
<1>1. DOMAIN s = 1 .. Len(s) /\ Len(s) \in Nat
  BY LenProperties
<1>2. {i \in DOMAIN s : s[i] \in T} = 1 .. Len(s)
  BY <1>1
<1>3. Cardinality(1 .. Len(s)) = Len(s)
  BY <1>1, FS_Interval
<1>4. QED
  BY <1>2, <1>3 DEF HowMany

LEMMA HowManyExactlyOne ==
  ASSUME NEW s, NEW T, NEW k \in DOMAIN s, \A i \in DOMAIN s : s[i] \in T <=> i = k
  PROVE  HowMany(s, T) = 1
<1>1. {i \in DOMAIN s : s[i] \in T} = {k}
  OBVIOUS
<1>2. QED
  BY <1>1, FS_Singleton DEF HowMany

\* The length of a sequence without repetitions is the number of its elements.
LEMMA LengthIsCardinality ==
  ASSUME NEW S, NEW s \in Seq(S), \A i, j \in DOMAIN s : s[i] = s[j] => i = j
  PROVE  IsFiniteSet(ToSet(s)) /\ Cardinality(ToSet(s)) = Len(s)
<1>1. DOMAIN s = 1 .. Len(s) /\ Len(s) \in Nat
  BY LenProperties
<1>2. s \in [1 .. Len(s) -> ToSet(s)]
  <2>1. s \in [1 .. Len(s) -> S] /\ \A i \in 1 .. Len(s) : s[i] \in ToSet(s)
    BY <1>1, SeqDef, LenProperties DEF ToSet
  <2>2. QED
    BY <2>1
<1>3. \A z \in ToSet(s) : \E i \in 1 .. Len(s) : s[i] = z
  BY <1>1 DEF ToSet
<1>4. IsFiniteSet(1 .. Len(s)) /\ Cardinality(1 .. Len(s)) = Len(s)
  BY <1>1, FS_Interval
<1>5. IsFiniteSet(ToSet(s)) /\ Cardinality(ToSet(s)) = Cardinality(1 .. Len(s))
  BY <1>1, <1>2, <1>3, <1>4, SameCardinality
<1>6. QED
  BY <1>4, <1>5

\* What a selection from a sequence without repetitions keeps, each once.
LEMMA OnlyOnce ==
  ASSUME NEW S, NEW s \in Seq(S), \A i, j \in DOMAIN s : s[i] = s[j] => i = j, NEW T
  PROVE  /\ Only(s, T) \in Seq(S)
         /\ \A i, j \in DOMAIN Only(s, T) : Only(s, T)[i] = Only(s, T)[j] => i = j
         /\ ToSet(Only(s, T)) = ToSet(s) \cap T
<1> DEFINE q == Only(s, T)
<1>1. q \in Seq(S) /\ \E h : ComesFrom(q, s, T, h)
  BY OnlyComesFrom
<1> HIDE DEF q
<1>2. PICK h : ComesFrom(q, s, T, h)
  BY <1>1
<1>3. DOMAIN q = 1 .. Len(q) /\ DOMAIN s = 1 .. Len(s) /\ Len(q) \in Nat /\ Len(s) \in Nat
  BY <1>1, LenProperties
<1>4. /\ \A j \in 1 .. Len(q) : h[j] \in 1 .. Len(s) /\ q[j] = s[h[j]] /\ s[h[j]] \in T
      /\ \A j, k \in 1 .. Len(q) : j < k => h[j] < h[k]
      /\ \A i \in 1 .. Len(s) : s[i] \in T => \E j \in 1 .. Len(q) : h[j] = i
  BY <1>2 DEF ComesFrom
<1>5. ASSUME NEW i \in DOMAIN q, NEW j \in DOMAIN q, q[i] = q[j]
      PROVE  i = j
  <2>1. h[i] = h[j]
    BY <1>3, <1>4, <1>5
  <2>2. ~(i < j) /\ ~(j < i)
    BY <1>3, <1>4, <2>1
  <2>3. QED
    BY <1>3, <2>2
<1>6. ToSet(q) = ToSet(s) \cap T
  <2>1. ToSet(q) \subseteq ToSet(s) \cap T
    BY <1>3, <1>4 DEF ToSet
  <2>2. ASSUME NEW x \in ToSet(s) \cap T PROVE x \in ToSet(q)
    <3>1. PICK i \in 1 .. Len(s) : s[i] = x
      BY <1>3 DEF ToSet
    <3>2. PICK j \in 1 .. Len(q) : h[j] = i
      BY <1>4, <3>1
    <3>3. QED
      BY <1>3, <1>4, <3>1, <3>2 DEF ToSet
  <2>3. QED
    BY <2>1, <2>2
<1>7. QED
  BY <1>1, <1>5, <1>6 DEF q

LEMMA HowManyFlatten ==
  ASSUME NEW S, NEW seqs \in Seq(Seq(S)), NEW T,
         NEW h, \A i \in 1 .. Len(seqs) : HowMany(seqs[i], T) = h[i]
  PROVE  /\ FlattenSeq(seqs) \in Seq(S)
         /\ HowMany(FlattenSeq(seqs), T) = SumFunctionOnSet(h, 1 .. Len(seqs))
<1> DEFINE n == Len(seqs)
<1>1. PICK f : Concatenates(f, seqs, S) /\ FlattenSeq(seqs) = f[n]
  BY FlattenIs
<1>2. n \in Nat /\ \A i \in 1 .. n : seqs[i] \in Seq(S)
  BY LenProperties, ElementOfSeq
<1>3. /\ f[0] = <<>> /\ \A i \in 0 .. n : f[i] \in Seq(S)
      /\ \A i \in 1 .. n : f[i] = f[i - 1] \o seqs[i]
  BY <1>1 DEF Concatenates
<1>4. ASSUME NEW i \in 1 .. n PROVE h[i] \in Int
  <2>1. seqs[i] \in Seq(S)
    BY <1>2
  <2>2. HowMany(seqs[i], T) \in Nat
    BY <2>1, HowManyType
  <2>3. HowMany(seqs[i], T) = h[i]
    OBVIOUS
  <2>4. QED
    BY <2>2, <2>3
<1> HIDE DEF n
<1> DEFINE A == {m \in Nat : m <= n => HowMany(f[m], T) = SumFunctionOnSet(h, 1 .. m)}
<1>5. 0 \in A
  <2>1. HowMany(f[0], T) = 0
    BY <1>3, HowManyEmpty
  <2>2. 1 .. 0 = {}
    OBVIOUS
  <2>3. SumFunctionOnSet(h, 1 .. 0) = 0
    BY <2>2, SumEmpty
  <2>4. QED
    BY <2>1, <2>3
<1>6. ASSUME NEW m \in Nat, m \in A
      PROVE  m + 1 \in A
  <2> SUFFICES ASSUME m + 1 <= n
               PROVE  HowMany(f[m + 1], T) = SumFunctionOnSet(h, 1 .. (m + 1))
    OBVIOUS
  <2>1. m \in 0 .. n /\ m + 1 \in 1 .. n /\ (m + 1) - 1 = m
    BY <1>2
  <2>2. f[m] \in Seq(S) /\ seqs[m + 1] \in Seq(S) /\ f[m + 1] = f[m] \o seqs[m + 1]
    BY <1>2, <1>3, <2>1
  <2>3. HowMany(f[m] \o seqs[m + 1], T) = HowMany(f[m], T) + HowMany(seqs[m + 1], T)
    BY <2>2, HowManyConcat
  <2>4. HowMany(seqs[m + 1], T) = h[m + 1]
    BY <2>1 DEF n
  <2>5. HowMany(f[m], T) = SumFunctionOnSet(h, 1 .. m)
    BY <1>6, <2>1
  <2>6. 1 .. (m + 1) = (1 .. m) \cup {m + 1} /\ m + 1 \notin 1 .. m
    <3>1. \A i : i \in 1 .. (m + 1) <=> i \in 1 .. m \/ i = m + 1
      OBVIOUS
    <3>2. QED
      BY <3>1
  <2>7. IsFiniteSet(1 .. m)
    BY FS_Interval
  <2>8. (\A i \in 1 .. m : h[i] \in Int) /\ h[m + 1] \in Int
    BY <1>2, <1>4, <2>1
  <2> DEFINE J == 1 .. m
  <2> HIDE DEF J
  <2>9. SumFunctionOnSet(h, J \cup {m + 1}) = h[m + 1] + SumFunctionOnSet(h, J)
    BY <2>6, <2>7, <2>8, SumAdd DEF J
  <2>10. SumFunctionOnSet(h, J) \in Int
    BY <2>7, <2>8, SumRest DEF J
  <2>11. J \cup {m + 1} = 1 .. (m + 1)
    BY <2>6 DEF J
  <2>12. HowMany(f[m + 1], T) = SumFunctionOnSet(h, J) + h[m + 1]
    BY <2>2, <2>3, <2>4, <2>5 DEF J
  <2>13. HowMany(f[m + 1], T) = SumFunctionOnSet(h, J \cup {m + 1})
    BY <2>8, <2>9, <2>10, <2>12
  <2>14. QED
    BY <2>11, <2>13
<1> HIDE DEF A
<1>7. Nat \subseteq A
  BY <1>5, <1>6, Induct
<1>8. n \in A
  BY <1>2, <1>7
<1>9. QED
  BY <1>1, <1>2, <1>3, <1>8 DEF A, n

LEMMA SumConstant ==
  ASSUME NEW S, IsFiniteSet(S), NEW f, NEW k \in Int, \A x \in S : f[x] = k
  PROVE  SumFunctionOnSet(f, S) = Cardinality(S) * k
<1> DEFINE Q == {T \in SUBSET S : SumFunctionOnSet(f, T) = Cardinality(T) * k}
<1>1. {} \in Q
  BY SumEmpty, FS_EmptySet
<1>2. ASSUME NEW T \in SUBSET S, NEW x \in S \ T, T \in Q
      PROVE  T \cup {x} \in Q
  <2>1. IsFiniteSet(T)
    BY FS_Subset
  <2>2. /\ Cardinality(T) \in Nat /\ Cardinality(T \cup {x}) = Cardinality(T) + 1
    BY <2>1, FS_CardinalityType, FS_AddElement
  <2>3. (\A y \in T : f[y] \in Int) /\ f[x] \in Int /\ f[x] = k
    OBVIOUS
  <2>4. SumFunctionOnSet(f, T \cup {x}) = f[x] + SumFunctionOnSet(f, T)
    BY <2>1, <2>3, SumAdd
  <2>5. SumFunctionOnSet(f, T) = Cardinality(T) * k
    BY <1>2
  <2> DEFINE c == Cardinality(T)
  <2>6. c \in Int /\ k + c * k = (c + 1) * k
    BY <2>2
  <2>7. QED
    BY <2>2, <2>3, <2>4, <2>5, <2>6
<1> HIDE DEF Q
<1>3. S \in Q
  BY <1>1, <1>2, InductOverSet
<1>4. QED
  BY <1>3 DEF Q

LEMMA SumOfOne ==
  ASSUME NEW S, IsFiniteSet(S), NEW f, NEW x \in S, f[x] = 1, \A y \in S \ {x} : f[y] = 0
  PROVE  SumFunctionOnSet(f, S) = 1
<1>1. \A y \in S : f[y] \in Int
  OBVIOUS
<1>2. SumFunctionOnSet(f, S) = f[x] + SumFunctionOnSet(f, S \ {x})
  BY <1>1, SumRest
<1>3. IsFiniteSet(S \ {x})
  BY FS_RemoveElement
<1>4. SumFunctionOnSet(f, S \ {x}) = 0
  BY <1>3, SumOfZeros
<1>5. QED
  BY <1>2, <1>4

\* A number of chunks, counted by their first elements.
LEMMA ChunkHeads ==
  ASSUME NEW n \in Nat, NEW size \in Nat \ {0}
  PROVE  /\ (n + size - 1) \div size \in Nat
         /\ Cardinality({j \in 1 .. n : (j - 1) % size = 0}) = (n + size - 1) \div size
<1> DEFINE q == (n + size - 1) \div size
           H == {j \in 1 .. n : (j - 1) % size = 0}
           b == [i \in 1 .. q |-> (i - 1) * size + 1]
<1>1. \A i \in Nat \ {0} : /\ q \in Nat /\ (i - 1) * size \in Nat
                           /\ i * size = (i - 1) * size + size
                           /\ i <= q <=> (i - 1) * size < n
  BY ChunkBounds
<1>2. q \in Nat
  BY <1>1
<1>3. IsFiniteSet(1 .. q) /\ Cardinality(1 .. q) = q
  <2> HIDE DEF q
  <2>1. IsFiniteSet(1 .. q)
    BY <1>2, FS_Interval
  <2>2. Cardinality(1 .. q) = q
    BY <1>2, FS_Interval
  <2>3. QED
    BY <2>1, <2>2
<1>4. b \in [1 .. q -> H]
  <2>1. ASSUME NEW i \in 1 .. q PROVE (i - 1) * size + 1 \in H
    <3>1. i \in Nat \ {0} /\ i <= q /\ i - 1 \in Nat
      BY <1>2
    <3> DEFINE a == (i - 1) * size
    <3>2. a \in Nat /\ a < n
      BY <1>1, <3>1
    <3>3. a % size = 0
      <4>1. \A k \in Nat : (k * size) % size = 0
        OBVIOUS
      <4>2. QED
        BY <3>1, <4>1
    <3> HIDE DEF a
    <3>4. a + 1 \in 1 .. n /\ (a + 1) - 1 = a
      BY <3>2
    <3>5. a + 1 \in H
      BY <3>3, <3>4
    <3>6. QED
      BY <3>5 DEF a
  <2>2. QED
    BY <2>1
<1>5. ASSUME NEW i \in 1 .. q, NEW j \in 1 .. q, i < j
      PROVE  b[i] < b[j]
  <2>1. i \in Nat \ {0} /\ j \in Nat \ {0} /\ i - 1 \in Nat /\ j - 1 \in Nat
    BY <1>2
  <2> DEFINE d == (j - 1) - i
  <2>2. d \in Nat /\ j - 1 = i + d
    BY <1>5, <2>1
  <2>3. d * size \in Nat /\ (i + d) * size = i * size + d * size
    BY <2>1, <2>2
  <2>4. (j - 1) * size >= i * size
    BY <1>1, <2>1, <2>2, <2>3
  <2>5. i * size = (i - 1) * size + size /\ (i - 1) * size \in Nat /\ (j - 1) * size \in Nat
    BY <1>1, <2>1
  <2>6. QED
    BY <2>4, <2>5
<1>6. \A i, j \in 1 .. q : b[i] = b[j] => i = j
  <2>1. \A i \in 1 .. q : b[i] \in Nat
    BY <1>4
  <2>2. \A i, j \in 1 .. q : i < j \/ j < i \/ i = j
    OBVIOUS
  <2> HIDE DEF b
  <2>3. QED
    BY <1>5, <2>1, <2>2
<1>7. ASSUME NEW j \in H
      PROVE  \E i \in 1 .. q : b[i] = j
  <2> DEFINE i == (j - 1) \div size + 1
  <2>1. j - 1 \in Nat /\ j \in 1 .. n /\ (j - 1) % size = 0
    OBVIOUS
  <2>2. (j - 1) \div size \in Nat /\ j - 1 = ((j - 1) \div size) * size
    <3> DEFINE a == j - 1
               d == a \div size
    <3>1. d \in Int /\ a = size * d + (a % size)
      BY <2>1
    <3>2. a % size = 0
      BY <2>1
    <3> HIDE DEF a, d
    <3>3. a = size * d /\ size * d = d * size
      BY <2>1, <3>1, <3>2 DEF a
    <3>4. d >= 0
      BY <2>1 DEF a, d
    <3>5. QED
      BY <3>1, <3>3, <3>4 DEF a, d
  <2>3. i \in Nat \ {0} /\ (i - 1) * size = j - 1 /\ i - 1 = (j - 1) \div size
    BY <2>2
  <2> HIDE DEF i
  <2>4. i \in 1 .. q
    BY <1>1, <2>1, <2>3
  <2>5. b[i] = j
    BY <2>1, <2>3, <2>4
  <2>6. QED
    BY <2>4, <2>5
<1> HIDE DEF b, H, q
<1>8. Cardinality(H) = q
  BY <1>3, <1>4, <1>6, <1>7, SameCardinality
<1>9. QED
  BY <1>2, <1>8 DEF H, q

LEMMA HowManyAppend ==
  ASSUME NEW S, NEW s \in Seq(S), NEW x \in S, NEW T
  PROVE  HowMany(Append(s, x), T) = HowMany(s, T) + (IF x \in T THEN 1 ELSE 0)
<1> DEFINE one == <<x>>
<1>1. one \in Seq(S) /\ Append(s, x) = s \o one
  OBVIOUS
<1>2. HowMany(one, T) = IF x \in T THEN 1 ELSE 0
  BY HowManyOne
<1> HIDE DEF one
<1>3. HowMany(s \o one, T) = HowMany(s, T) + HowMany(one, T)
  BY <1>1, HowManyConcat
<1>4. QED
  BY <1>1, <1>2, <1>3

\* One element changes to one in the set, or stays outside it.
LEMMA HowManyUpdate ==
  ASSUME NEW S, NEW s \in Seq(S), NEW t \in Seq(S), DOMAIN t = DOMAIN s,
         NEW i \in DOMAIN s, \A j \in DOMAIN s : j # i => t[j] = s[j], NEW T, s[i] \notin T
  PROVE  HowMany(t, T) = HowMany(s, T) + (IF t[i] \in T THEN 1 ELSE 0)
<1> DEFINE A == {j \in DOMAIN s : s[j] \in T}
           B == {j \in DOMAIN t : t[j] \in T}
<1>1. IsFiniteSet(A) /\ i \notin A
  BY HowManyType
<1>2. CASE t[i] \in T
  <2>1. B = A \cup {i}
    BY <1>2
  <2>2. Cardinality(A \cup {i}) = Cardinality(A) + 1
    BY <1>1, FS_AddElement
  <2>3. QED
    BY <1>2, <2>1, <2>2 DEF HowMany
<1>3. CASE t[i] \notin T
  <2>1. B = A
    BY <1>3
  <2>2. HowMany(s, T) \in Nat
    BY HowManyType
  <2>3. HowMany(t, T) = HowMany(s, T)
    BY <2>1 DEF HowMany
  <2>4. QED
    BY <1>3, <2>2, <2>3
<1>4. QED
  BY <1>2, <1>3

LEMMA HowManyAtMost ==
  ASSUME NEW S, NEW s \in Seq(S), NEW T
  PROVE  /\ HowMany(s, T) <= Len(s)
         /\ HowMany(s, T) = Len(s) <=> \A i \in DOMAIN s : s[i] \in T
<1> DEFINE A == {i \in DOMAIN s : s[i] \in T}
           D == DOMAIN s
<1>1. D = 1 .. Len(s) /\ Len(s) \in Nat
  BY LenProperties
<1>2. IsFiniteSet(D) /\ Cardinality(D) = Len(s)
  <2>1. IsFiniteSet(1 .. Len(s))
    BY <1>1, FS_Interval
  <2>2. Cardinality(1 .. Len(s)) = Len(s)
    BY <1>1, FS_Interval
  <2>3. QED
    BY <1>1, <2>1, <2>2
<1>3. A \subseteq D
  OBVIOUS
<1>4. HowMany(s, T) = Cardinality(A) /\ (A = D <=> \A i \in DOMAIN s : s[i] \in T)
  BY DEF HowMany
<1> HIDE DEF A, D
<1>5. Cardinality(A) <= Cardinality(D) /\ (Cardinality(A) = Cardinality(D) => A = D)
  BY <1>2, <1>3, FS_Subset
<1>6. QED
  BY <1>2, <1>4, <1>5

LEMMA SumIsNatural ==
  ASSUME NEW S, IsFiniteSet(S), NEW f, \A x \in S : f[x] \in Nat
  PROVE  SumFunctionOnSet(f, S) \in Nat
<1> DEFINE z == [x \in S |-> 0]
<1>1. SumFunctionOnSet(z, S) = 0
  BY SumOfZeros
<1>2. \A x \in S : z[x] \in Int /\ f[x] \in Int /\ z[x] <= f[x]
  OBVIOUS
<1> HIDE DEF z
<1>3. SumFunctionOnSet(z, S) <= SumFunctionOnSet(f, S)
  BY <1>2, SumAtMost
<1>4. SumFunctionOnSet(f, S) \in Int
  BY <1>2, SumRest
<1>5. QED
  BY <1>1, <1>3, <1>4

----------------------------------------------------------------------------
(* Taking turns.                                                            *)

\* How often the j-th of n was used after k uses in turn.
Turns(k, n, j) == (k \div n) + (IF j <= k % n THEN 1 ELSE 0)

\* Quotient and remainder are determined by their equation.
LEMMA DivisionIs ==
  ASSUME NEW n \in Nat \ {0}, NEW q \in Nat, NEW r \in 0 .. (n - 1), NEW k, k = q * n + r
  PROVE  k \div n = q /\ k % n = r
<1> DEFINE p == k \div n
           s == k % n
           u == q * n
<1>1. u \in Nat /\ k = u + r /\ k \in Nat
  OBVIOUS
<1>2. p \in Int /\ s \in 0 .. (n - 1) /\ k = n * p + s
  BY <1>1
<1> HIDE DEF p, s
<1>3. ASSUME NEW a \in Int, NEW b \in Int, a < b
      PROVE  a * n + n <= b * n
  <2> DEFINE d == (b - a) - 1
  <2>1. d \in Nat /\ b = (a + d) + 1
    BY <1>3
  <2> HIDE DEF d
  <2>2. d * n \in Nat /\ a * n \in Int
    BY <2>1
  <2>3. (a + d) * n = a * n + d * n
    BY <2>1
  <2>4. b * n = (a + d) * n + n
    BY <2>1
  <2>5. QED
    BY <2>2, <2>3, <2>4
<1>4. n * p = p * n /\ p * n \in Int
  BY <1>2
<1>5. ~(p < q)
  <2> HIDE DEF u
  <2>1. SUFFICES ASSUME p < q PROVE FALSE
    OBVIOUS
  <2>2. p * n + n <= u
    BY <1>2, <1>3, <2>1 DEF u
  <2>3. QED
    BY <1>1, <1>2, <1>4, <2>2
<1>6. ~(q < p)
  <2>1. SUFFICES ASSUME q < p PROVE FALSE
    OBVIOUS
  <2>2. u + n <= p * n
    BY <1>2, <1>3, <2>1
  <2> HIDE DEF u
  <2>3. QED
    BY <1>1, <1>2, <1>4, <2>2
<1>7. p = q
  BY <1>2, <1>5, <1>6
<1>8. s = r
  <2>1. n * p = u
    BY <1>4, <1>7
  <2> HIDE DEF u
  <2>2. QED
    BY <1>1, <1>2, <2>1
<1>9. QED
  BY <1>7, <1>8 DEF p, s

LEMMA TurnsFacts ==
  ASSUME NEW k \in Nat, NEW n \in Nat \ {0}, NEW j \in 1 .. n
  PROVE  /\ Turns(k, n, j) \in Nat
         /\ k % n \in 0 .. (n - 1)
         /\ Turns(0, n, j) = 0
         /\ Turns(k + 1, n, j) = Turns(k, n, j) + (IF j = (k % n) + 1 THEN 1 ELSE 0)
         /\ \A i \in 1 .. n : Turns(k, n, i) <= Turns(k, n, j) + 1
<1> DEFINE q == k \div n
           r == k % n
<1>1. q \in Nat /\ r \in 0 .. (n - 1) /\ k = n * q + r
  <2>1. q \in Int /\ r \in 0 .. (n - 1) /\ k = n * q + r
    OBVIOUS
  <2>2. q >= 0
    OBVIOUS
  <2>3. QED
    BY <2>1, <2>2
<1> HIDE DEF q, r
<1>2. Turns(0, n, j) = 0
  <2>1. 0 \div n = 0 /\ 0 % n = 0
    <3>1. 0 \in 0 .. (n - 1) /\ 0 = 0 * n + 0
      OBVIOUS
    <3>2. QED
      BY <3>1, DivisionIs
  <2>2. QED
    BY <2>1 DEF Turns
<1>3. \A i \in 1 .. n : Turns(k, n, i) = q + (IF i <= r THEN 1 ELSE 0)
  BY DEF Turns, q, r
<1>4. CASE r + 1 \in 0 .. (n - 1)
  <2>1. k + 1 = q * n + (r + 1)
    <3>1. n * q = q * n /\ q * n \in Int
      BY <1>1
    <3>2. QED
      BY <1>1, <3>1
  <2>2. (k + 1) \div n = q /\ (k + 1) % n = r + 1
    <3> DEFINE m == k + 1
               t == r + 1
    <3>1. m = q * n + t /\ t \in 0 .. (n - 1)
      BY <1>4, <2>1
    <3> HIDE DEF m, t
    <3>2. m \div n = q /\ m % n = t
      BY <1>1, <3>1, DivisionIs
    <3>3. QED
      BY <3>2 DEF m, t
  <2>3. Turns(k + 1, n, j) = q + (IF j <= r + 1 THEN 1 ELSE 0)
    BY <2>2 DEF Turns
  <2>4. QED
    BY <1>1, <1>2, <1>3, <2>3 DEF r
<1>5. CASE r + 1 = n
  <2>1. k + 1 = (q + 1) * n + 0
    <3>1. n * q = q * n /\ q * n \in Int /\ (q + 1) * n = q * n + n
      BY <1>1
    <3>2. QED
      BY <1>1, <1>5, <3>1
  <2>2. (k + 1) \div n = q + 1 /\ (k + 1) % n = 0
    <3> DEFINE m == k + 1
               t == q + 1
    <3>1. m = t * n + 0 /\ 0 \in 0 .. (n - 1) /\ t \in Nat
      BY <1>1, <2>1
    <3> HIDE DEF m, t
    <3>2. m \div n = t /\ m % n = 0
      BY <3>1, DivisionIs
    <3>3. QED
      BY <3>2 DEF m, t
  <2>3. Turns(k + 1, n, j) = q + 1
    BY <1>1, <2>2 DEF Turns
  <2>4. QED
    BY <1>1, <1>2, <1>3, <1>5, <2>3 DEF r
<1>6. QED
  BY <1>1, <1>4, <1>5

=============================================================================
