--------------------------- MODULE ReceiverProofs ---------------------------
(***************************************************************************)
(* Proofs about Receiver, for any error texts, any limit on equal failures  *)
(* and any number of events.  A receiver keeps two variables of its past,   *)
(* a text and a count; the invariant says what they mean: the count is the  *)
(* length of the longest run of equal failures at the end of `recent`.      *)
(***************************************************************************)
EXTENDS Receiver, TLAPS

----------------------------------------------------------------------------
(* Failures, counted from the newest.                                       *)

Nth(s, j) == s[Len(s) - j]

\* `recent` after a failure, as in Fails.
Pushed(s, err) == (IF Len(s) = MaxSame THEN Tail(s) ELSE s) \o <<err>>

\* The new failure is the newest, and every other moves back by one.
LEMMA PushedFacts ==
  ASSUME NEW s \in Seq(Error), Len(s) <= MaxSame, NEW err \in Error
  PROVE  /\ Pushed(s, err) \in Seq(Error)
         /\ Len(Pushed(s, err)) \in 1..MaxSame
         /\ Len(Pushed(s, err)) \in {Len(s), Len(s) + 1}
         /\ Len(Pushed(s, err)) = Len(s) => Len(s) = MaxSame
         /\ Nth(Pushed(s, err), 0) = err
         /\ \A j \in 1..(Len(Pushed(s, err)) - 1) :
              Nth(Pushed(s, err), j) = Nth(s, j - 1)
<1> DEFINE b == IF Len(s) = MaxSame THEN Tail(s) ELSE s
           d == IF Len(s) = MaxSame THEN 1 ELSE 0
           t == b \o <<err>>
<1>0. MaxSame \in Nat \ {0}
  BY MaxSameAssumption
<1>1. /\ b \in Seq(Error) /\ Len(b) = Len(s) - d
      /\ \A i \in 1..Len(b) : b[i] = s[i + d]
  <2>1. CASE Len(s) = MaxSame
    <3>1. s # <<>>
      BY <1>0, <2>1
    <3>2. QED
      BY <2>1, <3>1
  <2>2. CASE Len(s) # MaxSame
    BY <2>2
  <2>3. QED
    BY <2>1, <2>2
<1>2. t \in Seq(Error) /\ Len(t) = Len(b) + 1 /\ t[Len(b) + 1] = err
      /\ \A i \in 1..Len(b) : t[i] = b[i]
  <2> HIDE DEF b, d
  <2>1. QED
    BY <1>1
<1>3. Pushed(s, err) = t
  BY DEF Pushed
<1> HIDE DEF b, t
<1>4. \A j \in 1..(Len(t) - 1) : Nth(t, j) = Nth(s, j - 1)
  <2>1. TAKE j \in 1..(Len(t) - 1)
  <2>2. Len(t) - j \in 1..Len(b) /\ Len(t) - j + d = Len(s) - (j - 1)
    BY <1>1, <1>2
  <2>3. QED
    BY <1>1, <1>2, <2>2 DEF Nth
<1>5. Len(t) \in 1..MaxSame /\ Len(t) \in {Len(s), Len(s) + 1} /\ Nth(t, 0) = err
  BY <1>0, <1>1, <1>2 DEF Nth
<1>6. Len(t) = Len(s) => Len(s) = MaxSame
  BY <1>1, <1>2
<1>7. QED
  BY <1>2, <1>3, <1>4, <1>5, <1>6

----------------------------------------------------------------------------
(* The invariant.                                                           *)

\* The count is the length of the run of equal failures at the end of `recent`,
\* whose text is the one remembered.
RunCounted ==
  /\ same_error_count \in 0..Len(recent)
  /\ recent # <<>> => same_error_count > 0
  /\ \A j \in 0..(same_error_count - 1) : Nth(recent, j) = last_error_text
  /\ same_error_count < Len(recent) => Nth(recent, same_error_count) # last_error_text

\* The receiver goes on below the limit, and finishes at it or when told to.
AtTheLimit ==
  /\ pc # "finished" => same_error_count < MaxSame
  /\ pc = "finished" => same_error_count = MaxSame \/ shutdown

IInv == TypeOK /\ RunCounted /\ AtTheLimit

LEMMA InitIInv == Init => IInv
<1> SUFFICES ASSUME Init PROVE IInv
  OBVIOUS
<1>1. TypeOK
  <2>1. recent \in Seq(Error) /\ Len(recent) = 0
    BY DEF Init
  <2>2. MaxSame \in Nat /\ MaxSame > 0
    BY MaxSameAssumption
  <2>3. 0 \in 0..MaxSame /\ Len(recent) <= MaxSame
    BY <2>1, <2>2
  <2>4. last_error_text \in Error \cup {None}
    BY DEF Init
  <2>5. QED
    BY <2>1, <2>3, <2>4 DEF Init, TypeOK
<1>2. RunCounted
  BY DEF Init, RunCounted
<1>3. AtTheLimit
  BY MaxSameAssumption DEF Init, AtTheLimit
<1>4. QED
  BY <1>1, <1>2, <1>3 DEF IInv

\* A failure: the text is compared with the one before, and the limit decides.
LEMMA FailsIInv ==
  ASSUME IInv, pc # "finished", NEW err \in Error,
         NEW retry \in {"pause", "outer"}, Fails(err, retry),
         UNCHANGED shutdown, events' \in Nat, decode_errors' \in Nat,
         disconnects' \in Nat, ends' \in Nat
  PROVE  IInv'
<1> DEFINE n == same_error_count
           t == Pushed(recent, err)
<1>1. /\ recent \in Seq(Error) /\ Len(recent) <= MaxSame /\ Len(recent) \in Nat
      /\ n \in 0..Len(recent) /\ n < MaxSame /\ MaxSame \in Nat \ {0}
  BY MaxSameAssumption DEF IInv, TypeOK, RunCounted, AtTheLimit
<1>2. /\ t \in Seq(Error) /\ Len(t) \in 1..MaxSame /\ Len(t) \in {Len(recent), Len(recent) + 1}
      /\ Len(t) = Len(recent) => Len(recent) = MaxSame
      /\ Nth(t, 0) = err
      /\ \A j \in 1..(Len(t) - 1) : Nth(t, j) = Nth(recent, j - 1)
  BY <1>1, PushedFacts
<1>3. /\ recent' = t /\ last_error_text' = err /\ same_error_count' = CountAfter(err)
      /\ pc' = IF CountAfter(err) >= MaxSame THEN "finished" ELSE retry
  BY DEF Fails, Pushed
<1> HIDE DEF t
<1>4. CountAfter(err) \in 1..Len(t) /\ CountAfter(err) \in 1..MaxSame
  BY <1>1, <1>2 DEF CountAfter
<1>5. TypeOK'
  BY <1>2, <1>3, <1>4 DEF IInv, TypeOK
<1>6. RunCounted'
  <2>1. CASE err = last_error_text
    <3>1. same_error_count' = n + 1
      BY <1>3, <2>1 DEF CountAfter
    <3>2. ASSUME NEW j \in 0..n
          PROVE  Nth(t, j) = err
      <4>1. CASE j = 0
        BY <1>2, <4>1
      <4>2. CASE j # 0
        <5>1. j \in 1..(Len(t) - 1) /\ j - 1 \in 0..(n - 1)
          BY <1>1, <1>2, <1>3, <1>4, <3>1, <3>2, <4>2
        <5>2. Nth(recent, j - 1) = last_error_text
          BY <5>1 DEF IInv, RunCounted
        <5>3. QED
          BY <1>2, <2>1, <5>1, <5>2
      <4>3. QED
        BY <4>1, <4>2
    <3>3. n + 1 < Len(t) => Nth(t, n + 1) # err
      <4>1. SUFFICES ASSUME n + 1 < Len(t) PROVE Nth(t, n + 1) # err
        OBVIOUS
      <4>2. n + 1 \in 1..(Len(t) - 1) /\ n < Len(recent) /\ (n + 1) - 1 = n
        BY <1>1, <1>2, <4>1
      <4>3. Nth(recent, n) # last_error_text
        BY <4>2 DEF IInv, RunCounted
      <4>4. QED
        BY <1>2, <2>1, <4>2, <4>3
    <3>4. \A j \in 0..((n + 1) - 1) : Nth(t, j) = err
      BY <1>1, <3>2
    <3>5. QED
      BY <1>1, <1>3, <1>4, <3>1, <3>3, <3>4 DEF RunCounted, Nth
  <2>2. CASE err # last_error_text
    <3>1. same_error_count' = 1
      BY <1>3, <2>2 DEF CountAfter
    <3>2. 1 < Len(t) => Nth(t, 1) # err
      <4>1. SUFFICES ASSUME 1 < Len(t) PROVE Nth(t, 1) # err
        OBVIOUS
      <4>2. 1 \in 1..(Len(t) - 1) /\ 1 - 1 = 0 /\ recent # <<>>
        BY <1>1, <1>2, <4>1
      <4>3. 0 \in 0..(n - 1)
        BY <1>1, <4>2 DEF IInv, RunCounted
      <4>4. Nth(recent, 0) = last_error_text
        BY <4>3 DEF IInv, RunCounted
      <4>5. QED
        BY <1>2, <2>2, <4>2, <4>4
    <3>3. \A j \in 0..(1 - 1) : Nth(t, j) = err
      BY <1>2
    <3>4. QED
      BY <1>2, <1>3, <3>1, <3>2, <3>3 DEF RunCounted, Nth
  <2>3. QED
    BY <2>1, <2>2
<1>7. AtTheLimit'
  BY <1>1, <1>3, <1>4 DEF AtTheLimit
<1>8. QED
  BY <1>5, <1>6, <1>7 DEF IInv

\* A step that is no failure and no event, and finishes only when told to.
LEMMA QuietIInv ==
  ASSUME IInv, NoFailure, UNCHANGED shutdown, pc # "finished",
         pc' \in {"outer", "connect", "subscribe", "pause", "inner", "poll", "finished"},
         pc' = "finished" => shutdown,
         events' \in Nat, decode_errors' \in Nat, disconnects' \in Nat, ends' \in Nat
  PROVE  IInv'
<1>1. TypeOK'
  BY DEF IInv, TypeOK, NoFailure
<1>2. RunCounted'
  BY DEF IInv, RunCounted, NoFailure, Nth
<1>3. AtTheLimit'
  BY DEF IInv, AtTheLimit, NoFailure
<1>4. QED
  BY <1>1, <1>2, <1>3 DEF IInv

LEMMA NextIInv == IInv /\ [Next]_vars => IInv'
<1> SUFFICES ASSUME IInv, [Next]_vars PROVE IInv'
  OBVIOUS
<1> USE DEF stats
<1>0. events \in Nat /\ decode_errors \in Nat /\ disconnects \in Nat /\ ends \in Nat
  BY DEF IInv, TypeOK
<1>1. CASE Outer
  BY <1>0, <1>1, QuietIInv DEF Outer, Goes
<1>2. CASE Connected \/ Subscribed \/ PauseEnds
  BY <1>0, <1>2, QuietIInv DEF Connected, Subscribed, PauseEnds, Goes
<1>3. CASE Inner
  BY <1>0, <1>3, QuietIInv DEF Inner, Goes
<1>4. CASE NothingToSend \/ DecodeFails \/ StreamEnds
  BY <1>0, <1>4, QuietIInv DEF NothingToSend, DecodeFails, StreamEnds, Goes
<1>5. CASE EventDecoded
  <2>1. TypeOK'
    BY <1>0, <1>5, MaxSameAssumption DEF IInv, TypeOK, EventDecoded, Goes
  <2>2. RunCounted'
    BY <1>5 DEF EventDecoded, RunCounted
  <2>3. AtTheLimit'
    BY <1>5, MaxSameAssumption DEF EventDecoded, Goes, AtTheLimit
  <2>4. QED
    BY <2>1, <2>2, <2>3 DEF IInv
<1>6. ASSUME NEW err \in Error, ConnectFails(err) \/ SubscribeFails(err)
      PROVE  IInv'
  BY <1>0, <1>6, FailsIInv DEF ConnectFails, SubscribeFails
<1>7. ASSUME NEW err \in Error, StreamFails(err)
      PROVE  IInv'
  BY <1>0, <1>7, FailsIInv DEF StreamFails
<1>8. CASE Shutdown
  BY <1>8 DEF IInv, TypeOK, RunCounted, AtTheLimit, Nth, Shutdown
<1>9. CASE UNCHANGED vars
  BY <1>9 DEF IInv, TypeOK, RunCounted, AtTheLimit, Nth, vars
<1>10. QED
  BY <1>1, <1>2, <1>3, <1>4, <1>5, <1>6, <1>7, <1>8, <1>9 DEF Next, Step

\* The invariant says what was to be shown: a full `recent` of one text is a
\* run as long as the limit.
LEMMA IInvExact == IInv => GivesUpExactly
<1> SUFFICES ASSUME IInv PROVE GivesUpExactly
  OBVIOUS
<1> DEFINE n == same_error_count
<1>1. /\ Len(recent) \in Nat /\ Len(recent) <= MaxSame /\ MaxSame \in Nat \ {0}
      /\ n \in 0..Len(recent)
  BY MaxSameAssumption DEF IInv, TypeOK, RunCounted
<1>2. ASSUME SameErrorRepeated
      PROVE  pc = "finished"
  <2>1. recent # <<>> /\ n > 0
    BY <1>1, <1>2 DEF SameErrorRepeated, IInv, RunCounted
  <2>2. Nth(recent, 0) = last_error_text
    BY <1>1, <2>1 DEF IInv, RunCounted
  <2>3. recent[Len(recent)] = last_error_text
    BY <1>1, <2>2 DEF Nth
  <2>4. ASSUME n < Len(recent)
        PROVE  FALSE
    <3>1. recent[Len(recent) - n] # last_error_text
      BY <2>4 DEF IInv, RunCounted, Nth
    <3>2. Len(recent) - n \in 1..MaxSame /\ Len(recent) \in 1..MaxSame
      BY <1>1, <2>1, <2>4
    <3>3. QED
      BY <1>2, <2>3, <3>1, <3>2 DEF SameErrorRepeated
  <2>5. n = MaxSame
    BY <1>1, <1>2, <2>4 DEF SameErrorRepeated
  <2>6. QED
    BY <1>1, <2>5 DEF IInv, AtTheLimit
<1>3. ASSUME pc = "finished", ~shutdown
      PROVE  SameErrorRepeated
  <2>1. n = MaxSame /\ Len(recent) = MaxSame
    BY <1>1, <1>3 DEF IInv, AtTheLimit
  <2>2. ASSUME NEW i \in 1..MaxSame
        PROVE  recent[i] = last_error_text
    <3>1. MaxSame - i \in 0..(n - 1) /\ Len(recent) - (MaxSame - i) = i
      BY <1>1, <2>1
    <3>2. Nth(recent, MaxSame - i) = last_error_text
      BY <3>1 DEF IInv, RunCounted
    <3>3. QED
      BY <3>1, <3>2 DEF Nth
  <2>3. 1 \in 1..MaxSame
    BY <1>1
  <2>4. QED
    BY <2>1, <2>2, <2>3 DEF SameErrorRepeated
<1>4. QED
  BY <1>2, <1>3 DEF GivesUpExactly

----------------------------------------------------------------------------
(* Theorems.                                                                *)

\* Types of a receiver, and the bound of its error count (run.rs:1145), for
\* every number of failures and events.
THEOREM ReceiverTypes == Spec => []TypeOK
<1>1. IInv => TypeOK
  BY DEF IInv
<1>2. QED
  BY InitIInv, NextIInv, <1>1, PTL DEF Spec

\* A receiver gives up exactly after as many equal failures in a row as the
\* limit says (run.rs:1157-1171), for every limit.
THEOREM GivesUp == Spec => []GivesUpExactly
<1>1. QED
  BY InitIInv, NextIInv, IInvExact, PTL DEF Spec

\* A receiver is the thread module Pipeline assumes: each of its steps is a step
\* of ReceiverLife or changes nothing there.
THEOREM IsLife == Spec => ImplementsLife
<1> USE DEF Life!Goes, stats
<1>1. Init => Life!Init
  BY DEF Init, Life!Init
<1>2. ASSUME [Next]_vars
      PROVE  [Life!Next]_(Life!vars)
  <2>1. CASE Outer
    BY <2>1 DEF Outer, Goes, NoFailure, Life!Next, Life!Outer
  <2>2. CASE Inner
    BY <2>2 DEF Inner, Goes, Life!Next, Life!Inner
  <2>3. CASE Subscribed
    BY <2>3 DEF Subscribed, Goes, Life!Next, Life!Connect
  <2>4. CASE Connected \/ PauseEnds
    BY <2>4 DEF Connected, PauseEnds, Goes, Life!vars
  <2>5. ASSUME NEW err \in Error, ConnectFails(err) \/ SubscribeFails(err)
        PROVE  Life!Connect
    BY <2>5 DEF ConnectFails, SubscribeFails, Fails, Life!Connect
  <2>6. CASE NothingToSend \/ EventDecoded \/ DecodeFails \/ StreamEnds
    BY <2>6 DEF NothingToSend, EventDecoded, DecodeFails, StreamEnds, Goes, Life!Next, Life!Poll
  <2>7. ASSUME NEW err \in Error, StreamFails(err)
        PROVE  Life!Poll
    BY <2>7 DEF StreamFails, Fails, Life!Poll
  <2>8. CASE Shutdown
    BY <2>8 DEF Shutdown, Life!Next, Life!Shutdown
  <2>9. CASE UNCHANGED vars
    BY <2>9 DEF vars, Life!vars
  <2>10. QED
    BY <1>2, <2>1, <2>2, <2>3, <2>4, <2>5, <2>6, <2>7, <2>8, <2>9 DEF Next, Step, Life!Next
<1>3. QED
  BY <1>1, <1>2, PTL DEF Spec, ImplementsLife, Life!Spec

=============================================================================
