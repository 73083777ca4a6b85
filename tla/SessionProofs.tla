--------------------------- MODULE SessionProofs ----------------------------
(***************************************************************************)
(* Proofs about Session, for any updates, any number of them, any size of   *)
(* the raw writer's buffer and any number of pings.                         *)
(*                                                                          *)
(* Five arguments. Raw records without a hole: as long as no error is       *)
(* latched, the file and the buffer are the records, and after an error     *)
(* nothing is added to either. Pings: once the flag is raised no new ping   *)
(* starts, so that at most one sample comes after the sum was read.         *)
(*                                                                          *)
(* The other three are about what the dispatchers were given, and rest on   *)
(* how a longer sequence of events is selected from and counted             *)
(* (DispatchInv, then one layer each). Slots: the counter of a dispatcher is*)
(* at the highest slot it counted, so that a slot counts once (SlotInv). A  *)
(* complete file: each dispatcher has handed over the records of the updates*)
(* it took, in order, and counted one less while it is at one (WrittenInv,  *)
(* CountedInv, FileInv). Pairing: a matcher holds, of each thing, first     *)
(* arrivals at each endpoint whose number is that of the events of the      *)
(* endpoint that carry it (PairInv).                                        *)
(***************************************************************************)
EXTENDS Session, DataLemmas

----------------------------------------------------------------------------
(* The raw writer.                                                          *)

\* What is in the file or on the way to it.
Through(w) == w.disk \o w.buffer

WriterType(S) ==
  [disk : Seq(S), buffer : Seq(S), poisoned : BOOLEAN, warning : BOOLEAN, bytes_written : Nat]

\* A writer that was handed `recs`, records of the set S.
Holds(w, recs, S) ==
  /\ w \in WriterType(S) /\ recs \in Seq(S)
  /\ IsPrefix(Through(w), recs)
  /\ ~w.poisoned => Through(w) = recs
  /\ w.bytes_written <= Len(Through(w))

LEMMA PrefixOfItself ==
  ASSUME NEW S, NEW s \in Seq(S)
  PROVE  IsPrefix(s, s)
BY LenProperties DEF IsPrefix

LEMMA PrefixOfLonger ==
  ASSUME NEW S, NEW s \in Seq(S), NEW t \in Seq(S), NEW x \in S, IsPrefix(s, t)
  PROVE  IsPrefix(s, Append(t, x))
<1>1. Len(s) \in Nat /\ Len(t) \in Nat /\ Len(s) <= Len(t)
  BY LenProperties DEF IsPrefix
<1>2. Len(Append(t, x)) = Len(t) + 1 /\ Append(t, x) = t \o <<x>>
  BY AppendProperties, AppendIsConcat
<1>3. SubSeq(t \o <<x>>, 1, Len(s)) = SubSeq(t, 1, Len(s))
  <2>1. CASE Len(s) = 0
    BY <2>1, SubSeqEmpty
  <2>2. CASE Len(s) # 0
    <3>1. 1 \in 1..Len(t) /\ Len(s) \in 1..Len(t) /\ <<x>> \in Seq(S)
      BY <1>1, <2>2
    <3>2. QED
      BY <3>1, SubSeqOfConcat1
  <2>3. QED
    BY <2>1, <2>2
<1>4. QED
  BY <1>1, <1>2, <1>3 DEF IsPrefix

\* Spilling moves records from the buffer to the file and loses none.
LEMMA SpillKeeps ==
  ASSUME NEW S, NEW w \in WriterType(S), NEW n \in 0..Len(w.buffer)
  PROVE  /\ SpilledBy(w, n) \in WriterType(S)
         /\ Through(SpilledBy(w, n)) = Through(w)
         /\ SpilledBy(w, n).poisoned = w.poisoned
         /\ SpilledBy(w, n).bytes_written = w.bytes_written
<1> DEFINE head == SubSeq(w.buffer, 1, n)
           rest == SubSeq(w.buffer, n + 1, Len(w.buffer))
<1>1. /\ w.disk \in Seq(S) /\ w.buffer \in Seq(S) /\ Len(w.buffer) \in Nat
      /\ \A i \in 1..Len(w.buffer) : w.buffer[i] \in S
  BY ElementOfSeq, LenProperties DEF WriterType
<1>2. head \in Seq(S) /\ rest \in Seq(S)
  <2>1. /\ 1 \in Int /\ n \in Int /\ n + 1 \in Int /\ Len(w.buffer) \in Int
        /\ \A i \in 1..n : i \in 1..Len(w.buffer)
        /\ \A i \in (n + 1)..Len(w.buffer) : i \in 1..Len(w.buffer)
    BY <1>1
  <2>2. QED
    BY <1>1, <2>1, SubSeqProperties
<1>3. head \o rest = w.buffer
  <2>1. /\ 1 \in 1..(Len(w.buffer) + 1) /\ n \in (1 - 1)..Len(w.buffer)
        /\ Len(w.buffer) \in n..Len(w.buffer)
    BY <1>1
  <2>2. head \o rest = SubSeq(w.buffer, 1, Len(w.buffer))
    BY <1>1, <2>1, ConcatAdjacentSubSeq
  <2>3. QED
    BY <1>1, <2>2, SubSeqFull
<1>4. SpilledBy(w, n).disk = w.disk \o head /\ SpilledBy(w, n).buffer = rest
  BY DEF SpilledBy, WriterType
<1>5. (w.disk \o head) \o rest = w.disk \o (head \o rest)
  <2> DEFINE disk == w.disk
  <2>1. disk \in Seq(S)
    BY <1>1
  <2> HIDE DEF head, rest, disk
  <2>2. (disk \o head) \o rest = disk \o (head \o rest)
    BY <1>2, <2>1, ConcatAssociative
  <2>3. QED
    BY <2>2 DEF disk
<1>6. w.disk \o head \in Seq(S)
  <2> HIDE DEF head
  <2>1. QED
    BY <1>1, <1>2, ConcatProperties
<1>7. SpilledBy(w, n) \in WriterType(S)
  BY <1>2, <1>6 DEF SpilledBy, WriterType
<1> HIDE DEF head, rest
<1>8. Through(SpilledBy(w, n)) = Through(w)
  BY <1>3, <1>4, <1>5 DEF Through
<1>9. QED
  BY <1>7, <1>8 DEF SpilledBy, WriterType

LEMMA FailedKeeps ==
  ASSUME NEW S, NEW w \in WriterType(S), NEW v \in Failed(w)
  PROVE  /\ v \in WriterType(S) /\ Through(v) = Through(w)
         /\ v.poisoned /\ v.bytes_written = w.bytes_written
<1>1. PICK n \in 0..(Len(w.buffer) - 1) :
        v = [SpilledBy(w, n) EXCEPT !.poisoned = TRUE, !.warning = TRUE]
  BY DEF Failed
<1>2. n \in 0..Len(w.buffer)
  BY LenProperties DEF WriterType
<1> DEFINE u == SpilledBy(w, n)
<1>3. u \in WriterType(S) /\ Through(u) = Through(w) /\ u.bytes_written = w.bytes_written
  BY <1>2, SpillKeeps
<1> HIDE DEF u
<1>4. /\ v \in WriterType(S) /\ v.disk = u.disk /\ v.buffer = u.buffer
      /\ v.poisoned /\ v.bytes_written = u.bytes_written
  BY <1>1, <1>3 DEF WriterType, u
<1>5. QED
  BY <1>3, <1>4 DEF Through

LEMMA BufferedKeeps ==
  ASSUME NEW S, NEW w \in WriterType(S), NEW r \in S
  PROVE  /\ Buffered(w, r) \in WriterType(S)
         /\ Through(Buffered(w, r)) = Append(Through(w), r)
         /\ Len(Through(Buffered(w, r))) = Len(Through(w)) + 1
         /\ Buffered(w, r).poisoned = w.poisoned
         /\ Buffered(w, r).bytes_written = w.bytes_written
<1>1. w.disk \in Seq(S) /\ w.buffer \in Seq(S) /\ <<r>> \in Seq(S)
  BY DEF WriterType
<1>2. Append(w.buffer, r) \in Seq(S) /\ Append(w.buffer, r) = w.buffer \o <<r>>
  BY <1>1, AppendProperties, AppendIsConcat
<1>3. Through(w) \in Seq(S)
  BY <1>1, ConcatProperties DEF Through
<1>4. /\ Append(Through(w), r) = Through(w) \o <<r>>
      /\ Len(Append(Through(w), r)) = Len(Through(w)) + 1
  BY <1>3, AppendProperties, AppendIsConcat
<1>5. w.disk \o (w.buffer \o <<r>>) = (w.disk \o w.buffer) \o <<r>>
  <2> DEFINE disk == w.disk
             buffer == w.buffer
             one == <<r>>
  <2>1. disk \in Seq(S) /\ buffer \in Seq(S) /\ one \in Seq(S)
    BY <1>1
  <2> HIDE DEF disk, buffer, one
  <2>2. disk \o (buffer \o one) = (disk \o buffer) \o one
    BY <2>1, ConcatAssociative
  <2>3. QED
    BY <2>2 DEF disk, buffer, one
<1>6. /\ Buffered(w, r).disk = w.disk /\ Buffered(w, r).buffer = Append(w.buffer, r)
      /\ Buffered(w, r) \in WriterType(S)
  BY <1>2 DEF Buffered, WriterType
<1>7. Through(Buffered(w, r)) = Append(Through(w), r)
  BY <1>2, <1>4, <1>5, <1>6 DEF Through
<1>8. QED
  BY <1>4, <1>6, <1>7 DEF Buffered, WriterType

LEMMA WriteHolds ==
  ASSUME NEW S, NEW w, NEW recs, Holds(w, recs, S), NEW r \in S, NEW v \in Write(w, r)
  PROVE  Holds(v, Append(recs, r), S)
<1> DEFINE more == Append(recs, r)
<1>1. w \in WriterType(S) /\ recs \in Seq(S) /\ Through(w) \in Seq(S) /\ Len(Through(w)) \in Nat
  BY ConcatProperties, LenProperties DEF Holds, WriterType, Through
<1>2. more \in Seq(S)
  BY <1>1, AppendProperties
<1>3. IsPrefix(Through(w), more)
  BY <1>1, PrefixOfLonger DEF Holds
<1>4. CASE w.poisoned
  <2>1. v = w
    BY <1>4 DEF Write
  <2>2. QED
    BY <1>2, <1>3, <1>4, <2>1 DEF Holds
<1>5. CASE ~w.poisoned
  <2>1. Through(w) = recs
    BY <1>5 DEF Holds
  <2>2. ASSUME NEW u \in WriterType(S), Through(u) = Through(w),
               u.bytes_written = w.bytes_written, v = Counted(Buffered(u, r))
        PROVE  Holds(v, more, S)
    <3> DEFINE b == Buffered(u, r)
    <3>1. /\ b \in WriterType(S) /\ Through(b) = more /\ b.bytes_written = w.bytes_written
          /\ Len(Through(b)) = Len(Through(w)) + 1
      BY <2>1, <2>2, BufferedKeeps
    <3> HIDE DEF b
    <3>2. /\ v \in WriterType(S) /\ v.disk = b.disk /\ v.buffer = b.buffer
          /\ v.bytes_written = b.bytes_written + 1
      <4>1. v = [b EXCEPT !.bytes_written = b.bytes_written + 1]
        BY <2>2 DEF b, Counted
      <4>2. /\ b.disk \in Seq(S) /\ b.buffer \in Seq(S) /\ b.bytes_written + 1 \in Nat
            /\ b.poisoned \in BOOLEAN /\ b.warning \in BOOLEAN
            /\ b = [disk |-> b.disk, buffer |-> b.buffer, poisoned |-> b.poisoned,
                    warning |-> b.warning, bytes_written |-> b.bytes_written]
        BY <3>1 DEF WriterType
      <4>3. QED
        BY <3>1, <4>1, <4>2 DEF WriterType
    <3>3. Through(v) = more /\ v.bytes_written <= Len(Through(v))
      <4>1. Through(v) = Through(b)
        BY <3>2 DEF Through
      <4>2. w.bytes_written \in Nat /\ w.bytes_written <= Len(Through(w))
        BY <1>1 DEF Holds, WriterType
      <4>3. QED
        BY <1>1, <3>1, <3>2, <4>1, <4>2
    <3>4. QED
      BY <1>2, <3>2, <3>3, PrefixOfItself DEF Holds
  <2>3. ASSUME v \in Failed(w)
        PROVE  Holds(v, more, S)
    BY <1>1, <1>2, <1>3, <2>3, FailedKeeps DEF Holds
  <2>4. ASSUME v \in Failed(Buffered(w, r))
        PROVE  Holds(v, more, S)
    <3> DEFINE b == Buffered(w, r)
    <3>1. /\ b \in WriterType(S) /\ Through(b) = more /\ b.bytes_written = w.bytes_written
          /\ Len(Through(b)) = Len(Through(w)) + 1
      BY <1>1, <2>1, BufferedKeeps
    <3>2. w.bytes_written \in Nat /\ w.bytes_written <= Len(Through(w))
      BY <1>1 DEF Holds, WriterType
    <3> HIDE DEF b
    <3>3. v \in WriterType(S) /\ Through(v) = more /\ v.poisoned /\ v.bytes_written = w.bytes_written
      BY <2>4, <3>1, FailedKeeps DEF b
    <3>4. v.bytes_written <= Len(Through(v))
      BY <1>1, <3>1, <3>2, <3>3
    <3>5. QED
      BY <1>2, <3>3, <3>4, PrefixOfItself DEF Holds
  <2>5. CASE Len(w.buffer) < BufferRecords
    BY <1>1, <1>5, <2>2, <2>5 DEF Write
  <2>6. CASE ~(Len(w.buffer) < BufferRecords)
    <3>1. Len(w.buffer) \in 0..Len(w.buffer)
      BY <1>1, LenProperties DEF WriterType
    <3>2. /\ SpilledBy(w, Len(w.buffer)) \in WriterType(S)
          /\ Through(SpilledBy(w, Len(w.buffer))) = Through(w)
          /\ SpilledBy(w, Len(w.buffer)).bytes_written = w.bytes_written
      BY <1>1, <3>1, SpillKeeps
    <3>3. \/ v = Counted(Buffered(SpilledBy(w, Len(w.buffer)), r))
          \/ v \in Failed(w) \/ v \in Failed(Buffered(w, r))
      BY <1>5, <2>6 DEF Write
    <3>4. QED
      BY <2>2, <2>3, <2>4, <3>2, <3>3
  <2>7. QED
    BY <2>5, <2>6
<1>6. QED
  BY <1>4, <1>5

\* What neither adds nor loses a record: a spill, whole or in part.
LEMMA SpillHolds ==
  ASSUME NEW S, NEW w, NEW recs, Holds(w, recs, S), NEW n \in 0..Len(w.buffer)
  PROVE  Holds(SpilledBy(w, n), recs, S)
<1>1. w \in WriterType(S)
  BY DEF Holds
<1>2. QED
  BY <1>1, SpillKeeps DEF Holds

LEMMA FlushHolds ==
  ASSUME NEW S, NEW w, NEW recs, Holds(w, recs, S), NEW v \in Flush(w)
  PROVE  Holds(WarningTaken(v), recs, S)
<1>1. w \in WriterType(S) /\ Len(w.buffer) \in 0..Len(w.buffer)
  BY LenProperties DEF Holds, WriterType
<1>2. Holds(v, recs, S)
  <2>1. ASSUME v \in Failed(w)
        PROVE  Holds(v, recs, S)
    BY <1>1, <2>1, FailedKeeps DEF Holds
  <2>2. QED
    BY <1>1, <2>1, SpillHolds DEF Flush
<1>3. /\ WarningTaken(v) \in WriterType(S)
      /\ WarningTaken(v).disk = v.disk /\ WarningTaken(v).buffer = v.buffer
      /\ WarningTaken(v).poisoned = v.poisoned
      /\ WarningTaken(v).bytes_written = v.bytes_written
  BY <1>2 DEF WarningTaken, Holds, WriterType
<1>4. QED
  BY <1>2, <1>3 DEF Holds, Through

LEMMA DroppedHolds ==
  ASSUME NEW S, NEW w, NEW recs, Holds(w, recs, S), NEW v \in Dropped(w)
  PROVE  Holds(v, recs, S)
BY SpillHolds DEF Dropped

\* A larger set of records will do.
LEMMA HoldsMore ==
  ASSUME NEW S, NEW T, S \subseteq T, NEW w, NEW recs, Holds(w, recs, S)
  PROVE  Holds(w, recs, T)
<1>1. \A s \in Seq(S) : s \in Seq(T)
  BY SeqMonotonic
<1>2. w \in WriterType(T) /\ recs \in Seq(T)
  BY <1>1 DEF Holds, WriterType
<1>3. QED
  BY <1>2 DEF Holds

----------------------------------------------------------------------------
(* The raw records of a session.                                            *)

RawInv == \E S : Holds(raw, records, S)

LEMMA InitRawInv == Init => RawInv
<1> SUFFICES ASSUME Init PROVE RawInv
  OBVIOUS
<1>1. <<>> \in Seq({}) /\ Len(<<>>) = 0
  BY EmptySeq
<1>2. <<>> \o <<>> = <<>>
  OBVIOUS
<1>3. /\ raw \in WriterType({}) /\ records = <<>>
      /\ Through(raw) = <<>> /\ raw.bytes_written = 0
  BY <1>1, <1>2 DEF Init, NewWriter, WriterType, Through
<1>4. Holds(raw, records, {})
  <2>1. IsPrefix(<<>>, <<>>)
    BY <1>1, PrefixOfItself
  <2>2. QED
    BY <1>1, <1>3, <2>1 DEF Holds
<1>5. QED
  BY <1>4 DEF RawInv

LEMMA NextRawInv == RawInv /\ [Next]_vars => RawInv'
<1> SUFFICES ASSUME RawInv, [Next]_vars PROVE RawInv'
  OBVIOUS
<1>1. PICK S : Holds(raw, records, S)
  BY DEF RawInv
<1>2. ASSUME NEW e \in Endpoint, WriteRaw(e)
      PROVE  RawInv'
  <2> DEFINE r == <<e, Last(Taken(e))>>
             T == S \cup {r}
  <2>1. raw' \in Write(raw, r) /\ records' = Append(records, r)
    BY <1>2 DEF WriteRaw
  <2>2. r \in T /\ S \subseteq T
    OBVIOUS
  <2> HIDE DEF r, T
  <2>3. Holds(raw, records, T)
    BY <1>1, <2>2, HoldsMore
  <2>4. Holds(raw', Append(records, r), T)
    BY <2>1, <2>2, <2>3, WriteHolds
  <2>5. QED
    BY <2>1, <2>4 DEF RawInv
<1>3. CASE FlushRaw
  <2>1. PICK flushed \in Flush(raw) : raw' = WarningTaken(flushed)
    BY <1>3 DEF FlushRaw
  <2>2. records' = records
    BY <1>3 DEF FlushRaw
  <2>3. Holds(raw', records', S)
    BY <1>1, <2>1, <2>2, FlushHolds
  <2>4. QED
    BY <2>3 DEF RawInv
<1>4. CASE Exit
  <2>1. records' = records /\ raw' \in Dropped(raw) \cup {raw}
    BY <1>4 DEF Exit
  <2>2. Holds(raw', records', S)
    BY <1>1, <2>1, DroppedHolds
  <2>3. QED
    BY <2>2 DEF RawInv
<1>5. ASSUME UNCHANGED <<raw, records>>
      PROVE  RawInv'
  BY <1>1, <1>5 DEF RawInv
<1>6. ASSUME NEW e \in Endpoint, NEW update, Take(e, update)
      PROVE  RawInv'
  BY <1>5, <1>6 DEF Take
<1>7. ASSUME NEW e \in Endpoint, Count(e) \/ Return(e)
      PROVE  RawInv'
  BY <1>5, <1>7 DEF Count, Return
<1>8. ASSUME NEW e \in Endpoint, PingOuter(e) \/ PingConnect(e) \/ PingInner(e) \/ PingAnswered(e)
                                   \/ PingCounted(e) \/ PingFails(e) \/ PauseEnds(e)
      PROVE  RawInv'
  BY <1>5, <1>8 DEF PingOuter, PingConnect, PingInner, PingAnswered, PingCounted, PingFails,
                    PauseEnds, PingGoes, dispatching
<1>9. ASSUME NEW e \in Endpoint, ReadSum(e) \/ ReadCount(e)
      PROVE  RawInv'
  BY <1>5, <1>9 DEF ReadSum, ReadCount, dispatching
<1>10. CASE Stop \/ Join \/ Merge
  BY <1>5, <1>10 DEF Stop, Join, Merge, dispatching
<1>11. CASE UNCHANGED vars
  BY <1>5, <1>11 DEF vars, dispatching
<1>12. QED
  BY <1>2, <1>3, <1>4, <1>6, <1>7, <1>8, <1>9, <1>10, <1>11 DEF Next

\* The file of raw records has no hole, for every size of the buffer and every
\* way a write, a flush or the last write at the end may fail.
THEOREM NoHole == Spec => []RawHasNoHole
<1>1. RawInv => RawHasNoHole
  BY DEF RawInv, Holds, Through, RawHasNoHole
<1>2. QED
  BY InitRawInv, NextRawInv, <1>1, PTL DEF Spec

----------------------------------------------------------------------------
(* The ping tasks and their reader.                                         *)

\* The flag is up when the coordinator is past its loop, and it reads the
\* trackers only then.
AfterShutdown ==
  /\ cpc \in {"loop", "join", "flush", "merge", "pings", "exited"}
  /\ cpc # "loop" => shutdown
  /\ \A e \in Endpoint : reading[e] # None => cpc \in {"pings", "exited"}

PingTypes ==
  /\ ping_pc \in [Endpoint -> {"outer", "connecting", "inner", "asking", "count",
                               "pause_outer", "pause_inner", "ended"}]
  /\ samples \in [Endpoint -> Nat] /\ ping_count \in [Endpoint -> Nat]
  /\ reading \in [Endpoint -> Seq(Nat)]
  /\ \A e \in Endpoint : Len(reading[e]) \in 0..2

\* A task is at most between its two additions.
SumLeads(e) ==
  samples[e] = ping_count[e] + (IF ping_pc[e] = "count" THEN 1 ELSE 0)

\* After the sum was read at most one ping that was under way is added, and
\* then the task asks no more.
OneMoreAtMost(e) ==
  Len(reading[e]) > 0 =>
    /\ samples[e] \in {reading[e][1], reading[e][1] + 1}
    /\ samples[e] = reading[e][1] + 1 => ping_pc[e] # "asking"

ReadClose(e) ==
  Len(reading[e]) = 2 => reading[e][2] \in (reading[e][1] - 1) .. (reading[e][1] + 1)

PingInv ==
  /\ AfterShutdown /\ PingTypes
  /\ \A e \in Endpoint : SumLeads(e) /\ OneMoreAtMost(e) /\ ReadClose(e)

LEMMA InitPingInv == Init => PingInv
<1> SUFFICES ASSUME Init PROVE PingInv
  OBVIOUS
<1>1. \A e \in Endpoint : reading[e] = <<>> /\ samples[e] = 0 /\ ping_count[e] = 0
  BY DEF Init, None
<1>2. AfterShutdown
  BY DEF Init, AfterShutdown
<1>3. PingTypes
  <2>1. <<>> \in Seq(Nat) /\ Len(<<>>) = 0
    BY EmptySeq
  <2>2. /\ ping_pc \in [Endpoint -> {"outer", "ended"}]
        /\ samples \in [Endpoint -> Nat] /\ ping_count \in [Endpoint -> Nat]
    BY DEF Init
  <2>3. reading \in [Endpoint -> Seq(Nat)]
    BY <2>1 DEF Init, None
  <2>4. QED
    BY <1>1, <2>1, <2>2, <2>3 DEF PingTypes
<1>4. ASSUME NEW e \in Endpoint
      PROVE  SumLeads(e) /\ OneMoreAtMost(e) /\ ReadClose(e)
  <2>1. ping_pc[e] # "count"
    BY DEF Init
  <2>2. Len(reading[e]) = 0
    BY <1>1, EmptySeq
  <2>3. QED
    BY <1>1, <2>1, <2>2 DEF SumLeads, OneMoreAtMost, ReadClose
<1>5. QED
  BY <1>2, <1>3, <1>4 DEF PingInv

\* A step of a ping task that adds nothing, and starts a ping only before the
\* flag is raised.
LEMMA PingMoves ==
  ASSUME PingInv, NEW e \in Endpoint, NEW from, from # "count",
         NEW to \in {"outer", "connecting", "inner", "asking", "pause_outer", "pause_inner", "ended"},
         PingGoes(e, from, to), PingStays, to = "asking" => ~shutdown
  PROVE  PingInv'
<1> USE DEF closing, dispatching
<1>1. /\ ping_pc[e] = from /\ ping_pc' = [ping_pc EXCEPT ![e] = to]
      /\ UNCHANGED <<shutdown, cpc, reading, samples, ping_count>>
  BY DEF PingGoes, PingStays
<1>2. AfterShutdown' /\ PingTypes'
  BY <1>1 DEF PingInv, AfterShutdown, PingTypes
<1>3. ASSUME NEW d \in Endpoint
      PROVE  SumLeads(d)' /\ OneMoreAtMost(d)' /\ ReadClose(d)'
  <2>1. SumLeads(d) /\ OneMoreAtMost(d) /\ ReadClose(d)
    BY DEF PingInv
  <2>2. ReadClose(d)'
    BY <1>1, <2>1 DEF ReadClose
  <2>3. CASE d # e
    <3>1. ping_pc'[d] = ping_pc[d]
      BY <1>1, <2>3 DEF PingInv, PingTypes
    <3>2. QED
      BY <1>1, <2>1, <2>2, <3>1 DEF SumLeads, OneMoreAtMost
  <2>4. CASE d = e
    <3>1. ping_pc'[e] = to /\ ping_pc[e] = from
      BY <1>1 DEF PingInv, PingTypes
    <3>2. SumLeads(e)'
      BY <1>1, <2>1, <2>4, <3>1 DEF SumLeads
    <3>3. OneMoreAtMost(e)'
      <4>1. CASE to = "asking"
        <5>1. reading[e] = None
          BY <4>1 DEF PingInv, AfterShutdown
        <5>2. Len(reading[e]) = 0
          BY <5>1, EmptySeq DEF None
        <5>3. QED
          BY <1>1, <5>2 DEF OneMoreAtMost
      <4>2. CASE to # "asking"
        BY <1>1, <2>1, <2>4, <3>1, <4>2 DEF OneMoreAtMost
      <4>3. QED
        BY <4>1, <4>2
    <3>4. QED
      BY <2>2, <2>4, <3>2, <3>3
  <2>5. QED
    BY <2>3, <2>4
<1>4. QED
  BY <1>2, <1>3 DEF PingInv

LEMMA AnsweredPingInv ==
  ASSUME PingInv, NEW e \in Endpoint, PingAnswered(e)
  PROVE  PingInv'
<1> USE DEF closing, dispatching
<1>1. /\ ping_pc[e] = "asking" /\ ping_pc' = [ping_pc EXCEPT ![e] = "count"]
      /\ samples' = [samples EXCEPT ![e] = @ + 1]
      /\ UNCHANGED <<shutdown, cpc, reading, ping_count>>
  BY DEF PingAnswered, PingGoes
<1>2. AfterShutdown' /\ PingTypes'
  BY <1>1 DEF PingInv, AfterShutdown, PingTypes
<1>3. ASSUME NEW d \in Endpoint
      PROVE  SumLeads(d)' /\ OneMoreAtMost(d)' /\ ReadClose(d)'
  <2>1. SumLeads(d) /\ OneMoreAtMost(d) /\ ReadClose(d)
    BY DEF PingInv
  <2>2. ReadClose(d)'
    BY <1>1, <2>1 DEF ReadClose
  <2>3. CASE d # e
    <3>1. ping_pc'[d] = ping_pc[d] /\ samples'[d] = samples[d]
      BY <1>1, <2>3 DEF PingInv, PingTypes
    <3>2. QED
      BY <1>1, <2>1, <2>2, <3>1 DEF SumLeads, OneMoreAtMost
  <2>4. CASE d = e
    <3>1. ping_pc'[e] = "count" /\ samples'[e] = samples[e] + 1
          /\ samples[e] \in Nat /\ ping_count[e] \in Nat
      BY <1>1 DEF PingInv, PingTypes
    <3>2. SumLeads(e)'
      BY <1>1, <2>1, <2>4, <3>1 DEF SumLeads
    <3>3. OneMoreAtMost(e)'
      BY <1>1, <2>1, <2>4, <3>1 DEF OneMoreAtMost
    <3>4. QED
      BY <2>2, <2>4, <3>2, <3>3
  <2>5. QED
    BY <2>3, <2>4
<1>4. QED
  BY <1>2, <1>3 DEF PingInv

LEMMA CountedPingInv ==
  ASSUME PingInv, NEW e \in Endpoint, PingCounted(e)
  PROVE  PingInv'
<1> USE DEF closing, dispatching
<1>1. /\ ping_pc[e] = "count" /\ ping_pc' = [ping_pc EXCEPT ![e] = "pause_inner"]
      /\ ping_count' = [ping_count EXCEPT ![e] = @ + 1]
      /\ UNCHANGED <<shutdown, cpc, reading, samples>>
  BY DEF PingCounted, PingGoes
<1>2. AfterShutdown' /\ PingTypes'
  BY <1>1 DEF PingInv, AfterShutdown, PingTypes
<1>3. ASSUME NEW d \in Endpoint
      PROVE  SumLeads(d)' /\ OneMoreAtMost(d)' /\ ReadClose(d)'
  <2>1. SumLeads(d) /\ OneMoreAtMost(d) /\ ReadClose(d)
    BY DEF PingInv
  <2>2. ReadClose(d)'
    BY <1>1, <2>1 DEF ReadClose
  <2>3. CASE d # e
    <3>1. ping_pc'[d] = ping_pc[d] /\ ping_count'[d] = ping_count[d]
      BY <1>1, <2>3 DEF PingInv, PingTypes
    <3>2. QED
      BY <1>1, <2>1, <2>2, <3>1 DEF SumLeads, OneMoreAtMost
  <2>4. CASE d = e
    <3>1. /\ ping_pc'[e] = "pause_inner" /\ ping_count'[e] = ping_count[e] + 1
          /\ ping_count[e] \in Nat
      BY <1>1 DEF PingInv, PingTypes
    <3>2. SumLeads(e)' /\ OneMoreAtMost(e)'
      BY <1>1, <2>1, <2>4, <3>1 DEF SumLeads, OneMoreAtMost
    <3>3. QED
      BY <2>2, <2>4, <3>2
  <2>5. QED
    BY <2>3, <2>4
<1>4. QED
  BY <1>2, <1>3 DEF PingInv

\* The coordinator reads a number and appends it to what it has read.
LEMMA ReadPingInv ==
  ASSUME PingInv, NEW e \in Endpoint, ReadSum(e) \/ ReadCount(e)
  PROVE  PingInv'
<1> USE DEF pinging, dispatching
<1>1. /\ cpc = "pings" /\ UNCHANGED <<shutdown, cpc, ping_pc, samples, ping_count>>
      /\ samples[e] \in Nat /\ ping_count[e] \in Nat /\ reading \in [Endpoint -> Seq(Nat)]
  BY DEF ReadSum, ReadCount, PingInv, PingTypes
<1>2. /\ reading'[e] \in Seq(Nat) /\ Len(reading'[e]) \in 1..2
      /\ reading' = [reading EXCEPT ![e] = reading'[e]]
      /\ Len(reading'[e]) = 1 => reading'[e][1] = samples[e]
      /\ Len(reading'[e]) = 2 => /\ Len(reading[e]) = 1
                                 /\ reading'[e][1] = reading[e][1]
                                 /\ reading'[e][2] = ping_count[e]
  <2>1. CASE ReadSum(e)
    <3>1. reading' = [reading EXCEPT ![e] = <<samples[e]>>] /\ reading'[e] = <<samples[e]>>
      BY <1>1, <2>1 DEF ReadSum
    <3>2. QED
      BY <1>1, <3>1
  <2>2. CASE ReadCount(e)
    <3>1. /\ reading' = [reading EXCEPT ![e] = Append(reading[e], ping_count[e])]
          /\ reading'[e] = Append(reading[e], ping_count[e]) /\ Len(reading[e]) = 1
          /\ reading[e] \in Seq(Nat)
      BY <1>1, <2>2 DEF ReadCount
    <3>2. /\ Append(reading[e], ping_count[e]) \in Seq(Nat)
          /\ Len(Append(reading[e], ping_count[e])) = 2
          /\ Append(reading[e], ping_count[e])[1] = reading[e][1]
          /\ Append(reading[e], ping_count[e])[2] = ping_count[e]
      <4> DEFINE s == reading[e]
                 c == ping_count[e]
      <4>1. s \in Seq(Nat) /\ c \in Nat /\ Len(s) = 1
        BY <1>1, <3>1
      <4> HIDE DEF s, c
      <4>2. /\ Append(s, c) \in Seq(Nat) /\ Len(Append(s, c)) = 2
            /\ Append(s, c)[1] = s[1] /\ Append(s, c)[2] = c
        <5>1. 1 \in 1..Len(s) /\ Len(s) + 1 = 2
          BY <4>1
        <5>2. Append(s, c) \in Seq(Nat) /\ Len(Append(s, c)) = Len(s) + 1
          BY <4>1
        <5>3. Append(s, c)[1] = s[1]
          BY <4>1, <5>1
        <5>4. Append(s, c)[Len(s) + 1] = c
          BY <4>1, AppendProperties, Zenon
        <5>5. QED
          BY <5>1, <5>2, <5>3, <5>4
      <4>3. QED
        BY <4>2 DEF s, c
    <3>3. reading' = [reading EXCEPT ![e] = reading'[e]]
      BY <3>1
    <3>4. QED
      BY <3>1, <3>2, <3>3
  <2>3. QED
    BY <2>1, <2>2
<1>3. AfterShutdown'
  BY <1>1 DEF PingInv, AfterShutdown
<1>4. \A d \in Endpoint : d # e => reading'[d] = reading[d]
  BY <1>1, <1>2
<1>5. PingTypes'
  <2>1. ASSUME NEW d \in Endpoint
        PROVE  Len(reading'[d]) \in 0..2
    <3>1. CASE d = e
      BY <1>2, <3>1
    <3>2. CASE d # e
      BY <1>4, <3>2 DEF PingInv, PingTypes
    <3>3. QED
      BY <3>1, <3>2
  <2>2. reading' \in [Endpoint -> Seq(Nat)]
    BY <1>1, <1>2
  <2>3. QED
    BY <1>1, <2>1, <2>2 DEF PingInv, PingTypes
<1>6. ASSUME NEW d \in Endpoint
      PROVE  SumLeads(d)' /\ OneMoreAtMost(d)' /\ ReadClose(d)'
  <2>1. SumLeads(d) /\ OneMoreAtMost(d) /\ ReadClose(d)
    BY DEF PingInv
  <2>2. SumLeads(d)'
    BY <1>1, <2>1 DEF SumLeads
  <2>3. CASE d # e
    BY <1>1, <1>4, <2>1, <2>2, <2>3 DEF OneMoreAtMost, ReadClose
  <2>4. CASE d = e
    <3>1. CASE Len(reading'[e]) = 1
      BY <1>1, <2>2, <2>4, <3>1, <1>2 DEF OneMoreAtMost, ReadClose
    <3>2. CASE Len(reading'[e]) = 2
      <4>1. /\ samples[e] \in {reading[e][1], reading[e][1] + 1}
            /\ samples[e] = reading[e][1] + 1 => ping_pc[e] # "asking"
        BY <1>2, <2>1, <2>4, <3>2 DEF OneMoreAtMost
      <4>2. reading[e][1] \in Nat
        <5>1. reading[e] \in Seq(Nat)
          BY <1>1
        <5>2. Len(reading[e]) = 1
          BY <1>2, <3>2
        <5>3. 1 \in 1..Len(reading[e])
          BY <5>2
        <5>4. QED
          BY <5>1, <5>3, ElementOfSeq
      <4>3. ping_count[e] \in {samples[e], samples[e] - 1}
        <5>1. samples[e] = ping_count[e] + (IF ping_pc[e] = "count" THEN 1 ELSE 0)
          BY <2>1, <2>4 DEF SumLeads
        <5>2. CASE ping_pc[e] = "count"
          BY <1>1, <5>1, <5>2
        <5>3. CASE ping_pc[e] # "count"
          BY <1>1, <5>1, <5>3
        <5>4. QED
          BY <5>2, <5>3
      <4>4. OneMoreAtMost(e)'
        BY <1>1, <1>2, <3>2, <4>1 DEF OneMoreAtMost
      <4>5. ping_count[e] \in (reading[e][1] - 1) .. (reading[e][1] + 1)
        BY <1>1, <4>1, <4>2, <4>3
      <4>6. ReadClose(e)'
        BY <1>2, <3>2, <4>5 DEF ReadClose
      <4>7. QED
        BY <2>2, <2>4, <4>4, <4>6
    <3>3. QED
      BY <1>2, <3>1, <3>2
  <2>5. QED
    BY <2>3, <2>4
<1>7. QED
  BY <1>3, <1>5, <1>6 DEF PingInv

\* The coordinator moves on, and the flag goes up with its first step.
LEMMA CoordinatorPingInv ==
  ASSUME PingInv, UNCHANGED <<ping_pc, samples, ping_count, reading>>,
         cpc' \in {"loop", "join", "flush", "merge", "pings", "exited"},
         shutdown => shutdown', cpc' # "loop" => shutdown',
         cpc \in {"pings", "exited"} => cpc' \in {"pings", "exited"}
  PROVE  PingInv'
<1>1. AfterShutdown'
  BY DEF PingInv, AfterShutdown
<1>2. PingTypes'
  BY DEF PingInv, PingTypes
<1>3. \A e \in Endpoint : SumLeads(e)' /\ OneMoreAtMost(e)' /\ ReadClose(e)'
  BY DEF PingInv, SumLeads, OneMoreAtMost, ReadClose
<1>4. QED
  BY <1>1, <1>2, <1>3 DEF PingInv

LEMMA NextPingInv == PingInv /\ [Next]_vars => PingInv'
<1> SUFFICES ASSUME PingInv, [Next]_vars PROVE PingInv'
  OBVIOUS
<1>0. cpc \in {"loop", "join", "flush", "merge", "pings", "exited"} /\ (cpc # "loop" => shutdown)
  BY DEF PingInv, AfterShutdown
<1>1. ASSUME UNCHANGED <<shutdown, cpc, ping_pc, samples, ping_count, reading>>
      PROVE  PingInv'
  BY <1>0, <1>1, CoordinatorPingInv
<1>2. ASSUME NEW e \in Endpoint, NEW update, Take(e, update)
      PROVE  PingInv'
  BY <1>1, <1>2 DEF Take, pinging, closing
<1>3. ASSUME NEW e \in Endpoint, WriteRaw(e) \/ Count(e) \/ Return(e)
      PROVE  PingInv'
  BY <1>1, <1>3 DEF WriteRaw, Count, Return, pinging, closing
<1>4. ASSUME NEW e \in Endpoint, PingOuter(e) \/ PingInner(e)
      PROVE  PingInv'
  BY <1>4, PingMoves DEF PingOuter, PingInner
<1>5. ASSUME NEW e \in Endpoint, PingConnect(e) \/ PingFails(e)
      PROVE  PingInv'
  BY <1>5, PingMoves DEF PingConnect, PingFails
<1>6. ASSUME NEW e \in Endpoint, PauseEnds(e)
      PROVE  PingInv'
  BY <1>6, PingMoves DEF PauseEnds
<1>7. ASSUME NEW e \in Endpoint, PingAnswered(e) \/ PingCounted(e)
      PROVE  PingInv'
  BY <1>7, AnsweredPingInv, CountedPingInv
<1>8. ASSUME NEW e \in Endpoint, ReadSum(e) \/ ReadCount(e)
      PROVE  PingInv'
  BY <1>8, ReadPingInv
<1>9. CASE Stop
  BY <1>9, CoordinatorPingInv DEF Stop, pinging
<1>10. CASE Join \/ FlushRaw \/ Merge \/ Exit
  BY <1>0, <1>10, CoordinatorPingInv DEF Join, FlushRaw, Merge, Exit, pinging
<1>11. CASE UNCHANGED vars
  BY <1>1, <1>11 DEF vars, pinging, closing
<1>12. QED
  BY <1>2, <1>3, <1>4, <1>5, <1>6, <1>7, <1>8, <1>9, <1>10, <1>11 DEF Next

\* The two numbers of an average ping differ by one sample at most, for any
\* number of pings before the shutdown (run.rs:231-248).
THEOREM PingsClose == Spec => []PingReadingClose
<1>1. PingInv => PingReadingClose
  BY DEF PingInv, ReadClose, PingReadingClose
<1>2. QED
  BY InitPingInv, NextPingInv, <1>1, PTL DEF Spec

----------------------------------------------------------------------------
(* What a dispatcher has taken.                                             *)

AppendedFacts(t, s, x) ==
  /\ Len(s) \in Nat /\ Len(t) = Len(s) + 1 /\ t[Len(s) + 1] = x
  /\ \A i \in 1 .. Len(s) : t[i] = s[i]

LEMMA AppendFacts ==
  ASSUME NEW S, NEW s \in Seq(S), NEW x \in S
  PROVE  Append(s, x) \in Seq(S) /\ AppendedFacts(Append(s, x), s, x)
BY AppendProperties, LenProperties DEF AppendedFacts

\* The update a dispatcher has in hand.
Newest(e) == delivered[e][Len(delivered[e])]

\* The event in hand is the last one delivered and the last one taken.
DispatchInv ==
  /\ setup \in Setups
  /\ delivered \in [Endpoint -> Seq(setup.updates)]
  /\ dpc \in [Endpoint -> {"idle", "raw", "count", "done"}]
  /\ \A e \in Endpoint :
       /\ dpc[e] \in {"raw", "count"} =>
            /\ Len(delivered[e]) \in Nat \ {0} /\ Newest(e) \in Events
            /\ Last(Taken(e)) = Newest(e)
       /\ dpc[e] = "raw" => setup.raw_records

\* What the steps of the ping tasks and of the coordinator leave alone.
DispatchersRest ==
  UNCHANGED <<setup, delivered, decode_errors, dpc, matchers, records, counts, last_counted_slot, total_slots>>

LEMMA DispatchKinds ==
  ASSUME [Next]_vars
  PROVE  \/ \E e \in Endpoint :
              (\E u \in setup.updates : Take(e, u)) \/ WriteRaw(e) \/ Count(e) \/ Return(e)
         \/ DispatchersRest
<1> USE DEF DispatchersRest, dispatching, pinging
<1>1. ASSUME NEW e \in Endpoint,
             \/ PingOuter(e) \/ PingConnect(e) \/ PingInner(e)
             \/ PingAnswered(e) \/ PingCounted(e) \/ PingFails(e) \/ PauseEnds(e)
      PROVE  DispatchersRest
  BY <1>1 DEF PingOuter, PingConnect, PingInner, PingAnswered, PingCounted, PingFails, PauseEnds,
              PingGoes
<1>2. ASSUME NEW e \in Endpoint, ReadSum(e) \/ ReadCount(e)
      PROVE  DispatchersRest
  BY <1>2 DEF ReadSum, ReadCount
<1>3. ASSUME Stop \/ Join \/ FlushRaw \/ Merge \/ Exit
      PROVE  DispatchersRest
  BY <1>3 DEF Stop, Join, FlushRaw, Merge, Exit
<1>4. ASSUME UNCHANGED vars
      PROVE  DispatchersRest
  BY <1>4 DEF vars
<1>5. QED
  BY <1>1, <1>2, <1>3, <1>4 DEF Next

LEMMA TakenEmpty == ASSUME Init, NEW e \in Endpoint PROVE Taken(e) = <<>>
<1>1. delivered[e] = <<>>
  BY DEF Init
<1>2. QED
  BY <1>1, OnlyEmpty DEF Taken

LEMMA TakenType ==
  ASSUME DispatchInv, NEW e \in Endpoint
  PROVE  /\ delivered[e] \in Seq(setup.updates) /\ Len(delivered[e]) \in Nat
         /\ DOMAIN delivered[e] = 1 .. Len(delivered[e])
         /\ Taken(e) \in Seq(setup.updates) /\ Len(Taken(e)) \in Nat
         /\ \A i \in 1 .. Len(delivered[e]) : delivered[e][i] \in setup.updates
<1>1. delivered[e] \in Seq(setup.updates)
  BY DEF DispatchInv
<1>2. Taken(e) \in Seq(setup.updates)
  BY <1>1, OnlyComesFrom DEF Taken
<1>3. QED
  BY <1>1, <1>2, LenProperties, ElementOfSeq

LEMMA TakeFacts ==
  ASSUME DispatchInv, NEW e \in Endpoint, NEW u \in setup.updates, Take(e, u)
  PROVE  /\ setup' = setup /\ dpc[e] = "idle" /\ delivered' = [delivered EXCEPT ![e] = Append(@, u)]
         /\ delivered'[e] = Append(delivered[e], u)
         /\ AppendedFacts(delivered'[e], delivered[e], u) /\ delivered'[e] \in Seq(setup.updates)
         /\ Taken(e)' = IF Decodes(u) THEN Append(Taken(e), u) ELSE Taken(e)
         /\ \A d \in Endpoint : d # e => delivered'[d] = delivered[d] /\ Taken(d)' = Taken(d)
<1>1. /\ setup' = setup /\ dpc[e] = "idle"
      /\ delivered' = [delivered EXCEPT ![e] = Append(@, u)]
  BY DEF Take
<1>2. delivered \in [Endpoint -> Seq(setup.updates)]
  BY DEF DispatchInv
<1>3. delivered'[e] = Append(delivered[e], u) /\ \A d \in Endpoint : d # e => delivered'[d] = delivered[d]
  BY <1>1, <1>2
<1>4. delivered[e] \in Seq(setup.updates)
  BY <1>2
<1>5. AppendedFacts(delivered'[e], delivered[e], u) /\ delivered'[e] \in Seq(setup.updates)
  BY <1>3, <1>4, AppendFacts
<1>6. Events' = Events
  BY <1>1 DEF Events
<1>7. Only(Append(delivered[e], u), Events) =
        IF u \in Events THEN Append(Only(delivered[e], Events), u) ELSE Only(delivered[e], Events)
  BY <1>4, OnlyAppend
<1>8. Taken(e)' = IF Decodes(u) THEN Append(Taken(e), u) ELSE Taken(e)
  BY <1>3, <1>6, <1>7 DEF Taken, Events
<1>9. \A d \in Endpoint : d # e => Taken(d)' = Taken(d)
  BY <1>3, <1>6 DEF Taken
<1>10. QED
  BY <1>1, <1>3, <1>5, <1>8, <1>9

LEMMA DispatchStep == DispatchInv /\ [Next]_vars => DispatchInv'
<1> SUFFICES ASSUME DispatchInv, [Next]_vars PROVE DispatchInv'
  OBVIOUS
<1>0. /\ setup \in Setups /\ delivered \in [Endpoint -> Seq(setup.updates)]
      /\ dpc \in [Endpoint -> {"idle", "raw", "count", "done"}]
  BY DEF DispatchInv
<1>1. ASSUME NEW e \in Endpoint, NEW u \in setup.updates, Take(e, u)
      PROVE  DispatchInv'
  <2>1. /\ setup' = setup /\ delivered' = [delivered EXCEPT ![e] = Append(@, u)]
        /\ delivered'[e] \in Seq(setup.updates) /\ AppendedFacts(delivered'[e], delivered[e], u)
        /\ Taken(e)' = IF Decodes(u) THEN Append(Taken(e), u) ELSE Taken(e)
        /\ \A d \in Endpoint : d # e => delivered'[d] = delivered[d] /\ Taken(d)' = Taken(d)
    BY <1>1, TakeFacts
  <2>2. \/ Decodes(u) /\ dpc' = [dpc EXCEPT ![e] = IF setup.raw_records THEN "raw" ELSE "count"]
        \/ ~Decodes(u) /\ dpc' = dpc /\ dpc[e] = "idle"
    BY <1>1 DEF Take, Goes
  <2>3. dpc' \in [Endpoint -> {"idle", "raw", "count", "done"}]
    BY <1>0, <2>2
  <2>4. delivered' \in [Endpoint -> Seq(setup'.updates)]
    BY <1>0, <2>1
  <2>5. ASSUME NEW d \in Endpoint, dpc'[d] \in {"raw", "count"}
        PROVE  /\ Len(delivered'[d]) \in Nat \ {0} /\ Newest(d)' \in Events'
               /\ Last(Taken(d)') = Newest(d)' /\ (dpc'[d] = "raw" => setup'.raw_records)
    <3>1. CASE d # e
      <4>1. dpc'[d] = dpc[d]
        BY <1>0, <2>2, <3>1
      <4>2. QED
        BY <2>1, <2>5, <3>1, <4>1 DEF DispatchInv, Newest, Events
    <3>2. CASE d = e
      <4>1. Decodes(u) /\ dpc'[e] = IF setup.raw_records THEN "raw" ELSE "count"
        BY <1>0, <2>2, <2>5, <3>2
      <4>2. Newest(e)' = u /\ Len(delivered'[e]) \in Nat \ {0}
        BY <2>1 DEF Newest, AppendedFacts
      <4>3. u \in setup.updates /\ Taken(e) \in Seq(setup.updates)
        BY TakenType
      <4>4. Last(Append(Taken(e), u)) = u
        BY <4>3, AppendFacts DEF AppendedFacts, Last
      <4>5. QED
        BY <2>1, <3>2, <4>1, <4>2, <4>3, <4>4 DEF Events
    <3>3. QED
      BY <3>1, <3>2
  <2>6. QED
    BY <1>0, <2>1, <2>3, <2>4, <2>5 DEF DispatchInv
<1>2. ASSUME NEW e \in Endpoint, WriteRaw(e) \/ Count(e) \/ Return(e)
      PROVE  DispatchInv'
  <2>1. UNCHANGED <<setup, delivered>>
    BY <1>2 DEF WriteRaw, Count, Return
  <2>2. \E to \in {"idle", "count", "done"} :
          /\ dpc' = [dpc EXCEPT ![e] = to]
          /\ to = "count" => dpc[e] = "raw"
    BY <1>2 DEF WriteRaw, Count, Return, Goes
  <2>3. \A d \in Endpoint : Taken(d)' = Taken(d) /\ Newest(d)' = Newest(d)
    BY <2>1 DEF Taken, Events, Newest
  <2>4. Events' = Events
    BY <2>1 DEF Events
  <2>5. dpc' \in [Endpoint -> {"idle", "raw", "count", "done"}]
    BY <1>0, <2>2
  <2>6. ASSUME NEW d \in Endpoint
        PROVE  /\ dpc'[d] \in {"raw", "count"} => dpc[d] \in {"raw", "count"}
               /\ dpc'[d] = "raw" => dpc[d] = "raw"
    BY <1>0, <2>2
  <2>7. QED
    BY <1>0, <2>1, <2>3, <2>4, <2>5, <2>6 DEF DispatchInv
<1>3. CASE DispatchersRest
  BY <1>3 DEF DispatchersRest, DispatchInv, Taken, Events, Newest
<1>4. QED
  BY <1>1, <1>2, <1>3, DispatchKinds

LEMMA Dispatching == Spec => []DispatchInv
<1>1. Init => DispatchInv
  <2> SUFFICES ASSUME Init PROVE DispatchInv
    OBVIOUS
  <2>1. delivered \in [Endpoint -> Seq(setup.updates)]
    <3>1. <<>> \in Seq(setup.updates)
      BY EmptySeq
    <3>2. QED
      BY <3>1 DEF Init
  <2>2. setup \in Setups /\ dpc = [e \in Endpoint |-> "idle"]
    BY DEF Init
  <2>3. QED
    BY <2>1, <2>2 DEF DispatchInv
<1>2. QED
  BY <1>1, DispatchStep, PTL DEF Spec

----------------------------------------------------------------------------
(* The slot count.                                                          *)

SlotsInOrder ==
  \A i, j \in ProcessedSeen : i < j => delivered[1][i].slot <= delivered[1][j].slot

\* The slots that were counted: none above the last one, and all but slot 0 as
\* long as they come in order.
CountedExactly(C) ==
  /\ C \subseteq SlotsSeen \ {0} /\ Cardinality(C) = total_slots
  /\ \A s \in C : s <= last_counted_slot[1]
  /\ last_counted_slot[1] \in C \cup {0}
  /\ SlotsInOrder => C = SlotsSeen \ {0}

SlotInv ==
  /\ last_counted_slot \in [Endpoint -> Nat]
  /\ IsFiniteSet(SlotsSeen) /\ SlotsSeen \subseteq Nat
  /\ \E C : CountedExactly(C)

\* Only the step that counts an event changes what has been counted.
LEMMA SlotsRest ==
  ASSUME SlotInv, ProcessedSeen' = ProcessedSeen,
         \A i \in ProcessedSeen : delivered'[1][i] = delivered[1][i],
         UNCHANGED <<last_counted_slot, total_slots>>
  PROVE  SlotInv'
<1>1. SlotsSeen' = SlotsSeen
  BY DEF SlotsSeen
<1>2. SlotsInOrder' <=> SlotsInOrder
  BY DEF SlotsInOrder
<1>3. QED
  BY <1>1, <1>2 DEF SlotInv, CountedExactly

LEMMA SlotTake ==
  ASSUME DispatchInv, SlotInv, NEW e \in Endpoint, NEW u \in setup.updates, Take(e, u)
  PROVE  SlotInv'
<1>1. /\ dpc[e] = "idle" /\ AppendedFacts(delivered'[e], delivered[e], u)
      /\ delivered'[e] \in Seq(setup.updates)
      /\ \A d \in Endpoint : d # e => delivered'[d] = delivered[d]
  BY TakeFacts
<1>2. UNCHANGED <<last_counted_slot, total_slots>> /\ dpc \in [Endpoint -> {"idle", "raw", "count", "done"}]
  BY DEF Take, DispatchInv
<1>3. \/ Decodes(u) /\ dpc' = [dpc EXCEPT ![e] = IF setup.raw_records THEN "raw" ELSE "count"]
      \/ ~Decodes(u) /\ dpc' = dpc
  BY DEF Take, Goes
<1>4. CASE e = 2
  <2>1. delivered'[1] = delivered[1] /\ dpc'[1] = dpc[1]
    BY <1>1, <1>2, <1>3, <1>4 DEF Endpoint
  <2>2. ProcessedSeen' = ProcessedSeen
    BY <2>1 DEF ProcessedSeen
  <2>3. QED
    BY <1>2, <2>1, <2>2, SlotsRest
<1>5. CASE e = 1
  <2> DEFINE n == Len(delivered[1])
  <2>1. /\ n \in Nat /\ DOMAIN delivered[1] = 1 .. n /\ DOMAIN delivered'[1] = 1 .. (n + 1)
        /\ Len(delivered'[1]) = n + 1 /\ delivered'[1][n + 1] = u
        /\ \A i \in 1 .. n : delivered'[1][i] = delivered[1][i]
    BY <1>1, <1>5, TakenType, LenProperties DEF AppendedFacts
  <2> HIDE DEF n
  <2>2. ~Decodes(u) => ~(u.kind = "slot" /\ u.stage = "processed")
    BY DEF Decodes, Malformed, IsControl, Stages
  <2>3. Decodes(u) => dpc'[1] \in {"raw", "count"}
    BY <1>2, <1>3, <1>5 DEF Endpoint
  <2>4. ~Decodes(u) => dpc'[1] = "idle"
    BY <1>1, <1>3, <1>5
  <2>5. ASSUME NEW i \in 1 .. (n + 1)
        PROVE  i \in ProcessedSeen' <=> i \in ProcessedSeen
    <3>1. CASE i = n + 1
      <4>1. i \notin ProcessedSeen
        BY <2>1, <3>1 DEF ProcessedSeen
      <4>2. i \notin ProcessedSeen'
        BY <2>1, <2>2, <2>3, <3>1 DEF ProcessedSeen
      <4>3. QED
        BY <4>1, <4>2
    <3>2. CASE i # n + 1
      <4>1. i \in 1 .. n
        BY <2>1, <3>2
      <4>2. QED
        BY <1>1, <1>5, <2>1, <3>2, <4>1 DEF ProcessedSeen
    <3>3. QED
      BY <3>1, <3>2
  <2>6. ProcessedSeen \subseteq 1 .. n /\ ProcessedSeen' \subseteq 1 .. (n + 1)
    BY <2>1 DEF ProcessedSeen
  <2>7. ProcessedSeen' = ProcessedSeen
    <3>1. 1 .. n \subseteq 1 .. (n + 1)
      BY <2>1
    <3>2. QED
      BY <2>5, <2>6, <3>1
  <2>8. QED
    BY <1>2, <2>1, <2>6, <2>7, SlotsRest
<1>6. QED
  BY <1>4, <1>5 DEF Endpoint

LEMMA SlotCount ==
  ASSUME DispatchInv, SlotInv, Count(1)
  PROVE  SlotInv'
<1> DEFINE n == Len(delivered[1])
           v == Newest(1)
           slot == v.slot
<1>1. /\ dpc[1] = "count" /\ Last(Taken(1)) = v /\ v \in Events /\ n \in Nat \ {0}
  BY DEF Count, DispatchInv, Endpoint
<1>2. /\ UNCHANGED <<setup, delivered>> /\ dpc' = [dpc EXCEPT ![1] = "idle"]
      /\ IF CountsSlot(1, v)
         THEN /\ last_counted_slot' = [last_counted_slot EXCEPT ![1] = slot]
              /\ total_slots' = total_slots + 1
         ELSE UNCHANGED <<last_counted_slot, total_slots>>
  BY <1>1 DEF Count, Goes
<1>3. dpc'[1] = "idle" /\ last_counted_slot[1] \in Nat
  BY <1>2 DEF DispatchInv, Endpoint, SlotInv
<1>4. slot \in Nat
  BY <1>1, SessionAssumption DEF DispatchInv, Events, IsUpdate
<1>5. DOMAIN delivered[1] = 1 .. n /\ v = delivered[1][n] /\ n \in 1 .. n
  BY <1>1, TakenType DEF Newest, Endpoint
<1>6. n \notin ProcessedSeen /\ ProcessedSeen \subseteq 1 .. n
  BY <1>1, <1>5 DEF ProcessedSeen
<1>7. CASE ~(v.kind = "slot" /\ v.stage = "processed")
  <2>1. ~CountsSlot(1, v)
    BY <1>7 DEF CountsSlot
  <2>2. ProcessedSeen' = ProcessedSeen
    BY <1>1, <1>2, <1>3, <1>5, <1>7 DEF ProcessedSeen
  <2>3. QED
    BY <1>2, <2>1, <2>2, SlotsRest
<1>8. CASE v.kind = "slot" /\ v.stage = "processed"
  <2>1. ProcessedSeen' = ProcessedSeen \cup {n}
    BY <1>1, <1>2, <1>3, <1>5, <1>8 DEF ProcessedSeen
  <2>2. SlotsSeen' = SlotsSeen \cup {slot}
    BY <1>2, <1>5, <2>1 DEF SlotsSeen
  <2>3. PICK C : CountedExactly(C)
    BY DEF SlotInv
  <2>4. /\ C \subseteq SlotsSeen \ {0} /\ Cardinality(C) = total_slots
        /\ \A s \in C : s <= last_counted_slot[1]
        /\ last_counted_slot[1] \in C \cup {0}
        /\ SlotsInOrder => C = SlotsSeen \ {0}
    BY <2>3 DEF CountedExactly
  <2>5. IsFiniteSet(SlotsSeen) /\ SlotsSeen \subseteq Nat
    BY DEF SlotInv
  <2>6. IsFiniteSet(C)
    BY <2>4, <2>5, FS_Subset
  <2>7. IsFiniteSet(SlotsSeen \cup {slot}) /\ SlotsSeen \cup {slot} \subseteq Nat
    BY <1>4, <2>5, FS_AddElement
  \* If the slots still come in order, the new one is the latest.
  <2>8. SlotsInOrder' => SlotsInOrder /\ \A s \in SlotsSeen : s <= slot
    <3> SUFFICES ASSUME SlotsInOrder' PROVE SlotsInOrder /\ \A s \in SlotsSeen : s <= slot
      OBVIOUS
    <3>1. SlotsInOrder
      BY <1>2, <2>1 DEF SlotsInOrder
    <3>2. ASSUME NEW s \in SlotsSeen PROVE s <= slot
      <4>1. PICK i \in ProcessedSeen : s = delivered[1][i].slot
        BY DEF SlotsSeen
      <4>2. i \in ProcessedSeen' /\ n \in ProcessedSeen'
        BY <2>1
      <4>3. i < n
        BY <1>1, <1>6, <4>1
      <4>4. delivered'[1][i].slot <= delivered'[1][n].slot
        BY <4>2, <4>3 DEF SlotsInOrder
      <4>5. QED
        BY <1>2, <1>5, <4>1, <4>4
    <3>3. QED
      BY <3>1, <3>2
  <2> HIDE DEF slot, v, n
  <2>9. CASE slot > last_counted_slot[1]
    <3>1. /\ last_counted_slot'[1] = slot /\ total_slots' = total_slots + 1
          /\ last_counted_slot' \in [Endpoint -> Nat]
      <4>1. CountsSlot(1, v)
        BY <1>8, <2>9 DEF CountsSlot, slot
      <4>2. last_counted_slot' = [last_counted_slot EXCEPT ![1] = slot]
        BY <1>2, <4>1
      <4>3. QED
        BY <1>2, <1>4, <4>1, <4>2 DEF SlotInv, Endpoint
    <3>2. slot \notin C /\ slot # 0
      BY <1>3, <1>4, <2>4, <2>9
    <3>3. Cardinality(C \cup {slot}) = total_slots'
      BY <2>4, <2>6, <3>1, <3>2, FS_AddElement
    <3>4. \A s \in C \cup {slot} : s <= slot
      BY <1>3, <1>4, <2>4, <2>5, <2>9
    <3>5. SlotsInOrder' => C \cup {slot} = (SlotsSeen \cup {slot}) \ {0}
      BY <2>4, <2>8, <3>2
    <3>6. CountedExactly(C \cup {slot})'
      <4>1. C \cup {slot} \subseteq (SlotsSeen \cup {slot}) \ {0}
        BY <2>4, <3>2
      <4>2. slot' = slot
        BY <1>2 DEF slot, v, Newest
      <4>3. QED
        BY <2>2, <3>1, <3>3, <3>4, <3>5, <4>1, <4>2 DEF CountedExactly
    <3>7. QED
      BY <1>4, <2>2, <2>7, <3>1, <3>6 DEF SlotInv
  <2>10. CASE ~(slot > last_counted_slot[1])
    <3>1. UNCHANGED <<last_counted_slot, total_slots>>
      BY <1>2, <2>10 DEF CountsSlot, slot
    <3>2. SlotsInOrder' => slot \in C \cup {0}
      <4> SUFFICES ASSUME SlotsInOrder' PROVE slot \in C \cup {0}
        OBVIOUS
      <4>1. CASE last_counted_slot[1] = 0
        BY <1>4, <2>10, <4>1
      <4>2. CASE last_counted_slot[1] # 0
        <5>1. last_counted_slot[1] \in SlotsSeen /\ last_counted_slot[1] \in C
          BY <2>4, <4>2
        <5>2. last_counted_slot[1] <= slot
          BY <2>8, <5>1
        <5>3. last_counted_slot[1] = slot
          BY <1>3, <1>4, <2>10, <5>2
        <5>4. QED
          BY <5>1, <5>3
      <4>3. QED
        BY <4>1, <4>2
    <3>3. SlotsInOrder' => C = (SlotsSeen \cup {slot}) \ {0}
      BY <2>4, <2>8, <3>2
    <3>4. CountedExactly(C)'
      BY <2>2, <2>4, <3>1, <3>3 DEF CountedExactly
    <3>5. QED
      BY <1>3, <2>2, <2>7, <3>1, <3>4 DEF SlotInv
  <2>11. QED
    BY <2>9, <2>10
<1>9. QED
  BY <1>7, <1>8

LEMMA SlotStep == DispatchInv /\ SlotInv /\ [Next]_vars => SlotInv'
<1> SUFFICES ASSUME DispatchInv, SlotInv, [Next]_vars PROVE SlotInv'
  OBVIOUS
<1>1. dpc \in [Endpoint -> {"idle", "raw", "count", "done"}]
  BY DEF DispatchInv
<1>2. ASSUME NEW e \in Endpoint, WriteRaw(e) \/ Return(e) \/ (Count(e) /\ e = 2)
      PROVE  SlotInv'
  <2>1. UNCHANGED <<delivered, last_counted_slot, total_slots>>
    BY <1>2 DEF WriteRaw, Return, Count, CountsSlot
  <2>2. dpc'[1] \in {"raw", "count"} <=> dpc[1] \in {"raw", "count"}
    BY <1>1, <1>2 DEF WriteRaw, Return, Count, Goes, Endpoint
  <2>3. ProcessedSeen' = ProcessedSeen
    BY <2>1, <2>2 DEF ProcessedSeen
  <2>4. QED
    BY <2>1, <2>3, SlotsRest
<1>3. CASE DispatchersRest
  <2>1. ProcessedSeen' = ProcessedSeen
    BY <1>3 DEF DispatchersRest, ProcessedSeen
  <2>2. QED
    BY <1>3, <2>1, SlotsRest DEF DispatchersRest
<1>4. QED
  BY <1>2, <1>3, SlotTake, SlotCount, DispatchKinds DEF Endpoint

\* The slot count never counts a slot twice, and misses none but slot 0 where
\* slots come in order.
THEOREM NoSlotTwice == Spec => []SlotsCountedOnce
<1>1. Init => SlotInv
  <2> SUFFICES ASSUME Init PROVE SlotInv
    OBVIOUS
  <2>1. /\ delivered[1] = <<>> /\ last_counted_slot[1] = 0 /\ total_slots = 0
        /\ last_counted_slot \in [Endpoint -> Nat]
    BY DEF Init, Endpoint
  <2>2. ProcessedSeen = {} /\ SlotsSeen = {}
    BY <2>1 DEF ProcessedSeen, SlotsSeen
  <2>3. CountedExactly({})
    BY <2>1, <2>2, FS_EmptySet DEF CountedExactly
  <2>4. QED
    BY <2>1, <2>2, <2>3, FS_EmptySet DEF SlotInv
<1>2. SlotInv => SlotsCountedOnce
  <2> SUFFICES ASSUME SlotInv PROVE SlotsCountedOnce
    OBVIOUS
  <2>1. PICK C : CountedExactly(C)
    BY DEF SlotInv
  <2>2. C \subseteq SlotsSeen /\ IsFiniteSet(SlotsSeen)
    BY <2>1 DEF SlotInv, CountedExactly
  <2>3. Cardinality(C) <= Cardinality(SlotsSeen)
    BY <2>2, FS_Subset
  <2>4. QED
    BY <2>1, <2>3 DEF CountedExactly, SlotsInOrder, SlotsCountedOnce
<1>3. QED
  BY <1>1, <1>2, SlotStep, Dispatching, PTL DEF Spec

----------------------------------------------------------------------------
(* The file of raw records, when nothing went wrong.                        *)

\* What was handed over of one endpoint, and the updates in it.
WrittenOf(e) == Only(records, {e} \X Events)
UpdatesIn(s) == [i \in DOMAIN s |-> s[i][2]]

LEMMA UpdatesAppend ==
  ASSUME NEW U, NEW s \in Seq(Endpoint \X U), NEW r \in Endpoint \X U
  PROVE  UpdatesIn(Append(s, r)) = Append(UpdatesIn(s), r[2])
<1> DEFINE t == Append(s, r)
           v == UpdatesIn(s)
           n == Len(s)
<1>1. /\ n \in Nat /\ DOMAIN s = 1 .. n /\ t \in Seq(Endpoint \X U) /\ Len(t) = n + 1
      /\ t[n + 1] = r /\ (\A i \in 1 .. n : t[i] = s[i]) /\ DOMAIN t = 1 .. (n + 1)
  BY AppendProperties, LenProperties
<1>2. \A i \in 1 .. n : s[i][2] \in U
  BY ElementOfSeq
<1>3. v \in Seq(U) /\ Len(v) = n /\ \A i \in 1 .. n : v[i] = s[i][2]
  <2>1. v \in [1 .. n -> U]
    BY <1>1, <1>2 DEF UpdatesIn
  <2>2. v \in Seq(U) /\ Len(v) = n
    <3> HIDE DEF v, n
    <3>1. v \in Seq(U)
      BY <1>1, <2>1, SeqDef
    <3>2. QED
      BY <1>1, <2>1, <3>1, LenProperties
  <2>3. QED
    BY <1>1, <2>2 DEF UpdatesIn
<1>4. r[2] \in U
  OBVIOUS
<1> DEFINE x == r[2]
           w == Append(v, x)
<1>5. /\ w \in Seq(U) /\ Len(w) = n + 1 /\ w[n + 1] = x
      /\ (\A i \in 1 .. n : w[i] = v[i]) /\ DOMAIN w = 1 .. (n + 1)
  <2> HIDE DEF v, x
  <2>1. x \in U
    BY <1>4 DEF x
  <2>2. QED
    BY <1>1, <1>3, <2>1, AppendProperties, LenProperties
<1> HIDE DEF t, v, w, n
<1>6. UpdatesIn(t) = [i \in 1 .. (n + 1) |-> t[i][2]]
  BY <1>1 DEF UpdatesIn
<1>7. \A i \in 1 .. (n + 1) : t[i][2] = w[i]
  <2>1. \A i \in 1 .. (n + 1) : i = n + 1 \/ i \in 1 .. n
    BY <1>1
  <2>2. QED
    BY <1>1, <1>3, <1>5, <2>1
<1>8. w = [i \in 1 .. (n + 1) |-> w[i]]
  BY <1>5
<1>9. UpdatesIn(t) = w
  BY <1>6, <1>7, <1>8
<1>10. QED
  BY <1>9 DEF t, w, v

LEMMA UpdatesLength ==
  ASSUME NEW S, NEW s \in Seq(S)
  PROVE  /\ DOMAIN UpdatesIn(s) = 1 .. Len(s) /\ Len(s) \in Nat
         /\ Len(UpdatesIn(s)) = Len(s)
<1>1. DOMAIN s = 1 .. Len(s) /\ Len(s) \in Nat
  BY LenProperties
<1>2. UpdatesIn(s) \in [1 .. Len(s) -> {UpdatesIn(s)[i] : i \in 1 .. Len(s)}]
  BY <1>1 DEF UpdatesIn
<1>3. QED
  BY <1>1, <1>2, SeqDef, LenProperties

\* A dispatcher is at most one update ahead of what it has written.
WrittenInv ==
  /\ records \in Seq(Endpoint \X setup.updates)
  /\ setup.raw_records =>
       \A e \in Endpoint :
         Taken(e) = IF dpc[e] = "raw" THEN Append(UpdatesIn(WrittenOf(e)), Newest(e))
                    ELSE UpdatesIn(WrittenOf(e))

LEMMA WrittenStep == DispatchInv /\ WrittenInv /\ [Next]_vars => WrittenInv'
<1> SUFFICES ASSUME DispatchInv, WrittenInv, [Next]_vars PROVE WrittenInv'
  OBVIOUS
<1>0. /\ dpc \in [Endpoint -> {"idle", "raw", "count", "done"}]
      /\ records \in Seq(Endpoint \X setup.updates)
      /\ delivered \in [Endpoint -> Seq(setup.updates)]
  BY DEF DispatchInv, WrittenInv
<1>1. ASSUME NEW e \in Endpoint, NEW u \in setup.updates, Take(e, u)
      PROVE  WrittenInv'
  <2>1. /\ setup' = setup /\ dpc[e] = "idle" /\ delivered' = [delivered EXCEPT ![e] = Append(@, u)]
        /\ AppendedFacts(delivered'[e], delivered[e], u)
        /\ Taken(e)' = IF Decodes(u) THEN Append(Taken(e), u) ELSE Taken(e)
        /\ \A d \in Endpoint : d # e => delivered'[d] = delivered[d] /\ Taken(d)' = Taken(d)
    BY <1>1, TakeFacts
  <2>2. \/ Decodes(u) /\ dpc' = [dpc EXCEPT ![e] = IF setup.raw_records THEN "raw" ELSE "count"]
        \/ ~Decodes(u) /\ dpc' = dpc
    BY <1>1 DEF Take, Goes
  <2>3. records' = records /\ Events' = Events
    BY <1>1, <2>1 DEF Take, Events
  <2>4. Newest(e)' = u /\ \A d \in Endpoint : d # e => Newest(d)' = Newest(d)
    BY <2>1 DEF Newest, AppendedFacts
  <2>5. ASSUME setup.raw_records, NEW d \in Endpoint
        PROVE  Taken(d)' = IF dpc'[d] = "raw" THEN Append(UpdatesIn(WrittenOf(d)'), Newest(d)')
                           ELSE UpdatesIn(WrittenOf(d)')
    <3>1. Taken(d) = IF dpc[d] = "raw" THEN Append(UpdatesIn(WrittenOf(d)), Newest(d))
                     ELSE UpdatesIn(WrittenOf(d))
      BY <2>5 DEF WrittenInv
    <3>2. WrittenOf(d)' = WrittenOf(d)
      BY <2>3 DEF WrittenOf
    <3>3. d # e => dpc'[d] = dpc[d]
      BY <1>0, <2>2
    <3>4. dpc'[e] = IF Decodes(u) THEN "raw" ELSE "idle"
      BY <1>0, <2>1, <2>2, <2>5
    <3>5. QED
      BY <2>1, <2>4, <3>1, <3>2, <3>3, <3>4
  <2>6. UpdatesIn(WrittenOf(e))' = UpdatesIn(WrittenOf(e)')
    BY DEF UpdatesIn
  <2>7. QED
    BY <1>0, <2>1, <2>3, <2>5 DEF WrittenInv, UpdatesIn
<1>2. ASSUME NEW e \in Endpoint, WriteRaw(e)
      PROVE  WrittenInv'
  <2> DEFINE u == Newest(e)
             r == <<e, u>>
  <2>1. /\ dpc[e] = "raw" /\ dpc' = [dpc EXCEPT ![e] = "count"]
        /\ UNCHANGED <<setup, delivered>> /\ records' = Append(records, <<e, Last(Taken(e))>>)
    BY <1>2 DEF WriteRaw, Goes
  <2>2. Last(Taken(e)) = u /\ u \in Events /\ u \in setup.updates
    BY <2>1 DEF DispatchInv, Events
  <2> HIDE DEF u
  <2>3. records' = Append(records, r) /\ r \in Endpoint \X setup.updates
    BY <2>1, <2>2
  <2>4. /\ Events' = Events
        /\ \A d \in Endpoint : Taken(d)' = Taken(d) /\ Newest(d)' = Newest(d)
    BY <2>1 DEF Events, Taken, Newest
  <2>5. ASSUME setup.raw_records, NEW d \in Endpoint
        PROVE  Taken(d)' = IF dpc'[d] = "raw" THEN Append(UpdatesIn(WrittenOf(d)'), Newest(d)')
                           ELSE UpdatesIn(WrittenOf(d)')
    <3>1. Taken(d) = IF dpc[d] = "raw" THEN Append(UpdatesIn(WrittenOf(d)), Newest(d))
                     ELSE UpdatesIn(WrittenOf(d))
      BY <2>5 DEF WrittenInv
    <3>2. WrittenOf(d)' = IF r \in {d} \X Events THEN Append(WrittenOf(d), r) ELSE WrittenOf(d)
      <4> DEFINE own == {d} \X Events
                 all == Endpoint \X setup.updates
      <4>0. records \in Seq(all) /\ r \in all
        BY <1>0, <2>3
      <4> HIDE DEF r, own, all
      <4>1. Only(Append(records, r), own) =
              IF r \in own THEN Append(Only(records, own), r) ELSE Only(records, own)
        BY <4>0, OnlyAppend
      <4>2. QED
        BY <2>3, <2>4, <4>1 DEF WrittenOf, own
    <3>3. CASE d # e
      <4>1. dpc'[d] = dpc[d] /\ r \notin {d} \X Events
        BY <1>0, <2>1, <3>3
      <4>2. QED
        BY <2>4, <3>1, <3>2, <4>1
    <3>4. CASE d = e
      <4>1. r \in {d} \X Events /\ dpc'[e] = "count"
        BY <1>0, <2>1, <2>2, <3>4
      <4>2. WrittenOf(e)' = Append(WrittenOf(e), r)
        BY <3>2, <3>4, <4>1
      <4>3. WrittenOf(e) \in Seq(Endpoint \X setup.updates)
        BY <1>0, OnlyComesFrom DEF WrittenOf
      <4>4. UpdatesIn(Append(WrittenOf(e), r)) = Append(UpdatesIn(WrittenOf(e)), r[2])
        BY <2>3, <4>3, UpdatesAppend
      <4>5. Taken(e) = Append(UpdatesIn(WrittenOf(e)), u)
        BY <2>1, <3>1, <3>4 DEF u
      <4>6. QED
        BY <2>4, <3>4, <4>1, <4>2, <4>4, <4>5
    <3>5. QED
      BY <3>3, <3>4
  <2>6. records' \in Seq(Endpoint \X setup'.updates)
    <3> HIDE DEF r
    <3>1. QED
      BY <1>0, <2>1, <2>3, AppendProperties
  <2>7. QED
    BY <2>1, <2>5, <2>6 DEF WrittenInv, UpdatesIn
<1>3. ASSUME NEW e \in Endpoint, Count(e) \/ Return(e)
      PROVE  WrittenInv'
  <2>1. UNCHANGED <<setup, delivered, records>>
    BY <1>3 DEF Count, Return
  <2>2. \A d \in Endpoint : dpc'[d] = "raw" <=> dpc[d] = "raw"
    BY <1>0, <1>3 DEF Count, Return, Goes
  <2>3. QED
    BY <2>1, <2>2 DEF WrittenInv, Taken, WrittenOf, Events, Newest, UpdatesIn
<1>4. CASE DispatchersRest
  BY <1>4 DEF DispatchersRest, WrittenInv, Taken, WrittenOf, Events, Newest, UpdatesIn
<1>5. QED
  BY <1>1, <1>2, <1>3, <1>4, DispatchKinds

\* Every update delivered is taken, counted as malformed or a control message.
Skipped(e) == {i \in DOMAIN delivered[e] : delivered[e][i].kind = "control"}
CountedInv ==
  /\ decode_errors \in [Endpoint -> Nat]
  /\ \A e \in Endpoint :
       /\ IsFiniteSet(Skipped(e))
       /\ Len(Taken(e)) + decode_errors[e] + Cardinality(Skipped(e)) = Len(delivered[e])

LEMMA CountedStep == DispatchInv /\ CountedInv /\ [Next]_vars => CountedInv'
<1> SUFFICES ASSUME DispatchInv, CountedInv, [Next]_vars PROVE CountedInv'
  OBVIOUS
<1>1. ASSUME NEW e \in Endpoint, NEW u \in setup.updates, Take(e, u)
      PROVE  CountedInv'
  <2> DEFINE n == Len(delivered[e])
  <2>1. /\ AppendedFacts(delivered'[e], delivered[e], u) /\ delivered'[e] \in Seq(setup.updates)
        /\ Taken(e)' = IF Decodes(u) THEN Append(Taken(e), u) ELSE Taken(e)
        /\ \A d \in Endpoint : d # e => delivered'[d] = delivered[d] /\ Taken(d)' = Taken(d)
    BY <1>1, TakeFacts
  <2>2. decode_errors' = IF Decodes(u) \/ IsControl(u) THEN decode_errors
                         ELSE [decode_errors EXCEPT ![e] = @ + 1]
    BY <1>1 DEF Take, CountedInv
  <2>3. /\ n \in Nat /\ DOMAIN delivered[e] = 1 .. n /\ DOMAIN delivered'[e] = 1 .. (n + 1)
        /\ Len(delivered'[e]) = n + 1 /\ delivered'[e][n + 1] = u
        /\ \A i \in 1 .. n : delivered'[e][i] = delivered[e][i]
    BY <2>1, TakenType, LenProperties DEF AppendedFacts
  <2> HIDE DEF n
  <2>4. Skipped(e)' = IF IsControl(u) THEN Skipped(e) \cup {n + 1} ELSE Skipped(e)
    <3>1. \A i : i \in 1 .. (n + 1) <=> i \in 1 .. n \/ i = n + 1
      BY <2>3
    <3>2. QED
      BY <2>3, <3>1 DEF Skipped, IsControl
  <2>5. n + 1 \notin Skipped(e) /\ IsFiniteSet(Skipped(e)) /\ Cardinality(Skipped(e)) \in Nat
    <3>1. IsFiniteSet(Skipped(e))
      BY DEF CountedInv
    <3>2. n + 1 \notin Skipped(e)
      BY <2>3 DEF Skipped
    <3>3. QED
      BY <3>1, <3>2, FS_CardinalityType
  <2>6. /\ IsFiniteSet(Skipped(e)')
        /\ Cardinality(Skipped(e)') = Cardinality(Skipped(e)) + (IF IsControl(u) THEN 1 ELSE 0)
    <3> DEFINE before == Skipped(e)
               after == Skipped(e)'
    <3>1. IsFiniteSet(before) /\ n + 1 \notin before /\ Cardinality(before) \in Nat
      BY <2>5
    <3>2. after = IF IsControl(u) THEN before \cup {n + 1} ELSE before
      BY <2>4
    <3> HIDE DEF before, after
    <3>3. CASE IsControl(u)
      <4>1. IsFiniteSet(before \cup {n + 1}) /\ Cardinality(before \cup {n + 1}) = Cardinality(before) + 1
        BY <3>1, FS_AddElement
      <4>2. QED
        BY <3>2, <3>3, <4>1 DEF before, after
    <3>4. CASE ~IsControl(u)
      BY <3>1, <3>2, <3>4 DEF before, after
    <3>5. QED
      BY <3>3, <3>4
  <2>7. Len(Taken(e)') = Len(Taken(e)) + (IF Decodes(u) THEN 1 ELSE 0) /\ Len(Taken(e)) \in Nat
    BY <2>1, TakenType, AppendFacts DEF AppendedFacts
  <2>8. /\ decode_errors[e] \in Nat
        /\ decode_errors'[e] = decode_errors[e] + (IF Decodes(u) \/ IsControl(u) THEN 0 ELSE 1)
        /\ decode_errors' \in [Endpoint -> Nat]
        /\ \A d \in Endpoint : d # e => decode_errors'[d] = decode_errors[d]
    BY <2>2 DEF CountedInv
  <2>9. Len(Taken(e)) + decode_errors[e] + Cardinality(Skipped(e)) = n
    BY DEF CountedInv, n
  <2>10. ~(Decodes(u) /\ IsControl(u))
    BY DEF Decodes
  <2>11. Len(Taken(e)') + decode_errors'[e] + Cardinality(Skipped(e)') = Len(delivered'[e])
    BY <2>3, <2>5, <2>6, <2>7, <2>8, <2>9, <2>10
  <2>12. \A d \in Endpoint : d # e => Skipped(d)' = Skipped(d)
    BY <2>1 DEF Skipped
  <2>13. QED
    BY <2>1, <2>6, <2>8, <2>11, <2>12 DEF CountedInv
<1>2. ASSUME UNCHANGED <<setup, delivered, decode_errors>>
      PROVE  CountedInv'
  BY <1>2 DEF CountedInv, Skipped, Taken, Events
<1>3. ASSUME NEW e \in Endpoint, WriteRaw(e) \/ Count(e) \/ Return(e)
      PROVE  CountedInv'
  BY <1>2, <1>3 DEF WriteRaw, Count, Return
<1>4. CASE DispatchersRest
  BY <1>2, <1>4 DEF DispatchersRest
<1>5. QED
  BY <1>1, <1>3, <1>4, DispatchKinds

\* An error stands in the warning until the coordinator takes it; if it found
\* none, the file holds all the records.
AllOnDisk == raw.disk = records /\ raw.buffer = <<>>
FileInv ==
  /\ cpc \in {"loop", "join", "flush"} => (raw.poisoned => raw.warning)
  /\ cpc \in {"loop", "join"} => reclaimed = {}
  /\ reclaimed \subseteq Endpoint /\ \A e \in reclaimed : dpc[e] = "done"
  /\ cpc \in {"loop", "join", "flush", "merge", "pings", "exited"}
  /\ cpc \in {"merge", "pings", "exited"} /\ reclaimed = Endpoint /\ ~log => AllOnDisk

LEMMA WriteWarns ==
  ASSUME NEW S, NEW w \in WriterType(S), NEW r \in S, w.poisoned => w.warning, NEW v \in Write(w, r)
  PROVE  v.poisoned => v.warning
<1>1. \A u \in WriterType(S) : \A n : /\ SpilledBy(u, n).poisoned = u.poisoned
                                       /\ SpilledBy(u, n).warning = u.warning
  BY DEF SpilledBy, WriterType
<1>2. ASSUME NEW u, v \in Failed(u), "warning" \in DOMAIN u
      PROVE  v.warning
  BY <1>2 DEF Failed, SpilledBy
<1>3. ASSUME NEW u, v = Counted(Buffered(u, r)), "poisoned" \in DOMAIN u
      PROVE  v.poisoned = u.poisoned
  BY <1>3 DEF Counted, Buffered
<1>4. "warning" \in DOMAIN w /\ "poisoned" \in DOMAIN w
  BY DEF WriterType
<1>5. "warning" \in DOMAIN Buffered(w, r) /\ "poisoned" \in DOMAIN SpilledBy(w, Len(w.buffer))
  BY <1>4 DEF Buffered, SpilledBy
<1>6. CASE w.poisoned
  BY <1>6 DEF Write
<1>7. CASE ~w.poisoned
  <2>1. \/ v = Counted(Buffered(w, r)) \/ v = Counted(Buffered(SpilledBy(w, Len(w.buffer)), r))
        \/ v \in Failed(w) \/ v \in Failed(Buffered(w, r))
    BY <1>7 DEF Write
  <2>2. CASE v = Counted(Buffered(w, r)) \/ v = Counted(Buffered(SpilledBy(w, Len(w.buffer)), r))
    <3>1. SpilledBy(w, Len(w.buffer)).poisoned = w.poisoned
      BY <1>1
    <3>2. v.poisoned = w.poisoned
      BY <1>3, <1>4, <1>5, <2>2, <3>1
    <3>3. QED
      BY <1>7, <3>2
  <2>3. CASE v \in Failed(w) \/ v \in Failed(Buffered(w, r))
    BY <1>2, <1>4, <1>5, <2>3
  <2>4. QED
    BY <2>1, <2>2, <2>3
<1>8. QED
  BY <1>6, <1>7

\* A flush that leaves no warning has brought everything to the file.
LEMMA FlushBringsAll ==
  ASSUME NEW S, NEW w, NEW recs, Holds(w, recs, S), w.poisoned => w.warning,
         NEW v \in Flush(w), ~v.warning
  PROVE  WarningTaken(v).disk = recs /\ WarningTaken(v).buffer = <<>>
<1>1. w \in WriterType(S)
  BY DEF Holds
<1>2. v \notin Failed(w)
  <2>1. \A u \in Failed(w) : u.warning
    BY <1>1 DEF Failed, SpilledBy, WriterType
  <2>2. QED
    BY <2>1
<1>3. ~w.poisoned /\ v = SpilledBy(w, Len(w.buffer))
  BY <1>2 DEF Flush
<1> DEFINE buffer == w.buffer
           n == Len(buffer)
<1>4. buffer \in Seq(S) /\ n \in Nat
  BY <1>1, LenProperties DEF WriterType
<1>5. SubSeq(buffer, 1, n) = buffer
  BY <1>4, SubSeqFull
<1>6. SubSeq(buffer, n + 1, n) = <<>>
  BY <1>4, SubSeqEmpty
<1>7. /\ WarningTaken(v).disk = w.disk \o SubSeq(buffer, 1, n)
      /\ WarningTaken(v).buffer = SubSeq(buffer, n + 1, n)
  BY <1>1, <1>3 DEF WarningTaken, SpilledBy, WriterType
<1>8. w.disk \o buffer = recs
  BY <1>3 DEF Holds, Through
<1>9. QED
  BY <1>5, <1>6, <1>7, <1>8

LEMMA DropAddsNone ==
  ASSUME NEW S, NEW w \in WriterType(S), w.buffer = <<>>, NEW v \in Dropped(w)
  PROVE  v.disk = w.disk /\ v.buffer = <<>>
<1>1. Len(w.buffer) = 0
  BY EmptySeq
<1>2. PICK n \in 0 .. Len(w.buffer) : v = SpilledBy(w, n)
  BY DEF Dropped
<1>3. n = 0
  BY <1>1, <1>2
<1> DEFINE none == w.buffer
           disk == w.disk
<1>4. v.disk = disk \o SubSeq(none, 1, 0) /\ v.buffer = SubSeq(none, 1, 0)
  <2>1. 0 + 1 = 1
    OBVIOUS
  <2>2. QED
    BY <1>1, <1>2, <1>3, <2>1 DEF SpilledBy, WriterType
<1>5. disk \in Seq(S) /\ none \in Seq(S) /\ none = <<>>
  BY DEF WriterType
<1> HIDE DEF none, disk
<1>6. SubSeq(none, 1, 0) = <<>>
  BY <1>5, SubSeqEmpty
<1>7. disk \o <<>> = disk
  BY <1>5, ConcatEmptySeq
<1>8. QED
  BY <1>4, <1>6, <1>7 DEF disk

LEMMA FileStep == DispatchInv /\ RawInv /\ FileInv /\ [Next]_vars => FileInv'
<1> SUFFICES ASSUME DispatchInv, RawInv, FileInv, [Next]_vars PROVE FileInv'
  OBVIOUS
<1>0. PICK S : Holds(raw, records, S)
  BY DEF RawInv
<1>1. dpc \in [Endpoint -> {"idle", "raw", "count", "done"}]
  BY DEF DispatchInv
<1>2. ASSUME UNCHANGED <<raw, records, dpc, cpc, reclaimed, log>>
      PROVE  FileInv'
  BY <1>2 DEF FileInv, AllOnDisk
<1>3. ASSUME NEW e \in Endpoint, NEW u \in setup.updates, Take(e, u)
      PROVE  FileInv'
  <2>1. UNCHANGED <<raw, records, cpc, reclaimed, log>> /\ dpc[e] = "idle"
    BY <1>3 DEF Take, closing
  <2>2. \A d \in Endpoint : d # e => dpc'[d] = dpc[d]
    BY <1>1, <1>3 DEF Take, Goes
  <2>3. QED
    BY <2>1, <2>2 DEF FileInv, AllOnDisk
<1>4. ASSUME NEW e \in Endpoint, Count(e) \/ Return(e)
      PROVE  FileInv'
  <2>1. UNCHANGED <<raw, records, cpc, reclaimed, log>> /\ dpc[e] \in {"count", "idle"}
    BY <1>4 DEF Count, Return, closing
  <2>2. \A d \in Endpoint : d # e => dpc'[d] = dpc[d]
    BY <1>1, <1>4 DEF Count, Return, Goes
  <2>3. QED
    BY <2>1, <2>2 DEF FileInv, AllOnDisk
<1>5. ASSUME NEW e \in Endpoint, WriteRaw(e)
      PROVE  FileInv'
  <2>1. /\ UNCHANGED <<cpc, reclaimed, log>> /\ dpc[e] = "raw"
        /\ \A d \in Endpoint : d # e => dpc'[d] = dpc[d]
    BY <1>1, <1>5 DEF WriteRaw, Goes, closing
  <2>2. raw' \in Write(raw, <<e, Last(Taken(e))>>)
    BY <1>5 DEF WriteRaw
  <2> DEFINE r == <<e, Last(Taken(e))>>
             T == S \cup {r}
  <2> HIDE DEF r
  <2>3. raw \in WriterType(T)
    <3>1. S \subseteq T
      OBVIOUS
    <3> HIDE DEF T
    <3>2. QED
      BY <1>0, <3>1, HoldsMore DEF Holds
  <2>4. raw.poisoned /\ raw.warning => raw'.poisoned /\ raw'.warning
    BY <2>2 DEF Write
  <2>5. (raw.poisoned => raw.warning) => (raw'.poisoned => raw'.warning)
    <3> r \in T
      OBVIOUS
    <3> HIDE DEF T
    <3>1. QED
      BY <2>2, <2>3, WriteWarns DEF r
  <2>6. reclaimed # Endpoint
    BY <2>1 DEF FileInv
  <2>7. QED
    BY <2>1, <2>5, <2>6 DEF FileInv
<1>6. CASE FlushRaw
  <2>1. /\ cpc = "flush" /\ cpc' = "merge" /\ UNCHANGED <<dpc, records, reclaimed>>
        /\ \E flushed \in Flush(raw) : raw' = WarningTaken(flushed) /\ log' = flushed.warning
    BY <1>6 DEF FlushRaw
  <2>2. ~log' => AllOnDisk'
    BY <1>0, <2>1, FlushBringsAll DEF FileInv, AllOnDisk
  <2>3. QED
    BY <2>1, <2>2 DEF FileInv
<1>7. CASE Exit
  <2>1. /\ cpc = "pings" /\ cpc' = "exited" /\ UNCHANGED <<dpc, records, reclaimed, log>>
        /\ raw' \in Dropped(raw) \cup {raw}
    BY <1>7 DEF Exit
  <2>2. reclaimed = Endpoint /\ ~log => AllOnDisk'
    BY <1>0, <2>1, DropAddsNone DEF FileInv, AllOnDisk, Holds
  <2>3. QED
    BY <2>1, <2>2 DEF FileInv
<1>8. CASE Stop
  BY <1>8 DEF Stop, dispatching, FileInv
<1>9. CASE Join
  BY <1>9 DEF Join, dispatching, FileInv
<1>10. CASE Merge
  BY <1>10 DEF Merge, dispatching, FileInv, AllOnDisk
<1>11. ASSUME NEW e \in Endpoint, PingOuter(e) \/ PingConnect(e) \/ PingInner(e) \/ PingAnswered(e)
                                    \/ PingCounted(e) \/ PingFails(e) \/ PauseEnds(e)
       PROVE  FileInv'
  BY <1>2, <1>11 DEF PingOuter, PingConnect, PingInner, PingAnswered, PingCounted, PingFails,
                     PauseEnds, PingGoes, dispatching, closing
<1>12. ASSUME NEW e \in Endpoint, ReadSum(e) \/ ReadCount(e)
       PROVE  FileInv'
  BY <1>2, <1>12 DEF ReadSum, ReadCount, dispatching
<1>13. CASE UNCHANGED vars
  BY <1>2, <1>13 DEF vars, dispatching, closing
<1>14. QED
  BY <1>3, <1>4, <1>5, <1>6, <1>7, <1>8, <1>9, <1>10, <1>11, <1>12, <1>13 DEF Next

LEMMA InitFileInv == Init => WrittenInv /\ CountedInv /\ FileInv
<1> SUFFICES ASSUME Init PROVE WrittenInv /\ CountedInv /\ FileInv
  OBVIOUS
<1>1. /\ records = <<>> /\ \A e \in Endpoint : delivered[e] = <<>> /\ decode_errors[e] = 0
      /\ \A e \in Endpoint : dpc[e] # "raw"
      /\ decode_errors \in [Endpoint -> Nat]
  BY DEF Init
<1>2. <<>> \in Seq(Endpoint \X setup.updates) /\ Len(<<>>) = 0 /\ DOMAIN <<>> = {}
  BY EmptySeq
<1>3. ASSUME NEW e \in Endpoint
      PROVE  Taken(e) = <<>> /\ UpdatesIn(WrittenOf(e)) = <<>> /\ Skipped(e) = {}
  <2>1. WrittenOf(e) = <<>>
    BY <1>1, OnlyEmpty DEF WrittenOf
  <2>2. UpdatesIn(<<>>) = <<>>
    <3>1. UpdatesIn(<<>>) = [i \in {} |-> <<>>[i][2]]
      BY <1>2 DEF UpdatesIn
    <3>2. QED
      BY <3>1
  <2>3. QED
    BY <1>1, <1>2, <2>1, <2>2, TakenEmpty DEF Skipped
<1>4. WrittenInv
  BY <1>1, <1>2, <1>3 DEF WrittenInv
<1>5. CountedInv
  <2>1. IsFiniteSet({}) /\ Cardinality({}) = 0
    BY FS_EmptySet
  <2>2. ASSUME NEW e \in Endpoint
        PROVE  /\ IsFiniteSet(Skipped(e))
               /\ Len(Taken(e)) + decode_errors[e] + Cardinality(Skipped(e)) = Len(delivered[e])
    <3>1. Len(Taken(e)) = 0 /\ Len(delivered[e]) = 0 /\ decode_errors[e] = 0
      <4>1. Taken(e) = <<>> /\ delivered[e] = <<>>
        BY <1>1, <1>3
      <4>2. QED
        BY <1>1, <1>2, <4>1
    <3>2. IsFiniteSet(Skipped(e)) /\ Cardinality(Skipped(e)) = 0
      BY <1>3, <2>1
    <3>3. QED
      BY <3>1, <3>2
  <2>3. QED
    BY <1>1, <2>2 DEF CountedInv
<1>6. FileInv
  BY DEF Init, NewWriter, FileInv
<1>7. QED
  BY <1>4, <1>5, <1>6

\* A file of raw records that the coordinator found nothing wrong with, after
\* both dispatchers ended, holds every event of either server in order, for any
\* updates, any size of the buffer and any failing writes.
THEOREM CompleteFile == Spec => []RawComplete
<1>1. DispatchInv /\ WrittenInv /\ CountedInv /\ FileInv => RawComplete
  <2> SUFFICES ASSUME DispatchInv, WrittenInv, CountedInv, FileInv,
                      cpc = "exited", setup.raw_records, reclaimed = Endpoint, ~log,
                      NEW e \in Endpoint
               PROVE  LET own == Only(raw.disk, {e} \X Events)
                          skipped == {i \in DOMAIN delivered[e] : delivered[e][i].kind = "control"}
                      IN /\ [i \in DOMAIN own |-> own[i][2]] = Taken(e)
                         /\ Len(own) + decode_errors[e] + Cardinality(skipped) = Len(delivered[e])
    BY DEF RawComplete
  <2>1. raw.disk = records /\ dpc[e] = "done"
    BY DEF FileInv, AllOnDisk
  <2>2. Only(raw.disk, {e} \X Events) = WrittenOf(e)
    BY <2>1 DEF WrittenOf
  <2>3. UpdatesIn(WrittenOf(e)) = Taken(e)
    BY <2>1 DEF WrittenInv
  <2>4. WrittenOf(e) \in Seq(Endpoint \X setup.updates)
    BY OnlyComesFrom DEF WrittenInv, WrittenOf
  <2>5. Len(WrittenOf(e)) = Len(Taken(e))
    BY <2>3, <2>4, UpdatesLength
  <2>6. Len(Taken(e)) + decode_errors[e] + Cardinality(Skipped(e)) = Len(delivered[e])
    BY DEF CountedInv
  <2>7. QED
    BY <2>2, <2>3, <2>5, <2>6 DEF UpdatesIn, Skipped
<1>2. QED
  BY <1>1, InitFileInv, InitRawInv, NextRawInv, WrittenStep, CountedStep, FileStep, Dispatching,
     PTL DEF Spec

----------------------------------------------------------------------------
(* The pairing of the two streams.                                          *)

\* How a matcher accounts for the things of the set A: m[t] is how often t was
\* matched, W[e] what waits for the other endpoint, T[e][t] how often it was
\* delivered, F what endpoint 1 delivered, c the number of matches.
Paired(m, W, T, A, F, c) ==
  /\ m \in [A -> Nat] /\ F \subseteq A /\ IsFiniteSet(F) /\ c = SumFunctionOnSet(m, F)
  /\ T \in [Endpoint -> [A -> Nat]]
  /\ \A t \in A :
       /\ t \in F <=> T[1][t] # 0
       /\ ~(t \in W[1] /\ t \in W[2])
       /\ \A e \in Endpoint :
            /\ m[t] + (IF t \in W[e] THEN 1 ELSE 0) <= T[e][t]
            /\ T[e][t] # 0 => m[t] # 0 \/ t \in W[e]

\* One more delivery, of the thing x by the endpoint e.
OneMore(T, T2, F, F2, A, e, x) ==
  /\ T2 \in [Endpoint -> [A -> Nat]]
  /\ \A d \in Endpoint : \A t \in A : T2[d][t] = T[d][t] + (IF d = e /\ t = x THEN 1 ELSE 0)
  /\ F2 = IF e = 1 THEN F \cup {x} ELSE F

LEMMA PairHit ==
  ASSUME NEW A, NEW m, NEW W, NEW T, NEW F, NEW c, Paired(m, W, T, A, F, c),
         NEW e \in Endpoint, NEW x \in A, NEW W2, NEW T2, NEW F2, OneMore(T, T2, F, F2, A, e, x),
         x \in W[3 - e], W2[3 - e] = W[3 - e] \ {x}, W2[e] = W[e]
  PROVE  Paired([m EXCEPT ![x] = @ + 1], W2, T2, A, F2, c + 1)
<1> DEFINE k == [m EXCEPT ![x] = @ + 1]
<1>1. /\ k \in [A -> Nat] /\ k[x] = m[x] + 1 /\ m[x] \in Nat /\ m \in [A -> Nat]
      /\ \A t \in A : t # x => k[t] = m[t]
  BY DEF Paired
<1> HIDE DEF k
<1>2. F \subseteq A /\ IsFiniteSet(F) /\ c = SumFunctionOnSet(m, F)
  BY DEF Paired
<1>3. 3 - e \in Endpoint /\ 3 - e # e /\ \A d \in Endpoint : d = e \/ d = 3 - e
  BY DEF Endpoint
<1>4. /\ T \in [Endpoint -> [A -> Nat]]
      /\ x \in F <=> T[1][x] # 0
      /\ ~(x \in W[1] /\ x \in W[2])
      /\ \A d \in Endpoint : m[x] + (IF x \in W[d] THEN 1 ELSE 0) <= T[d][x]
  BY DEF Paired
<1>5. F2 = F \cup {x} /\ (x \notin F => k[x] = 1)
  <2>1. CASE e = 1
    <3>1. x \notin F => m[x] = 0
      BY <1>1, <1>4, <2>1 DEF Endpoint
    <3>2. QED
      BY <1>1, <2>1, <3>1 DEF OneMore
  <2>2. CASE e = 2
    <3>1. x \in W[1]
      BY <2>2
    <3>2. x \in F
      BY <1>1, <1>4, <3>1 DEF Endpoint
    <3>3. QED
      BY <2>2, <3>2 DEF OneMore
  <2>3. QED
    BY <2>1, <2>2 DEF Endpoint
<1>6. IsFiniteSet(F2) /\ F2 \subseteq A
  BY <1>2, <1>5, FS_AddElement
<1>7. SumFunctionOnSet(k, F2) = c + 1
  <2>1. \A y \in F : m[y] \in Int
    BY <1>1, <1>2
  <2>2. \A y \in F \ {x} : k[y] = m[y]
    BY <1>1, <1>2
  <2>3. x \in F => k[x] = m[x] + 1
    BY <1>1
  <2>4. SumFunctionOnSet(k, F \cup {x}) = SumFunctionOnSet(m, F) + 1
    BY <1>2, <1>5, <2>1, <2>2, <2>3, SumPlusOne
  <2>5. QED
    BY <1>2, <1>5, <2>4
<1>8. ASSUME NEW t \in A
      PROVE  /\ t \in F2 <=> T2[1][t] # 0
             /\ ~(t \in W2[1] /\ t \in W2[2])
             /\ \A d \in Endpoint :
                  /\ k[t] + (IF t \in W2[d] THEN 1 ELSE 0) <= T2[d][t]
                  /\ T2[d][t] # 0 => k[t] # 0 \/ t \in W2[d]
  <2>1. /\ t \in F <=> T[1][t] # 0
        /\ ~(t \in W[1] /\ t \in W[2])
        /\ \A d \in Endpoint :
             /\ m[t] + (IF t \in W[d] THEN 1 ELSE 0) <= T[d][t]
             /\ T[d][t] # 0 => m[t] # 0 \/ t \in W[d]
             /\ T[d][t] \in Nat /\ m[t] \in Nat
             /\ T2[d][t] = T[d][t] + (IF d = e /\ t = x THEN 1 ELSE 0)
    BY DEF Paired, OneMore
  <2>2. CASE t # x
    <3>1. \A d \in Endpoint : T2[d][t] = T[d][t] /\ (t \in W2[d] <=> t \in W[d]) /\ k[t] = m[t]
      BY <1>1, <1>3, <2>1, <2>2
    <3>2. 1 \in Endpoint /\ 2 \in Endpoint /\ (t \in F2 <=> t \in F)
      BY <1>5, <2>2 DEF Endpoint
    <3>3. QED
      BY <2>1, <3>1, <3>2
  <2>3. CASE t = x
    <3>1. x \notin W2[3 - e] /\ x \notin W2[e]
      BY <1>3, <1>4 DEF Endpoint
    <3>2. ASSUME NEW d \in Endpoint
          PROVE  k[x] <= T2[d][x] /\ k[x] # 0 /\ x \notin W2[d]
      <4>1. CASE d = e
        BY <1>1, <1>3, <2>1, <2>3, <3>1, <4>1
      <4>2. CASE d = 3 - e
        BY <1>1, <1>3, <2>1, <2>3, <3>1, <4>2
      <4>3. QED
        BY <1>3, <4>1, <4>2
    <3>3. T2[1][x] # 0 /\ x \in F2
      BY <1>1, <1>5, <3>2 DEF Endpoint, OneMore
    <3>4. 1 \in Endpoint /\ 2 \in Endpoint
      BY DEF Endpoint
    <3>5. QED
      BY <1>1, <2>3, <3>2, <3>3, <3>4
  <2>4. QED
    BY <2>2, <2>3
<1>9. Paired(k, W2, T2, A, F2, c + 1)
  BY <1>1, <1>6, <1>7, <1>8 DEF Paired, OneMore
<1>10. QED
  BY <1>9 DEF k

LEMMA PairMiss ==
  ASSUME NEW A, NEW m, NEW W, NEW T, NEW F, NEW c, Paired(m, W, T, A, F, c),
         NEW e \in Endpoint, NEW x \in A, NEW W2, NEW T2, NEW F2, OneMore(T, T2, F, F2, A, e, x),
         x \notin W[3 - e], W2[3 - e] = W[3 - e], W2[e] = W[e] \cup {x}
  PROVE  Paired(m, W2, T2, A, F2, c)
<1>1. /\ m \in [A -> Nat] /\ F \subseteq A /\ IsFiniteSet(F) /\ c = SumFunctionOnSet(m, F)
      /\ T \in [Endpoint -> [A -> Nat]] /\ m[x] \in Nat
  BY DEF Paired
<1>2. 3 - e \in Endpoint /\ 3 - e # e /\ \A d \in Endpoint : d = e \/ d = 3 - e
  BY DEF Endpoint
<1>3. IsFiniteSet(F2) /\ F2 \subseteq A
  BY <1>1, FS_AddElement DEF OneMore
<1>4. SumFunctionOnSet(m, F2) = c
  <2>1. CASE e = 1 /\ x \notin F
    <3>1. T[1][x] = 0 /\ m[x] = 0
      <4>1. /\ x \in F <=> T[1][x] # 0
            /\ m[x] + (IF x \in W[1] THEN 1 ELSE 0) <= T[1][x]
        BY DEF Paired, Endpoint
      <4>2. QED
        BY <1>1, <2>1, <4>1
    <3>2. \A y \in F : m[y] \in Int
      BY <1>1
    <3>3. SumFunctionOnSet(m, F \cup {x}) = m[x] + SumFunctionOnSet(m, F)
      BY <1>1, <2>1, <3>1, <3>2, SumAdd
    <3>4. SumFunctionOnSet(m, F) \in Int
      BY <1>1, <3>2, SumRest
    <3>5. QED
      BY <1>1, <2>1, <3>1, <3>3, <3>4 DEF OneMore
  <2>2. CASE ~(e = 1 /\ x \notin F)
    <3>1. F2 = F
      BY <2>2 DEF OneMore
    <3>2. QED
      BY <1>1, <3>1
  <2>3. QED
    BY <2>1, <2>2
<1>5. ASSUME NEW t \in A
      PROVE  /\ t \in F2 <=> T2[1][t] # 0
             /\ ~(t \in W2[1] /\ t \in W2[2])
             /\ \A d \in Endpoint :
                  /\ m[t] + (IF t \in W2[d] THEN 1 ELSE 0) <= T2[d][t]
                  /\ T2[d][t] # 0 => m[t] # 0 \/ t \in W2[d]
  <2>1. /\ t \in F <=> T[1][t] # 0
        /\ ~(t \in W[1] /\ t \in W[2])
        /\ \A d \in Endpoint :
             /\ m[t] + (IF t \in W[d] THEN 1 ELSE 0) <= T[d][t]
             /\ T[d][t] # 0 => m[t] # 0 \/ t \in W[d]
             /\ T[d][t] \in Nat /\ m[t] \in Nat
             /\ T2[d][t] = T[d][t] + (IF d = e /\ t = x THEN 1 ELSE 0)
    BY DEF Paired, OneMore
  <2>2. t \in F2 <=> T2[1][t] # 0
    BY <2>1 DEF OneMore, Endpoint
  <2>3. CASE t # x
    <3>1. \A d \in Endpoint : T2[d][t] = T[d][t] /\ (t \in W2[d] <=> t \in W[d])
      BY <1>2, <2>1, <2>3
    <3>2. 1 \in Endpoint /\ 2 \in Endpoint
      BY DEF Endpoint
    <3>3. QED
      BY <2>1, <2>2, <3>1, <3>2
  <2>4. CASE t = x
    <3>1. x \notin W2[3 - e] /\ x \in W2[e]
      OBVIOUS
    <3>2. ASSUME NEW d \in Endpoint
          PROVE  /\ m[x] + (IF x \in W2[d] THEN 1 ELSE 0) <= T2[d][x]
                 /\ T2[d][x] # 0 => m[x] # 0 \/ x \in W2[d]
      <4>1. CASE d = e
        BY <1>1, <1>2, <2>1, <2>4, <3>1, <4>1
      <4>2. CASE d = 3 - e
        BY <1>1, <1>2, <2>1, <2>4, <3>1, <4>2
      <4>3. QED
        BY <1>2, <4>1, <4>2
    <3>3. ~(x \in W2[1] /\ x \in W2[2])
      BY <3>1 DEF Endpoint
    <3>4. QED
      BY <2>2, <2>4, <3>2, <3>3
  <2>5. QED
    BY <2>3, <2>4
<1>6. QED
  BY <1>1, <1>3, <1>4, <1>5 DEF Paired, OneMore

\* The things of a matcher.
Counting(n, u) == Decodes(u) /\ Measured(n, u)
ThingsOf(n) == {Thing(u) : u \in {v \in setup.updates : Counting(n, v)}}
FirstOf(n) ==
  {Thing(u) : u \in {v \in {delivered[1][i] : i \in DOMAIN delivered[1]} : Counting(n, v)}}
WaitingOf(n) == [e \in Endpoint |-> {t \in ThingsOf(n) : KeyOf(t) \in matchers[n].waiting[e]}]
TimesOf(n) == [e \in Endpoint |-> [t \in ThingsOf(n) |-> Times(e, t)]]

IsMatcher(x) ==
  /\ x = [waiting |-> x.waiting, matched |-> x.matched]
  /\ x.waiting = [e \in Endpoint |-> x.waiting[e]]

PairInv ==
  \A n \in MatcherNames :
    /\ IsMatcher(matchers[n])
    /\ \E m : Paired(m, WaitingOf(n), TimesOf(n), ThingsOf(n), FirstOf(n), matchers[n].matched)

\* An event counts for the matchers it is dispatched to.
LEMMA CountingIs ==
  ASSUME NEW u, IsUpdate(u), NEW n \in MatcherNames, Decodes(u)
  PROVE  Counting(n, u) <=> n \in MatchersOf(u)
BY DEF Counting, Measured, MatchersOf, IsUpdate, MatcherNames, Stages, Decodes, IsControl

\* For a matcher a key stands for a thing, and the thing says whether it counts.
LEMMA KeysAreThings ==
  ASSUME NEW u, IsUpdate(u), NEW v, IsUpdate(v), NEW n \in MatcherNames
  PROVE  /\ KeyOf(Thing(u)) = KeyOf(u)
         /\ Counting(n, u) /\ Counting(n, v) /\ KeyOf(u) = KeyOf(v) => Thing(u) = Thing(v)
         /\ Thing(u) = Thing(v) /\ Counting(n, u) => Counting(n, v)
<1>1. /\ u = [kind |-> u.kind, stage |-> u.stage, slot |-> u.slot, id |-> u.id,
              commitment |-> u.commitment]
      /\ v = [kind |-> v.kind, stage |-> v.stage, slot |-> v.slot, id |-> v.id,
              commitment |-> v.commitment]
      /\ u.kind # "slot" => u.stage = NoId
      /\ v.kind # "slot" => v.stage = NoId
  BY DEF IsUpdate, Event
<1>2. /\ Thing(u) = [kind |-> u.kind, stage |-> u.stage, slot |-> u.slot, id |-> u.id,
                     commitment |-> IF u.kind = "block" THEN u.commitment ELSE NoLevel]
      /\ Thing(v) = [kind |-> v.kind, stage |-> v.stage, slot |-> v.slot, id |-> v.id,
                     commitment |-> IF v.kind = "block" THEN v.commitment ELSE NoLevel]
  BY <1>1 DEF Thing
<1>3. KeyOf(Thing(u)) = KeyOf(u)
  BY <1>2 DEF KeyOf
<1>4. ASSUME Counting(n, u), Counting(n, v), KeyOf(u) = KeyOf(v)
      PROVE  Thing(u) = Thing(v)
  <2>1. u.kind = v.kind /\ u.stage = v.stage
    BY <1>1, <1>4 DEF Counting, Measured, MatcherNames, Stages
  <2>2. /\ u.slot = v.slot /\ u.id = v.id
        /\ (IF u.kind = "block" THEN u.commitment ELSE NoLevel)
             = (IF v.kind = "block" THEN v.commitment ELSE NoLevel)
    BY <1>4 DEF KeyOf
  <2>3. QED
    BY <1>2, <2>1, <2>2
<1>5. ASSUME Thing(u) = Thing(v), Counting(n, u)
      PROVE  Counting(n, v)
  <2>1. /\ u.kind = v.kind /\ u.stage = v.stage /\ u.slot = v.slot /\ u.id = v.id
        /\ u.kind = "block" => u.commitment = v.commitment
    BY <1>2, <1>5
  <2>2. QED
    BY <1>5, <2>1 DEF Counting, Measured, Decodes, IsControl, Malformed
<1>6. QED
  BY <1>3, <1>4, <1>5

\* One more update of an endpoint, seen from a matcher.
LEMMA TimesStep ==
  ASSUME DispatchInv, NEW e \in Endpoint, NEW u \in setup.updates, Take(e, u), NEW d \in Endpoint, NEW t
  PROVE  /\ Times(d, t) \in Nat
         /\ Times(d, t)' = Times(d, t) + (IF d = e /\ t = Thing(u) THEN 1 ELSE 0)
<1> DEFINE n == Len(delivered[e])
           At(s) == {i \in DOMAIN s : Thing(s[i]) = t}
<1>1. /\ AppendedFacts(delivered'[e], delivered[e], u) /\ delivered'[e] \in Seq(setup.updates)
      /\ \A c \in Endpoint : c # e => delivered'[c] = delivered[c]
  BY TakeFacts
<1>2. /\ n \in Nat /\ DOMAIN delivered[e] = 1 .. n /\ DOMAIN delivered'[e] = 1 .. (n + 1)
      /\ delivered'[e][n + 1] = u /\ \A i \in 1 .. n : delivered'[e][i] = delivered[e][i]
  BY <1>1, TakenType, LenProperties DEF AppendedFacts
<1>3. IsFiniteSet(At(delivered[d]))
  <2>1. DOMAIN delivered[d] = 1 .. Len(delivered[d]) /\ Len(delivered[d]) \in Nat
    BY TakenType
  <2>2. IsFiniteSet(1 .. Len(delivered[d]))
    BY <2>1, FS_Interval
  <2>3. At(delivered[d]) \subseteq 1 .. Len(delivered[d])
    BY <2>1
  <2>4. QED
    BY <2>2, <2>3, FS_Subset
<1>4. Times(d, t) = Cardinality(At(delivered[d])) /\ Times(d, t)' = Cardinality(At(delivered'[d]))
  BY DEF Times
<1>5. Cardinality(At(delivered[d])) \in Nat
  BY <1>3, FS_CardinalityType
<1>6. CASE d # e
  <2> HIDE DEF At
  <2>1. At(delivered'[d]) = At(delivered[d])
    BY <1>1, <1>6
  <2>2. QED
    BY <1>4, <1>5, <1>6, <2>1
<1>7. CASE d = e
  <2>1. \A i : i \in 1 .. (n + 1) <=> i \in 1 .. n \/ i = n + 1
    BY <1>2
  <2>2. n + 1 \notin At(delivered[e])
    BY <1>2
  <2> HIDE DEF n
  <2>3. At(delivered'[e]) = IF Thing(u) = t THEN At(delivered[e]) \cup {n + 1} ELSE At(delivered[e])
    BY <1>2, <2>1
  <2> HIDE DEF At
  <2>4. Cardinality(At(delivered[e]) \cup {n + 1}) = Cardinality(At(delivered[e])) + 1
    BY <1>3, <1>7, <2>2, FS_AddElement
  <2>5. QED
    BY <1>4, <1>5, <1>7, <2>3, <2>4
<1>8. QED
  BY <1>6, <1>7

LEMMA FirstStep ==
  ASSUME DispatchInv, NEW e \in Endpoint, NEW u \in setup.updates, Take(e, u), NEW n
  PROVE  FirstOf(n)' = IF e = 1 /\ Counting(n, u) THEN FirstOf(n) \cup {Thing(u)} ELSE FirstOf(n)
<1> DEFINE All(s) == {s[i] : i \in DOMAIN s}
           k == Len(delivered[1])
<1>1. /\ AppendedFacts(delivered'[e], delivered[e], u) /\ delivered'[e] \in Seq(setup.updates)
      /\ \A c \in Endpoint : c # e => delivered'[c] = delivered[c]
  BY TakeFacts
<1>2. All(delivered'[1]) = IF e = 1 THEN All(delivered[1]) \cup {u} ELSE All(delivered[1])
  <2>1. CASE e # 1
    BY <1>1, <2>1 DEF Endpoint
  <2>2. CASE e = 1
    <3>1. /\ k \in Nat /\ DOMAIN delivered[1] = 1 .. k /\ DOMAIN delivered'[1] = 1 .. (k + 1)
          /\ delivered'[1][k + 1] = u /\ \A i \in 1 .. k : delivered'[1][i] = delivered[1][i]
      BY <1>1, <2>2, TakenType, LenProperties DEF AppendedFacts
    <3>2. \A i : i \in 1 .. (k + 1) <=> i \in 1 .. k \/ i = k + 1
      BY <3>1
    <3> HIDE DEF k
    <3>3. QED
      BY <2>2, <3>1, <3>2
  <2>3. QED
    BY <2>1, <2>2
<1>3. /\ FirstOf(n) = {Thing(v) : v \in {w \in All(delivered[1]) : Counting(n, w)}}
      /\ FirstOf(n)' = {Thing(v) : v \in {w \in All(delivered'[1]) : Counting(n, w)}}
  BY DEF FirstOf, Counting, Thing
<1> HIDE DEF All
<1>4. QED
  BY <1>2, <1>3

LEMMA PairTake ==
  ASSUME DispatchInv, PairInv, NEW e \in Endpoint, NEW u \in setup.updates, Take(e, u)
  PROVE  PairInv'
<1>1. setup \in Setups /\ setup' = setup /\ IsUpdate(u) /\ \A v \in setup.updates : IsUpdate(v)
  BY SessionAssumption DEF DispatchInv, Take
<1>2. matchers' = IF Decodes(u) THEN Dispatched(matchers, e, u) ELSE matchers
  BY DEF Take
<1>3. 3 - e \in Endpoint /\ 3 - e # e /\ \A d \in Endpoint : d = e \/ d = 3 - e
  BY DEF Endpoint
<1> SUFFICES ASSUME NEW n \in MatcherNames
             PROVE  /\ IsMatcher(matchers'[n])
                    /\ \E m : Paired(m, WaitingOf(n)', TimesOf(n)', ThingsOf(n)', FirstOf(n)',
                                     matchers'[n].matched)
  BY DEF PairInv, IsMatcher, Paired
<1> DEFINE A == ThingsOf(n)
           x == Thing(u)
           key == KeyOf(u)
           M == matchers[n]
           M2 == matchers'[n]
<1>4. IsMatcher(M) /\ \E m : Paired(m, WaitingOf(n), TimesOf(n), A, FirstOf(n), M.matched)
  BY DEF PairInv
<1>5. PICK m : Paired(m, WaitingOf(n), TimesOf(n), A, FirstOf(n), M.matched)
  BY <1>4
<1>6. ThingsOf(n)' = A
  BY <1>1 DEF ThingsOf, Counting, Thing
<1>7. M2 = IF Counting(n, u) THEN ObservedBy(M, e, key) ELSE M
  <2>1. Counting(n, u) <=> Decodes(u) /\ n \in MatchersOf(u)
    BY <1>1, CountingIs DEF Counting
  <2>2. QED
    BY <1>2, <2>1 DEF Dispatched
<1>8. ASSUME Counting(n, u)
      PROVE  x \in A /\ \A t \in A : KeyOf(t) = key <=> t = x
  <2>1. x \in A
    BY <1>8 DEF ThingsOf
  <2>2. ASSUME NEW t \in A
        PROVE  KeyOf(t) = key <=> t = x
    <3>1. PICK v \in setup.updates : Counting(n, v) /\ t = Thing(v)
      BY DEF ThingsOf
    <3>2. IsUpdate(v)
      BY <1>1
    <3>3. KeyOf(t) = KeyOf(v) /\ KeyOf(x) = key /\ (KeyOf(u) = KeyOf(v) => Thing(u) = Thing(v))
      BY <1>1, <1>8, <3>1, <3>2, KeysAreThings
    <3>4. QED
      BY <3>1, <3>3
  <2>3. QED
    BY <2>1, <2>2
<1>9. ASSUME ~Counting(n, u)
      PROVE  x \notin A
  <2> SUFFICES ASSUME NEW v \in setup.updates, Counting(n, v), x = Thing(v)
               PROVE  FALSE
    BY DEF ThingsOf
  <2>1. IsUpdate(v)
    BY <1>1
  <2>2. QED
    BY <1>1, <1>9, <2>1, KeysAreThings
<1>10. /\ TimesOf(n) \in [Endpoint -> [A -> Nat]]
       /\ TimesOf(n)' \in [Endpoint -> [A -> Nat]]
       /\ \A d \in Endpoint : \A t \in A :
            TimesOf(n)'[d][t] = TimesOf(n)[d][t] + (IF d = e /\ t = x THEN 1 ELSE 0)
  <2>1. \A d \in Endpoint, t \in A :
          /\ Times(d, t) \in Nat
          /\ Times(d, t)' = Times(d, t) + (IF d = e /\ t = x THEN 1 ELSE 0)
    BY TimesStep
  <2>2. \A d \in Endpoint, t \in A : Times(d, t)' \in Nat
    BY <2>1
  <2>3. TimesOf(n)' = [d \in Endpoint |-> [t \in A |-> Times(d, t)']]
    BY <1>6 DEF TimesOf
  <2> HIDE DEF A, x
  <2>4. TimesOf(n)' \in [Endpoint -> [A -> Nat]] /\ \A d \in Endpoint : \A t \in A : TimesOf(n)'[d][t] = Times(d, t)'
    BY <2>2, <2>3
  <2>5. TimesOf(n) \in [Endpoint -> [A -> Nat]] /\ \A d \in Endpoint : \A t \in A : TimesOf(n)[d][t] = Times(d, t)
    BY <2>1 DEF TimesOf, A
  <2>6. QED
    BY <2>1, <2>4, <2>5
<1>11. FirstOf(n)' = IF e = 1 /\ Counting(n, u) THEN FirstOf(n) \cup {x} ELSE FirstOf(n)
  BY FirstStep
<1>12. /\ WaitingOf(n) = [d \in Endpoint |-> {t \in A : KeyOf(t) \in M.waiting[d]}]
       /\ WaitingOf(n)' = [d \in Endpoint |-> {t \in A : KeyOf(t) \in M2.waiting[d]}]
  BY <1>6 DEF WaitingOf
<1>13. CASE ~Counting(n, u)
  <2>1. M2 = M /\ FirstOf(n)' = FirstOf(n) /\ WaitingOf(n)' = WaitingOf(n)
    BY <1>7, <1>11, <1>12, <1>13
  <2>2. TimesOf(n)' = TimesOf(n)
    <3>1. \A d \in Endpoint : \A t \in A : TimesOf(n)'[d][t] = TimesOf(n)[d][t]
      BY <1>9, <1>10, <1>13
    <3> DEFINE T == TimesOf(n)
               T2 == TimesOf(n)'
    <3> HIDE DEF T, T2, A
    <3>2. \A d \in Endpoint : T2[d] = T[d]
      BY <1>10, <3>1 DEF T, T2
    <3>3. T2 = T
      BY <1>10, <3>2 DEF T, T2
    <3>4. QED
      BY <3>3 DEF T, T2
  <2>3. QED
    BY <1>4, <1>6, <2>1, <2>2
<1>14. CASE Counting(n, u)
  <2>1. OneMore(TimesOf(n), TimesOf(n)', FirstOf(n), FirstOf(n)', A, e, x)
    BY <1>10, <1>11, <1>14 DEF OneMore
  <2>2. M2 = ObservedBy(M, e, key) /\ x \in A /\ \A t \in A : KeyOf(t) = key <=> t = x
    BY <1>7, <1>8, <1>14
  <2>3. /\ M = [waiting |-> M.waiting, matched |-> M.matched]
        /\ M.waiting = [d \in Endpoint |-> M.waiting[d]]
    BY <1>4 DEF IsMatcher
  <2> DEFINE W == WaitingOf(n)
             W2 == WaitingOf(n)'
             F2 == FirstOf(n)'
             T2 == TimesOf(n)'
             w == M.waiting
  <2>4. \A d \in Endpoint : /\ W[d] = {t \in A : KeyOf(t) \in w[d]}
                            /\ W2[d] = {t \in A : KeyOf(t) \in M2.waiting[d]}
    BY <1>12
  <2> HIDE DEF W, W2, F2, T2, A, x, key, M, M2
  <2>5. CASE key \in w[3 - e]
    <3>1. M2 = [waiting |-> [w EXCEPT ![3 - e] = @ \ {key}], matched |-> M.matched + 1]
      BY <2>2, <2>5 DEF ObservedBy
    <3>2. /\ M2.waiting[3 - e] = w[3 - e] \ {key} /\ M2.waiting[e] = w[e]
          /\ M2.matched = M.matched + 1 /\ IsMatcher(M2)
      BY <1>3, <2>3, <3>1 DEF IsMatcher
    <3>3. x \in W[3 - e] /\ W2[3 - e] = W[3 - e] \ {x} /\ W2[e] = W[e]
      <4> DEFINE o == 3 - e
      <4>1. o \in Endpoint
        BY <1>3
      <4>2. key \in w[o] /\ M2.waiting[o] = w[o] \ {key} /\ M2.waiting[e] = w[e]
        BY <2>5, <3>2
      <4> HIDE DEF o
      <4>3. x \in W[o]
        BY <2>2, <2>4, <4>1, <4>2
      <4>4. W2[e] = W[e]
        BY <2>4, <4>2
      <4>5. W2[o] = W[o] \ {x}
        BY <2>2, <2>4, <4>1, <4>2
      <4>6. QED
        BY <4>3, <4>4, <4>5 DEF o
    <3>4. Paired([m EXCEPT ![x] = @ + 1], W2, T2, A, F2, M.matched + 1)
      BY <1>5, <2>1, <2>2, <3>3, PairHit DEF W, T2, F2
    <3>5. \E k : Paired(k, W2, T2, A, F2, M2.matched)
      BY <3>2, <3>4
    <3>6. QED
      BY <1>6, <3>2, <3>5 DEF W2, F2, T2, M2
  <2>6. CASE key \notin w[3 - e]
    <3>1. M2 = [M EXCEPT !.waiting[e] = @ \cup {key}]
      BY <2>2, <2>6 DEF ObservedBy
    <3>2. M2 = [waiting |-> [w EXCEPT ![e] = @ \cup {key}], matched |-> M.matched]
      BY <2>3, <3>1
    <3>3. /\ M2.waiting[3 - e] = w[3 - e] /\ M2.waiting[e] = w[e] \cup {key}
          /\ M2.matched = M.matched /\ IsMatcher(M2)
      BY <1>3, <2>3, <3>2 DEF IsMatcher
    <3>4. x \notin W[3 - e] /\ W2[3 - e] = W[3 - e] /\ W2[e] = W[e] \cup {x}
      <4> DEFINE o == 3 - e
      <4>0. o \in Endpoint /\ key \notin w[o] /\ M2.waiting[o] = w[o]
        BY <1>3, <2>6, <3>3
      <4> HIDE DEF o, w
      <4>1. x \notin W[o]
        BY <2>2, <2>4, <4>0
      <4>2. W2[o] = W[o]
        <5>1. W2[o] = {t \in A : KeyOf(t) \in M2.waiting[o]} /\ W[o] = {t \in A : KeyOf(t) \in w[o]}
          BY <2>4, <4>0
        <5>2. QED
          BY <4>0, <5>1
      <4>3. W2[e] = {t \in A : KeyOf(t) \in w[e] \cup {key}}
        BY <2>4, <3>3
      <4>4. W[e] = {t \in A : KeyOf(t) \in w[e]}
        BY <2>4
      <4>5. W2[e] = W[e] \cup {x}
        BY <2>2, <4>3, <4>4
      <4>6. QED
        BY <4>1, <4>2, <4>5 DEF o
    <3>5. Paired(m, W2, T2, A, F2, M.matched)
      BY <1>5, <2>1, <2>2, <3>4, PairMiss DEF W, T2, F2
    <3>6. QED
      BY <1>6, <3>3, <3>5 DEF W2, F2, T2, M2
  <2>7. QED
    BY <2>5, <2>6
<1>15. QED
  BY <1>13, <1>14

LEMMA PairStep == DispatchInv /\ PairInv /\ [Next]_vars => PairInv'
<1> SUFFICES ASSUME DispatchInv, PairInv, [Next]_vars PROVE PairInv'
  OBVIOUS
<1>1. ASSUME UNCHANGED <<setup, delivered, matchers>>
      PROVE  PairInv'
  <2> SUFFICES ASSUME NEW n \in MatcherNames
               PROVE  /\ IsMatcher(matchers'[n])
                      /\ \E m : Paired(m, WaitingOf(n)', TimesOf(n)', ThingsOf(n)', FirstOf(n)',
                                       matchers'[n].matched)
    BY DEF PairInv, IsMatcher, Paired
  <2>1. ThingsOf(n)' = ThingsOf(n) /\ FirstOf(n)' = FirstOf(n)
    BY <1>1 DEF ThingsOf, FirstOf, Counting, Thing
  <2>2. \A e, t : Times(e, t)' = Times(e, t)
    BY <1>1 DEF Times
  <2>3. TimesOf(n)' = TimesOf(n)
    BY <2>1, <2>2 DEF TimesOf
  <2>4. WaitingOf(n)' = WaitingOf(n)
    BY <1>1, <2>1 DEF WaitingOf
  <2>5. QED
    BY <1>1, <2>1, <2>3, <2>4 DEF PairInv
<1>2. ASSUME NEW e \in Endpoint, WriteRaw(e) \/ Count(e) \/ Return(e)
      PROVE  PairInv'
  BY <1>1, <1>2 DEF WriteRaw, Count, Return
<1>3. CASE DispatchersRest
  BY <1>1, <1>3 DEF DispatchersRest
<1>4. QED
  BY <1>2, <1>3, PairTake, DispatchKinds

LEMMA InitPairInv == Init => PairInv
<1> SUFFICES ASSUME Init, NEW n \in MatcherNames
             PROVE  /\ IsMatcher(matchers[n])
                    /\ \E m : Paired(m, WaitingOf(n), TimesOf(n), ThingsOf(n), FirstOf(n),
                                     matchers[n].matched)
  BY DEF PairInv
<1> DEFINE m == [t \in ThingsOf(n) |-> 0]
<1>1. /\ matchers[n] = [waiting |-> [e \in Endpoint |-> {}], matched |-> 0]
      /\ \A e \in Endpoint : delivered[e] = <<>>
  BY DEF Init, NewMatchers, Endpoint
<1>2. \A e \in Endpoint : DOMAIN delivered[e] = {}
  BY <1>1, EmptySeq
<1>3. IsMatcher(matchers[n]) /\ \A e \in Endpoint : WaitingOf(n)[e] = {}
  BY <1>1 DEF IsMatcher, WaitingOf
<1>4. FirstOf(n) = {}
  BY <1>2 DEF FirstOf, Endpoint
<1>5. \A e \in Endpoint, t \in ThingsOf(n) : Times(e, t) = 0
  <2>1. Cardinality({}) = 0
    BY FS_EmptySet
  <2>2. ASSUME NEW e \in Endpoint, NEW t PROVE {i \in DOMAIN delivered[e] : Thing(delivered[e][i]) = t} = {}
    BY <1>2
  <2>3. QED
    BY <2>1, <2>2 DEF Times
<1>6. /\ TimesOf(n) \in [Endpoint -> [ThingsOf(n) -> Nat]]
      /\ \A e \in Endpoint, t \in ThingsOf(n) : TimesOf(n)[e][t] = 0
  BY <1>5 DEF TimesOf
<1>7. SumFunctionOnSet(m, {}) = 0 /\ IsFiniteSet({})
  BY SumEmpty, FS_EmptySet
<1>8. m \in [ThingsOf(n) -> Nat] /\ \A t \in ThingsOf(n) : m[t] = 0
  OBVIOUS
<1>9. 1 \in Endpoint /\ 2 \in Endpoint
  BY DEF Endpoint
<1> HIDE DEF m
<1>10. Paired(m, WaitingOf(n), TimesOf(n), ThingsOf(n), FirstOf(n), 0)
  <2>1. FirstOf(n) \subseteq ThingsOf(n) /\ IsFiniteSet(FirstOf(n)) /\ 0 = SumFunctionOnSet(m, FirstOf(n))
    BY <1>4, <1>7
  <2>2. QED
    BY <1>3, <1>4, <1>6, <1>8, <1>9, <2>1 DEF Paired
<1>11. QED
  BY <1>1, <1>3, <1>10

\* However the two streams interleave, what both delivered is matched, and no
\* more often than both delivered it, in every one of the nine matchers and for
\* any updates.
THEOREM EachPairedOnce == Spec => []PairedOnce
<1>1. DispatchInv /\ PairInv => PairedOnce
  <2> SUFFICES ASSUME DispatchInv, PairInv, NEW n \in MatcherNames
               PROVE  LET first == {delivered[1][i] : i \in DOMAIN delivered[1]}
                          things == {Thing(event) : event \in {u \in first : Decodes(u) /\ Measured(n, u)}}
                      IN matchers[n].matched \in
                           SumFunction([t \in things |-> Least(1, Times(2, t))])
                           .. SumFunction([t \in things |-> Least(Times(1, t), Times(2, t))])
    BY DEF PairedOnce
  <2> DEFINE F == FirstOf(n)
             low == [t \in F |-> Least(1, Times(2, t))]
             high == [t \in F |-> Least(Times(1, t), Times(2, t))]
             c == matchers[n].matched
  <2>1. PICK m : Paired(m, WaitingOf(n), TimesOf(n), ThingsOf(n), F, c)
    BY DEF PairInv
  <2>2. /\ m \in [ThingsOf(n) -> Nat] /\ F \subseteq ThingsOf(n) /\ IsFiniteSet(F)
        /\ c = SumFunctionOnSet(m, F)
    BY <2>1 DEF Paired
  <2>3. ASSUME NEW t \in F
        PROVE  /\ m[t] \in Int /\ low[t] \in Int /\ high[t] \in Int
               /\ low[t] <= m[t] /\ m[t] <= high[t]
    <3>1. t \in ThingsOf(n)
      BY <2>2
    <3>2. TimesOf(n) \in [Endpoint -> [ThingsOf(n) -> Nat]]
      BY <2>1 DEF Paired
    <3>3. /\ TimesOf(n)[1][t] = Times(1, t) /\ TimesOf(n)[2][t] = Times(2, t)
          /\ 1 \in Endpoint /\ 2 \in Endpoint
      BY <3>1 DEF TimesOf, Endpoint
    <3> DEFINE W == WaitingOf(n)
               T == TimesOf(n)
    <3> HIDE DEF W, T
    <3>4. /\ T[1][t] # 0 /\ ~(t \in W[1] /\ t \in W[2])
          /\ m[t] + (IF t \in W[1] THEN 1 ELSE 0) <= T[1][t]
          /\ m[t] + (IF t \in W[2] THEN 1 ELSE 0) <= T[2][t]
          /\ T[1][t] # 0 => m[t] # 0 \/ t \in W[1]
          /\ T[2][t] # 0 => m[t] # 0 \/ t \in W[2]
      BY <2>1, <3>1, <3>3 DEF Paired, W, T
    <3>5. m[t] \in Nat /\ Times(1, t) \in Nat /\ Times(2, t) \in Nat
      BY <2>2, <3>1, <3>2, <3>3
    <3>6. m[t] <= Times(1, t) /\ m[t] <= Times(2, t) /\ (Times(2, t) # 0 => m[t] # 0)
      BY <3>3, <3>4, <3>5 DEF T
    <3>7. QED
      BY <3>5, <3>6 DEF Least
  <2>4. SumFunctionOnSet(low, F) <= c /\ c <= SumFunctionOnSet(high, F)
    <3> HIDE DEF low, high, F, c
    <3>1. \A t \in F : m[t] \in Int /\ low[t] \in Int /\ high[t] \in Int /\ low[t] <= m[t] /\ m[t] <= high[t]
      BY <2>3
    <3>2. SumFunctionOnSet(low, F) <= SumFunctionOnSet(m, F)
      BY <2>2, <3>1, SumAtMost
    <3>3. SumFunctionOnSet(m, F) <= SumFunctionOnSet(high, F)
      BY <2>2, <3>1, SumAtMost
    <3>4. QED
      BY <2>2, <3>2, <3>3
  <2>5. SumFunctionOnSet(low, F) \in Int /\ SumFunctionOnSet(high, F) \in Int /\ c \in Int
    <3> HIDE DEF low, high, F, c
    <3>1. QED
      BY <2>2, <2>3, SumRest
  <2>6. SumFunction(low) = SumFunctionOnSet(low, F) /\ SumFunction(high) = SumFunctionOnSet(high, F)
    BY DEF SumFunction
  <2>7. F = {Thing(event) : event \in {u \in {delivered[1][i] : i \in DOMAIN delivered[1]} :
                                         Decodes(u) /\ Measured(n, u)}}
    BY DEF FirstOf, Counting
  <2> HIDE DEF F, c
  <2>8. c \in SumFunction(low) .. SumFunction(high)
    BY <2>4, <2>5, <2>6
  <2>9. QED
    BY <2>7, <2>8 DEF c
<1>2. QED
  BY <1>1, InitPairInv, PairStep, Dispatching, PTL DEF Spec

=============================================================================
