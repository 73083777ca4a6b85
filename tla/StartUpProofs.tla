--------------------------- MODULE StartUpProofs ----------------------------
(***************************************************************************)
(* Proofs about the start of a run, for any set of command lines of the     *)
(* right types, any answers of the endpoints and any list of heavy programs.*)
(*                                                                          *)
(* Each phase fixes what is known of the command line: a configuration that *)
(* was validated, then with its programs loaded (ConfigInv), then as many   *)
(* answers as there are endpoints, none of them with a cause for refusal    *)
(* (AnswerInv), then the plan of that configuration (PlanInv), then the     *)
(* receivers and the permissions they were granted so far (ReceiverInv).    *)
(* Cores have an invariant of their own (SpreadInv): the receivers of an    *)
(* endpoint have taken its cores in turn. Pins that were accepted are apart,*)
(* whichever of their forms they were given in (PinsApart).                 *)
(* What the plan of a configuration contains is counted: the number of its  *)
(* subscriptions in a set is the sum over the parts it is put together from.*)
(***************************************************************************)
EXTENDS StartUp, DataLemmas

AllStreams == MainStreams \cup {"entries"}
Labels == Commitments \cup {NoCommitment}

\* What the rest of the program relies on of a configuration.
Proper(c) ==
  /\ c.solo \in BOOLEAN /\ c.with_transactions \in BOOLEAN /\ c.with_blocks \in BOOLEAN
  /\ c.solo_streams \in Seq(MainStreams)
  /\ c.commitments \in Seq(Commitments) /\ c.commitments # <<>> /\ IsInjective(c.commitments)
  /\ c.programs \in Seq(ProgramIds) /\ c.programs # <<>> /\ IsInjective(c.programs)
  /\ c.per_filter \in Nat \ {0} /\ c.entries \subseteq {1, 2}

\* The configuration of a command line, with its programs.
LoadedOf(c) == [ConfigOf(c) EXCEPT !.programs = ProgramsOf(c.programs)]

Good(c) == c \in CommandLines /\ Acceptable(c) /\ ProgramsLoad(c.programs)

SubscriptionOf(c) ==
  [endpoint : {1, 2}, stream : AllStreams, commitment : Labels, programs : Seq(ToSet(c.programs))]

Policies == {"new", "fifo", "other"}
Receiver ==
  [endpoint : {1, 2}, stream : AllStreams, core : Int, capacity : Nat \ {0}, policy : Policies]

----------------------------------------------------------------------------
(* The invariant.                                                           *)

Running == {"connect", "ask", "plan", "spawn", "escalate", "raw", "started", "refused"}
Phases == Running \cup {"args", "load", "rejected", "failed"}
Validated == Acceptable(cli) /\ config = Some(ConfigOf(cli))
Loaded == Good(cli) /\ config = Some(LoadedOf(cli))

ConfigInv ==
  /\ cli \in CommandLines /\ phase \in Phases
  /\ phase \in {"args", "rejected"} => config = None
  /\ phase = "load" => Validated
  /\ phase \in Running => Loaded
  /\ phase = "failed" => Validated \/ Loaded
  /\ answers # <<>> \/ plan # <<>> => Loaded

\* So many endpoints are asked for their version.
Endpoints == IF cli.solo THEN 1 ELSE 2

AnswerInv ==
  /\ answers \in Seq(Reports[1] \cup Reports[2])
  /\ phase \in {"args", "rejected", "load"} => answers = <<>>
  /\ phase \in {"connect", "ask"} => Len(answers) < Endpoints
  /\ phase = "plan" \/ plan # <<>> => Len(answers) = Endpoints
  /\ phase = "refused" <=> \E i \in DOMAIN answers : HasCause(answers[i])

PlanInv ==
  /\ plan # <<>> => /\ plan = PlanOf(Config1)
                    /\ phase \in {"spawn", "escalate", "raw", "started", "failed"}
  /\ phase \in {"spawn", "escalate", "raw", "started"} => plan # <<>>

\* The receivers that were granted real-time priority.
Granted == HowMany(receivers, {r \in Receiver : r.policy = "fifo"})

ReceiverInv ==
  /\ idx \in [{1, 2} -> Nat] /\ receivers \in Seq(Receiver)
  /\ receivers # <<>> => plan # <<>>
  /\ phase = "spawn" => Len(receivers) < Len(plan)
  /\ phase \in {"escalate", "raw", "started"} => Len(receivers) = Len(plan)
  /\ coordinator \in {"fifo", "other"}
  /\ coordinator = "fifo" => phase \in {"raw", "started", "failed"} /\ cli.realtime
  /\ ~cli.realtime => \A i \in DOMAIN receivers : receivers[i].policy = "other"
  /\ rt_applied = Granted + (IF coordinator = "fifo" THEN 1 ELSE 0)

StartUpInv == ConfigInv /\ AnswerInv /\ PlanInv /\ ReceiverInv

----------------------------------------------------------------------------
(* What a validated configuration is.                                       *)

LEMMA LoadedFields ==
  ASSUME NEW c
  PROVE  LET d == LoadedOf(c)
         IN /\ d.solo = c.solo /\ d.solo_streams = c.solo_streams
            /\ d.slots = c.slots /\ d.duration = c.duration
            /\ d.commitments = c.commitment /\ d.programs = ProgramsOf(c.programs)
            /\ d.per_filter = ConfigOf(c).per_filter
            /\ d.with_transactions = c.with_transactions /\ d.with_blocks = c.with_blocks
            /\ d.entries = ConfigOf(c).entries /\ d.layout = ConfigOf(c).layout
            /\ d.realtime = c.realtime /\ d.ring_capacity = c.ring_capacity
            /\ d.raw_records = ConfigOf(c).raw_records
BY DEF LoadedOf, ConfigOf

\* The rows of the file are its lines but for comments and empty ones.
LEMMA ProgramsFacts ==
  ASSUME NEW f, ProgramsLoad(f), f[1] \in Seq(Seq(STRING))
  PROVE  LET p == ProgramsOf(f)
         IN /\ p \in Seq(ProgramIds) /\ p # <<>> /\ IsInjective(p)
            /\ ToSet(p) = {line[2] : line \in {l \in ToSet(f[1]) : Len(l) > 1 /\ l[1] # CommentColumn}}
<1> DEFINE lines == f[1]
           T == {line \in ToSet(lines) : ~Skipped(line)}
           rows == Rows(f)
           p == ProgramsOf(f)
           L == {l \in ToSet(lines) : Len(l) > 1 /\ l[1] # CommentColumn}
<1>1. rows \in Seq(Seq(STRING)) /\ \E h : ComesFrom(rows, lines, T, h)
  BY OnlyComesFrom DEF Rows
<1>2. /\ rows # <<>> /\ \A i \in DOMAIN rows : WellFormed(rows[i])
      /\ IsInjective(p) /\ p = [i \in DOMAIN rows |-> rows[i][2]]
  BY DEF ProgramsLoad, ProgramsOf, Column
<1>3. /\ DOMAIN rows = 1 .. Len(rows) /\ Len(rows) \in Nat \ {0}
      /\ DOMAIN lines = 1 .. Len(lines) /\ Len(lines) \in Nat
  <2>1. rows \in Seq(Seq(STRING)) /\ lines \in Seq(Seq(STRING))
    BY <1>1
  <2>2. Len(rows) \in Nat /\ (Len(rows) = 0 <=> rows = <<>>)
    BY <1>1, EmptySeq, LenProperties
  <2>3. QED
    BY <1>2, <2>1, <2>2, LenProperties
<1> HIDE DEF rows, p
<1>4. p \in Seq(ProgramIds) /\ DOMAIN p = 1 .. Len(rows) /\ Len(p) = Len(rows)
  <2>1. p \in [1 .. Len(rows) -> ProgramIds]
    BY <1>2, <1>3 DEF WellFormed
  <2>2. QED
    BY <1>3, <2>1, SeqDef, LenProperties
<1>5. p # <<>>
  BY <1>3, <1>4, EmptySeq
<1>6. PICK h : ComesFrom(rows, lines, T, h)
  BY <1>1
<1>7. ASSUME NEW l \in Seq(STRING)
      PROVE  Len(l) > 1 /\ l[1] # CommentColumn => ~Skipped(l)
  BY EmptySeq DEF Skipped
<1>8. ASSUME NEW x \in ToSet(p) PROVE x \in {line[2] : line \in L}
  <2>1. PICK i \in 1 .. Len(rows) : x = rows[i][2]
    BY <1>2, <1>3, <1>4 DEF ToSet
  <2>2. rows[i] = lines[h[i]] /\ h[i] \in 1 .. Len(lines) /\ rows[i] \in T
    BY <1>6 DEF ComesFrom
  <2>3. Len(rows[i]) > 1
    <3>1. WellFormed(rows[i])
      BY <1>2, <1>3
    <3>2. Len(rows[i]) = 2 \/ Len(rows[i]) = 3
      BY <3>1 DEF WellFormed
    <3>3. \A n : n = 2 \/ n = 3 => n > 1
      OBVIOUS
    <3>4. QED
      BY <3>2, <3>3
  <2>4. rows[i] \in ToSet(lines) /\ rows[i][1] # CommentColumn
    BY <2>2 DEF Skipped
  <2>5. rows[i] \in L
    BY <2>3, <2>4
  <2>6. QED
    BY <2>1, <2>5
<1>9. ASSUME NEW l \in L PROVE l[2] \in ToSet(p)
  <2>1. PICK k \in 1 .. Len(lines) : l = lines[k]
    BY <1>3 DEF ToSet
  <2>2. l \in Seq(STRING)
    BY <1>3, <2>1, ElementOfSeq
  <2>3. lines[k] \in T
    BY <1>7, <2>1, <2>2
  <2>4. PICK j \in 1 .. Len(rows) : h[j] = k
    BY <1>6, <2>3 DEF ComesFrom
  <2>5. rows[j] = l
    BY <1>6, <2>1, <2>4 DEF ComesFrom
  <2>6. j \in DOMAIN p /\ p[j] = l[2]
    BY <1>2, <1>3, <1>4, <2>5
  <2>7. QED
    BY <2>6 DEF ToSet
<1>10. ToSet(p) = {line[2] : line \in L}
  BY <1>8, <1>9
<1>11. QED
  BY <1>2, <1>4, <1>5, <1>10 DEF p

LEMMA LoadedIsProper ==
  ASSUME NEW c, Good(c)
  PROVE  /\ Proper(LoadedOf(c))
         /\ ToSet(LoadedOf(c).programs) =
              {line[2] : line \in {l \in ToSet(c.programs[1]) : Len(l) > 1 /\ l[1] # CommentColumn}}
<1> DEFINE d == LoadedOf(c)
<1>1. IsCommandLine(c) /\ Acceptable(c) /\ ProgramsLoad(c.programs)
  BY StartUpAssumption DEF Good
<1>2. c.programs[1] \in Seq(Seq(STRING))
  BY <1>1 DEF IsCommandLine, ProgramsLoad, Given, None
<1>3. /\ d.programs \in Seq(ProgramIds) /\ d.programs # <<>> /\ IsInjective(d.programs)
      /\ ToSet(d.programs) =
           {line[2] : line \in {l \in ToSet(c.programs[1]) : Len(l) > 1 /\ l[1] # CommentColumn}}
  <2>1. d.programs = ProgramsOf(c.programs)
    BY LoadedFields
  <2> HIDE DEF d
  <2>2. QED
    BY <1>1, <1>2, <2>1, ProgramsFacts
<1>4. d.per_filter \in Nat \ {0} /\ d.entries \subseteq {1, 2}
  <2>1. ConfigOf(c).per_filter \in Nat \ {0}
    BY <1>1 DEF ConfigOf, IsCommandLine
  <2>2. ConfigOf(c).entries \subseteq {1, 2}
    BY DEF ConfigOf
  <2>3. QED
    BY <2>1, <2>2, LoadedFields
<1>5. /\ d.solo \in BOOLEAN /\ d.with_transactions \in BOOLEAN /\ d.with_blocks \in BOOLEAN
      /\ d.solo_streams \in Seq(MainStreams) /\ d.commitments \in Seq(Commitments)
  <2>1. /\ c.solo \in BOOLEAN /\ c.with_transactions \in BOOLEAN /\ c.with_blocks \in BOOLEAN
        /\ c.solo_streams \in Seq(MainStreams) /\ c.commitment \in Seq(Commitments)
    BY <1>1 DEF IsCommandLine, MainStreams, Commitments
  <2>2. QED
    BY <2>1, LoadedFields
<1>6. d.commitments # <<>> /\ IsInjective(d.commitments)
  BY <1>1, LoadedFields DEF Acceptable, CommitmentsOK
<1> HIDE DEF d
<1>7. QED
  BY <1>3, <1>4, <1>5, <1>6 DEF Proper, d

----------------------------------------------------------------------------
(* The verdict on an answer.                                                *)

LEMMA OlderWithinMajor ==
  ASSUME NEW v \in Version, NEW m \in Version
  PROVE  v[1] = m[1] /\ Older(v, m) <=>
           v[1] = m[1] /\ (v[2] < m[2] \/ (v[2] = m[2] /\ v[3] < m[3]))
<1>1. v[1] \in Nat /\ m[1] \in Nat
  BY DEF Version
<1>2. v[1] = m[1] => ~(v[1] < m[1])
  BY <1>1
<1>3. QED
  BY <1>2 DEF Older

LEMMA BelowMinimumIsTooOld ==
  ASSUME NEW r, IsReport(r), Readable(ProtoOf(r))
  PROVE  BelowMinimum(r) <=>
           IF Readable(r.version) THEN TooOld(r.package, r.version)
           ELSE TooOld(r.package, ProtoOf(r))
<1>1. ProtoOf(r) \in Version /\ (Readable(r.version) => r.version \in Version)
  BY DEF IsReport, ProtoOf, Readable
<1>2. PluginOf(r) \in Version
  BY <1>1 DEF PluginOf
<1>3. r.package \in DOMAIN Minimum => Minimum[r.package] \in Version
  BY ProtoAssumption
<1>4. BelowMinimum(r) <=> TooOld(r.package, PluginOf(r))
  BY <1>2, <1>3, OlderWithinMajor DEF BelowMinimum, TooOld
<1>5. QED
  BY <1>4 DEF PluginOf

LEMMA RefusalHasCause ==
  ASSUME NEW r, IsReport(r)
  PROVE  IsRefusal(Verdict(r)) <=> HasCause(r)
<1>1. CASE Emptied(r)
  <2>1. Blob(r) = [r EXCEPT !.shape = "text", !.version = Garbled]
    BY <1>1 DEF Blob
  <2>2. ProtoOf(Blob(r)) = Garbled
    BY <1>1, <2>1 DEF IsReport, Emptied, ProtoOf
  <2>3. Classify(Blob(r)) = "unknown"
    BY <2>2 DEF Classify, Readable
  <2>4. ~HasCause(r)
    BY <1>1 DEF Emptied, HasCause, Readable
  <2>5. QED
    BY <2>3, <2>4 DEF Verdict, IsRefusal
<1>2. CASE ~Emptied(r)
  <2>1. Verdict(r) = Classify(r)
    BY <1>2 DEF Verdict, Blob
  <2> DEFINE proto == IF r.proto = Missing THEN r.version ELSE r.proto
  <2>2. proto = ProtoOf(r)
    BY DEF ProtoOf
  <2>3. HasCause(r) <=>
          /\ Readable(ProtoOf(r))
          /\ \/ ProtoOf(r)[1] < Harness[1]
             \/ Readable(r.version) /\ TooOld(r.package, r.version)
             \/ ~Readable(r.version) /\ TooOld(r.package, ProtoOf(r))
    BY <2>2 DEF HasCause
  <2>4. CASE ~Readable(ProtoOf(r))
    BY <2>1, <2>3, <2>4 DEF Classify, IsRefusal
  <2>5. CASE Readable(ProtoOf(r))
    <3>1. IsRefusal(Classify(r)) <=> ProtoOf(r)[1] < Harness[1] \/ BelowMinimum(r)
      BY <2>5 DEF Classify, IsRefusal
    <3>2. QED
      BY <2>1, <2>3, <2>5, <3>1, BelowMinimumIsTooOld
  <2>6. QED
    BY <2>4, <2>5
<1>3. QED
  BY <1>1, <1>2

\* An answer that leaves no warning is the version built with, or one that
\* names a package and no version.
LEMMA SilentAnswers ==
  ASSUME NEW r, IsReport(r), ~HasCause(r), Warnings(r) = {}
  PROVE  LET proto == IF r.proto = Missing THEN r.version ELSE r.proto
         IN proto = Harness \/ (proto = Missing /\ r.package # NoPackage)
<1> DEFINE proto == IF r.proto = Missing THEN r.version ELSE r.proto
<1>1. Blob(r).shape # "text"
  BY DEF Warnings
<1>2. ~Emptied(r)
  BY <1>1 DEF Blob, Emptied, IsReport
<1>3. Blob(r) = r /\ r.shape # "text" /\ Verdict(r) = Classify(r) /\ proto = ProtoOf(r)
  BY <1>1, <1>2 DEF Blob, Verdict, ProtoOf
<1>4. \A w \in {"no_package", "proto_unreadable", "plugin_unreadable", "drift"} :
        ~(CASE w = "no_package" -> r.package = NoPackage
            [] w = "proto_unreadable" -> ProtoOf(r) = Garbled
            [] w = "plugin_unreadable" -> r.version = Garbled
            [] w = "drift" -> Verdict(r) = "warn")
  BY <1>1 DEF Warnings
<1>5. r.package # NoPackage /\ ProtoOf(r) # Garbled /\ Verdict(r) # "warn"
  <2>1. r.package # NoPackage
    BY <1>4
  <2>2. ProtoOf(r) # Garbled
    BY <1>4
  <2>3. Verdict(r) # "warn"
    BY <1>4
  <2>4. QED
    BY <2>1, <2>2, <2>3
<1>6. CASE ProtoOf(r) = Missing
  BY <1>3, <1>5, <1>6
<1>7. CASE ProtoOf(r) # Missing
  <2>1. Readable(ProtoOf(r))
    BY <1>5, <1>7 DEF Readable
  <2>2. ~IsRefusal(Classify(r))
    BY <1>3, RefusalHasCause
  <2>3. ProtoOf(r) = Harness
    BY <1>3, <1>5, <2>1, <2>2 DEF Classify, IsRefusal
  <2>4. QED
    BY <1>3, <2>3
<1>8. QED
  BY <1>6, <1>7

----------------------------------------------------------------------------
(* Cores and capacities.                                                    *)

Layout == [receivers : [{1, 2} -> Seq(Int)], processor : Int, control : Int]

LEMMA PairOfSeqs ==
  ASSUME NEW a \in Seq(Int), NEW b \in Seq(Int), NEW p \in Int, NEW k \in Int
  PROVE  [receivers |-> [e \in {1, 2} |-> IF e = 1 THEN a ELSE b],
          processor |-> p, control |-> k] \in Layout
<1>1. [e \in {1, 2} |-> IF e = 1 THEN a ELSE b] \in [{1, 2} -> Seq(Int)]
  OBVIOUS
<1>2. QED
  BY <1>1 DEF Layout

LEMMA CoreRangeType ==
  ASSUME NEW from \in Int, NEW to \in Int
  PROVE  /\ CoreRange(from, to) \in Seq(Int)
         /\ Len(CoreRange(from, to)) = IF to < from THEN 0 ELSE to - from + 1
         /\ \A i \in 1 .. Len(CoreRange(from, to)) :
              CoreRange(from, to)[i] = from + i - 1 /\ CoreRange(from, to)[i] \in from .. to
<1> DEFINE n == IF to < from THEN 0 ELSE to - from + 1
           r == CoreRange(from, to)
<1>1. n \in Nat /\ 1 .. (to - from + 1) = 1 .. n
  OBVIOUS
<1>2. r = [i \in 1 .. n |-> from + i - 1]
  BY <1>1 DEF CoreRange
<1> HIDE DEF n, r
<1>3. r \in [1 .. n -> Int]
  BY <1>1, <1>2
<1>4. r \in Seq(Int) /\ Len(r) = n
  BY <1>1, <1>3, SeqDef, LenProperties
<1>5. ASSUME NEW i \in 1 .. Len(r)
      PROVE  r[i] = from + i - 1 /\ r[i] \in from .. to
  BY <1>1, <1>2, <1>4, <1>5 DEF n
<1>6. QED
  BY <1>4, <1>5 DEF n, r

LEMMA NoLayoutType == NoLayout \in Layout
<1>1. <<>> \in Seq(Int) /\ NoCore \in Int
  BY EmptySeq DEF NoCore
<1>2. QED
  BY <1>1 DEF NoLayout, Layout

LEMMA AutoLayoutType ==
  ASSUME NEW n \in Nat
  PROVE  AutoLayout(n) \in Layout
<1> DEFINE last == n - 1
           split == 2 + (last - 2) \div 2
<1>1. CASE n < 6
  BY <1>1, NoLayoutType DEF AutoLayout
<1>2. CASE ~(n < 6)
  <2>1. last \in Int /\ split \in Int /\ NoCore \in Int
    BY DEF NoCore
  <2>2. AutoLayout(n) = [receivers |-> [e \in {1, 2} |->
             IF e = 1 THEN CoreRange(2, split - 1) ELSE CoreRange(split, last - 1)],
           processor |-> NoCore, control |-> last]
    BY <1>2 DEF AutoLayout
  <2> HIDE DEF last, split
  <2>3. CoreRange(2, split - 1) \in Seq(Int) /\ CoreRange(split, last - 1) \in Seq(Int)
    BY <2>1, CoreRangeType
  <2>4. QED
    BY <2>1, <2>2, <2>3, PairOfSeqs
<1>3. QED
  BY <1>1, <1>2

LEMMA FlatLayoutType ==
  ASSUME NEW cores \in Seq(Int)
  PROVE  FlatLayout(cores) \in Layout
<1> DEFINE n == Len(cores)
           At(i) == IF i <= Len(cores) THEN cores[i] ELSE NoCore
           One(i) == IF i <= Len(cores) THEN <<cores[i]>> ELSE <<>>
<1>1. n \in Nat /\ \A i \in 1 .. n : cores[i] \in Int
  BY LenProperties, ElementOfSeq
<1>2. \A i \in 1 .. 4 : At(i) \in Int /\ One(i) \in Seq(Int)
  <2>1. ASSUME NEW i \in 1 .. 4 PROVE At(i) \in Int /\ One(i) \in Seq(Int)
    <3>1. CASE i <= n
      BY <1>1, <3>1
    <3>2. CASE ~(i <= n)
      BY <3>2, EmptySeq DEF NoCore
    <3>3. QED
      BY <3>1, <3>2
  <2>2. QED
    BY <2>1
<1>3. n = 1 => cores[1] \in Int
  BY <1>1
<1> DEFINE p == IF Len(cores) = 1 THEN cores[1] ELSE At(3)
           rest == [e \in {1, 2} |-> IF Len(cores) = 1 THEN One(1) ELSE One(e)]
<1>4. FlatLayout(cores) = [receivers |-> rest, processor |-> p, control |-> At(4)]
  BY DEF FlatLayout
<1> HIDE DEF At, One
<1>5. rest \in [{1, 2} -> Seq(Int)] /\ p \in Int /\ At(4) \in Int
  <2>1. 1 \in 1 .. 4 /\ 2 \in 1 .. 4 /\ 3 \in 1 .. 4 /\ 4 \in 1 .. 4
    OBVIOUS
  <2>2. QED
    BY <1>2, <1>3, <2>1
<1> HIDE DEF p, rest
<1>6. QED
  BY <1>4, <1>5 DEF Layout

\* The sections of an argument, flattened.
Parts(arg) == [i \in DOMAIN arg.sections |-> arg.sections[i].cores]
PartsOf(arg, role) ==
  [i \in DOMAIN arg.sections |-> IF arg.sections[i].role = role THEN arg.sections[i].cores ELSE <<>>]

LEMMA PartsType ==
  ASSUME NEW arg, IsAffinity(arg)
  PROVE  /\ Parts(arg) \in Seq(Seq(Int)) /\ Len(Parts(arg)) = Len(arg.sections)
         /\ Len(arg.sections) \in Nat /\ DOMAIN arg.sections = 1 .. Len(arg.sections)
         /\ \A role : /\ PartsOf(arg, role) \in Seq(Seq(Int))
                      /\ Len(PartsOf(arg, role)) = Len(arg.sections)
<1> DEFINE s == arg.sections
<1>1. /\ DOMAIN s = 1 .. Len(s) /\ Len(s) \in Nat
      /\ \A i \in 1 .. Len(s) : s[i].cores \in Seq(Int)
  <2> DEFINE R == [role : STRING, cores : Seq(Int)]
  <2>1. s \in Seq(R)
    BY DEF IsAffinity
  <2>2. \A x \in R : x.cores \in Seq(Int)
    OBVIOUS
  <2> HIDE DEF s, R
  <2>3. QED
    BY <2>1, <2>2, LenProperties, ElementOfSeq
<1> HIDE DEF s
<1>2. Parts(arg) \in Seq(Seq(Int)) /\ Len(Parts(arg)) = Len(s)
  <2>1. Parts(arg) \in [1 .. Len(s) -> Seq(Int)]
    BY <1>1 DEF Parts, s
  <2>2. Parts(arg) \in Seq(Seq(Int))
    BY <1>1, <2>1, SeqDef
  <2>3. QED
    BY <1>1, <2>1, <2>2, LenProperties
<1>3. ASSUME NEW role
      PROVE  PartsOf(arg, role) \in Seq(Seq(Int)) /\ Len(PartsOf(arg, role)) = Len(s)
  <2>1. <<>> \in Seq(Int)
    BY EmptySeq
  <2>2. PartsOf(arg, role) \in [1 .. Len(s) -> Seq(Int)]
    BY <1>1, <2>1 DEF PartsOf, s
  <2>3. PartsOf(arg, role) \in Seq(Seq(Int))
    BY <1>1, <2>2, SeqDef
  <2>4. QED
    BY <1>1, <2>2, <2>3, LenProperties
<1>4. QED
  BY <1>1, <1>2, <1>3 DEF s

\* The cores of the sections of a role, or of all, are cores of the sections.
LEMMA SectionsType ==
  ASSUME NEW arg, IsAffinity(arg)
  PROVE  /\ AllSections(arg) \in Seq(Int)
         /\ \A role : CoresOf(arg, role) \in Seq(Int)
BY PartsType, FlattenComesFrom DEF AllSections, CoresOf, Parts, PartsOf

LEMMA LayoutOfType ==
  ASSUME NEW arg, IsAffinity(arg)
  PROVE  LayoutOf(arg) \in Layout
<1> DEFINE Single(role) == IF CoresOf(arg, role) = <<>> THEN NoCore ELSE CoresOf(arg, role)[1]
<1>1. \A role : Single(role) \in Int
  <2>1. ASSUME NEW role PROVE Single(role) \in Int
    <3>1. CoresOf(arg, role) \in Seq(Int)
      BY SectionsType
    <3>2. CoresOf(arg, role) # <<>> => 1 \in 1 .. Len(CoresOf(arg, role))
      BY <3>1, EmptySeq, LenProperties
    <3>3. CoresOf(arg, role) # <<>> => CoresOf(arg, role)[1] \in Int
      BY <3>1, <3>2, ElementOfSeq
    <3>4. QED
      BY <3>3 DEF NoCore
  <2>2. QED
    BY <2>1
<1>2. StructuredLayout(arg) \in Layout
  <2>1. StructuredLayout(arg) =
          [receivers |-> [e \in {1, 2} |-> CoresOf(arg, IF e = 1 THEN "ep1" ELSE "ep2")],
           processor |-> Single("proc"), control |-> Single("ctrl")]
    BY DEF StructuredLayout
  <2> HIDE DEF Single
  <2>2. [e \in {1, 2} |-> CoresOf(arg, IF e = 1 THEN "ep1" ELSE "ep2")] \in [{1, 2} -> Seq(Int)]
    BY SectionsType
  <2>3. QED
    BY <1>1, <2>1, <2>2 DEF Layout
<1>3. arg.nproc \in Nat /\ AllSections(arg) \in Seq(Int)
  BY SectionsType DEF IsAffinity
<1>4. QED
  BY <1>2, <1>3, AutoLayoutType, FlatLayoutType DEF LayoutOf

LEMMA LayoutOfEitherType ==
  ASSUME NEW c, IsCommandLine(c), OverlayLoads(c)
  PROVE  LayoutOfEither(c) \in Layout
<1>1. CASE Given(c.cpu_affinity)
  <2>1. IsAffinity(c.cpu_affinity[1])
    BY <1>1 DEF IsCommandLine
  <2>2. QED
    BY <1>1, <2>1, LayoutOfType DEF LayoutOfEither
<1>2. CASE ~Given(c.cpu_affinity) /\ Given(OverlayOf(c).cpu_affinity)
  <2>1. Given(c.config) /\ OverlayOf(c) = c.config[1][1]
    BY <1>2 DEF OverlayOf, EmptyOverlay, Given, None
  <2>2. Given(c.config[1])
    BY <2>1 DEF OverlayLoads
  <2>3. OverlayOf(c).cpu_affinity[1] \in Seq(Nat)
    BY <1>2, <2>1, <2>2 DEF IsCommandLine
  <2>4. OverlayOf(c).cpu_affinity[1] \in Seq(Int)
    BY <2>3, SeqMonotonic
  <2>5. QED
    BY <1>2, <2>4, FlatLayoutType DEF LayoutOfEither
<1>3. CASE ~Given(c.cpu_affinity) /\ ~Given(OverlayOf(c).cpu_affinity)
  BY <1>3, NoLayoutType DEF LayoutOfEither
<1>4. QED
  BY <1>1, <1>2, <1>3

LEMMA ConfigLayoutType ==
  ASSUME NEW c, IsCommandLine(c), OverlayLoads(c)
  PROVE  ConfigOf(c).layout \in Layout
<1>1. LayoutOfEither(c) \in Layout
  BY LayoutOfEitherType
<1>2. WithoutProcessor(LayoutOfEither(c)) \in Layout
  <2>1. NoCore \in Int
    BY DEF NoCore
  <2> DEFINE l == LayoutOfEither(c)
  <2>2. l \in Layout
    BY <1>1
  <2> HIDE DEF l
  <2>3. [l EXCEPT !.processor = NoCore] \in Layout
    BY <2>1, <2>2 DEF Layout
  <2>4. QED
    BY <2>3 DEF WithoutProcessor, l
<1>3. QED
  BY <1>1, <1>2 DEF ConfigOf

LEMMA CoreForType ==
  ASSUME NEW layout \in Layout, NEW e \in {1, 2}, NEW k \in Nat
  PROVE  CoreFor(layout, e, k) \in Int
<1> DEFINE cores == layout.receivers[e]
           n == Len(cores)
<1>1. cores \in Seq(Int)
  BY DEF Layout
<1> HIDE DEF cores
<1>2. n \in Nat /\ (cores # <<>> => n # 0) /\ \A i \in 1 .. n : cores[i] \in Int
  BY <1>1, LenProperties, EmptySeq, ElementOfSeq
<1>3. cores # <<>> => (k % n) + 1 \in 1 .. n
  <2> HIDE DEF n
  <2>1. n \in Nat /\ n # 0 => k % n \in 0 .. (n - 1)
    OBVIOUS
  <2>2. QED
    BY <1>2, <2>1
<1>4. cores # <<>> => cores[(k % n) + 1] \in Int
  BY <1>2, <1>3
<1>5. QED
  BY <1>4 DEF CoreFor, NoCore, cores

LEMMA RingCapacityType ==
  ASSUME NEW stream \in AllStreams, NEW baseline \in Nat
  PROVE  RingCapacity(stream, baseline) \in Nat \ {0}
<1>1. SaturatingMul(baseline, 4) \in Nat
  BY StartUpAssumption DEF SaturatingMul
<1>2. baseline \div 2 \in Nat /\ baseline \div 8 \in Nat
  OBVIOUS
<1> DEFINE scaled == CASE stream = "accounts" -> SaturatingMul(baseline, 4)
                       [] stream \in {"transactions", "entries"} -> baseline
                       [] stream = "blocks" -> baseline \div 2
                       [] stream = "slots" -> baseline \div 8
<1>3. scaled \in Nat
  BY <1>1, <1>2 DEF AllStreams, MainStreams
<1>4. RingCapacity(stream, baseline) = IF scaled = 0 THEN 1 ELSE scaled
  BY DEF RingCapacity
<1> HIDE DEF scaled
<1>5. QED
  BY <1>3, <1>4

----------------------------------------------------------------------------
(* The parts of a plan, and how many of their subscriptions are in a set.   *)

LEMMA ProperFacts ==
  ASSUME NEW c, Proper(c)
  PROVE  /\ DOMAIN c.commitments = 1 .. Len(c.commitments) /\ Len(c.commitments) \in Nat \ {0}
         /\ \A i \in 1 .. Len(c.commitments) :
              c.commitments[i] \in Commitments /\ c.commitments[i] \in Labels
         /\ c.programs \in Seq(ToSet(c.programs)) /\ <<>> \in Seq(ToSet(c.programs))
         /\ \A i, j \in DOMAIN c.programs : c.programs[i] = c.programs[j] => i = j
         /\ \A stream : FilterOf(c, stream) \in Seq(ToSet(c.programs))
<1>1. /\ DOMAIN c.commitments = 1 .. Len(c.commitments) /\ Len(c.commitments) \in Nat \ {0}
      /\ \A i \in 1 .. Len(c.commitments) : c.commitments[i] \in Commitments
  BY LenProperties, EmptySeq, ElementOfSeq DEF Proper
<1>2. c.programs \in Seq(ToSet(c.programs)) /\ <<>> \in Seq(ToSet(c.programs))
  <2>1. c.programs \in [1 .. Len(c.programs) -> ToSet(c.programs)] /\ Len(c.programs) \in Nat
    <3>1. c.programs \in Seq(ProgramIds)
      BY DEF Proper
    <3> DEFINE s == c.programs
    <3> HIDE DEF s
    <3>2. DOMAIN s = 1 .. Len(s) /\ Len(s) \in Nat /\ s \in [1 .. Len(s) -> ProgramIds]
      BY <3>1, LenProperties DEF s
    <3>3. \A i \in 1 .. Len(s) : s[i] \in ToSet(s)
      BY <3>2 DEF ToSet
    <3>4. s \in [1 .. Len(s) -> ToSet(s)]
      BY <3>2, <3>3
    <3>5. QED
      BY <3>2, <3>4 DEF s
  <2>2. QED
    BY <2>1, SeqDef, EmptySeq
<1>3. \A i, j \in DOMAIN c.programs : c.programs[i] = c.programs[j] => i = j
  BY DEF Proper, IsInjective
<1>4. \A stream : FilterOf(c, stream) \in Seq(ToSet(c.programs))
  BY <1>2 DEF FilterOf
<1>5. QED
  BY <1>1, <1>2, <1>3, <1>4 DEF Labels

LEMMA SubscriptionType ==
  ASSUME NEW c, NEW e \in {1, 2}, NEW stream \in AllStreams,
         NEW commitment \in Labels, NEW programs \in Seq(ToSet(c.programs))
  PROVE  Subscription(e, stream, commitment, programs) \in SubscriptionOf(c)
BY DEF Subscription, SubscriptionOf

LEMMA SubscriptionFields ==
  ASSUME NEW e, NEW stream, NEW commitment, NEW programs
  PROVE  LET s == Subscription(e, stream, commitment, programs)
         IN s.endpoint = e /\ s.stream = stream /\ s.commitment = commitment /\ s.programs = programs
BY DEF Subscription

\* One subscription, or none.
LEMMA HowManyIf ==
  ASSUME NEW S, NEW wanted, NEW x, wanted => x \in S, NEW T
  PROVE  LET s == IF wanted THEN <<x>> ELSE <<>>
         IN s \in Seq(S) /\ HowMany(s, T) = IF wanted /\ x \in T THEN 1 ELSE 0
<1>1. <<>> \in Seq(S) /\ (wanted => <<x>> \in Seq(S))
  BY EmptySeq
<1>2. HowMany(<<>>, T) = 0 /\ HowMany(<<x>>, T) = IF x \in T THEN 1 ELSE 0
  BY HowManyEmpty, HowManyOne
<1>3. CASE wanted
  BY <1>1, <1>2, <1>3
<1>4. CASE ~wanted
  BY <1>1, <1>2, <1>4
<1>5. QED
  BY <1>3, <1>4

\* The filters of heavy programs, one each.
Alone(heavy) == [i \in DOMAIN heavy |-> <<heavy[i]>>]

LEMMA AloneFacts ==
  ASSUME NEW P, NEW heavy \in Seq(P)
  PROVE  /\ Alone(heavy) \in Seq(Seq(P)) /\ Len(Alone(heavy)) = Len(heavy)
         /\ DOMAIN Alone(heavy) = 1 .. Len(heavy) /\ DOMAIN heavy = 1 .. Len(heavy)
         /\ \A i \in 1 .. Len(heavy) : /\ Len(Alone(heavy)[i]) = 1 /\ ToSet(Alone(heavy)[i]) = {heavy[i]}
<1>1. Len(heavy) \in Nat /\ DOMAIN heavy = 1 .. Len(heavy) /\ \A i \in 1 .. Len(heavy) : heavy[i] \in P
  BY LenProperties, ElementOfSeq
<1>2. Alone(heavy) = [i \in 1 .. Len(heavy) |-> <<heavy[i]>>]
  BY <1>1 DEF Alone
<1>3. \A x \in P : <<x>> \in Seq(P) /\ Len(<<x>>) = 1 /\ ToSet(<<x>>) = {x}
  BY DEF ToSet
<1>4. Alone(heavy) \in [1 .. Len(heavy) -> Seq(P)]
  BY <1>1, <1>2, <1>3
<1>5. Alone(heavy) \in Seq(Seq(P)) /\ Len(Alone(heavy)) = Len(heavy)
  BY <1>1, <1>4, SeqDef, LenProperties
<1>6. QED
  BY <1>1, <1>2, <1>3, <1>5

Heavies(c) == Only(c.programs, Heavy)
Lights(c) == Only(c.programs, ToSet(c.programs) \ Heavy)

LEMMA PartsFacts ==
  ASSUME NEW c, Proper(c)
  PROVE  LET P == ToSet(c.programs)
         IN /\ Heavies(c) \in Seq(P) /\ Lights(c) \in Seq(P)
            /\ \A i, j \in DOMAIN Heavies(c) : Heavies(c)[i] = Heavies(c)[j] => i = j
            /\ \A i, j \in DOMAIN Lights(c) : Lights(c)[i] = Lights(c)[j] => i = j
            /\ ToSet(Heavies(c)) = P \cap Heavy /\ ToSet(Lights(c)) = P \ Heavy
            /\ Chunks(Lights(c), c.per_filter) \in Seq(Seq(P))
            /\ AccountFilters(c) = Alone(Heavies(c)) \o Chunks(Lights(c), c.per_filter)
            /\ AccountFilters(c) \in Seq(Seq(P))
<1> DEFINE P == ToSet(c.programs)
<1>1. c.programs \in Seq(P) /\ \A i, j \in DOMAIN c.programs : c.programs[i] = c.programs[j] => i = j
  BY ProperFacts
<1>2. /\ Heavies(c) \in Seq(P)
      /\ \A i, j \in DOMAIN Heavies(c) : Heavies(c)[i] = Heavies(c)[j] => i = j
      /\ ToSet(Heavies(c)) = P \cap Heavy
  BY <1>1, OnlyOnce DEF Heavies
<1> DEFINE Q == P \ Heavy
<1>3. /\ Lights(c) \in Seq(P)
      /\ \A i, j \in DOMAIN Lights(c) : Lights(c)[i] = Lights(c)[j] => i = j
      /\ ToSet(Lights(c)) = P \cap Q
  <2> HIDE DEF P, Q
  <2>1. Lights(c) = Only(c.programs, Q)
    BY DEF Lights, P, Q
  <2>2. QED
    BY <1>1, <2>1, OnlyOnce DEF P
<1>4. P \cap Q = P \ Heavy
  OBVIOUS
<1>5. c.per_filter \in Nat \ {0}
  BY DEF Proper
<1> HIDE DEF P, Q
<1>6. Chunks(Lights(c), c.per_filter) \in Seq(Seq(P))
  BY <1>3, <1>5, ChunksFacts
<1>7. AccountFilters(c) = Alone(Heavies(c)) \o Chunks(Lights(c), c.per_filter)
  BY DEF AccountFilters, Alone, Heavies, Lights
<1>8. AccountFilters(c) \in Seq(Seq(P))
  BY <1>2, <1>6, <1>7, AloneFacts, ConcatProperties
<1>9. QED
  BY <1>2, <1>3, <1>4, <1>6, <1>7, <1>8 DEF P

LEMMA NumberOfFilters ==
  ASSUME NEW c, Proper(c)
  PROVE  LET P == ToSet(c.programs)
         IN Len(AccountFilters(c)) =
              Cardinality({n \in 1 .. Cardinality(P \ Heavy) : (n - 1) % c.per_filter = 0})
                + Cardinality(P \cap Heavy)
<1> DEFINE P == ToSet(c.programs)
           heavy == Heavies(c)
           light == Lights(c)
           chunks == Chunks(light, c.per_filter)
<1>1. /\ heavy \in Seq(P) /\ light \in Seq(P) /\ chunks \in Seq(Seq(P))
      /\ \A i, j \in DOMAIN heavy : heavy[i] = heavy[j] => i = j
      /\ \A i, j \in DOMAIN light : light[i] = light[j] => i = j
      /\ ToSet(heavy) = P \cap Heavy /\ ToSet(light) = P \ Heavy
      /\ AccountFilters(c) = Alone(heavy) \o chunks
  BY PartsFacts
<1>2. c.per_filter \in Nat \ {0}
  BY DEF Proper
<1> HIDE DEF P, heavy, light, chunks
<1>3. Cardinality(P \cap Heavy) = Len(heavy) /\ Cardinality(P \ Heavy) = Len(light)
  BY <1>1, LengthIsCardinality
<1>4. Alone(heavy) \in Seq(Seq(P)) /\ Len(Alone(heavy)) = Len(heavy)
  BY <1>1, AloneFacts
<1>5. Len(chunks) = (Len(light) + c.per_filter - 1) \div c.per_filter
  BY <1>1, <1>2, ChunksFacts DEF chunks
<1>6. Len(light) \in Nat /\ Len(heavy) \in Nat /\ Len(chunks) \in Nat
  BY <1>1, LenProperties
<1> DEFINE H == {n \in 1 .. Len(light) : (n - 1) % c.per_filter = 0}
<1>7. Cardinality(H) = (Len(light) + c.per_filter - 1) \div c.per_filter
  BY <1>2, <1>6, ChunkHeads
<1> HIDE DEF H
<1>8. Len(Alone(heavy) \o chunks) = Len(heavy) + Len(chunks)
  <2> DEFINE a == Alone(heavy)
             Q == Seq(P)
  <2>1. a \in Seq(Q) /\ chunks \in Seq(Q) /\ Len(a) = Len(heavy)
    BY <1>1, <1>4
  <2> HIDE DEF a, Q
  <2>2. Len(a \o chunks) = Len(a) + Len(chunks)
    BY <2>1, ConcatProperties
  <2>3. QED
    BY <2>1, <2>2 DEF a
<1>9. Len(AccountFilters(c)) = Cardinality(H) + Cardinality(P \cap Heavy)
  BY <1>1, <1>3, <1>5, <1>6, <1>7, <1>8
<1>10. QED
  BY <1>3, <1>9 DEF H, P

\* A position is in one chunk only.
LEMMA ChunkOf ==
  ASSUME NEW size \in Nat \ {0}, NEW i \in Nat \ {0}, NEW j \in Nat \ {0},
         NEW m \in 1 .. size, NEW l \in 1 .. size, (i - 1) * size + m = (j - 1) * size + l
  PROVE  i = j
<1>1. ASSUME NEW a \in Nat \ {0}, NEW b \in Nat \ {0}, a < b, NEW x \in 1 .. size, NEW y \in 1 .. size
      PROVE  (a - 1) * size + x < (b - 1) * size + y
  <2> DEFINE d == (b - 1) - a
  <2>1. d \in Nat /\ b - 1 = a + d /\ a - 1 \in Nat
    BY <1>1
  <2>2. d * size \in Nat /\ (a + d) * size = a * size + d * size
    BY <2>1
  <2>3. (a - 1) * size \in Nat /\ a * size = (a - 1) * size + size
    BY ChunkBounds
  <2>4. (b - 1) * size = (a - 1) * size + size + d * size
    BY <2>1, <2>2, <2>3
  <2> DEFINE u == (a - 1) * size
             v == (b - 1) * size
             w == d * size
  <2>5. u \in Nat /\ w \in Nat /\ v = u + size + w
    BY <2>2, <2>3, <2>4
  <2> HIDE DEF u, v, w, d
  <2>6. u + x < v + y
    BY <2>5
  <2>7. QED
    BY <2>6 DEF u, v
<1>2. (i - 1) * size \in Nat /\ (j - 1) * size \in Nat
  BY ChunkBounds
<1>3. ~(i < j) /\ ~(j < i)
  <2> DEFINE s == (i - 1) * size + m
             t == (j - 1) * size + l
  <2>1. s \in Int /\ t \in Int /\ s = t
    BY <1>2
  <2>2. (i < j => s < t) /\ (j < i => t < s)
    BY <1>1
  <2> HIDE DEF s, t
  <2>3. QED
    BY <2>1, <2>2
<1>4. QED
  BY <1>3

Listing(P, p) == {f \in Seq(P) : p \in ToSet(f)}

LEMMA ListedInOneChunk ==
  ASSUME NEW P, NEW s \in Seq(P), \A i, j \in DOMAIN s : s[i] = s[j] => i = j,
         NEW size \in Nat \ {0}, NEW p
  PROVE  HowMany(Chunks(s, size), Listing(P, p)) = IF p \in ToSet(s) THEN 1 ELSE 0
<1> DEFINE chunks == Chunks(s, size)
<1>1. /\ chunks \in Seq(Seq(P))
      /\ \A i \in 1 .. Len(chunks) :
           /\ Len(chunks[i]) \in 1 .. size
           /\ \A m \in 1 .. Len(chunks[i]) :
                (i - 1) * size + m \in 1 .. Len(s) /\ chunks[i][m] = s[(i - 1) * size + m]
      /\ \A j \in 1 .. Len(s) :
           \E i \in 1 .. Len(chunks) : \E m \in 1 .. Len(chunks[i]) : j = (i - 1) * size + m
  <2>1. chunks \in Seq(Seq(P)) /\ IsCut(chunks, s, size)
    BY ChunksFacts
  <2> HIDE DEF chunks
  <2>2. QED
    BY <2>1 DEF IsCut
<1> HIDE DEF chunks
<1>2. /\ DOMAIN chunks = 1 .. Len(chunks) /\ Len(chunks) \in Nat
      /\ \A i \in 1 .. Len(chunks) : chunks[i] \in Seq(P) /\ DOMAIN chunks[i] = 1 .. Len(chunks[i])
      /\ DOMAIN s = 1 .. Len(s)
  BY <1>1, LenProperties, ElementOfSeq
<1>3. ASSUME NEW i \in 1 .. Len(chunks), chunks[i] \in Listing(P, p)
      PROVE  \E m \in 1 .. size : (i - 1) * size + m \in 1 .. Len(s) /\ s[(i - 1) * size + m] = p
  <2>1. PICK m \in 1 .. Len(chunks[i]) : chunks[i][m] = p
    BY <1>2, <1>3 DEF Listing, ToSet
  <2>2. m \in 1 .. size
    BY <1>1, <2>1
  <2>3. QED
    BY <1>1, <2>1, <2>2
<1>4. CASE p \notin ToSet(s)
  <2>1. \A i \in DOMAIN chunks : chunks[i] \notin Listing(P, p)
    BY <1>2, <1>3, <1>4 DEF ToSet
  <2>2. HowMany(chunks, Listing(P, p)) = 0
    BY <1>1, <2>1, HowManyType
  <2>3. QED
    BY <1>4, <2>2 DEF chunks
<1>5. CASE p \in ToSet(s)
  <2>1. PICK k \in 1 .. Len(s) : s[k] = p
    BY <1>2, <1>5 DEF ToSet
  <2>2. PICK i \in 1 .. Len(chunks) : \E m \in 1 .. Len(chunks[i]) : k = (i - 1) * size + m
    BY <1>1
  <2> PICK m \in 1 .. Len(chunks[i]) : k = (i - 1) * size + m
    BY <2>2
  <2>3. chunks[i] \in Listing(P, p)
    <3>1. chunks[i][m] = p
      BY <1>1, <2>1, <2>2
    <3>2. QED
      BY <1>2, <3>1 DEF Listing, ToSet
  <2>4. ASSUME NEW j \in 1 .. Len(chunks), chunks[j] \in Listing(P, p)
        PROVE  j = i
    <3>1. PICK l \in 1 .. size : (j - 1) * size + l \in 1 .. Len(s) /\ s[(j - 1) * size + l] = p
      BY <1>3, <2>4
    <3>2. (j - 1) * size + l = (i - 1) * size + m
      BY <1>2, <2>1, <2>2, <3>1
    <3>3. m \in 1 .. size
      <4>1. Len(chunks[i]) \in 1 .. size
        BY <1>1
      <4> DEFINE n == Len(chunks[i])
      <4>2. m \in 1 .. n /\ n \in 1 .. size
        BY <4>1
      <4> HIDE DEF n
      <4>3. QED
        BY <4>2
    <3>4. i \in Nat \ {0} /\ j \in Nat \ {0}
      BY <1>2
    <3>5. QED
      BY <3>2, <3>3, <3>4, ChunkOf
  <2>5. HowMany(chunks, Listing(P, p)) = 1
    BY <1>2, <2>3, <2>4, HowManyExactlyOne
  <2>6. QED
    BY <1>5, <2>5 DEF chunks
<1>6. QED
  BY <1>4, <1>5

LEMMA ListedInOneFilter ==
  ASSUME NEW c, Proper(c), NEW p \in ToSet(c.programs)
  PROVE  HowMany(AccountFilters(c), Listing(ToSet(c.programs), p)) = 1
<1> DEFINE P == ToSet(c.programs)
           heavy == Heavies(c)
           light == Lights(c)
           chunks == Chunks(light, c.per_filter)
           T == Listing(P, p)
<1>1. /\ heavy \in Seq(P) /\ light \in Seq(P) /\ chunks \in Seq(Seq(P))
      /\ \A i, j \in DOMAIN heavy : heavy[i] = heavy[j] => i = j
      /\ \A i, j \in DOMAIN light : light[i] = light[j] => i = j
      /\ ToSet(heavy) = P \cap Heavy /\ ToSet(light) = P \ Heavy
      /\ AccountFilters(c) = Alone(heavy) \o chunks
  BY PartsFacts
<1>2. c.per_filter \in Nat \ {0} /\ p \in P
  BY DEF Proper
<1> HIDE DEF P, heavy, light
<1>3. HowMany(chunks, T) = IF p \in ToSet(light) THEN 1 ELSE 0
  BY <1>1, <1>2, ListedInOneChunk
<1>4. /\ Alone(heavy) \in Seq(Seq(P)) /\ DOMAIN Alone(heavy) = 1 .. Len(heavy)
      /\ DOMAIN heavy = 1 .. Len(heavy)
      /\ \A i \in 1 .. Len(heavy) : Alone(heavy)[i] \in T <=> heavy[i] = p
  <2>1. /\ Alone(heavy) \in Seq(Seq(P)) /\ DOMAIN Alone(heavy) = 1 .. Len(heavy)
        /\ DOMAIN heavy = 1 .. Len(heavy)
        /\ \A i \in 1 .. Len(heavy) : ToSet(Alone(heavy)[i]) = {heavy[i]}
        /\ Len(Alone(heavy)) = Len(heavy)
    BY <1>1, AloneFacts
  <2>2. \A i \in 1 .. Len(heavy) : Alone(heavy)[i] \in Seq(P)
    BY <2>1, ElementOfSeq
  <2>3. QED
    BY <2>1, <2>2 DEF Listing
<1> HIDE DEF T, chunks
<1>5. HowMany(Alone(heavy), T) = IF p \in ToSet(heavy) THEN 1 ELSE 0
  <2>1. CASE p \in ToSet(heavy)
    <3>1. PICK k \in 1 .. Len(heavy) : heavy[k] = p
      BY <1>4, <2>1 DEF ToSet
    <3>2. \A i \in DOMAIN Alone(heavy) : Alone(heavy)[i] \in T <=> i = k
      BY <1>1, <1>4, <3>1
    <3>3. k \in DOMAIN Alone(heavy)
      BY <1>4
    <3>4. HowMany(Alone(heavy), T) = 1
      BY <3>2, <3>3, HowManyExactlyOne
    <3>5. QED
      BY <2>1, <3>4
  <2>2. CASE p \notin ToSet(heavy)
    <3>1. \A i \in DOMAIN Alone(heavy) : Alone(heavy)[i] \notin T
      BY <1>4, <2>2 DEF ToSet
    <3>2. HowMany(Alone(heavy), T) = 0
      BY <1>4, <3>1, HowManyType
    <3>3. QED
      BY <2>2, <3>2
  <2>3. QED
    BY <2>1, <2>2
<1>6. HowMany(Alone(heavy) \o chunks, T) = HowMany(Alone(heavy), T) + HowMany(chunks, T)
  BY <1>1, <1>4, HowManyConcat
<1>7. HowMany(AccountFilters(c), T) = 1
  BY <1>1, <1>2, <1>3, <1>5, <1>6
<1>8. QED
  BY <1>7 DEF T, P

LEMMA FilterSizes ==
  ASSUME NEW c, Proper(c), NEW i \in DOMAIN AccountFilters(c)
  PROVE  LET f == AccountFilters(c)[i]
         IN Len(f) \in 1 .. c.per_filter /\ (ToSet(f) \cap Heavy # {} => Len(f) = 1)
<1> DEFINE P == ToSet(c.programs)
           heavy == Heavies(c)
           light == Lights(c)
           chunks == Chunks(light, c.per_filter)
           filters == AccountFilters(c)
<1>1. /\ heavy \in Seq(P) /\ light \in Seq(P) /\ chunks \in Seq(Seq(P))
      /\ ToSet(light) = P \ Heavy
      /\ filters = Alone(heavy) \o chunks
  BY PartsFacts
<1>2. c.per_filter \in Nat \ {0}
  BY DEF Proper
<1> HIDE DEF P, heavy, light, filters
<1>3. /\ Alone(heavy) \in Seq(Seq(P)) /\ Len(Alone(heavy)) = Len(heavy)
      /\ \A j \in 1 .. Len(heavy) : Len(Alone(heavy)[j]) = 1
  BY <1>1, AloneFacts
<1>4. \A j \in 1 .. Len(chunks) :
        /\ Len(chunks[j]) \in 1 .. c.per_filter
        /\ \A m \in 1 .. Len(chunks[j]) :
             (j - 1) * c.per_filter + m \in 1 .. Len(light)
             /\ chunks[j][m] = light[(j - 1) * c.per_filter + m]
  <2>1. IsCut(chunks, light, c.per_filter)
    BY <1>1, <1>2, ChunksFacts
  <2> HIDE DEF chunks
  <2>2. QED
    BY <2>1 DEF IsCut
<1> HIDE DEF chunks
<1>5. /\ Len(heavy) \in Nat /\ Len(chunks) \in Nat /\ DOMAIN light = 1 .. Len(light)
      /\ \A j \in 1 .. Len(chunks) : DOMAIN chunks[j] = 1 .. Len(chunks[j])
  BY <1>1, LenProperties, ElementOfSeq
<1>6. /\ Len(filters) = Len(heavy) + Len(chunks) /\ DOMAIN filters = 1 .. Len(heavy) + Len(chunks)
      /\ \A k \in 1 .. Len(heavy) + Len(chunks) :
           filters[k] = IF k <= Len(heavy) THEN Alone(heavy)[k] ELSE chunks[k - Len(heavy)]
  <2> DEFINE a == Alone(heavy)
             Q == Seq(P)
  <2>1. a \in Seq(Q) /\ chunks \in Seq(Q) /\ Len(a) = Len(heavy) /\ filters = a \o chunks
    BY <1>1, <1>3
  <2> HIDE DEF a, Q
  <2>2. /\ filters \in Seq(Q) /\ Len(filters) = Len(a) + Len(chunks)
        /\ \A k \in 1 .. Len(a) + Len(chunks) :
             filters[k] = IF k <= Len(a) THEN a[k] ELSE chunks[k - Len(a)]
    BY <2>1, ConcatProperties
  <2>3. DOMAIN filters = 1 .. Len(filters)
    BY <2>2, LenProperties
  <2>4. QED
    BY <2>1, <2>2, <2>3 DEF a
<1>7. i \in 1 .. Len(heavy) + Len(chunks)
  BY <1>6 DEF filters
<1>8. CASE i <= Len(heavy)
  <2>1. i \in 1 .. Len(heavy) /\ filters[i] = Alone(heavy)[i]
    BY <1>5, <1>6, <1>7, <1>8
  <2>2. Len(filters[i]) = 1 /\ 1 \in 1 .. c.per_filter
    BY <1>2, <1>3, <2>1
  <2>3. QED
    BY <2>2 DEF filters
<1>9. CASE ~(i <= Len(heavy))
  <2> DEFINE j == i - Len(heavy)
  <2>1. j \in 1 .. Len(chunks) /\ filters[i] = chunks[j]
    BY <1>5, <1>6, <1>7, <1>9
  <2> HIDE DEF j
  <2>2. \A m \in 1 .. Len(chunks[j]) : chunks[j][m] \in ToSet(light)
    BY <1>4, <1>5, <2>1 DEF ToSet
  <2>3. ToSet(chunks[j]) \cap Heavy = {}
    BY <1>1, <1>5, <2>1, <2>2 DEF ToSet
  <2>4. QED
    BY <1>4, <2>1, <2>3 DEF filters
<1>10. QED
  BY <1>8, <1>9

\* The subscriptions of one endpoint at one commitment.
AccountSubs(c, e, commitment) ==
  [i \in DOMAIN AccountFilters(c) |-> Subscription(e, "accounts", commitment, AccountFilters(c)[i])]

\* One for a wanted subscription that is in the set.
OneIf(wanted, s, T) == IF wanted /\ s \in T THEN 1 ELSE 0
TransactionsSub(c, e, commitment) ==
  Subscription(e, "transactions", commitment, FilterOf(c, "transactions"))
BlocksSub(c, e, commitment) == Subscription(e, "blocks", commitment, FilterOf(c, "blocks"))

LEMMA AccountSubsFacts ==
  ASSUME NEW c, Proper(c), NEW e \in {1, 2}, NEW commitment \in Labels
  PROVE  /\ AccountSubs(c, e, commitment) \in Seq(SubscriptionOf(c))
         /\ DOMAIN AccountSubs(c, e, commitment) = DOMAIN AccountFilters(c)
         /\ DOMAIN AccountFilters(c) = 1 .. Len(AccountFilters(c))
         /\ \A i \in DOMAIN AccountFilters(c) :
              /\ AccountFilters(c)[i] \in Seq(ToSet(c.programs))
              /\ AccountSubs(c, e, commitment)[i] =
                   Subscription(e, "accounts", commitment, AccountFilters(c)[i])
<1> DEFINE f == AccountFilters(c)
           a == AccountSubs(c, e, commitment)
           P == ToSet(c.programs)
           S == SubscriptionOf(c)
<1>1. a = [i \in DOMAIN f |-> Subscription(e, "accounts", commitment, f[i])]
  BY DEF AccountSubs
<1>2. f \in Seq(Seq(P))
  BY PartsFacts
<1> HIDE DEF f, a, S
<1>3. Len(f) \in Nat /\ DOMAIN f = 1 .. Len(f) /\ \A i \in 1 .. Len(f) : f[i] \in Seq(P)
  BY <1>2, LenProperties, ElementOfSeq
<1>4. \A i \in 1 .. Len(f) : a[i] \in S
  <2>1. "accounts" \in AllStreams
    BY DEF AllStreams, MainStreams
  <2>2. \A i \in 1 .. Len(f) : Subscription(e, "accounts", commitment, f[i]) \in S
    BY <1>3, <2>1, SubscriptionType DEF S
  <2>3. QED
    BY <1>1, <1>3, <2>2
<1>5. a \in [1 .. Len(f) -> S]
  BY <1>1, <1>3, <1>4
<1>6. a \in Seq(S)
  BY <1>3, <1>5, SeqDef
<1>7. QED
  BY <1>1, <1>3, <1>6 DEF f, a, S

LEMMA PerCommitmentCount ==
  ASSUME NEW c, Proper(c), NEW e \in {1, 2}, NEW commitment \in Labels, NEW T
  PROVE  /\ PerCommitment(c, e, commitment) \in Seq(SubscriptionOf(c))
         /\ HowMany(PerCommitment(c, e, commitment), T) =
              HowMany(AccountSubs(c, e, commitment), T)
                + OneIf(c.with_transactions, TransactionsSub(c, e, commitment), T)
                + OneIf(c.with_blocks, BlocksSub(c, e, commitment), T)
<1> DEFINE S == SubscriptionOf(c)
           a == AccountSubs(c, e, commitment)
           x == TransactionsSub(c, e, commitment)
           y == BlocksSub(c, e, commitment)
           b == IF c.with_transactions THEN <<x>> ELSE <<>>
           d == IF c.with_blocks THEN <<y>> ELSE <<>>
<1>1. x \in S /\ y \in S
  <2>1. "transactions" \in AllStreams /\ "blocks" \in AllStreams
    BY DEF AllStreams, MainStreams
  <2>2. \A stream : FilterOf(c, stream) \in Seq(ToSet(c.programs))
    BY ProperFacts
  <2>3. QED
    BY <2>1, <2>2, SubscriptionType DEF TransactionsSub, BlocksSub
<1>2. a \in Seq(S)
  BY AccountSubsFacts
<1>3. PerCommitment(c, e, commitment) = (a \o b) \o d
  BY DEF PerCommitment, AccountSubs, TransactionsSub, BlocksSub
<1> HIDE DEF S, a, x, y
<1>4. /\ b \in Seq(S) /\ HowMany(b, T) = OneIf(c.with_transactions, x, T)
      /\ d \in Seq(S) /\ HowMany(d, T) = OneIf(c.with_blocks, y, T)
  BY <1>1, HowManyIf DEF OneIf
<1> HIDE DEF b, d
<1>5. a \o b \in Seq(S) /\ HowMany(a \o b, T) = HowMany(a, T) + HowMany(b, T)
  BY <1>2, <1>4, HowManyConcat
<1> DEFINE ab == a \o b
<1>6. ab \in Seq(S) /\ d \in Seq(S)
  BY <1>4, <1>5
<1> HIDE DEF ab
<1>7. ab \o d \in Seq(S) /\ HowMany(ab \o d, T) = HowMany(ab, T) + HowMany(d, T)
  BY <1>6, HowManyConcat
<1>8. QED
  BY <1>3, <1>4, <1>5, <1>7 DEF S, a, x, y, ab

\* The subscriptions of one endpoint on its main URL: one for slots, and those
\* of each commitment.
SlotsSub(c, e) == Subscription(e, "slots", c.commitments[1], <<>>)
CountPerCommitment(c, e, T) ==
  [i \in DOMAIN c.commitments |-> HowMany(PerCommitment(c, e, c.commitments[i]), T)]

LEMMA MainPlanCount ==
  ASSUME NEW c, Proper(c), NEW e \in {1, 2}, NEW T
  PROVE  /\ MainPlan(c, e) \in Seq(SubscriptionOf(c))
         /\ HowMany(MainPlan(c, e), T) =
              OneIf(TRUE, SlotsSub(c, e), T)
                + SumFunctionOnSet(CountPerCommitment(c, e, T), 1 .. Len(c.commitments))
<1> DEFINE S == SubscriptionOf(c)
           slots == SlotsSub(c, e)
           n == Len(c.commitments)
           each == [i \in DOMAIN c.commitments |-> PerCommitment(c, e, c.commitments[i])]
           h == CountPerCommitment(c, e, T)
           rest == FlattenSeq(each)
           first == <<slots>>
<1>1. DOMAIN c.commitments = 1 .. n /\ n \in Nat \ {0} /\ \A i \in 1 .. n : c.commitments[i] \in Labels
  BY ProperFacts
<1>2. slots \in S
  <2> DEFINE none == <<>>
             stream == "slots"
             l == c.commitments[1]
  <2>1. stream \in AllStreams /\ none \in Seq(ToSet(c.programs)) /\ l \in Labels
    BY <1>1, ProperFacts DEF AllStreams, MainStreams
  <2>2. slots = Subscription(e, stream, l, none)
    BY DEF SlotsSub
  <2> HIDE DEF none, stream, l, slots
  <2>3. QED
    BY <2>1, <2>2, SubscriptionType
<1>3. each \in Seq(Seq(S)) /\ Len(each) = n
  <2>1. \A i \in 1 .. n : PerCommitment(c, e, c.commitments[i]) \in Seq(S)
    BY <1>1, PerCommitmentCount
  <2> HIDE DEF S, n
  <2>2. each \in [1 .. n -> Seq(S)]
    BY <1>1, <2>1
  <2>3. QED
    BY <1>1, <2>2, SeqDef, LenProperties
<1>4. \A i \in 1 .. n : HowMany(each[i], T) = h[i]
  BY <1>1 DEF CountPerCommitment
<1>5. MainPlan(c, e) = first \o rest
  BY DEF MainPlan, SlotsSub
<1> HIDE DEF S, slots, n, each, h, rest
<1>6. rest \in Seq(S) /\ HowMany(rest, T) = SumFunctionOnSet(h, 1 .. n)
  <2>1. \A i \in 1 .. Len(each) : HowMany(each[i], T) = h[i]
    BY <1>3, <1>4
  <2>2. rest \in Seq(S) /\ HowMany(rest, T) = SumFunctionOnSet(h, 1 .. Len(each))
    BY <1>3, <2>1, HowManyFlatten DEF rest
  <2>3. QED
    BY <1>3, <2>2
<1>7. first \in Seq(S) /\ HowMany(first, T) = OneIf(TRUE, slots, T)
  BY <1>2, HowManyOne DEF OneIf
<1> HIDE DEF first
<1>8. first \o rest \in Seq(S) /\ HowMany(first \o rest, T) = HowMany(first, T) + HowMany(rest, T)
  <2>1. first \in Seq(S) /\ rest \in Seq(S)
    BY <1>6, <1>7
  <2>2. QED
    BY <2>1, HowManyConcat
<1>9. QED
  BY <1>5, <1>6, <1>7, <1>8 DEF S, slots, n, h

EntriesSub(e) == Subscription(e, "entries", NoCommitment, <<>>)

LEMMA EntriesPlanCount ==
  ASSUME NEW c, Proper(c), NEW e \in {1, 2}, NEW T
  PROVE  /\ EntriesPlan(c, e) \in Seq(SubscriptionOf(c))
         /\ HowMany(EntriesPlan(c, e), T) = OneIf(e \in c.entries, EntriesSub(e), T)
<1> DEFINE x == EntriesSub(e)
           S == SubscriptionOf(c)
<1>1. x \in S
  <2> DEFINE none == <<>>
             stream == "entries"
  <2>1. stream \in AllStreams /\ none \in Seq(ToSet(c.programs)) /\ NoCommitment \in Labels
    BY ProperFacts DEF AllStreams, Labels
  <2>2. x = Subscription(e, stream, NoCommitment, none)
    BY DEF EntriesSub
  <2> HIDE DEF none, stream, x
  <2>3. QED
    BY <2>1, <2>2, SubscriptionType
<1>2. EntriesPlan(c, e) = IF e \in c.entries THEN <<x>> ELSE <<>>
  BY DEF EntriesPlan, EntriesSub
<1> DEFINE wanted == e \in c.entries
           s == IF wanted THEN <<x>> ELSE <<>>
<1>3. wanted => x \in S
  BY <1>1
<1> HIDE DEF x, S, wanted
<1>4. s \in Seq(S) /\ HowMany(s, T) = OneIf(wanted, x, T)
  BY <1>3, HowManyIf DEF OneIf
<1> HIDE DEF s
<1>5. EntriesPlan(c, e) = s
  BY <1>2 DEF s, wanted
<1>6. QED
  BY <1>4, <1>5 DEF x, S, wanted

LEMMA PlanCount ==
  ASSUME NEW c, Proper(c), ~c.solo, NEW T
  PROVE  /\ PlanOf(c) \in Seq(SubscriptionOf(c))
         /\ HowMany(PlanOf(c), T) =
              HowMany(MainPlan(c, 1), T) + HowMany(MainPlan(c, 2), T)
                + HowMany(EntriesPlan(c, 1), T) + HowMany(EntriesPlan(c, 2), T)
<1> DEFINE S == SubscriptionOf(c)
           a == MainPlan(c, 1)
           b == MainPlan(c, 2)
           d == EntriesPlan(c, 1)
           f == EntriesPlan(c, 2)
<1>1. a \in Seq(S) /\ b \in Seq(S) /\ d \in Seq(S) /\ f \in Seq(S)
  BY MainPlanCount, EntriesPlanCount
<1>2. PlanOf(c) = ((a \o b) \o d) \o f
  BY DEF PlanOf
<1> HIDE DEF S, a, b, d, f
<1>3. a \o b \in Seq(S) /\ HowMany(a \o b, T) = HowMany(a, T) + HowMany(b, T)
  BY <1>1, HowManyConcat
<1> DEFINE ab == a \o b
           abd == ab \o d
<1>4. ab \in Seq(S)
  BY <1>3
<1> HIDE DEF ab
<1>5. ab \o d \in Seq(S) /\ HowMany(ab \o d, T) = HowMany(ab, T) + HowMany(d, T)
  BY <1>1, <1>4, HowManyConcat
<1>6. abd \in Seq(S)
  BY <1>5
<1> HIDE DEF abd
<1>7. abd \o f \in Seq(S) /\ HowMany(abd \o f, T) = HowMany(abd, T) + HowMany(f, T)
  BY <1>1, <1>6, HowManyConcat
<1>8. QED
  BY <1>2, <1>3, <1>5, <1>7 DEF S, a, b, d, f, ab, abd

\* --solo: each stream once, on endpoint 1.
LEMMA SoloPlanFacts ==
  ASSUME NEW c, Proper(c), c.solo
  PROVE  /\ PlanOf(c) \in Seq(SubscriptionOf(c)) /\ DOMAIN PlanOf(c) = 1 .. Len(PlanOf(c))
         /\ \A i \in DOMAIN PlanOf(c) :
              /\ PlanOf(c)[i].endpoint = 1 /\ PlanOf(c)[i].commitment = c.commitments[1]
              /\ PlanOf(c)[i].programs = FilterOf(c, PlanOf(c)[i].stream)
         /\ \A i, j \in DOMAIN PlanOf(c) : PlanOf(c)[i].stream = PlanOf(c)[j].stream => i = j
         /\ \A stream \in ToSet(c.solo_streams) : \E i \in DOMAIN PlanOf(c) : PlanOf(c)[i].stream = stream
<1> DEFINE streams == Distinct(c.solo_streams)
           n == Len(streams)
           p == PlanOf(c)
           S == SubscriptionOf(c)
<1>1. c.solo_streams \in Seq(MainStreams)
  BY DEF Proper
<1>2. /\ streams \in Seq(MainStreams)
      /\ \A k, l \in 1 .. Len(streams) : streams[k] = streams[l] => k = l
      /\ \A i \in 1 .. Len(c.solo_streams) : \E k \in 1 .. Len(streams) : streams[k] = c.solo_streams[i]
  BY <1>1, DistinctFacts
<1>3. p = [i \in DOMAIN streams |->
             Subscription(1, streams[i], c.commitments[1], FilterOf(c, streams[i]))]
  BY DEF PlanOf, SoloPlan
<1> HIDE DEF streams, p
<1>4. n \in Nat /\ DOMAIN streams = 1 .. n /\ \A i \in 1 .. n : streams[i] \in AllStreams
  BY <1>2, LenProperties, ElementOfSeq DEF AllStreams
<1> HIDE DEF n, S
<1>5. ASSUME NEW i \in 1 .. n
      PROVE  /\ p[i] \in S /\ p[i].endpoint = 1 /\ p[i].commitment = c.commitments[1]
             /\ p[i].stream = streams[i] /\ p[i].programs = FilterOf(c, streams[i])
  <2>1. p[i] = Subscription(1, streams[i], c.commitments[1], FilterOf(c, streams[i]))
    BY <1>3, <1>4
  <2>2. FilterOf(c, streams[i]) \in Seq(ToSet(c.programs)) /\ c.commitments[1] \in Labels
    BY ProperFacts
  <2>3. p[i] \in S
    BY <1>4, <2>1, <2>2, SubscriptionType DEF S
  <2>4. QED
    BY <2>1, <2>3, SubscriptionFields
<1>6. p \in [1 .. n -> S]
  BY <1>3, <1>4, <1>5
<1>7. p \in Seq(S) /\ Len(p) = n /\ DOMAIN p = 1 .. n
  BY <1>4, <1>6, SeqDef, LenProperties
<1>8. \A i, j \in 1 .. n : p[i].stream = p[j].stream => i = j
  BY <1>2, <1>5 DEF n
<1>9. ASSUME NEW stream \in ToSet(c.solo_streams)
      PROVE  \E i \in 1 .. n : p[i].stream = stream
  <2>1. PICK j \in 1 .. Len(c.solo_streams) : c.solo_streams[j] = stream
    BY <1>1, LenProperties DEF ToSet
  <2>2. PICK k \in 1 .. n : streams[k] = c.solo_streams[j]
    BY <1>2 DEF n
  <2>3. QED
    BY <1>5, <2>1, <2>2
<1>10. QED
  BY <1>5, <1>7, <1>8, <1>9 DEF p, S

LEMMA PlanType ==
  ASSUME NEW c, Proper(c)
  PROVE  PlanOf(c) \in Seq(SubscriptionOf(c))
BY PlanCount, SoloPlanFacts

----------------------------------------------------------------------------
(* The invariant is inductive.                                              *)

\* What is known once the programs are loaded.
LEMMA LoadedFacts ==
  ASSUME Loaded
  PROVE  /\ Config1 = LoadedOf(cli) /\ Proper(Config1) /\ IsCommandLine(cli)
         /\ Config1.solo = cli.solo /\ Config1.realtime = cli.realtime
         /\ Config1.ring_capacity \in Nat /\ Config1.layout \in Layout
<1>1. Config1 = LoadedOf(cli) /\ Good(cli)
  BY DEF Loaded, Config1, Some
<1>2. IsCommandLine(cli) /\ OverlayLoads(cli)
  BY <1>1, StartUpAssumption DEF Good, Acceptable
<1>3. Proper(LoadedOf(cli))
  BY <1>1, LoadedIsProper
<1>4. ConfigOf(cli).layout \in Layout /\ cli.ring_capacity \in Nat
  BY <1>2, ConfigLayoutType DEF IsCommandLine
<1>5. QED
  BY <1>1, <1>2, <1>3, <1>4, LoadedFields

LEMMA InvInitially == Init => StartUpInv
<1> SUFFICES ASSUME Init PROVE StartUpInv
  OBVIOUS
<1> USE DEF Init
<1>1. ConfigInv
  BY DEF ConfigInv, Phases, Running
<1>2. AnswerInv
  <2>1. <<>> \in Seq(Reports[1] \cup Reports[2]) /\ DOMAIN answers = {}
    BY EmptySeq
  <2>2. QED
    BY <2>1 DEF AnswerInv
<1>3. PlanInv
  BY DEF PlanInv
<1>4. ReceiverInv
  <2>1. <<>> \in Seq(Receiver) /\ DOMAIN receivers = {}
    BY EmptySeq
  <2>2. Granted = 0
    BY HowManyEmpty DEF Granted
  <2>3. QED
    BY <2>1, <2>2 DEF ReceiverInv
<1>5. QED
  BY <1>1, <1>2, <1>3, <1>4 DEF StartUpInv

LEMMA ConfigStep ==
  ASSUME ConfigInv, AnswerInv, PlanInv, [Next]_vars
  PROVE  ConfigInv'
<1> USE DEF ConfigInv
<1>1. CASE ParseArgs
  BY <1>1 DEF ParseArgs, Validated, Loaded, Good, Phases, Running, AnswerInv, PlanInv
<1>2. CASE LoadPrograms
  <2>1. Config1 = ConfigOf(cli) /\ Acceptable(cli)
    BY <1>2 DEF LoadPrograms, Validated, Config1, Some
  <2>2. ProgramsLoad(cli.programs) => config' = Some(LoadedOf(cli)) /\ Loaded'
    BY <1>2, <2>1 DEF LoadPrograms, LoadedOf, Loaded, Good
  <2>3. QED
    BY <1>2, <2>1, <2>2 DEF LoadPrograms, Phases, Running, Validated, AnswerInv, PlanInv
<1>3. CASE Connected
  BY <1>3 DEF Connected, Phases, Running, Loaded
<1>4. CASE ConnectOrAskFails
  BY <1>4 DEF ConnectOrAskFails, Phases, Running, Loaded
<1>5. ASSUME NEW r \in Reports[1] \cup Reports[2], Answer(r)
      PROVE  ConfigInv'
  BY <1>5 DEF Answer, AfterAnswer, Phases, Running, Loaded
<1>6. CASE MakePlan
  BY <1>6 DEF MakePlan, Phases, Running, Loaded
<1>7. CASE Spawn
  BY <1>7 DEF Spawn, Phases, Running, Loaded
<1>8. ASSUME NEW i \in DOMAIN receivers, NEW granted \in BOOLEAN, ReceiverEscalates(i, granted)
      PROVE  ConfigInv'
  BY <1>8 DEF ReceiverEscalates, Loaded, Validated
<1>9. ASSUME NEW granted \in BOOLEAN, Escalate(granted)
      PROVE  ConfigInv'
  BY <1>9 DEF Escalate, Phases, Running, Loaded
<1>10. CASE OpenRaw
  BY <1>10 DEF OpenRaw, Phases, Running, Loaded
<1>11. CASE UNCHANGED vars
  BY <1>11 DEF vars, Loaded, Validated
<1>12. QED
  BY <1>1, <1>2, <1>3, <1>4, <1>5, <1>6, <1>7, <1>8, <1>9, <1>10, <1>11 DEF Next

\* Nothing but an answer changes what was answered; other steps neither reach
\* nor leave the refusal.
LEMMA AnswerKept ==
  ASSUME AnswerInv, answers' = answers, phase' = "refused" <=> phase = "refused",
         cli' = cli,
         phase' \in {"args", "rejected", "load"} => phase \in {"args", "rejected", "load"},
         phase' \in {"connect", "ask"} => phase \in {"connect", "ask"} \/ answers = <<>>,
         phase' = "plan" \/ plan' # <<>> => phase = "plan" \/ plan # <<>>
  PROVE  AnswerInv'
<1>1. Endpoints' = Endpoints /\ Len(<<>>) < Endpoints
  BY DEF Endpoints
<1>2. answers \in Seq(Reports[1] \cup Reports[2])
  BY DEF AnswerInv
<1>3. (\E i \in DOMAIN answers : HasCause(answers[i]))' <=> \E i \in DOMAIN answers : HasCause(answers[i])
  OBVIOUS
<1>4. QED
  BY <1>1, <1>2, <1>3 DEF AnswerInv

LEMMA AnswerStep ==
  ASSUME ConfigInv, AnswerInv, PlanInv, [Next]_vars
  PROVE  AnswerInv'
<1>1. CASE ParseArgs
  BY <1>1, AnswerKept DEF ParseArgs
<1>2. CASE LoadPrograms
  <2>1. answers = <<>>
    BY <1>2 DEF LoadPrograms, AnswerInv
  <2>2. QED
    BY <1>2, <2>1, AnswerKept DEF LoadPrograms
<1>3. CASE Connected
  BY <1>3, AnswerKept DEF Connected
<1>4. CASE ConnectOrAskFails
  BY <1>4, AnswerKept DEF ConnectOrAskFails
<1>5. ASSUME NEW r \in Reports[1] \cup Reports[2], Answer(r)
      PROVE  AnswerInv'
  <2> DEFINE S == Reports[1] \cup Reports[2]
             n == Len(answers)
  <2>1. /\ phase = "ask" /\ r \in Reports[n + 1] /\ answers' = Append(answers, r)
        /\ phase' = IF IsRefusal(Verdict(r)) THEN "refused" ELSE AfterAnswer(n + 1)
        /\ plan' = plan /\ cli' = cli
    BY <1>5 DEF Answer, Asking
  <2>2. Loaded /\ plan = <<>>
    BY <2>1 DEF ConfigInv, PlanInv, Running
  <2>3. Config1.solo = cli.solo /\ cli.solo \in BOOLEAN
    BY <2>2, LoadedFacts DEF IsCommandLine
  <2>4. answers \in Seq(S) /\ n \in Nat /\ n < Endpoints
    BY <2>1, LenProperties DEF AnswerInv
  <2>5. n + 1 \in {1, 2} /\ (n + 1 < Endpoints <=> n + 1 = 1 /\ ~cli.solo)
        /\ (n + 1 < Endpoints \/ n + 1 = Endpoints) /\ Endpoints' = Endpoints
    BY <2>1, <2>3, <2>4 DEF Endpoints
  <2>6. IsReport(r)
    BY <2>1, <2>5, StartUpAssumption
  <2>7. IsRefusal(Verdict(r)) <=> HasCause(r)
    BY <2>6, RefusalHasCause
  <2>8. /\ answers' \in Seq(S) /\ Len(answers') = n + 1 /\ DOMAIN answers' = 1 .. (n + 1)
        /\ DOMAIN answers = 1 .. n
        /\ \A i \in 1 .. n : answers'[i] = answers[i]
        /\ answers'[n + 1] = r
    <3>1. /\ Append(answers, r) \in Seq(S) /\ Len(Append(answers, r)) = n + 1
          /\ \A i \in 1 .. n : Append(answers, r)[i] = answers[i]
          /\ Append(answers, r)[n + 1] = r
      BY <2>4, AppendProperties
    <3>2. QED
      BY <2>1, <2>4, <3>1, LenProperties
  <2>9. (\E i \in DOMAIN answers' : HasCause(answers'[i])) <=> HasCause(r)
    <3>1. ~\E i \in DOMAIN answers : HasCause(answers[i])
      BY <2>1 DEF AnswerInv
    <3>2. \A i \in 1 .. (n + 1) : i \in 1 .. n \/ i = n + 1
      BY <2>4
    <3>3. n + 1 \in 1 .. (n + 1)
      BY <2>4
    <3> HIDE DEF n
    <3>4. QED
      BY <2>8, <3>1, <3>2, <3>3
  <2>10. phase' \in {"refused", "connect", "plan"}
         /\ (phase' = "refused" <=> HasCause(r))
         /\ (phase' = "connect" => n + 1 < Endpoints)
         /\ (phase' = "plan" => n + 1 = Endpoints)
    BY <2>1, <2>3, <2>5, <2>7 DEF AfterAnswer
  <2>11. plan' = <<>>
    BY <2>1, <2>2
  <2> HIDE DEF n
  <2>12. QED
    BY <2>5, <2>8, <2>9, <2>10, <2>11 DEF AnswerInv
<1>6. CASE MakePlan
  BY <1>6, AnswerKept DEF MakePlan
<1>7. CASE Spawn
  BY <1>7, AnswerKept DEF Spawn
<1>8. ASSUME NEW i \in DOMAIN receivers, NEW granted \in BOOLEAN, ReceiverEscalates(i, granted)
      PROVE  AnswerInv'
  BY <1>8, AnswerKept DEF ReceiverEscalates
<1>9. ASSUME NEW granted \in BOOLEAN, Escalate(granted)
      PROVE  AnswerInv'
  BY <1>9, AnswerKept DEF Escalate
<1>10. CASE OpenRaw
  BY <1>10, AnswerKept DEF OpenRaw
<1>11. CASE UNCHANGED vars
  BY <1>11, AnswerKept DEF vars
<1>12. QED
  BY <1>1, <1>2, <1>3, <1>4, <1>5, <1>6, <1>7, <1>8, <1>9, <1>10, <1>11 DEF Next

LEMMA PlanStep ==
  ASSUME ConfigInv, PlanInv, [Next]_vars
  PROVE  PlanInv'
<1> USE DEF PlanInv
<1>1. CASE ParseArgs
  BY <1>1 DEF ParseArgs
<1>2. CASE LoadPrograms
  BY <1>2 DEF LoadPrograms
<1>3. CASE Connected
  BY <1>3 DEF Connected
<1>4. CASE ConnectOrAskFails
  BY <1>4 DEF ConnectOrAskFails
<1>5. ASSUME NEW r \in Reports[1] \cup Reports[2], Answer(r)
      PROVE  PlanInv'
  BY <1>5 DEF Answer, AfterAnswer
<1>6. CASE MakePlan
  BY <1>6 DEF MakePlan, Config1
<1>7. CASE Spawn
  BY <1>7 DEF Spawn, Config1
<1>8. ASSUME NEW i \in DOMAIN receivers, NEW granted \in BOOLEAN, ReceiverEscalates(i, granted)
      PROVE  PlanInv'
  BY <1>8 DEF ReceiverEscalates, Config1
<1>9. ASSUME NEW granted \in BOOLEAN, Escalate(granted)
      PROVE  PlanInv'
  BY <1>9 DEF Escalate, Config1
<1>10. CASE OpenRaw
  BY <1>10 DEF OpenRaw, Config1
<1>11. CASE UNCHANGED vars
  BY <1>11 DEF vars, Config1
<1>12. QED
  BY <1>1, <1>2, <1>3, <1>4, <1>5, <1>6, <1>7, <1>8, <1>9, <1>10, <1>11 DEF Next

LEMMA ReceiverKept ==
  ASSUME ReceiverInv, UNCHANGED <<cli, idx, receivers, coordinator, rt_applied>>,
         receivers # <<>> => plan' # <<>>,
         phase' = "spawn" => Len(receivers) < Len(plan'),
         phase' \in {"escalate", "raw", "started"} => Len(receivers) = Len(plan'),
         coordinator = "fifo" => phase' \in {"raw", "started", "failed"}
  PROVE  ReceiverInv'
BY DEF ReceiverInv, Granted

LEMMA ReceiverStep ==
  ASSUME ConfigInv, PlanInv, ReceiverInv, [Next]_vars
  PROVE  ReceiverInv'
<1>1. CASE ParseArgs
  BY <1>1, ReceiverKept DEF ParseArgs, ReceiverInv
<1>2. CASE LoadPrograms
  BY <1>2, ReceiverKept DEF LoadPrograms, ReceiverInv
<1>3. CASE Connected
  BY <1>3, ReceiverKept DEF Connected, ReceiverInv
<1>4. CASE ConnectOrAskFails
  BY <1>4, ReceiverKept DEF ConnectOrAskFails, ReceiverInv
<1>5. ASSUME NEW r \in Reports[1] \cup Reports[2], Answer(r)
      PROVE  ReceiverInv'
  BY <1>5, ReceiverKept DEF Answer, AfterAnswer, ReceiverInv
<1>6. CASE MakePlan
  <2>1. receivers = <<>> /\ Len(receivers) = 0 /\ plan' = PlanOf(Config1)
    BY <1>6, EmptySeq DEF MakePlan, ReceiverInv, PlanInv
  <2>2. Loaded
    BY <1>6 DEF MakePlan, ConfigInv, Running
  <2>3. plan' \in Seq(SubscriptionOf(Config1))
    BY <2>1, <2>2, LoadedFacts, PlanType
  <2>4. plan' # <<>> => Len(receivers) < Len(plan')
    BY <2>1, <2>3, EmptySeq, LenProperties
  <2>5. QED
    BY <1>6, <2>1, <2>4, ReceiverKept DEF MakePlan, ReceiverInv
<1>7. CASE Spawn
  <2> DEFINE k == Len(receivers)
             sub == plan[k + 1]
             e == sub.endpoint
             rec == [endpoint |-> e, stream |-> sub.stream,
                     core |-> CoreFor(Config1.layout, e, idx[e]),
                     capacity |-> RingCapacity(sub.stream, Config1.ring_capacity),
                     policy |-> IF Config1.realtime THEN "new" ELSE "other"]
  <2>1. /\ phase = "spawn" /\ receivers' = Append(receivers, rec) /\ idx' = IdxAfter(sub)
        /\ phase' = IF k + 1 < Len(plan) THEN "spawn" ELSE "escalate"
        /\ UNCHANGED <<cli, config, plan, coordinator, rt_applied>>
    BY <1>7 DEF Spawn
  <2>2. Loaded /\ plan # <<>> /\ plan = PlanOf(Config1)
    BY <2>1 DEF ConfigInv, PlanInv, Running
  <2>3. plan \in Seq(SubscriptionOf(Config1)) /\ Config1.realtime = cli.realtime
        /\ Config1.layout \in Layout /\ Config1.ring_capacity \in Nat
    BY <2>2, LoadedFacts, PlanType
  <2>4. /\ k \in Nat /\ Len(plan) \in Nat /\ k < Len(plan)
        /\ receivers \in Seq(Receiver) /\ idx \in [{1, 2} -> Nat]
    BY <2>1, <2>3, LenProperties DEF ReceiverInv
  <2>5. sub \in SubscriptionOf(Config1)
    <3>1. k + 1 \in 1 .. Len(plan)
      BY <2>4
    <3>2. QED
      BY <2>3, <3>1, ElementOfSeq
  <2>6. e \in {1, 2} /\ sub.stream \in AllStreams
    BY <2>5 DEF SubscriptionOf
  <2>7. rec \in Receiver /\ rec.policy \in {"new", "other"} /\ (~cli.realtime => rec.policy = "other")
    <3>1. CoreFor(Config1.layout, e, idx[e]) \in Int
      BY <2>3, <2>4, <2>6, CoreForType
    <3>2. RingCapacity(sub.stream, Config1.ring_capacity) \in Nat \ {0}
      BY <2>3, <2>6, RingCapacityType
    <3> HIDE DEF sub
    <3>3. QED
      BY <2>3, <2>6, <3>1, <3>2 DEF Receiver, Policies
  <2> HIDE DEF rec
  <2>8. /\ receivers' \in Seq(Receiver) /\ Len(receivers') = k + 1
        /\ DOMAIN receivers' = 1 .. (k + 1) /\ DOMAIN receivers = 1 .. k
        /\ \A i \in 1 .. k : receivers'[i] = receivers[i]
        /\ receivers'[k + 1] = rec
    <3>1. /\ Append(receivers, rec) \in Seq(Receiver) /\ Len(Append(receivers, rec)) = k + 1
          /\ \A i \in 1 .. k : Append(receivers, rec)[i] = receivers[i]
          /\ Append(receivers, rec)[k + 1] = rec
      BY <2>4, <2>7, AppendProperties
    <3>2. QED
      BY <2>1, <2>4, <3>1, LenProperties
  <2>9. Granted' = Granted
    <3> DEFINE T == {r \in Receiver : r.policy = "fifo"}
    <3>1. rec \notin T
      BY <2>7
    <3>2. Granted' = HowMany(receivers', T) /\ Granted = HowMany(receivers, T)
      BY DEF Granted
    <3> HIDE DEF T
    <3>3. HowMany(Append(receivers, rec), T) = HowMany(receivers, T) + 0
      BY <2>4, <2>7, <3>1, HowManyAppend
    <3>4. HowMany(receivers, T) \in Nat
      BY <2>4, HowManyType
    <3>5. QED
      BY <2>1, <3>2, <3>3, <3>4
  <2>10. idx' \in [{1, 2} -> Nat]
    BY <2>1, <2>4, <2>6 DEF IdxAfter
  <2>11. /\ phase' = "spawn" => Len(receivers') < Len(plan')
         /\ phase' \in {"escalate", "raw", "started"} => Len(receivers') = Len(plan')
    BY <2>1, <2>4, <2>8
  <2>12. coordinator # "fifo"
    BY <2>1 DEF ReceiverInv
  <2>13. ~cli.realtime => \A i \in DOMAIN receivers' : receivers'[i].policy = "other"
    <3>1. \A i \in 1 .. (k + 1) : i \in 1 .. k \/ i = k + 1
      BY <2>4
    <3> HIDE DEF k
    <3>2. QED
      BY <2>7, <2>8, <3>1 DEF ReceiverInv
  <2>14. /\ coordinator' \in {"fifo", "other"} /\ coordinator' # "fifo" /\ plan' # <<>>
         /\ rt_applied' = Granted' + (IF coordinator' = "fifo" THEN 1 ELSE 0)
         /\ cli' = cli
    BY <2>1, <2>2, <2>9, <2>12 DEF ReceiverInv
  <2> HIDE DEF k, sub
  <2>15. QED
    BY <2>8, <2>10, <2>11, <2>13, <2>14 DEF ReceiverInv
<1>8. ASSUME NEW i \in DOMAIN receivers, NEW granted \in BOOLEAN, ReceiverEscalates(i, granted)
      PROVE  ReceiverInv'
  <2> DEFINE p == IF granted THEN "fifo" ELSE "other"
             q == [receivers EXCEPT ![i].policy = p]
             T == {r \in Receiver : r.policy = "fifo"}
  <2>1. /\ receivers[i].policy = "new" /\ receivers' = q
        /\ rt_applied' = IF granted THEN rt_applied + 1 ELSE rt_applied
        /\ UNCHANGED <<cli, phase, plan, idx, coordinator>>
    BY <1>8 DEF ReceiverEscalates
  <2>2. receivers \in Seq(Receiver) /\ DOMAIN receivers = 1 .. Len(receivers) /\ Len(receivers) \in Nat
    BY LenProperties DEF ReceiverInv
  <2>3. receivers[i] \in Receiver
    BY <2>2, ElementOfSeq
  <2>4. [receivers[i] EXCEPT !.policy = p] \in Receiver
        /\ [receivers[i] EXCEPT !.policy = p].policy = p
    BY <2>3 DEF Receiver, Policies
  <2>5. q = [receivers EXCEPT ![i] = [receivers[i] EXCEPT !.policy = p]]
    BY <2>2
  <2> DEFINE new == [receivers[i] EXCEPT !.policy = p]
  <2> HIDE DEF new, q
  <2>6. /\ q \in Seq(Receiver) /\ Len(q) = Len(receivers) /\ DOMAIN q = DOMAIN receivers
        /\ q[i] = new /\ \A j \in DOMAIN receivers : j # i => q[j] = receivers[j]
    <3>1. q = [receivers EXCEPT ![i] = new] /\ new \in Receiver
      BY <2>4, <2>5 DEF new
    <3>2. /\ q \in Seq(Receiver) /\ Len(q) = Len(receivers) /\ DOMAIN q = DOMAIN receivers
      BY <2>2, <3>1, ExceptSeq
    <3>3. QED
      BY <2>2, <3>1, <3>2
  <2>7. receivers[i] \notin T /\ (new \in T <=> granted)
    <3>1. receivers[i].policy # "fifo" /\ new \in Receiver /\ new.policy = p
      BY <2>1, <2>4 DEF new
    <3>2. p = "fifo" <=> granted
      OBVIOUS
    <3> HIDE DEF p
    <3>3. QED
      BY <3>1, <3>2
  <2>8. Granted' = HowMany(q, T) /\ Granted = HowMany(receivers, T)
    BY <2>1 DEF Granted
  <2> HIDE DEF T
  <2>9. HowMany(q, T) = HowMany(receivers, T) + (IF q[i] \in T THEN 1 ELSE 0)
    BY <2>2, <2>6, <2>7, HowManyUpdate
  <2>10. Granted' = Granted + (IF granted THEN 1 ELSE 0) /\ Granted \in Nat
    <3>1. HowMany(receivers, T) \in Nat
      BY <2>2, HowManyType
    <3>2. QED
      BY <2>6, <2>7, <2>8, <2>9, <3>1
  <2>11. rt_applied' = Granted' + (IF coordinator' = "fifo" THEN 1 ELSE 0)
    BY <2>1, <2>10 DEF ReceiverInv
  <2>12. cli.realtime
    BY <2>1 DEF ReceiverInv
  <2>13. receivers # <<>> /\ receivers' = q /\ Len(receivers') = Len(receivers)
         /\ receivers' \in Seq(Receiver)
    BY <2>1, <2>2, <2>6, EmptySeq
  <2>14. QED
    BY <2>1, <2>11, <2>12, <2>13 DEF ReceiverInv
<1>9. ASSUME NEW granted \in BOOLEAN, Escalate(granted)
      PROVE  ReceiverInv'
  <2>1. /\ phase = "escalate" /\ phase' = "raw" /\ (granted => Config1.realtime)
        /\ coordinator' = IF granted THEN "fifo" ELSE coordinator
        /\ rt_applied' = IF granted THEN rt_applied + 1 ELSE rt_applied
        /\ UNCHANGED <<cli, plan, idx, receivers>>
    BY <1>9 DEF Escalate
  <2>2. Loaded
    BY <2>1 DEF ConfigInv, Running
  <2>3. Config1.realtime = cli.realtime
    BY <2>2, LoadedFacts
  <2>4. coordinator = "other"
    BY <2>1 DEF ReceiverInv
  <2>5. Granted' = Granted /\ Granted \in Nat
    <3>1. receivers \in Seq(Receiver)
      BY DEF ReceiverInv
    <3>2. QED
      BY <2>1, <3>1, HowManyType DEF Granted
  <2>6. rt_applied' = Granted' + (IF coordinator' = "fifo" THEN 1 ELSE 0)
    BY <2>1, <2>4, <2>5 DEF ReceiverInv
  <2>7. QED
    BY <2>1, <2>3, <2>4, <2>6 DEF ReceiverInv
<1>10. CASE OpenRaw
  <2>1. plan' = plan /\ phase' \in {"started", "failed"} /\ phase = "raw"
    BY <1>10 DEF OpenRaw
  <2>2. QED
    BY <1>10, <2>1, ReceiverKept DEF OpenRaw, ReceiverInv
<1>11. CASE UNCHANGED vars
  BY <1>11, ReceiverKept DEF vars, ReceiverInv
<1>12. QED
  BY <1>1, <1>2, <1>3, <1>4, <1>5, <1>6, <1>7, <1>8, <1>9, <1>10, <1>11 DEF Next

LEMMA StartUpInvariant == Spec => []StartUpInv
<1>1. Init => StartUpInv
  BY InvInitially
<1>2. StartUpInv /\ [Next]_vars => StartUpInv'
  BY ConfigStep, AnswerStep, PlanStep, ReceiverStep DEF StartUpInv
<1>3. QED
  BY <1>1, <1>2, PTL DEF Spec

----------------------------------------------------------------------------
(* Theorems.                                                                *)

\* rt_applied counts the threads that were granted SCHED_FIFO, in whatever
\* order they asked; it reaches the number expected only if all of them were.
THEOREM RealtimeClaimed == Spec => []RealtimeHonest
<1>1. StartUpInv => RealtimeHonest
  <2> SUFFICES ASSUME StartUpInv, phase = "started"
               PROVE  RtClaim <=> /\ cli.realtime /\ coordinator = "fifo"
                                  /\ Len(receivers) = Len(plan)
                                  /\ \A i \in DOMAIN receivers : receivers[i].policy = "fifo"
    BY DEF RealtimeHonest
  <2> DEFINE n == Len(receivers)
             T == {r \in Receiver : r.policy = "fifo"}
             all == \A i \in DOMAIN receivers : receivers[i].policy = "fifo"
  <2>1. Loaded /\ ReceiverInv
    BY DEF StartUpInv, ConfigInv, Running
  <2>2. Config1.realtime = cli.realtime /\ cli.realtime \in BOOLEAN
    BY <2>1, LoadedFacts DEF IsCommandLine
  <2>3. receivers \in Seq(Receiver) /\ n = Len(plan) /\ n \in Nat
    BY <2>1, LenProperties DEF ReceiverInv
  <2>4. all <=> \A i \in DOMAIN receivers : receivers[i] \in T
    BY <2>3, LenProperties, ElementOfSeq
  <2>5. Granted = HowMany(receivers, T)
    BY DEF Granted
  <2> HIDE DEF T, all
  <2>6. Granted <= n /\ (Granted = n <=> all) /\ Granted \in Nat
    <3>1. HowMany(receivers, T) <= n /\ HowMany(receivers, T) \in Nat
      BY <2>3, HowManyAtMost, HowManyType
    <3>2. HowMany(receivers, T) = n <=> \A i \in DOMAIN receivers : receivers[i] \in T
      BY <2>3, HowManyAtMost
    <3>3. QED
      BY <2>4, <2>5, <3>1, <3>2
  <2>7. /\ rt_applied = Granted + (IF coordinator = "fifo" THEN 1 ELSE 0)
        /\ coordinator = "fifo" \/ coordinator = "other"
    BY <2>1 DEF ReceiverInv
  <2>8. RtExpected = IF cli.realtime THEN n + 1 ELSE 0
    BY <2>2, <2>3 DEF RtExpected
  <2> HIDE DEF n
  <2>9. RtClaim <=> cli.realtime /\ coordinator = "fifo" /\ all
    <3>1. CASE coordinator = "fifo"
      BY <2>2, <2>3, <2>6, <2>7, <2>8, <3>1 DEF RtClaim
    <3>2. CASE coordinator = "other"
      BY <2>2, <2>3, <2>6, <2>7, <2>8, <3>2 DEF RtClaim
    <3>3. QED
      BY <2>7, <3>1, <3>2
  <2>10. QED
    BY <2>3, <2>9 DEF n, all
<1>2. QED
  BY <1>1, StartUpInvariant, PTL

\* Whether in its own right or after the programs are loaded, each field of
\* the configuration is what it would be without the TOML file, but for the
\* three the file may fill in, and those only where the command line is silent.
THEOREM OverlayFillsIn == Spec => []OverlayOnlyFillsIn
<1>1. StartUpInv => OverlayOnlyFillsIn
  <2> DEFINE bare == [cli EXCEPT !.config = None]
             alone == ConfigOf(bare)
             own == ConfigOf(cli)
  <2> SUFFICES ASSUME StartUpInv, config # None,
                      NEW f \in DOMAIN alone
               PROVE  \/ f = "raw_records" /\ ~Given(cli.raw_records)
                      \/ f = "layout" /\ ~Given(cli.cpu_affinity)
                      \/ f = "log_level" /\ cli.log_level = "info"
                      \/ f = "programs"
                      \/ Config1[f] = alone[f]
    BY DEF OverlayOnlyFillsIn
  <2>1. Validated \/ Loaded
    BY DEF StartUpInv, ConfigInv, Phases
  <2>2. Config1 = own \/ Config1 = LoadedOf(cli)
    BY <2>1 DEF Validated, Loaded, Config1, Some
  <2>3. DOMAIN alone = DOMAIN own /\ (f # "programs" => Config1[f] = own[f])
    BY <2>2 DEF LoadedOf, ConfigOf
  <2>4. cli \in CommandLines
    BY DEF StartUpInv, ConfigInv
  <2>5. DOMAIN cli = DOMAIN StreamOptions \cup DOMAIN RunOptions
    BY <2>4, StartUpAssumption DEF IsCommandLine
  <2>6. \A g \in DOMAIN cli : g # "config" => bare[g] = cli[g]
    OBVIOUS
  <2>7. /\ bare.solo = cli.solo /\ bare.solo_streams = cli.solo_streams
        /\ bare.slots = cli.slots /\ bare.duration = cli.duration
        /\ bare.commitment = cli.commitment
        /\ bare.accounts_programs_per_filter = cli.accounts_programs_per_filter
        /\ bare.with_transactions = cli.with_transactions /\ bare.with_blocks = cli.with_blocks
        /\ bare.entries_endpoint = cli.entries_endpoint /\ bare.realtime = cli.realtime
        /\ bare.ring_capacity = cli.ring_capacity /\ bare.cpu_affinity = cli.cpu_affinity
        /\ bare.raw_records = cli.raw_records /\ bare.log_level = cli.log_level
    BY <2>5, <2>6 DEF StreamOptions, RunOptions
  <2> HIDE DEF bare
  <2>8. Given(cli.cpu_affinity) => LayoutOfEither(bare) = LayoutOfEither(cli)
    BY <2>7 DEF LayoutOfEither
  <2>9. Given(cli.raw_records) => own.raw_records = alone.raw_records
    BY <2>7 DEF ConfigOf, Or
  <2>10. cli.log_level # "info" => own.log_level = alone.log_level
    BY <2>7 DEF ConfigOf, LogLevelOf
  <2>11. Given(cli.cpu_affinity) => own.layout = alone.layout
    BY <2>7, <2>8 DEF ConfigOf
  <2>12. f \notin {"raw_records", "layout", "log_level"} => own[f] = alone[f]
    <3>1. f \in {"solo", "solo_streams", "slots", "duration", "commitments", "programs", "per_filter",
                 "with_transactions", "with_blocks", "entries", "layout", "realtime",
                 "ring_capacity", "raw_records", "log_level"}
      BY DEF ConfigOf
    <3>2. /\ own.solo = alone.solo /\ own.solo_streams = alone.solo_streams
          /\ own.slots = alone.slots /\ own.duration = alone.duration
          /\ own.commitments = alone.commitments /\ own.programs = alone.programs
          /\ own.with_transactions = alone.with_transactions
          /\ own.with_blocks = alone.with_blocks /\ own.realtime = alone.realtime
          /\ own.ring_capacity = alone.ring_capacity
      BY <2>7 DEF ConfigOf
    <3>3. own.per_filter = alone.per_filter
      BY <2>7 DEF ConfigOf
    <3>4. own.entries = alone.entries
      BY <2>7 DEF ConfigOf
    <3> HIDE DEF own, alone
    <3>5. QED
      BY <3>1, <3>2, <3>3, <3>4
  <2>13. f = "raw_records" => own[f] = own.raw_records /\ alone[f] = alone.raw_records
    OBVIOUS
  <2>14. f = "layout" => own[f] = own.layout /\ alone[f] = alone.layout
    OBVIOUS
  <2>15. f = "log_level" => own[f] = own.log_level /\ alone[f] = alone.log_level
    OBVIOUS
  <2> HIDE DEF own, alone
  <2>16. QED
    BY <2>3, <2>9, <2>10, <2>11, <2>12, <2>13, <2>14, <2>15
<1>2. QED
  BY <1>1, StartUpInvariant, PTL

\* A plan other than that of --solo asks endpoint 1 for slots.
LEMMA SlotsAreAsked ==
  ASSUME NEW c, Proper(c),
         c.solo => "slots" \in ToSet(c.solo_streams)
  PROVE  \E i \in DOMAIN PlanOf(c) : PlanOf(c)[i].endpoint = 1 /\ CarriesSlots(PlanOf(c)[i])
<1>1. CASE c.solo
  <2>1. PICK i \in DOMAIN PlanOf(c) : PlanOf(c)[i].stream = "slots"
    BY <1>1, SoloPlanFacts
  <2>2. QED
    BY <1>1, <2>1, SoloPlanFacts DEF CarriesSlots
<1>2. CASE ~c.solo
  <2> DEFINE p == PlanOf(c)
             a == MainPlan(c, 1)
             b == MainPlan(c, 2)
             d == EntriesPlan(c, 1)
             f == EntriesPlan(c, 2)
             T == {SlotsSub(c, 1)}
             S == SubscriptionOf(c)
  <2>1. /\ p \in Seq(S)
        /\ HowMany(p, T) = HowMany(a, T) + HowMany(b, T) + HowMany(d, T) + HowMany(f, T)
    BY <1>2, PlanCount
  <2>2. a \in Seq(S) /\ b \in Seq(S) /\ d \in Seq(S) /\ f \in Seq(S)
    BY MainPlanCount, EntriesPlanCount
  <2> DEFINE h == SumFunctionOnSet(CountPerCommitment(c, 1, T), 1 .. Len(c.commitments))
  <2>3. HowMany(a, T) = OneIf(TRUE, SlotsSub(c, 1), T) + h
    BY MainPlanCount
  <2>4. OneIf(TRUE, SlotsSub(c, 1), T) = 1
    BY DEF OneIf
  <2>5. h \in Nat
    <3> DEFINE g == CountPerCommitment(c, 1, T)
               n == Len(c.commitments)
    <3>1. ASSUME NEW i \in 1 .. n PROVE g[i] \in Nat
      <4>1. i \in DOMAIN c.commitments /\ c.commitments[i] \in Labels
        BY ProperFacts
      <4>2. PerCommitment(c, 1, c.commitments[i]) \in Seq(S)
        BY <4>1, PerCommitmentCount
      <4>3. HowMany(PerCommitment(c, 1, c.commitments[i]), T) \in Nat
        BY <4>2, HowManyType
      <4>4. QED
        BY <4>1, <4>3 DEF CountPerCommitment
    <3>2. n \in Nat
      BY ProperFacts
    <3> HIDE DEF g, n, T
    <3>3. IsFiniteSet(1 .. n)
      BY <3>2, FS_Interval
    <3>4. SumFunctionOnSet(g, 1 .. n) \in Nat
      BY <3>1, <3>3, SumIsNatural
    <3>5. QED
      BY <3>4 DEF g, n
  <2> HIDE DEF p, a, b, d, f, T, S, h
  <2>6. HowMany(a, T) \in Nat /\ HowMany(b, T) \in Nat /\ HowMany(d, T) \in Nat /\ HowMany(f, T) \in Nat
    BY <2>2, HowManyType
  <2> DEFINE na == HowMany(a, T)
             nb == HowMany(b, T)
             nd == HowMany(d, T)
             nf == HowMany(f, T)
  <2>7. HowMany(p, T) # 0
    <3>1. HowMany(p, T) = na + nb + nd + nf /\ na = 1 + h
      BY <2>1, <2>3, <2>4
    <3>2. na \in Nat /\ nb \in Nat /\ nd \in Nat /\ nf \in Nat
      BY <2>6
    <3> HIDE DEF na, nb, nd, nf
    <3>3. QED
      BY <2>5, <3>1, <3>2
  <2>8. PICK i \in DOMAIN p : p[i] \in T
    BY <2>1, <2>7, HowManyType
  <2>9. QED
    BY <2>8, SubscriptionFields DEF T, p, SlotsSub, CarriesSlots
<1>3. QED
  BY <1>1, <1>2

\* HasStop and the validation of the streams leave one way in which a run
\* cannot end by itself, and it takes --solo.
THEOREM RunsCanStop == Spec => []CanStop
<1>1. StartUpInv => CanStop
  <2> DEFINE asked == \E i \in DOMAIN plan : plan[i].endpoint = 1 /\ CarriesSlots(plan[i])
             unasked == cli.solo /\ "slots" \notin ToSet(cli.solo_streams)
  <2> SUFFICES ASSUME StartUpInv, phase = "started"
               PROVE  Given(cli.duration) \/ (Given(cli.slots) /\ (asked \/ unasked))
    BY DEF CanStop
  <2>1. Loaded /\ plan # <<>> /\ plan = PlanOf(Config1)
    BY DEF StartUpInv, ConfigInv, PlanInv, Running
  <2>2. Given(cli.slots) \/ Given(cli.duration)
    BY <2>1 DEF Loaded, Good, Acceptable, HasStop
  <2>3. Proper(Config1) /\ Config1.solo = cli.solo /\ Config1.solo_streams = cli.solo_streams
    BY <2>1, LoadedFacts, LoadedFields
  <2>4. ~unasked => asked
    BY <2>1, <2>3, SlotsAreAsked
  <2> HIDE DEF asked, unasked
  <2>5. QED
    BY <2>2, <2>4
<1>2. QED
  BY <1>1, StartUpInvariant, PTL

LEMMA AnswersAreReports ==
  ASSUME AnswerInv, NEW i \in DOMAIN answers
  PROVE  IsReport(answers[i]) /\ (phase # "refused" => ~HasCause(answers[i]))
<1>1. answers[i] \in Reports[1] \cup Reports[2]
  BY LenProperties, ElementOfSeq DEF AnswerInv
<1>2. IsReport(answers[i])
  BY <1>1, StartUpAssumption
<1>3. QED
  BY <1>2 DEF AnswerInv

\* The refusal of a run follows from the answers alone, whatever the order of
\* the comparisons in `classify`, and every endpoint whose main URL the plan
\* uses was asked before the first receiver was spawned.
THEOREM RefusalHasItsCause == Spec => []RefusedForCause
<1>1. StartUpInv => RefusedForCause
  <2> SUFFICES ASSUME StartUpInv
               PROVE  RefusedForCause
    OBVIOUS
  <2>1. AnswerInv /\ PlanInv /\ ReceiverInv /\ ConfigInv
    BY DEF StartUpInv
  <2>2. phase = "refused" <=> \E i \in DOMAIN answers : HasCause(answers[i])
    BY <2>1 DEF AnswerInv
  <2>3. ASSUME receivers # <<>>, NEW i \in DOMAIN plan, plan[i].stream # "entries"
        PROVE  plan[i].endpoint \in DOMAIN answers /\ ~HasCause(answers[plan[i].endpoint])
    <3>1. plan # <<>> /\ plan = PlanOf(Config1) /\ phase # "refused" /\ Loaded
      BY <2>1, <2>3 DEF ReceiverInv, PlanInv, ConfigInv
    <3>2. Proper(Config1) /\ Config1.solo = cli.solo /\ cli.solo \in BOOLEAN
      BY <3>1, LoadedFacts DEF Proper
    <3>3. DOMAIN answers = 1 .. Endpoints
      BY <2>1, <3>1, LenProperties DEF AnswerInv
    <3>4. plan[i].endpoint \in {1, 2} /\ (cli.solo => plan[i].endpoint = 1)
      <4>1. plan \in Seq(SubscriptionOf(Config1))
        BY <3>1, <3>2, PlanType
      <4>2. plan[i] \in SubscriptionOf(Config1)
        BY <4>1, LenProperties, ElementOfSeq
      <4>3. cli.solo => plan[i].endpoint = 1
        BY <3>1, <3>2, SoloPlanFacts
      <4>4. QED
        BY <4>2, <4>3 DEF SubscriptionOf
    <3>5. plan[i].endpoint \in DOMAIN answers
      BY <3>2, <3>3, <3>4 DEF Endpoints
    <3>6. QED
      BY <2>1, <3>1, <3>5, AnswersAreReports
  <2>4. QED
    BY <2>2, <2>3 DEF RefusedForCause
<1>2. QED
  BY <1>1, StartUpInvariant, PTL

\* Of all the answers a run may start with, only two kinds leave no warning.
THEOREM AnswersOnRecord == Spec => []AnswerOnRecord
<1>1. StartUpInv => AnswerOnRecord
  <2> SUFFICES ASSUME StartUpInv, NEW i \in DOMAIN answers,
                      phase = "started", Warnings(answers[i]) = {}
               PROVE  LET r == answers[i]
                          proto == IF r.proto = Missing THEN r.version ELSE r.proto
                      IN proto = Harness \/ (proto = Missing /\ r.package # NoPackage)
    BY DEF AnswerOnRecord
  <2>1. IsReport(answers[i]) /\ ~HasCause(answers[i])
    BY AnswersAreReports DEF StartUpInv
  <2>2. QED
    BY <2>1, SilentAnswers
<1>2. QED
  BY <1>1, StartUpInvariant, PTL

----------------------------------------------------------------------------
(* What is in the plan of a configuration, counted.                         *)

\* A set of account filters of one endpoint at one commitment is met in its
\* part of the plan only.
LEMMA CountAtOne ==
  ASSUME NEW c, Proper(c), ~c.solo, NEW e \in {1, 2}, NEW k \in DOMAIN c.commitments, NEW T,
         \A s \in T : s.endpoint = e /\ s.stream = "accounts" /\ s.commitment = c.commitments[k]
  PROVE  HowMany(PlanOf(c), T) = HowMany(AccountSubs(c, e, c.commitments[k]), T)
<1> DEFINE n == Len(c.commitments)
           At(d, i) == HowMany(PerCommitment(c, d, c.commitments[i]), T)
<1>1. DOMAIN c.commitments = 1 .. n /\ n \in Nat /\ \A i \in 1 .. n : c.commitments[i] \in Labels
  BY ProperFacts
<1>2. \A i \in 1 .. n : i # k => c.commitments[i] # c.commitments[k]
  BY <1>1 DEF Proper, IsInjective
<1>3. ASSUME NEW d \in {1, 2}, NEW i \in 1 .. n
      PROVE  At(d, i) = IF d = e /\ i = k THEN HowMany(AccountSubs(c, e, c.commitments[k]), T) ELSE 0
  <2> DEFINE l == c.commitments[i]
             a == AccountSubs(c, d, l)
  <2>1. l \in Labels
    BY <1>1
  <2> HIDE DEF l
  <2>2. HowMany(PerCommitment(c, d, l), T) =
          HowMany(a, T) + OneIf(c.with_transactions, TransactionsSub(c, d, l), T)
            + OneIf(c.with_blocks, BlocksSub(c, d, l), T)
    BY <2>1, PerCommitmentCount
  <2>3. TransactionsSub(c, d, l) \notin T /\ BlocksSub(c, d, l) \notin T
    BY SubscriptionFields DEF TransactionsSub, BlocksSub
  <2>4. OneIf(c.with_transactions, TransactionsSub(c, d, l), T) = 0
        /\ OneIf(c.with_blocks, BlocksSub(c, d, l), T) = 0
    BY <2>3 DEF OneIf
  <2>5. a \in Seq(SubscriptionOf(c))
    BY <2>1, AccountSubsFacts
  <2>6. HowMany(a, T) \in Nat
    BY <2>5, HowManyType
  <2>7. HowMany(PerCommitment(c, d, l), T) = HowMany(a, T)
    BY <2>2, <2>4, <2>6
  <2>8. CASE d = e /\ i = k
    BY <2>7, <2>8 DEF l
  <2>9. CASE ~(d = e /\ i = k)
    <3>1. d # e \/ l # c.commitments[k]
      BY <1>2, <2>9 DEF l
    <3>2. ASSUME NEW j \in DOMAIN a PROVE a[j] \notin T
      <4>1. a[j] = Subscription(d, "accounts", l, AccountFilters(c)[j])
        BY <2>1, AccountSubsFacts
      <4>2. a[j].endpoint = d /\ a[j].commitment = l
        BY <4>1, SubscriptionFields
      <4>3. QED
        BY <3>1, <4>2
    <3>3. HowMany(a, T) = 0
      BY <2>5, <3>2, HowManyType
    <3>4. QED
      BY <2>7, <2>9, <3>3 DEF l
  <2>10. QED
    BY <2>8, <2>9
<1>4. ASSUME NEW d \in {1, 2}
      PROVE  HowMany(MainPlan(c, d), T) =
               IF d = e THEN HowMany(AccountSubs(c, e, c.commitments[k]), T) ELSE 0
  <2> DEFINE h == CountPerCommitment(c, d, T)
             m == HowMany(AccountSubs(c, e, c.commitments[k]), T)
  <2>1. \A i \in 1 .. n : h[i] = At(d, i)
    BY <1>1 DEF CountPerCommitment
  <2>2. HowMany(MainPlan(c, d), T) = OneIf(TRUE, SlotsSub(c, d), T) + SumFunctionOnSet(h, 1 .. n)
    BY MainPlanCount
  <2>3. OneIf(TRUE, SlotsSub(c, d), T) = 0
    BY SubscriptionFields DEF OneIf, SlotsSub
  <2>4. IsFiniteSet(1 .. n) /\ k \in 1 .. n
    BY <1>1, FS_Interval
  <2>5. m \in Nat
    <3>1. AccountSubs(c, e, c.commitments[k]) \in Seq(SubscriptionOf(c))
      BY <1>1, AccountSubsFacts
    <3>2. QED
      BY <3>1, HowManyType
  <2>6. \A i \in 1 .. n : h[i] = IF d = e /\ i = k THEN m ELSE 0
    BY <1>3, <2>1
  <2> HIDE DEF h, m, n
  <2>7. SumFunctionOnSet(h, 1 .. n) = IF d = e THEN m ELSE 0
    <3> DEFINE J == 1 .. n
    <3>1. IsFiniteSet(J) /\ k \in J /\ (\A i \in J : h[i] \in Int)
          /\ \A i \in J \ {k} : h[i] = 0
      BY <2>4, <2>5, <2>6
    <3> HIDE DEF J
    <3>2. SumFunctionOnSet(h, J) = h[k] + SumFunctionOnSet(h, J \ {k})
      BY <3>1, SumRest
    <3>3. IsFiniteSet(J \ {k})
      BY <3>1, FS_RemoveElement
    <3> DEFINE R == J \ {k}
    <3>4. IsFiniteSet(R) /\ \A i \in R : h[i] = 0
      BY <3>1, <3>3
    <3> HIDE DEF R
    <3>5. SumFunctionOnSet(h, R) = 0
      BY <3>4, SumOfZeros
    <3>6. h[k] = (IF d = e THEN m ELSE 0) /\ h[k] \in Int
      BY <2>4, <2>5, <2>6
    <3>7. QED
      BY <3>2, <3>5, <3>6 DEF R, J
  <2>8. HowMany(MainPlan(c, d), T) = IF d = e THEN m ELSE 0
    <3> DEFINE x == SumFunctionOnSet(h, 1 .. n)
    <3>1. x = (IF d = e THEN m ELSE 0) /\ HowMany(MainPlan(c, d), T) = 0 + x
      BY <2>2, <2>3, <2>7
    <3> HIDE DEF x
    <3>2. x \in Nat
      BY <2>5, <3>1
    <3>3. QED
      BY <3>1, <3>2
  <2>9. QED
    BY <2>8 DEF m
<1>5. ASSUME NEW d \in {1, 2} PROVE HowMany(EntriesPlan(c, d), T) = 0
  <2>1. EntriesSub(d) \notin T
    BY SubscriptionFields DEF EntriesSub
  <2>2. QED
    BY <2>1, EntriesPlanCount DEF OneIf
<1>6. HowMany(PlanOf(c), T) =
        HowMany(MainPlan(c, 1), T) + HowMany(MainPlan(c, 2), T)
          + HowMany(EntriesPlan(c, 1), T) + HowMany(EntriesPlan(c, 2), T)
  BY PlanCount
<1> DEFINE m == HowMany(AccountSubs(c, e, c.commitments[k]), T)
<1>7. m \in Nat
  <2>1. AccountSubs(c, e, c.commitments[k]) \in Seq(SubscriptionOf(c))
    BY <1>1, AccountSubsFacts
  <2>2. QED
    BY <2>1, HowManyType
<1> HIDE DEF m, n, At
<1>8. HowMany(PlanOf(c), T) = m
  BY <1>4, <1>5, <1>6, <1>7 DEF m
<1>9. QED
  BY <1>8 DEF m

\* Account filters at one endpoint and commitment, and those that list a program.
IsFilterAt(s, e, commitment) ==
  s.stream = "accounts" /\ s.endpoint = e /\ s.commitment = commitment
FiltersAt(plan_, e, commitment) == {i \in DOMAIN plan_ : IsFilterAt(plan_[i], e, commitment)}
WatchersAt(plan_, e, commitment, p) ==
  {i \in FiltersAt(plan_, e, commitment) : p \in ToSet(plan_[i].programs)}

\* The size of a filter against a second endpoint.
IsSized(f, size) == Len(f) \in 1 .. size /\ (ToSet(f) \cap Heavy # {} => Len(f) = 1)

LEMMA OneWatcher ==
  ASSUME NEW c, Proper(c), ~c.solo, NEW e \in {1, 2}, NEW k \in DOMAIN c.commitments,
         NEW p \in ToSet(c.programs)
  PROVE  Cardinality(WatchersAt(PlanOf(c), e, c.commitments[k], p)) = 1
<1> DEFINE l == c.commitments[k]
           S == SubscriptionOf(c)
           T == {s \in S : IsFilterAt(s, e, l) /\ p \in ToSet(s.programs)}
           plan_ == PlanOf(c)
           P == ToSet(c.programs)
           subs == AccountSubs(c, e, l)
           filters == AccountFilters(c)
<1>1. l \in Labels
  BY ProperFacts
<1>2. plan_ \in Seq(S) /\ \A i \in DOMAIN plan_ : plan_[i] \in S
  <2>1. plan_ \in Seq(S)
    BY PlanType
  <2>2. QED
    BY <2>1, LenProperties, ElementOfSeq
<1>3. WatchersAt(plan_, e, l, p) = {i \in DOMAIN plan_ : plan_[i] \in T}
  <2> HIDE DEF plan_, S, l
  <2>1. QED
    BY <1>2 DEF WatchersAt, FiltersAt
<1>4. HowMany(plan_, T) = HowMany(subs, T)
  <2>1. \A s \in T : s.endpoint = e /\ s.stream = "accounts" /\ s.commitment = c.commitments[k]
    BY DEF IsFilterAt
  <2> HIDE DEF T
  <2>2. QED
    BY <2>1, CountAtOne
<1>5. /\ DOMAIN subs = DOMAIN filters /\ subs \in Seq(S)
      /\ \A i \in DOMAIN filters : /\ filters[i] \in Seq(P)
                                   /\ subs[i] = Subscription(e, "accounts", l, filters[i])
  BY <1>1, AccountSubsFacts
<1>6. \A i \in DOMAIN subs : subs[i] \in T <=> filters[i] \in Listing(P, p)
  <2> SUFFICES ASSUME NEW i \in DOMAIN subs
               PROVE  subs[i] \in T <=> filters[i] \in Listing(P, p)
    OBVIOUS
  <2>1. /\ subs[i].endpoint = e /\ subs[i].stream = "accounts" /\ subs[i].commitment = l
        /\ subs[i].programs = filters[i]
    BY <1>5, SubscriptionFields
  <2>2. subs[i] \in S
    BY <1>5, LenProperties, ElementOfSeq
  <2>3. filters[i] \in Seq(P)
    BY <1>5
  <2> HIDE DEF subs, filters, S, l, P
  <2>4. QED
    BY <2>1, <2>2, <2>3 DEF Listing, IsFilterAt
<1>7. HowMany(filters, Listing(P, p)) = 1
  BY ListedInOneFilter
<1> HIDE DEF subs, filters, S, l, P, T, plan_
<1>8. HowMany(subs, T) = HowMany(filters, Listing(P, p))
  BY <1>5, <1>6, HowManyMapped
<1>9. Cardinality(WatchersAt(plan_, e, l, p)) = 1
  BY <1>3, <1>4, <1>7, <1>8 DEF HowMany
<1>10. QED
  BY <1>9 DEF plan_, l

LEMMA EveryFilterIsSized ==
  ASSUME NEW c, Proper(c), ~c.solo, NEW e \in {1, 2}, NEW k \in DOMAIN c.commitments,
         NEW i \in FiltersAt(PlanOf(c), e, c.commitments[k])
  PROVE  IsSized(PlanOf(c)[i].programs, c.per_filter)
<1> DEFINE l == c.commitments[k]
           S == SubscriptionOf(c)
           T == {s \in S : IsFilterAt(s, e, l) /\ ~IsSized(s.programs, c.per_filter)}
           plan_ == PlanOf(c)
           subs == AccountSubs(c, e, l)
           filters == AccountFilters(c)
<1>1. l \in Labels
  BY ProperFacts
<1>2. plan_ \in Seq(S)
  BY PlanType
<1>3. HowMany(plan_, T) = HowMany(subs, T)
  <2>1. \A s \in T : s.endpoint = e /\ s.stream = "accounts" /\ s.commitment = c.commitments[k]
    BY DEF IsFilterAt
  <2> HIDE DEF T
  <2>2. QED
    BY <2>1, CountAtOne
<1>4. subs \in Seq(S) /\ \A j \in DOMAIN subs : subs[j] \notin T
  <2>1. subs \in Seq(S) /\ DOMAIN subs = DOMAIN filters
    BY <1>1, AccountSubsFacts
  <2>2. ASSUME NEW j \in DOMAIN subs PROVE IsSized(subs[j].programs, c.per_filter)
    <3>1. subs[j] = Subscription(e, "accounts", l, filters[j])
      BY <1>1, <2>1, AccountSubsFacts
    <3>2. subs[j].programs = filters[j]
      BY <3>1, SubscriptionFields
    <3>3. IsSized(filters[j], c.per_filter)
      BY <2>1, FilterSizes DEF IsSized
    <3>4. QED
      BY <3>2, <3>3
  <2>3. QED
    BY <2>1, <2>2
<1> HIDE DEF S, T, subs, filters, plan_
<1>5. HowMany(subs, T) = 0
  BY <1>4, HowManyType
<1>6. \A j \in DOMAIN plan_ : plan_[j] \notin T
  BY <1>2, <1>3, <1>5, HowManyType
<1>7. i \in DOMAIN plan_ /\ IsFilterAt(plan_[i], e, l)
  BY DEF FiltersAt, plan_
<1>8. plan_[i] \in S
  BY <1>2, <1>7, LenProperties, ElementOfSeq
<1>9. QED
  BY <1>6, <1>7, <1>8 DEF T, plan_

\* With --solo the one account filter lists them all.
LEMMA OneSoloWatcher ==
  ASSUME NEW c, Proper(c), c.solo, NEW e, NEW l, FiltersAt(PlanOf(c), e, l) # {},
         NEW p \in ToSet(c.programs)
  PROVE  Cardinality(WatchersAt(PlanOf(c), e, l, p)) = 1
<1> DEFINE plan_ == PlanOf(c)
           F == FiltersAt(plan_, e, l)
<1>1. PICK i \in F : TRUE
  OBVIOUS
<1>2. \A j \in F : j \in DOMAIN plan_ /\ plan_[j].stream = "accounts"
  BY DEF FiltersAt, IsFilterAt
<1>3. \A j \in F : j = i /\ plan_[j].programs = c.programs
  <2> SUFFICES ASSUME NEW j \in F
               PROVE  j = i /\ plan_[j].programs = c.programs
    OBVIOUS
  <2>1. j = i
    BY <1>1, <1>2, SoloPlanFacts
  <2>2. plan_[j].programs = FilterOf(c, "accounts")
    BY <1>2, SoloPlanFacts
  <2>3. QED
    BY <2>1, <2>2 DEF FilterOf
<1> HIDE DEF plan_, F
<1>4. WatchersAt(plan_, e, l, p) = {i}
  BY <1>1, <1>3 DEF WatchersAt, F
<1>5. QED
  BY <1>4, FS_Singleton DEF plan_

\* from_run_config: by counting, each program of the file is in exactly one
\* account filter per endpoint and commitment, for every list of programs, size
\* of the chunks and set of heavy programs.
THEOREM EveryProgramOnceHolds == Spec => []EveryProgramOnce
<1>1. StartUpInv => EveryProgramOnce
  <2> SUFFICES ASSUME StartUpInv, plan # <<>>
               PROVE  EveryProgramOnce
    BY DEF EveryProgramOnce
  <2> DEFINE c == Config1
  <2>1. Loaded /\ plan = PlanOf(c)
    BY DEF StartUpInv, ConfigInv, PlanInv
  <2>2. /\ Proper(c) /\ c.solo = cli.solo /\ c.commitments = cli.commitment
        /\ ToSet(c.programs) = Listed
    <3>1. Good(cli) /\ c = LoadedOf(cli) /\ Proper(c) /\ c.solo = cli.solo
      BY <2>1, LoadedFacts DEF Loaded
    <3>2. c.commitments = cli.commitment
      BY <3>1, LoadedFields
    <3>3. ToSet(c.programs) = Listed
      BY <3>1, LoadedIsProper DEF Listed
    <3>4. QED
      BY <3>1, <3>2, <3>3
  <2>3. Listed # {}
    <3>1. c.programs \in Seq(ProgramIds) /\ c.programs # <<>>
      BY <2>2 DEF Proper
    <3>2. 1 \in DOMAIN c.programs
      BY <3>1, EmptySeq, LenProperties
    <3>3. c.programs[1] \in ToSet(c.programs)
      BY <3>2 DEF ToSet
    <3>4. QED
      BY <2>2, <3>3
  <2> HIDE DEF c
  <2>4. ASSUME NEW e \in {1, 2}, NEW n \in DOMAIN cli.commitment
        PROVE  LET filters == AccountFiltersOf(e, cli.commitment[n])
                   Watching(p) == {i \in filters : p \in ToSet(plan[i].programs)}
               IN /\ ~cli.solo => filters # {}
                  /\ filters # {} =>
                    /\ \A p \in Listed : Cardinality(Watching(p)) = 1
                    /\ ~cli.solo =>
                         \A i \in filters :
                           /\ Len(plan[i].programs) \in 1..Config1.per_filter
                           /\ ToSet(plan[i].programs) \cap Heavy # {} => Len(plan[i].programs) = 1
    <3> DEFINE l == cli.commitment[n]
               filters == AccountFiltersOf(e, l)
               Watching(p) == {i \in filters : p \in ToSet(plan[i].programs)}
    <3>1. filters = FiltersAt(plan, e, l)
      BY DEF AccountFiltersOf, FiltersAt, IsFilterAt
    <3>2. \A p : Watching(p) = WatchersAt(plan, e, l, p)
      BY <3>1 DEF WatchersAt
    <3>3. ASSUME NEW p \in Listed, cli.solo => filters # {}
          PROVE  Cardinality(Watching(p)) = 1
      <4>1. CASE cli.solo
        <5>1. Cardinality(WatchersAt(plan, e, l, p)) = 1
          BY <2>1, <2>2, <3>1, <3>3, <4>1, OneSoloWatcher
        <5>2. QED
          BY <3>2, <5>1
      <4>2. CASE ~cli.solo
        <5>1. Cardinality(WatchersAt(plan, e, l, p)) = 1
          BY <2>1, <2>2, <4>2, OneWatcher
        <5>2. QED
          BY <3>2, <5>1
      <4>3. QED
        BY <4>1, <4>2
    <3>4. ~cli.solo => filters # {}
      <4> SUFFICES ASSUME ~cli.solo, filters = {}
                   PROVE  FALSE
        OBVIOUS
      <4>1. PICK p \in Listed : TRUE
        BY <2>3
      <4>2. Cardinality(Watching(p)) = 1
        BY <3>3
      <4>3. Watching(p) = {}
        OBVIOUS
      <4>4. Cardinality({}) = 0
        BY FS_EmptySet
      <4>5. QED
        BY <4>2, <4>3, <4>4
    <3>5. ASSUME ~cli.solo, NEW i \in filters
          PROVE  IsSized(plan[i].programs, Config1.per_filter)
      <4>1. i \in FiltersAt(plan, e, l)
        BY <3>1
      <4>2. IsSized(plan[i].programs, c.per_filter)
        BY <2>1, <2>2, <3>5, <4>1, EveryFilterIsSized
      <4>3. QED
        BY <4>2 DEF c
    <3> HIDE DEF filters, Watching
    <3>6. /\ ~cli.solo => filters # {}
          /\ filters # {} =>
            /\ \A p \in Listed : Cardinality(Watching(p)) = 1
            /\ ~cli.solo =>
                 \A i \in filters :
                   /\ Len(plan[i].programs) \in 1..Config1.per_filter
                   /\ ToSet(plan[i].programs) \cap Heavy # {} => Len(plan[i].programs) = 1
      BY <3>3, <3>4, <3>5 DEF IsSized
    <3>7. QED
      BY <3>6 DEF filters, Watching
  <2>5. QED
    BY <2>4 DEF EveryProgramOnce
<1>2. QED
  BY <1>1, StartUpInvariant, PTL

\* The streams of an endpoint on its main URL.
StreamsOf(c, e) == {s \in SubscriptionOf(c) : s.endpoint = e /\ s.stream # "entries"}

NumberIf(wanted) == IF wanted THEN 1 ELSE 0
PerCommitmentBudget(c) ==
  Len(AccountFilters(c)) + NumberIf(c.with_transactions) + NumberIf(c.with_blocks)

LEMMA BudgetType ==
  ASSUME NEW c, Proper(c)
  PROVE  PerCommitmentBudget(c) \in Nat /\ Len(AccountFilters(c)) \in Nat
<1>1. Len(AccountFilters(c)) \in Nat
  BY PartsFacts, LenProperties
<1>2. NumberIf(c.with_transactions) \in Nat /\ NumberIf(c.with_blocks) \in Nat
  BY DEF NumberIf
<1>3. QED
  BY <1>1, <1>2 DEF PerCommitmentBudget

LEMMA StreamsPerCommitment ==
  ASSUME NEW c, Proper(c), NEW d \in {1, 2}, NEW e \in {1, 2}, NEW l \in Labels
  PROVE  HowMany(PerCommitment(c, d, l), StreamsOf(c, e)) =
           IF d = e THEN PerCommitmentBudget(c) ELSE 0
<1> DEFINE T == StreamsOf(c, e)
           S == SubscriptionOf(c)
           subs == AccountSubs(c, d, l)
           x == TransactionsSub(c, d, l)
           y == BlocksSub(c, d, l)
           n == Len(AccountFilters(c))
<1>1. HowMany(PerCommitment(c, d, l), T) =
        HowMany(subs, T) + OneIf(c.with_transactions, x, T) + OneIf(c.with_blocks, y, T)
  BY PerCommitmentCount
<1>2. x \in S /\ y \in S /\ x.endpoint = d /\ y.endpoint = d
      /\ x.stream # "entries" /\ y.stream # "entries"
  <2>1. "transactions" \in AllStreams /\ "blocks" \in AllStreams
    BY DEF AllStreams, MainStreams
  <2>2. \A stream : FilterOf(c, stream) \in Seq(ToSet(c.programs))
    BY ProperFacts
  <2>3. x \in S /\ y \in S
    BY <2>1, <2>2, SubscriptionType DEF TransactionsSub, BlocksSub
  <2>4. QED
    BY <2>3, SubscriptionFields DEF TransactionsSub, BlocksSub
<1>3. (x \in T <=> d = e) /\ (y \in T <=> d = e)
  BY <1>2 DEF StreamsOf
<1>4. /\ subs \in Seq(S) /\ DOMAIN subs = 1 .. n
      /\ \A i \in DOMAIN subs : subs[i] \in T <=> d = e
  <2>1. subs \in Seq(S) /\ DOMAIN subs = DOMAIN AccountFilters(c) /\ DOMAIN subs = 1 .. n
    BY AccountSubsFacts
  <2>2. ASSUME NEW i \in DOMAIN subs PROVE subs[i] \in T <=> d = e
    <3>1. subs[i] = Subscription(d, "accounts", l, AccountFilters(c)[i])
      BY <2>1, AccountSubsFacts
    <3>2. subs[i].endpoint = d /\ subs[i].stream = "accounts"
      BY <3>1, SubscriptionFields
    <3>3. subs[i] \in S
      BY <2>1, LenProperties, ElementOfSeq
    <3>4. QED
      BY <3>2, <3>3 DEF StreamsOf
  <2>3. QED
    BY <2>1, <2>2
<1>5. n \in Nat
  BY BudgetType
<1> HIDE DEF T, S, subs, x, y, n
<1>6. Len(subs) = n
  BY <1>4, <1>5, LenProperties
<1>7. CASE d = e
  <2>1. HowMany(subs, T) = n
    BY <1>4, <1>6, <1>7, HowManyAll
  <2>2. OneIf(c.with_transactions, x, T) = NumberIf(c.with_transactions)
        /\ OneIf(c.with_blocks, y, T) = NumberIf(c.with_blocks)
    BY <1>3, <1>7 DEF OneIf, NumberIf
  <2>3. QED
    BY <1>1, <1>7, <2>1, <2>2 DEF PerCommitmentBudget, n, T
<1>8. CASE d # e
  <2>1. HowMany(subs, T) = 0
    BY <1>4, <1>8, HowManyType
  <2>2. OneIf(c.with_transactions, x, T) = 0 /\ OneIf(c.with_blocks, y, T) = 0
    BY <1>3, <1>8 DEF OneIf
  <2>3. QED
    BY <1>1, <1>8, <2>1, <2>2 DEF T
<1>9. QED
  BY <1>7, <1>8

LEMMA StreamsOfMainPlan ==
  ASSUME NEW c, Proper(c), NEW d \in {1, 2}, NEW e \in {1, 2}
  PROVE  HowMany(MainPlan(c, d), StreamsOf(c, e)) =
           IF d = e THEN 1 + Len(c.commitments) * PerCommitmentBudget(c) ELSE 0
<1> DEFINE T == StreamsOf(c, e)
           h == CountPerCommitment(c, d, T)
           n == Len(c.commitments)
           m == PerCommitmentBudget(c)
           k == IF d = e THEN m ELSE 0
<1>1. DOMAIN c.commitments = 1 .. n /\ n \in Nat /\ \A i \in 1 .. n : c.commitments[i] \in Labels
  BY ProperFacts
<1>2. HowMany(MainPlan(c, d), T) = OneIf(TRUE, SlotsSub(c, d), T) + SumFunctionOnSet(h, 1 .. n)
  BY MainPlanCount
<1>3. m \in Nat
  BY BudgetType
<1>4. \A i \in 1 .. n : h[i] = k
  BY <1>1, StreamsPerCommitment DEF CountPerCommitment
<1>5. SlotsSub(c, d) \in T <=> d = e
  <2> DEFINE none == <<>>
             stream == "slots"
             l == c.commitments[1]
  <2>1. stream \in AllStreams /\ none \in Seq(ToSet(c.programs)) /\ l \in Labels
    BY ProperFacts DEF AllStreams, MainStreams
  <2>2. SlotsSub(c, d) = Subscription(d, stream, l, none) /\ stream # "entries"
    BY DEF SlotsSub
  <2> HIDE DEF none, stream, l
  <2>3. SlotsSub(c, d) \in SubscriptionOf(c)
    BY <2>1, <2>2, SubscriptionType
  <2>4. SlotsSub(c, d).endpoint = d /\ SlotsSub(c, d).stream = stream
    BY <2>2, SubscriptionFields
  <2>5. QED
    BY <2>2, <2>3, <2>4 DEF StreamsOf
<1>6. k \in Int
  BY <1>3
<1> HIDE DEF T, h, n, m, k
<1>7. SumFunctionOnSet(h, 1 .. n) = n * k
  <2>1. IsFiniteSet(1 .. n)
    BY <1>1, FS_Interval
  <2>2. Cardinality(1 .. n) = n
    BY <1>1, FS_Interval
  <2> DEFINE J == 1 .. n
  <2>3. IsFiniteSet(J) /\ Cardinality(J) = n /\ \A i \in J : h[i] = k
    BY <1>4, <2>1, <2>2
  <2> HIDE DEF J
  <2>4. SumFunctionOnSet(h, J) = Cardinality(J) * k
    BY <1>6, <2>3, SumConstant
  <2>5. QED
    BY <2>3, <2>4 DEF J
<1>8. CASE d = e
  <2>1. k = m /\ OneIf(TRUE, SlotsSub(c, d), T) = 1
    BY <1>5, <1>8 DEF k, OneIf
  <2>2. HowMany(MainPlan(c, d), T) = 1 + n * m
    BY <1>2, <1>7, <2>1
  <2>3. QED
    BY <1>8, <2>2 DEF T, n, m
<1>9. CASE d # e
  <2>1. k = 0 /\ OneIf(TRUE, SlotsSub(c, d), T) = 0
    BY <1>5, <1>9 DEF k, OneIf
  <2>2. n * 0 = 0
    BY <1>1
  <2>3. SumFunctionOnSet(h, 1 .. n) = 0
    BY <1>7, <2>1, <2>2
  <2>4. HowMany(MainPlan(c, d), T) = 0
    <3> DEFINE u == OneIf(TRUE, SlotsSub(c, d), T)
               v == SumFunctionOnSet(h, 1 .. n)
    <3>1. HowMany(MainPlan(c, d), T) = u + v /\ u = 0 /\ v = 0
      BY <1>2, <2>1, <2>3
    <3> HIDE DEF u, v
    <3>2. QED
      BY <3>1
  <2>5. QED
    BY <1>9, <2>4 DEF T
<1>10. QED
  BY <1>8, <1>9

LEMMA StreamsOfPlan ==
  ASSUME NEW c, Proper(c), ~c.solo, NEW e \in {1, 2}
  PROVE  HowMany(PlanOf(c), StreamsOf(c, e)) = 1 + Len(c.commitments) * PerCommitmentBudget(c)
<1> DEFINE T == StreamsOf(c, e)
           q == 1 + Len(c.commitments) * PerCommitmentBudget(c)
<1>1. HowMany(PlanOf(c), T) =
        HowMany(MainPlan(c, 1), T) + HowMany(MainPlan(c, 2), T)
          + HowMany(EntriesPlan(c, 1), T) + HowMany(EntriesPlan(c, 2), T)
  BY PlanCount
<1>2. ASSUME NEW d \in {1, 2} PROVE HowMany(EntriesPlan(c, d), T) = 0
  <2>1. EntriesSub(d).stream = "entries"
    BY SubscriptionFields DEF EntriesSub
  <2>2. EntriesSub(d) \notin T
    BY <2>1 DEF StreamsOf
  <2> HIDE DEF T
  <2>3. QED
    BY <2>2, EntriesPlanCount DEF OneIf
<1>3. \A d \in {1, 2} : HowMany(MainPlan(c, d), T) = IF d = e THEN q ELSE 0
  BY StreamsOfMainPlan
<1>4. q \in Nat
  <2>1. Len(c.commitments) \in Nat /\ PerCommitmentBudget(c) \in Nat
    BY ProperFacts, BudgetType
  <2> DEFINE a == Len(c.commitments)
             b == PerCommitmentBudget(c)
  <2> HIDE DEF a, b
  <2>2. a \in Nat /\ b \in Nat => 1 + a * b \in Nat
    OBVIOUS
  <2>3. QED
    BY <2>1, <2>2 DEF a, b
<1> HIDE DEF T, q
<1>5. HowMany(PlanOf(c), T) = q
  BY <1>1, <1>2, <1>3, <1>4
<1>6. QED
  BY <1>5 DEF T, q

\* RUNBOOK.md's formula for the number of streams an endpoint must admit is
\* exact, for every list of programs, chunk size and commitments.
THEOREM StreamBudgetHolds == Spec => []StreamBudget
<1>1. StartUpInv => StreamBudget
  <2> SUFFICES ASSUME StartUpInv, plan # <<>>, ~cli.solo
               PROVE  StreamBudget
    BY DEF StreamBudget
  <2> DEFINE c == Config1
             light == Cardinality(Listed \ Heavy)
             perCommitment ==
               Cardinality({n \in 1..light : (n - 1) % Config1.per_filter = 0})
                 + Cardinality(Listed \cap Heavy)
                 + (IF cli.with_transactions THEN 1 ELSE 0)
                 + (IF cli.with_blocks THEN 1 ELSE 0)
  <2>1. Loaded /\ plan = PlanOf(c)
    BY DEF StartUpInv, ConfigInv, PlanInv
  <2>2. /\ Proper(c) /\ ~c.solo /\ c.commitments = cli.commitment
        /\ c.with_transactions = cli.with_transactions /\ c.with_blocks = cli.with_blocks
        /\ ToSet(c.programs) = Listed
    <3>1. Good(cli) /\ c = LoadedOf(cli) /\ Proper(c) /\ c.solo = cli.solo
      BY <2>1, LoadedFacts DEF Loaded
    <3>2. c.commitments = cli.commitment
          /\ c.with_transactions = cli.with_transactions /\ c.with_blocks = cli.with_blocks
      BY <3>1, LoadedFields
    <3>3. ToSet(c.programs) = Listed
      BY <3>1, LoadedIsProper DEF Listed
    <3>4. QED
      BY <3>1, <3>2, <3>3
  <2>3. Len(AccountFilters(c)) =
          Cardinality({n \in 1..light : (n - 1) % c.per_filter = 0}) + Cardinality(Listed \cap Heavy)
    <3> HIDE DEF c
    <3>1. Len(AccountFilters(c)) =
            Cardinality({n \in 1 .. Cardinality(ToSet(c.programs) \ Heavy) :
                           (n - 1) % c.per_filter = 0})
              + Cardinality(ToSet(c.programs) \cap Heavy)
      BY <2>2, NumberOfFilters
    <3>2. QED
      BY <2>2, <3>1
  <2>4. PerCommitmentBudget(c) = perCommitment
    BY <2>2, <2>3 DEF PerCommitmentBudget, NumberIf
  <2>5. ASSUME NEW e \in {1, 2}
        PROVE  Cardinality(Streams(e)) = 1 + Len(cli.commitment) * perCommitment
    <3>1. plan \in Seq(SubscriptionOf(c))
      BY <2>1, <2>2, PlanType
    <3>2. \A i \in DOMAIN plan : plan[i] \in SubscriptionOf(c)
      BY <3>1, LenProperties, ElementOfSeq
    <3> HIDE DEF c, perCommitment
    <3>3. Streams(e) = {i \in DOMAIN plan : plan[i] \in StreamsOf(c, e)}
      BY <3>2 DEF Streams, StreamsOf
    <3>4. HowMany(plan, StreamsOf(c, e)) = 1 + Len(c.commitments) * PerCommitmentBudget(c)
      BY <2>1, <2>2, StreamsOfPlan
    <3>5. QED
      BY <2>2, <2>4, <3>3, <3>4 DEF HowMany
  <2>6. QED
    BY <2>5 DEF StreamBudget
<1>2. QED
  BY <1>1, StartUpInvariant, PTL

----------------------------------------------------------------------------
(* Which core is whose.                                                      *)

\* Each core of a role is in a section of that role, each in a place of its own.
PlacedIn(q, arg, role, outer, inner) ==
  /\ \A k \in DOMAIN q :
       /\ outer[k] \in DOMAIN arg.sections /\ arg.sections[outer[k]].role = role
       /\ inner[k] \in 1 .. Len(arg.sections[outer[k]].cores)
       /\ q[k] = arg.sections[outer[k]].cores[inner[k]]
  /\ \A k, l \in DOMAIN q : outer[k] = outer[l] /\ inner[k] = inner[l] => k = l

LEMMA RolePlaces ==
  ASSUME NEW arg, IsAffinity(arg), NEW role
  PROVE  /\ CoresOf(arg, role) \in Seq(Int)
         /\ \E outer, inner : PlacedIn(CoresOf(arg, role), arg, role, outer, inner)
<1> DEFINE q == CoresOf(arg, role)
           p == PartsOf(arg, role)
<1>1. q = FlattenSeq(p)
  BY DEF CoresOf, PartsOf
<1>2. p \in Seq(Seq(Int)) /\ Len(p) = Len(arg.sections) /\ DOMAIN arg.sections = 1 .. Len(arg.sections)
  BY PartsType
<1>3. \A i \in DOMAIN arg.sections :
        p[i] = IF arg.sections[i].role = role THEN arg.sections[i].cores ELSE <<>>
  BY DEF PartsOf
<1> HIDE DEF p, q
<1>4. q \in Seq(Int)
  BY <1>1, <1>2, FlattenComesFrom
<1>5. PICK outer, inner : FlatFrom(q, p, Len(p), outer, inner)
  BY <1>1, <1>2, FlattenComesFrom
<1>6. DOMAIN q = 1 .. Len(q)
  BY <1>4, LenProperties
<1>7. ASSUME NEW k \in DOMAIN q
      PROVE  /\ outer[k] \in DOMAIN arg.sections /\ arg.sections[outer[k]].role = role
             /\ inner[k] \in 1 .. Len(arg.sections[outer[k]].cores)
             /\ q[k] = arg.sections[outer[k]].cores[inner[k]]
  <2>1. /\ outer[k] \in DOMAIN arg.sections /\ inner[k] \in 1 .. Len(p[outer[k]])
        /\ q[k] = p[outer[k]][inner[k]]
    BY <1>2, <1>5, <1>6 DEF FlatFrom
  <2>2. p[outer[k]] # <<>>
    <3>1. SUFFICES ASSUME p[outer[k]] = <<>> PROVE FALSE
      OBVIOUS
    <3>2. Len(p[outer[k]]) = 0
      BY <3>1
    <3>3. QED
      BY <2>1, <3>2
  <2>3. arg.sections[outer[k]].role = role /\ p[outer[k]] = arg.sections[outer[k]].cores
    BY <1>3, <2>1, <2>2
  <2>4. QED
    BY <2>1, <2>3
<1>8. PlacedIn(q, arg, role, outer, inner)
  BY <1>5, <1>6, <1>7 DEF PlacedIn, FlatFrom
<1>9. QED
  BY <1>4, <1>8 DEF q

\* In sections without a repetition a core has one place.
LEMMA OnePlace ==
  ASSUME NEW arg, IsAffinity(arg), IsInjective(AllSections(arg)),
         NEW i \in DOMAIN arg.sections, NEW j \in 1 .. Len(arg.sections[i].cores),
         NEW m \in DOMAIN arg.sections, NEW n \in 1 .. Len(arg.sections[m].cores),
         arg.sections[i].cores[j] = arg.sections[m].cores[n]
  PROVE  i = m /\ j = n
<1> DEFINE p == Parts(arg)
<1>1. /\ p \in Seq(Seq(Int)) /\ DOMAIN arg.sections = 1 .. Len(p)
      /\ FlattenSeq(p) = AllSections(arg)
  BY PartsType DEF Parts, AllSections
<1>2. p[i] = arg.sections[i].cores /\ p[m] = arg.sections[m].cores
  BY DEF Parts
<1> HIDE DEF p
<1>3. /\ i \in 1 .. Len(p) /\ j \in 1 .. Len(p[i]) /\ m \in 1 .. Len(p) /\ n \in 1 .. Len(p[m])
  BY <1>1, <1>2
<1>4. p[i][j] = p[m][n] /\ IsInjective(FlattenSeq(p))
  BY <1>1, <1>2
<1>5. QED
  BY <1>1, <1>3, <1>4, FlattenInjective

\* Roles then have no core in common, and none twice.
LEMMA RolesApart ==
  ASSUME NEW arg, IsAffinity(arg), IsInjective(AllSections(arg)), NEW a, NEW b,
         NEW k \in DOMAIN CoresOf(arg, a), NEW l \in DOMAIN CoresOf(arg, b),
         CoresOf(arg, a)[k] = CoresOf(arg, b)[l]
  PROVE  a = b /\ k = l
<1>1. PICK outer, inner : PlacedIn(CoresOf(arg, a), arg, a, outer, inner)
  BY RolePlaces
<1>2. PICK outer2, inner2 : PlacedIn(CoresOf(arg, b), arg, b, outer2, inner2)
  BY RolePlaces
<1>3. /\ outer[k] \in DOMAIN arg.sections /\ arg.sections[outer[k]].role = a
      /\ inner[k] \in 1 .. Len(arg.sections[outer[k]].cores)
      /\ CoresOf(arg, a)[k] = arg.sections[outer[k]].cores[inner[k]]
  BY <1>1 DEF PlacedIn
<1>4. /\ outer2[l] \in DOMAIN arg.sections /\ arg.sections[outer2[l]].role = b
      /\ inner2[l] \in 1 .. Len(arg.sections[outer2[l]].cores)
      /\ CoresOf(arg, b)[l] = arg.sections[outer2[l]].cores[inner2[l]]
  BY <1>2 DEF PlacedIn
<1>5. a = b
  <2>1. outer[k] = outer2[l]
    BY <1>3, <1>4, OnePlace
  <2>2. QED
    BY <1>3, <1>4, <2>1
<1>6. k = l
  <2>1. /\ outer[l] \in DOMAIN arg.sections
        /\ inner[l] \in 1 .. Len(arg.sections[outer[l]].cores)
        /\ CoresOf(arg, a)[l] = arg.sections[outer[l]].cores[inner[l]]
        /\ l \in DOMAIN CoresOf(arg, a)
    BY <1>1, <1>5 DEF PlacedIn
  <2>2. CoresOf(arg, a)[k] = CoresOf(arg, a)[l]
    BY <1>5
  <2>3. arg.sections[outer[k]].cores[inner[k]] = arg.sections[outer[l]].cores[inner[l]]
    BY <1>3, <2>1, <2>2
  <2>4. outer[k] = outer[l] /\ inner[k] = inner[l]
    <3> DEFINE i == outer[k]
               j == inner[k]
               m == outer[l]
               n == inner[l]
    <3>1. /\ i \in DOMAIN arg.sections /\ j \in 1 .. Len(arg.sections[i].cores)
          /\ m \in DOMAIN arg.sections /\ n \in 1 .. Len(arg.sections[m].cores)
          /\ arg.sections[i].cores[j] = arg.sections[m].cores[n]
      BY <1>3, <2>1, <2>3
    <3> HIDE DEF i, j, m, n
    <3>2. i = m /\ j = n
      BY <3>1, OnePlace
    <3>3. QED
      BY <3>2 DEF i, j, m, n
  <2>5. QED
    BY <1>1, <2>1, <2>4 DEF PlacedIn
<1>7. QED
  BY <1>5, <1>6

LEMMA RoleAsked ==
  ASSUME NEW arg, IsAffinity(arg), NEW role, NEW k \in DOMAIN CoresOf(arg, role)
  PROVE  CoresOf(arg, role)[k] \in ToSet(AllSections(arg))
<1>1. PICK outer, inner : PlacedIn(CoresOf(arg, role), arg, role, outer, inner)
  BY RolePlaces
<1> DEFINE p == Parts(arg)
           q == AllSections(arg)
<1>2. /\ p \in Seq(Seq(Int)) /\ DOMAIN arg.sections = 1 .. Len(p)
      /\ FlattenSeq(p) = q
  BY PartsType DEF Parts, AllSections
<1>3. \A i \in DOMAIN arg.sections : p[i] = arg.sections[i].cores
  BY DEF Parts
<1> HIDE DEF p, q
<1>4. q \in Seq(Int) /\ DOMAIN q = 1 .. Len(q)
  BY <1>2, FlattenComesFrom, LenProperties
<1>5. PICK outer2, inner2 : FlatFrom(q, p, Len(p), outer2, inner2)
  BY <1>2, FlattenComesFrom
<1> DEFINE i == outer[k]
           j == inner[k]
<1>6. /\ i \in 1 .. Len(p) /\ j \in 1 .. Len(p[i]) /\ CoresOf(arg, role)[k] = p[i][j]
  <2>1. /\ i \in DOMAIN arg.sections /\ j \in 1 .. Len(arg.sections[i].cores)
        /\ CoresOf(arg, role)[k] = arg.sections[i].cores[j]
    BY <1>1 DEF PlacedIn
  <2> HIDE DEF i, j
  <2>2. QED
    BY <1>2, <1>3, <2>1
<1> HIDE DEF i, j
<1>7. PICK l \in 1 .. Len(q) : outer2[l] = i /\ inner2[l] = j
  BY <1>5, <1>6 DEF FlatFrom
<1>8. q[l] = p[i][j]
  BY <1>5, <1>7 DEF FlatFrom
<1>9. QED
  BY <1>4, <1>6, <1>8 DEF q, ToSet

\* A layout that keeps the endpoints and the other threads apart.
KeptApart(layout) ==
  \A e \in {1, 2} : \A c \in ToSet(layout.receivers[e]) :
    c # NoCore => c \notin {layout.processor, layout.control}
                  /\ c \notin ToSet(layout.receivers[3 - e])
EachOnce(layout) == \A e \in {1, 2} : IsInjective(layout.receivers[e])

LEMMA StructuredApart ==
  ASSUME NEW arg, IsAffinity(arg), IsInjective(AllSections(arg))
  PROVE  EachOnce(StructuredLayout(arg)) /\ KeptApart(StructuredLayout(arg))
<1> DEFINE Single(role) == IF CoresOf(arg, role) = <<>> THEN NoCore ELSE CoresOf(arg, role)[1]
           l == StructuredLayout(arg)
<1>1. /\ l.receivers[1] = CoresOf(arg, "ep1") /\ l.receivers[2] = CoresOf(arg, "ep2")
      /\ l.processor = Single("proc") /\ l.control = Single("ctrl")
  BY DEF StructuredLayout
<1> HIDE DEF l
<1>2. ASSUME NEW a, NEW c \in ToSet(CoresOf(arg, a)), NEW b
      PROVE  /\ a # b => c \notin ToSet(CoresOf(arg, b))
             /\ a # b /\ c # NoCore => c # Single(b)
  <2>1. PICK k \in DOMAIN CoresOf(arg, a) : c = CoresOf(arg, a)[k]
    BY DEF ToSet
  <2>2. a # b => \A j \in DOMAIN CoresOf(arg, b) : c # CoresOf(arg, b)[j]
    BY <2>1, RolesApart
  <2>3. CoresOf(arg, b) # <<>> => 1 \in DOMAIN CoresOf(arg, b)
    <3>1. CoresOf(arg, b) \in Seq(Int)
      BY RolePlaces
    <3> HIDE DEF Single
    <3>2. QED
      BY <3>1, EmptySeq, LenProperties
  <2>4. QED
    BY <2>2, <2>3 DEF ToSet
<1>3. EachOnce(l)
  <2>1. \A a : IsInjective(CoresOf(arg, a))
    BY RolesApart DEF IsInjective
  <2>2. QED
    BY <1>1, <2>1 DEF EachOnce
<1> HIDE DEF Single
<1>4. KeptApart(l)
  <2>1. ASSUME NEW c \in ToSet(l.receivers[1]), c # NoCore
        PROVE  c \notin {l.processor, l.control} /\ c \notin ToSet(l.receivers[2])
    <3>1. "ep1" # "proc" /\ "ep1" # "ctrl" /\ "ep1" # "ep2"
      OBVIOUS
    <3>2. QED
      BY <1>1, <1>2, <2>1, <3>1
  <2>2. ASSUME NEW c \in ToSet(l.receivers[2]), c # NoCore
        PROVE  c \notin {l.processor, l.control} /\ c \notin ToSet(l.receivers[1])
    <3>1. "ep2" # "proc" /\ "ep2" # "ctrl" /\ "ep2" # "ep1"
      OBVIOUS
    <3>2. QED
      BY <1>1, <1>2, <2>2, <3>1
  <2>3. \A e \in {1, 2} : (e = 1 /\ 3 - e = 2) \/ (e = 2 /\ 3 - e = 1)
    OBVIOUS
  <2>4. QED
    BY <2>1, <2>2, <2>3 DEF KeptApart
<1>5. QED
  BY <1>3, <1>4 DEF l

LEMMA NoneApart == /\ EachOnce(NoLayout) /\ KeptApart(NoLayout)
                   /\ \A e \in {1, 2} : ToSet(NoLayout.receivers[e]) = {}
<1>1. \A e \in {1, 2} : NoLayout.receivers[e] = <<>>
  BY DEF NoLayout
<1>2. DOMAIN <<>> = {}
  OBVIOUS
<1>3. ToSet(<<>>) = {} /\ IsInjective(<<>>)
  BY <1>2 DEF ToSet, IsInjective
<1>4. QED
  BY <1>1, <1>3 DEF EachOnce, KeptApart

\* `auto`, whatever the number of cores.
LEMMA AutoApart ==
  ASSUME NEW n \in Nat
  PROVE  /\ EachOnce(AutoLayout(n)) /\ KeptApart(AutoLayout(n))
         /\ \A e \in {1, 2} : \A c \in ToSet(AutoLayout(n).receivers[e]) : c \in 2 .. (n - 1)
<1> DEFINE last == n - 1
           split == 2 + (last - 2) \div 2
           l == AutoLayout(n)
<1>1. CASE n < 6
  BY <1>1, NoneApart DEF AutoLayout
<1>2. CASE ~(n < 6)
  <2>1. /\ l.receivers[1] = CoreRange(2, split - 1) /\ l.receivers[2] = CoreRange(split, last - 1)
        /\ l.processor = NoCore /\ l.control = last
    BY <1>2 DEF AutoLayout
  <2>2. last \in Int /\ split \in Int /\ 2 <= split /\ split <= last - 1
    BY <1>2
  <2> HIDE DEF split, l
  <2>3. ASSUME NEW from \in Int, NEW to \in Int
        PROVE  /\ IsInjective(CoreRange(from, to))
               /\ \A c \in ToSet(CoreRange(from, to)) : c \in from .. to
    <3> DEFINE r == CoreRange(from, to)
    <3>1. r \in Seq(Int) /\ \A i \in 1 .. Len(r) : r[i] = from + i - 1 /\ r[i] \in from .. to
      BY CoreRangeType
    <3> HIDE DEF r
    <3>2. DOMAIN r = 1 .. Len(r) /\ Len(r) \in Nat
      BY <3>1, LenProperties
    <3>3. \A i, j \in 1 .. Len(r) : r[i] = r[j] => i = j
      BY <3>1, <3>2
    <3>4. QED
      BY <3>1, <3>2, <3>3 DEF r, IsInjective, ToSet
  <2>4. /\ \A c \in ToSet(l.receivers[1]) : c \in 2 .. (split - 1)
        /\ \A c \in ToSet(l.receivers[2]) : c \in split .. (last - 1)
        /\ IsInjective(l.receivers[1]) /\ IsInjective(l.receivers[2])
    <3>1. split - 1 \in Int /\ last - 1 \in Int /\ 2 \in Int
      BY <2>2
    <3> HIDE DEF last
    <3>2. QED
      BY <2>1, <2>2, <2>3, <3>1
  <2>5. \A e \in {1, 2} : (e = 1 /\ 3 - e = 2) \/ (e = 2 /\ 3 - e = 1)
    OBVIOUS
  <2>6. EachOnce(l)
    BY <2>4 DEF EachOnce
  <2>7. ASSUME NEW c \in ToSet(l.receivers[1])
        PROVE  c \in 2 .. (n - 1) /\ c # last /\ c \notin ToSet(l.receivers[2])
    BY <2>2, <2>4
  <2>8. ASSUME NEW c \in ToSet(l.receivers[2])
        PROVE  c \in 2 .. (n - 1) /\ c # last /\ c \notin ToSet(l.receivers[1])
    BY <2>2, <2>4
  <2> HIDE DEF last
  <2>9. KeptApart(l)
    BY <2>1, <2>5, <2>7, <2>8 DEF KeptApart
  <2>10. QED
    BY <2>5, <2>6, <2>7, <2>8, <2>9 DEF l
<1>3. QED
  BY <1>1, <1>2

\* A flat list without a repetition: a list of one core is shared by all.
LEMMA FlatApart ==
  ASSUME NEW cores \in Seq(Int), IsInjective(cores)
  PROVE  /\ EachOnce(FlatLayout(cores))
         /\ Len(cores) # 1 => KeptApart(FlatLayout(cores))
         /\ cores = <<>> => \A e \in {1, 2} : FlatLayout(cores).receivers[e] = <<>>
<1> DEFINE n == Len(cores)
           At(i) == IF i <= n THEN cores[i] ELSE NoCore
           One(i) == IF i <= n THEN <<cores[i]>> ELSE <<>>
           l == FlatLayout(cores)
<1>1. n \in Nat /\ DOMAIN cores = 1 .. n
  BY LenProperties
<1>2. /\ \A e \in {1, 2} : l.receivers[e] = IF n = 1 THEN One(1) ELSE One(e)
      /\ n # 1 => l.processor = At(3) /\ l.control = At(4)
  BY DEF FlatLayout
<1> HIDE DEF l
<1>3. \A i \in 1 .. 4 : /\ IsInjective(One(i))
                        /\ ToSet(One(i)) = IF i <= n THEN {cores[i]} ELSE {}
  <2>1. ASSUME NEW x PROVE IsInjective(<<x>>) /\ ToSet(<<x>>) = {x}
    <3>1. DOMAIN <<x>> = {1} /\ <<x>>[1] = x
      OBVIOUS
    <3> DEFINE s == <<x>>
    <3> HIDE DEF s
    <3>2. DOMAIN s = {1} /\ s[1] = x
      BY <3>1 DEF s
    <3>3. QED
      BY <3>2 DEF s, IsInjective, ToSet
  <2>2. IsInjective(<<>>) /\ ToSet(<<>>) = {}
    <3>1. DOMAIN <<>> = {}
      OBVIOUS
    <3>2. QED
      BY <3>1 DEF IsInjective, ToSet
  <2> HIDE DEF n
  <2>3. QED
    BY <2>1, <2>2
<1>4. EachOnce(l)
  <2>1. \A e \in {1, 2} : IsInjective(One(1)) /\ IsInjective(One(e))
    BY <1>3
  <2> HIDE DEF One
  <2>2. QED
    BY <1>2, <2>1 DEF EachOnce
<1>5. ASSUME n # 1 PROVE KeptApart(l)
  <2>1. \A i, j \in 1 .. 4 : i # j /\ i <= n /\ j <= n => cores[i] # cores[j]
    BY <1>1 DEF IsInjective
  <2>2. \A e \in {1, 2} : l.receivers[e] = One(e)
    BY <1>2, <1>5
  <2> HIDE DEF One
  <2>3. ASSUME NEW e \in {1, 2}, NEW c \in ToSet(l.receivers[e]), c # NoCore
        PROVE  c \notin {l.processor, l.control} /\ c \notin ToSet(l.receivers[3 - e])
    <3>1. e \in 1 .. 4 /\ 3 - e \in {1, 2} /\ 3 - e \in 1 .. 4 /\ e # 3 - e /\ e # 3 /\ e # 4
          /\ 3 \in 1 .. 4 /\ 4 \in 1 .. 4
      OBVIOUS
    <3>2. c = cores[e] /\ e <= n
      BY <1>3, <2>2, <3>1
    <3>3. c # At(3) /\ c # At(4)
      BY <2>1, <2>3, <3>1, <3>2
    <3>4. c \notin ToSet(One(3 - e))
      BY <1>3, <2>1, <3>1, <3>2
    <3> HIDE DEF At
    <3>5. QED
      BY <1>2, <1>5, <2>2, <3>1, <3>3, <3>4
  <2>4. QED
    BY <2>3 DEF KeptApart
<1>6. ASSUME cores = <<>> PROVE \A e \in {1, 2} : l.receivers[e] = <<>>
  <2>1. n = 0
    BY <1>6
  <2>2. \A e \in {1, 2} : ~(e <= 0)
    OBVIOUS
  <2> HIDE DEF n
  <2>3. QED
    BY <1>2, <2>1, <2>2
<1>7. QED
  BY <1>4, <1>5, <1>6 DEF l

\* A plain list is in one section, or there is none.
LEMMA OneSection ==
  ASSUME NEW arg, IsAffinity(arg)
  PROVE  /\ AllSections(arg) \in Seq(Int)
         /\ arg.sections = <<>> => AllSections(arg) = <<>>
         /\ Len(arg.sections) = 1 => AllSections(arg) = arg.sections[1].cores
<1> DEFINE p == Parts(arg)
<1>1. /\ p \in Seq(Seq(Int)) /\ Len(p) = Len(arg.sections) /\ FlattenSeq(p) = AllSections(arg)
      /\ DOMAIN arg.sections = 1 .. Len(arg.sections)
  BY PartsType DEF Parts, AllSections
<1>2. \A i \in DOMAIN arg.sections : p[i] = arg.sections[i].cores
  BY DEF Parts
<1> HIDE DEF p
<1>3. PICK f : Concatenates(f, p, Int) /\ FlattenSeq(p) = f[Len(p)]
  BY <1>1, FlattenIs
<1>4. f[0] = <<>> /\ \A i \in 1 .. Len(p) : f[i] = f[i - 1] \o p[i]
  BY <1>3 DEF Concatenates
<1>5. ASSUME arg.sections = <<>> PROVE AllSections(arg) = <<>>
  <2>1. Len(arg.sections) = 0
    BY <1>5
  <2>2. QED
    BY <1>1, <1>3, <1>4, <2>1
<1>6. ASSUME Len(arg.sections) = 1 PROVE AllSections(arg) = arg.sections[1].cores
  <2>1. 1 \in 1 .. 1 /\ 1 - 1 = 0
    OBVIOUS
  <2>2. f[1] = <<>> \o p[1]
    BY <1>1, <1>4, <1>6, <2>1
  <2>3. p[1] \in Seq(Int)
    BY <1>1, <1>6, <2>1, ElementOfSeq
  <2>4. <<>> \o p[1] = p[1]
    BY <2>3, ConcatEmptySeq
  <2>5. QED
    BY <1>1, <1>2, <1>3, <1>6, <2>1, <2>2, <2>4
<1>7. AllSections(arg) \in Seq(Int)
  BY SectionsType
<1>8. QED
  BY <1>5, <1>6, <1>7

\* What becomes of an argument of --cpu-affinity that parses.
LEMMA ArgumentApart ==
  ASSUME NEW arg, IsAffinity(arg), AffinityParses(arg)
  PROVE  /\ EachOnce(LayoutOf(arg))
         /\ Cardinality(ToSet(AllSections(arg))) # 1 => KeptApart(LayoutOf(arg))
         /\ ToSet(AllSections(arg)) = {} =>
              \A e \in {1, 2} : \A c \in ToSet(LayoutOf(arg).receivers[e]) : c \in 2 .. (arg.nproc - 1)
<1> DEFINE q == AllSections(arg)
<1>1. arg.auto \in BOOLEAN /\ arg.nproc \in Nat /\ q \in Seq(Int)
  BY OneSection DEF IsAffinity
<1>2. CASE arg.auto
  BY <1>1, <1>2, AutoApart DEF LayoutOf
<1>3. CASE ~arg.auto /\ IsStructured(arg)
  <2>1. DOMAIN <<>> = {}
    OBVIOUS
  <2>2. arg.sections # <<>>
    BY <1>3, <2>1 DEF IsStructured
  <2>3. IsInjective(AllSections(arg))
    BY <1>3, <2>2 DEF AffinityParses, SectionsOK
  <2>4. LayoutOf(arg) = StructuredLayout(arg)
    BY <1>3 DEF LayoutOf
  <2>5. /\ StructuredLayout(arg).receivers[1] = CoresOf(arg, "ep1")
        /\ StructuredLayout(arg).receivers[2] = CoresOf(arg, "ep2")
    BY DEF StructuredLayout
  <2>6. ASSUME ToSet(AllSections(arg)) = {}, NEW e \in {1, 2},
               NEW c \in ToSet(LayoutOf(arg).receivers[e])
        PROVE  FALSE
    <3>1. PICK role : c \in ToSet(CoresOf(arg, role))
      BY <2>4, <2>5, <2>6
    <3>2. PICK k \in DOMAIN CoresOf(arg, role) : c = CoresOf(arg, role)[k]
      BY <3>1 DEF ToSet
    <3>3. QED
      BY <2>6, <3>2, RoleAsked
  <2>7. QED
    BY <2>3, <2>4, <2>6, StructuredApart
<1>4. CASE ~arg.auto /\ ~IsStructured(arg)
  <2>1. LayoutOf(arg) = FlatLayout(q)
    BY <1>4 DEF LayoutOf
  <2>2. IsInjective(q)
    <3>1. CASE arg.sections = <<>>
      <4>1. q = <<>>
        BY <3>1, OneSection
      <4>2. DOMAIN <<>> = {}
        OBVIOUS
      <4> HIDE DEF q
      <4>3. QED
        BY <4>1, <4>2 DEF IsInjective
    <3>2. CASE arg.sections # <<>>
      <4>1. Len(arg.sections) = 1 /\ IsInjective(arg.sections[1].cores)
        BY <1>4, <3>2 DEF AffinityParses
      <4>2. QED
        BY <4>1, OneSection
    <3>3. QED
      BY <3>1, <3>2
  <2> HIDE DEF q
  <2>3. \A i, j \in DOMAIN q : q[i] = q[j] => i = j
    BY <2>2 DEF IsInjective
  <2>4. Cardinality(ToSet(q)) = Len(q)
    BY <1>1, <2>3, LengthIsCardinality
  <2>5. ASSUME ToSet(q) = {}, NEW e \in {1, 2}, NEW c \in ToSet(LayoutOf(arg).receivers[e])
        PROVE  FALSE
    <3>1. Cardinality(ToSet(q)) = 0
      BY <2>5, FS_EmptySet
    <3>2. q = <<>>
      BY <1>1, <2>4, <3>1, EmptySeq, LenProperties
    <3>3. LayoutOf(arg).receivers[e] = <<>>
      BY <1>1, <2>1, <2>2, <2>5, <3>2, FlatApart
    <3>4. DOMAIN <<>> = {}
      OBVIOUS
    <3>5. QED
      BY <2>5, <3>3, <3>4 DEF ToSet
  <2>6. QED
    BY <1>1, <2>1, <2>2, <2>4, <2>5, FlatApart DEF q
<1>5. QED
  BY <1>1, <1>2, <1>3, <1>4

\* The pins of a configuration, wherever they come from.
LEMMA PinsApart ==
  ASSUME cli \in CommandLines, Acceptable(cli)
  PROVE  LET l == ConfigOf(cli).layout
         IN /\ EachOnce(l)
            /\ Cardinality(Asked) # 1 => KeptApart(l)
            /\ Asked = {} => \A e \in {1, 2} : \A c \in ToSet(l.receivers[e]) :
                               c \in 2 .. (cli.cpu_affinity[1].nproc - 1)
<1> DEFINE o == OverlayOf(cli).cpu_affinity
           l == LayoutOfEither(cli)
           Within(c) == c \in 2 .. (cli.cpu_affinity[1].nproc - 1)
<1>1. IsCommandLine(cli) /\ OverlayLoads(cli) /\ AffinityOK(cli)
  BY StartUpAssumption DEF Acceptable
<1>2. /\ EachOnce(l) /\ (Cardinality(Asked) # 1 => KeptApart(l))
      /\ Asked = {} => \A e \in {1, 2} : \A c \in ToSet(l.receivers[e]) : Within(c)
  <2>1. CASE Given(cli.cpu_affinity)
    <3> DEFINE arg == cli.cpu_affinity[1]
    <3>1. IsAffinity(arg) /\ AffinityParses(arg) /\ l = LayoutOf(arg)
          /\ Asked = ToSet(AllSections(arg))
      BY <1>1, <2>1 DEF IsCommandLine, AffinityOK, LayoutOfEither, Asked
    <3> HIDE DEF arg, l
    <3>2. QED
      BY <3>1, ArgumentApart DEF arg
  <2>2. CASE ~Given(cli.cpu_affinity) /\ Given(o)
    <3> DEFINE q == o[1]
    <3>1. Given(cli.config) /\ OverlayOf(cli) = cli.config[1][1]
      BY <2>2 DEF OverlayOf, EmptyOverlay, Given, None
    <3>2. Given(cli.config[1])
      BY <1>1, <3>1 DEF OverlayLoads
    <3>3. q \in Seq(Nat) /\ o = <<q>>
      BY <1>1, <2>2, <3>1, <3>2 DEF IsCommandLine, Some
    <3>4. q \in Seq(Int)
      BY <3>3, SeqMonotonic
    <3> HIDE DEF o
    <3>5. DOMAIN o = {1} /\ o[1] = q
      BY <3>3
    <3>6. IsInjective(q) /\ l = FlatLayout(q)
      BY <1>1, <2>2, <3>5 DEF AffinityOK, LayoutOfEither, o
    <3>7. Asked = ToSet(q)
      <4>1. Asked = UNION {ToSet(o[i]) : i \in DOMAIN o}
        BY <2>2 DEF Asked, o
      <4> HIDE DEF q
      <4>2. {ToSet(o[i]) : i \in DOMAIN o} = {ToSet(q)}
        BY <3>5
      <4>3. QED
        BY <4>1, <4>2
    <3> HIDE DEF q, l
    <3>8. \A i, j \in DOMAIN q : q[i] = q[j] => i = j
      BY <3>6 DEF IsInjective
    <3>9. Cardinality(ToSet(q)) = Len(q)
      BY <3>4, <3>8, LengthIsCardinality
    <3>10. ASSUME Asked = {}, NEW e \in {1, 2}, NEW c \in ToSet(l.receivers[e])
           PROVE  FALSE
      <4>1. Cardinality(ToSet(q)) = 0
        BY <3>7, <3>10, FS_EmptySet
      <4>2. q = <<>>
        BY <3>4, <3>9, <4>1, EmptySeq, LenProperties
      <4>3. l.receivers[e] = <<>>
        BY <3>4, <3>6, <3>10, <4>2, FlatApart
      <4>4. DOMAIN <<>> = {}
        OBVIOUS
      <4>5. QED
        BY <3>10, <4>3, <4>4 DEF ToSet
    <3>11. QED
      BY <3>4, <3>6, <3>7, <3>9, <3>10, FlatApart
  <2>3. CASE ~Given(cli.cpu_affinity) /\ ~Given(o)
    BY <2>3, NoneApart DEF LayoutOfEither
  <2>4. QED
    BY <2>1, <2>2, <2>3
<1>3. l \in Layout
  BY <1>1, LayoutOfEitherType
<1>4. /\ ConfigOf(cli).layout.receivers = l.receivers
      /\ ConfigOf(cli).layout.control = l.control
      /\ ConfigOf(cli).layout.processor \in {l.processor, NoCore}
  <2>1. ConfigOf(cli).layout = IF cli.realtime THEN WithoutProcessor(l) ELSE l
    BY DEF ConfigOf
  <2> HIDE DEF l
  <2>2. /\ WithoutProcessor(l).receivers = l.receivers /\ WithoutProcessor(l).control = l.control
        /\ WithoutProcessor(l).processor = NoCore
    BY <1>3 DEF WithoutProcessor, Layout
  <2>3. QED
    BY <2>1, <2>2
<1> HIDE DEF l, Within
<1>5. EachOnce(l) => EachOnce(ConfigOf(cli).layout)
  BY <1>4 DEF EachOnce
<1>6. KeptApart(l) => KeptApart(ConfigOf(cli).layout)
  BY <1>4 DEF KeptApart
<1>7. QED
  BY <1>2, <1>4, <1>5, <1>6 DEF Within

----------------------------------------------------------------------------
(* Which receiver is on which core.                                          *)

\* The cores an endpoint has, and the receivers pinned to one.
CoresOfEndpoint(e) == Config1.layout.receivers[e]
PinnedTo(e, core) == {r \in Receiver : r.endpoint = e /\ r.core = core}

\* The receivers of an endpoint have taken its cores in turn.
OnItsCores(r) ==
  r.core \in IF CoresOfEndpoint(r.endpoint) = <<>> THEN {NoCore} ELSE ToSet(CoresOfEndpoint(r.endpoint))
InTurn(e) ==
  \A j \in DOMAIN CoresOfEndpoint(e) :
    HowMany(receivers, PinnedTo(e, CoresOfEndpoint(e)[j])) = Turns(idx[e], Len(CoresOfEndpoint(e)), j)

SpreadInv ==
  /\ plan = <<>> => \A e \in {1, 2} : idx[e] = 0
  /\ plan # <<>> => /\ \A i \in DOMAIN receivers : OnItsCores(receivers[i])
                    /\ \A e \in {1, 2} : InTurn(e)

LEMMA CoresFacts ==
  ASSUME Loaded, NEW e \in {1, 2}
  PROVE  /\ Config1.layout = ConfigOf(cli).layout /\ Config1.layout \in Layout
         /\ CoresOfEndpoint(e) \in Seq(Int) /\ IsInjective(CoresOfEndpoint(e))
         /\ DOMAIN CoresOfEndpoint(e) = 1 .. Len(CoresOfEndpoint(e))
         /\ Len(CoresOfEndpoint(e)) \in Nat
         /\ CoresOfEndpoint(e) # <<>> => Len(CoresOfEndpoint(e)) \in Nat \ {0}
<1>1. Config1 = LoadedOf(cli) /\ cli \in CommandLines /\ Acceptable(cli)
  BY DEF Loaded, Good, Some, Config1
<1>2. LoadedOf(cli).layout = ConfigOf(cli).layout
  BY DEF LoadedOf, ConfigOf
<1>3. IsCommandLine(cli) /\ OverlayLoads(cli)
  BY <1>1, StartUpAssumption DEF Acceptable
<1>4. ConfigOf(cli).layout \in Layout
  BY <1>3, ConfigLayoutType
<1>5. EachOnce(ConfigOf(cli).layout)
  BY <1>1, PinsApart
<1> DEFINE q == CoresOfEndpoint(e)
<1>6. q \in Seq(Int) /\ IsInjective(q)
  <2>1. q = ConfigOf(cli).layout.receivers[e]
    BY <1>1, <1>2 DEF CoresOfEndpoint
  <2> HIDE DEF q
  <2>2. QED
    BY <1>4, <1>5, <2>1 DEF Layout, EachOnce
<1> HIDE DEF q
<1>7. DOMAIN q = 1 .. Len(q) /\ Len(q) \in Nat /\ (q # <<>> => Len(q) \in Nat \ {0})
  BY <1>6, EmptySeq, LenProperties
<1>8. QED
  BY <1>1, <1>2, <1>4, <1>6, <1>7 DEF q

LEMMA SpreadKept ==
  ASSUME SpreadInv, UNCHANGED <<config, plan, idx, receivers>>
  PROVE  SpreadInv'
BY DEF SpreadInv, OnItsCores, InTurn, CoresOfEndpoint, Config1

LEMMA SpreadSpawn ==
  ASSUME StartUpInv, StartUpInv', SpreadInv, Spawn
  PROVE  SpreadInv'
<1> DEFINE k == Len(receivers)
           sub == plan[k + 1]
           e == sub.endpoint
           q == CoresOfEndpoint(e)
           n == Len(q)
           rec == [endpoint |-> e, stream |-> sub.stream,
                   core |-> CoreFor(Config1.layout, e, idx[e]),
                   capacity |-> RingCapacity(sub.stream, Config1.ring_capacity),
                   policy |-> IF Config1.realtime THEN "new" ELSE "other"]
<1>1. /\ phase = "spawn" /\ receivers' = Append(receivers, rec) /\ idx' = [idx EXCEPT ![e] = @ + 1]
      /\ UNCHANGED <<cli, config, plan>>
  BY DEF Spawn, IdxAfter
<1>2. Loaded /\ plan # <<>>
  BY <1>1 DEF StartUpInv, ConfigInv, PlanInv, Running
<1>3. receivers \in Seq(Receiver) /\ receivers' \in Seq(Receiver) /\ idx \in [{1, 2} -> Nat]
      /\ DOMAIN receivers = 1 .. k /\ k \in Nat
  BY LenProperties DEF StartUpInv, ReceiverInv
<1>4. rec.endpoint = e /\ rec.core = CoreFor(Config1.layout, e, idx[e])
  OBVIOUS
<1> HIDE DEF rec
<1>5. /\ Len(receivers') = k + 1 /\ DOMAIN receivers' = 1 .. (k + 1)
      /\ \A i \in 1 .. k : receivers'[i] = receivers[i]
      /\ receivers'[k + 1] = rec
  <2> DEFINE S == Receiver \cup {rec}
  <2>1. receivers \in Seq(S) /\ rec \in S
    BY <1>3, SeqMonotonic
  <2> HIDE DEF S
  <2>2. /\ Append(receivers, rec) \in Seq(S) /\ Len(Append(receivers, rec)) = k + 1
        /\ \A i \in 1 .. k : Append(receivers, rec)[i] = receivers[i]
        /\ Append(receivers, rec)[k + 1] = rec
    BY <2>1, AppendProperties
  <2>3. QED
    BY <1>1, <2>2, LenProperties
<1>6. rec \in Receiver
  <2>1. k + 1 \in 1 .. Len(receivers')
    BY <1>3, <1>5
  <2>2. QED
    BY <1>3, <1>5, <2>1, ElementOfSeq
<1>7. e \in {1, 2}
  BY <1>4, <1>6 DEF Receiver
<1>8. /\ q \in Seq(Int) /\ IsInjective(q) /\ DOMAIN q = 1 .. n /\ n \in Nat
      /\ q # <<>> => n \in Nat \ {0}
  BY <1>2, <1>7, CoresFacts
<1>9. rec.core = IF q = <<>> THEN NoCore ELSE q[(idx[e] % n) + 1]
  BY <1>4 DEF CoreFor, CoresOfEndpoint
<1>10. q # <<>> => (idx[e] % n) + 1 \in 1 .. n
  <2>1. SUFFICES ASSUME q # <<>> PROVE (idx[e] % n) + 1 \in 1 .. n
    OBVIOUS
  <2> DEFINE m == idx[e]
  <2>2. m \in Nat /\ n \in Nat \ {0}
    BY <1>3, <1>7, <1>8, <2>1
  <2> HIDE DEF m, n
  <2>3. m % n \in 0 .. (n - 1)
    BY <2>2
  <2>4. QED
    BY <2>2, <2>3 DEF m
<1> HIDE DEF sub, k
<1>11. OnItsCores(rec)
  BY <1>4, <1>8, <1>9, <1>10 DEF OnItsCores, ToSet
<1>12. ASSUME NEW d \in {1, 2}, NEW j \in DOMAIN CoresOfEndpoint(d)
       PROVE  HowMany(receivers', PinnedTo(d, CoresOfEndpoint(d)[j]))
                = Turns(idx'[d], Len(CoresOfEndpoint(d)), j)
  <2> DEFINE T == PinnedTo(d, CoresOfEndpoint(d)[j])
             p == CoresOfEndpoint(d)
             m == idx[d]
  <2>1. HowMany(receivers, T) = Turns(m, Len(p), j)
    BY <1>2, <1>12 DEF SpreadInv, InTurn
  <2>2. rec \in T <=> e = d /\ rec.core = p[j]
    BY <1>4, <1>6 DEF PinnedTo
  <2> HIDE DEF T
  <2>3. HowMany(receivers', T) = HowMany(receivers, T) + (IF rec \in T THEN 1 ELSE 0)
    BY <1>1, <1>3, <1>6, HowManyAppend
  <2>4. p \in Seq(Int) /\ DOMAIN p = 1 .. Len(p) /\ Len(p) \in Nat /\ j \in 1 .. Len(p)
    BY <1>2, <1>12, CoresFacts
  <2> HIDE DEF p
  <2>5. Len(p) \in Nat \ {0}
    BY <2>4
  <2>6. m \in Nat /\ HowMany(receivers, T) \in Nat
    BY <1>3, HowManyType
  <2>7. CASE d # e
    <3>1. idx'[d] = m
      BY <1>1, <1>3, <2>7
    <3>2. QED
      BY <2>1, <2>2, <2>3, <2>6, <2>7, <3>1 DEF T, p
  <2>8. CASE d = e
    <3>1. idx'[d] = m + 1 /\ p = q /\ n = Len(p)
      BY <1>1, <1>3, <1>7, <2>8 DEF p
    <3>2. q # <<>>
      <4>1. DOMAIN <<>> = {}
        OBVIOUS
      <4>2. QED
        BY <2>4, <3>1, <4>1
    <3>3. rec.core = p[(m % Len(p)) + 1] /\ (m % Len(p)) + 1 \in 1 .. Len(p)
      BY <1>9, <1>10, <2>8, <3>1, <3>2
    <3>4. rec.core = p[j] <=> j = (m % Len(p)) + 1
      BY <1>8, <2>4, <3>1, <3>3 DEF IsInjective
    <3>5. Turns(m + 1, Len(p), j) = Turns(m, Len(p), j) + (IF j = (m % Len(p)) + 1 THEN 1 ELSE 0)
      BY <2>4, <2>5, <2>6, TurnsFacts
    <3>6. (rec \in T) <=> j = (m % Len(p)) + 1
      BY <2>2, <2>8, <3>4 DEF p
    <3> HIDE DEF m
    <3>7. HowMany(receivers', T) = Turns(m + 1, Len(p), j)
      BY <2>1, <2>3, <3>5, <3>6
    <3>8. QED
      BY <3>1, <3>7 DEF T, p
  <2>9. QED
    BY <2>7, <2>8
<1>13. \A d : CoresOfEndpoint(d)' = CoresOfEndpoint(d)
  BY <1>1 DEF CoresOfEndpoint, Config1
<1>14. \A i \in DOMAIN receivers' : OnItsCores(receivers'[i])
  <2>1. \A i \in 1 .. (k + 1) : i \in 1 .. k \/ i = k + 1
    BY <1>3
  <2>2. \A i \in 1 .. k : OnItsCores(receivers[i])
    BY <1>2, <1>3 DEF SpreadInv
  <2>3. QED
    BY <1>5, <1>11, <2>1, <2>2
<1>15. \A i \in DOMAIN receivers' : OnItsCores(receivers[i])'
  BY <1>13, <1>14 DEF OnItsCores
<1>16. \A d \in {1, 2} : InTurn(d)'
  BY <1>12, <1>13 DEF InTurn, PinnedTo
<1>17. QED
  BY <1>1, <1>2, <1>15, <1>16 DEF SpreadInv

LEMMA SpreadEscalates ==
  ASSUME StartUpInv, StartUpInv', SpreadInv,
         NEW i \in DOMAIN receivers, NEW granted, ReceiverEscalates(i, granted)
  PROVE  SpreadInv'
<1>1. /\ receivers' = [receivers EXCEPT ![i].policy = IF granted THEN "fifo" ELSE "other"]
      /\ UNCHANGED <<config, plan, idx>>
  BY DEF ReceiverEscalates
<1>2. receivers \in Seq(Receiver) /\ receivers' \in Seq(Receiver)
  BY DEF StartUpInv, ReceiverInv
<1>3. DOMAIN receivers' = DOMAIN receivers
  BY <1>1
<1>4. \A j \in DOMAIN receivers : receivers[j] \in Receiver /\ receivers'[j] \in Receiver
  BY <1>2, <1>3, LenProperties, ElementOfSeq
<1>5. \A j \in DOMAIN receivers : /\ receivers'[j].endpoint = receivers[j].endpoint
                                  /\ receivers'[j].core = receivers[j].core
  BY <1>1, <1>4 DEF Receiver
<1>6. \A e, c : HowMany(receivers', PinnedTo(e, c)) = HowMany(receivers, PinnedTo(e, c))
  <2>1. ASSUME NEW e, NEW c
        PROVE  HowMany(receivers', PinnedTo(e, c)) = HowMany(receivers, PinnedTo(e, c))
    <3> DEFINE T == PinnedTo(e, c)
    <3>1. \A j \in DOMAIN receivers' : receivers'[j] \in T <=> receivers[j] \in T
      BY <1>3, <1>4, <1>5 DEF PinnedTo
    <3> HIDE DEF T
    <3>2. HowMany(receivers', T) = HowMany(receivers, T)
      BY <1>3, <3>1, HowManyMapped
    <3>3. QED
      BY <3>2 DEF T
  <2>2. QED
    BY <2>1
<1>7. \A d : CoresOfEndpoint(d)' = CoresOfEndpoint(d)
  BY <1>1 DEF CoresOfEndpoint, Config1
<1>8. \A j \in DOMAIN receivers : OnItsCores(receivers[j]) => OnItsCores(receivers[j])'
  BY <1>5, <1>7 DEF OnItsCores
<1>9. \A e \in {1, 2} : InTurn(e) => InTurn(e)'
  <2>1. ASSUME NEW e \in {1, 2}, InTurn(e), NEW j \in DOMAIN CoresOfEndpoint(e)
        PROVE  HowMany(receivers', PinnedTo(e, CoresOfEndpoint(e)[j]))
                 = Turns(idx'[e], Len(CoresOfEndpoint(e)), j)
    BY <1>1, <1>6, <2>1 DEF InTurn
  <2>2. QED
    BY <1>7, <2>1 DEF InTurn, PinnedTo
<1>10. QED
  BY <1>1, <1>3, <1>8, <1>9 DEF SpreadInv

LEMMA SpreadStep ==
  ASSUME StartUpInv, StartUpInv', SpreadInv, [Next]_vars
  PROVE  SpreadInv'
<1>1. CASE ParseArgs \/ LoadPrograms
  <2>1. phase \in {"args", "load"} /\ UNCHANGED <<plan, idx>>
    BY <1>1 DEF ParseArgs, LoadPrograms
  <2>2. plan = <<>>
    BY <2>1 DEF StartUpInv, PlanInv
  <2>3. QED
    BY <2>1, <2>2 DEF SpreadInv
<1>2. CASE Connected \/ ConnectOrAskFails \/ OpenRaw
  BY <1>2, SpreadKept DEF Connected, ConnectOrAskFails, OpenRaw
<1>3. ASSUME NEW r \in Reports[1] \cup Reports[2], Answer(r)
      PROVE  SpreadInv'
  BY <1>3, SpreadKept DEF Answer
<1>4. ASSUME NEW granted \in BOOLEAN, Escalate(granted)
      PROVE  SpreadInv'
  BY <1>4, SpreadKept DEF Escalate
<1>5. CASE MakePlan
  <2>1. phase = "plan" /\ UNCHANGED <<config, idx, receivers>>
    BY <1>5 DEF MakePlan
  <2>2. plan = <<>> /\ receivers = <<>> /\ Loaded
    BY <2>1 DEF StartUpInv, PlanInv, ReceiverInv, ConfigInv, Running
  <2>3. \A e \in {1, 2} : idx[e] = 0
    BY <2>2 DEF SpreadInv
  <2>4. \A e \in {1, 2} : InTurn(e)
    <3>1. ASSUME NEW e \in {1, 2}, NEW j \in DOMAIN CoresOfEndpoint(e)
          PROVE  HowMany(receivers, PinnedTo(e, CoresOfEndpoint(e)[j]))
                   = Turns(idx[e], Len(CoresOfEndpoint(e)), j)
      <4> DEFINE n == Len(CoresOfEndpoint(e))
      <4>1. n \in Nat /\ j \in 1 .. n
        BY <2>2, <3>1, CoresFacts
      <4> HIDE DEF n
      <4>2. n \in Nat \ {0}
        BY <4>1
      <4>3. Turns(0, n, j) = 0
        BY <4>1, <4>2, TurnsFacts
      <4>4. QED
        BY <2>2, <2>3, <4>3, HowManyEmpty DEF n
    <3>2. QED
      BY <3>1 DEF InTurn
  <2>5. DOMAIN <<>> = {}
    OBVIOUS
  <2>6. \A e \in {1, 2} : InTurn(e)'
    BY <2>1, <2>4 DEF InTurn, CoresOfEndpoint, Config1
  <2>7. QED
    BY <2>1, <2>2, <2>3, <2>5, <2>6 DEF SpreadInv
<1>6. CASE Spawn
  BY <1>6, SpreadSpawn
<1>7. ASSUME NEW i \in DOMAIN receivers, NEW granted \in BOOLEAN, ReceiverEscalates(i, granted)
      PROVE  SpreadInv'
  BY <1>7, SpreadEscalates
<1>8. CASE UNCHANGED vars
  BY <1>8, SpreadKept DEF vars
<1>9. QED
  BY <1>1, <1>2, <1>3, <1>4, <1>5, <1>6, <1>7, <1>8 DEF Next

LEMMA Spreading == Spec => [](StartUpInv /\ SpreadInv)
<1>1. Init => SpreadInv
  BY DEF Init, SpreadInv
<1>2. StartUpInv /\ SpreadInv /\ StartUpInv' /\ [Next]_vars => SpreadInv'
  BY SpreadStep
<1>3. QED
  BY <1>1, <1>2, StartUpInvariant, PTL DEF Spec

\* AffinitySpec and core_for_subscription: for any pins that are accepted and
\* any number of cores, the receivers of the two endpoints, the main thread and
\* the control core are apart, and an endpoint's receivers take its cores in
\* turn, so that no core has two receivers more than another.
THEOREM CoresKeptApart == Spec => []CoresApart
<1>1. StartUpInv /\ SpreadInv => CoresApart
  <2> SUFFICES ASSUME StartUpInv, SpreadInv PROVE CoresApart
    OBVIOUS
  <2>1. receivers \in Seq(Receiver) /\ idx \in [{1, 2} -> Nat]
        /\ \A i \in DOMAIN receivers : receivers[i] \in Receiver
    BY LenProperties, ElementOfSeq DEF StartUpInv, ReceiverInv
  <2>2. receivers # <<>> => /\ Loaded /\ cli \in CommandLines /\ Acceptable(cli)
                            /\ \A i \in DOMAIN receivers : OnItsCores(receivers[i])
                            /\ \A e \in {1, 2} : InTurn(e)
    <3>1. receivers # <<>> => plan # <<>>
      BY DEF StartUpInv, ReceiverInv
    <3>2. plan # <<>> => Loaded
      BY DEF StartUpInv, ConfigInv
    <3>3. QED
      BY <3>1, <3>2 DEF Loaded, Good, SpreadInv
  <2>3. ASSUME NEW i \in DOMAIN receivers, receivers[i].core # NoCore
        PROVE  LET core == receivers[i].core
               IN /\ Cardinality(Asked) # 1 =>
                       /\ core \notin {Config1.layout.control, Config1.layout.processor}
                       /\ On(3 - receivers[i].endpoint, core) = {}
                  /\ Asked = {} => core \in 2..(cli.cpu_affinity[1].nproc - 1)
    <3> DEFINE core == receivers[i].core
               e == receivers[i].endpoint
               l == Config1.layout
    <3>1. receivers # <<>>
      <4>1. DOMAIN <<>> = {}
        OBVIOUS
      <4>2. QED
        BY <2>3, <4>1
    <3>2. e \in {1, 2} /\ 3 - e \in {1, 2}
      <4>1. receivers[i].endpoint \in {1, 2}
        BY <2>1 DEF Receiver
      <4> HIDE DEF e
      <4>2. e \in {1, 2}
        BY <4>1 DEF e
      <4>3. QED
        BY <4>2
    <3>3. l = ConfigOf(cli).layout
      BY <2>2, <3>1, <3>2, CoresFacts
    <3>4. core \in ToSet(l.receivers[e])
      BY <2>2, <2>3, <3>1 DEF OnItsCores, CoresOfEndpoint
    <3>5. /\ Cardinality(Asked) # 1 => KeptApart(l)
          /\ Asked = {} => \A d \in {1, 2} : \A c \in ToSet(l.receivers[d]) :
                             c \in 2 .. (cli.cpu_affinity[1].nproc - 1)
      <4> HIDE DEF l
      <4>1. QED
        BY <2>2, <3>1, <3>3, PinsApart
    <3>6. \A k \in On(3 - e, core) : core \in ToSet(l.receivers[3 - e])
      <4>1. ASSUME NEW k \in On(3 - e, core) PROVE core \in ToSet(l.receivers[3 - e])
        <5>1. k \in DOMAIN receivers /\ receivers[k].endpoint = 3 - e /\ receivers[k].core = core
          BY <4>1 DEF On
        <5> HIDE DEF e, core
        <5>2. OnItsCores(receivers[k])
          BY <2>2, <3>1, <5>1
        <5>3. core # NoCore
          BY <2>3 DEF core
        <5>4. QED
          BY <5>1, <5>2, <5>3 DEF OnItsCores, CoresOfEndpoint
      <4>2. QED
        BY <4>1
    <3>7. Cardinality(Asked) # 1 =>
            core \notin {l.control, l.processor} /\ core \notin ToSet(l.receivers[3 - e])
      <4> HIDE DEF l, e
      <4>1. core # NoCore
        BY <2>3
      <4> HIDE DEF core
      <4>2. QED
        BY <3>2, <3>4, <3>5, <4>1 DEF KeptApart
    <3>8. Asked = {} => core \in 2 .. (cli.cpu_affinity[1].nproc - 1)
      <4> HIDE DEF l, e, core
      <4>1. QED
        BY <3>2, <3>4, <3>5
    <3>9. QED
      BY <3>6, <3>7, <3>8
  <2>4. ASSUME receivers # <<>>, NEW e \in {1, 2},
               NEW c \in ToSet(Config1.layout.receivers[e]), NEW d \in ToSet(Config1.layout.receivers[e])
        PROVE  Cardinality(On(e, c)) <= Cardinality(On(e, d)) + 1
    <3> DEFINE q == CoresOfEndpoint(e)
               n == Len(q)
               m == idx[e]
    <3>1. DOMAIN q = 1 .. n /\ n \in Nat
      BY <2>2, <2>4, CoresFacts
    <3>2. c \in ToSet(q) /\ d \in ToSet(q)
      BY <2>4 DEF CoresOfEndpoint
    <3>3. InTurn(e) /\ m \in Nat
      BY <2>1, <2>2, <2>4
    <3>4. \A x : On(e, x) = {i \in DOMAIN receivers : receivers[i] \in PinnedTo(e, x)}
      BY <2>1 DEF On, PinnedTo
    <3>5. \A x : Cardinality(On(e, x)) = HowMany(receivers, PinnedTo(e, x))
      BY <3>4 DEF HowMany
    <3>6. \A j \in 1 .. n : HowMany(receivers, PinnedTo(e, q[j])) = Turns(m, n, j)
      BY <3>1, <3>3 DEF InTurn
    <3> HIDE DEF q, n, m
    <3>7. PICK j \in 1 .. n : c = q[j]
      BY <3>1, <3>2 DEF ToSet
    <3>8. PICK k \in 1 .. n : d = q[k]
      BY <3>1, <3>2 DEF ToSet
    <3>9. n \in Nat \ {0}
      BY <3>1, <3>7
    <3>10. Turns(m, n, j) <= Turns(m, n, k) + 1
      BY <3>3, <3>9, TurnsFacts
    <3>11. QED
      BY <3>5, <3>6, <3>7, <3>8, <3>10
  <2>5. QED
    BY <2>3, <2>4 DEF CoresApart
<1>2. QED
  BY <1>1, Spreading, PTL

=============================================================================
