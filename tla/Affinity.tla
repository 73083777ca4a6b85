------------------------------ MODULE Affinity ------------------------------
(***************************************************************************)
(* Which core each thread is pinned to: AffinitySpec and AffinityPlan of    *)
(* src/src/collect/mod.rs.  A layout gives the receivers of each endpoint a *)
(* sequence of cores, empty when they are not pinned.                       *)
(***************************************************************************)
EXTENDS Integers, Sequences, SequencesExt

NoCore == -1

NoLayout == [receivers |-> [e \in {1, 2} |-> <<>>], processor |-> NoCore, control |-> NoCore]

CoreRange(from, to) == [i \in 1 .. (to - from + 1) |-> from + i - 1]

\* `auto`: cores 0 and 1 for the kernel, the last one for control, the rest
\* split between the endpoints; no pins below six cores.
AutoLayout(nproc) ==
  IF nproc < 6 THEN NoLayout
  ELSE LET last == nproc - 1
           split == 2 + (last - 2) \div 2
       IN [receivers |-> [e \in {1, 2} |->
             IF e = 1 THEN CoreRange(2, split - 1) ELSE CoreRange(split, last - 1)],
           processor |-> NoCore, control |-> last]

\* A flat list of distinct cores: the first four positions have a meaning.
FlatLayout(cores) ==
  LET At(i) == IF i <= Len(cores) THEN cores[i] ELSE NoCore
      One(i) == IF i <= Len(cores) THEN <<cores[i]>> ELSE <<>>
  IN [receivers |-> [e \in {1, 2} |-> IF Len(cores) = 1 THEN One(1) ELSE One(e)],
      processor |-> IF Len(cores) = 1 THEN cores[1] ELSE At(3),
      control |-> At(4)]

\* The argument of --cpu-affinity: `auto` and the number of cores the host then
\* reports, or its sections in order, each with a role ("" when it has no `=`)
\* and its cores, a negative number for what is no core number.
Roles == {"ep1", "ep2", "proc", "ctrl"}
IsAffinity(arg) ==
  /\ arg.auto \in BOOLEAN /\ arg.nproc \in Nat
  /\ arg.sections \in Seq([role : STRING, cores : Seq(Int)])
AllSections(arg) == FlattenSeq([i \in DOMAIN arg.sections |-> arg.sections[i].cores])
IsStructured(arg) == \E i \in DOMAIN arg.sections : arg.sections[i].role # ""

\* Variant: a core may be given to two roles.
SectionsOKLoosely(arg) ==
  /\ \A i \in DOMAIN arg.sections :
       /\ arg.sections[i].role \in Roles /\ arg.sections[i].cores # <<>>
       /\ IsInjective(arg.sections[i].cores)
       /\ arg.sections[i].role \in {"proc", "ctrl"} => Len(arg.sections[i].cores) = 1
  /\ IsInjective([i \in DOMAIN arg.sections |-> arg.sections[i].role])

\* `from_structured`: known roles, each once, no section without cores, one core
\* for the two single threads, and no core twice.
SectionsOK(arg) ==
  /\ \A i \in DOMAIN arg.sections :
       /\ arg.sections[i].role \in Roles /\ arg.sections[i].cores # <<>>
       /\ arg.sections[i].role \in {"proc", "ctrl"} => Len(arg.sections[i].cores) = 1
  /\ IsInjective([i \in DOMAIN arg.sections |-> arg.sections[i].role])
  /\ IsInjective(AllSections(arg))

\* `AffinitySpec::parse` succeeds.
AffinityParses(arg) ==
  \/ arg.auto \/ arg.sections = <<>>
  \/ /\ \A i \in DOMAIN AllSections(arg) : AllSections(arg)[i] >= 0
     /\ IF IsStructured(arg) THEN SectionsOK(arg)
        ELSE Len(arg.sections) = 1 /\ IsInjective(arg.sections[1].cores)

CoresOf(arg, role) ==
  FlattenSeq([i \in DOMAIN arg.sections |->
                IF arg.sections[i].role = role THEN arg.sections[i].cores ELSE <<>>])

StructuredLayout(arg) ==
  LET Single(role) == IF CoresOf(arg, role) = <<>> THEN NoCore ELSE CoresOf(arg, role)[1]
  IN [receivers |-> [e \in {1, 2} |-> CoresOf(arg, IF e = 1 THEN "ep1" ELSE "ep2")],
      processor |-> Single("proc"), control |-> Single("ctrl")]

\* What it returns then.
LayoutOf(arg) ==
  IF arg.auto THEN AutoLayout(arg.nproc)
  ELSE IF IsStructured(arg) THEN StructuredLayout(arg)
  ELSE FlatLayout(AllSections(arg))

\* The idx-th receiver of an endpoint, counting from 0, takes the cores of the
\* endpoint in turn.
CoreFor(layout, e, idx) ==
  LET cores == layout.receivers[e]
  IN IF cores = <<>> THEN NoCore ELSE cores[(idx % Len(cores)) + 1]

============================================================================
