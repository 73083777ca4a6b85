----------------------------- MODULE Selection ------------------------------
(***************************************************************************)
(* What the program does with lists: filtering and partitioning by a        *)
(* condition, dropping repetitions, cutting into chunks.                    *)
(***************************************************************************)
EXTENDS Integers, Sequences

\* The elements that are in a set, in their order: SelectSeq as a recursive
\* function on the length, which proofs can unfold.
Only(s, T) ==
  LET only[n \in 0 .. Len(s)] ==
        IF n = 0 THEN <<>>
        ELSE IF s[n] \in T THEN Append(only[n - 1], s[n]) ELSE only[n - 1]
  IN only[Len(s)]

\* The first occurrences, in order.
Distinct(s) ==
  LET IsFirst(i) == \A j \in 1 .. (i - 1) : s[j] # s[i]
      firsts == Only([i \in DOMAIN s |-> i], {i \in DOMAIN s : IsFirst(i)})
  IN [k \in DOMAIN firsts |-> s[firsts[k]]]

\* Variant: an incomplete chunk at the end is left out.
ChunksExact(s, size) ==
  [i \in 1 .. (Len(s) \div size) |-> SubSeq(s, (i - 1) * size + 1, i * size)]

\* `slice::chunks`
Chunks(s, size) ==
  [i \in 1 .. ((Len(s) + size - 1) \div size) |->
     SubSeq(s, (i - 1) * size + 1, IF i * size < Len(s) THEN i * size ELSE Len(s))]

=============================================================================
