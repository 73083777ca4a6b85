----------------------------- MODULE RawWriter ------------------------------
(***************************************************************************)
(* The log of raw records, src/src/raw.rs: a buffer of a number of records  *)
(* over a file whose writes may fail, with the first error latched.  Each   *)
(* operation is the set of states it may leave the writer in.               *)
(***************************************************************************)
EXTENDS Integers, Sequences, SequencesExt

CONSTANT BufferRecords   \* records the buffer holds (64 KiB in the code)

\* disk: what has reached the file; bytes_written is kept in records.
NewWriter == [disk |-> <<>>, buffer |-> <<>>, poisoned |-> FALSE, warning |-> FALSE,
              bytes_written |-> 0]

\* The first n buffered records reach the file, the rest stays where it is.
SpilledBy(w, n) ==
  [w EXCEPT !.disk = @ \o SubSeq(w.buffer, 1, n),
            !.buffer = SubSeq(@, n + 1, Len(@))]

\* An error on the way: some records got through, but not all.
Failed(w) ==
  {[SpilledBy(w, n) EXCEPT !.poisoned = TRUE, !.warning = TRUE] : n \in 0 .. (Len(w.buffer) - 1)}

Buffered(w, record) == [w EXCEPT !.buffer = Append(@, record)]
Counted(w) == [w EXCEPT !.bytes_written = @ + 1]

\* Variant: an error is not remembered.
WriteForgetting(w, record) ==
  IF Len(w.buffer) < BufferRecords THEN {Counted(Buffered(w, record))}
  ELSE {Counted(Buffered(SpilledBy(w, Len(w.buffer)), record))}
         \cup {[b EXCEPT !.poisoned = FALSE] : b \in Failed(w)}

\* `write`: nothing after an error.  A record that does not fit spills the
\* buffer first; that may fail before the text of the record is taken, or
\* after, at its newline.
Write(w, record) ==
  IF w.poisoned THEN {w}
  ELSE IF Len(w.buffer) < BufferRecords THEN {Counted(Buffered(w, record))}
  ELSE {Counted(Buffered(SpilledBy(w, Len(w.buffer)), record))}
         \cup Failed(w) \cup Failed(Buffered(w, record))

\* Variant: a failed flush is taken for a good one.
FlushHopeful(w) == {[b EXCEPT !.warning = FALSE] : b \in Failed(w) \cup {SpilledBy(w, Len(w.buffer))}}

\* `flush`
Flush(w) == IF w.poisoned THEN {w} ELSE {SpilledBy(w, Len(w.buffer))} \cup Failed(w)

\* `take_warning`
WarningTaken(w) == [w EXCEPT !.warning = FALSE]

\* When the writer is dropped its buffer is written once more, error or not.
Dropped(w) == {SpilledBy(w, n) : n \in 0 .. Len(w.buffer)}

=============================================================================
