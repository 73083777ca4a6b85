------------------------------ MODULE Programs ------------------------------
(***************************************************************************)
(* The list of programs, src/src/programs.rs.  A file is absent when it     *)
(* cannot be opened, otherwise a sequence of lines; a line is the sequence  *)
(* of its tab-separated columns without the blanks around them, and has no  *)
(* column when it is empty.  A comment has CommentColumn in front.  A line  *)
(* that is not text has only the column NotText.                            *)
(***************************************************************************)
EXTENDS Integers, Sequences, SequencesExt, Selection

CONSTANT ProgramIds   \* the columns that are base58 of 32 bytes

CommentColumn == "#"
NotText == "\\xff"

Skipped(line) == line = <<>> \/ line[1] = CommentColumn

\* `parse_row`: a name, an id and at most a description.
WellFormed(row) ==
  /\ Len(row) \in {2, 3}
  /\ row[1] # "" /\ row[2] \in ProgramIds

\* What is neither empty nor a comment.
Rows(file) == Only(file[1], {line \in ToSet(file[1]) : ~Skipped(line)})

Column(rows, c) == [i \in DOMAIN rows |-> rows[i][c]]

\* `ProgramSet::load` succeeds: every row is well formed, there is one, and no
\* name and no id comes twice.
ProgramsLoad(file) ==
  /\ file # <<>>
  /\ Rows(file) # <<>>
  /\ \A i \in DOMAIN Rows(file) : WellFormed(Rows(file)[i])
  /\ IsInjective(Column(Rows(file), 1)) /\ IsInjective(Column(Rows(file), 2))

\* `program_ids`, in the order of the file.
ProgramsOf(file) == Column(Rows(file), 2)

=============================================================================
