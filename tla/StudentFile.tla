----------------------------- MODULE StudentFile -----------------------------
(***************************************************************************)
(* Reading students.txt (students.c).  A file is what fgets makes of it: a *)
(* line is one piece, or several if it is longer than the buffer of 256    *)
(* bytes.  A record is a line, no blank one and no comment, of three       *)
(* fields.  Of a piece matter two things: the student whose line begins    *)
(* there, which is what the author wrote, and the id parse_student_line    *)
(* finds in the piece, which is what the program sees.                     *)
(***************************************************************************)
EXTENDS Naturals, Sequences, Functions

CONSTANTS MAX_STUDENTS, StudentIds, NoRecord

\* A piece where the line of a student begins shows this student or, if the
\* fields do not begin within the buffer, nobody.  Any other piece of a comment
\* or of the rest of a long line may look like a record.
Pieces ==
  {p \in [meant : StudentIds \cup {NoRecord}, id : StudentIds \cup {NoRecord}] :
     p.meant # NoRecord => p.id \in {p.meant, NoRecord}}

Start == [students |-> <<>>, full |-> FALSE]

\* Variant with a bug: what does not fit is left out silently.
ReadDroppingSurplus(state, piece) ==
  IF piece.id # NoRecord /\ Len(state.students) < MAX_STUDENTS
  THEN [state EXCEPT !.students = Append(@, piece.id)] ELSE state

\* Variant with a bug: the table has no limit.
ReadUnlimited(state, piece) ==
  IF piece.id # NoRecord
  THEN [state EXCEPT !.students = Append(@, piece.id)] ELSE state

\* One turn of the loop of load_student_registry.
Read(state, piece) ==
  IF piece.id = NoRecord \/ state.full THEN state
  ELSE IF Len(state.students) >= MAX_STUDENTS THEN [state EXCEPT !.full = TRUE]
  ELSE [state EXCEPT !.students = Append(@, piece.id)]

\* load_student_registry: what it returns, and the registry.
LoadRegistry(file) ==
  LET read[i \in 0..Len(file)] ==
        IF i = 0 THEN Start ELSE Read(read[i - 1], file[i])
      end == read[Len(file)]
  IN  [ok |-> ~end.full /\ end.students # <<>>, students |-> end.students]

-----------------------------------------------------------------------------
\* The students whose lines begin with one of these pieces, line by line.
Listed(file, pieces) ==
  LET listed[i \in 0..Len(file)] ==
        IF i = 0 THEN <<>>
        ELSE IF file[i].meant # NoRecord /\ file[i] \in pieces
             THEN Append(listed[i - 1], file[i].meant) ELSE listed[i - 1]
  IN  listed[Len(file)]

\* What the author of the file wrote: one student per line.
Meant(file) == Listed(file, Pieces)

\* The students whose fields begin in the first piece of their line.
WithinReach(file) == Listed(file, {p \in Pieces : p.id = p.meant})

\* s is t, possibly without some of its elements.
IsWithin(s, t) ==
  \E at \in [1..Len(s) -> 1..Len(t)] :
    /\ \A i \in 1..Len(s) : t[at[i]] = s[i]
    /\ \A i, j \in 1..Len(s) : i < j => at[i] < at[j]
=============================================================================
