------------------------------ MODULE MCStartup ------------------------------
(***************************************************************************)
(* Instance of Startup for TLC: files of up to three lines.  A line is a   *)
(* student, a comment so long that its rest reads like a record, or a      *)
(* student whose fields do not all begin within the buffer.                *)
(***************************************************************************)
EXTENDS Startup, SequencesExt

CONSTANTS a, b

MCStudentIds == {a, b}

Piece(student, seen) == [meant |-> student, id |-> seen]

Lines ==
  {<<Piece(a, a)>>,
   <<Piece(NoRecord, NoRecord), Piece(NoRecord, b)>>,
   <<Piece(b, NoRecord), Piece(NoRecord, NoRecord)>>}

MCFiles == {FlattenSeq(lines) : lines \in BoundedSeq(Lines, 3)}
=============================================================================
