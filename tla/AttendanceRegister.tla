------------------------- MODULE AttendanceRegister -------------------------
(***************************************************************************)
(* What the confirmation path promises, with no blocks, hashes or files:   *)
(* marks wait in a queue that is lost when the program stops, and are      *)
(* entered one by one, oldest first, in a register from which nothing is   *)
(* ever removed.                                                           *)
(***************************************************************************)
EXTENDS Integers, Sequences, Functions

CONSTANTS Students, Rewards, Stamps   \* what a mark is made of

VARIABLES queue,     \* marks not yet confirmed
          register   \* confirmed marks

Init == queue = <<>> /\ register = <<>>

\* A mark is younger than all that came before it.
MarkOne ==
  /\ \E stamp \in Stamps, student \in Students, reward \in Rewards :
       /\ \A mark \in Range(queue) \cup Range(register) : mark.stamp < stamp
       /\ queue' = Append(queue, [stamp |-> stamp, student |-> student,
                                  reward |-> reward])
  /\ UNCHANGED register

ConfirmOne ==
  /\ queue # <<>>
  /\ queue' = Tail(queue) /\ register' = Append(register, Head(queue))

Restart == queue' = <<>> /\ UNCHANGED register

Next == MarkOne \/ ConfirmOne \/ Restart

Spec == Init /\ [][Next]_<<queue, register>>
=============================================================================
