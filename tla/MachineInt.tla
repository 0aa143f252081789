----------------------------- MODULE MachineInt -----------------------------
(***************************************************************************)
(* The int of the program.  Overflow is undefined in C; the build (gcc -O2 *)
(* on two's complement) wraps around in the sums of ledger.c and mining.c. *)
(* INT_MAX is a parameter so that TLC reaches the edge with small numbers. *)
(***************************************************************************)
EXTENDS Integers

CONSTANT INT_MAX

ASSUME IntMaxAssumption == INT_MAX \in Nat \ {0}

INT_MIN == -INT_MAX - 1

MachineInts == INT_MIN..INT_MAX

\* What an int holds after an addition or subtraction of ints gave x.
AsInt(x) == INT_MIN + ((x - INT_MIN) % (2 * (INT_MAX + 1)))
=============================================================================
