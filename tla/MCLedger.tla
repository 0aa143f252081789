------------------------------ MODULE MCLedger ------------------------------
(***************************************************************************)
(* Instance of Ledger for TLC: two students, a miner and an unknown id.    *)
(***************************************************************************)
EXTENDS Ledger, TLC

CONSTANTS s1, s2, miner, stranger

MCIds      == {s1, s2, miner, stranger}
MCRegistry == {s1, s2}
MCMiners   == {miner}
Symmetry   == Permutations(MCRegistry)
=============================================================================
