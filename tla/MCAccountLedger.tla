--------------------------- MODULE MCAccountLedger ---------------------------
(***************************************************************************)
(* Instances of AccountLedger for TLC: two registered students, a miner and*)
(* an id nobody registered.                                                *)
(***************************************************************************)
EXTENDS AccountLedger, TLC

CONSTANTS s1, s2, miner, stranger

MCIds      == {s1, s2, miner, stranger}
MCRegistry == {s1, s2}
MCMiners   == {miner}
Symmetry   == Permutations(MCRegistry)

Negative == -3
MCAnyAmount == {Negative, 2}
=============================================================================
