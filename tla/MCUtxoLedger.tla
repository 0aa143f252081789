---------------------------- MODULE MCUtxoLedger ----------------------------
(***************************************************************************)
(* Instances of UtxoLedger for TLC.                                        *)
(***************************************************************************)
EXTENDS UtxoLedger, TLC

CONSTANTS s1, s2, miner

MCRegistry == {s1, s2}
MCMiners   == {miner}
Symmetry   == Permutations(MCRegistry)
=============================================================================
