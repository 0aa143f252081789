------------------------------ MODULE MCMining ------------------------------
(***************************************************************************)
(* Instances of Mining for TLC: one student, three pool miners, an unknown *)
(* id.                                                                     *)
(***************************************************************************)
EXTENDS Mining

CONSTANTS s1, solo, cloud, p1, p2, p3, stranger

MCTypedIds  == {stranger}
MCStudents  == {s1}
MCMiners    == {solo, cloud, p1, p2, p3}
MCPoolMiner == <<p1, p2, p3>>
=============================================================================
