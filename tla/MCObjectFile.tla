---------------------------- MODULE MCObjectFile ----------------------------
(***************************************************************************)
(* Instances of ObjectFile for TLC.                                        *)
(***************************************************************************)
EXTENDS ObjectFile, TLC

WordSymmetry == Permutations(Words)

\* The identifiers share a chain that is empty at first, the sections another.
TwoChains == [n \in Names |-> IF n \in Words THEN 0 ELSE 1]
=============================================================================
