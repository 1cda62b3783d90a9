--------------------------- MODULE MCSymbolScope ---------------------------
(* The constants of the runs are in their configurations.                  *)
EXTENDS SymbolScope, TLC

\* The identifiers are interchangeable.
WordSymmetry == Permutations(Words)
=============================================================================
