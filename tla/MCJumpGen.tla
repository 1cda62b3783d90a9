----------------------------- MODULE MCJumpGen -----------------------------
(***************************************************************************)
(* Instances of JumpGen for TLC.                                           *)
(***************************************************************************)
EXTENDS JumpGen

\* Expressions of a few bytes: all jumps back are short.
SizesNear == {2}
\* A body of 126 or of 127 bytes puts the jump back on either side of the
\* reach of its short form.
SizesEdge == {126, 127}
OneCond  == {"cmp"}
\* A value is compared first, and the jump is then that of a comparison.
TwoConds == {"const", "value"}

NoParams   == {}
FourBytes  == {4}
SomeParams == {0, 4, 8}
=============================================================================
