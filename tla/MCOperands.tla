----------------------------- MODULE MCOperands -----------------------------
(***************************************************************************)
(* Every operator with two operands on the stack, and three families with  *)
(* enough operands to take all four registers.                             *)
(***************************************************************************)
EXTENDS Operands

MCPrograms ==
  {[forms |-> AllForms, operands |-> 2],
   [forms |-> {"alu", "deref", "assign"}, operands |-> 4],
   [forms |-> {"mod", "call", "comma"}, operands |-> 4],
   [forms |-> {"div", "rel", "member", "assign", "call", "comma", "address"},
    operands |-> 3]}
=============================================================================
