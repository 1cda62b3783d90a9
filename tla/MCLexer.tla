------------------------------ MODULE MCLexer ------------------------------
(***************************************************************************)
(* Files over the characters that matter to each other: comments and ends  *)
(* of lines, words and numbers, operators, strings; and two files.         *)
(***************************************************************************)
EXTENDS Lexer

\* "a" is a keyword, "b" one on the same chain, "ab" one on the other
MCKeywords == << <<"a">>, <<"b">>, <<"a", "b">> >>
MCHash(w) == Len(w) % 2

MCSources ==
  {[alphabet |-> {"/", "*", "CR", "LF", "a"}, length |-> 7, files |-> 1],
   [alphabet |-> {"a", "b", "1", "SP", "."}, length |-> 5, files |-> 1],
   [alphabet |-> {"a", "-", "=", "<", ">", "!", ";", "SP"}, length |-> 4, files |-> 1],
   [alphabet |-> {"b", "SP", Quote, "\\", "LF"}, length |-> 5, files |-> 1],
   [alphabet |-> {"a", "1", ".", "/"}, length |-> 4, files |-> 2]}
=============================================================================
