----------------------------- MODULE ScopeRules -----------------------------
(***************************************************************************)
(* What the symbol table promises to the rest of the compiler: names live  *)
(* in nested scopes, and a lookup finds the declaration in the innermost   *)
(* scope that has one.  SymbolScope implements this with two stacks, a     *)
(* chain for each name and the parser's call stack.                        *)
(***************************************************************************)
EXTENDS Integers

CONSTANTS
  Names,         \* <<name space, word>>: "ident" for identifiers, "tag" for structs
  Symbols,       \* what a name can be declared as: a set of numbers
  ParamsVisible  \* does the parameter list of a declaration declare its names?

VARIABLES
  depth,     \* the innermost scope; 1 is the file
  decls,     \* [name, depth, symbol]: the declarations of all open scopes
  visible    \* what a lookup finds: name -> symbol, 0 if there is none

vars == <<depth, decls, visible>>

Decl(n, k, d) == [name |-> n, depth |-> k, symbol |-> d]

\* The declaration of a name in the innermost scope, of those the latest.
Before(d, e) == d.depth < e.depth \/ (d.depth = e.depth /\ d.symbol < e.symbol)
Lookup(D, n) ==
  LET S == {d \in D : d.name = n}
  IN IF S = {} THEN 0
     ELSE (CHOOSE d \in S : \A e \in S : e = d \/ Before(e, d)).symbol

\* Symbols are numbered in the order of their declaration.
New(d) == \A e \in decls : e.symbol < d

Init == depth = 1 /\ decls = {} /\ visible = [n \in Names |-> 0]

EnterScope == depth' = depth + 1 /\ UNCHANGED <<decls, visible>>

\* The names of the innermost scope are gone; what they hid is visible again.
LeaveScope ==
  /\ depth > 1
  /\ depth' = depth - 1
  /\ decls' = {d \in decls : d.depth < depth}
  /\ visible' = [n \in Names |-> Lookup(decls', n)]

\* A declaration is for the innermost scope.  A struct that is visible from
\* anywhere, and a global name, are not declared again; a local variable
\* replaces one of the same name in the same block.
Declare(n, d) ==
  /\ n[1] = "tag" \/ depth = 1 => visible[n] = 0
  /\ visible' = [visible EXCEPT ![n] = d]
  /\ New(d)
  /\ decls' = decls \cup {Decl(n, depth, d)}
  /\ UNCHANGED depth

\* A name that is used without a declaration belongs to the whole file.
DeclareImplicitly(n, d) ==
  /\ n[1] = "ident" /\ visible[n] = 0
  /\ visible' = [visible EXCEPT ![n] = d]
  /\ New(d)
  /\ decls' = decls \cup {Decl(n, 1, d)}
  /\ UNCHANGED depth

\* A parameter is declared, if at all, in the scope its declaration stands in,
\* whatever the name is there.
DeclareParameter(n, d) ==
  /\ ParamsVisible /\ n[1] = "ident"
  /\ visible' = [visible EXCEPT ![n] = d]
  /\ New(d)
  /\ decls' = decls \cup {Decl(n, depth, d)}
  /\ UNCHANGED depth

Next ==
  \/ EnterScope
  \/ LeaveScope
  \/ \E n \in Names, d \in Symbols :
       Declare(n, d) \/ DeclareImplicitly(n, d) \/ DeclareParameter(n, d)

Spec == Init /\ [][Next]_vars
=============================================================================
