---------------------------- MODULE SymbolScope ----------------------------
(***************************************************************************)
(* The symbol table of CL_Syntax.cpp.  Every declaration pushes a Symbol   *)
(* on global_sym_stack or local_sym_stack and hooks it in front of a chain *)
(* that starts in the TKWord of its name (sym_identifier or sym_struct)    *)
(* and goes on through prev_tok; leaving a block pops its symbols and      *)
(* unhooks them.  Types, member lists and parameter lists are references   *)
(* between symbols.                                                        *)
(*                                                                         *)
(* A symbol is its number: sym holds all that were ever created, the two   *)
(* stacks those that exist, and a number that is on neither is a freed     *)
(* Symbol.  The C++ call stack of the parser is the variable parse.  A     *)
(* step pushes or pops at most one symbol.                                 *)
(***************************************************************************)
EXTENDS Integers, Sequences, FiniteSets

CONSTANTS
  Words,            \* the identifiers of the source file
  Rdata,            \* the word ".rdata", which no identifier is
  ParamsChained,    \* what v < SC_ANOM says of a v with the sign bit SC_PARAMS
  NestedFunctions,  \* may the source file define a function in a function?
  Forms,            \* the forms of declaration the source file may use
  MaxSyms,          \* bound: symbols ever created
  MaxFrames         \* bound: nesting of the parser's calls

ASSUME SymbolScopeAssumption ==
  /\ Rdata \notin Words
  /\ ParamsChained \in BOOLEAN /\ NestedFunctions \in BOOLEAN
  /\ Forms \subseteq {"struct", "pointer", "array", "params", "list", "sizeof"}
  /\ MaxSyms \in Nat /\ MaxFrames \in Nat

VARIABLES
  sym,      \* number -> [v, type, c, next, prev]
  global_sym_stack,
  local_sym_stack,
  head,     \* <<name space, word>> -> first symbol of the chain, 0 for NULL
  parse     \* activation frames of the parser

vars == <<sym, global_sym_stack, local_sym_stack, head, parse>>

-----------------------------------------------------------------------------
(* Symbols, names and types.                                               *)

AllWords == Words \cup {Rdata}
Names    == {"ident", "tag"} \X AllWords

\* v: a word code with one of the flags SC_STRUCT, SC_MEMBER, SC_PARAMS or
\* none ("ident"), or SC_ANOM.
V(kind, word) == [kind |-> kind, word |-> word]
Anonymous     == V("anom", Rdata)

Type(t, ref) == [t |-> t, ref |-> ref]
int_type     == Type("int", 0)
default_func_type == Type("func", 2)

\* (v & SC_STRUCT) || v < SC_ANOM
OnlyStructs(v) == v.kind = "tag"   \* mutant: identifiers stay hooked
OnChain(v) ==
  \/ v.kind \in {"ident", "tag"}
  \/ v.kind = "param" /\ ParamsChained

NameOf(v) == <<IF v.kind = "tag" THEN "tag" ELSE "ident", v.word>>

sym_search(w)    == head[<<"ident", w>>]
struct_search(w) == head[<<"tag", w>>]

Last(s)    == s[Len(s)]
ButLast(s) == SubSeq(s, 1, Len(s) - 1)

Fresh == Len(sym) + 1

\* new Symbol, as it is at the end of sym_push.
NewSymbol(v, type, c, next) ==
  [v |-> v, type |-> type, c |-> c, next |-> next,
   prev |-> IF OnChain(v) THEN head[NameOf(v)] ELSE 0]

PushGlobal ==
  /\ global_sym_stack' = Append(global_sym_stack, Fresh)
  /\ UNCHANGED local_sym_stack
PushLocal ==
  /\ local_sym_stack' = Append(local_sym_stack, Fresh)
  /\ UNCHANGED global_sym_stack

NewSymbolAt(v) ==   \* the same, for the symbols of init_syntax
  [v |-> v, type |-> int_type, c |-> 0, next |-> 0, prev |-> 0]

\* sym_push of a symbol with v; the caller says what sym becomes.
sym_push(v) ==
  /\ Len(sym) < MaxSyms
  /\ IF local_sym_stack # <<>> THEN PushLocal ELSE PushGlobal
  /\ head' = IF OnChain(v) THEN [head EXCEPT ![NameOf(v)] = Fresh] ELSE head

\* func_sym_push.  It appends to the end of the chain, and both callers call
\* it only when the chain is empty (sym_search gave NULL): the end is the head.
func_sym_push(w) ==
  /\ Len(sym) < MaxSyms
  /\ PushGlobal
  /\ head' = [head EXCEPT ![<<"ident", w>>] = Fresh]

NoSymbol == UNCHANGED <<sym, global_sym_stack, local_sym_stack, head>>

-----------------------------------------------------------------------------
(* The parser's frames.  Fields a kind of frame does not use are 0.        *)
(*   decl:   external_declatation, struct_declaration, a parameter or the  *)
(*           type of sizeof.  stage says how much of it has been read.     *)
(*   struct: struct_declaration_list; s the tag, tail where *ps points     *)
(*   params: parameter_type_list; s the first parameter, tail the last     *)
(*   func:   funcbody; s the function, tail gen_prolog's next parameter    *)
(*   block:  compound_statement; s the symbol it will pop to               *)
(*   pop:    sym_pop(local_sym_stack, s)                                   *)

Frame(at, stage, s, tail) ==
  [at |-> at, stage |-> stage, where |-> "", base |-> int_type, type |-> int_type,
   word |-> Rdata, s |-> s, tail |-> tail]

DeclFrame(where, stage, type) ==
  [at |-> "decl", stage |-> stage, where |-> where, base |-> type,
   type |-> type, word |-> Rdata, s |-> 0, tail |-> 0]

At(kind)   == parse # <<>> /\ Last(parse).at = kind
top        == Last(parse)
Goto(f)    == parse' = Append(ButLast(parse), f)
Enter(f)   == Len(parse) < MaxFrames /\ parse' = Append(parse, f)
Leave      == parse' = ButLast(parse)

Decl(stages) == At("decl") /\ top.stage \in stages
\* An expression may be read: a statement, or an initializer.
InExpression ==
  \/ At("block")
  \/ /\ Decl({"done"}) /\ top.where \in {"global", "local"}
     /\ top.type.t # "func"
     /\ ~ (top.where = "global" /\ top.type.t = "array")

\* The declarations of a block come before its statements.
Statement(f) == IF f.at = "block" THEN [f EXCEPT !.stage = "statements"] ELSE f
EnterExpr(f) ==
  /\ Len(parse) < MaxFrames
  /\ parse' = Append(Append(ButLast(parse), Statement(top)), f)

\* Where a type specifier is expected next, and what it declares.
Expects ==
  IF parse = <<>> THEN "global"
  ELSE CASE At("block") /\ top.stage = "declarations" -> "local"
         [] At("struct")                              -> "member"
         [] At("params") /\ "params" \in Forms        -> "param"
         [] OTHER                                     -> "nothing"

-----------------------------------------------------------------------------
(* Declarations.                                                           *)

\* init_syntax: the char of char_pointer_type, the int that default_func_type
\* returns, and the section symbol of .rdata.
Init ==
  /\ sym = << NewSymbolAt(Anonymous), NewSymbolAt(Anonymous),
              NewSymbolAt(V("ident", Rdata)) >>
  /\ global_sym_stack = <<1, 2, 3>>
  /\ local_sym_stack = <<>>
  /\ head = [n \in Names |-> IF n = <<"ident", Rdata>> THEN 3 ELSE 0]
  /\ parse = <<>>

\* type_specifier of a type that is not a struct.
BasicType ==
  /\ \/ Expects # "nothing" /\ Enter(DeclFrame(Expects, "specified", int_type))
     \/ /\ InExpression /\ "sizeof" \in Forms
        /\ EnterExpr(DeclFrame("sizeof", "specified", int_type))
  /\ NoSymbol

\* struct_specifier up to the token after the name: an unknown name is pushed
\* as a struct without a definition (c = -1).
StructName(w) ==
  /\ "struct" \in Forms
  /\ LET r == IF struct_search(w) # 0 THEN struct_search(w) ELSE Fresh
     IN \/ /\ Expects # "nothing"
           /\ Enter(DeclFrame(Expects, "tagged", Type("struct", r)))
        \/ /\ InExpression /\ "sizeof" \in Forms
           /\ EnterExpr(DeclFrame("sizeof", "tagged", Type("struct", r)))
  /\ IF struct_search(w) # 0 THEN NoSymbol
     ELSE /\ sym_push(V("tag", w))
          /\ sym' = Append(sym, NewSymbol(V("tag", w), Type("struct", 0), -1, 0))

\* struct_declaration_list up to its loop; that the struct has a definition
\* already is only a warning.
OpenStruct ==
  /\ Decl({"tagged"})
  /\ Len(parse) < MaxFrames
  /\ parse' = Append(Append(ButLast(parse), [top EXCEPT !.stage = "specified"]),
                     Frame("struct", "members", top.base.ref, top.base.ref))
  /\ NoSymbol

\* struct_declaration: one declarator; **ps = ss, *ps = &ss->next.
Member ==
  /\ Decl({"named", "complete"}) /\ top.where = "member"
  /\ LET list == parse[Len(parse) - 1]
     IN /\ sym_push(V("member", top.word))
        /\ sym' = [Append(sym, NewSymbol(V("member", top.word), top.type, 0, 0))
                     EXCEPT ![list.tail].next = Fresh]
        /\ parse' = Append(Append(ButLast(ButLast(parse)),
                                  [list EXCEPT !.tail = Fresh]),
                           [top EXCEPT !.stage = "done"])

\* The end of struct_declaration_list: s->c becomes the size.
CloseStruct ==
  /\ At("struct")
  /\ sym' = [sym EXCEPT ![top.s].c = 0]
  /\ Leave
  /\ UNCHANGED <<global_sym_stack, local_sym_stack, head>>

\* mk_pointer, for a '*' of a declarator.
Pointer ==
  /\ "pointer" \in Forms
  /\ Decl({"tagged", "specified", "pointer"}) /\ top.where # "sizeof"
  /\ sym_push(Anonymous)
  /\ sym' = Append(sym, NewSymbol(Anonymous, top.type, -1, 0))
  /\ Goto([top EXCEPT !.stage = "pointer", !.type = Type("ptr", Fresh)])

\* direct_declarator.
Identifier(w) ==
  /\ Decl({"tagged", "specified", "pointer"}) /\ top.where # "sizeof"
  /\ Goto([top EXCEPT !.stage = "named", !.word = w])
  /\ NoSymbol

\* direct_declarator_postfix for '[', after the postfix behind it.
Array ==
  /\ "array" \in Forms
  /\ Decl({"named", "complete"})
  /\ sym_push(Anonymous)
  /\ sym' = Append(sym, NewSymbol(Anonymous, top.type, 0, 0))
  /\ Goto([top EXCEPT !.stage = "complete", !.type = Type("array", Fresh)])

\* parameter_type_list up to its loop.
OpenParams ==
  /\ Decl({"named"})
  /\ Enter(Frame("params", "params", 0, 0))
  /\ NoSymbol

\* One parameter: *plast = s, plast = &s->next.
Parameter ==
  /\ Decl({"named", "complete"}) /\ top.where = "param"
  /\ LET list  == parse[Len(parse) - 1]
         pushed == Append(sym, NewSymbol(V("param", top.word), top.type, 0, 0))
     IN /\ sym_push(V("param", top.word))
        /\ sym' = IF list.tail = 0 THEN pushed
                  ELSE [pushed EXCEPT ![list.tail].next = Fresh]
        /\ parse' = Append(ButLast(ButLast(parse)),
                           [list EXCEPT !.s = IF @ = 0 THEN Fresh ELSE @,
                                        !.tail = Fresh])

LastParameter  == top.tail   \* mutant: s->next = *plast
FirstParameter == top.s
\* The end of parameter_type_list: the return type gets a symbol.
CloseParams ==
  /\ At("params")
  /\ LET decl == parse[Len(parse) - 1]
     IN /\ sym_push(Anonymous)
        /\ sym' = Append(sym, NewSymbol(Anonymous, decl.type, 0, FirstParameter))
        /\ parse' = Append(ButLast(ButLast(parse)),
                           [decl EXCEPT !.stage = "complete",
                                        !.type = Type("func", Fresh)])

\* external_declatation: a variable (var_sym_put) or a function declaration.
\* A name the search finds is not pushed again, with or without a warning,
\* except a local variable, which always is.
Declared(w) == sym_search(w) # 0
DeclareName ==
  /\ Decl({"named", "complete"}) /\ top.where \in {"global", "local"}
  /\ IF Declared(top.word) /\ (top.where = "global" \/ top.type.t = "func")
     THEN NoSymbol
     ELSE /\ sym_push(V("ident", top.word))
          /\ sym' = Append(sym, NewSymbol(V("ident", top.word), top.type, 0, 0))
  /\ Goto([top EXCEPT !.stage = "done"])

\* A comma: the next declarator starts from the type specifier again.
Comma ==
  /\ Decl({"done"}) /\ "list" \in Forms
  /\ Goto([top EXCEPT !.stage = "pointer", !.type = top.base])
  /\ NoSymbol

\* The semicolon of a declaration, the ')' of sizeof.
EndDeclaration ==
  /\ \/ Decl({"done"})
     \/ /\ Decl({"tagged", "specified"}) /\ top.where = "sizeof"
     \/ /\ Decl({"tagged", "specified"}) /\ top.where \in {"global", "local"}
        /\ top.base.t = "struct"
  /\ Leave
  /\ NoSymbol

-----------------------------------------------------------------------------
(* Functions and blocks.                                                   *)

\* external_declatation at a '{': that the function is nested, or that the name
\* stands for something else, is only a warning.
DefineFunction ==
  /\ Decl({"complete"}) /\ top.type.t = "func"
  /\ \/ top.where = "global"
     \/ top.where = "local" /\ NestedFunctions
  /\ IF Declared(top.word)
     THEN /\ sym' = [sym EXCEPT ![sym_search(top.word)].type = top.type]
          /\ Goto(Frame("func", "enter", sym_search(top.word), 0))
          /\ UNCHANGED <<global_sym_stack, local_sym_stack, head>>
     ELSE /\ sym' = Append(sym, NewSymbol(V("ident", top.word), top.type, 0, 0))
          /\ func_sym_push(top.word)
          /\ Goto(Frame("func", "enter", Fresh, 0))

\* funcbody: the anonymous symbol under the locals, and gen_prolog's start.
EnterBody ==
  /\ At("func") /\ top.stage = "enter"
  /\ Len(sym) < MaxSyms
  /\ PushLocal
  /\ sym' = Append(sym, NewSymbol(Anonymous, int_type, 0, 0))
  /\ Goto([top EXCEPT !.stage = "prolog",
                      !.tail = sym[sym[top.s].type.ref].next])
  /\ UNCHANGED head

\* gen_prolog: one parameter becomes a local variable.
Prolog ==
  /\ At("func") /\ top.stage = "prolog" /\ top.tail # 0
  /\ LET v == V("ident", sym[top.tail].v.word)
     IN /\ sym_push(v)
        /\ sym' = Append(sym, NewSymbol(v, sym[top.tail].type, 0, 0))
  /\ Goto([top EXCEPT !.tail = sym[top.tail].next])

\* compound_statement up to its loops.
BlockFrame == Frame("block", "declarations", Last(local_sym_stack), 0)
FuncBlock ==
  /\ At("func") /\ top.stage = "prolog" /\ top.tail = 0
  /\ Len(parse) < MaxFrames
  /\ parse' = Append(Append(ButLast(parse), [top EXCEPT !.stage = "body"]),
                     BlockFrame)
  /\ NoSymbol
OpenBlock ==
  /\ At("block")
  /\ local_sym_stack # <<>>
  /\ EnterExpr(BlockFrame)
  /\ NoSymbol

\* The end of compound_statement and of funcbody: sym_pop(local_sym_stack, s).
PopAll(s) == Goto(Frame("pop", "", 0, 0)) /\ NoSymbol   \* mutant: every block
PopTo(s) == Goto(Frame("pop", "", s, 0)) /\ NoSymbol
CloseBlock == At("block") /\ PopTo(top.s)
EndFunction == At("func") /\ top.stage = "body" /\ PopTo(0)

Nothing(n)    == 0   \* mutant: the chain ends where it was cut
StillThere(n) == n   \* mutant: the freed symbol stays hooked
Unhooked(n)   == sym[n].prev
\* sym_pop: one turn of its loop, which also ends when the stack is empty.
sym_pop ==
  /\ At("pop") /\ local_sym_stack # <<>>
  /\ LET n == Last(local_sym_stack)
     IN \/ /\ n = top.s
           /\ Leave
           /\ NoSymbol
        \/ /\ n # top.s
           /\ head' = IF OnChain(sym[n].v)
                      THEN [head EXCEPT ![NameOf(sym[n].v)] = Unhooked(n)]
                      ELSE head
           /\ local_sym_stack' = ButLast(local_sym_stack)
           /\ IF Len(local_sym_stack) = 1 THEN Leave ELSE UNCHANGED parse
           /\ UNCHANGED <<sym, global_sym_stack>>

\* primary_expression of a name that is not declared: it becomes a function of
\* the default type, whatever token follows.
Undeclared(w) ==
  /\ InExpression
  /\ ~ Declared(w)
  /\ func_sym_push(w)
  /\ sym' = Append(sym, NewSymbol(V("ident", w), default_func_type, 0, 0))
  /\ Goto(Statement(top))

\* A string or an & in an expression: mk_pointer.
PointerInExpression ==
  /\ InExpression /\ "pointer" \in Forms
  /\ sym_push(Anonymous)
  /\ sym' = Append(sym, NewSymbol(Anonymous, int_type, -1, 0))
  /\ Goto(Statement(top))

-----------------------------------------------------------------------------
Next ==
  \/ BasicType
  \/ \E w \in Words : StructName(w) \/ Identifier(w) \/ Undeclared(w)
  \/ OpenStruct \/ Member \/ CloseStruct
  \/ Pointer \/ Array \/ OpenParams \/ Parameter \/ CloseParams
  \/ DeclareName \/ Comma \/ EndDeclaration
  \/ DefineFunction \/ EnterBody \/ Prolog \/ FuncBlock \/ EndFunction
  \/ OpenBlock \/ CloseBlock \/ sym_pop
  \/ PointerInExpression

Spec == Init /\ [][Next]_vars

-----------------------------------------------------------------------------
(* Properties.                                                             *)

Members(stack) == {stack[i] : i \in 1..Len(stack)}
Global  == Members(global_sym_stack)
Local   == Members(local_sym_stack)
Live    == Global \cup Local
Popping == At("pop")

Types == [t : {"int", "struct", "ptr", "array", "func"}, ref : Nat]
Symbol ==
  [v : [kind : {"ident", "tag", "member", "param", "anom"}, word : AllWords],
   type : Types, c : {-1, 0}, next : Nat, prev : Nat]
Activation ==
  [at : {"decl", "struct", "params", "func", "block", "pop"},
   stage : {"", "tagged", "specified", "pointer", "named", "complete", "done",
            "members", "params", "enter", "prolog", "body",
            "declarations", "statements"},
   where : {"", "global", "local", "member", "param", "sizeof"},
   base : Types, type : Types, word : AllWords, s : Nat, tail : Nat]

Increasing(stack) ==
  \A i, j \in 1..Len(stack) : i < j => stack[i] < stack[j]

\* A type of a function has a symbol, and no type leads beyond symbol n.
Resolved(type, n) == type.ref <= n /\ (type.t = "func" => type.ref # 0)

\* Types: the stacks hold symbols in the order they were created, each on one
\* stack, and heads, symbols and frames refer to symbols.
TypeOK ==
  /\ sym \in Seq(Symbol) /\ Len(sym) >= 3
  /\ \A i \in 1..Len(sym) : /\ sym[i].next <= Len(sym)
                            /\ Resolved(sym[i].type, Len(sym))
  /\ global_sym_stack \in Seq(1..Len(sym)) /\ Increasing(global_sym_stack)
  /\ local_sym_stack \in Seq(1..Len(sym)) /\ Increasing(local_sym_stack)
  /\ Global \cap Local = {}
  /\ head \in [Names -> 0..Len(sym)]
  /\ parse \in Seq(Activation)
  /\ \A i \in 1..Len(parse) :
       /\ parse[i].s <= Len(sym) /\ parse[i].tail <= Len(sym)
       /\ Resolved(parse[i].type, Len(sym)) /\ Resolved(parse[i].base, Len(sym))

\* The chain of every name (TKWord.sym_identifier or sym_struct, then
\* prev_tok) is exactly the existing symbols with that name, the newest first.
\* A lookup therefore finds the innermost declaration, and sym_pop, which
\* unhooks by *ps = s->prev_tok without looking, unhooks the symbol it frees.
Named(n) == {x \in Live : OnChain(sym[x].v) /\ NameOf(sym[x].v) = n}
Newest(x, S) == /\ x \in S \cup {0}
                /\ \A y \in S : y <= x
ChainsThreaded ==
  \A n \in Names :
    LET S == Named(n)
    IN /\ Newest(head[n], S)
       /\ \A x \in S : Newest(sym[x].prev, {y \in S : y < x})

\* "popup symbol until symbol b" (CL_Syntax.h:67): the symbol every open
\* compound_statement and a running sym_pop will stop at is still on the local
\* stack, the symbols of inner blocks above those of outer ones.
HoldsMarker(f) == f.at = "block" \/ (f.at = "pop" /\ f.s # 0)
MarkersKept ==
  /\ \A i \in 1..Len(parse) : HoldsMarker(parse[i]) => parse[i].s \in Local
  /\ \A i, j \in 1..Len(parse) :
       i < j /\ HoldsMarker(parse[i]) /\ HoldsMarker(parse[j])
         => parse[i].s <= parse[j].s

\* The symbol a type refers to exists as long as the symbol or the unfinished
\* declaration that has the type (pointed_type, type_size and gen_prolog follow
\* it without a check).
TypesAlive ==
  /\ \A x \in Live : sym[x].type.ref \in Live \cup {0}
  /\ \A i \in 1..Len(parse) :
       {parse[i].type.ref, parse[i].base.ref} \subseteq Live \cup {0}

\* Outside of a parameter list and of sym_pop, every parameter symbol is on
\* exactly one list: gen_prolog, which starts at the symbol of the function
\* type, misses none and declares none twice.
ParamsListed ==
  ~ Popping /\ (\A i \in 1..Len(parse) : parse[i].at # "params") =>
    \A x \in Live : sym[x].v.kind = "param" =>
      /\ \E y \in Live : sym[y].next = x
      /\ \A y, z \in Live : sym[y].next = x /\ sym[z].next = x => y = z

\* The inductive invariant.  Nesting says which calls the parser's functions are
\* made from: a member is declared in a struct, a parameter in a parameter list
\* of a declarator, and only the innermost call is in gen_prolog or sym_pop.
Nesting ==
  \A i \in 1..Len(parse) :
    LET f == parse[i]
    IN /\ f.at = "decl" /\ f.where = "member" => i > 1 /\ parse[i-1].at = "struct"
       /\ f.at = "decl" /\ f.where = "param"  => i > 1 /\ parse[i-1].at = "params"
       /\ f.at = "params" => i > 1 /\ parse[i-1].at = "decl"
       /\ f.at = "func" /\ i < Len(parse) => f.stage = "body"
       /\ f.at = "func" /\ f.stage = "enter" =>
            f.s # 0 /\ sym[f.s].type.t = "func"
       /\ f.at = "func" /\ f.stage = "prolog" => local_sym_stack # <<>>
       /\ f.at = "pop" => i = Len(parse)

\* Functions are defined at the outermost level.
Outermost(f) == \/ f.at = "decl" /\ f.where = "global"
                \/ f.at = "func"
                \/ f.at = "pop" /\ f.s = 0
NotNested == \A i \in 1..Len(parse) : Outermost(parse[i]) => i = 1

\* A name that is on both stacks was in the file before it was in the function:
\* sym_pop finds the local symbol in front.
LocalsInFront ==
  \A g \in Global, l \in Local :
    OnChain(sym[g].v) /\ OnChain(sym[l].v) /\ NameOf(sym[g].v) = NameOf(sym[l].v)
      => g < l

IInv ==
  /\ TypeOK /\ Nesting /\ ChainsThreaded /\ LocalsInFront
  /\ ~ NestedFunctions => NotNested /\ MarkersKept

\* Why types stay alive, when functions are not nested.  A symbol of the file
\* has a type of the file, a symbol of a function has an older type; a function
\* type leads to an anonymous symbol, and from one of the file to parameters of
\* the file.
Parameters(S) == {x \in S : sym[x].v.kind = "param"}
HasParamList(type) == type.t = "func" => sym[type.ref].v.kind = "anom"
SymbolsAlive ==
  /\ 2 \in Global /\ sym[2].v.kind = "anom"
  /\ \A x \in 1..Len(sym) : HasParamList(sym[x].type)
  /\ \A x \in Live :
       sym[x].type.ref \in {0} \cup Global \cup {y \in Local : x \in Local /\ y < x}
  /\ \A x \in Global : sym[x].v.kind \in {"anom", "param"} =>
       sym[x].next \in {0} \cup Parameters(Global)

\* What a frame refers to exists; the parameters of an open list are on the
\* stack that sym_push uses.
Alive(type) == type.ref \in {0} \cup Live
Innermost   == IF Local = {} THEN Global ELSE Local
FrameAlive(f) ==
  /\ Alive(f.type) /\ HasParamList(f.type)
  /\ Alive(f.base) /\ HasParamList(f.base)
  /\ f.at # "decl" => f.type = int_type /\ f.base = int_type
  /\ f.at = "decl" /\ f.stage = "tagged" =>
       f.base.ref # 0 /\ sym[f.base.ref].v.kind = "tag"
  /\ f.at = "struct" => f.tail # 0 /\ sym[f.tail].v.kind \in {"tag", "member"}
  /\ f.at = "params" => {f.s, f.tail} \subseteq {0} \cup Parameters(Innermost)
  /\ f.at = "func" /\ f.stage = "enter" => f.s \in Global
  /\ f.at = "func" /\ f.stage = "prolog" => f.tail \in {0} \cup Parameters(Global)

\* Blocks are in functions and blocks only, and symbols of a function exist only
\* inside of it, its last sym_pop included.
BlockBelow(i) ==
  parse[i].at \in {"block", "pop"} =>
    \A j \in 1..Len(parse) : j < i => parse[j].at \in {"func", "block"}
FunctionFirst ==
  Local # {} =>
    /\ parse # <<>>
    /\ parse[1].at = "func" \/ (parse[1].at = "pop" /\ parse[1].s = 0)

TypesInv ==
  ~ NestedFunctions =>
    /\ SymbolsAlive
    /\ \A i \in 1..Len(parse) : FrameAlive(parse[i]) /\ BlockBelow(i)
    /\ FunctionFirst

\* Why every parameter is on one list, when functions are not nested.  next leads
\* to a parameter from the one before it or from the symbol of a function type.
Params   == {x \in 1..Len(sym) : sym[x].v.kind = "param"}
OneBefore ==
  \A y \in 1..Len(sym) : sym[y].next \in Params =>
    /\ sym[y].v.kind \in {"anom", "param"}
    /\ \A z \in 1..Len(sym) : sym[z].next = sym[y].next => y = z

\* A list that is open has a first parameter nothing leads to, newer than the
\* blocks around it, and a last one that leads nowhere; no two share them.
OpenList(f) == f.at = "params" /\ f.s # 0
ListOpen(f) ==
  /\ f.at = "params" => (f.s = 0 <=> f.tail = 0)
  /\ OpenList(f) =>
       /\ f.s \in Params /\ \A y \in 1..Len(sym) : sym[y].next # f.s
       /\ f.tail \in Params /\ sym[f.tail].next = 0
       /\ \A j \in 1..Len(parse) : HoldsMarker(parse[j]) => parse[j].s < f.s
ListsApart ==
  \A i, j \in 1..Len(parse) :
    OpenList(parse[i]) /\ OpenList(parse[j])
      /\ (parse[i].s = parse[j].s \/ parse[i].tail = parse[j].tail) => i = j

\* What leads to a parameter stays as long as the parameter: it is in the file,
\* or no block lies between the two.
Stays(x) == Popping => x \in Global \/ x <= top.s
Starts(x) == \E i \in 1..Len(parse) : OpenList(parse[i]) /\ parse[i].s = x
Precedes(y, x) ==
  /\ sym[y].next = x
  /\ y \in Global \/ ( /\ x \in Local
                       /\ \A i \in 1..Len(parse) :
                            HoldsMarker(parse[i]) /\ x <= parse[i].s => y <= parse[i].s )
Listed(x) == Starts(x) \/ \E y \in Live : Precedes(y, x)

ListsInv ==
  ~ NestedFunctions =>
    /\ OneBefore
    /\ \A i \in 1..Len(parse) : ListOpen(parse[i])
    /\ ListsApart
    /\ \A x \in Parameters(Live) : Stays(x) => Listed(x)

\* Why a name is declared in the scope that is open, when functions are not
\* nested: a function has local symbols from the start of funcbody to its end,
\* and a declaration in a block is made while there are some.
InScope(f) ==
  /\ f.at = "func" => (f.stage = "enter" <=> Local = {})
  /\ f.at = "decl" /\ f.where = "local" => Local # {}
ScopesInv == ~ NestedFunctions => \A i \in 1..Len(parse) : InScope(parse[i])

-----------------------------------------------------------------------------
(* The refinement: a block frame is a scope, and so is a function around   *)
(* its block.  While sym_pop runs, what it will free is gone already.      *)
SourceNames == {"ident", "tag"} \X Words
Blocks      == {i \in 1..Len(parse) : parse[i].at = "block"}
InFunction  == \E i \in 1..Len(parse) : parse[i].at = "func" /\ parse[i].stage # "enter"
Staying     == {x \in Live : OnChain(sym[x].v) /\ sym[x].v.word \in Words /\ Stays(x)}
ScopeOf(x)  == IF x \in Global THEN 1
               ELSE 2 + Cardinality({i \in Blocks : parse[i].s < x})
Declarations == {[name |-> NameOf(sym[x].v), depth |-> ScopeOf(x), symbol |-> x] :
                   x \in Staying}
NewestOf(S) == IF S = {} THEN 0 ELSE CHOOSE x \in S : Newest(x, S)

Depth       == 1 + Cardinality(Blocks) + IF InFunction THEN 1 ELSE 0
StayingAs(n) == {x \in Staying : NameOf(sym[x].v) = n}
Found       == [n \in SourceNames |-> IF Popping THEN NewestOf(StayingAs(n)) ELSE head[n]]

Scopes == INSTANCE ScopeRules WITH
  Names <- SourceNames, Symbols <- 1..MaxSyms, ParamsVisible <- ParamsChained,
  depth <- Depth, decls <- Declarations, visible <- Found

\* The table behaves as nested scopes (ScopeRules.tla).
ImplementsScopes == Scopes!Spec
=============================================================================
