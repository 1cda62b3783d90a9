----------------------------- MODULE LuaMeaning -----------------------------
(***************************************************************************)
(* What a Lua program means, without code, stack or upvalues: the syntax   *)
(* tree of a program, its text, and an evaluator that gives every variable *)
(* a cell of its own.  The reference that the parser, the code generator   *)
(* and the virtual machine are compared with.                              *)
(***************************************************************************)
EXTENDS Integers, Sequences, SequencesExt, FiniteSets, TLC

CONSTANT MaxTagLoop   \* the tables that an index may be passed on to

LOCAL Nil     == <<"nil", 0>>
LOCAL Bool(b) == <<"boolean", b>>
LOCAL Num(n)  == <<"number", n>>
LOCAL Str(s)  == <<"string", <<s>>>>

-----------------------------------------------------------------------------
(* Trees.  Expressions: <<"nil">>, <<"true">>, <<"false">>, <<"dots">>,     *)
(* <<"num", n>>, <<"str", s>>, <<"var", x>>, <<"paren", e>>, <<"un", op, e>>,*)
(* <<"bin", op, l, r>>, <<"index", e, key>>, <<"call", f, args>>,           *)
(* <<"method", e, name, args>>, <<"fn", params, dots, body>> and            *)
(* <<"table", fields>>, where a field is <<"item", e>> or <<"field", k, e>>.*)
T(token)   == <<<<token, 0>>>>
Name(x)    == <<<<"name", x>>>>
Comma(rest) == IF rest = <<>> THEN <<>> ELSE T(",")
RECURSIVE Names(_)
Names(xs) == IF xs = <<>> THEN <<>> ELSE Name(Head(xs)) \o Comma(Tail(xs)) \o Names(Tail(xs))

Level(op) == CASE op = "or" -> 1 [] op = "and" -> 2 [] op \in {"==", "~=", "<", "<=", ">", ">="} -> 3
               [] op = ".." -> 4 [] op \in {"+", "-"} -> 5 [] op \in {"*", "%"} -> 6 [] op = "^" -> 8
LevelOf(e) == CASE e[1] = "bin" -> Level(e[2]) [] e[1] = "un" -> 7 [] OTHER -> 9
ToTheRight == {"..", "^"}

RECURSIVE Written(_, _)   \* the rules below, by name
Text(e)       == Written("expression", e)
Texts(es)     == Written("expressions", es)
Fields(fs)    == Written("fields", fs)
Clauses(cs)   == Written("clauses", cs)
BlockText(b)  == Written("block", b)

Within(e, level) == IF LevelOf(e) >= level THEN Text(e) ELSE T("(") \o Text(e) \o T(")")
Prefix(e) == IF e[1] \in {"var", "index", "call", "method", "paren"} THEN Text(e)
             ELSE T("(") \o Text(e) \o T(")")
TextsRule(es) == IF es = <<>> THEN <<>> ELSE Text(Head(es)) \o Comma(Tail(es)) \o Texts(Tail(es))
FieldText(f) == CASE f[1] = "item" -> Text(f[2])
                  [] f[1] = "field" -> T("[") \o Text(f[2]) \o T("]") \o T("=") \o Text(f[3])
                  [] f[1] = "named" -> Name(f[2]) \o T("=") \o Text(f[3])
FieldsRule(fs) == IF fs = <<>> THEN <<>> ELSE FieldText(Head(fs)) \o Comma(Tail(fs)) \o Fields(Tail(fs))
BodyText(fn) ==
  T("(") \o Names(fn[2]) \o (IF fn[3] THEN Comma(fn[2]) ELSE <<>>)
  \o (IF fn[3] THEN T("...") ELSE <<>>) \o T(")") \o BlockText(fn[4]) \o T("end")
TextRule(e) ==
  CASE e[1] \in {"nil", "true", "false"} -> T(e[1])
    [] e[1] = "dots"  -> T("...")
    [] e[1] \in {"num", "str"} -> <<e>>
    [] e[1] = "var"   -> Name(e[2])
    [] e[1] = "paren" -> T("(") \o Text(e[2]) \o T(")")
    [] e[1] = "un"    -> T(e[2]) \o Within(e[3], 7)
    [] e[1] = "bin"   -> LET p == Level(e[2])
                             right == e[2] \in ToTheRight
                         IN  Within(e[3], IF right THEN p + 1 ELSE p) \o T(e[2])
                             \o Within(e[4], IF right THEN p ELSE p + 1)
    [] e[1] = "index" -> IF e[3][1] = "str" THEN Prefix(e[2]) \o T(".") \o Name(e[3][2])
                         ELSE Prefix(e[2]) \o T("[") \o Text(e[3]) \o T("]")
    [] e[1] = "call"  -> Prefix(e[2]) \o T("(") \o Texts(e[3]) \o T(")")
    [] e[1] = "method" -> Prefix(e[2]) \o T(":") \o Name(e[3]) \o T("(") \o Texts(e[4]) \o T(")")
    [] e[1] = "fn"    -> T("function") \o BodyText(e)
    [] e[1] = "table" -> T("{") \o Fields(e[2]) \o T("}")

\* Statements: <<"local", names, es>>, <<"assign", targets, es>>, <<"do", b>>,
\* <<"while", e, b>>, <<"repeat", b, e>>, <<"if", clauses, b>> with clauses <<e, b>>,
\* <<"for", x, es, b>>, <<"in", names, es, b>>, <<"localfn", x, fn>>, <<"function", target, fn>>,
\* <<"methodfn", e, name, fn>>, <<"return", es>>, <<"break">>, and calls.
ClausesRule(cs) ==
  IF cs = <<>> THEN <<>>
  ELSE Text(Head(cs)[1]) \o T("then") \o BlockText(Head(cs)[2])
       \o (IF Len(cs) > 1 THEN T("elseif") ELSE <<>>) \o Clauses(Tail(cs))
StatementText(s) ==
  CASE s[1] = "local"  -> T("local") \o Names(s[2]) \o (IF s[3] = <<>> THEN <<>> ELSE T("=") \o Texts(s[3]))
    [] s[1] = "assign" -> Texts(s[2]) \o T("=") \o Texts(s[3])
    [] s[1] = "do"     -> T("do") \o BlockText(s[2]) \o T("end")
    [] s[1] = "while"  -> T("while") \o Text(s[2]) \o T("do") \o BlockText(s[3]) \o T("end")
    [] s[1] = "repeat" -> T("repeat") \o BlockText(s[2]) \o T("until") \o Text(s[3])
    [] s[1] = "if"     -> T("if") \o Clauses(s[2])
                          \o (IF s[3] = <<>> THEN <<>> ELSE T("else") \o BlockText(s[3])) \o T("end")
    [] s[1] = "for"    -> T("for") \o Name(s[2]) \o T("=") \o Texts(s[3]) \o T("do") \o BlockText(s[4])
                          \o T("end")
    [] s[1] = "in"     -> T("for") \o Names(s[2]) \o T("in") \o Texts(s[3]) \o T("do") \o BlockText(s[4])
                          \o T("end")
    [] s[1] = "localfn"  -> T("local") \o T("function") \o Name(s[2]) \o BodyText(s[3])
    [] s[1] = "function" -> T("function") \o Text(s[2]) \o BodyText(s[3])
    [] s[1] = "methodfn" -> T("function") \o Text(s[2]) \o T(":") \o Name(s[3]) \o BodyText(s[4])
    [] s[1] = "return" -> T("return") \o Texts(s[2])
    [] s[1] = "break"  -> T("break")
    [] OTHER -> Text(s)
BlockRule(b) ==
  IF b = <<>> THEN <<>> ELSE StatementText(Head(b)) \o T(";") \o BlockText(Tail(b))
Written(rule, x) ==
  CASE rule = "expression"  -> TextRule(x)
    [] rule = "expressions" -> TextsRule(x)
    [] rule = "fields"      -> FieldsRule(x)
    [] rule = "clauses"     -> ClausesRule(x)
    [] rule = "block"       -> BlockRule(x)

-----------------------------------------------------------------------------
(* Evaluation.  The store s has the cells of the variables, the tables and *)
(* the functions; err holds an error that nobody has caught, as <<value>>. *)
(* An evaluation gives the store after it and the values.                  *)
Gives(s, vs) == [s |-> s, vs |-> vs]
Drop(vs, n)  == SubSeq(vs, n + 1, Len(vs))
First1(vs)   == IF vs = <<>> THEN Nil ELSE vs[1]
Nth(vs, i)   == IF i <= Len(vs) THEN vs[i] ELSE Nil
Fails(s, v)  == Gives([s EXCEPT !.err = <<v>>], <<>>)
Failed(s)    == s.err # <<>>
Truth(v)     == v \notin {Nil, Bool(FALSE)}
IsFunction(v) == v[1] \in {"function", "host"}
AnError      == Str("error")

RawGet(s, t, k) == LET m == s.tables[t[2]].map IN IF k \in DOMAIN m THEN m[k] ELSE Nil
RawSet(s, t, k, v) ==
  [s EXCEPT !.tables[t[2]].map = IF v = Nil THEN [x \in DOMAIN @ \ {k} |-> @[x]] ELSE (k :> v) @@ @]
NewTable_(s, m) == Gives([s EXCEPT !.tables = Append(@, [map |-> m, meta |-> Nil])],
                         <<<<"table", Len(s.tables) + 1>>>>)
Handler(s, v, e) ==
  IF v[1] # "table" THEN Nil
  ELSE IF s.tables[v[2]].meta = Nil THEN Nil
  ELSE RawGet(s, s.tables[v[2]].meta, <<"string", <<"__" \o e>>>>)
\* The number of items of a table without holes.
Items(s, t) == LET ks == {k \in DOMAIN s.tables[t[2]].map : k[1] = "number" /\ k[2] > 0} IN Cardinality(ks)

\* Variables: x is bound to a new cell that holds v.
Bind(env, s, x, v) ==
  [env |-> [env EXCEPT !.vars = (x :> Len(s.cells) + 1) @@ @], s |-> [s EXCEPT !.cells = Append(@, v)]]
RECURSIVE BindAll(_, _, _, _)
BindAll(env, s, xs, vs) ==
  IF xs = <<>> THEN [env |-> env, s |-> s]
  ELSE LET b == Bind(env, s, Head(xs), First1(vs)) IN BindAll(b.env, b.s, Tail(xs), Drop(vs, 1))

\* The rules below, by name.
RECURSIVE Rule(_, _, _, _)
Eval(e, env, s)     == Rule("Eval", e, env, s)
EvalAll(es, env, s) == Rule("EvalAll", es, env, s)
Apply(s, v, vs)     == Rule("Apply", v, vs, s)
Run(b, env, s)      == Rule("Run", b, env, s)
Exec(st, env, s)    == Rule("Exec", st, env, s)
GetFrom(s, t, k, n)    == Rule("Get", <<t, n>>, k, s)
SetIn(s, t, k, v, n)   == Rule("Set", <<t, k, n>>, v, s)
Get(s, t, k)    == GetFrom(s, t, k, MaxTagLoop)
Set(s, t, k, v) == SetIn(s, t, k, v, MaxTagLoop)   \* the store

GetRule(s, t, k, n) ==
  LET h == Handler(s, t, "index")
      v == RawGet(s, t, k)
  IN  CASE t[1] # "table" \/ n = 0 -> Fails(s, AnError)
        [] t[1] = "table" /\ n # 0 /\ (v # Nil \/ h = Nil) -> Gives(s, <<v>>)
        [] t[1] = "table" /\ n # 0 /\ v = Nil /\ IsFunction(h) ->
             LET r == Apply(s, h, <<t, k>>) IN Gives(r.s, <<First1(r.vs)>>)
        [] OTHER -> GetFrom(s, h, k, n - 1)
SetRule(s, t, k, v, n) ==
  LET h == Handler(s, t, "newindex")
  IN  CASE t[1] # "table" \/ k = Nil \/ n = 0 -> Fails(s, AnError).s
        [] t[1] = "table" /\ k # Nil /\ n # 0 /\ (RawGet(s, t, k) # Nil \/ h = Nil) -> RawSet(s, t, k, v)
        [] t[1] = "table" /\ k # Nil /\ n # 0 /\ RawGet(s, t, k) = Nil /\ IsFunction(h) ->
             Apply(s, h, <<t, k, v>>).s
        [] OTHER -> SetIn(s, h, k, v, n - 1)

\* Calls: a function of the program or of the host.
Guarded(r) ==   \* pcall
  IF Failed(r.s) THEN Gives([r.s EXCEPT !.err = <<>>], <<Bool(FALSE), r.s.err[1]>>)
  ELSE Gives(r.s, <<Bool(TRUE)>> \o r.vs)
HostFn(s, name, vs) ==
  CASE name = "f" -> Gives([s EXCEPT !.out = Append(@, vs)], vs)
    [] name = "error" -> Fails(s, First1(vs))
    [] name = "pcall" -> Guarded(Apply(s, vs[1], Tail(vs)))
    [] name = "setmetatable" -> Gives([s EXCEPT !.tables[vs[1][2]].meta = vs[2]], <<vs[1]>>)
    [] name = "next" -> LET i == Num(vs[2][2] + 1)
                            v == RawGet(s, vs[1], i)
                        IN  Gives(s, IF v = Nil THEN <<>> ELSE <<i, v>>)
ArgOf(s, extra) ==   \* the table arg
  NewTable_(s, [k \in {Num(i) : i \in DOMAIN extra} \cup {Str("n")} |->
                  IF k = Str("n") THEN Num(Len(extra)) ELSE extra[k[2]]])
\* Whether a list of statements has ... in an expression of its own: only as
\* local x = ..., f(...), return ... or {...}, the forms the programs use.
HasDots(es) == \E i \in DOMAIN es : \/ es[i][1] = "dots"
                                    \/ es[i][1] = "call" /\ es[i][3] # <<>> /\ Last(es[i][3])[1] = "dots"
                                    \/ es[i][1] = "table" /\ es[i][2] # <<>> /\ Last(Last(es[i][2]))[1] = "dots"
UsesDots(b) == \E i \in DOMAIN b : \/ b[i][1] = "local" /\ HasDots(b[i][3])
                                   \/ b[i][1] = "return" /\ HasDots(b[i][2])
                                   \/ b[i][1] = "call" /\ HasDots(<<b[i]>>)
ApplyRule(s, v, vs) ==
  CASE Failed(s) -> Gives(s, <<>>)
    [] ~Failed(s) /\ v[1] = "host" -> HostFn(s, v[2], vs)
    [] ~Failed(s) /\ v[1] = "function" ->
         LET f == s.fns[v[2]]
             extra == Drop(vs, Len(f.fn[2]))
             a == ArgOf(s, extra)
             withArg == f.fn[3] /\ ~UsesDots(f.fn[4])
             b == BindAll([f.env EXCEPT !.dots = extra], IF withArg THEN a.s ELSE s,
                          f.fn[2] \o (IF f.fn[3] THEN <<"arg">> ELSE <<>>),
                          [i \in 1 .. Len(f.fn[2]) |-> Nth(vs, i)] \o (IF withArg THEN a.vs ELSE <<>>))
             r == Run(f.fn[4], b.env, b.s)
         IN  Gives(r.s, r.vs)
    [] OTHER -> LET h == Handler(s, v, "call")
                IN  IF IsFunction(h) THEN Apply(s, h, <<v>> \o vs) ELSE Fails(s, AnError)
Arithmetics(op, x, y) == CASE op = "+" -> x + y [] op = "-" -> x - y [] op = "*" -> x * y
                           [] op = "%" -> x % y [] op = "^" -> x ^ y
Events == [op \in {"+", "-", "*", "%", "^"} |->
             CASE op = "+" -> "add" [] op = "-" -> "sub" [] op = "*" -> "mul" [] op = "%" -> "mod"
               [] op = "^" -> "pow"]
EitherHandler(s, x, y, e) == IF Handler(s, x, e) # Nil THEN Handler(s, x, e) ELSE Handler(s, y, e)
Handled(s, h, vs) == IF h = Nil THEN Fails(s, AnError)
                     ELSE LET r == Apply(s, h, vs) IN Gives(r.s, <<First1(r.vs)>>)
AsTruth(r, want) == Gives(r.s, <<Bool(Truth(First1(r.vs)) = want)>>)
EqualTo(s, x, y, want) ==
  LET h == Handler(s, x, "eq")
  IN  IF x = y \/ x[1] # "table" \/ y[1] # "table" \/ h = Nil \/ Handler(s, y, "eq") # h
      THEN Gives(s, <<Bool((x = y) = want)>>)
      ELSE AsTruth(Handled(s, h, <<x, y>>), want)
Shared(s, x, y, e) == IF Handler(s, x, e) = Handler(s, y, e) THEN Handler(s, x, e) ELSE Nil
Smaller(s, x, y, orEqual) ==
  LET h == Shared(s, x, y, IF orEqual THEN "le" ELSE "lt")
      g == Shared(s, x, y, "lt")
  IN  CASE x[1] = "number" /\ y[1] = "number" ->
             Gives(s, <<Bool(x[2] < y[2] \/ (orEqual /\ x[2] = y[2]))>>)
        [] ~(x[1] = "number" /\ y[1] = "number") /\ h # Nil -> AsTruth(Handled(s, h, <<x, y>>), TRUE)
        [] ~(x[1] = "number" /\ y[1] = "number") /\ h = Nil /\ orEqual /\ g # Nil ->
             AsTruth(Handled(s, g, <<y, x>>), FALSE)
        [] OTHER -> Fails(s, AnError)
StringOf(v) == IF v[1] = "number" THEN <<ToString(v[2])>> ELSE v[2]
Binary(s, op, x, y) ==
  CASE Failed(s) -> Gives(s, <<>>)
    [] ~Failed(s) /\ op = ".." ->
         IF {x[1], y[1]} \subseteq {"number", "string"}
         THEN Gives(s, <<<<"string", StringOf(x) \o StringOf(y)>>>>) ELSE Fails(s, AnError)
    [] ~Failed(s) /\ op \in DOMAIN Events ->
         IF x[1] = "number" /\ y[1] = "number" THEN Gives(s, <<Num(Arithmetics(op, x[2], y[2]))>>)
         ELSE Handled(s, EitherHandler(s, x, y, Events[op]), <<x, y>>)
    [] ~Failed(s) /\ op = "==" -> EqualTo(s, x, y, TRUE)
    [] ~Failed(s) /\ op = "~=" -> EqualTo(s, x, y, FALSE)
    [] ~Failed(s) /\ op = "<"  -> Smaller(s, x, y, FALSE)
    [] ~Failed(s) /\ op = "<=" -> Smaller(s, x, y, TRUE)
    [] ~Failed(s) /\ op = ">"  -> Smaller(s, y, x, FALSE)
    [] ~Failed(s) /\ op = ">=" -> Smaller(s, y, x, TRUE)
Unary(s, op, v) ==
  CASE Failed(s) -> Gives(s, <<>>)
    [] ~Failed(s) /\ op = "not" -> Gives(s, <<Bool(~Truth(v))>>)
    [] ~Failed(s) /\ op = "-" /\ v[1] = "number" -> Gives(s, <<Num(0 - v[2])>>)
    [] ~Failed(s) /\ op = "-" /\ v[1] # "number" -> Handled(s, Handler(s, v, "unm"), <<v, v>>)
    [] ~Failed(s) /\ op = "#" ->
         IF v[1] = "table" THEN Gives(s, <<Num(Items(s, v))>>) ELSE Fails(s, AnError)

EvalAllRule(es, env, s) ==   \* only the last expression gives all its values
  IF es = <<>> THEN Gives(s, <<>>)
  ELSE IF Len(es) = 1 THEN Eval(es[1], env, s)
  ELSE LET r == Eval(Head(es), env, s)
           q == EvalAll(Tail(es), env, r.s)
       IN  Gives(q.s, <<First1(r.vs)>> \o q.vs)
RECURSIVE Fill(_, _, _, _, _)
Fill(s, t, fields, env, n) ==   \* n items are in the table
  IF fields = <<>> \/ Failed(s) THEN s
  ELSE LET f == Head(fields)
           k == Eval(f[2], env, s)
           v == IF f[1] = "item" THEN Eval(f[2], env, s)
                ELSE Eval(f[3], env, IF f[1] = "named" THEN s ELSE k.s)
           all == f[1] = "item" /\ Len(fields) = 1
           new == IF all THEN {i \in DOMAIN v.vs : v.vs[i] # Nil} ELSE {}
           many == [v.s EXCEPT !.tables[t[2]].map =
                      [j \in {Num(n + i) : i \in new} |-> v.vs[j[2] - n]] @@ @]
       IN  CASE Failed(v.s) -> v.s
             [] ~Failed(v.s) /\ all -> many
             [] ~Failed(v.s) /\ f[1] = "item" /\ ~all ->
                  Fill(RawSet(v.s, t, Num(n + 1), First1(v.vs)), t, Tail(fields), env, n + 1)
             [] OTHER -> Fill(RawSet(v.s, t, IF f[1] = "named" THEN Str(f[2]) ELSE First1(k.vs),
                                     First1(v.vs)), t, Tail(fields), env, n)
Called(r, f, args, env) ==
  LET a == EvalAll(args, env, r.s) IN IF Failed(a.s) THEN Gives(a.s, <<>>) ELSE Apply(a.s, f, a.vs)
ReadVar(x, env, s) ==
  IF x \in DOMAIN env.vars THEN Gives(s, <<s.cells[env.vars[x]]>>)
  ELSE Get(s, <<"table", 1>>, Str(x))
EvalRule(e, env, s) ==
  CASE Failed(s) -> Gives(s, <<>>)
    [] ~Failed(s) /\ e[1] = "nil"   -> Gives(s, <<Nil>>)
    [] ~Failed(s) /\ e[1] = "true"  -> Gives(s, <<Bool(TRUE)>>)
    [] ~Failed(s) /\ e[1] = "false" -> Gives(s, <<Bool(FALSE)>>)
    [] ~Failed(s) /\ e[1] = "num"   -> Gives(s, <<Num(e[2])>>)
    [] ~Failed(s) /\ e[1] = "str"   -> Gives(s, <<Str(e[2])>>)
    [] ~Failed(s) /\ e[1] = "dots"  -> Gives(s, env.dots)
    [] ~Failed(s) /\ e[1] = "var"   -> ReadVar(e[2], env, s)
    [] ~Failed(s) /\ e[1] = "paren" -> LET r == Eval(e[2], env, s) IN Gives(r.s, <<First1(r.vs)>>)
    [] ~Failed(s) /\ e[1] = "un"    -> LET r == Eval(e[3], env, s) IN Unary(r.s, e[2], First1(r.vs))
    [] ~Failed(s) /\ e[1] = "bin"   ->
         LET l == Eval(e[3], env, s)
             r == Eval(e[4], env, l.s)
         IN  CASE Failed(l.s) -> l
               [] ~Failed(l.s) /\ e[2] = "and" ->
                    IF Truth(First1(l.vs)) THEN Gives(r.s, <<First1(r.vs)>>) ELSE Gives(l.s, <<First1(l.vs)>>)
               [] ~Failed(l.s) /\ e[2] = "or" ->
                    IF Truth(First1(l.vs)) THEN Gives(l.s, <<First1(l.vs)>>) ELSE Gives(r.s, <<First1(r.vs)>>)
               [] OTHER -> Binary(r.s, e[2], First1(l.vs), First1(r.vs))
    [] ~Failed(s) /\ e[1] = "index" ->
         LET t == Eval(e[2], env, s)
             k == Eval(e[3], env, t.s)
         IN  IF Failed(k.s) THEN k ELSE Get(k.s, First1(t.vs), First1(k.vs))
    [] ~Failed(s) /\ e[1] = "call" ->
         LET f == Eval(e[2], env, s) IN Called(f, First1(f.vs), e[3], env)
    [] ~Failed(s) /\ e[1] = "method" ->
         LET o == Eval(e[2], env, s)
             f == Get(o.s, First1(o.vs), Str(e[3]))
             a == EvalAll(e[4], env, f.s)
         IN  IF Failed(o.s) \/ Failed(f.s) \/ Failed(a.s) THEN a
             ELSE Apply(a.s, First1(f.vs), <<First1(o.vs)>> \o a.vs)
    [] ~Failed(s) /\ e[1] = "fn" ->
         Gives([s EXCEPT !.fns = Append(@, [fn |-> e, env |-> env])], <<<<"function", Len(s.fns) + 1>>>>)
    [] ~Failed(s) /\ e[1] = "table" ->
         LET t == NewTable_(s, <<>>) IN Gives(Fill(t.s, t.vs[1], e[2], env, 0), t.vs)

-----------------------------------------------------------------------------
(* Statements: how control leaves them, the values of a return, and the    *)
(* environment of the statements that follow.                              *)
Leaves(s, env, how, vs) == [s |-> s, env |-> env, how |-> how, vs |-> vs]
Goes(s, env) == Leaves(s, env, IF Failed(s) THEN "error" ELSE "on", <<>>)

\* The targets of an assignment: their tables and keys are evaluated first.
RECURSIVE Places(_, _, _), StoreAll(_, _, _, _)
Places(ts, env, s) ==
  IF ts = <<>> THEN Gives(s, <<>>)
  ELSE LET t == Head(ts)
           o == IF t[1] = "index" THEN Eval(t[2], env, s) ELSE Gives(s, <<>>)
           k == IF t[1] = "index" THEN Eval(t[3], env, o.s) ELSE o
           q == Places(Tail(ts), env, k.s)
       IN  Gives(q.s, <<IF t[1] = "index" THEN <<"slot", First1(o.vs), First1(k.vs)>>
                        ELSE <<"name", t[2]>>>> \o q.vs)
Store(s, env, place, v) ==
  CASE Failed(s) -> s
    [] ~Failed(s) /\ place[1] = "slot" -> Set(s, place[2], place[3], v)
    [] ~Failed(s) /\ place[1] = "name" /\ place[2] \in DOMAIN env.vars ->
         [s EXCEPT !.cells[env.vars[place[2]]] = v]
    [] OTHER -> Set(s, <<"table", 1>>, Str(place[2]), v)
StoreAll(s, env, places, vs) ==
  IF places = <<>> THEN s
  ELSE Store(StoreAll(s, env, Tail(places), Drop(vs, 1)), env, Head(places), First1(vs))

RECURSIVE While(_, _, _), Repeat(_, _, _), For(_, _, _, _, _, _), Each(_, _, _, _, _, _),
          Choose1(_, _, _, _)
\* A loop goes on after its body, unless a break or a return ends it.
After(r, env, again) ==
  CASE r.how = "on" -> again
    [] r.how = "break" -> Goes(r.s, env)
    [] OTHER -> Leaves(r.s, env, r.how, r.vs)
While(st, env, s) ==
  LET c == Eval(st[2], env, s)
      r == Run(st[3], env, c.s)
  IN  IF Failed(c.s) \/ ~Truth(First1(c.vs)) THEN Goes(c.s, env)
      ELSE After(r, env, While(st, env, r.s))
Repeat(st, env, s) ==
  LET r == Run(st[2], env, s)
      c == Eval(st[3], r.env, r.s)
  IN  After(r, env, IF Failed(c.s) \/ Truth(First1(c.vs)) THEN Goes(c.s, env) ELSE Repeat(st, env, c.s))
For(st, env, s, i, limit, step) ==
  LET b == Bind(env, s, st[2], Num(i))
      r == Run(st[4], b.env, b.s)
  IN  IF (step > 0 /\ i > limit) \/ (step <= 0 /\ i < limit) THEN Goes(s, env)
      ELSE After(r, env, For(st, env, r.s, i + step, limit, step))
Each(st, env, s, f, state, control) ==
  LET v == Apply(s, f, <<state, control>>)
      b == BindAll(env, v.s, st[2], [i \in DOMAIN st[2] |-> Nth(v.vs, i)])
      r == Run(st[4], b.env, b.s)
  IN  IF Failed(v.s) \/ First1(v.vs) = Nil THEN Goes(v.s, env)
      ELSE After(r, env, Each(st, env, r.s, f, state, First1(v.vs)))
Choose1(clauses, otherwise, env, s) ==
  IF clauses = <<>> THEN Run(otherwise, env, s)
  ELSE LET c == Eval(Head(clauses)[1], env, s)
       IN  CASE Failed(c.s) -> Goes(c.s, env)
             [] ~Failed(c.s) /\ Truth(First1(c.vs)) -> Run(Head(clauses)[2], env, c.s)
             [] OTHER -> Choose1(Tail(clauses), otherwise, env, c.s)
ExecRule(st, env, s) ==
  CASE st[1] = "local" -> LET r == EvalAll(st[3], env, s)
                              b == BindAll(env, r.s, st[2], r.vs)
                          IN  Goes(b.s, b.env)
    [] st[1] = "assign" -> LET p == Places(st[2], env, s)
                               r == EvalAll(st[3], env, p.s)
                           IN  Goes(IF Failed(r.s) THEN r.s ELSE StoreAll(r.s, env, p.vs, r.vs), env)
    [] st[1] = "do" -> LET r == Run(st[2], env, s) IN Leaves(r.s, env, r.how, r.vs)
    [] st[1] = "while"  -> While(st, env, s)
    [] st[1] = "repeat" -> Repeat(st, env, s)
    [] st[1] = "if" -> LET r == Choose1(st[2], st[3], env, s) IN Leaves(r.s, env, r.how, r.vs)
    [] st[1] = "for" ->
         LET r == EvalAll(st[3], env, s)
             step == IF Len(st[3]) = 3 THEN Nth(r.vs, 3) ELSE Num(1)
         IN  CASE Failed(r.s) -> Goes(r.s, env)
               [] ~Failed(r.s) /\ {Nth(r.vs, 1)[1], Nth(r.vs, 2)[1], step[1]} # {"number"} ->
                    Goes(Fails(r.s, AnError).s, env)
               [] OTHER -> For(st, env, r.s, r.vs[1][2], r.vs[2][2], step[2])
    [] st[1] = "in" -> LET r == EvalAll(st[3], env, s)
                       IN  IF Failed(r.s) THEN Goes(r.s, env)
                           ELSE Each(st, env, r.s, Nth(r.vs, 1), Nth(r.vs, 2), Nth(r.vs, 3))
    [] st[1] = "localfn" -> LET b == Bind(env, s, st[2], Nil)
                                r == Eval(st[3], b.env, b.s)
                            IN  Goes([r.s EXCEPT !.cells[b.env.vars[st[2]]] = r.vs[1]], b.env)
    [] st[1] = "function" -> LET p == Places(<<st[2]>>, env, s)
                                 r == Eval(st[3], env, p.s)
                             IN  Goes(StoreAll(r.s, env, p.vs, r.vs), env)
    [] st[1] = "methodfn" ->
         Exec(<<"function", <<"index", st[2], <<"str", st[3]>>>>,
                <<"fn", <<"self">> \o st[4][2], st[4][3], st[4][4]>>>>, env, s)
    [] st[1] = "return" -> LET r == EvalAll(st[2], env, s)
                           IN  IF Failed(r.s) THEN Goes(r.s, env) ELSE Leaves(r.s, env, "return", r.vs)
    [] st[1] = "break" -> Leaves(s, env, "break", <<>>)
    [] OTHER -> Goes(Eval(st, env, s).s, env)
RunRule(b, env, s) ==
  IF b = <<>> THEN Goes(s, env)
  ELSE LET r == Exec(Head(b), env, s) IN IF r.how = "on" THEN Run(Tail(b), r.env, r.s) ELSE r

Rule(name, x, y, s) ==
  CASE name = "Eval"    -> EvalRule(x, y, s)
    [] name = "EvalAll" -> EvalAllRule(x, y, s)
    [] name = "Apply"   -> ApplyRule(s, x, y)
    [] name = "Run"     -> RunRule(x, y, s)
    [] name = "Exec"    -> ExecRule(x, y, s)
    [] name = "Get"     -> GetRule(s, x[1], y, x[2])
    [] name = "Set"     -> SetRule(s, x[1], x[2], y, x[3])

\* What the host sees of a program: the arguments of its calls of f, and how it ends.
Hosts == {"f", "error", "setmetatable", "next", "pcall"}
Report(r) == [out |-> r.s.out, status |-> IF Failed(r.s) THEN "error" ELSE "done", results |-> r.vs]
Seen(b) ==
  Report(Run(b, [vars |-> <<>>, dots |-> <<>>],
             [cells |-> <<>>, fns |-> <<>>, out |-> <<>>, err |-> <<>>,
              tables |-> <<[map |-> [k \in {Str(h) : h \in Hosts} |-> <<"host", k[2][1]>>],
                            meta |-> Nil]>>]))
=============================================================================
