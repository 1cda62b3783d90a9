------------------------------ MODULE MCLuaVM ------------------------------
(***************************************************************************)
(* Programs for the model checker, as syntax trees: they are printed, read *)
(* by the model of the parser, run by the model of the machine, and        *)
(* evaluated by LuaMeaning.  Each family crosses the forms that meet in    *)
(* one part of the compiler.                                               *)
(***************************************************************************)
EXTENDS LuaVM
M == INSTANCE LuaMeaning

X(name)       == <<"var", name>>
N(n)          == <<"num", n>>
NilE          == <<"nil">>
Op(op, l, r)  == <<"bin", op, l, r>>
Un(op, e)     == <<"un", op, e>>
Named(e, k)   == <<"index", e, <<"str", k>>>>
At(e, k)      == <<"index", e, k>>
Apply(e, es)  == <<"call", e, es>>
F(es)         == Apply(X("f"), es)              \* the host sees the values
Fn(ps, b)     == <<"fn", ps, FALSE, b>>
Thunk(b)      == Fn(<<>>, b)
Local(x, e)   == <<"local", <<x>>, <<e>>>>
Set(x, e)     == <<"assign", <<x>>, <<e>>>>
Ret(es)       == <<"return", es>>
If(e, b)      == <<"if", <<<<e, b>>>>, <<>>>>
Break         == <<"break">>
Tab           == <<"table", <<>>>>
PCall(es)     == Apply(X("pcall"), es)

Pairs(xs, ys, G(_, _)) ==
  [i \in 1 .. Len(xs) * Len(ys) |->
     G(xs[(i - 1) \div Len(ys) + 1], ys[((i - 1) % Len(ys)) + 1])]
Map(xs, G(_)) == [i \in DOMAIN xs |-> G(xs[i])]

-----------------------------------------------------------------------------
(* Logic: a condition as a value, in a test, in a loop and as a result.    *)
A == X("a")
B == X("b")
Atoms == << A, <<"true">>, Un("not", B), Op("==", A, B), Op("~=", B, N(1)), F(<<B, A>>) >>
Few   == << A, B, Op("==", A, N(1)), NilE >>
Logical(l, r) == << Op("and", l, r), Op("or", l, r) >>
Joined(xs, ys) == FlattenSeq(Pairs(xs, ys, Logical))
Orders == << Op("<", A, B), Op("<=", A, N(1)), Op(">", N(2), B), Op(">=", A, B),
             Op("==", Op("+", A, N(1)), B) >>
Negations(es) == Map(es, LAMBDA e : Un("not", e))
Conditions ==
  Atoms \o Joined(Atoms, Atoms) \o Joined(Joined(Few, Few), Few) \o Joined(Few, Joined(Few, Few))
  \o Negations(Joined(Atoms, Few)) \o Joined(Negations(Joined(Few, Few)), <<A>>)
Uses(e) ==
  << Local("c", e), F(<<X("c"), e, Un("not", e)>>),
     <<"if", <<<<e, <<F(<<N(1)>>)>>>>>>, <<F(<<N(2)>>)>>>>,
     <<"while", e, <<F(<<N(3)>>), Break>>>>,
     Ret(<<e>>) >>
Tried(e, inputs) ==
  << <<"localfn", "g", Fn(<<"a", "b">>, Uses(e))>> >>
  \o Map(inputs, LAMBDA in : F(<<Apply(X("g"), in)>>))
LogicPrograms ==
  Map(Conditions, LAMBDA e :
        Tried(e, << <<NilE, NilE>>, <<<<"false">>, N(1)>>, <<N(1), NilE>>, <<N(1), N(1)>> >>))
  \o Map(Orders \o Joined(Orders, Orders) \o Negations(Joined(Orders, Orders)), LAMBDA e :
        Tried(e, << <<N(1), N(2)>>, <<N(2), N(1)>>, <<N(1), N(1)>> >>))

-----------------------------------------------------------------------------
(* Arithmetic: priorities, folding and operand order.                      *)
Ops == << "+", "-", "*", "%", "^", ".." >>
Shapes(x, y, z) == FlattenSeq(Pairs(Ops, Ops, LAMBDA p, q :
  << Op(q, Op(p, x, y), z), Op(p, x, Op(q, y, z)) >>))
\* A string is no number here.
NoStrings(e) == LET ops == {e[2]} \cup {s[2] : s \in {t \in {e[3], e[4]} : t[1] = "bin"}}
                IN  ".." \in ops => ops = {".."} \/ e[2] = ".."
Sums == SelectSeq(Shapes(A, N(3), B) \o Shapes(N(2), N(3), N(2)), NoStrings)
ArithmeticPrograms ==
  Map(Sums, LAMBDA e :
    << <<"local", <<"a", "b">>, <<N(2), N(2)>>>>, Ret(<<e, Un("-", A), Un("-", Un("-", N(2))),
       Op("^", Un("-", A), N(2)), Un("-", Op("^", A, N(2))), Un("#", <<"table", <<<<"item", e>>>>>>)>>) >>)

-----------------------------------------------------------------------------
(* Assignments to several targets, when the targets depend on each other   *)
(* and the variables are locals, upvalues or globals.                      *)
I_ == X("i")
T_ == X("t")
Places == << I_, T_, At(T_, I_), At(T_, N(1)), Named(T_, "x") >>
Sources == << <<N(2), Tab>>, <<Tab, N(2)>>, <<F(<<N(2), Tab>>)>>, <<N(2)>>, <<I_, T_, N(9)>>,
              <<At(T_, I_), I_>> >>
Show == F(<<I_, At(T_, N(1)), At(T_, N(2)), Named(T_, "x")>>)
Start == <<"table", <<<<"item", N(5)>>, <<"item", N(6)>>>>>>
Assign(targets, es) ==
  LET st == <<"assign", targets, es>>
      init == << N(1), Start >>
  IN  << << <<"local", <<"i", "t">>, init>>, st, Show >>,
         << <<"local", <<"i", "t">>, init>>, <<"localfn", "g", Thunk(<<st>>)>>, Apply(X("g"), <<>>), Show >>,
         << <<"assign", <<I_, T_>>, init>>, st, Show >> >>
AssignPrograms ==
  FlattenSeq(Pairs(Pairs(Places, Places, LAMBDA p, q : <<p, q>>)
                     \o << <<I_>>, <<I_, At(T_, I_), T_>>, <<At(T_, I_), I_, At(T_, I_)>> >>,
                   Sources, Assign))

-----------------------------------------------------------------------------
(* Closures made in a loop, and the ways out of the loop.                  *)
KAt(i) == At(X("k"), i)
Keep(x) == Set(KAt(Op("+", Un("#", X("k")), N(1))),
               Thunk(<<Set(X(x), Op("+", X(x), N(1))), Ret(<<X(x)>>)>>))
Bodies == << << Local("x", I_), Keep("x") >>,
             << Keep("i") >>,
             << <<"do", <<Local("x", I_), Keep("x")>>>>, Local("y", N(7)), F(<<X("y")>>) >>,
             << Local("x", I_), Keep("x"), Keep("x"), Local("y", Op("*", X("x"), N(3))), Keep("y") >> >>
Exits == << <<>>,
            << If(Op("==", I_, N(2)), <<Break>>) >>,
            << <<"do", <<Local("z", I_), Keep("z"), If(Op("==", X("z"), N(2)), <<Break>>)>>>> >>,
            << If(Op("==", I_, N(2)), <<Ret(<<I_>>)>>) >>,
            << If(Op("==", I_, N(2)), <<Apply(X("error"), <<N(9)>>)>>) >>,
            << If(Op("==", I_, N(2)), <<Ret(<<F(<<I_>>)>>)>>) >> >>
Loops(b) ==
  LET Count == Set(X("n"), Op("+", X("n"), N(1)))
  IN  << << <<"for", "i", <<N(1), N(3)>>, b>> >>,
         << <<"for", "i", <<N(3), N(1), Un("-", N(1))>>, b>> >>,
         << <<"in", <<"_", "i">>, <<X("next"), Start, N(0)>>, b>> >>,
         << Local("n", N(0)),
            <<"while", Op("<", X("n"), N(3)), <<Count, Local("i", X("n"))>> \o b>> >>,
         << Local("n", N(0)),
            <<"repeat", <<Count, Local("i", X("n"))>> \o b, Op(">=", I_, N(3))>> >> >>
InFunction(loop) ==
  << Local("k", Tab),
     F(<<PCall(<<Thunk(loop \o <<Ret(<<N(4)>>)>>)>>)>>),
     <<"in", <<"_", "h">>, <<X("next"), X("k"), N(0)>>, <<F(<<Apply(X("h"), <<>>), Apply(X("h"), <<>>)>>)>>>> >>
ClosurePrograms ==
  Map(FlattenSeq(Pairs(Bodies, Exits, LAMBDA b, e : Loops(b \o e))), InFunction)

-----------------------------------------------------------------------------
(* Tables, arguments and results: the last expression of a list gives all  *)
(* its values, and a constructor stores its items in blocks.               *)
Dots == <<"dots">>
Item(e) == <<"item", e>>
Fields_ == << Item(N(7)), <<"named", "x", N(8)>>, <<"field", N(8), N(9)>>, Item(F(<<N(4), N(5)>>)),
              Item(Dots), Item(Op("or", X("p"), N(3))) >>
OneMore(fs, f) == Append(fs, f)
Lists == Map(Fields_, LAMBDA f : <<f>>)
Lists2 == Pairs(Lists, Fields_, OneMore)
Long == << Item(N(1)), Item(N(2)), Item(N(3)), <<"named", "x", N(8)>>, Item(N(4)), Item(N(5)) >>
Constructors == << <<>> >> \o Lists \o Lists2 \o Pairs(Lists2, Fields_, OneMore)
                \o Map(Fields_, LAMBDA f : Append(Long, f)) \o Map(Fields_, LAMBDA f : Long \o <<f, f>>)
Vararg(ps, b) == <<"fn", ps, TRUE, b>>
TablePrograms ==
  Map(Constructors, LAMBDA fs :
    << <<"localfn", "g", Vararg(<<"p">>, << Local("t", <<"table", fs>>),
         Ret(<<At(T_, N(1)), At(T_, N(2)), At(T_, N(3)), At(T_, N(5)), At(T_, N(8)), Named(T_, "x")>>) >>)>>,
       F(<<Apply(X("g"), <<N(6), N(1), N(2)>>)>>), F(<<Apply(X("g"), <<>>)>>) >>)

ArgLists == << <<>>, <<N(1)>>, <<N(1), N(2), N(3)>>, <<F(<<N(1), N(2)>>)>>, <<N(7), F(<<N(1), N(2)>>)>>,
               <<F(<<N(1), N(2)>>), N(7)>>, <<<<"paren", F(<<N(1), N(2)>>)>>>> >>
Last3 == F(<<X("p"), X("q")>>)
Functions_ ==
  << Vararg(<<"p">>, <<Ret(<<Dots>>)>>), Vararg(<<"p", "q">>, <<Ret(<<X("p"), Dots>>)>>),
     Vararg(<<>>, <<<<"local", <<"p", "q">>, <<Dots>>>>, Ret(<<Last3>>)>>),
     Vararg(<<"p">>, <<Ret(<<Named(X("arg"), "n"), At(X("arg"), N(1)), X("p")>>)>>),
     Vararg(<<>>, <<Ret(<<F(<<N(0), Dots>>)>>)>>),
     Fn(<<"p", "q">>, <<Ret(<<X("q"), X("p")>>)>>),
     Fn(<<"p", "q">>, <<Local("r", X("p")), Set(X("k"), Thunk(<<Ret(<<X("r"), X("p")>>)>>)), Ret(<<Last3>>)>>),
     Fn(<<"p", "q">>, <<Set(X("k"), Thunk(<<Ret(<<X("q"), X("p")>>)>>)), Ret(<<Apply(X("h"), <<X("q"), X("p")>>)>>)>>),
     Fn(<<"p", "q">>, <<If(Op("==", X("q"), N(2)), <<Ret(<<X("p")>>)>>), Ret(<<Apply(X("g"), <<X("p"), N(2)>>)>>)>>),
     Fn(<<"p", "q">>, <<Ret(<<PCall(<<X("h"), X("q"), X("p")>>)>>)>>) >>
Called(fn, args) ==
  << <<"localfn", "h", Vararg(<<"p">>, <<<<"local", <<"a", "b">>, <<Dots>>>>, Ret(<<A, B, X("p")>>)>>)>>,
     <<"local", <<"g", "k">>, <<>>>>, Set(X("g"), fn),
     <<"local", <<"x", "y">>, <<Apply(X("g"), args)>>>>, F(<<X("x"), X("y"), Apply(X("g"), args)>>),
     F(<<Apply(X("g"), args), N(5)>>),
     If(X("k"), <<F(<<Apply(X("k"), <<>>)>>)>>), Ret(<<Apply(X("g"), args)>>) >>
CallPrograms == Pairs(Functions_, ArgLists, Called)
  \o << << <<"local", <<"o">>, <<<<"table", <<<<"named", "v", N(3)>>>>>>>>>>,
          <<"methodfn", X("o"), "m", Vararg(<<"a">>, <<Ret(<<Named(X("self"), "v"), A, Dots>>)>>)>>,
          <<"function", Named(X("o"), "s"), Fn(<<"o">>, <<Set(X("o"), N(1)), Ret(<<X("o")>>)>>)>>,
          F(<<<<"method", X("o"), "m", <<N(1), N(2)>>>>>>),
          F(<<<<"method", X("o"), "m", <<F(<<>>)>>>>, Apply(Named(X("o"), "s"), <<>>)>>),
          Ret(<<<<"method", X("o"), "none", <<>>>>>>) >> >>

-----------------------------------------------------------------------------
(* Metamethods: before the metatable has them, with them, and after.  Only *)
(* the first operand, only the second or both have the metatable.          *)
Mt == X("mt")
Event_(e) == Named(Mt, "__" \o e)
Meta_(e) == Apply(X("setmetatable"), <<e, Mt>>)
Operands_ == << <<Meta_(Tab), N(2)>>, <<N(2), Meta_(Tab)>>, <<Meta_(Tab), Meta_(Tab)>>, <<Meta_(Tab), Tab>> >>
Handlers == << Fn(<<"x", "y">>, <<F(<<X("x"), X("y")>>), Ret(<<N(7), N(8)>>)>>),
               Fn(<<"x", "y">>, <<Ret(<<>>)>>),
               <<"table", <<<<"named", "x", N(6)>>>>>>,
               Meta_(Tab),
               Fn(<<"x">>, <<Apply(X("error"), <<X("x")>>)>>) >>
Uses_ == << <<"add", Ret(<<Op("+", A, B)>>)>>, <<"unm", Ret(<<Un("-", A)>>)>>,
            <<"eq", Ret(<<Op("==", A, B), Op("~=", A, B)>>)>>, <<"lt", Ret(<<Op("<", A, B), Op(">=", A, B)>>)>>,
            <<"le", Ret(<<Op("<=", A, B), Op(">", A, B)>>)>>, <<"lt", Ret(<<Op("<=", A, B), Op(">", A, B)>>)>>,
            <<"call", Ret(<<Apply(A, <<B>>)>>)>>, <<"index", Ret(<<Named(A, "x")>>)>>,
            <<"newindex", Set(Named(A, "x"), N(3))>>,
            <<"index", <<"in", <<"v">>, <<A, B>>, <<F(<<X("v")>>), Break>>>>>>,
            <<"call", <<"in", <<"v", "w">>, <<A, B>>, <<F(<<X("v"), X("w")>>), Break>>>>>> >>
Try(use) == F(<<PCall(<<Thunk(<<use>>)>>)>>)
MetaPrograms ==
  FlattenSeq(Pairs(Uses_, Operands_, LAMBDA u, o : Map(Handlers, LAMBDA h :
    << Local("mt", Tab), Local("a", o[1]), Local("b", o[2]), Try(u[2]),
       Set(Event_(u[1]), h), Try(u[2]),
       If(Op("==", B, N(2)), <<F(<<Named(A, "x")>>)>>),
       Set(Event_(u[1]), NilE), Try(u[2]) >>)))

Trees == LogicPrograms \o ArithmeticPrograms \o AssignPrograms \o ClosurePrograms
         \o TablePrograms \o CallPrograms \o MetaPrograms
MCPrograms == Map(Trees, M!BlockText)

-----------------------------------------------------------------------------
(* Properties.                                                             *)
\* What the host sees of a program, and the values it returns, are what the
\* program means.
SameAs(m) ==
  /\ L.out = m.out
  /\ L.status = m.status
  /\ L.status = "done" => FromTo(L, 1, L.top - 1) = m.results
Meaning == L.status \in {"done", "error"} => SameAs(M!Seen(Trees[program]))
=============================================================================
