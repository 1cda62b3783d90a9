----------------------------- MODULE LuaParser -----------------------------
(***************************************************************************)
(* The parser of the Lua interpreter (lparser.c): one operator per grammar *)
(* rule, from the function state before the rule to the one after it.  The *)
(* parser generates code while it reads: there is no tree.  The tokens of  *)
(* a program are <<kind, content>>; only grammatical programs are read, so *)
(* the syntax errors are left out, and so are the limits of the counters.  *)
(***************************************************************************)
EXTENDS LuaDebug

Token(fs) == Head(fs.ts)[1]
Value(fs) == Head(fs.ts)[2]
luaX_next(fs)       == [fs EXCEPT !.ts = Tail(@)]
testnext(fs, token) == IF Token(fs) = token THEN luaX_next(fs) ELSE fs

init_exp(fs, k, info)  == With(fs, Exp(k, info))
codestring(fs, s)      == LET c == Constant(fs, Str(s)) IN init_exp(c, "K", c.e.info)
checkname(fs)          == luaX_next(codestring(fs, Value(fs)))

-----------------------------------------------------------------------------
(* Local variables: declared by new_localvar, visible from adjustlocalvars.*)
new_localvar(fs, name) == [fs EXCEPT !.declared = Append(@, name)]
NewName(fs)            == luaX_next(new_localvar(fs, Value(fs)))

LocVar(name, reg, start) == [name |-> name, reg |-> reg, start |-> start, end |-> 0]
adjustlocalvars(fs, n) ==
  LET names == SubSeq(fs.declared, 1, n)
  IN  [fs EXCEPT !.declared = SubSeq(@, n + 1, Len(@)), !.act = @ \o names,
                 !.locs = @ \o [i \in 1 .. n |-> LocVar(names[i], NAct(fs) + i - 1, Pc(fs))]]
removevars(fs, level) ==
  LET Ended(l) == IF l.end = 0 /\ l.reg >= level THEN [l EXCEPT !.end = Pc(fs)] ELSE l
  IN  [fs EXCEPT !.act = SubSeq(@, 1, level), !.locs = <<>> \o [i \in DOMAIN @ |-> Ended(@[i])]]

\* The upvalue of fs for the variable that fs.e stands for one function out.
indexupvalue(fs, k, info, name) ==
  LET i == SelectInSeq(fs.ups, LAMBDA u : u.k = k /\ u.info = info)
      u == [k |-> k, info |-> info, name |-> name]
  IN  IF i # 0 THEN Checked(init_exp(fs, "UPVAL", i - 1), fs.ups[i].name = name)
      ELSE init_exp([fs EXCEPT !.ups = Append(@, u)], "UPVAL", Len(fs.ups))

searchvar(fs, n) == SelectLastInSeq(fs.act, LAMBDA x : x = n) - 1
markupval(fs, level) ==
  LET i == SelectInSeq(fs.bl, LAMBDA b : b.nact <= level)
  IN  IF i = 0 THEN fs ELSE [fs EXCEPT !.bl[i].upval = TRUE]

RECURSIVE singlevaraux(_, _, _)
singlevaraux(fs, n, base) ==
  LET v == searchvar(fs, n)
      o == singlevaraux(fs.prev[1], n, FALSE)
      s == [fs EXCEPT !.prev = <<o>>]
  IN  CASE v >= 0 -> init_exp(IF base THEN fs ELSE markupval(fs, v), "LOCAL", v)
        [] v < 0 /\ fs.prev = <<>>   -> init_exp(fs, "GLOBAL", NoReg)
        [] v < 0 /\ fs.prev # <<>> /\ o.e.k = "GLOBAL" -> init_exp(s, "GLOBAL", NoReg)
        [] OTHER -> indexupvalue(s, o.e.k, o.e.info, n)
singlevar(fs) ==
  LET Global(s) == LET g == codestring(s, Value(fs)) IN init_exp(g, "GLOBAL", g.e.info)
  IN  Let(singlevaraux(luaX_next(fs), Value(fs), TRUE),
          LAMBDA s : IF s.e.k = "GLOBAL" THEN Global(s) ELSE s)

adjust_assign(fs, nvars, nexps) ==
  LET extra == nvars - nexps
      more  == IF extra + 1 < 0 THEN 0 ELSE extra + 1
      Rest(s) == IF extra > 0 THEN luaK_nil(luaK_reserveregs(s, extra), s.free, extra) ELSE s
  IN  CASE HasMultret(fs.e) ->
             luaK_reserveregs(luaK_setreturns(fs, more), IF more > 1 THEN more - 1 ELSE 0)
        [] fs.e.k = "VOID" -> Rest(fs)
        [] OTHER -> Let(luaK_exp2nextreg(fs), Rest)

-----------------------------------------------------------------------------
(* Blocks and functions.                                                   *)
enterblock(fs, loop) ==
  Checked([fs EXCEPT !.bl = <<[breaks |-> NoJump, loop |-> loop, nact |-> NAct(fs),
                               upval |-> FALSE]>> \o @],
          fs.free = NAct(fs))
leaveblock(fs) ==
  LET b == Head(fs.bl)
      r == removevars([fs EXCEPT !.bl = Tail(@)], b.nact)
      c == IF b.upval THEN luaK_code(r, "CLOSE", b.nact, 0, 0) ELSE r
  IN  luaK_patchtohere(Checked([c EXCEPT !.free = NAct(c)], ~b.loop \/ ~b.upval), b.breaks)

\* Bits of is_vararg: "has" an argument arg, "is" vararg, "needs" arg.
NewFunction(ts, prev, vararg) ==
  [code |-> <<>>, jpc |-> NoJump, lasttarget |-> 0, free |-> 0, max |-> 2, k |-> <<>>,
   act |-> <<>>, declared |-> <<>>, locs |-> <<>>, bl |-> <<>>, ups |-> <<>>, p |-> <<>>,
   numparams |-> 0, vararg |-> vararg, prev |-> prev, ts |-> ts, e |-> Exp("VOID", 0),
   cc |-> 0, lh |-> <<>>, n |-> 0, ok |-> TRUE]
open_func(fs) == NewFunction(fs.ts, <<fs>>, {})

luaK_ret(fs, first, nret) == luaK_code(fs, "RETURN", first, nret + 1, 0)
Proto(fs) ==
  [code |-> fs.code, k |-> fs.k, p |-> fs.p, nups |-> Len(fs.ups), max |-> fs.max,
   numparams |-> fs.numparams, vararg |-> fs.vararg, locs |-> fs.locs]
close_func(fs) ==
  Let(luaK_ret(removevars(fs, 0), 0, 0),
      LAMBDA s : Checked(s, s.bl = <<>> /\ luaG_checkcode(Proto(s))))

RECURSIVE Captures(_, _)
Captures(fs, ups) ==
  IF ups = <<>> THEN fs
  ELSE Captures(luaK_code(fs, IF Head(ups).k = "LOCAL" THEN "MOVE" ELSE "GETUPVAL",
                          0, Head(ups).info, 0), Tail(ups))
pushclosure(fs, func) ==
  LET f == [fs EXCEPT !.p = Append(@, Proto(func)), !.ts = func.ts, !.ok = @ /\ func.ok]
      c == Reloc(init_exp(f, "VOID", 0), "CLOSURE", Len(fs.p), 0)
  IN  Captures(c, func.ups)

-----------------------------------------------------------------------------
(* Expressions.  The rules call each other through parse, which stands for *)
(* the prototypes of the recursive rules.                                  *)
RECURSIVE parse(_, _, _)
subexpr(fs, limit) == parse(fs, "subexpr", limit)
expr(fs)           == subexpr(fs, 0)
primaryexp(fs)     == parse(fs, "primaryexp", 0)
constructor(fs)    == parse(fs, "constructor", 0)
explist1(fs)       == parse(fs, "explist1", 0)
body(fs, needself) == parse(fs, "body", needself)
chunk(fs)          == parse(fs, "chunk", 0)

field(fs) ==
  Let(luaK_exp2anyreg(fs), LAMBDA t : luaK_indexed(checkname(luaX_next(t)), t.e))
yindex(fs) == luaX_next(luaK_exp2val(expr(luaX_next(fs))))

\* A table constructor; cc is the C structure ConsControl without the number
\* of the fields that are not in the list, a hint about the size.
recfield(fs) ==
  Let(luaK_exp2RK(luaX_next(IF Token(fs) = "name" THEN checkname(fs) ELSE yindex(fs))), LAMBDA key :
  Let(luaK_exp2RK(expr(key)), LAMBDA val :
    [luaK_code(val, "SETTABLE", fs.cc.t, RK(key.e), RK(val.e)) EXCEPT !.free = fs.free]))
Flush(fs) ==
  IF fs.cc.tostore # LFieldsPerFlush THEN fs
  ELSE [luaK_setlist(fs, fs.cc.t, fs.cc.na, fs.cc.tostore) EXCEPT !.cc.tostore = 0]
closelistfield(fs) ==
  IF fs.cc.v.k = "VOID" THEN fs
  ELSE Flush([luaK_exp2nextreg(With(fs, fs.cc.v)) EXCEPT !.cc.v.k = "VOID"])
lastlistfield(fs) ==
  LET v == With(fs, fs.cc.v)
      s == IF v.e.k = "VOID" THEN v ELSE luaK_exp2nextreg(v)
  IN  CASE fs.cc.tostore = 0 -> fs
        [] fs.cc.tostore # 0 /\ HasMultret(v.e) ->
             luaK_setlist(luaK_setreturns(v, Multret), fs.cc.t, fs.cc.na, Multret)
        [] OTHER -> luaK_setlist(s, fs.cc.t, fs.cc.na, fs.cc.tostore)
listfield(fs) ==
  LET s == expr(fs)
  IN  [s EXCEPT !.cc = [t |-> fs.cc.t, v |-> s.e, na |-> fs.cc.na + 1,
                        tostore |-> fs.cc.tostore + 1]]
IsRecord(fs) == Token(fs) = "[" \/ (Token(fs) = "name" /\ fs.ts[2][1] = "=")
RECURSIVE Fields(_)
Fields(fs) ==
  IF Token(fs) = "}" THEN fs
  ELSE Let(closelistfield(Checked(fs, fs.cc.v.k = "VOID" \/ fs.cc.tostore > 0)), LAMBDA c :
       Let(IF IsRecord(c) THEN recfield(c) ELSE listfield(c), LAMBDA s :
         IF Token(s) \in {",", ";"} THEN Fields(luaX_next(s)) ELSE s))
constructor_rule(fs) ==
  LET cc(t) == [t |-> t.e.info, v |-> Exp("VOID", 0), na |-> 0, tostore |-> 0]
  IN  Let(luaK_exp2nextreg(Reloc(init_exp(fs, "VOID", 0), "NEWTABLE", 0, 0)), LAMBDA t :
        [lastlistfield(luaX_next(Fields(luaX_next([t EXCEPT !.cc = cc(t)]))))
           EXCEPT !.cc = fs.cc, !.e = t.e])

RECURSIVE Params(_)
Params(fs) ==
  LET s == NewName(fs)
  IN  CASE Token(fs) = ")" -> fs
        [] Token(fs) = "..." -> [new_localvar(luaX_next(fs), "arg")
                                   EXCEPT !.vararg = {"has", "needs", "is"}]
        [] Token(fs) = "name" /\ Token(s) = "," -> Params(luaX_next(s))
        [] OTHER -> s
parlist(fs) ==
  LET p == Params(fs)
      s == adjustlocalvars(p, Len(p.declared))
  IN  luaK_reserveregs([s EXCEPT !.numparams = NAct(s) - (IF "has" \in s.vararg THEN 1 ELSE 0)],
                       NAct(s))
Self(fs) == adjustlocalvars(new_localvar(fs, "self"), 1)
body_rule(fs, needself) ==
  LET o == luaX_next(open_func(fs))
  IN  Let(close_func(luaX_next(chunk(luaX_next(parlist(IF needself THEN Self(o) ELSE o))))),
          LAMBDA s : pushclosure(s.prev[1], s))

RECURSIVE MoreExps(_, _)
MoreExps(fs, n) ==
  IF Token(fs) # "," THEN [fs EXCEPT !.n = n]
  ELSE MoreExps(expr(luaX_next(luaK_exp2nextreg(fs))), n + 1)
explist1_rule(fs) == MoreExps(expr(fs), 1)

Args(fs) ==
  LET l == explist1(luaX_next(fs))
  IN  CASE Token(fs) = "str" -> luaX_next(codestring(fs, Value(fs)))
        [] Token(fs) = "{" -> constructor(fs)
        [] Token(fs) = "(" /\ fs.ts[2][1] = ")" -> init_exp(luaX_next(luaX_next(fs)), "VOID", 0)
        [] OTHER -> luaX_next(luaK_setreturns(l, Multret))
funcargs(fs) ==
  LET base == fs.e.info
      Call(s, nparams) == [init_exp(luaK_code(s, "CALL", base, nparams + 1, 2), "CALL", Pc(s))
                             EXCEPT !.free = base + 1]
      Closed(s) == Call(s, s.free - (base + 1))
  IN  Let(Args(Checked(fs, fs.e.k = "NONRELOC")), LAMBDA a :
        CASE HasMultret(a.e) -> Call(a, Multret)
          [] a.e.k = "VOID"  -> Closed(a)
          [] OTHER -> Let(luaK_exp2nextreg(a), Closed))

prefixexp(fs) ==
  IF Token(fs) = "(" THEN luaK_dischargevars(luaX_next(expr(luaX_next(fs)))) ELSE singlevar(fs)
IndexedBy(fs) == Let(luaK_exp2anyreg(fs), LAMBDA t : luaK_indexed(yindex(t), t.e))
Method(fs) ==
  LET k == checkname(luaX_next(fs)) IN funcargs(luaK_self(With(k, fs.e), k.e))
RECURSIVE AfterPrefix(_)
AfterPrefix(fs) ==
  CASE Token(fs) = "." -> AfterPrefix(field(fs))
    [] Token(fs) = "[" -> AfterPrefix(IndexedBy(fs))
    [] Token(fs) = ":" -> AfterPrefix(Method(fs))
    [] Token(fs) \in {"(", "str", "{"} -> AfterPrefix(funcargs(luaK_exp2nextreg(fs)))
    [] OTHER -> fs
primaryexp_rule(fs) == AfterPrefix(prefixexp(fs))

simpleexp(fs) ==
  LET t == Token(fs)
      s == luaX_next(fs)
  IN  CASE t = "num"   -> init_exp(s, "KNUM", Value(fs))
        [] t = "str"   -> luaX_next(codestring(fs, Value(fs)))
        [] t = "nil"   -> init_exp(s, "NIL", 0)
        [] t = "true"  -> init_exp(s, "TRUE", 0)
        [] t = "false" -> init_exp(s, "FALSE", 0)
        [] t = "..."   -> init_exp(luaK_code([s EXCEPT !.vararg = @ \ {"needs"}], "VARARG", 0, 1, 0),
                                   "VARARG", Pc(fs))
        [] t = "{"     -> constructor(fs)
        [] t = "function" -> body(s, FALSE)
        [] OTHER -> primaryexp(fs)

Left(op) ==   \* left priority of a binary operator, 0 of any other token
  CASE op = "or" -> 1 [] op = "and" -> 2 [] op \in {"==", "~=", "<", "<=", ">", ">="} -> 3
    [] op = ".." -> 5 [] op \in {"+", "-"} -> 6 [] op \in {"*", "%"} -> 7 [] op = "^" -> 10
    [] OTHER -> 0
Right(op) == CASE op = ".." -> 4 [] op = "^" -> 9 [] OTHER -> Left(op)
UnaryPriority == 8

RECURSIVE Operators(_, _)
Operators(fs, limit) ==
  LET op == Token(fs)
  IN  IF Left(op) <= limit THEN fs
      ELSE Operators(Let(luaK_infix(fs, op), LAMBDA e1 :
                       luaK_posfix(subexpr(luaX_next(e1), Right(op)), op, e1.e)), limit)
subexpr_rule(fs, limit) ==
  Operators(IF Token(fs) \in {"not", "-", "#"}
            THEN luaK_prefix(subexpr(luaX_next(fs), UnaryPriority), Token(fs))
            ELSE simpleexp(fs), limit)

-----------------------------------------------------------------------------
(* Statements.                                                             *)
block_follow(token) == token \in {"else", "elseif", "end", "until", "eos"}
block(fs) ==
  LET s == chunk(enterblock(fs, FALSE)) IN leaveblock(Checked(s, Head(s.bl).breaks = NoJump))

\* A local that is assigned is copied if an earlier target of the same
\* assignment needs its value; lh holds the targets, the last one first.
check_conflict(fs) ==
  LET v == fs.e.info
      Clash(t) == t.k = "INDEXED" /\ v \in {t.info, t.aux}
      Safe(t) == IF ~Clash(t) THEN t
                 ELSE [t EXCEPT !.info = IF @ = v THEN fs.free ELSE @,
                                !.aux = IF @ = v THEN fs.free ELSE @]
      s == [fs EXCEPT !.lh = [i \in DOMAIN @ |-> Safe(@[i])]]
  IN  IF fs.e.k # "LOCAL" \/ \A t \in Range(fs.lh) : ~Clash(t) THEN fs
      ELSE luaK_reserveregs(luaK_code(s, "MOVE", fs.free, v, 0), 1)

RECURSIVE Targets(_), Defaults(_)
Targets(fs) ==
  LET s == check_conflict(primaryexp(luaX_next(fs)))
  IN  IF Token(fs) # "," THEN fs ELSE Targets([s EXCEPT !.lh = <<s.e>> \o @])
Defaults(fs) ==
  IF fs.lh = <<>> THEN fs
  ELSE Defaults([luaK_storevar(init_exp(fs, "NONRELOC", fs.free - 1), Head(fs.lh))
                   EXCEPT !.lh = Tail(@)])
assignment(fs) ==
  LET Extra(e) == IF e.n > Len(e.lh) THEN e.n - Len(e.lh) ELSE 0
  IN  Defaults(Let(explist1(luaX_next(Targets([fs EXCEPT !.lh = <<fs.e>>]))), LAMBDA e :
        IF e.n = Len(e.lh)
        THEN [luaK_storevar(luaK_setoneret(e), Head(e.lh)) EXCEPT !.lh = Tail(@)]
        ELSE [adjust_assign(e, Len(e.lh), e.n) EXCEPT !.free = @ - Extra(e)]))

\* The jumps taken when the condition is false are list e.f of the result.
cond(fs) ==
  LET v == expr(fs) IN luaK_goiftrue(IF v.e.k = "NIL" THEN [v EXCEPT !.e.k = "FALSE"] ELSE v)

NoClose(fs) ==   \* mutant: break leaves the upvalues of its blocks open
  LET i == SelectInSeq(fs.bl, LAMBDA b : b.loop)
      j == luaK_jump(fs)
  IN  [j EXCEPT !.code = Linked(@, fs.bl[i].breaks, Pc(fs)), !.bl[i].breaks = First(@, Pc(fs))]
breakstat(fs) ==
  LET i == SelectInSeq(fs.bl, LAMBDA b : b.loop)
      upval == \E j \in 1 .. i - 1 : fs.bl[j].upval
      c == IF upval THEN luaK_code(fs, "CLOSE", fs.bl[i].nact, 0, 0) ELSE fs
  IN  [luaK_jump(c) EXCEPT !.code = Linked(@, fs.bl[i].breaks, Pc(c)),
                           !.bl[i].breaks = First(@, Pc(c))]

JumpBack(fs, target) == luaK_patchlist(luaK_jump(fs), Pc(fs), target)
whilestat(fs) ==
  Let(cond(luaK_getlabel(luaX_next(fs))), LAMBDA c :
    luaK_patchtohere(leaveblock(luaX_next(JumpBack(block(luaX_next(enterblock(c, TRUE))), Pc(fs)))),
                     c.e.f))
repeatstat(fs) ==
  LET Body(s) == chunk(luaX_next(enterblock(enterblock(s, TRUE), FALSE)))
  IN  leaveblock(Let(cond(luaX_next(Body(luaK_getlabel(fs)))), LAMBDA c :
        IF Head(c.bl).upval
        THEN JumpBack(leaveblock(luaK_patchtohere(breakstat(c), c.e.f)), Pc(fs))
        ELSE luaK_patchlist(leaveblock(c), c.e.f, Pc(fs))))

exp1(fs) == luaK_exp2nextreg(expr(fs))
forbody(fs, base, nvars, isnum) ==
  LET prep == Pc(fs)
      a == luaX_next(adjustlocalvars(fs, 3))
      p == IF isnum THEN luaK_code(a, "FORPREP", base, prep, 0) ELSE luaK_jump(a)
      b == block(luaK_reserveregs(adjustlocalvars(enterblock(p, FALSE), nvars), nvars))
      Loop(s) == IF isnum THEN luaK_code(s, "FORLOOP", base, Pc(s), 0)
                 ELSE luaK_jump(luaK_code(s, "TFORLOOP", base, 0, nvars))
  IN  Let(Let(luaK_patchtohere(leaveblock(b), prep), Loop),
          LAMBDA s : luaK_patchlist(s, Pc(s) - 1, prep + 1))
RECURSIVE Hidden(_, _)
Hidden(fs, names) ==
  IF names = <<>> THEN fs ELSE Hidden(new_localvar(fs, Head(names)), Tail(names))
fornum(fs, varname) ==
  LET d == new_localvar(Hidden(fs, <<"(for index)", "(for limit)", "(for step)">>), varname)
      One(s) == luaK_reserveregs(luaK_code(s, "LOADK", s.free, s.e.info, 0), 1)
      Step(s) == IF Token(s) = "," THEN exp1(luaX_next(s)) ELSE Let(Constant(s, Num(1)), One)
  IN  forbody(Let(exp1(luaX_next(exp1(luaX_next(d)))), Step), fs.free, 1, TRUE)
RECURSIVE MoreNames(_)
MoreNames(fs) == IF Token(fs) # "," THEN fs ELSE MoreNames(NewName(luaX_next(fs)))
forlist(fs, indexname) ==
  LET d == new_localvar(Hidden(fs, <<"(for generator)", "(for state)", "(for control)">>), indexname)
      n == MoreNames(d)
      l == Let(explist1(luaX_next(n)), LAMBDA s : adjust_assign(s, 3, s.n))
  IN  forbody(luaK_checkstack(l, 3), fs.free, Len(n.declared) - 3, FALSE)
forstat(fs) ==
  LET n == luaX_next(enterblock(fs, TRUE))
      s == luaX_next(n)
  IN  leaveblock(luaX_next(IF Token(s) = "=" THEN fornum(s, Value(n)) ELSE forlist(s, Value(n))))

\* esc: the jumps to the end of the statement.
test_then_block(fs) ==   \* n of the result: the jumps of a false condition
  Let(cond(luaX_next(fs)), LAMBDA c : [block(luaX_next(c)) EXCEPT !.n = c.e.f])
RECURSIVE Alternatives(_, _)
Alternatives(fs, esc) ==
  LET j == luaK_jump(fs)
      e == [j EXCEPT !.code = Linked(@, esc, Pc(fs))]
      h == luaK_patchtohere(e, fs.n)
      rest == First(esc, Pc(fs))
      last == [fs EXCEPT !.code = Linked(@, esc, fs.n)]
  IN  CASE Token(fs) = "elseif" -> Alternatives(test_then_block(h), rest)
        [] Token(fs) = "else"   -> luaX_next(luaK_patchtohere(block(luaX_next(h)), rest))
        [] OTHER -> luaX_next(luaK_patchtohere(last, First(esc, fs.n)))
ifstat(fs) == Alternatives(test_then_block(fs), NoJump)

localfunc(fs) ==
  LET b == body(adjustlocalvars(luaK_reserveregs(NewName(fs), 1), 1), FALSE)
  IN  Let(luaK_storevar(b, Exp("LOCAL", fs.free)),
          LAMBDA s : [s EXCEPT !.locs[Len(s.locs)].start = Pc(s)])
localstat(fs) ==
  LET n == MoreNames(NewName(fs))
      e == IF Token(n) = "=" THEN explist1(luaX_next(n)) ELSE [init_exp(n, "VOID", 0) EXCEPT !.n = 0]
      nvars == Len(n.declared)
  IN  adjustlocalvars(Let(e, LAMBDA s : adjust_assign(s, nvars, s.n)), nvars)

RECURSIVE FieldsOfName(_)
FieldsOfName(fs) == IF Token(fs) # "." THEN fs ELSE FieldsOfName(field(fs))
funcstat(fs) ==
  Let(FieldsOfName(singlevar(luaX_next(fs))), LAMBDA n :
  Let(IF Token(n) = ":" THEN field(n) ELSE n, LAMBDA v :
    luaK_storevar(body(v, Token(n) = ":"), v.e)))

exprstat(fs) ==
  Let(primaryexp(fs), LAMBDA v :
    IF v.e.k = "CALL" THEN [v EXCEPT !.code[v.e.info].c = 1] ELSE assignment(v))

IntoTail(fs) ==
  Checked([fs EXCEPT !.code[fs.e.info].op = "TAILCALL"], fs.code[fs.e.info].a = NAct(fs))
Returned(fs) ==   \* fs.n values, the last one fs.e
  CASE HasMultret(fs.e) ->
         Let(luaK_setreturns(fs, Multret), LAMBDA m :
           luaK_ret(IF m.e.k = "CALL" /\ m.n = 1 THEN IntoTail(m) ELSE m, NAct(m), Multret))
    [] ~HasMultret(fs.e) /\ fs.n = 1 ->
         Let(luaK_exp2anyreg(fs), LAMBDA s : luaK_ret(s, s.e.info, 1))
    [] OTHER ->
         Let(luaK_exp2nextreg(fs), LAMBDA s :
           luaK_ret(Checked(s, s.n = s.free - NAct(s)), NAct(s), s.n))
retstat(fs) ==
  LET r == luaX_next(fs)
  IN  IF block_follow(Token(r)) \/ Token(r) = ";" THEN luaK_ret(r, 0, 0)
      ELSE Let(explist1(r), Returned)

statement(fs) ==
  LET t == Token(fs)
      s == luaX_next(fs)
  IN  CASE t = "if"     -> ifstat(fs)
        [] t = "while"  -> whilestat(fs)
        [] t = "do"     -> luaX_next(block(s))
        [] t = "for"    -> forstat(fs)
        [] t = "repeat" -> repeatstat(fs)
        [] t = "function" -> funcstat(fs)
        [] t = "local" /\ Token(s) = "function" -> localfunc(luaX_next(s))
        [] t = "local" /\ Token(s) # "function" -> localstat(s)
        [] t = "return" -> retstat(fs)
        [] t = "break"  -> breakstat(s)
        [] OTHER -> exprstat(fs)
chunk_rule(fs) ==
  LET Done(s) == [Checked(s, s.max >= s.free /\ s.free >= NAct(s)) EXCEPT !.free = NAct(s)]
  IN  IF block_follow(Token(fs)) THEN fs
      ELSE Let(Let(testnext(statement(fs), ";"), Done), LAMBDA c :
             IF Token(fs) \in {"return", "break"} THEN c ELSE chunk(c))

parse(fs, rule, arg) ==
  CASE rule = "subexpr"     -> subexpr_rule(fs, arg)
    [] rule = "primaryexp"  -> primaryexp_rule(fs)
    [] rule = "constructor" -> constructor_rule(fs)
    [] rule = "explist1"    -> explist1_rule(fs)
    [] rule = "body"        -> body_rule(fs, arg)
    [] rule = "chunk"       -> chunk_rule(fs)

\* luaY_parser: the main function of the program ts.
luaY_parser(ts) ==
  close_func(chunk(NewFunction(Append(ts, <<"eos", 0>>), <<>>, {"is"})))
=============================================================================
