------------------------------- MODULE LuaVM -------------------------------
(***************************************************************************)
(* The virtual machine of the Lua interpreter: luaV_execute (lvm.c), one   *)
(* action per instruction, with the calls, returns and errors of ldo.c and *)
(* the upvalues of lfunc.c.  The stack is one array: frames overlap where  *)
(* arguments become parameters, values above top are stale, and an open    *)
(* upvalue is a position.  A call that C code makes (a metamethod, an      *)
(* iterator, pcall) leaves in the frame of the callee what the C code does *)
(* with the results.                                                       *)
(***************************************************************************)
EXTENDS LuaParser, FiniteSets, TLC

CONSTANTS
  Programs,    \* their tokens
  StackSize,
  MaxTagLoop   \* MAXTAGLOOP

VARIABLES
  program,   \* the number of the program
  main,      \* the parser's state at the end of the program
  L          \* its thread: the stack and the frames; and the heap

vars == <<program, main, L>>

-----------------------------------------------------------------------------
(* Values, tables and metatables.  Types that only C code can make, user   *)
(* data and threads, are left out; a string has no metatable.              *)
Function(v)  == v[1] \in {"function", "host"}
l_isfalse(v) == v \in {Nil, Bool(FALSE)}
ErrorObject  == Str("error")

Event(e)   == <<"string", <<"__" \o e>>>>
Fast       == {"index", "newindex", "eq"}     \* the events whose absence is cached
Table(m)   == [map |-> m, meta |-> 0, flags |-> Fast]   \* luaH_new: flags = ~0
Of(t, key) == IF key \in DOMAIN t.map THEN t.map[key] ELSE Nil
luaH_get(s, t, key) == Of(s.tables[t], key)
Put(map, key, v) ==
  IF v = Nil THEN [x \in DOMAIN map \ {key} |-> map[x]] ELSE (key :> v) @@ map
luaH_set(s, t, key, v) == [s EXCEPT !.tables[t].map = Put(@, key, v)]
\* The border of a table without holes.
luaH_getn(s, t) ==
  LET ns == {key[2] : key \in {k \in DOMAIN s.tables[t].map : k[1] = "number"}}
  IN  CHOOSE n \in 0 .. Cardinality(ns) : n + 1 \notin ns /\ 1 .. n \subseteq ns

Meta(s, v) == IF v[1] = "table" THEN s.tables[v[2]].meta ELSE 0
luaT_gettmbyobj(s, v, e) == IF Meta(s, v) = 0 THEN Nil ELSE luaH_get(s, Meta(s, v), Event(e))
\* fasttm, and what luaT_gettm remembers in the metatable mt.
fasttm(s, mt, e) ==
  IF mt = 0 \/ e \in s.tables[mt].flags THEN Nil ELSE luaH_get(s, mt, Event(e))
Remember(s, mt, e) ==
  IF mt # 0 /\ fasttm(s, mt, e) = Nil THEN [s EXCEPT !.tables[mt].flags = @ \cup {e}] ELSE s

-----------------------------------------------------------------------------
(* Frames.                                                                 *)
Ci(s)    == Last(s.ci)
Base(s)  == Ci(s).base
IsC(s, f) == s.stack[f.func][1] = "host"
Cl(s)    == s.closures[s.stack[Ci(s).func][2]]
RECURSIVE ProtoAt(_, _)
ProtoAt(p, path) == IF path = <<>> THEN p ELSE ProtoAt(p.p[Head(path)], Tail(path))
Running(s) == ProtoAt(main, Cl(s).p)   \* cl->p
SetCi(s, f) == [s EXCEPT !.ci[Len(s.ci)] = f]
Goto(s, pc) == SetCi(s, [Ci(s) EXCEPT !.pc = pc])
Pos(s, i, v)   == [s EXCEPT !.stack[i] = v]             \* a position of the stack
Reg(s, r)      == s.stack[Base(s) + r]
SetReg(s, r, v) == Pos(s, Base(s) + r, v)
Top(s, top)    == [s EXCEPT !.top = top]
Copy(s, to, vals) ==
  [s EXCEPT !.stack = SubSeq(@, 1, to - 1) \o vals \o SubSeq(@, to + Len(vals), Len(@))]
FromTo(s, i, j) == SubSeq(s.stack, i, j)
Nils(n) == [i \in 1 .. n |-> Nil]

\* luaF_close: the upvalues at or above a level get a value of their own.
luaF_close(s, level) ==
  [s EXCEPT !.upvals = [u \in DOMAIN @ |->
     IF @[u].at >= level /\ @[u].at # 0 THEN [at |-> 0, v |-> s.stack[@[u].at]] ELSE @[u]]]
OpenAt(s, level) == {u \in DOMAIN s.upvals : s.upvals[u].at = level}
\* luaF_findupval makes an upvalue if none is open at the level.
WithUpval(s, level) ==
  IF OpenAt(s, level) # {} THEN s
  ELSE [s EXCEPT !.upvals = Append(@, [at |-> level, v |-> Nil])]
UpvalValue(s, u) == IF s.upvals[u].at = 0 THEN s.upvals[u].v ELSE s.stack[s.upvals[u].at]

-----------------------------------------------------------------------------
(* Returning: then names what the caller does with the results.            *)
\*   <<"op">>            an instruction CALL: the frame goes on
\*   <<"result", i>>     callTMres: the result to position i
\*   <<"nothing">>       callTM
\*   <<"test", want>>    a comparison jumps if the result is want
\*   <<"for">>           TFORLOOP
\*   <<"pcall">>         the C function pcall
\*   <<"main">>          the host that runs the program
Branch(s, yes) == Goto(s, IF yes THEN Running(s).code[Ci(s).pc].b ELSE Ci(s).pc + 1)
Deliver(s, to, wanted, vals) ==
  LET n == IF wanted = Multret THEN Len(vals) ELSE wanted
  IN  Top(Copy(s, to, [i \in 1 .. n |-> IF i <= Len(vals) THEN vals[i] ELSE Nil]), to + n)
Popped(s) == Top(s, s.top - 1)

ForResult(s) ==
  LET cb == Base(s) + Running(s).code[Ci(s).pc - 1].a + 3
      t  == Top(s, Ci(s).top)
  IN  IF s.stack[cb] = Nil THEN Branch(t, FALSE)
      ELSE Branch(Pos(t, cb - 1, s.stack[cb]), TRUE)

RECURSIVE Return(_, _)
Resume(s, then, wanted) ==
  CASE then[1] = "op" -> IF wanted = Multret THEN s ELSE Top(s, Ci(s).top)
    [] then[1] = "result"  -> Pos(Popped(s), then[2], s.stack[s.top - 1])
    [] then[1] = "nothing" -> s
    [] then[1] = "test"  -> Branch(Popped(s), l_isfalse(s.stack[s.top - 1]) # then[2])
    [] then[1] = "for"   -> ForResult(s)
    [] then[1] = "pcall" -> Return(s, <<Bool(TRUE)>> \o FromTo(s, Base(s), s.top - 1))
    [] then[1] = "main"  -> [s EXCEPT !.status = "done"]
\* luaD_poscall.
Return(s, vals) ==
  Resume(Deliver([s EXCEPT !.ci = Front(@)], Ci(s).func, Ci(s).nresults, vals),
         Ci(s).then, Ci(s).nresults)

\* luaD_throw, to the pcall that is innermost: luaD_pcall cuts the frames, closes
\* the upvalues of the called function and leaves the error object in its place.
Caught(s, i, v) ==
  Return(Pos(luaF_close([s EXCEPT !.ci = SubSeq(@, 1, i)], s.ci[i].base), s.ci[i].base, v),
         <<Bool(FALSE), v>>)
luaD_throw(s, v) ==
  LET i == SelectLastInSeq(s.ci, LAMBDA f : IsC(s, f))
  IN  IF i = 0 THEN [s EXCEPT !.status = "error"] ELSE Caught(s, i, v)

-----------------------------------------------------------------------------
(* Calling.                                                                *)
Frame(func, base, top, nresults, then) ==
  [func |-> func, base |-> base, top |-> top, pc |-> 1, nresults |-> nresults, then |-> then]
\* adjust_varargs: the fixed parameters move above the arguments; the parameter arg
\* gets a table with the others, unless the function has no use for it.
ArgTable(extra) ==
  [k \in {Num(i) : i \in DOMAIN extra} \cup {Str("n")} |->
     IF k = Str("n") THEN Num(Len(extra)) ELSE extra[k[2]]]
adjust_varargs(s, p, func) ==
  LET given  == FromTo(s, func + 1, s.top - 1)
      args   == given \o Nils(p.numparams - Len(given))
      fixed  == SubSeq(args, 1, p.numparams)
      extra  == SubSeq(args, p.numparams + 1, Len(args))
      needs  == "needs" \in p.vararg
      moved  == fixed \o (IF needs THEN <<<<"table", Len(s.tables) + 1>>>> ELSE <<>>)
      t      == IF needs THEN [s EXCEPT !.tables = Append(@, Table(ArgTable(extra)))] ELSE s
      base   == func + 1 + Len(args)
  IN  Top(Copy(t, func + 1, Nils(p.numparams) \o extra \o moved), base + Len(moved))
Enter(s, p, func, base, nresults, then) ==
  [Copy(s, s.top, Nils(base + p.max - s.top))
     EXCEPT !.ci = Append(@, Frame(func, base, base + p.max, nresults, then)), !.top = base + p.max]
LowerTop(s, top) == IF s.top > top THEN Top(s, top) ELSE s
EnterLua(s, p, func, nresults, then) ==
  IF p.vararg = {} THEN Enter(LowerTop(s, func + 1 + p.numparams), p, func, func + 1, nresults, then)
  ELSE LET nargs == s.top - func - 1
           n == IF nargs < p.numparams THEN p.numparams ELSE nargs
       IN  Enter(adjust_varargs(s, p, func), p, func, func + 1 + n, nresults, then)

\* The C functions the programs call; f stands for the host: it sees its arguments
\* and returns them.
luaB_setmetatable(s, t, mt) ==
  [s EXCEPT !.tables[t[2]].meta = IF mt = Nil THEN 0 ELSE mt[2]]
ipairsaux(s, args) ==
  LET i == Num(args[2][2] + 1)
      v == luaH_get(s, args[1][2], i)
  IN  IF v = Nil THEN <<>> ELSE <<i, v>>
HostCall(s, name, args, func, nresults, then) ==
  LET Back(t, vals) == Resume(Deliver(t, func, nresults, vals), then, nresults)
  IN  CASE name = "f" -> Back([s EXCEPT !.out = Append(@, args)], args)
        [] name = "error" -> luaD_throw(s, Head(args \o <<Nil>>))
        [] name = "setmetatable" -> Back(luaB_setmetatable(s, args[1], args[2]), <<args[1]>>)
        [] name = "next" -> Back(s, ipairsaux(s, args))

\* luaD_precall; tryfuncTM puts the metamethod below the called object.
RECURSIVE luaD_precall(_, _, _, _)
luaD_precall(s, func, nresults, then) ==
  LET v  == s.stack[func]
      tm == luaT_gettmbyobj(s, v, "call")
  IN  CASE v[1] = "function" ->
             EnterLua(s, ProtoAt(main, s.closures[v[2]].p), func, nresults, then)
        [] v = <<"host", "pcall">> ->
             luaD_precall([s EXCEPT !.ci = Append(@, Frame(func, func + 1, s.top, nresults, then))],
                          func + 1, Multret, <<"pcall">>)
        [] v[1] = "host" /\ v[2] # "pcall" ->
             HostCall(s, v[2], FromTo(s, func + 1, s.top - 1), func, nresults, then)
        [] v[1] = "table" /\ Function(tm) ->
             luaD_precall(Top(Copy(s, func, <<tm>> \o FromTo(s, func, s.top - 1)), s.top + 1),
                          func, nresults, then)
        [] OTHER -> luaD_throw(s, ErrorObject)
\* callTMres and callTM: a call from C, above top.
CallTM(s, then, tm, args) ==
  luaD_precall(Top(Copy(s, s.top, <<tm>> \o args), s.top + 1 + Len(args)), s.top,
               IF then[1] = "nothing" THEN 0 ELSE 1, then)

-----------------------------------------------------------------------------
(* Tables and operators, with their metamethods.                           *)
RECURSIVE GetFrom(_, _, _, _, _), SetIn(_, _, _, _, _)   \* loop more tables
GetFrom(s, t, key, to, loop) ==
  LET IsTable == t[1] = "table"
      val == IF IsTable THEN luaH_get(s, t[2], key) ELSE Nil
      tm  == IF IsTable THEN fasttm(s, Meta(s, t), "index") ELSE Nil
      r   == IF IsTable THEN Remember(s, Meta(s, t), "index") ELSE s
  IN  CASE ~IsTable \/ loop = 0 -> luaD_throw(s, ErrorObject)
        [] IsTable /\ loop # 0 /\ val # Nil -> Pos(s, to, val)
        [] IsTable /\ loop # 0 /\ val = Nil /\ tm = Nil -> Pos(r, to, Nil)
        [] IsTable /\ loop # 0 /\ val = Nil /\ Function(tm) -> CallTM(s, <<"result", to>>, tm, <<t, key>>)
        [] OTHER -> GetFrom(s, tm, key, to, loop - 1)
luaV_gettable(s, t, key, to) == GetFrom(s, t, key, to, MaxTagLoop)

\* luaH_set forgets the absent metamethods of t before it is known whether one
\* of them takes the value, and luaV_settable once more behind the assignment.
Forget(s, t) == [s EXCEPT !.tables[t].flags = {}]
Assigned(s, t, key, val) == Forget(luaH_set(s, t, key, val), t)
SetIn(s, t, key, val, loop) ==
  LET IsTable == t[1] = "table"
      set == IF IsTable THEN Forget(s, t[2]) ELSE s
      old == IF IsTable THEN luaH_get(s, t[2], key) ELSE Nil
      tm  == IF IsTable THEN fasttm(set, Meta(s, t), "newindex") ELSE Nil
      r   == IF IsTable THEN Remember(set, Meta(s, t), "newindex") ELSE s
  IN  CASE loop = 0 -> luaD_throw(s, ErrorObject)
        [] loop # 0 /\ (~IsTable \/ key = Nil) -> luaD_throw(set, ErrorObject)
        [] IsTable /\ key # Nil /\ loop # 0 /\ old # Nil -> Assigned(s, t[2], key, val)
        [] IsTable /\ key # Nil /\ loop # 0 /\ old = Nil /\ tm = Nil -> Assigned(r, t[2], key, val)
        [] IsTable /\ key # Nil /\ loop # 0 /\ old = Nil /\ Function(tm) ->
             CallTM(set, <<"nothing">>, tm, <<t, key, val>>)
        [] OTHER -> SetIn(set, tm, key, val, loop - 1)
luaV_settable(s, t, key, val) == SetIn(s, t, key, val, MaxTagLoop)

\* call_binTM: the first operand that has the metamethod.
BinTM(s, x, y, e) ==
  IF luaT_gettmbyobj(s, x, e) # Nil THEN luaT_gettmbyobj(s, x, e) ELSE luaT_gettmbyobj(s, y, e)
EventOf(op) == CASE op = "ADD" -> "add" [] op = "SUB" -> "sub" [] op = "MUL" -> "mul"
                 [] op = "MOD" -> "mod" [] op = "POW" -> "pow" [] op = "UNM" -> "unm"
Both(x, y, type) == x[1] = type /\ y[1] = type
ArithTo(s, op, to, x, y) ==
  LET tm == BinTM(s, x, y, EventOf(op))
  IN  CASE Both(x, y, "number") -> Pos(s, to, Num(Arith(op, x[2], y[2])))
        [] ~Both(x, y, "number") /\ tm # Nil -> CallTM(s, <<"result", to>>, tm, <<x, y>>)
        [] OTHER -> luaD_throw(s, ErrorObject)

\* get_compTM: only if both operands have the same metamethod.
CompTM(s, x, y) ==
  LET m1 == Meta(s, x)
      m2 == Meta(s, y)
      tm == fasttm(s, m1, "eq")
  IN  IF m1 = m2 \/ (tm # Nil /\ fasttm(s, m2, "eq") = tm) THEN tm ELSE Nil
Compared(s, x, y) ==   \* what luaT_gettm remembers
  LET r == Remember(s, Meta(s, x), "eq")
  IN  IF fasttm(s, Meta(s, x), "eq") = Nil \/ Meta(s, x) = Meta(s, y) THEN r
      ELSE Remember(r, Meta(s, y), "eq")
Equal(s, x, y, want) ==
  CASE x = y \/ ~Both(x, y, "table") -> Branch(s, (x = y) = want)
    [] x # y /\ Both(x, y, "table") /\ CompTM(s, x, y) = Nil ->
         Branch(Compared(s, x, y), FALSE = want)
    [] OTHER -> CallTM(s, <<"test", want>>, CompTM(s, x, y), <<x, y>>)
\* call_orderTM, tried with lt for not (y < x) when there is no le.
OrderTM(s, x, y, e) ==
  LET tm == luaT_gettmbyobj(s, x, e) IN IF luaT_gettmbyobj(s, y, e) = tm THEN tm ELSE Nil
Less(s, op, x, y, want) ==
  LET tm == OrderTM(s, x, y, IF op = "LT" THEN "lt" ELSE "le")
      lt == OrderTM(s, y, x, "lt")
      holds == IF op = "LT" THEN x[2] < y[2] ELSE x[2] <= y[2]
  IN  CASE Both(x, y, "number") -> Branch(s, holds = want)
        [] Both(x, y, "table") /\ tm # Nil -> CallTM(s, <<"test", want>>, tm, <<x, y>>)
        [] Both(x, y, "table") /\ tm = Nil /\ op = "LE" /\ lt # Nil ->
             CallTM(s, <<"test", ~want>>, lt, <<y, x>>)
        [] OTHER -> luaD_throw(s, ErrorObject)

\* luaV_concat: numbers become strings.
Piece(v) == IF v[1] = "number" THEN <<ToString(v[2])>> ELSE v[2]
Concat(s, to, vals) ==
  IF \A i \in DOMAIN vals : vals[i][1] \in {"string", "number"}
  THEN Pos(s, to, <<"string", FlattenSeq([i \in DOMAIN vals |-> Piece(vals[i])])>>)
  ELSE luaD_throw(s, ErrorObject)
Length(s, v) ==
  IF v[1] = "table" THEN luaH_getn(s, v[2]) ELSE FoldSeq(LAMBDA x, n : Len(x) + n, 0, v[2])

-----------------------------------------------------------------------------
(* Instructions.                                                           *)
I == Running(L).code[Ci(L).pc]
S == Goto(L, Ci(L).pc + 1)      \* the thread after the fetch
RA == Base(L) + I.a
RK_(x) == IF x >= BitRK THEN Running(L).k[x - BitRK + 1] ELSE Reg(L, x)
K_     == Running(L).k[I.b + 1]
Upval(i) == Cl(L).upvals[i + 1]
Globals == <<"table", 1>>

Instruction(ops) == L.status = "run" /\ I.op \in ops
Then(s) == L' = s /\ UNCHANGED <<program, main>>

Move     == Instruction({"MOVE"}) /\ Then(Pos(S, RA, Reg(L, I.b)))
LoadK    == Instruction({"LOADK"}) /\ Then(Pos(S, RA, K_))
LoadBool ==
  /\ Instruction({"LOADBOOL"})
  /\ Then(Pos(Goto(L, Ci(L).pc + 1 + I.c), RA, Bool(I.b = 1)))
LoadNil  == Instruction({"LOADNIL"}) /\ Then(Copy(S, RA, Nils(I.b - I.a + 1)))
GetUpval == Instruction({"GETUPVAL"}) /\ Then(Pos(S, RA, UpvalValue(L, Upval(I.b))))
SetUpval ==
  /\ Instruction({"SETUPVAL"})
  /\ LET u == Upval(I.b)
     IN  Then(IF L.upvals[u].at = 0 THEN [S EXCEPT !.upvals[u].v = L.stack[RA]]
              ELSE Pos(S, L.upvals[u].at, L.stack[RA]))
GetGlobal == Instruction({"GETGLOBAL"}) /\ Then(luaV_gettable(S, Globals, K_, RA))
SetGlobal == Instruction({"SETGLOBAL"}) /\ Then(luaV_settable(S, Globals, K_, L.stack[RA]))
GetTable  == Instruction({"GETTABLE"}) /\ Then(luaV_gettable(S, Reg(L, I.b), RK_(I.c), RA))
SetTable  == Instruction({"SETTABLE"}) /\ Then(luaV_settable(S, L.stack[RA], RK_(I.b), RK_(I.c)))
NewTable ==
  /\ Instruction({"NEWTABLE"})
  /\ Then([Pos(S, RA, <<"table", Len(L.tables) + 1>>) EXCEPT !.tables = Append(@, Table(<<>>))])
SelfOp ==
  /\ Instruction({"SELF"})
  /\ Then(luaV_gettable(Pos(S, RA + 1, Reg(L, I.b)), Reg(L, I.b), RK_(I.c), RA))
Arithmetic ==
  /\ Instruction({"ADD", "SUB", "MUL", "MOD", "POW"})
  /\ Then(ArithTo(S, I.op, RA, RK_(I.b), RK_(I.c)))
Unm == Instruction({"UNM"}) /\
       Then(IF Reg(L, I.b)[1] = "number" THEN Pos(S, RA, Num(0 - Reg(L, I.b)[2]))
            ELSE ArithTo(S, "UNM", RA, Reg(L, I.b), Reg(L, I.b)))
Not == Instruction({"NOT"}) /\ Then(Pos(S, RA, Bool(l_isfalse(Reg(L, I.b)))))
GetLen ==
  /\ Instruction({"LEN"})
  /\ Then(IF Reg(L, I.b)[1] \in {"table", "string"} THEN Pos(S, RA, Num(Length(L, Reg(L, I.b))))
          ELSE luaD_throw(S, ErrorObject))
Concatenate ==
  Instruction({"CONCAT"}) /\ Then(Concat(S, RA, FromTo(L, Base(L) + I.b, Base(L) + I.c)))
Jump == Instruction({"JMP"}) /\ Then(Goto(L, I.b))
Compare ==
  \/ Instruction({"EQ"}) /\ Then(Equal(S, RK_(I.b), RK_(I.c), I.a = 1))
  \/ Instruction({"LT", "LE"}) /\ Then(Less(S, I.op, RK_(I.b), RK_(I.c), I.a = 1))
Test == Instruction({"TEST"}) /\ Then(Branch(S, l_isfalse(L.stack[RA]) # (I.c = 1)))
TestSet ==
  /\ Instruction({"TESTSET"})
  /\ LET take == l_isfalse(Reg(L, I.b)) # (I.c = 1)
     IN  Then(Branch(IF take THEN Pos(S, RA, Reg(L, I.b)) ELSE S, take))

Pushed(s) == IF I.b = 0 THEN s ELSE Top(s, RA + I.b)
Call == Instruction({"CALL"}) /\ Then(luaD_precall(Pushed(S), RA, I.c - 1, <<"op">>))
\* The new frame takes the place of the frame that made the call.
Replaced(s) ==
  LET new == Last(s.ci)
      old == s.ci[Len(s.ci) - 1]
      down == new.func - old.func
      t == Copy(luaF_close(s, old.base), old.func, FromTo(s, new.func, s.top - 1))
  IN  [t EXCEPT !.top = s.top - down,
                !.ci = Append(SubSeq(@, 1, Len(@) - 2),
                              [old EXCEPT !.base = new.base - down, !.top = s.top - down, !.pc = 1])]
TailOf(s) == IF Len(s.ci) = Len(L.ci) + 1 /\ ~IsC(s, Last(s.ci)) THEN Replaced(s) ELSE s
TailCall ==
  Instruction({"TAILCALL"}) /\ Then(TailOf(luaD_precall(Pushed(S), RA, Multret, <<"op">>)))
Results == FromTo(L, RA, IF I.b = 0 THEN L.top - 1 ELSE RA + I.b - 2)
ReturnOp == Instruction({"RETURN"}) /\ Then(Return(luaF_close(S, Base(L)), Results))

\* The numbers of a loop are its hidden locals: the body cannot reach them.
ForLoop ==
  /\ Instruction({"FORLOOP"})
  /\ LET step == L.stack[RA + 2][2]
         idx  == L.stack[RA][2] + step
         lim  == L.stack[RA + 1][2]
     IN  Then(IF (step > 0 /\ idx <= lim) \/ (step <= 0 /\ lim <= idx)
              THEN Pos(Pos(Goto(L, I.b), RA, Num(idx)), RA + 3, Num(idx)) ELSE S)
ForPrep ==
  /\ Instruction({"FORPREP"})
  /\ Then(IF \E i \in RA .. RA + 2 : L.stack[i][1] # "number" THEN luaD_throw(S, ErrorObject)
          ELSE Pos(Goto(L, I.b), RA, Num(L.stack[RA][2] - L.stack[RA + 2][2])))
TForLoop ==
  /\ Instruction({"TFORLOOP"})
  /\ Then(luaD_precall(Top(Copy(S, RA + 3, FromTo(L, RA, RA + 2)), RA + 6), RA + 3, I.c, <<"for">>))

SetListOp ==
  /\ Instruction({"SETLIST"})
  /\ LET n == IF I.b = 0 THEN L.top - RA - 1 ELSE I.b
         s == IF I.b = 0 THEN Top(S, Ci(L).top) ELSE S
         c == IF I.c = 0 THEN Running(L).code[Ci(L).pc + 1].a ELSE I.c
         first == (c - 1) * LFieldsPerFlush
         keys == {Num(first + i) : i \in {j \in 1 .. n : L.stack[RA + j] # Nil}}
         new == [k \in keys |-> L.stack[RA + k[2] - first]]
     IN  Then([Goto(s, Ci(L).pc + (IF I.c = 0 THEN 2 ELSE 1))
                 EXCEPT !.tables[L.stack[RA][2]].map = new @@ @])
Close == Instruction({"CLOSE"}) /\ Then(luaF_close(S, RA))

\* The instructions after CLOSURE name the upvalues.
RECURSIVE Captured(_, _)
Captured(s, levels) ==
  IF levels = <<>> THEN s ELSE Captured(WithUpval(s, Head(levels)), Tail(levels))
ClosureOp ==
  /\ Instruction({"CLOSURE"})
  /\ LET n == Running(L).p[I.b + 1].nups
         pseudo == SubSeq(Running(L).code, Ci(L).pc + 1, Ci(L).pc + n)
         levels == [j \in 1 .. n |-> Base(L) + pseudo[j].b]
         moves == SelectSeq(levels, LAMBDA l : \E j \in 1 .. n : pseudo[j].op = "MOVE" /\ levels[j] = l)
         s == Captured(Goto(L, Ci(L).pc + 1 + n), moves)
         ups == [j \in 1 .. n |-> IF pseudo[j].op = "MOVE"
                                  THEN CHOOSE u \in OpenAt(s, levels[j]) : TRUE
                                  ELSE Upval(pseudo[j].b)]
     IN  Then([Pos(s, RA, <<"function", Len(L.closures) + 1>>)
                 EXCEPT !.closures = Append(@, [p |-> Append(Cl(L).p, I.b + 1), upvals |-> ups])])
VarArg ==
  /\ Instruction({"VARARG"})
  /\ LET n == Base(L) - Ci(L).func - Running(L).numparams - 1
         extra == FromTo(L, Base(L) - n, Base(L) - 1)
         vals == IF I.b = 0 THEN extra
                 ELSE [j \in 1 .. I.b - 1 |-> IF j <= n THEN extra[j] ELSE Nil]
     IN  Then(Copy(IF I.b = 0 THEN Top(S, RA + n) ELSE S, RA, vals))

-----------------------------------------------------------------------------
HostNames == {"f", "error", "setmetatable", "next", "pcall"}
\* lua_load leaves the main function as a closure; lua_call starts it.
Loaded ==
  [stack |-> <<<<"function", 1>>>> \o Nils(StackSize - 1), top |-> 2, ci |-> <<>>,
   upvals |-> <<>>, closures |-> <<[p |-> <<>>, upvals |-> <<>>]>>,
   tables |-> <<Table([k \in {Str(h) : h \in HostNames} |-> <<"host", k[2][1]>>])>>,
   out |-> <<>>, status |-> "load"]
Init == program \in DOMAIN Programs /\ main = <<>> /\ L = Loaded
Load ==
  /\ L.status = "load"
  /\ \E p \in {luaY_parser(Programs[program])} :
       /\ main' = p
       /\ L' = Enter([L EXCEPT !.status = "run"], p, 1, 2, Multret, <<"main">>)
  /\ UNCHANGED program
Stopped == L.status \in {"done", "error"} /\ UNCHANGED vars
Next ==
  \/ Load
  \/ Move \/ LoadK \/ LoadBool \/ LoadNil \/ GetUpval \/ SetUpval \/ GetGlobal \/ SetGlobal
  \/ GetTable \/ SetTable \/ NewTable \/ SelfOp \/ Arithmetic \/ Unm \/ Not \/ GetLen
  \/ Concatenate \/ Jump \/ Compare \/ Test \/ TestSet \/ Call \/ TailCall \/ ReturnOp
  \/ ForLoop \/ ForPrep \/ TForLoop \/ SetListOp \/ Close \/ ClosureOp \/ VarArg
  \/ Stopped
Spec == Init /\ [][Next]_vars

-----------------------------------------------------------------------------
(* Properties.                                                             *)
\* The assertions of the compiler hold while it reads a program, and the code
\* checker accepts every function (lua_assert in lparser.c and lcode.c).
AssertionsHold == main # <<>> => main.ok

\* An open upvalue is the only one of its position, and the position is that of
\* a local variable that is in scope in a function that runs: whatever way a
\* block is left, its upvalues are closed before its registers are used again.
InScope(f, at) ==
  \E l \in Range(ProtoAt(main, L.closures[L.stack[f.func][2]].p).locs) :
    at = f.base + l.reg /\ l.start <= f.pc /\ f.pc <= l.end
OpenUpvaluesAreLocals ==
  \A u \in {x \in DOMAIN L.upvals : L.upvals[x].at # 0} :
    /\ OpenAt(L, L.upvals[u].at) = {u}
    /\ \E f \in Range(L.ci) : ~IsC(L, f) /\ InScope(f, L.upvals[u].at)
=============================================================================
