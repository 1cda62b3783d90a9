------------------------------ MODULE LuaCode ------------------------------
(***************************************************************************)
(* The code generator of the Lua interpreter (lcode.c): operators on the   *)
(* state of the function that is being compiled.  A function state fs is a *)
(* record; its field e is the expression the C functions get by pointer.   *)
(* Registers and constants are numbered from 0, instructions from 1, and   *)
(* the operand of a jump is the instruction it leads to.                   *)
(***************************************************************************)
EXTENDS Integers, Sequences, SequencesExt

CONSTANTS
  MaxIndexRK,       \* the last constant that fits an operand B or C
  MaxArgC,
  LFieldsPerFlush   \* LFIELDS_PER_FLUSH

NoJump  == 0
NoReg   == 255
BitRK   == 256
Multret == -1

\* Values: a type and what distinguishes the values of the type.  A string is
\* the sequence of the pieces it was put together from.
Nil     == <<"nil", 0>>
Bool(b) == <<"boolean", b>>
Num(n)  == <<"number", n>>
Str(s)  == <<"string", <<s>>>>

Instr(op, a, b, c) == [op |-> op, a |-> a, b |-> b, c |-> c]
Exp(k, info)       == [k |-> k, info |-> info, aux |-> 0, t |-> NoJump, f |-> NoJump]

\* A value that is used more than once.
Let(x, F(_)) == F(x)

Pc(fs)      == Len(fs.code) + 1
NAct(fs)    == Len(fs.act)          \* nactvar
With(fs, e) == [fs EXCEPT !.e = e]
Become(fs, k, info) == [fs EXCEPT !.e.k = k, !.e.info = info]
Checked(fs, p) == [fs EXCEPT !.ok = @ /\ p]   \* lua_assert

HasJumps(e)   == e.t # e.f
IsNumeral(e)  == e.k = "KNUM" /\ e.t = NoJump /\ e.f = NoJump
HasMultret(e) == e.k \in {"CALL", "VARARG"}

-----------------------------------------------------------------------------
(* Jump lists, threaded through the operands of the jumps; a jump to itself*)
(* ends a list.                                                            *)
TestMode == {"EQ", "LT", "LE", "TEST", "TESTSET", "TFORLOOP"}   \* testTMode

getjump(code, j) == IF code[j].b = j THEN NoJump ELSE code[j].b
RECURSIVE Jumps(_, _)
Jumps(code, list) ==
  IF list = NoJump THEN <<>> ELSE <<list>> \o Jumps(code, getjump(code, list))
getjumpcontrol(code, j) == IF j > 1 /\ code[j - 1].op \in TestMode THEN j - 1 ELSE j

\* luaK_concat: the list that begins with l1 or, if that is empty, with l2.
First(l1, l2) == IF l1 = NoJump THEN l2 ELSE l1
Linked(code, l1, l2) ==
  IF NoJump \in {l1, l2} THEN code ELSE [code EXCEPT ![Last(Jumps(code, l1))].b = l2]

need_value(code, list) ==
  \E j \in Range(Jumps(code, list)) : code[getjumpcontrol(code, j)].op # "TESTSET"

patchtestreg(code, j, reg) ==
  LET p == getjumpcontrol(code, j)
      i == code[p]
  IN  CASE i.op # "TESTSET" -> code
        [] i.op = "TESTSET" /\ reg \notin {NoReg, i.b} -> [code EXCEPT ![p].a = reg]
        [] OTHER -> [code EXCEPT ![p] = Instr("TEST", i.b, 0, i.c)]
RECURSIVE removevalues(_, _)
removevalues(code, list) ==
  IF list = NoJump THEN code
  ELSE removevalues(patchtestreg(code, list, NoReg), getjump(code, list))

RECURSIVE patchlistaux(_, _, _, _, _)
patchlistaux(code, list, vtarget, reg, dtarget) ==
  LET valued == code[getjumpcontrol(code, list)].op = "TESTSET"
  IN  IF list = NoJump THEN code
      ELSE patchlistaux([patchtestreg(code, list, reg)
                           EXCEPT ![list].b = IF valued THEN vtarget ELSE dtarget],
                        getjump(code, list), vtarget, reg, dtarget)

\* luaK_code; the jumps that wait for the next instruction lead to it.
luaK_code(fs, op, a, b, c) ==
  [fs EXCEPT !.code = Append(patchlistaux(@, fs.jpc, Pc(fs), NoReg, Pc(fs)), Instr(op, a, b, c)),
             !.jpc = NoJump]
luaK_jump(fs) ==
  [fs EXCEPT !.code = Append(@, Instr("JMP", 0, First(fs.jpc, Pc(fs)), 0)), !.jpc = NoJump]
condjump(fs, op, a, b, c) == luaK_jump(luaK_code(fs, op, a, b, c))

luaK_getlabel(fs) == [fs EXCEPT !.lasttarget = Pc(fs)]
luaK_patchtohere(fs, list) ==
  [luaK_getlabel(fs) EXCEPT !.jpc = First(@, list), !.code = Linked(@, fs.jpc, list)]
luaK_patchlist(fs, list, target) ==
  IF target = Pc(fs) THEN luaK_patchtohere(fs, list)
  ELSE [fs EXCEPT !.code = patchlistaux(@, list, target, NoReg, target)]

luaK_nil(fs, from, n) ==
  LET pc   == Pc(fs)
      last == fs.code[pc - 1]
  IN  IF pc > fs.lasttarget /\ pc = 1 /\ from >= NAct(fs) THEN fs
      ELSE IF /\ pc > fs.lasttarget /\ pc > 1 /\ last.op = "LOADNIL"
              /\ last.a <= from /\ from <= last.b + 1
      THEN [fs EXCEPT !.code[pc - 1].b = IF from + n - 1 > @ THEN from + n - 1 ELSE @]
      ELSE luaK_code(fs, "LOADNIL", from, from + n - 1, 0)

-----------------------------------------------------------------------------
(* Registers and constants.                                                *)
luaK_checkstack(fs, n)  == [fs EXCEPT !.max = IF fs.free + n > @ THEN fs.free + n ELSE @]
luaK_reserveregs(fs, n) == [luaK_checkstack(fs, n) EXCEPT !.free = @ + n]
freereg(fs, reg) ==
  IF reg < BitRK /\ reg >= NAct(fs)
  THEN Checked([fs EXCEPT !.free = @ - 1], reg = fs.free - 1) ELSE fs
freeexp(fs, e) == IF e.k = "NONRELOC" THEN freereg(fs, e.info) ELSE fs

addk(fs, v)   == IF Contains(fs.k, v) THEN fs ELSE [fs EXCEPT !.k = Append(@, v)]
KOf(fs, v)    == SelectInSeq(fs.k, LAMBDA x : x = v) - 1
\* A constant expression in the table of constants.
Constant(fs, v) == LET s == addk(fs, v) IN Become(s, "K", KOf(s, v))
ValueOfExp(e) == CASE e.k = "NIL" -> Nil [] e.k = "TRUE" -> Bool(TRUE)
                   [] e.k = "FALSE" -> Bool(FALSE) [] OTHER -> Num(e.info)

-----------------------------------------------------------------------------
(* Expressions: from a description to a value in a register.               *)
luaK_setreturns(fs, n) ==
  CASE fs.e.k = "CALL" -> [fs EXCEPT !.code[fs.e.info].c = n + 1]
    [] fs.e.k = "VARARG" -> luaK_reserveregs(
         [fs EXCEPT !.code[fs.e.info] = [@ EXCEPT !.b = n + 1, !.a = fs.free]], 1)
    [] OTHER -> fs
luaK_setoneret(fs) ==
  CASE fs.e.k = "CALL" -> Become(fs, "NONRELOC", fs.code[fs.e.info].a)
    [] fs.e.k = "VARARG" -> [fs EXCEPT !.code[fs.e.info].b = 2, !.e.k = "RELOCABLE"]
    [] OTHER -> fs

Reloc(fs, op, b, c) == Become(luaK_code(fs, op, 0, b, c), "RELOCABLE", Pc(fs))
luaK_dischargevars(fs) ==
  LET e == fs.e
  IN  CASE e.k = "LOCAL"   -> Become(fs, "NONRELOC", e.info)
        [] e.k = "UPVAL"   -> Reloc(fs, "GETUPVAL", e.info, 0)
        [] e.k = "GLOBAL"  -> Reloc(fs, "GETGLOBAL", e.info, 0)
        [] e.k = "INDEXED" -> Reloc(freereg(freereg(fs, e.aux), e.info), "GETTABLE", e.info, e.aux)
        [] e.k \in {"CALL", "VARARG"} -> luaK_setoneret(fs)
        [] OTHER -> fs

InRegister(fs, reg) == Become(fs, "NONRELOC", reg)
ToReg(fs, reg) ==
  LET e == fs.e
  IN  CASE e.k = "NIL"  -> InRegister(luaK_nil(fs, reg, 1), reg)
        [] e.k \in {"TRUE", "FALSE"} ->
             InRegister(luaK_code(fs, "LOADBOOL", reg, IF e.k = "TRUE" THEN 1 ELSE 0, 0), reg)
        [] e.k = "K"    -> InRegister(luaK_code(fs, "LOADK", reg, e.info, 0), reg)
        [] e.k = "KNUM" -> Let(Constant(fs, ValueOfExp(e)), LAMBDA s :
             InRegister(luaK_code(s, "LOADK", reg, s.e.info, 0), reg))
        [] e.k = "RELOCABLE" -> InRegister([fs EXCEPT !.code[e.info].a = reg], reg)
        [] e.k = "NONRELOC"  ->
             InRegister(IF reg = e.info THEN fs ELSE luaK_code(fs, "MOVE", reg, e.info, 0), reg)
        [] OTHER -> fs
discharge2reg(fs, reg) == ToReg(luaK_dischargevars(fs), reg)
discharge2anyreg(fs) ==
  IF fs.e.k = "NONRELOC" THEN fs
  ELSE discharge2reg(luaK_reserveregs(fs, 1), fs.free)

\* The jumps out of the expression that carry no value lead to the two
\* instructions that load false and true.
code_label(fs, reg, b, jump) == luaK_code(luaK_getlabel(fs), "LOADBOOL", reg, b, jump)
LoadBools(fs, reg) ==
  LET jump == fs.e.k # "JMP"
  IN  luaK_patchtohere(code_label(code_label(IF jump THEN luaK_jump(fs) ELSE fs, reg, 0, 1), reg, 1, 0),
                       IF jump THEN Pc(fs) ELSE NoJump)
Patched(fs, reg, pf, pt) ==
  [fs EXCEPT !.code = patchlistaux(patchlistaux(@, fs.e.f, Pc(fs), reg, pf), fs.e.t, Pc(fs), reg, pt)]
Values(fs, reg) ==
  IF need_value(fs.code, fs.e.t) \/ need_value(fs.code, fs.e.f)
  THEN Let(LoadBools(fs, reg), LAMBDA s : Patched(luaK_getlabel(s), reg, Pc(s) - 2, Pc(s) - 1))
  ELSE Patched(luaK_getlabel(fs), reg, NoJump, NoJump)
\* A comparison itself is the last jump of the list of true.
JumpInList(fs) ==
  IF fs.e.k # "JMP" THEN fs
  ELSE [fs EXCEPT !.code = Linked(@, fs.e.t, fs.e.info), !.e.t = First(@, fs.e.info)]
Finished(fs, reg) == With(IF HasJumps(fs.e) THEN Values(fs, reg) ELSE fs, Exp("NONRELOC", reg))
exp2reg(fs, reg) == Finished(JumpInList(discharge2reg(fs, reg)), reg)

NextReg(fs) == Let(freeexp(fs, fs.e), LAMBDA s : exp2reg(luaK_reserveregs(s, 1), s.free))
luaK_exp2nextreg(fs) == NextReg(luaK_dischargevars(fs))
AnyReg(fs) ==
  CASE fs.e.k = "NONRELOC" /\ ~HasJumps(fs.e) -> fs
    [] fs.e.k = "NONRELOC" /\ HasJumps(fs.e) /\ fs.e.info >= NAct(fs) -> exp2reg(fs, fs.e.info)
    [] OTHER -> NextReg(fs)
luaK_exp2anyreg(fs) == AnyReg(luaK_dischargevars(fs))
luaK_exp2val(fs) == IF HasJumps(fs.e) THEN luaK_exp2anyreg(fs) ELSE luaK_dischargevars(fs)

\* The operand is RK of the result.
RK(e) == IF e.k = "K" THEN BitRK + e.info ELSE e.info
ToRK(fs) ==
  CASE fs.e.k \in {"KNUM", "TRUE", "FALSE", "NIL"} /\ Len(fs.k) <= MaxIndexRK ->
         Constant(fs, ValueOfExp(fs.e))
    [] fs.e.k = "K" /\ fs.e.info <= MaxIndexRK -> fs
    [] OTHER -> luaK_exp2anyreg(fs)
luaK_exp2RK(fs) == ToRK(luaK_exp2val(fs))

\* The value fs.e goes to the variable var.
Stored(fs, op, a, b) == freeexp(luaK_code(fs, op, a, b, 0), fs.e)
luaK_storevar(fs, var) ==
  CASE var.k = "LOCAL" -> exp2reg(freeexp(fs, fs.e), var.info)
    [] var.k = "UPVAL" -> Let(luaK_exp2anyreg(fs), LAMBDA s : Stored(s, "SETUPVAL", s.e.info, var.info))
    [] var.k = "GLOBAL" -> Let(luaK_exp2anyreg(fs), LAMBDA s : Stored(s, "SETGLOBAL", s.e.info, var.info))
    [] var.k = "INDEXED" -> Let(luaK_exp2RK(fs), LAMBDA s :
         freeexp(luaK_code(s, "SETTABLE", var.info, var.aux, RK(s.e)), s.e))

luaK_self(fs, key) ==
  Let(luaK_exp2anyreg(fs), LAMBDA o :
  Let(freeexp(o, o.e), LAMBDA f :
  Let(luaK_exp2RK(With(luaK_reserveregs(f, 2), key)), LAMBDA s :
    With(freeexp(luaK_code(s, "SELF", f.free, o.e.info, RK(s.e)), s.e), [o.e EXCEPT !.info = f.free]))))

luaK_indexed(fs, t) ==   \* fs.e is the key
  Let(luaK_exp2RK(fs), LAMBDA s : With(s, [t EXCEPT !.k = "INDEXED", !.aux = RK(s.e)]))

-----------------------------------------------------------------------------
(* Conditions and operators.                                               *)
invertjump(fs) ==
  LET i == getjumpcontrol(fs.code, fs.e.info)
  IN  Checked([fs EXCEPT !.code[i].a = 1 - @], fs.code[i].op \in {"EQ", "LT", "LE"})

\* The jump is the last instruction.
OnTest(fs, cond) == condjump(freeexp(fs, fs.e), "TESTSET", NoReg, fs.e.info, cond)
jumponcond(fs, cond) ==
  IF fs.e.k = "RELOCABLE" /\ fs.code[fs.e.info].op = "NOT"
  THEN condjump([fs EXCEPT !.code = Front(@)], "TEST", fs.code[fs.e.info].b, 0, 1 - cond)
  ELSE OnTest(discharge2anyreg(fs), cond)

\* Jump if the value is not cond: list f of goiftrue, list t of goiffalse.
IfTrue(fs) ==
  LET To(s, pc) == [luaK_patchtohere([s EXCEPT !.code = Linked(@, fs.e.f, pc), !.e.f = First(@, pc)],
                                     fs.e.t) EXCEPT !.e.t = NoJump]
  IN  CASE fs.e.k \in {"K", "KNUM", "TRUE"} -> To(fs, NoJump)
        [] fs.e.k = "JMP" -> To(invertjump(fs), fs.e.info)
        [] OTHER -> Let(jumponcond(fs, 0), LAMBDA s : To(s, Pc(s) - 1))
IfFalse(fs) ==
  LET To(s, pc) == [luaK_patchtohere([s EXCEPT !.code = Linked(@, fs.e.t, pc), !.e.t = First(@, pc)],
                                     fs.e.f) EXCEPT !.e.f = NoJump]
  IN  CASE fs.e.k \in {"NIL", "FALSE"} -> To(fs, NoJump)
        [] fs.e.k = "JMP" -> To(fs, fs.e.info)
        [] OTHER -> Let(jumponcond(fs, 1), LAMBDA s : To(s, Pc(s) - 1))
luaK_goiftrue(fs)  == IfTrue(luaK_dischargevars(fs))
luaK_goiffalse(fs) == IfFalse(luaK_dischargevars(fs))

Negated(fs) ==
  CASE fs.e.k \in {"NIL", "FALSE"} -> [fs EXCEPT !.e.k = "TRUE"]
    [] fs.e.k \in {"K", "KNUM", "TRUE"} -> [fs EXCEPT !.e.k = "FALSE"]
    [] fs.e.k = "JMP" -> invertjump(fs)
    [] OTHER -> Let(discharge2anyreg(fs), LAMBDA s : Reloc(freeexp(s, s.e), "NOT", s.e.info, 0))
ValuesKept(fs) == [fs EXCEPT !.e.t = fs.e.f, !.e.f = fs.e.t]   \* mutant: no removevalues
Exchanged(fs) ==
  [fs EXCEPT !.e.t = fs.e.f, !.e.f = fs.e.t, !.code = removevalues(removevalues(@, fs.e.t), fs.e.f)]
codenot(fs) == Exchanged(Negated(luaK_dischargevars(fs)))

\* constfolding; numbers are small integers.
Arith(op, x, y) == CASE op = "ADD" -> x + y [] op = "SUB" -> x - y [] op = "MUL" -> x * y
                     [] op = "MOD" -> x % y [] op = "POW" -> x ^ y [] op = "UNM" -> 0 - x
CanFold(op, e1, e2) ==
  /\ IsNumeral(e1) /\ IsNumeral(e2) /\ op \notin {"LEN", "CONCAT"}
  /\ op = "MOD" => e2.info # 0

\* The second operand is fs.e.
InOrder(fs, e1, e2) == freeexp(freeexp(fs, e1), e2)   \* mutant
BothFreed(fs, e1, e2) ==   \* the higher register first
  IF RK(e1) > RK(e2) THEN freeexp(freeexp(fs, e1), e2) ELSE freeexp(freeexp(fs, e2), e1)
codearith(fs, op, e1) ==
  CASE CanFold(op, e1, fs.e) -> With(fs, [e1 EXCEPT !.info = Arith(op, e1.info, fs.e.info)])
    [] ~CanFold(op, e1, fs.e) /\ op \in {"UNM", "LEN"} ->
         Let(luaK_exp2RK(With(fs, e1)), LAMBDA s :
           Reloc(BothFreed(s, s.e, fs.e), op, RK(s.e), 0))
    [] OTHER ->
         Let(luaK_exp2RK(fs), LAMBDA s2 :
         Let(luaK_exp2RK(With(s2, e1)), LAMBDA s1 :
           Reloc(BothFreed(s1, s1.e, s2.e), op, RK(s1.e), RK(s2.e))))

codecomp(fs, op, cond, e1) ==
  LET Swap == cond = 0 /\ op # "EQ"
      Test(s, o1, o2) == condjump(s, op, IF Swap THEN 1 ELSE cond, IF Swap THEN o2 ELSE o1,
                                  IF Swap THEN o1 ELSE o2)
  IN  Let(luaK_exp2RK(With(fs, e1)), LAMBDA s1 :
      Let(luaK_exp2RK(With(s1, fs.e)), LAMBDA s2 :
      Let(Test(With(freeexp(freeexp(s2, s2.e), s1.e), s1.e), RK(s1.e), RK(s2.e)), LAMBDA j :
        Become(j, "JMP", Pc(j) - 1))))

luaK_prefix(fs, op) ==
  LET zero == Exp("KNUM", 0)
      On(s, o) == codearith(With(s, zero), o, s.e)
  IN  CASE op = "not" -> codenot(fs)
        [] op = "-"   -> On(IF IsNumeral(fs.e) THEN fs ELSE luaK_exp2anyreg(fs), "UNM")
        [] op = "#"   -> On(luaK_exp2anyreg(fs), "LEN")

ArithOps == [x \in {"+", "-", "*", "%", "^"} |->
               CASE x = "+" -> "ADD" [] x = "-" -> "SUB" [] x = "*" -> "MUL"
                 [] x = "%" -> "MOD" [] x = "^" -> "POW"]
luaK_infix(fs, op) ==
  CASE op = "and" -> luaK_goiftrue(fs)
    [] op = "or"  -> luaK_goiffalse(fs)
    [] op = ".."  -> luaK_exp2nextreg(fs)
    [] op \in DOMAIN ArithOps -> IF IsNumeral(fs.e) THEN fs ELSE luaK_exp2RK(fs)
    [] OTHER -> luaK_exp2RK(fs)

\* The right operand is fs.e.
Concat2(fs, e1) ==
  IF fs.e.k = "RELOCABLE" /\ fs.code[fs.e.info].op = "CONCAT"
  THEN With([Checked(freeexp(fs, e1), e1.info = fs.code[fs.e.info].b - 1)
               EXCEPT !.code[fs.e.info].b = e1.info],
            [e1 EXCEPT !.k = "RELOCABLE", !.info = fs.e.info])
  ELSE codearith(luaK_exp2nextreg(fs), "CONCAT", e1)
AndOr(fs, op, e1) ==
  IF op = "and" THEN Checked([fs EXCEPT !.code = Linked(@, fs.e.f, e1.f), !.e.f = First(@, e1.f)],
                            e1.t = NoJump)
  ELSE Checked([fs EXCEPT !.code = Linked(@, fs.e.t, e1.t), !.e.t = First(@, e1.t)], e1.f = NoJump)
luaK_posfix(fs, op, e1) ==
  CASE op \in {"and", "or"} -> AndOr(luaK_dischargevars(fs), op, e1)
    [] op = ".." -> Concat2(luaK_exp2val(fs), e1)
    [] op \in DOMAIN ArithOps -> codearith(fs, ArithOps[op], e1)
    [] op = "==" -> codecomp(fs, "EQ", 1, e1)
    [] op = "~=" -> codecomp(fs, "EQ", 0, e1)
    [] op = "<"  -> codecomp(fs, "LT", 1, e1)
    [] op = "<=" -> codecomp(fs, "LE", 1, e1)
    [] op = ">"  -> codecomp(fs, "LT", 0, e1)
    [] op = ">=" -> codecomp(fs, "LE", 0, e1)

luaK_setlist(fs, base, nelems, tostore) ==
  LET c == (nelems - 1) \div LFieldsPerFlush + 1
      b == IF tostore = Multret THEN 0 ELSE tostore
  IN  [IF c <= MaxArgC THEN luaK_code(fs, "SETLIST", base, b, c)
       ELSE luaK_code(luaK_code(fs, "SETLIST", base, b, 0), "COUNT", c, 0, 0)
         EXCEPT !.free = base + 1]
=============================================================================
