------------------------------ MODULE LuaDebug ------------------------------
(***************************************************************************)
(* The code checker of the Lua interpreter (ldebug.c): symbolic execution  *)
(* of a function that the parser has finished.  A jump names its target.   *)
(***************************************************************************)
EXTENDS LuaCode

\* luaP_opmodes: how an instruction uses B and C.
BReg == {"MOVE", "LOADNIL", "GETTABLE", "SELF", "UNM", "NOT", "LEN", "CONCAT", "TEST", "TESTSET"}
ArithCode == {"ADD", "SUB", "MUL", "MOD", "POW"}
BOrK == {"SETTABLE", "EQ", "LT", "LE"} \cup ArithCode
CReg == {"CONCAT"}
COrK == {"GETTABLE", "SELF"} \cup BOrK
JumpsTo == {"JMP", "FORLOOP", "FORPREP"}

\* luaG_checkopenop: what may follow an open call.
luaG_checkopenop(i) == i.op \in {"CALL", "TAILCALL", "RETURN", "SETLIST"} /\ i.b = 0

precheck(f) ==
  /\ f.numparams + (IF "has" \in f.vararg THEN 1 ELSE 0) <= f.max
  /\ "needs" \in f.vararg => "has" \in f.vararg
  /\ f.code # <<>> /\ Last(f.code).op = "RETURN"

\* symbexec without tracing: the conditions on the instruction at pc.
IsRK(f, r) == IF r >= BitRK THEN r - BitRK < Len(f.k) ELSE r < f.max
Operands(f, i) ==
  /\ i.a < f.max
  /\ i.op \in BReg => i.b < f.max
  /\ i.op \in CReg => i.c < f.max
  /\ i.op \in BOrK => IsRK(f, i.b)
  /\ i.op \in COrK => IsRK(f, i.c)
  /\ i.op \in {"LOADK", "GETGLOBAL", "SETGLOBAL"} => i.b < Len(f.k)
  /\ i.op \in {"GETGLOBAL", "SETGLOBAL"} => f.k[i.b + 1][1] = "string"
  /\ i.op \in {"GETUPVAL", "SETUPVAL"} => i.b < f.nups
Targets_(f, pc, i) ==
  /\ i.op \in JumpsTo => i.b \in DOMAIN f.code /\ f.code[i.b].op # "COUNT"
  /\ i.op \in TestMode => pc + 2 <= Len(f.code) /\ f.code[pc + 1].op = "JMP"
  /\ i.op = "LOADBOOL" /\ i.c = 1 =>
       pc + 2 <= Len(f.code) /\ ~(f.code[pc + 1].op = "SETLIST" /\ f.code[pc + 1].c = 0)
Ranges(f, pc, i) ==
  /\ i.op = "SELF" => i.a + 1 < f.max
  /\ i.op = "CONCAT" => i.b < i.c
  /\ i.op = "TFORLOOP" => i.c >= 1 /\ i.a + 2 + i.c < f.max
  /\ i.op \in {"FORLOOP", "FORPREP"} => i.a + 3 < f.max
  /\ i.op \in {"CALL", "TAILCALL"} =>
       /\ i.b # 0 => i.a + i.b - 1 < f.max
       /\ IF i.c = 0 THEN luaG_checkopenop(f.code[pc + 1]) ELSE i.c > 1 => i.a + i.c - 2 < f.max
  /\ i.op = "RETURN" /\ i.b > 1 => i.a + i.b - 2 < f.max
  /\ i.op = "SETLIST" => /\ i.b > 0 => i.a + i.b < f.max
                         /\ i.c = 0 => pc + 2 <= Len(f.code)
  /\ i.op = "VARARG" => /\ "is" \in f.vararg /\ "needs" \notin f.vararg
                        /\ IF i.b = 0 THEN luaG_checkopenop(f.code[pc + 1])
                           ELSE i.a + i.b - 2 < f.max
  /\ i.op = "CLOSURE" =>
       /\ i.b < Len(f.p) /\ pc + f.p[i.b + 1].nups <= Len(f.code)
       /\ \A j \in 1 .. f.p[i.b + 1].nups : f.code[pc + j].op \in {"GETUPVAL", "MOVE"}
luaG_checkcode(f) ==
  /\ precheck(f)
  /\ \A pc \in DOMAIN f.code :
       LET i == f.code[pc]
       IN  i.op = "COUNT" \/ (Operands(f, i) /\ Targets_(f, pc, i) /\ Ranges(f, pc, i))
=============================================================================
