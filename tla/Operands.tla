------------------------------ MODULE Operands ------------------------------
(***************************************************************************)
(* Expressions: the operand stack and the four registers of CL_CodeGen.cpp *)
(* while CL_Syntax.cpp parses one expression after another.  An operand is *)
(* pushed where its value can be found (a constant, a variable, the flags) *)
(* and loaded late; when the registers run out the first operand that      *)
(* holds one is stored in the frame.                                       *)
(*                                                                         *)
(* The parser calls the generator in postfix order, so a step is one call: *)
(* a leaf is pushed, an operator works on the top, a statement ends.  The  *)
(* code emitted is run on a symbolic machine: a register, the flags and    *)
(* the frame hold tokens.  <<i, d>> is what operand number i stands for,   *)
(* read through d pointers more; an instruction whose inputs are not what  *)
(* the operands stand for leaves Junk.                                     *)
(***************************************************************************)
EXTENDS Integers, Sequences, FiniteSets, SequencesExt

CONSTANT
  Programs   \* the operators a program uses, and the bound of its operand stack

AllForms == {"alu", "mul", "div", "mod", "rel", "address", "deref", "member",
             "assign", "call", "comma", "wide", "array"}

ASSUME OperandsAssumption ==
  Programs \subseteq [forms : SUBSET AllForms, operands : Nat]

VARIABLES
  stack,   \* codegen.operand_stack, the top last
  reg,     \* what each register holds
  flags,   \* what the comparison in the flag register stands for
  frame,   \* the dword last stored in the frame: its offset, what it holds
  loc,     \* codegen.loc: the lowest offset handed out in the frame
  program, \* the program being compiled, one of Programs
  locals,  \* the function has a local variable in the frame
  lost,    \* history: the current statement met what miscompiles it (LoseIf)
  right    \* history: its stores, arguments, jumps and results were right

vars == <<stack, reg, flags, frame, loc, program, locals, lost, right>>

-----------------------------------------------------------------------------
Regs == 0 .. 3
EAX == 0
ECX == 1
EDX == 2
REG_IRET == EAX
REG_ANY == 8

SC_GLOBAL == 240
SC_LOCAL  == 241
SC_CMP    == 243

Types == {"int", "ptr", "struct", "sptr", "func"}
Pointed == [ptr |-> "int", sptr |-> "struct"]
mk_pointer == [int |-> "ptr", struct |-> "sptr"]

Forms == program.forms
MaxOperands == program.operands

Junk == <<0, 0>>
Tokens == Nat \X Int
Reads(t) == IF t = Junk THEN Junk ELSE <<t[1], t[2] + 1>>
Points(t) == <<t[1], t[2] - 1>>

\* value: 1 for a constant that does not fit a signed char, the offset of an
\* operand stored in the frame.  base: what is at hand without a register, the
\* address of a variable or the value of a constant; Junk for an operand in
\* a register or stored in the frame.  stands, object (history): the token it
\* stands for, and whether it is an object of the program (what is spilled has
\* SC_LVAL as well, and is none).
Operand == [r : Regs \cup (SC_GLOBAL .. SC_CMP), lval : BOOLEAN, sym : BOOLEAN,
            value : Int, type : Types, base : Tokens, stands : Tokens,
            object : BOOLEAN]

\* The state every call of the generator takes and returns.
State == [stack |-> stack, reg |-> reg, flags |-> flags, frame |-> frame,
          loc |-> loc, lost |-> lost, right |-> right]

Top(s) == Len(s.stack)
Second(s) == Len(s.stack) - 1
Pop(s) == [s EXCEPT !.stack = Front(@)]
\* OperandStack::swap assigns to the top twice: what it wrote there first is
\* overwritten with what was there before, and the second operand never changes.
Swap(s) == [s EXCEPT !.stack[Top(s)] = s.stack[Top(s)]]
UsesReg(s, r) == {i \in DOMAIN s.stack : s.stack[i].r = r}
InFrame(o) == o.r = SC_LOCAL /\ o.base = Junk
IsConst(o) == o.r = SC_GLOBAL /\ ~o.lval /\ ~o.sym

\* The statement is lost when it needs what the generator does not do: two dwords
\* of the frame at once, flags kept over an instruction that sets them, an lvalue
\* in a spilled register, a value moved between registers, an immediate of more
\* than a byte, a quotient, pointers compared or subtracted, a second argument,
\* a constant condition, the initializer of a local variable.
LoseIf(s, bad) == [s EXCEPT !.lost = @ \/ bad]
Lose(s) == LoseIf(s, TRUE)
Check(s, ok) == [s EXCEPT !.right = @ /\ ok]

\* A number no operand on the stack has.
FreshId(s) == 1 + Max({0} \cup {s.stack[i].stands[1] : i \in DOMAIN s.stack})

\* What the machine reads when operand o is loaded.
ValueOf(s, o) ==
  LET there == IF o.r \in Regs THEN s.reg[o.r]
               ELSE IF o.r = SC_CMP THEN s.flags ELSE o.base
  IN IF InFrame(o) THEN IF o.value = s.frame.at THEN s.frame.holds ELSE Junk
     ELSE IF o.lval THEN Reads(there) ELSE there

Holds(s, i) == ValueOf(s, s.stack[i]) = s.stack[i].stands

\* An instruction can take operand i from its register.
Ready(s, i) == s.stack[i].r \in Regs /\ Holds(s, i)

\* The end of a call: tokens are named after the positions of the operands they
\* belong to, and those that no operand refers to are forgotten.  A statement
\* that is lost keeps the places of its operands and no tokens.
Write(s) ==
  LET Id(i) == s.stack[i].stands[1]
      live == IF s.lost THEN {} ELSE {Id(i) : i \in DOMAIN s.stack}
      place == [k \in live |-> CHOOSE i \in DOMAIN s.stack : Id(i) = k]
      Named(t) == IF t[1] \in live THEN <<place[t[1]], t[2]>> ELSE Junk
      Kept(t, used) == IF used THEN Named(t) ELSE Junk
  IN /\ loc' = s.loc /\ lost' = s.lost /\ right' = (s.lost \/ s.right)
     /\ stack' = [i \in DOMAIN s.stack |->
                    [s.stack[i] EXCEPT !.base = IF @ = Junk THEN Junk ELSE <<i, @[2]>>,
                                       !.stands = <<i, @[2]>>]]
     /\ reg' = [r \in Regs |-> Kept(s.reg[r], UsesReg(s, r) # {})]
     /\ flags' = Kept(s.flags, UsesReg(s, SC_CMP) # {})
     /\ frame' = [at |-> s.frame.at,
                  holds |-> Kept(s.frame.holds,
                                 \E i \in DOMAIN s.stack : InFrame(s.stack[i]))]

-----------------------------------------------------------------------------
\* (n + align - 1) & (align - 1), align a power of two
calc_align(n, align) == (n + align - 1) % align

\* An arithmetic instruction sets the flags.
Clobber(s) == LoseIf([s EXCEPT !.flags = Junk], UsesReg(s, SC_CMP) # {})

\* The first operand that r holds is stored in four new bytes of the frame and
\* becomes an lvalue there, also when r held its address.  calc_align makes
\* every offset one of 0 .. 3, so it overlaps every other dword of the frame.
spill_reg(s, r) ==
  LET i == Min(UsesReg(s, r))
      at == calc_align(s.loc - 4, 4)
      shared == locals \/ \E j \in DOMAIN s.stack : InFrame(s.stack[j])
      t == [s EXCEPT !.loc = at,
                     !.frame = [at |-> at, holds |-> s.reg[r]],
                     !.stack[i] = [@ EXCEPT !.r = SC_LOCAL, !.lval = TRUE,
                                            !.value = at, !.base = Junk]]
  IN IF UsesReg(s, r) = {} THEN s
     ELSE LoseIf(LoseIf(t, shared), s.stack[i].lval)

KeepRegs(s) == s   \* mutant: a call spills nothing
SpillFirst(s) ==
  LET held == {i \in DOMAIN s.stack : s.stack[i].r \in Regs}
  IN IF held = {} THEN s ELSE spill_reg(s, s.stack[Min(held)].r)
\* From the bottom of the stack; a register is the place of one operand, so that
\* no more than four are spilled.
spill_regs(s) == SpillFirst(SpillFirst(SpillFirst(SpillFirst(s))))

LvaluesFree(s) ==   \* mutant: compared without the mask, an lvalue is overlooked
  {r \in Regs : \A i \in UsesReg(s, r) : s.stack[i].lval}
FreeRegs(s) == {r \in Regs : UsesReg(s, r) = {}}

\* A register of class rc, and the state once it is free.
allocate_reg(s, rc) ==
  LET fits == IF rc = REG_ANY THEN Regs ELSE {rc}
      free == fits \cap FreeRegs(s)
      first == Min({i \in DOMAIN s.stack : s.stack[i].r \in fits})
      r == IF free # {} THEN Min(free) ELSE s.stack[first].r
  IN [r |-> r, s |-> IF free # {} THEN s ELSE spill_reg(s, r)]

\* load(r, opd), then the assignment opd->r = r of load_1
load(a, i) ==
  [a.s EXCEPT !.reg[a.r] = ValueOf(a.s, a.s.stack[i]),
              !.stack[i] = [@ EXCEPT !.r = a.r, !.lval = FALSE, !.sym = FALSE,
                                     !.value = 0, !.base = Junk, !.object = FALSE]]

\* An operand that is already in a register stays there, whatever rc is.
load_1(s, rc, i) ==
  IF s.stack[i].r >= SC_GLOBAL \/ s.stack[i].lval THEN load(allocate_reg(s, rc), i)
  ELSE s

load_2(s, rc1, rc2) == load_1(load_1(s, rc2, Top(s)), rc1, Second(s))

-----------------------------------------------------------------------------
\* What register r, or the flags, get for the top operand: its token if the
\* machine computed it from the right values.
Computed(s, r, id, ok) ==
  LET token == IF ok THEN <<id, 1>> ELSE Junk
      t == [s EXCEPT !.stack[Top(s)] =
              [@ EXCEPT !.r = r, !.lval = FALSE, !.sym = FALSE, !.value = 0,
                        !.base = Junk, !.stands = <<id, 1>>, !.object = FALSE]]
  IN IF r = SC_CMP THEN [t EXCEPT !.flags = token] ELSE [t EXCEPT !.reg[r] = token]

\* The two operands are replaced by their result.
Result(s, r) ==
  Computed(Pop(s), r, FreshId(s),
           /\ Ready(s, Second(s))
           /\ Ready(s, Top(s)) \/ (IsConst(s.stack[Top(s)]) /\ Holds(s, Top(s))))

\* add, sub and imul leave the result in the register of the first operand, a
\* comparison in the flags.
Compute(s, op) ==
  Result(Clobber(s), IF op = "rel" THEN SC_CMP ELSE s.stack[Second(s)].r)

\* A constant becomes an immediate, of which one byte is written in any case.
gen_opi2(s, op) ==
  IF IsConst(s.stack[Top(s)])
  THEN Compute(LoseIf(load_1(s, REG_ANY, Second(s)), s.stack[Top(s)].value = 1), op)
  ELSE Compute(load_2(s, REG_ANY, REG_ANY), op)

Multiply(s) == Compute(load_2(s, REG_ANY, REG_ANY), "mul")

\* idiv divides EDX:EAX and leaves the quotient in EAX, the remainder in EDX;
\* the generator takes EDX for both.  The divisor is popped before spill_reg.
IDiv(s, op) ==
  LET fits == s.stack[Second(s)].r = EAX /\ s.stack[Top(s)].r \in Regs \ {EAX, EDX}
      t == Clobber(LoseIf(spill_reg(Pop(s), EDX), op = "div" \/ ~fits))
  IN Computed([t EXCEPT !.reg[EAX] = Junk], EDX, FreshId(s),
              Holds(s, Top(s)) /\ Holds(s, Second(s)))
Divide(s, op) == IDiv(load_2(s, EAX, ECX), op)

gen_opi(s, op) == CASE op \in {"alu", "rel"} -> gen_opi2(s, op)
                    [] op = "mul" -> Multiply(s)
                    [] OTHER -> Divide(s, op)

operand_push(s, leaf) ==
  LET id == FreshId(s)
      read == IF leaf.lval THEN 0 ELSE 1
  IN [s EXCEPT !.stack = Append(@,
        [r |-> leaf.r, lval |-> leaf.lval, sym |-> leaf.sym, value |-> leaf.value,
         type |-> leaf.type, base |-> <<id, read>>, stands |-> <<id, 1>>,
         object |-> leaf.lval])]

IntConst == [r |-> SC_GLOBAL, lval |-> FALSE, sym |-> FALSE, value |-> 0, type |-> "int"]
Scaled(s) == Multiply(operand_push(s, IntConst))

\* Pointer arithmetic: the index is multiplied by the size of what the first
\* operand points to; the difference of two pointers is divided by the product
\* of the size and itself, as its type is still a pointer.  The type of the
\* result is set on the operand that gen_opi has deleted: a comparison of
\* pointers keeps the type of the first operand.
gen_op(s, op) ==
  LET t1 == s.stack[Second(s)].type
      t2 == s.stack[Top(s)].type
  IN IF t1 = "int" /\ t2 = "int" THEN gen_opi(s, op)
     ELSE IF op = "rel" THEN gen_opi(Lose(s), op)
     ELSE IF t2 = "int" THEN gen_opi(Scaled(s), op)
     ELSE Divide(Scaled(operand_push(gen_opi(Lose(s), op), IntConst)), "div")

StoreInTop(s) ==   \* mutant: the address is that of the wrong operand
  LET there == s.stack[Top(s)]
      address == IF there.r \in Regs THEN s.reg[there.r] ELSE there.base
  IN Check(s, address = Points(s.stack[Second(s)].stands))

\* The top is stored in the object of the second operand.
store(s) ==
  LET there == s.stack[Second(s)]
      address == IF InFrame(there) THEN Junk
                 ELSE IF there.r \in Regs THEN s.reg[there.r] ELSE there.base
  IN Check(s, Holds(s, Top(s)) /\ address = Points(there.stands))

\* As Swap does nothing the value is popped, and the object remains as the result of
\* the assignment; it can be assigned to.
Stored(s)   == Pop(Swap(store(s)))
store0_1(s) == Stored(load_1(s, REG_ANY, Top(s)))

\* The arguments are on top.  Every one is loaded through the pointer to the
\* operand of the last, which is deleted once that is pushed: for the others
\* either nothing is loaded, or the freed operand looks like an lvalue (bytes
\* filled with 0xdd) and a register is taken for it.
Argument(s) == Pop(Check(s, Holds(s, Top(s))))
OtherArgument(s, filled) ==
  LET a == allocate_reg(s, REG_ANY)
  IN Lose(Pop(IF filled THEN [a.s EXCEPT !.reg[a.r] = Junk] ELSE s))
Returned(s, id, type) ==
  [Pop(s) EXCEPT !.reg = [r \in Regs |-> IF r = REG_IRET THEN <<id, 1>> ELSE Junk],
                 !.stack = Append(@,
      [r |-> REG_IRET, lval |-> FALSE, sym |-> FALSE, value |-> 0, type |-> type,
       base |-> Junk, stands |-> <<id, 1>>, object |-> FALSE])]
gen_invoke(s, n, filled, type) ==
  LET one == IF n = 0 THEN s ELSE Argument(load_1(s, REG_ANY, Top(s)))
      all == IF n < 2 THEN one ELSE OtherArgument(one, filled)
  IN Returned(Clobber(spill_regs(all)), FreshId(s), type)

\* The flags of a comparison are used as they are; a constant condition jumps
\* to the else branch, whatever its value.
gen_jcc(s) ==
  IF IsConst(s.stack[Top(s)]) THEN Pop(Lose(s))
  ELSE Argument(IF s.stack[Top(s)].r = SC_CMP THEN s ELSE load_1(s, REG_ANY, Top(s)))

\* An object becomes a pointer to it, a pointer the object it points to; both stay
\* where they are.
cancel_lvalue(o, type) ==
  [o EXCEPT !.lval = FALSE, !.type = type, !.stands = Points(o.stands), !.object = FALSE]
ObjectAt(o, type) ==
  [o EXCEPT !.lval = TRUE, !.type = type, !.stands = Reads(o.stands), !.object = TRUE]

Dereferenced(s) ==
  LET o == s.stack[Top(s)]
  IN [s EXCEPT !.stack[Top(s)] = ObjectAt(o, Pointed[o.type])]
indirection(s) ==
  Dereferenced(IF s.stack[Top(s)].lval THEN load_1(s, REG_ANY, Top(s)) ELSE s)

-----------------------------------------------------------------------------
\* The operands a program can push: constants, a parameter or variable of type
\* int, a pointer, a struct, an array, a function.
Leaves ==
  {IntConst}
  \cup {[IntConst EXCEPT !.value = 1] : f \in Forms \cap {"wide"}}
  \cup {[r |-> SC_LOCAL, lval |-> TRUE, sym |-> FALSE, value |-> 0, type |-> "int"]}
  \cup {[r |-> SC_GLOBAL, lval |-> TRUE, sym |-> TRUE, value |-> 0, type |-> "ptr"] :
          f \in Forms \cap {"deref"}}
  \cup {[r |-> SC_LOCAL, lval |-> TRUE, sym |-> FALSE, value |-> 0, type |-> t] :
          t \in IF "member" \in Forms THEN {"struct", "sptr"} ELSE {}}
  \cup {[r |-> SC_LOCAL, lval |-> FALSE, sym |-> FALSE, value |-> 0, type |-> "ptr"] :
          f \in Forms \cap {"array"}}
  \cup {[r |-> SC_GLOBAL, lval |-> FALSE, sym |-> TRUE, value |-> 0, type |-> "func"] :
          f \in Forms \cap {"call"}}

Scalars == {"int", "ptr", "sptr"}
Depth == Len(stack)
Last1 == stack[Depth]
Last2 == stack[Depth - 1]
Do(s) == Write(s) /\ UNCHANGED <<program, locals>>

FirstLoc == IF locals THEN calc_align(0 - 4, 4) ELSE 0

Init ==
  /\ stack = <<>>
  /\ reg = [r \in Regs |-> Junk]
  /\ flags = Junk
  /\ frame = [at |-> 0, holds |-> Junk]
  /\ program \in Programs
  /\ locals \in BOOLEAN
  /\ loc = FirstLoc
  /\ lost = FALSE
  /\ right = TRUE

\* primary_expression and sizeof_expression; the 0 of a unary minus
Primary(leaf) ==
  /\ Depth < MaxOperands
  /\ Do(operand_push(IF stack = <<>> THEN [State EXCEPT !.lost = FALSE, !.right = TRUE, !.loc = FirstLoc]
                     ELSE State, leaf))

\* e1 , e2: the first operand of e2 follows the pop
Comma(leaf) ==
  /\ "comma" \in Forms /\ Depth > 0
  /\ Do(operand_push(Pop(State), leaf))

\* & of an object
AddressOf ==
  /\ "address" \in Forms /\ Depth > 0
  /\ Last1.object /\ Last1.type \in DOMAIN mk_pointer
  /\ Do([State EXCEPT !.stack[Depth] = cancel_lvalue(Last1, mk_pointer[Last1.type])])

Indirection ==
  /\ "deref" \in Forms /\ Depth > 0 /\ Last1.type \in DOMAIN Pointed
  /\ Do(indirection(State))

Binary(op) ==
  /\ op \in Forms /\ Depth > 1
  /\ \/ Last1.type = "int" /\ Last2.type = "int"
     \/ op = "alu" /\ Last1.type = "int" /\ Last2.type \in {"ptr", "sptr"}
     \/ op \in {"alu", "rel"} /\ Last1.type = Last2.type /\ Last2.type \in {"ptr", "sptr"}
  /\ Do(gen_op(State, op))

\* e.m, and with Indirection e->m: the offset is added to the address
member(s) ==
  LET t == gen_op(operand_push(s, IntConst), "alu")
  IN [t EXCEPT !.stack[Top(t)] = ObjectAt(t.stack[Top(t)], "int")]
Member ==
  /\ "member" \in Forms /\ Depth > 0
  /\ Last1.type = "struct" /\ Last1.object
  /\ Do(member([State EXCEPT !.stack[Depth] = cancel_lvalue(Last1, "ptr")]))

Assign ==
  /\ "assign" \in Forms /\ Depth > 1
  /\ Last2.object /\ Last2.type \in Scalars /\ Last1.type = Last2.type
  /\ Do(store0_1(State))

Call(n, filled, type) ==
  /\ "call" \in Forms /\ Depth > n
  /\ stack[Depth - n].type = "func"
  /\ \A i \in Depth - n + 1 .. Depth : stack[i].type \in Scalars
  /\ filled => n > 1
  /\ Do(gen_invoke(State, n, filled, type))

\* The ends of a statement: e; if (e) or for (; e;), return e; type v = e;
ExprStmt ==
  /\ Depth = 1
  /\ Do(Pop(State))

Condition ==
  /\ Depth = 1 /\ Last1.type \in Scalars
  /\ Do(gen_jcc(State))

Returning(s) == LoseIf(Argument(s), s.stack[Top(s)].r # REG_IRET)
Return ==
  /\ Depth = 1 /\ Last1.type \in Scalars
  /\ Do(Returning(load_1(State, REG_IRET, Depth)))

\* init_variable calls operand_swap to put the variable below its initializer, which
\* it does not: the variable is loaded, and stored where the initializer says.  The
\* source means the other, so the statement is lost: int v = e; leaves v as it was.
Initialize(s, v) ==
  LET t == Swap(operand_push(s, v))
      below == t.stack[Second(t)].stands[1] = FreshId(s)   \* the number of v
  IN Pop(store0_1(LoseIf(t, ~ below)))
Variable(type) == [r |-> SC_LOCAL, lval |-> TRUE, sym |-> FALSE, value |-> 0, type |-> type]
AtInitializer  == locals /\ Depth = 1 /\ Last1.type \in Scalars
InitVariable   == AtInitializer /\ Do(Initialize(State, Variable(Last1.type)))

Next ==
  \/ \E leaf \in Leaves : Primary(leaf) \/ Comma(leaf)
  \/ AddressOf \/ Indirection \/ Member \/ Assign
  \/ \E op \in {"alu", "mul", "div", "mod", "rel"} : Binary(op)
  \/ \E n \in 0 .. 2, filled \in BOOLEAN, type \in {"int", "ptr"} : Call(n, filled, type)
  \/ ExprStmt \/ Condition \/ Return \/ InitVariable

Spec == Init /\ [][Next]_vars

-----------------------------------------------------------------------------
TypeOK ==
  /\ stack \in Seq(Operand) /\ Depth <= MaxOperands
  /\ reg \in [Regs -> Tokens] /\ flags \in Tokens
  /\ frame \in [at : 0 .. 3, holds : Tokens] /\ loc \in 0 .. 3
  /\ program \in Programs /\ locals \in BOOLEAN /\ lost \in BOOLEAN /\ right \in BOOLEAN

\* No register is the place of two operands, whatever was spilled in between:
\* an instruction that writes a register changes one operand only.
OneOperandPerRegister ==
  \A i, j \in DOMAIN stack : stack[i].r = stack[j].r /\ stack[i].r \in Regs => i = j

\* Every operand can be read where its Operand says, through any number of
\* loads and spills (load_1, spill_reg, store), unless the statement is lost.
ValuesHeld == ~lost => \A i \in DOMAIN stack : Holds(State, i)

\* Every store, argument, condition and result of the statement used the value
\* the source says (store0_1, gen_invoke, gen_jcc), unless it is lost.
UsesRight == ~lost => right

-----------------------------------------------------------------------------
(* The inductive invariant, of every state between two calls and inside one. *)

States ==
  [stack : Seq(Operand), reg : [Regs -> Tokens], flags : Tokens,
   frame : [at : 0 .. 3, holds : Tokens], loc : 0 .. 3, lost : BOOLEAN, right : BOOLEAN]

\* Operand i has its value where its fields say.  The source may assign to it
\* only if that is in memory and not a place for spilled values; what was
\* spilled is read from there; flags are a value of type int.
Reachable(s, i) ==
  LET o == s.stack[i]
  IN /\ Holds(s, i)
     /\ o.object => o.lval /\ ~ InFrame(o)
     /\ InFrame(o) => o.lval
     /\ o.r = SC_CMP => ~ o.lval /\ o.type = "int"

\* No two operands share a register.
Apart(s) ==
  \A i, j \in 1 .. Len(s.stack) :
    s.stack[i].r = s.stack[j].r /\ s.stack[i].r \in Regs => i = j

\* No two operands share a number.
Numbered(s) ==
  /\ \A i \in 1 .. Len(s.stack) : s.stack[i].stands[1] # 0
  /\ \A i, j \in 1 .. Len(s.stack) :
       s.stack[i].stands[1] = s.stack[j].stands[1] => i = j

\* As long as the statement is not lost, everything was right and every operand
\* is reachable.
Good(s) ==
  /\ s \in States
  /\ Apart(s)
  /\ Numbered(s)
  /\ ~ s.lost => s.right /\ \A i \in 1 .. Len(s.stack) : Reachable(s, i)

IInv == TypeOK /\ Good(State)
=============================================================================
