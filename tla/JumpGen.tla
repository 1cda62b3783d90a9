------------------------------ MODULE JumpGen ------------------------------
(***************************************************************************)
(* Code generation for control flow: what CL_Syntax.cpp and                *)
(* CL_CodeGen.cpp do to the text section while the statements of function  *)
(* bodies are parsed.  The compiler is one pass: a forward jump is emitted *)
(* before its target is known, and the dword that will hold its            *)
(* displacement (a slot) meanwhile holds the address of the previous       *)
(* pending slot of the same list, 0 ending the list.  backpatch walks such *)
(* a list and overwrites every link by a displacement.                     *)
(*                                                                         *)
(* Addresses are byte offsets in .text.  A step is the code the parser     *)
(* runs between two statement boundaries; the C++ call stack of the        *)
(* recursive-descent functions is the variable stack.  A backpatch call is *)
(* a loop: one step per iteration, and nothing else is enabled meanwhile.  *)
(* Compound statements emit nothing: the body of if, else and for is any   *)
(* sequence of statements.                                                 *)
(***************************************************************************)
EXTENDS Integers, Sequences

CONSTANTS
  ExprSizes,    \* bytes of code an expression may emit (0 for a constant)
  Conds,        \* the forms of condition the program may use
  ParamBytes,   \* bytes gen_prolog may count for the parameters of a function
  MaxStmts,     \* bound: statements in the whole source file
  MaxDepth,     \* bound: nesting of if and for
  MaxFuncs      \* bound: functions in the source file

ASSUME JumpGenAssumption ==
  /\ ExprSizes \subseteq Nat
  /\ Conds \subseteq {"cmp", "const", "value"}
  /\ ParamBytes \subseteq Nat
  /\ MaxStmts \in Nat /\ MaxDepth \in Nat /\ MaxFuncs \in Nat

VARIABLES
  phase,           \* "outside", "body", "epilog" (of a function), "crashed"
  ind,             \* codegen.ind: the next byte of .text to write
  code,            \* instruction start -> [op, len]: the opcodes written
  text,            \* address of a displacement -> the number stored there
  stack,           \* activation frames of if_statement and for_statement
  rsym,            \* codegen.rsym: head of the list of return jumps
  patching,        \* backpatch(t, a) calls the parser is about to finish
  func_begin_ind,  \* codegen.func_begin_ind
  func_ret_sub,    \* codegen.func_ret_sub
  funcs,           \* history: [begin, end, stdcall, bytes] of each function
  stmts,           \* history: statements read so far
  want,            \* history: slot -> the label its jump is for
  bound,           \* history: label -> the address it stands for
  open,            \* history: the slots that still hold a link
  labels,          \* history: labels handed out so far
  backs            \* history: backward jump -> [dest, meant] addresses

state   == <<phase, ind, code, text, stack, rsym, patching, func_begin_ind,
             func_ret_sub>>
history == <<funcs, stmts, want, bound, open, labels, backs>>
vars    == <<state, history>>

-----------------------------------------------------------------------------
ShortPrologue == 8   \* mutant: a byte less than gen_epilog fills in
FUNC_PROLOG_SIZE == 9

\* f with k mapped to v
Put(f, k, v) == [x \in DOMAIN f \cup {k} |-> IF x = k THEN v ELSE f[x]]

\* The end of the text section as the emitters see it.  Each emitter returns
\* the section after its bytes.
Text == [ind |-> ind, code |-> code, text |-> text]

\* One instruction of len bytes that holds no displacement.
Emit(s, op, len) ==
  [ind  |-> s.ind + len,
   code |-> Put(s.code, s.ind, [op |-> op, len |-> len]),
   text |-> s.text]

\* codegen.ind = i
MoveTo(s, i) == [ind |-> i, code |-> s.code, text |-> s.text]

\* The code of an expression: n bytes, one record, nothing if n = 0.
GenExpr(s, n) == IF n = 0 THEN s ELSE Emit(s, "expr", n)

\* An instruction of len bytes that ends in a dword, and makelist(t): the
\* dword holds the head t of the list the new slot is put in front of.
EmitSlot(s, op, len, t) ==
  [ind  |-> s.ind + len,
   code |-> Put(s.code, s.ind, [op |-> op, len |-> len]),
   text |-> Put(s.text, s.ind + len - 4, t)]

\* What makelist returned: the slot just written.
LastSlot(s) == s.ind - 4

LinkLost(s, t) == EmitSlot(s, "jmp", 5, 0)   \* mutant: every list a singleton
GenJmpForward(s, t) == EmitSlot(s, "jmp", 5, t)

\* The three ways gen_jcc ends, by the operand on top: flags set by CMP, a
\* constant (an unconditional jump), a value (TEST r, r first).
GenJcc(s, form, t) ==
  CASE form = "cmp"   -> EmitSlot(s, "jcc", 6, t)
    [] form = "const" -> GenJmpForward(s, t)
    [] OTHER          -> EmitSlot(Emit(s, "expr", 2), "jcc", 6, t)

\* static_cast<char>(n)
AsChar(n) == ((n + 128) % 256) - 128
FitsTooMuch(n) == n \in -129 .. 127   \* mutant: one too many
FitsChar(n) == n = AsChar(n)

\* Two bytes when the displacement from the end of the short form fits a
\* signed char; otherwise five, the displacement computed once the opcode
\* byte has been written.
FromOpcode(s, a) == a - s.ind - 4   \* mutant: from where the opcode begins
LongDisplacement(s, a) == a - (s.ind + 1) - 4
GenJmpBackward(s, a) ==
  LET r == a - s.ind - 2
      len == IF FitsChar(r) THEN 2 ELSE 5
      disp == IF FitsChar(r) THEN AsChar(r) ELSE LongDisplacement(s, a)
  IN [ind  |-> s.ind + len,
      code |-> Put(s.code, s.ind, [op |-> "jmp", len |-> len]),
      text |-> Put(s.text, s.ind + 1, disp)]

Write(s) == /\ ind' = s.ind
            /\ code' = s.code
            /\ text' = s.text

-----------------------------------------------------------------------------
\* Frames of the recursive descent.  loop is the position in stack of the
\* for_statement whose locals a and b the parameters bsym and csym point to,
\* 0 for NULL.  a and b are the list heads of the two functions, c and d the
\* addresses for_statement keeps.  l (history) is the label of the statement's
\* exit; l + 1 is that of a for's continue.
Frame == [kind : {"if", "else", "for"}, loop : Nat, a : Nat, b : Nat,
          c : Nat, d : Nat, l : Nat]

\* history: a function, its convention and parameter bytes, the operand of
\* its ret, and the label of its end
Func == [begin : Nat, stdcall : BOOLEAN, bytes : Nat, pops : Nat, ret : Nat]

Depth == Len(stack)
Top   == stack[Depth]
Pop   == SubSeq(stack, 1, Depth - 1)

\* bsym and csym as the statement about to be parsed receives them.
Loop == IF Depth = 0 THEN 0 ELSE IF Top.kind = "for" THEN Depth ELSE Top.loop

\* A backpatch(t, a) the parser has started; l (history) is its label.
Pending == [t : Nat, a : Nat, l : Nat]
Call(t, a, l) == [t |-> t, a |-> a, l |-> l]

\* history: a slot at s that waits for label l; label l stands for address x
Slot(s, l) == /\ want' = Put(want, s, l)
              /\ open' = open \cup {s}

Parsing == phase = "body" /\ patching = <<>>

\* The parser takes one more statement (bound MaxStmts).
Read == /\ Parsing
        /\ stmts < MaxStmts
        /\ stmts' = stmts + 1

ReturnLabel == funcs[Len(funcs)].ret

-----------------------------------------------------------------------------
Init ==
  /\ phase = "outside"
  /\ ind = 0 /\ rsym = 0 /\ func_begin_ind = 0 /\ func_ret_sub = 0
  /\ code = <<>> /\ text = <<>> /\ stack = <<>> /\ patching = <<>>
  /\ funcs = <<>> /\ stmts = 0 /\ labels = 0 /\ backs = <<>>
  /\ want = <<>> /\ bound = <<>> /\ open = {}

\* codegen.rsym as a function begins
StaleReturns == rsym   \* mutant: the list of the previous function
NoReturns == 0

\* funcbody up to its compound_statement, with gen_prolog: the prologue is
\* left out and filled in by gen_epilog; func_ret_sub is assigned inside the
\* loop over the parameters.  A source file that defines a function in a function
\* is left out: it gets a warning only, and loses rsym and func_begin_ind.
OpenFunc ==
  /\ phase = "outside"
  /\ Len(funcs) < MaxFuncs
  /\ \E stdcall \in BOOLEAN, bytes \in ParamBytes \cup {-1} :
       /\ funcs' = Append(funcs, [begin |-> ind, stdcall |-> stdcall,
                                  bytes |-> IF bytes = -1 THEN 0 ELSE bytes,
                                  pops |-> 0, ret |-> labels])
       /\ func_ret_sub' = IF bytes = -1 THEN func_ret_sub
                          ELSE IF stdcall THEN bytes ELSE 0
  /\ phase' = "body"
  /\ func_begin_ind' = ind
  /\ ind' = ind + FUNC_PROLOG_SIZE
  /\ rsym' = NoReturns
  /\ labels' = labels + 1
  /\ UNCHANGED <<code, text, stack, patching, stmts, want, bound, open, backs>>

\* expression_statement, and any other code without jumps
ExprStmt ==
  /\ Read
  /\ \E n \in ExprSizes : Write(GenExpr(Text, n))
  /\ UNCHANGED <<phase, stack, rsym, patching, func_begin_ind, func_ret_sub,
                 funcs, want, bound, open, labels, backs>>

\* if_statement: the condition, a = gen_jcc(0), then its first statement
IfHead ==
  /\ Read
  /\ Depth < MaxDepth
  /\ \E n \in ExprSizes, form \in Conds :
       LET s == GenJcc(GenExpr(Text, n), form, 0)
       IN /\ Write(s)
          /\ stack' = Append(stack,
               [kind |-> "if", loop |-> Loop, a |-> LastSlot(s), b |-> 0,
                c |-> 0, d |-> 0, l |-> labels])
          /\ Slot(LastSlot(s), labels)
  /\ labels' = labels + 2
  /\ UNCHANGED <<phase, rsym, patching, func_begin_ind, func_ret_sub, funcs,
                 bound, backs>>

\* if_statement at KW_ELSE: b = gen_jmpforward(0); backpatch(a, ind)
Else ==
  /\ Parsing
  /\ Depth > 0 /\ Top.kind = "if"
  /\ LET s == GenJmpForward(Text, 0)
     IN /\ Write(s)
        /\ stack' = [stack EXCEPT ![Depth] =
             [@ EXCEPT !.kind = "else", !.b = LastSlot(s), !.l = labels]]
        /\ Slot(LastSlot(s), labels)
        /\ patching' = <<Call(Top.a, s.ind, Top.l)>>
        /\ bound' = Put(bound, Top.l, s.ind)
  /\ labels' = labels + 2
  /\ UNCHANGED <<phase, rsym, func_begin_ind, func_ret_sub, funcs, stmts, backs>>

\* The end of if_statement: backpatch(a, ind) without an else, backpatch(b,
\* ind) with one.
EndIf ==
  /\ Parsing
  /\ Depth > 0 /\ Top.kind \in {"if", "else"}
  /\ LET t == IF Top.kind = "if" THEN Top.a ELSE Top.b
     IN /\ patching' = <<Call(t, ind, Top.l)>>
        /\ bound' = Put(bound, Top.l, ind)
  /\ stack' = Pop
  /\ UNCHANGED <<phase, ind, code, text, rsym, func_begin_ind, func_ret_sub,
                 funcs, stmts, want, open, labels, backs>>

\* for_statement up to its body.  d and c are the address after the first
\* expression; with a third expression c is that expression's address, and
\* the code after it jumps back to c.
ForHead ==
  /\ Read
  /\ Depth < MaxDepth
  /\ \E n0, n1, n2 \in ExprSizes, cond \in Conds \cup {"none"}, inc \in BOOLEAN :
       LET s0 == GenExpr(Text, n0)
           s1 == IF cond = "none" THEN s0 ELSE GenJcc(GenExpr(s0, n1), cond, 0)
           s2 == GenJmpForward(s1, 0)
           s3 == GenExpr(s2, n2)
           s4 == GenJmpBackward(s3, s2.ind)
           s  == IF inc THEN s4 ELSE s1
           d  == s0.ind
           c  == IF inc THEN s2.ind ELSE d
           a  == IF cond = "none" THEN 0 ELSE LastSlot(s1)
           e  == LastSlot(s2)
           slots == (IF cond = "none" THEN {} ELSE {a}) \cup (IF inc THEN {e} ELSE {})
           over  == labels + 2
       IN /\ Write(s)
          /\ stack' = Append(stack,
               [kind |-> "for", loop |-> Loop, a |-> a, b |-> 0,
                c |-> c, d |-> d, l |-> labels])
          /\ want' = [x \in DOMAIN want \cup slots |->
                        IF x \in DOMAIN want THEN want[x]
                        ELSE IF inc /\ x = e THEN over ELSE labels]
          /\ open' = open \cup slots
          /\ patching' = IF inc THEN <<Call(e, s.ind, over)>> ELSE <<>>
          /\ bound' = IF inc THEN Put(bound, over, s.ind) ELSE bound
          /\ backs' = IF inc THEN Put(backs, s3.ind, [dest |-> c, meant |-> d])
                      ELSE backs
  /\ labels' = labels + 3
  /\ UNCHANGED <<phase, rsym, func_begin_ind, func_ret_sub, funcs>>

\* The lists of a finished for: backpatch(a, ind); backpatch(b, c)
BothExit(f, i) ==   \* mutant: continue leaves the loop
  <<Call(f.a, i, f.l), Call(f.b, i, f.l + 1)>>
OnlyExit(f, i) == <<Call(f.a, i, f.l)>>   \* mutant: continue is forgotten
LoopCalls(f, i) == <<Call(f.a, i, f.l), Call(f.b, f.c, f.l + 1)>>

\* for_statement after its body: gen_jmpbackward(c), and its two lists
EndFor ==
  /\ Parsing
  /\ Depth > 0 /\ Top.kind = "for"
  /\ LET s == GenJmpBackward(Text, Top.c)
     IN /\ Write(s)
        /\ patching' = LoopCalls(Top, s.ind)
        /\ bound' = Put(Put(bound, Top.l, s.ind), Top.l + 1, Top.c)
  /\ backs' = Put(backs, ind, [dest |-> Top.c, meant |-> Top.c])
  /\ stack' = Pop
  /\ UNCHANGED <<phase, rsym, func_begin_ind, func_ret_sub, funcs, stmts, want,
                 open, labels>>

\* break_statement in a loop: *bsym = gen_jmpforward(*bsym)
Break ==
  /\ Read
  /\ Loop # 0
  /\ LET s == GenJmpForward(Text, stack[Loop].a)
     IN /\ Write(s)
        /\ stack' = [stack EXCEPT ![Loop].a = LastSlot(s)]
        /\ Slot(LastSlot(s), stack[Loop].l)
  /\ UNCHANGED <<phase, rsym, patching, func_begin_ind, func_ret_sub, funcs,
                 bound, labels, backs>>

\* continue_statement in a loop: *csym = gen_jmpforward(*csym)
Continue ==
  /\ Read
  /\ Loop # 0
  /\ LET s == GenJmpForward(Text, stack[Loop].b)
     IN /\ Write(s)
        /\ stack' = [stack EXCEPT ![Loop].b = LastSlot(s)]
        /\ Slot(LastSlot(s), stack[Loop].l + 1)
  /\ UNCHANGED <<phase, rsym, patching, func_begin_ind, func_ret_sub, funcs,
                 bound, labels, backs>>

\* break or continue outside of a loop: error() prints and returns, and the
\* next line reads through the NULL bsym or csym.
StrayJump ==
  /\ Read
  /\ Loop = 0
  /\ phase' = "crashed"
  /\ UNCHANGED <<ind, code, text, stack, rsym, patching, func_begin_ind,
                 func_ret_sub, funcs, want, bound, open, labels, backs>>

\* return_statement, its expression and the load of the result included
Return ==
  /\ Read
  /\ \E n \in ExprSizes :
       LET s == GenJmpForward(GenExpr(Text, n), rsym)
       IN /\ Write(s)
          /\ rsym' = LastSlot(s)
          /\ Slot(LastSlot(s), ReturnLabel)
  /\ UNCHANGED <<phase, stack, patching, func_begin_ind, func_ret_sub, funcs,
                 bound, labels, backs>>

\* funcbody after its compound_statement: backpatch(rsym, ind)
CloseBody ==
  /\ Parsing
  /\ Depth = 0
  /\ phase' = "epilog"
  /\ patching' = <<Call(rsym, ind, ReturnLabel)>>
  /\ bound' = Put(bound, ReturnLabel, ind)
  /\ UNCHANGED <<ind, code, text, stack, rsym, func_begin_ind, func_ret_sub,
                 funcs, stmts, want, open, labels, backs>>

\* gen_epilog: mov esp, ebp; pop ebp; ret or ret n; then, back at
\* func_begin_ind, the prologue push ebp; mov ebp, esp; sub esp, imm32
GenEpilog ==
  /\ phase = "epilog" /\ patching = <<>>
  /\ phase' = "outside"
  /\ LET ret  == IF func_ret_sub = 0 THEN 1 ELSE 3
         tail == Emit(Emit(Emit(Text, "mov", 2), "pop", 1), "ret", ret)
         full == Emit(Emit(Emit(MoveTo(tail, func_begin_ind), "push", 1),
                           "mov", 2), "sub", 6)
     IN Write(MoveTo(full, tail.ind))
  /\ funcs' = [funcs EXCEPT ![Len(funcs)].pops = func_ret_sub]
  /\ UNCHANGED <<stack, rsym, patching, func_begin_ind, func_ret_sub, stmts,
                 want, bound, open, labels, backs>>

\* What backpatch writes into the slot at t, and the slot it goes to next.
ToSlot(t, a) == a - t   \* mutant: from the slot, not from the instruction's end
Displacement(t, a) == a - t - 4
SameSlot(t) == t   \* mutant: t is never moved
NextSlot(t) == text[t]

\* One iteration of the loop of backpatch: the slot at t gets its
\* displacement, and t moves to the slot it was linked to.
Backpatch ==
  /\ patching # <<>>
  /\ LET call == Head(patching)
     IN /\ call.t # 0
        /\ text' = [text EXCEPT ![call.t] = Displacement(call.t, call.a)]
        /\ patching' = [patching EXCEPT ![1].t = NextSlot(call.t)]
        /\ open' = open \ {call.t}
  /\ UNCHANGED <<phase, ind, code, stack, rsym, func_begin_ind, func_ret_sub,
                 funcs, stmts, want, bound, labels, backs>>

\* t = 0: backpatch returns
BackpatchReturns ==
  /\ patching # <<>>
  /\ Head(patching).t = 0
  /\ patching' = Tail(patching)
  /\ UNCHANGED <<phase, ind, code, text, stack, rsym, func_begin_ind,
                 func_ret_sub, history>>

\* translation_unit returns at TK_EOF; a crashed compiler stays so.
EndOfFile == phase \in {"outside", "crashed"} /\ UNCHANGED vars

Statement == ExprStmt \/ IfHead \/ ForHead \/ Break \/ Continue \/ Return \/ StrayJump
Block     == Else \/ EndIf \/ EndFor
Function  == OpenFunc \/ CloseBody \/ GenEpilog
Patch     == Backpatch \/ BackpatchReturns

Next == Statement \/ Block \/ Function \/ Patch \/ EndOfFile
Spec == Init /\ [][Next]_vars

\* The compiler is one thread that runs until its input ends: a backpatch
\* loop it has entered keeps running.
FairSpec == Spec /\ WF_vars(Patch)

-----------------------------------------------------------------------------
\* Types, and the bounds on addresses the rest depends on.
TypeOK ==
  /\ phase \in {"outside", "body", "epilog", "crashed"}
  /\ ind \in Nat /\ rsym \in Nat /\ func_begin_ind \in Nat /\ func_ret_sub \in Nat
  /\ stack \in Seq(Frame)
  /\ patching \in Seq(Pending)
  /\ DOMAIN text \subseteq Nat /\ text \in [DOMAIN text -> Int]
  /\ want \in [DOMAIN want -> Nat] /\ bound \in [DOMAIN bound -> Nat]
  /\ DOMAIN want \subseteq DOMAIN text
  /\ open \subseteq DOMAIN want
  /\ \A s \in DOMAIN want : want[s] < labels
  /\ 0 \notin DOMAIN want /\ DOMAIN bound \subseteq Nat
  /\ labels \in Nat
  /\ funcs \in Seq(Func)

\* The slots that wait for label l
Waiting(l) == {s \in open : want[s] = l}

\* h is the head of a list threaded through f at exactly the slots of S, from
\* the highest address to the lowest.
ThreadedIn(f, h, S) ==
  /\ h \in S \cup {0}
  /\ \A s \in S : /\ s <= h
                  /\ f[s] \in S \cup {0}
                  /\ f[s] < s
                  /\ \A x \in S : x < s => x <= f[s]
Threaded(h, S) == ThreadedIn(text, h, S)

\* The list that waits for the end of a frame: a of if_statement is done with
\* at the else, where b begins.
ExitList(frame) == IF frame.kind = "else" THEN frame.b ELSE frame.a

\* Every list head the compiler holds (a and b of if_statement and
\* for_statement, the t of a running backpatch, rsym) heads a 0-terminated
\* chain through .text of exactly the pending jumps with that destination:
\* no jump is on two lists, none is lost, and no list has a cycle.
ListsThreaded ==
  /\ \A i \in 1..Depth :
       /\ Threaded(ExitList(stack[i]), Waiting(stack[i].l))
       /\ stack[i].kind = "for" => Threaded(stack[i].b, Waiting(stack[i].l + 1))
  /\ \A k \in 1..Len(patching) : Threaded(patching[k].t, Waiting(patching[k].l))
  /\ phase \in {"body", "crashed"} => Threaded(rsym, Waiting(ReturnLabel))

\* Somebody will call, or is running, backpatch for label l.
Awaited(l) ==
  \/ \E i \in 1..Depth :
       l = stack[i].l \/ (stack[i].kind = "for" /\ l = stack[i].l + 1)
  \/ \E k \in 1..Len(patching) : l = patching[k].l
  \/ (phase \in {"body", "crashed"} /\ l = ReturnLabel)

\* Every slot that still holds a link is for such a label: no pending jump is
\* forgotten.
NoJumpForgotten == \A s \in open : Awaited(want[s])

\* A slot that backpatch has left holds the displacement, from the end of its
\* own instruction, to the address its statement's destination got.
PatchedJumpsHit ==
  \A s \in DOMAIN want \ open :
    /\ want[s] \in DOMAIN bound
    /\ text[s] + s + 4 = bound[want[s]]

\* Between functions no slot holds a link any more: what the object file
\* gets as displacements are displacements.
FunctionsClosed == phase = "outside" => open = {}

\* The start of function i and of what follows it
FuncEnd(i) == IF i = Len(funcs) THEN ind ELSE funcs[i + 1].begin

\* The instructions of finished functions tile .text: the prologue fills
\* exactly the bytes gen_prolog skipped, and nothing overlaps.
CodeTiles ==
  phase = "outside" =>
    \A p \in DOMAIN code : /\ p + code[p].len \in DOMAIN code \cup {ind}
                          /\ \A q \in DOMAIN code : q > p => q >= p + code[p].len

\* The address of the displacement of the jump that starts at p, and where
\* the jump goes.
Cell(p)   == IF code[p].len = 2 THEN p + 1 ELSE p + code[p].len - 4
Target(p) == p + code[p].len + text[Cell(p)]
Jumps     == {p \in DOMAIN code : code[p].op \in {"jmp", "jcc"}}

\* In a finished function every jump, forward or backward, short or long,
\* lands on the first byte of an instruction of the same function.
JumpsLandInFunction ==
  phase = "outside" =>
    \A p \in Jumps, i \in 1..Len(funcs) :
      p \in funcs[i].begin .. FuncEnd(i) - 1 =>
        Target(p) \in DOMAIN code \cap (funcs[i].begin .. FuncEnd(i) - 1)

\* A backward jump, in the short or the long form, goes to the address
\* gen_jmpbackward was given.
BackwardJumpsHit == \A p \in DOMAIN backs : Target(p) = backs[p].dest

\* A displacement that has been filled in is never written again: not by the
\* lists of an enclosing statement, nor by those of a later function.
PatchedStays ==
  [][\A s \in DOMAIN want \ open : text'[s] = text[s] /\ s \notin open']_vars

\* A backpatch that has started returns (a list with a cycle would not let it).
BackpatchTerminates == patching # <<>> ~> patching = <<>>

-----------------------------------------------------------------------------
\* The inductive invariant: what the above rests on.

\* Where the parser is, and what it holds there
PhaseShape ==
  /\ phase \in {"outside", "epilog"} => stack = <<>>
  /\ phase \in {"outside", "crashed"} => patching = <<>>
  /\ phase # "outside" => Len(funcs) > 0

\* Displacements lie below ind.
CellsBelow == \A x \in DOMAIN text : x < ind

\* Labels in use are apart: the return label, then those of the frames from
\* the outermost in; those of open statements stand for no address yet.
LabelsApart ==
  /\ \A l \in DOMAIN bound : l < labels
  /\ \A i \in 1..Depth :
       /\ stack[i].l + 1 < labels
       /\ stack[i].l \notin DOMAIN bound /\ stack[i].l + 1 \notin DOMAIN bound
       /\ \A j \in 1..Depth : i < j => stack[i].l + 1 < stack[j].l
  /\ phase \in {"body", "crashed"} =>
       /\ ReturnLabel < labels
       /\ ReturnLabel \notin DOMAIN bound
       /\ \A i \in 1..Depth : ReturnLabel < stack[i].l

\* A running backpatch fills in the address of its label.
CallsBound ==
  \A k \in 1..Len(patching) :
    /\ patching[k].l \in DOMAIN bound
    /\ patching[k].a = bound[patching[k].l]
    /\ \A m \in 1..Len(patching) : patching[m].l = patching[k].l => m = k

\* bsym and csym of a frame are NULL or point into a for further out, with
\* no for between.
LoopsInnermost ==
  \A i \in 1..Depth :
    /\ stack[i].loop \in 0..(i - 1)
    /\ stack[i].loop # 0 => stack[stack[i].loop].kind = "for"
    /\ \A j \in 1..(i - 1) : stack[j].kind = "for" => j <= stack[i].loop

IInv == /\ TypeOK /\ PhaseShape /\ CellsBelow /\ LabelsApart /\ CallsBound
        /\ LoopsInnermost /\ ListsThreaded /\ NoJumpForgotten /\ PatchedJumpsHit

\* Where an instruction may begin
Boundary == DOMAIN code \cup {ind}

\* While a function is open, the bytes of its prologue are not written yet.
Gap == IF phase = "outside" THEN {} ELSE {func_begin_ind}

\* The instructions follow each other without overlap up to ind, except for the
\* gap at the beginning of the function that is being compiled.
Layout ==
  /\ DOMAIN code \subseteq Nat
  /\ \A p \in DOMAIN code :
       /\ code[p].len \in Nat \ {0}
       /\ p + code[p].len <= ind
       /\ p + code[p].len \in Boundary \cup Gap
       /\ \A q \in DOMAIN code : q > p => q >= p + code[p].len
  /\ phase # "outside" =>
       /\ func_begin_ind + FUNC_PROLOG_SIZE \in Boundary
       /\ \A p \in DOMAIN code : \/ p + code[p].len <= func_begin_ind
                                 \/ p >= func_begin_ind + FUNC_PROLOG_SIZE

\* Two addresses of the same function
SameFunction(p, q) == \A i \in 1..Len(funcs) : funcs[i].begin <= p <=> funcs[i].begin <= q

\* Functions begin one after another.
FuncsOrdered ==
  /\ \A i \in 1..Len(funcs) : funcs[i].begin <= ind
  /\ phase # "outside" => /\ func_begin_ind = funcs[Len(funcs)].begin
                          /\ \A i \in 1..Len(funcs) : funcs[i].begin <= func_begin_ind

\* The addresses labels stand for and for_statement keeps begin an instruction;
\* those of the function that is being compiled belong to it.
LabelsLand ==
  /\ \A l \in DOMAIN bound :
       bound[l] \in IF phase = "outside" THEN DOMAIN code ELSE Boundary
  /\ \A i \in 1..Depth : stack[i].kind = "for" =>
       stack[i].c \in Boundary /\ stack[i].c >= func_begin_ind

\* A forward jump has a slot, whose label stands for an address in the same
\* function or is one of the function that is being compiled.
SlotLabelled(p) ==
  /\ code[p].len > 4 /\ Cell(p) \in DOMAIN want
  /\ IF want[Cell(p)] \in DOMAIN bound THEN SameFunction(p, bound[want[Cell(p)]])
     ELSE phase # "outside" /\ p >= func_begin_ind

\* The displacement of a backward jump is in no slot, and leads to an
\* instruction of the same function.
BackLands(p) ==
  /\ code[p].len \in {2, 5} /\ Cell(p) \in DOMAIN text \ DOMAIN want
  /\ Target(p) = backs[p].dest
  /\ backs[p].dest \in DOMAIN code /\ SameFunction(p, backs[p].dest)

JumpsLabelled ==
  /\ DOMAIN backs \subseteq Jumps
  /\ \A p \in Jumps \ DOMAIN backs : SlotLabelled(p)
  /\ \A p \in DOMAIN backs : BackLands(p)

LayoutInv == Layout /\ FuncsOrdered /\ LabelsLand /\ JumpsLabelled

-----------------------------------------------------------------------------
\* The refinement: the frames are the open statements, their lists the
\* labels, and the displacement in a patched slot its target.
Nested(f) == [kind |-> f.kind,
              exit |-> f.l,
              cont |-> IF f.kind = "for" THEN f.l + 1 ELSE 0,
              step |-> IF f.kind = "for" THEN f.c ELSE 0]
Nest    == [i \in 1..Depth |-> Nested(stack[i])]
Targets == [s \in DOMAIN want \ open |-> text[s] + s + 4]
Ret     == IF funcs = <<>> THEN 0 ELSE ReturnLabel

Labels == INSTANCE JumpLabels WITH
  here   <- ind,
  nest   <- Nest,
  target <- Targets,
  ret    <- Ret,
  fresh  <- labels

\* Threading the pending jumps through the code itself, and passing a pair of
\* list heads down the recursive descent, gives every jump the target its
\* statement calls for.
ImplementsLabels == Labels!Spec

-----------------------------------------------------------------------------
\* What the source says and the code does not do.

\* The third expression of a for is followed by the test: the jump after it
\* goes to the second expression (test_code.cpp line 12, "for (i = 0;
\* i < 100; i = i + 1)"; the address is saved in d).
IncrementReturnsToTest == \A p \in DOMAIN backs : Target(p) = backs[p].meant
=============================================================================
