--------------------------- MODULE JumpGenProofs ---------------------------
(***************************************************************************)
(* Proofs about JumpGen, for every program, every length of expression and *)
(* every bound: the lists of pending jumps are threaded as intended, and   *)
(* every patched jump hits its label; the instructions of finished         *)
(* functions tile .text, and every jump in them, forward or backward,      *)
(* short or long, leads to the beginning of an instruction of the same     *)
(* function.  With the same invariant: JumpGen implements JumpLabels, each *)
(* step of the parser is a step of the labels, or leaves them as they are. *)
(***************************************************************************)
EXTENDS JumpGen, SequenceTheorems, TLAPS

-----------------------------------------------------------------------------
(* The emitters.                                                           *)

\* A text section: displacements are integers and lie below ind.
Section(s) ==
  /\ s.ind \in Nat
  /\ DOMAIN s.text \subseteq Nat
  /\ s.text \in [DOMAIN s.text -> Int]
  /\ \A x \in DOMAIN s.text : x < s.ind

\* r is s with more bytes: what was written stays.
Longer(s, r) ==
  /\ Section(r)
  /\ r.ind >= s.ind
  /\ DOMAIN s.text \subseteq DOMAIN r.text
  /\ \A x \in DOMAIN s.text : r.text[x] = s.text[x]
  /\ \A x \in DOMAIN r.text \ DOMAIN s.text : x >= s.ind

\* Longer is transitive.
LEMMA LongerTrans ==
  ASSUME NEW s, NEW r, NEW q, Section(s), Longer(s, r), Longer(r, q)
  PROVE  Longer(s, q)
BY DEF Section, Longer

\* An expression only moves ind.
LEMMA GenExprLonger ==
  ASSUME NEW s, NEW n \in Nat, Section(s)
  PROVE  /\ Longer(s, GenExpr(s, n))
         /\ GenExpr(s, n).text = s.text
BY DEF Section, Longer, GenExpr, Emit

\* r is s with one more slot, above all others, linked to t.
AddsSlot(s, r, t) ==
  /\ Longer(s, r)
  /\ LastSlot(r) \in Nat \ {0}
  /\ LastSlot(r) >= s.ind
  /\ DOMAIN r.text = DOMAIN s.text \cup {LastSlot(r)}
  /\ r.text[LastSlot(r)] = t
  /\ r.ind > s.ind

\* An instruction with a slot adds that slot.
LEMMA EmitSlotLonger ==
  ASSUME NEW s, NEW op, NEW len \in Nat, len > 4, NEW t \in Nat, Section(s)
  PROVE  AddsSlot(s, EmitSlot(s, op, len, t), t)
BY DEF AddsSlot, Section, Longer, EmitSlot, LastSlot, Put

\* gen_jmpforward adds one slot.
LEMMA GenJmpForwardLonger ==
  ASSUME NEW s, NEW t \in Nat, Section(s)
  PROVE  AddsSlot(s, GenJmpForward(s, t), t)
BY EmitSlotLonger DEF GenJmpForward

\* Code without a slot may come first.
LEMMA LongerAddsSlot ==
  ASSUME NEW s, NEW q, NEW r, NEW t, Section(s), Longer(s, q), q.text = s.text,
         AddsSlot(q, r, t)
  PROVE  AddsSlot(s, r, t)
<1>1. Longer(s, r)
  BY LongerTrans DEF AddsSlot
<1>2. s.ind \in Nat /\ q.ind \in Nat /\ r.ind \in Nat /\ q.ind >= s.ind
  BY DEF AddsSlot, Section, Longer
<1> QED BY <1>1, <1>2 DEF AddsSlot

\* So does gen_jcc, whatever the form of the condition.
LEMMA GenJccLonger ==
  ASSUME NEW s, NEW form, NEW t \in Nat, Section(s)
  PROVE  AddsSlot(s, GenJcc(s, form, t), t)
<1>1. CASE form = "cmp"
  BY <1>1, EmitSlotLonger DEF GenJcc
<1>2. CASE form = "const"
  BY <1>2, GenJmpForwardLonger DEF GenJcc
<1>3. CASE form \notin {"cmp", "const"}
  <2>1. PICK q : q = Emit(s, "expr", 2)
    OBVIOUS
  <2>2. Longer(s, q) /\ q.text = s.text
    BY <2>1 DEF Section, Longer, Emit
  <2>3. GenJcc(s, form, t) = EmitSlot(q, "jcc", 6, t)
    BY <1>3, <2>1 DEF GenJcc
  <2>4. Section(q)
    BY <2>2 DEF Longer
  <2>5. AddsSlot(q, EmitSlot(q, "jcc", 6, t), t)
    BY <2>4, EmitSlotLonger
  <2> QED BY <2>2, <2>3, <2>5, LongerAddsSlot
<1> QED BY <1>1, <1>2, <1>3

\* A backward jump writes a displacement nothing else is stored at.
LEMMA GenJmpBackwardLonger ==
  ASSUME NEW s, NEW a \in Nat, Section(s)
  PROVE  /\ Longer(s, GenJmpBackward(s, a))
         /\ GenJmpBackward(s, a).ind > s.ind
<1> DEFINE short == FitsChar(a - s.ind - 2)
<1>1. CASE short
  <2>1. AsChar(a - s.ind - 2) \in Int
    BY DEF Section, AsChar
  <2> QED BY <1>1, <2>1 DEF Section, Longer, GenJmpBackward, LongDisplacement, Put
<1>2. CASE ~short
  BY <1>2 DEF Section, Longer, GenJmpBackward, LongDisplacement, Put
<1> QED BY <1>1, <1>2

-----------------------------------------------------------------------------
(* Threaded lists, whatever the function they are threaded through.        *)

\* A list is where its slots are.
LEMMA ThreadKept ==
  ASSUME NEW f, NEW g, NEW h, NEW S, ThreadedIn(f, h, S), \A x \in S : g[x] = f[x]
  PROVE  ThreadedIn(g, h, S)
BY DEF ThreadedIn

\* makelist: a slot above all of a list's, linked to its head, heads it.
LEMMA ThreadPush ==
  ASSUME NEW f, NEW g, NEW h \in Nat, NEW S, S \subseteq Nat \ {0},
         ThreadedIn(f, h, S), \A x \in S : g[x] = f[x],
         NEW n \in Nat \ {0}, \A x \in S : x < n, g[n] = h
  PROVE  ThreadedIn(g, n, S \cup {n})
<1>1. h < n
  BY DEF ThreadedIn
<1>2. \A s \in S : s <= h
  BY DEF ThreadedIn
<1> QED BY <1>1, <1>2 DEF ThreadedIn

\* backpatch: without its head, the list begins at what the head linked to.
LEMMA ThreadPop ==
  ASSUME NEW f, NEW g, NEW h, NEW S, S \subseteq Nat \ {0},
         ThreadedIn(f, h, S), h # 0, \A x \in S \ {h} : g[x] = f[x]
  PROVE  h \in S /\ ThreadedIn(g, f[h], S \ {h})
<1>1. h \in S
  BY DEF ThreadedIn
<1>2. f[h] \in S \cup {0} /\ f[h] < h /\ \A x \in S : x < h => x <= f[h]
  BY <1>1 DEF ThreadedIn
<1>3. \A x \in S \ {h} : x <= f[h]
  BY <1>1, <1>2 DEF ThreadedIn
<1>4. \A s \in S \ {h} : s < h /\ f[s] < s /\ f[s] # h
  BY <1>1 DEF ThreadedIn
<1>5. \A s \in S \ {h} : f[s] \in (S \ {h}) \cup {0}
  BY <1>1, <1>4 DEF ThreadedIn
<1>6. f[h] \in (S \ {h}) \cup {0}
  BY <1>1, <1>2
<1>7. \A s \in S \ {h} : \A x \in S \ {h} : x < s => x <= f[s]
  BY DEF ThreadedIn
<1> QED BY <1>1, <1>3, <1>4, <1>5, <1>6, <1>7 DEF ThreadedIn

\* A list whose head is 0 is empty, and the empty list has head 0.
LEMMA ThreadEmpty ==
  ASSUME NEW f
  PROVE  /\ \A S \in SUBSET (Nat \ {0}) : ThreadedIn(f, 0, S) => S = {}
         /\ ThreadedIn(f, 0, {})
BY DEF ThreadedIn

-----------------------------------------------------------------------------
(* What a step of the emitters does to the lists in the state.             *)

\* The step wrote code after what was there.
Grown ==
  /\ ind' \in Nat /\ ind' >= ind
  /\ DOMAIN text' \subseteq Nat /\ text' \in [DOMAIN text' -> Int]
  /\ DOMAIN text \subseteq DOMAIN text'
  /\ \A x \in DOMAIN text : text'[x] = text[x]
  /\ CellsBelow'

\* The section of a state has what the emitters expect.
LEMMA SectionNow == TypeOK /\ CellsBelow => Section(Text)
BY DEF TypeOK, CellsBelow, Section, Text

\* A step that writes a longer section grows the code.
LEMMA WriteGrown ==
  ASSUME NEW s, Write(s), Longer(Text, s)
  PROVE  Grown
BY DEF Write, Longer, Section, Text, Grown, CellsBelow

\* Without a new slot every list stays what it was.
LEMMA ListsKept ==
  ASSUME TypeOK, Grown, UNCHANGED <<want, open>>
  PROVE  \A h, l : Threaded(h, Waiting(l)) => Threaded(h, Waiting(l))'
<1> SUFFICES ASSUME NEW h, NEW l, ThreadedIn(text, h, Waiting(l))
             PROVE  ThreadedIn(text', h, Waiting(l))
  BY DEF Threaded, Waiting
<1>1. \A x \in Waiting(l) : text'[x] = text[x]
  BY DEF TypeOK, Grown, Waiting
<1> QED BY <1>1, ThreadKept

\* A new slot n for label l joins the list of l, and no other.
LEMMA ListsPushed ==
  ASSUME TypeOK, CellsBelow, Grown,
         NEW n \in Nat \ {0}, n >= ind, NEW l, Slot(n, l)
  PROVE  /\ \A h, m : m # l /\ Threaded(h, Waiting(m)) => Threaded(h, Waiting(m))'
         /\ \A h \in Nat : text'[n] = h /\ Threaded(h, Waiting(l)) => Threaded(n, Waiting(l))'
<1>1. n \notin DOMAIN text /\ n \notin DOMAIN want /\ n \notin open
  BY DEF TypeOK, CellsBelow
<1>2. /\ \A m : m # l => Waiting(m)' = Waiting(m)
      /\ Waiting(l)' = Waiting(l) \cup {n}
  BY <1>1 DEF Slot, Put, Waiting, TypeOK
<1>3. \A m : Waiting(m) \subseteq Nat \ {0}
  BY DEF TypeOK, Waiting
<1>4. \A m : \A x \in Waiting(m) : x < n /\ text'[x] = text[x]
  BY DEF TypeOK, CellsBelow, Grown, Waiting
<1>5. ASSUME NEW h, NEW m, m # l, ThreadedIn(text, h, Waiting(m))
      PROVE  ThreadedIn(text', h, Waiting(m)')
  BY <1>2, <1>4, <1>5, ThreadKept
<1>6. ASSUME NEW h \in Nat, text'[n] = h, ThreadedIn(text, h, Waiting(l))
      PROVE  ThreadedIn(text', n, Waiting(l)')
  BY <1>2, <1>3, <1>4, <1>6, ThreadPush
<1> QED BY <1>5, <1>6 DEF Threaded

\* The step leaves the displacements that were filled in before.
Kept == \A s \in DOMAIN want \ open : text'[s] = text[s] /\ s \notin open'

\* The slots that are patched stay so when labels get addresses.
LEMMA PatchedKept ==
  ASSUME TypeOK, PatchedJumpsHit, Grown,
         DOMAIN want \subseteq DOMAIN want',
         \A s \in DOMAIN want : want'[s] = want[s],
         DOMAIN want' \ open' = DOMAIN want \ open,
         DOMAIN bound \subseteq DOMAIN bound',
         \A l \in DOMAIN bound : bound'[l] = bound[l]
  PROVE  PatchedJumpsHit' /\ Kept
BY DEF TypeOK, Grown, PatchedJumpsHit, Kept

\* The bookkeeping of a new slot
SlotAdded(n, l) ==
  /\ n \notin DOMAIN want
  /\ DOMAIN want' = DOMAIN want \cup {n} /\ want'[n] = l
  /\ \A x \in DOMAIN want : want'[x] = want[x]
  /\ want' \in [DOMAIN want' -> Nat]
  /\ 0 \notin DOMAIN want'
  /\ DOMAIN want' \subseteq DOMAIN text'
  /\ open' = open \cup {n} /\ open' \subseteq DOMAIN want'
  /\ DOMAIN want' \ open' = DOMAIN want \ open

\* A slot above the code is new.
LEMMA SlotFacts ==
  ASSUME TypeOK, CellsBelow, NEW n \in Nat \ {0}, n >= ind, n \in DOMAIN text', Grown,
         NEW l \in Nat, Slot(n, l)
  PROVE  SlotAdded(n, l)
BY DEF TypeOK, CellsBelow, Slot, Put, Grown, SlotAdded

\* A list that had a reader still has it, and the new slot has one.
LEMMA SlotAwaited ==
  ASSUME TypeOK, NoJumpForgotten, NEW n, NEW l, SlotAdded(n, l),
         \A m : Awaited(m) => Awaited(m)', Awaited(l)'
  PROVE  NoJumpForgotten'
<1>1. \A x \in open : want'[x] = want[x] /\ Awaited(want[x])
  BY DEF SlotAdded, NoJumpForgotten, TypeOK
<1>2. \A x \in open' : x \in open \/ want'[x] = l
  BY DEF SlotAdded
<1>3. \A x \in open' : \A m : m = want'[x] => Awaited(m)'
  BY <1>1, <1>2
<1> QED BY <1>3 DEF NoJumpForgotten, Awaited

-----------------------------------------------------------------------------
(* The inductive invariant, one lemma per action.                          *)

\* What the type invariant says of the frames and of the current function
LEMMA StackFacts ==
  ASSUME TypeOK
  PROVE  /\ Depth \in Nat
         /\ \A i \in 1..Depth : /\ stack[i] \in Frame
                               /\ stack[i].l \in Nat /\ stack[i].loop \in Nat
                               /\ stack[i].a \in Nat /\ stack[i].b \in Nat
                               /\ stack[i].c \in Nat
                               /\ stack[i].kind \in {"if", "else", "for"}
         /\ Len(funcs) \in Nat
         /\ Len(funcs) > 0 => ReturnLabel \in Nat
         /\ Len(patching) \in Nat
         /\ \A k \in 1..Len(patching) : /\ patching[k].t \in Nat
                                       /\ patching[k].a \in Nat
                                       /\ patching[k].l \in Nat
<1>1. Depth \in Nat /\ \A i \in 1..Depth : stack[i] \in Frame
  BY ElementOfSeq, LenProperties DEF TypeOK, Depth
<1>2. Len(funcs) \in Nat /\ \A i \in 1..Len(funcs) : funcs[i] \in Func
  BY ElementOfSeq, LenProperties DEF TypeOK
<1>3. Len(patching) \in Nat
      /\ \A k \in 1..Len(patching) : patching[k] \in Pending
  BY ElementOfSeq, LenProperties DEF TypeOK
<1> QED BY <1>1, <1>2, <1>3 DEF Frame, Func, Pending, ReturnLabel

\* A compiler that has read nothing satisfies the invariant.
LEMMA InitInv == Init => IInv
<1> SUFFICES ASSUME Init PROVE IInv
  OBVIOUS
<1>1. Depth = 0 /\ Len(patching) = 0 /\ Len(funcs) = 0
  BY DEF Init, Depth
<1> QED BY <1>1 DEF Init, IInv, TypeOK, PhaseShape, CellsBelow, LabelsApart, CallsBound,
                LoopsInnermost, ListsThreaded, NoJumpForgotten, PatchedJumpsHit

\* Straight-line code disturbs nothing.
LEMMA ExprStmtInv == IInv /\ ExprStmt => IInv' /\ Kept
<1> SUFFICES ASSUME IInv, ExprStmt PROVE IInv' /\ Kept
  OBVIOUS
<1> USE DEF IInv
<1>1. PICK n \in ExprSizes : Write(GenExpr(Text, n))
  BY DEF ExprStmt
<1>2. Grown
  BY <1>1, SectionNow, GenExprLonger, WriteGrown, JumpGenAssumption
<1> USE DEF ExprStmt, Read
<1>3. TypeOK'
  BY <1>2 DEF TypeOK, Grown
<1>4. PhaseShape' /\ LabelsApart' /\ CallsBound' /\ LoopsInnermost' /\ NoJumpForgotten'
  BY DEF PhaseShape, LabelsApart, CallsBound, LoopsInnermost, NoJumpForgotten, Awaited,
         Depth, ReturnLabel
<1>5. ListsThreaded'
  BY <1>2, ListsKept DEF ListsThreaded, ExitList, Depth, ReturnLabel
<1>6. PatchedJumpsHit' /\ Kept
  BY <1>2, PatchedKept
<1> QED BY <1>2, <1>3, <1>4, <1>5, <1>6 DEF Grown

\* return: one more slot on the list of rsym.
LEMMA ReturnInv == IInv /\ Return => IInv' /\ Kept
<1> SUFFICES ASSUME IInv, Return PROVE IInv' /\ Kept
  OBVIOUS
<1> USE DEF IInv
<1>1. PICK n \in ExprSizes :
        LET s == GenJmpForward(GenExpr(Text, n), rsym)
        IN /\ Write(s)
           /\ rsym' = LastSlot(s)
           /\ Slot(LastSlot(s), ReturnLabel)
  BY DEF Return
<1> DEFINE q == GenExpr(Text, n)
           s == GenJmpForward(q, rsym)
           t == LastSlot(s)
<1>2. AddsSlot(Text, s, rsym)
  <2>1. Longer(Text, q) /\ q.text = Text.text
    BY SectionNow, GenExprLonger, JumpGenAssumption
  <2>2. AddsSlot(q, s, rsym)
    BY <2>1, GenJmpForwardLonger DEF Longer, TypeOK
  <2> QED BY <2>1, <2>2, SectionNow, LongerAddsSlot
<1>3. Grown
  BY <1>1, <1>2, WriteGrown DEF AddsSlot
<1>4. /\ t \in Nat \ {0} /\ t >= ind /\ t \in DOMAIN text' /\ text'[t] = rsym
      /\ rsym' = t /\ Slot(t, ReturnLabel)
  BY <1>1, <1>2 DEF AddsSlot, Write, Text
<1> HIDE DEF s, q, t
<1> USE DEF Return, Read, Parsing
<1>5. ReturnLabel \in Nat /\ ReturnLabel < labels /\ \A i \in 1..Depth : ReturnLabel < stack[i].l
  BY StackFacts DEF PhaseShape, LabelsApart
<1>6. SlotAdded(t, ReturnLabel)
  BY <1>3, <1>4, <1>5, SlotFacts
<1>7. TypeOK'
  BY <1>3, <1>4, <1>5, <1>6 DEF TypeOK, Grown, SlotAdded
<1>8. PhaseShape' /\ LabelsApart' /\ CallsBound' /\ LoopsInnermost'
  BY DEF PhaseShape, LabelsApart, CallsBound, LoopsInnermost, Depth, ReturnLabel
<1>9. NoJumpForgotten'
  <2>1. \A l : Awaited(l) => Awaited(l)'
    BY DEF Awaited, Depth, ReturnLabel
  <2>2. Awaited(ReturnLabel)'
    BY DEF Awaited
  <2>3. ReturnLabel' = ReturnLabel
    BY DEF ReturnLabel
  <2> QED BY <1>6, <2>1, <2>2, <2>3, SlotAwaited
<1>10. ListsThreaded'
  <2>1. Threaded(rsym, Waiting(ReturnLabel))
    BY DEF ListsThreaded
  <2>2. Threaded(rsym, Waiting(ReturnLabel))'
    BY <1>3, <1>4, <2>1, ListsPushed DEF TypeOK, ReturnLabel
  <2>3. \A i \in 1..Depth : stack[i].l # ReturnLabel /\ stack[i].l + 1 # ReturnLabel
    BY <1>5, StackFacts
  <2> QED BY <1>3, <1>4, <2>2, <2>3, ListsPushed DEF ListsThreaded, ExitList, Depth, ReturnLabel
<1>11. PatchedJumpsHit' /\ Kept
  BY <1>3, <1>6, PatchedKept DEF SlotAdded
<1> QED BY <1>3, <1>7, <1>8, <1>9, <1>10, <1>11 DEF Grown

\* bsym and csym of the statement being parsed are NULL or point into the
\* innermost for.
LEMMA LoopFacts ==
  ASSUME TypeOK, LoopsInnermost
  PROVE  /\ Loop \in 0..Depth
         /\ Loop # 0 => stack[Loop].kind = "for"
         /\ \A j \in 1..Depth : stack[j].kind = "for" => j <= Loop
<1>1. CASE Depth = 0
  BY <1>1, StackFacts DEF Loop
<1>2. CASE Depth > 0 /\ Top.kind = "for"
  BY <1>2, StackFacts DEF Loop, Top
<1>3. CASE Depth > 0 /\ Top.kind # "for"
  <2>1. Loop = stack[Depth].loop /\ Depth \in 1..Depth /\ Depth \in Nat
    BY <1>3, StackFacts DEF Loop, Top
  <2>2. /\ Loop \in 0..(Depth - 1)
        /\ Loop # 0 => stack[Loop].kind = "for"
        /\ \A j \in 1..(Depth - 1) : stack[j].kind = "for" => j <= Loop
    BY <2>1 DEF LoopsInnermost
  <2> QED BY <1>3, <2>1, <2>2 DEF Top
<1> QED BY <1>1, <1>2, <1>3, StackFacts

\* break: one more slot on the list a of the innermost for.
LEMMA BreakInv == IInv /\ Break => IInv' /\ Kept
<1> SUFFICES ASSUME IInv, Break PROVE IInv' /\ Kept
  OBVIOUS
<1> USE DEF IInv
<1>0. PICK k, l, h, t : /\ k = Loop /\ l = stack[k].l /\ h = stack[k].a
                        /\ t = LastSlot(GenJmpForward(Text, h))
  OBVIOUS
<1>1. /\ k \in 1..Depth /\ stack[k].kind = "for" /\ stack[k] \in Frame
      /\ h \in Nat /\ l \in Nat /\ Depth \in Nat
  BY <1>0, LoopFacts, StackFacts DEF Break
<1>2. /\ Write(GenJmpForward(Text, h)) /\ Slot(t, l)
      /\ stack' = [stack EXCEPT ![k].a = t]
  BY <1>0 DEF Break
<1>3. AddsSlot(Text, GenJmpForward(Text, h), h)
  BY <1>1, SectionNow, GenJmpForwardLonger
<1>4. Grown
  BY <1>2, <1>3, WriteGrown DEF AddsSlot
<1>5. t \in Nat \ {0} /\ t >= ind /\ t \in DOMAIN text' /\ text'[t] = h
  BY <1>0, <1>2, <1>3 DEF AddsSlot, Write, Text
<1>6. SlotAdded(t, l)
  BY <1>1, <1>2, <1>4, <1>5, SlotFacts
<1>7. /\ stack' \in Seq(Frame) /\ Depth' = Depth
      /\ \A i \in 1..Depth : /\ i # k => stack'[i] = stack[i]
                            /\ stack'[i].kind = stack[i].kind
                            /\ stack'[i].loop = stack[i].loop
                            /\ stack'[i].l = stack[i].l
      /\ stack'[k].a = t /\ stack'[k].b = stack[k].b
  <2>1. [stack[k] EXCEPT !.a = t] \in Frame
    BY <1>1, <1>5 DEF Frame
  <2>2. stack' = [stack EXCEPT ![k] = [stack[k] EXCEPT !.a = t]]
    BY <1>2
  <2>3. stack \in Seq(Frame) /\ \A i \in 1..Depth : stack[i] \in Frame
    BY StackFacts DEF TypeOK
  <2>4. /\ stack' \in Seq(Frame) /\ Len(stack') = Len(stack)
        /\ \A i \in 1..Len(stack) :
             stack'[i] = IF i = k THEN [stack[k] EXCEPT !.a = t] ELSE stack[i]
    BY <1>1, <2>1, <2>2, <2>3, ExceptSeq DEF Depth
  <2> QED BY <1>1, <2>3, <2>4 DEF Depth, Frame
<1> USE DEF Break, Read, Parsing
<1>8. TypeOK'
  <2>1. l < labels
    BY <1>0, <1>1, StackFacts DEF LabelsApart, TypeOK
  <2>2. \A x \in DOMAIN want' : want'[x] < labels
    BY <1>6, <2>1 DEF TypeOK, SlotAdded
  <2> QED BY <1>4, <1>6, <1>7, <2>2 DEF TypeOK, Grown, SlotAdded
<1>9. PhaseShape' /\ LabelsApart' /\ CallsBound' /\ LoopsInnermost'
  <2>1. PhaseShape' /\ CallsBound'
    BY <1>1 DEF PhaseShape, CallsBound, Depth
  <2>2. LabelsApart'
    BY <1>7 DEF LabelsApart, ReturnLabel
  <2>3. LoopsInnermost'
    <3>1. \A i \in 1..Depth : \A j \in 1..(i - 1) : j \in 1..Depth
      BY <1>1
    <3>2. \A i \in 1..Depth : stack[i].loop # 0 => stack[i].loop \in 1..Depth
      BY <1>1, <3>1 DEF LoopsInnermost
    <3> QED BY <1>7, <3>1, <3>2 DEF LoopsInnermost
  <2> QED BY <2>1, <2>2, <2>3
<1>10. NoJumpForgotten'
  <2>1. \A m : Awaited(m) => Awaited(m)'
    BY <1>7 DEF Awaited, ReturnLabel
  <2>2. Awaited(l)'
    BY <1>0, <1>1, <1>7 DEF Awaited
  <2> QED BY <1>6, <2>1, <2>2, SlotAwaited
<1>11. ListsThreaded'
  <2>1. /\ \A x, m : m # l /\ Threaded(x, Waiting(m)) => Threaded(x, Waiting(m))'
        /\ Threaded(h, Waiting(l)) => Threaded(t, Waiting(l))'
    BY <1>1, <1>2, <1>4, <1>5, ListsPushed
  <2>2. /\ \A i \in 1..Depth : i # k => stack[i].l # l /\ stack[i].l + 1 # l
        /\ stack[k].l + 1 # stack[k].l
        /\ ReturnLabel # l
        /\ Len(patching) = 0
    <3>1. ASSUME NEW i \in 1..Depth, i # k PROVE stack[i].l # l /\ stack[i].l + 1 # l
      <4>1. i \in Nat /\ k \in Nat /\ (i < k \/ k < i)
        BY <1>1, <3>1
      <4>2. stack[i].l + 1 < stack[k].l \/ stack[k].l + 1 < stack[i].l
        BY <1>1, <4>1 DEF LabelsApart
      <4>3. stack[i].l \in Nat /\ stack[k].l \in Nat
        BY <1>1, StackFacts
      <4> QED BY <1>0, <4>2, <4>3
    <3>2. ReturnLabel < stack[k].l /\ ReturnLabel \in Nat /\ stack[k].l \in Nat
      BY <1>1, StackFacts DEF LabelsApart, PhaseShape
    <3>3. Len(patching) = 0
      OBVIOUS
    <3> QED BY <1>0, <3>1, <3>2, <3>3
  <2>3. Threaded(h, Waiting(l)) /\ Threaded(t, Waiting(l))'
    BY <1>0, <1>1, <2>1 DEF ListsThreaded, ExitList
  <2>4. ASSUME NEW i \in 1..Depth, NEW x, NEW m,
               \/ x = ExitList(stack'[i]) /\ m = stack'[i].l
               \/ stack[i].kind = "for" /\ x = stack'[i].b /\ m = stack'[i].l + 1
        PROVE  Threaded(x, Waiting(m))'
    <3>1. CASE x = t /\ m = l
      BY <2>3, <3>1
    <3>2. CASE ~(x = t /\ m = l)
      <4>1. \/ x = ExitList(stack[i]) /\ m = stack[i].l
            \/ stack[i].kind = "for" /\ x = stack[i].b /\ m = stack[i].l + 1
        BY <1>0, <1>1, <1>7, <2>4, <3>2 DEF ExitList
      <4>2. Threaded(x, Waiting(m))
        BY <4>1 DEF ListsThreaded
      <4>3. m # l
        BY <1>0, <1>1, <1>7, <2>2, <2>4, <3>2 DEF ExitList
      <4> QED BY <2>1, <4>2, <4>3
    <3> QED BY <3>1, <3>2
  <2>5. \A m \in 1..Len(patching) : Threaded(patching[m].t, Waiting(patching[m].l))'
    BY <2>2
  <2>6. Threaded(rsym, Waiting(ReturnLabel))'
    BY <2>1, <2>2 DEF ListsThreaded, ReturnLabel
  <2> QED BY <1>7, <2>4, <2>5, <2>6 DEF ListsThreaded
<1>12. PatchedJumpsHit' /\ Kept
  BY <1>4, <1>6, PatchedKept DEF SlotAdded
<1> QED BY <1>4, <1>8, <1>9, <1>10, <1>11, <1>12 DEF Grown

\* continue: one more slot on the list b of the innermost for.
LEMMA ContinueInv == IInv /\ Continue => IInv' /\ Kept
<1> SUFFICES ASSUME IInv, Continue PROVE IInv' /\ Kept
  OBVIOUS
<1> USE DEF IInv
<1>0. PICK k, l, h, t : /\ k = Loop /\ l = stack[k].l + 1 /\ h = stack[k].b
                        /\ t = LastSlot(GenJmpForward(Text, h))
  OBVIOUS
<1>1. /\ k \in 1..Depth /\ stack[k].kind = "for" /\ stack[k] \in Frame
      /\ h \in Nat /\ l \in Nat /\ Depth \in Nat
  BY <1>0, LoopFacts, StackFacts DEF Continue
<1>2. /\ Write(GenJmpForward(Text, h)) /\ Slot(t, l)
      /\ stack' = [stack EXCEPT ![k].b = t]
  BY <1>0 DEF Continue
<1>3. AddsSlot(Text, GenJmpForward(Text, h), h)
  BY <1>1, SectionNow, GenJmpForwardLonger
<1>4. Grown
  BY <1>2, <1>3, WriteGrown DEF AddsSlot
<1>5. t \in Nat \ {0} /\ t >= ind /\ t \in DOMAIN text' /\ text'[t] = h
  BY <1>0, <1>2, <1>3 DEF AddsSlot, Write, Text
<1>6. SlotAdded(t, l)
  BY <1>1, <1>2, <1>4, <1>5, SlotFacts
<1>7. /\ stack' \in Seq(Frame) /\ Depth' = Depth
      /\ \A i \in 1..Depth : /\ i # k => stack'[i] = stack[i]
                            /\ stack'[i].kind = stack[i].kind
                            /\ stack'[i].loop = stack[i].loop
                            /\ stack'[i].l = stack[i].l
      /\ stack'[k].b = t /\ stack'[k].a = stack[k].a
  <2>1. [stack[k] EXCEPT !.b = t] \in Frame
    BY <1>1, <1>5 DEF Frame
  <2>2. stack' = [stack EXCEPT ![k] = [stack[k] EXCEPT !.b = t]]
    BY <1>2
  <2>3. stack \in Seq(Frame) /\ \A i \in 1..Depth : stack[i] \in Frame
    BY StackFacts DEF TypeOK
  <2>4. /\ stack' \in Seq(Frame) /\ Len(stack') = Len(stack)
        /\ \A i \in 1..Len(stack) :
             stack'[i] = IF i = k THEN [stack[k] EXCEPT !.b = t] ELSE stack[i]
    BY <1>1, <2>1, <2>2, <2>3, ExceptSeq DEF Depth
  <2> QED BY <1>1, <2>3, <2>4 DEF Depth, Frame
<1> USE DEF Continue, Read, Parsing
<1>8. TypeOK'
  <2>1. l < labels
    BY <1>0, <1>1, StackFacts DEF LabelsApart, TypeOK
  <2>2. \A x \in DOMAIN want' : want'[x] < labels
    BY <1>6, <2>1 DEF TypeOK, SlotAdded
  <2> QED BY <1>4, <1>6, <1>7, <2>2 DEF TypeOK, Grown, SlotAdded
<1>9. PhaseShape' /\ LabelsApart' /\ CallsBound' /\ LoopsInnermost'
  <2>1. PhaseShape' /\ CallsBound'
    BY <1>1 DEF PhaseShape, CallsBound, Depth
  <2>2. LabelsApart'
    BY <1>7 DEF LabelsApart, ReturnLabel
  <2>3. LoopsInnermost'
    <3>1. \A i \in 1..Depth : \A j \in 1..(i - 1) : j \in 1..Depth
      BY <1>1
    <3>2. \A i \in 1..Depth : stack[i].loop # 0 => stack[i].loop \in 1..Depth
      BY <1>1, <3>1 DEF LoopsInnermost
    <3> QED BY <1>7, <3>1, <3>2 DEF LoopsInnermost
  <2> QED BY <2>1, <2>2, <2>3
<1>10. NoJumpForgotten'
  <2>1. \A m : Awaited(m) => Awaited(m)'
    BY <1>7 DEF Awaited, ReturnLabel
  <2>2. Awaited(l)'
    BY <1>0, <1>1, <1>7 DEF Awaited
  <2> QED BY <1>6, <2>1, <2>2, SlotAwaited
<1>11. ListsThreaded'
  <2>1. /\ \A x, m : m # l /\ Threaded(x, Waiting(m)) => Threaded(x, Waiting(m))'
        /\ Threaded(h, Waiting(l)) => Threaded(t, Waiting(l))'
    BY <1>1, <1>2, <1>4, <1>5, ListsPushed
  <2>2. /\ \A i \in 1..Depth : i # k => stack[i].l # l /\ stack[i].l + 1 # l
        /\ stack[k].l + 1 # stack[k].l
        /\ ReturnLabel # l
        /\ Len(patching) = 0
    <3>1. ASSUME NEW i \in 1..Depth, i # k PROVE stack[i].l # l /\ stack[i].l + 1 # l
      <4>1. i \in Nat /\ k \in Nat /\ (i < k \/ k < i)
        BY <1>1, <3>1
      <4>2. stack[i].l + 1 < stack[k].l \/ stack[k].l + 1 < stack[i].l
        BY <1>1, <4>1 DEF LabelsApart
      <4>3. stack[i].l \in Nat /\ stack[k].l \in Nat
        BY <1>1, StackFacts
      <4> QED BY <1>0, <4>2, <4>3
    <3>2. ReturnLabel < stack[k].l /\ ReturnLabel \in Nat /\ stack[k].l \in Nat
      BY <1>1, StackFacts DEF LabelsApart, PhaseShape
    <3>3. Len(patching) = 0
      OBVIOUS
    <3> QED BY <1>0, <3>1, <3>2, <3>3
  <2>3. Threaded(h, Waiting(l)) /\ Threaded(t, Waiting(l))'
    BY <1>0, <1>1, <2>1 DEF ListsThreaded, ExitList
  <2>4. ASSUME NEW i \in 1..Depth, NEW x, NEW m,
               \/ x = ExitList(stack'[i]) /\ m = stack'[i].l
               \/ stack[i].kind = "for" /\ x = stack'[i].b /\ m = stack'[i].l + 1
        PROVE  Threaded(x, Waiting(m))'
    <3>1. CASE x = t /\ m = l
      BY <2>3, <3>1
    <3>2. CASE ~(x = t /\ m = l)
      <4>1. \/ x = ExitList(stack[i]) /\ m = stack[i].l
            \/ stack[i].kind = "for" /\ x = stack[i].b /\ m = stack[i].l + 1
        BY <1>0, <1>1, <1>7, <2>4, <3>2 DEF ExitList
      <4>2. Threaded(x, Waiting(m))
        BY <4>1 DEF ListsThreaded
      <4>3. m # l
        BY <1>0, <1>1, <1>7, <2>2, <2>4, <3>2 DEF ExitList
      <4> QED BY <2>1, <4>2, <4>3
    <3> QED BY <3>1, <3>2
  <2>5. \A m \in 1..Len(patching) : Threaded(patching[m].t, Waiting(patching[m].l))'
    BY <2>2
  <2>6. Threaded(rsym, Waiting(ReturnLabel))'
    BY <2>1, <2>2 DEF ListsThreaded, ReturnLabel
  <2> QED BY <1>7, <2>4, <2>5, <2>6 DEF ListsThreaded
<1>12. PatchedJumpsHit' /\ Kept
  BY <1>4, <1>6, PatchedKept DEF SlotAdded
<1> QED BY <1>4, <1>8, <1>9, <1>10, <1>11, <1>12 DEF Grown

\* Between functions, and before an epilogue, nothing is pending.
LEMMA NothingPending ==
  ASSUME TypeOK, PhaseShape, NoJumpForgotten, phase \in {"outside", "epilog"}, patching = <<>>
  PROVE  open = {}
<1>1. Depth = 0 /\ Len(patching) = 0
  BY DEF PhaseShape, Depth
<1> QED BY <1>1 DEF NoJumpForgotten, Awaited

\* A compiler that crashed keeps what it had.
LEMMA StrayJumpInv == IInv /\ StrayJump => IInv' /\ Kept
<1> SUFFICES ASSUME IInv, StrayJump PROVE IInv' /\ Kept
  OBVIOUS
<1> USE DEF IInv, StrayJump, Read, Parsing
<1>1. TypeOK' /\ PhaseShape' /\ CellsBelow' /\ CallsBound' /\ LoopsInnermost' /\ PatchedJumpsHit'
  BY DEF TypeOK, PhaseShape, CellsBelow, CallsBound, LoopsInnermost, PatchedJumpsHit, Depth
<1>2. LabelsApart'
  BY DEF LabelsApart, Depth, ReturnLabel
<1>3. ListsThreaded' /\ NoJumpForgotten'
  BY DEF ListsThreaded, Threaded, ThreadedIn, Waiting, ExitList, NoJumpForgotten, Awaited,
         Depth, ReturnLabel
<1>k. Kept
  BY DEF Kept
<1> QED BY <1>k, <1>1, <1>2, <1>3

\* A new function starts with an empty list of returns.
LEMMA OpenFuncInv == IInv /\ OpenFunc => IInv' /\ Kept
<1> SUFFICES ASSUME IInv, OpenFunc PROVE IInv' /\ Kept
  OBVIOUS
<1> USE DEF IInv, OpenFunc, NoReturns
<1>1. open = {} /\ Depth = 0 /\ Len(patching) = 0
  BY NothingPending DEF PhaseShape, Depth
<1>2. PICK stdcall \in BOOLEAN, bytes \in ParamBytes \cup {-1} :
        /\ funcs' = Append(funcs, [begin |-> ind, stdcall |-> stdcall,
                                  bytes |-> IF bytes = -1 THEN 0 ELSE bytes,
                                  pops |-> 0, ret |-> labels])
        /\ func_ret_sub' = IF bytes = -1 THEN func_ret_sub
                           ELSE IF stdcall THEN bytes ELSE 0
  OBVIOUS
<1>3. func_ret_sub' \in Nat
  BY <1>2, JumpGenAssumption DEF TypeOK
<1>4. /\ funcs' \in Seq(Func) /\ Len(funcs') > 0
      /\ funcs'[Len(funcs')].ret = labels
  <2>1. PICK f : f = [begin |-> ind, stdcall |-> stdcall,
                      bytes |-> IF bytes = -1 THEN 0 ELSE bytes,
                      pops |-> 0, ret |-> labels]
    OBVIOUS
  <2>2. f \in Func /\ f.ret = labels
    BY <2>1, JumpGenAssumption DEF Func, TypeOK
  <2>3. funcs \in Seq(Func) /\ Len(funcs) \in Nat /\ funcs' = Append(funcs, f)
    BY <1>2, <2>1, StackFacts DEF TypeOK
  <2> QED BY <2>2, <2>3
<1>5. ReturnLabel' = labels
  BY <1>4 DEF ReturnLabel
<1>6. TypeOK'
  <2>1. labels' = labels + 1 /\ labels \in Nat /\ \A x \in DOMAIN want : want[x] \in Nat /\ want[x] < labels
    BY DEF TypeOK
  <2>2. ind \in Nat /\ ind' \in Nat /\ func_begin_ind' \in Nat
    BY DEF TypeOK, FUNC_PROLOG_SIZE
  <2>3. /\ phase' = "body" /\ rsym' = 0
        /\ UNCHANGED <<text, stack, patching, want, bound, open>>
    OBVIOUS
  <2> HIDE DEF OpenFunc
  <2>4. labels' \in Nat /\ \A x \in DOMAIN want' : want'[x] < labels'
    BY <2>1, <2>3
  <2>5. /\ stack' \in Seq(Frame) /\ patching' \in Seq(Pending)
        /\ DOMAIN text' \subseteq Nat /\ text' \in [DOMAIN text' -> Int]
    BY <2>3 DEF TypeOK
  <2>6. /\ want' \in [DOMAIN want' -> Nat] /\ bound' \in [DOMAIN bound' -> Nat]
        /\ DOMAIN want' \subseteq DOMAIN text' /\ open' \subseteq DOMAIN want'
        /\ 0 \notin DOMAIN want' /\ DOMAIN bound' \subseteq Nat
    BY <2>3 DEF TypeOK
  <2> QED BY <1>3, <1>4, <2>2, <2>3, <2>4, <2>5, <2>6 DEF TypeOK
<1>7. PhaseShape' /\ CellsBelow' /\ CallsBound' /\ LoopsInnermost'
  BY <1>1, <1>4 DEF TypeOK, PhaseShape, CellsBelow, CallsBound, LoopsInnermost, Depth, FUNC_PROLOG_SIZE
<1>8. LabelsApart'
  BY <1>1, <1>5 DEF LabelsApart, TypeOK, Depth
<1>9. ListsThreaded'
  <2>1. rsym' = 0 /\ \A l : Waiting(l)' = {}
    BY <1>1 DEF Waiting
  <2>2. Threaded(rsym, Waiting(ReturnLabel))'
    BY <2>1 DEF Threaded, ThreadedIn, Waiting
  <2> QED BY <1>1, <2>2 DEF ListsThreaded, Depth
<1>10. NoJumpForgotten' /\ PatchedJumpsHit'
  BY <1>1 DEF NoJumpForgotten, PatchedJumpsHit
<1>k. Kept
  BY DEF Kept
<1> QED BY <1>k, <1>6, <1>7, <1>8, <1>9, <1>10

\* The end of a body: its returns are about to be patched.
LEMMA CloseBodyInv == IInv /\ CloseBody => IInv' /\ Kept
<1> SUFFICES ASSUME IInv, CloseBody PROVE IInv' /\ Kept
  OBVIOUS
<1> USE DEF IInv, CloseBody, Parsing
<1>1. Depth = 0 /\ Len(patching) = 0 /\ stack = <<>> /\ Depth' = 0
  BY DEF TypeOK, Depth
<1>2. PICK r : r = ReturnLabel
  OBVIOUS
<1>3. r \in Nat /\ r < labels /\ r \notin DOMAIN bound
  BY <1>2, StackFacts DEF LabelsApart, PhaseShape
<1>4. /\ Len(patching') = 1 /\ patching'[1].t = rsym /\ patching'[1].a = ind
      /\ patching'[1].l = r /\ patching' \in Seq(Pending)
  BY <1>2, <1>3 DEF Call, Pending, TypeOK
<1>5. bound' = Put(bound, r, ind)
  BY <1>2
<1>6. TypeOK'
  <2>1. DOMAIN bound' = DOMAIN bound \cup {r} /\ bound' \in [DOMAIN bound' -> Nat]
    BY <1>3, <1>5 DEF TypeOK, Put
  <2> QED BY <1>3, <1>4, <2>1 DEF TypeOK
<1>7. PhaseShape' /\ CellsBelow' /\ LoopsInnermost' /\ CallsBound' /\ LabelsApart'
  <2>1. PhaseShape' /\ CellsBelow' /\ LoopsInnermost'
    BY <1>1 DEF PhaseShape, CellsBelow, LoopsInnermost, TypeOK
  <2>2. CallsBound'
    BY <1>4, <1>5 DEF CallsBound, Put
  <2>3. LabelsApart'
    BY <1>1, <1>3, <1>5 DEF LabelsApart, Put
  <2> QED BY <2>1, <2>2, <2>3
<1>8. ListsThreaded'
  <2>1. Threaded(rsym, Waiting(r))
    BY <1>2 DEF ListsThreaded
  <2>2. Threaded(patching[1].t, Waiting(patching[1].l))'
    BY <1>4, <2>1 DEF Threaded, ThreadedIn, Waiting
  <2> QED BY <1>1, <1>4, <2>2 DEF ListsThreaded
<1>9. NoJumpForgotten'
  <2>1. \A s \in open : want[s] = r
    BY <1>1, <1>2 DEF NoJumpForgotten, Awaited
  <2> QED BY <1>4, <2>1 DEF NoJumpForgotten, Awaited
<1>10. PatchedJumpsHit'
  BY <1>3, <1>5 DEF PatchedJumpsHit, Put
<1>k. Kept
  BY DEF Kept
<1> QED BY <1>k, <1>6, <1>7, <1>8, <1>9, <1>10

\* The epilogue and the prologue hold no jump.
LEMMA GenEpilogInv == IInv /\ GenEpilog => IInv' /\ Kept
<1> SUFFICES ASSUME IInv, GenEpilog PROVE IInv' /\ Kept
  OBVIOUS
<1> USE DEF IInv, GenEpilog
<1>1. open = {} /\ Depth = 0 /\ Len(patching) = 0 /\ stack = <<>>
  BY NothingPending DEF PhaseShape, Depth
<1>2. text' = text /\ ind' \in Nat /\ ind' >= ind
  <2>1. PICK ret : ret = IF func_ret_sub = 0 THEN 1 ELSE 3
    OBVIOUS
  <2>2. PICK tail : tail = Emit(Emit(Emit(Text, "mov", 2), "pop", 1), "ret", ret)
    OBVIOUS
  <2>3. ret \in Nat /\ tail.ind = ind + 2 + 1 + ret /\ tail.text = text
    BY <2>1, <2>2 DEF Emit, Text
  <2>4. PICK full : full = Emit(Emit(Emit(MoveTo(tail, func_begin_ind), "push", 1),
                                    "mov", 2), "sub", 6)
    OBVIOUS
  <2>5. full.text = text
    BY <2>3, <2>4 DEF Emit, MoveTo
  <2>6. Write(MoveTo(full, tail.ind))
    BY <2>1, <2>2, <2>4
  <2> QED BY <2>3, <2>5, <2>6 DEF Write, MoveTo, TypeOK
<1>3. funcs' \in Seq(Func) /\ Len(funcs') = Len(funcs)
  <2>1. PICK n : n = Len(funcs)
    OBVIOUS
  <2>2. n \in 1..Len(funcs) /\ funcs \in Seq(Func) /\ funcs[n] \in Func
    BY <2>1, StackFacts, ElementOfSeq DEF PhaseShape, TypeOK
  <2>3. [funcs[n] EXCEPT !.pops = func_ret_sub] \in Func
    BY <2>2 DEF Func, TypeOK
  <2>4. funcs' = [funcs EXCEPT ![n] = [funcs[n] EXCEPT !.pops = func_ret_sub]]
    BY <2>1
  <2> QED BY <2>2, <2>3, <2>4, ExceptSeq
<1>4. TypeOK'
  BY <1>2, <1>3 DEF TypeOK
<1>5. PhaseShape' /\ CellsBelow' /\ LoopsInnermost' /\ CallsBound' /\ LabelsApart'
  BY <1>1, <1>2, <1>3 DEF PhaseShape, CellsBelow, LoopsInnermost, CallsBound, LabelsApart,
                          TypeOK, Depth
<1>6. ListsThreaded' /\ NoJumpForgotten' /\ PatchedJumpsHit'
  BY <1>1, <1>2 DEF ListsThreaded, NoJumpForgotten, PatchedJumpsHit, Depth
<1>k. Kept
  BY <1>2 DEF Kept
<1> QED BY <1>k, <1>4, <1>5, <1>6

\* backpatch returns when its list is empty.
LEMMA BackpatchReturnsInv == IInv /\ BackpatchReturns => IInv' /\ Kept
<1> SUFFICES ASSUME IInv, BackpatchReturns PROVE IInv' /\ Kept
  OBVIOUS
<1> USE DEF IInv, BackpatchReturns, history
<1>1. /\ patching \in Seq(Pending) /\ patching' \in Seq(Pending)
      /\ Len(patching) \in Nat /\ Len(patching) > 0 /\ Len(patching') = Len(patching) - 1
      /\ \A k \in 1..Len(patching') : k + 1 \in 1..Len(patching) /\ patching'[k] = patching[k + 1]
  BY StackFacts, HeadTailProperties, EmptySeq DEF TypeOK
<1>2. PICK l : l = patching[1].l
  OBVIOUS
<1>3. Waiting(l) = {}
  <2>1. patching[1].t = 0
    BY <1>1
  <2>2. ThreadedIn(text, 0, Waiting(l))
    BY <1>1, <1>2, <2>1 DEF ListsThreaded, Threaded
  <2>3. Waiting(l) \in SUBSET (Nat \ {0})
    BY DEF Waiting, TypeOK
  <2> QED BY <2>2, <2>3, ThreadEmpty
<1>4. TypeOK' /\ PhaseShape' /\ CellsBelow' /\ LoopsInnermost' /\ LabelsApart' /\ PatchedJumpsHit'
  <2>1. TypeOK' /\ CellsBelow' /\ PatchedJumpsHit'
    BY <1>1 DEF TypeOK, CellsBelow, PatchedJumpsHit
  <2>2. PhaseShape'
    BY DEF PhaseShape
  <2>3. LoopsInnermost' /\ LabelsApart'
    BY DEF LoopsInnermost, LabelsApart, Depth, ReturnLabel
  <2> QED BY <2>1, <2>2, <2>3
<1>5. CallsBound'
  BY <1>1 DEF CallsBound
<1>6. ListsThreaded'
  <2>1. \A i \in 1..Depth : \A x, m : Threaded(x, Waiting(m)) => Threaded(x, Waiting(m))'
    BY DEF Threaded, ThreadedIn, Waiting
  <2>2. \A k \in 1..Len(patching') : Threaded(patching[k].t, Waiting(patching[k].l))'
    BY <1>1 DEF ListsThreaded, Threaded, ThreadedIn, Waiting
  <2> QED BY <2>2 DEF ListsThreaded, Threaded, ThreadedIn, Waiting, ExitList, Depth, ReturnLabel
<1>7. NoJumpForgotten'
  <2>1. ASSUME NEW m, Awaited(m), m # l PROVE Awaited(m)'
    <3>1. CASE \E k \in 1..Len(patching) : m = patching[k].l
      <4>1. PICK k \in 1..Len(patching) : m = patching[k].l
        BY <3>1
      <4>2. k # 1 /\ k - 1 \in 1..Len(patching') /\ (k - 1) + 1 = k
        BY <1>1, <1>2, <2>1, <4>1
      <4>3. patching'[k - 1].l = m
        BY <1>1, <4>1, <4>2
      <4> QED BY <4>2, <4>3 DEF Awaited
    <3>2. CASE ~ \E k \in 1..Len(patching) : m = patching[k].l
      BY <2>1, <3>2 DEF Awaited, Depth, ReturnLabel
    <3> QED BY <3>1, <3>2
  <2>2. \A s \in open : want[s] # l
    BY <1>3 DEF Waiting
  <2>3. \A s \in open : \A m : m = want[s] => Awaited(m)'
    BY <2>1, <2>2 DEF NoJumpForgotten
  <2> QED BY <2>3 DEF NoJumpForgotten, Awaited
<1>k. Kept
  BY DEF Kept, history
<1> QED BY <1>k, <1>4, <1>5, <1>6, <1>7

\* One iteration takes the head off its list and fills in the address of the
\* list's label.
LEMMA BackpatchInv == IInv /\ Backpatch => IInv' /\ Kept
<1> SUFFICES ASSUME IInv, Backpatch PROVE IInv' /\ Kept
  OBVIOUS
<1> USE DEF IInv, Backpatch, Displacement, NextSlot
<1>0. PICK t, a, l, n : t = patching[1].t /\ a = patching[1].a /\ l = patching[1].l /\ n = text[t]
  OBVIOUS
<1>1. /\ patching \in Seq(Pending) /\ Len(patching) \in Nat /\ 1 \in 1..Len(patching)
      /\ Head(patching) = patching[1] /\ patching[1] \in Pending
      /\ t \in Nat /\ t # 0 /\ a \in Nat /\ l \in Nat
  <2>1. patching \in Seq(Pending) /\ Len(patching) \in Nat /\ 1 \in 1..Len(patching)
    BY StackFacts, EmptySeq DEF TypeOK
  <2>2. Head(patching) = patching[1] /\ patching[1] \in Pending
    BY <2>1, ElementOfSeq
  <2>3. Head(patching).t # 0
    OBVIOUS
  <2> QED BY <1>0, <2>1, <2>2, <2>3 DEF Pending
<1>2. /\ text' = [text EXCEPT ![t] = a - t - 4]
      /\ patching' = [patching EXCEPT ![1] = [patching[1] EXCEPT !.t = n]]
      /\ open' = open \ {t}
  BY <1>0, <1>1
<1>3. l \in DOMAIN bound /\ bound[l] = a
  BY <1>0, <1>1 DEF CallsBound
<1>4. \A m : Waiting(m) \subseteq Nat \ {0} /\ Waiting(m) \subseteq DOMAIN text
  BY DEF Waiting, TypeOK
<1>5. ThreadedIn(text, t, Waiting(l))
  BY <1>0, <1>1 DEF ListsThreaded, Threaded
<1>6. t \in Waiting(l) /\ n \in (Waiting(l) \ {t}) \cup {0} /\ n \in Nat
  <2>1. t \in Waiting(l) /\ ThreadedIn(text, n, Waiting(l) \ {t})
    BY <1>0, <1>1, <1>4, <1>5, ThreadPop
  <2> QED BY <1>4, <2>1 DEF ThreadedIn
<1>7. /\ DOMAIN text' = DOMAIN text /\ text'[t] = a - t - 4
      /\ \A x \in DOMAIN text : x # t => text'[x] = text[x]
      /\ text' \in [DOMAIN text' -> Int]
  <2>1. t \in DOMAIN text /\ text \in [DOMAIN text -> Int] /\ a - t - 4 \in Int
    BY <1>1, <1>4, <1>6 DEF TypeOK
  <2> QED BY <1>2, <2>1
<1>8. /\ patching' \in Seq(Pending) /\ Len(patching') = Len(patching)
      /\ patching'[1].t = n /\ patching'[1].a = a /\ patching'[1].l = l
      /\ \A k \in 1..Len(patching) : k # 1 => patching'[k] = patching[k]
  <2>1. [patching[1] EXCEPT !.t = n] \in Pending
    BY <1>1, <1>6 DEF Pending
  <2>2. /\ patching' \in Seq(Pending) /\ Len(patching') = Len(patching)
        /\ \A k \in 1..Len(patching) :
             patching'[k] = IF k = 1 THEN [patching[1] EXCEPT !.t = n] ELSE patching[k]
    BY <1>1, <1>2, <2>1, ExceptSeq
  <2> QED BY <1>0, <1>1, <2>2 DEF Pending
<1>9. \A m : Waiting(m)' = Waiting(m) \ {t}
  BY <1>2 DEF Waiting
<1>10. \A x, m : m # l /\ Threaded(x, Waiting(m)) => Threaded(x, Waiting(m))'
  <2> SUFFICES ASSUME NEW x, NEW m, m # l, ThreadedIn(text, x, Waiting(m))
               PROVE  ThreadedIn(text', x, Waiting(m)')
    BY DEF Threaded
  <2>1. t \notin Waiting(m)
    BY <1>6 DEF Waiting
  <2>2. Waiting(m)' = Waiting(m) /\ \A y \in Waiting(m) : text'[y] = text[y]
    BY <1>4, <1>7, <1>9, <2>1
  <2> QED BY <2>2, ThreadKept
<1>11. Threaded(n, Waiting(l))'
  <2>1. \A y \in Waiting(l) \ {t} : text'[y] = text[y]
    BY <1>4, <1>7
  <2>2. PICK g : g = text'
    OBVIOUS
  <2>3. ThreadedIn(g, text[t], Waiting(l) \ {t})
    BY <1>1, <1>4, <1>5, <2>1, <2>2, ThreadPop
  <2> QED BY <1>0, <1>9, <2>2, <2>3 DEF Threaded
<1>12. TypeOK'
  BY <1>2, <1>7, <1>8 DEF TypeOK
<1>13. PhaseShape' /\ CellsBelow' /\ LoopsInnermost' /\ LabelsApart'
  <2>1. PhaseShape' /\ CellsBelow'
    BY <1>7 DEF PhaseShape, CellsBelow
  <2>2. LoopsInnermost' /\ LabelsApart'
    BY DEF LoopsInnermost, LabelsApart, Depth, ReturnLabel
  <2> QED BY <2>1, <2>2
<1>14. CallsBound'
  <2>1. \A k \in 1..Len(patching) : patching'[k].l = patching[k].l /\ patching'[k].a = patching[k].a
    BY <1>0, <1>8
  <2> QED BY <1>8, <2>1 DEF CallsBound
<1>15. ListsThreaded'
  <2>1. /\ \A i \in 1..Depth : stack[i].l # l /\ stack[i].l + 1 # l
        /\ phase \in {"body", "crashed"} => ReturnLabel # l
    BY <1>3 DEF LabelsApart
  <2>2. ASSUME NEW i \in 1..Depth, NEW x, NEW m,
               \/ x = ExitList(stack[i]) /\ m = stack[i].l
               \/ stack[i].kind = "for" /\ x = stack[i].b /\ m = stack[i].l + 1
        PROVE  Threaded(x, Waiting(m))'
    <3>1. Threaded(x, Waiting(m)) /\ m # l
      BY <2>1, <2>2 DEF ListsThreaded
    <3> QED BY <1>10, <3>1
  <2>3. ASSUME NEW k \in 1..Len(patching), NEW x, NEW m, x = patching'[k].t, m = patching'[k].l
        PROVE  Threaded(x, Waiting(m))'
    <3>1. CASE k = 1
      BY <1>8, <1>11, <2>3, <3>1
    <3>2. CASE k # 1
      <4>1. Threaded(x, Waiting(m))
        BY <1>8, <2>3, <3>2 DEF ListsThreaded
      <4>2. m # l
        BY <1>0, <1>1, <1>8, <2>3, <3>2 DEF CallsBound
      <4> QED BY <1>10, <4>1, <4>2
    <3> QED BY <3>1, <3>2
  <2>4. phase \in {"body", "crashed"} => Threaded(rsym, Waiting(ReturnLabel))'
    BY <1>10, <2>1 DEF ListsThreaded, ReturnLabel
  <2> QED BY <1>8, <2>2, <2>3, <2>4 DEF ListsThreaded, Depth
<1>16. NoJumpForgotten'
  <2>1. \A k \in 1..Len(patching) : patching'[k].l = patching[k].l
    BY <1>0, <1>8
  <2>2. \A m : Awaited(m) => Awaited(m)'
    BY <1>8, <2>1 DEF Awaited, Depth, ReturnLabel
  <2>3. \A s \in open' : \A m : m = want[s] => Awaited(m)'
    BY <1>2, <2>2 DEF NoJumpForgotten
  <2> QED BY <2>3 DEF NoJumpForgotten, Awaited
<1>17. PatchedJumpsHit'
  <2>1. t \in DOMAIN want /\ want[t] = l
    BY <1>6 DEF Waiting, TypeOK
  <2>2. text'[t] + t + 4 = a
    BY <1>1, <1>7
  <2>3. \A s \in DOMAIN want \ open : s # t /\ text'[s] = text[s]
    BY <1>6, <1>7 DEF Waiting, TypeOK
  <2> QED BY <1>2, <1>3, <2>1, <2>2, <2>3 DEF PatchedJumpsHit
<1>k. Kept
  BY <1>2, <1>6, <1>7 DEF Kept, Waiting, TypeOK
<1> QED BY <1>k, <1>12, <1>13, <1>14, <1>15, <1>16, <1>17

-----------------------------------------------------------------------------
(* Statements that nest.                                                   *)

\* Nothing waits yet for a label that has not been handed out.
LEMMA FreshWaiting ==
  ASSUME TypeOK, NEW m \in Nat, m >= labels
  PROVE  Waiting(m) = {}
BY DEF TypeOK, Waiting

\* stack' is the stack with f on top.
Pushed(f) ==
  /\ stack' \in Seq(Frame) /\ Depth' = Depth + 1 /\ Depth \in Nat
  /\ \A i \in 1..Depth : stack'[i] = stack[i]
  /\ stack'[Depth + 1] = f

\* Appending a frame to the stack puts it on top.
LEMMA FrameAppended ==
  ASSUME TypeOK, NEW f \in Frame, stack' = Append(stack, f)
  PROVE  Pushed(f)
BY DEF TypeOK, Depth, Pushed

\* A new frame is labelled above the others and its loop is the innermost.
LEMMA FramePushed ==
  ASSUME TypeOK, LoopsInnermost, LabelsApart, phase = "body", Len(funcs) > 0,
         NEW f \in Frame, f.l = labels, f.loop = Loop, Pushed(f),
         UNCHANGED <<phase, funcs>>,
         labels' \in Nat, labels + 1 < labels',
         \A x \in DOMAIN bound' : x \in DOMAIN bound \/ (x = labels + 2 /\ x < labels')
  PROVE  LabelsApart' /\ LoopsInnermost'
<1>1. /\ Depth' = Depth + 1 /\ Depth \in Nat
      /\ \A i \in 1..Depth : stack'[i] = stack[i]
      /\ stack'[Depth + 1] = f
  BY DEF Pushed
<1>2. /\ labels \in Nat
      /\ \A i \in 1..Depth : stack[i].l \in Nat /\ stack[i].loop \in Nat
      /\ \A x \in DOMAIN bound : x \in Nat /\ x < labels
      /\ ReturnLabel \in Nat /\ ReturnLabel' = ReturnLabel
  BY StackFacts DEF TypeOK, LabelsApart, ReturnLabel
<1>3. LabelsApart'
  <2>1. \A x \in DOMAIN bound' : x < labels' /\ x # labels /\ x # labels + 1
    BY <1>2
  <2>2. ASSUME NEW i \in 1..Depth
        PROVE  /\ stack[i].l \in Nat /\ stack[i].l + 1 < labels /\ stack[i].l + 1 < labels'
               /\ stack[i].l \notin DOMAIN bound' /\ stack[i].l + 1 \notin DOMAIN bound'
               /\ ReturnLabel < stack[i].l
    <3>1. stack[i].l \in Nat /\ stack[i].l + 1 < labels /\ ReturnLabel < stack[i].l
      BY <1>2 DEF LabelsApart
    <3>2. stack[i].l \notin DOMAIN bound /\ stack[i].l + 1 \notin DOMAIN bound
      BY DEF LabelsApart
    <3>3. stack[i].l # labels + 2 /\ stack[i].l + 1 # labels + 2
      BY <1>2, <3>1
    <3> QED BY <1>2, <3>1, <3>2, <3>3
  <2>3. f.l + 1 < labels' /\ f.l \notin DOMAIN bound' /\ f.l + 1 \notin DOMAIN bound' /\ ReturnLabel < f.l
    BY <1>2, <2>1 DEF LabelsApart
  <2>4. \A i \in 1..(Depth + 1) : i \in 1..Depth \/ i = Depth + 1
    BY <1>1
  <2>5. \A i, j \in 1..Depth : i < j => stack[i].l + 1 < stack[j].l
    BY DEF LabelsApart
  <2>6. \A i, j \in 1..(Depth + 1) : i < j => stack'[i].l + 1 < stack'[j].l
    <3> SUFFICES ASSUME NEW i \in 1..(Depth + 1), NEW j \in 1..(Depth + 1), i < j
                 PROVE  stack'[i].l + 1 < stack'[j].l
      OBVIOUS
    <3>1. i \in 1..Depth
      BY <1>1
    <3>2. CASE j = Depth + 1
      BY <1>1, <2>2, <3>1, <3>2
    <3>3. CASE j \in 1..Depth
      BY <1>1, <2>5, <3>1, <3>3
    <3> QED BY <2>4, <3>2, <3>3
  <2>7. ReturnLabel < labels' /\ ReturnLabel \notin DOMAIN bound'
    BY <1>2 DEF LabelsApart
  <2> QED BY <1>1, <1>2, <2>1, <2>2, <2>3, <2>4, <2>6, <2>7 DEF LabelsApart
<1>4. LoopsInnermost'
  <2>1. /\ Loop \in 0..Depth
        /\ Loop # 0 => stack[Loop].kind = "for"
        /\ \A j \in 1..Depth : stack[j].kind = "for" => j <= Loop
    BY LoopFacts
  <2>2. ASSUME NEW i \in 1..(Depth + 1)
        PROVE  /\ stack'[i].loop \in 0..(i - 1)
               /\ stack'[i].loop # 0 => stack'[stack'[i].loop].kind = "for"
               /\ \A j \in 1..(i - 1) : stack'[j].kind = "for" => j <= stack'[i].loop
    <3>1. CASE i = Depth + 1
      <4>1. stack'[i].loop = Loop /\ i - 1 = Depth
        BY <1>1, <3>1
      <4> QED BY <1>1, <2>1, <4>1
    <3>2. CASE i \in 1..Depth
      <4>1. stack'[i].loop = stack[i].loop /\ stack[i].loop \in 0..(i - 1)
        BY <1>1, <3>2 DEF LoopsInnermost
      <4>2. stack[i].loop # 0 => stack[i].loop \in 1..Depth
        BY <1>1, <3>2, <4>1
      <4>3. \A j \in 1..(i - 1) : j \in 1..Depth
        BY <1>1, <3>2
      <4>4. /\ stack[i].loop # 0 => stack[stack[i].loop].kind = "for"
            /\ \A j \in 1..(i - 1) : stack[j].kind = "for" => j <= stack[i].loop
        BY <3>2 DEF LoopsInnermost
      <4> QED BY <1>1, <4>1, <4>2, <4>3, <4>4
    <3> QED BY <1>1, <3>1, <3>2
  <2> QED BY <1>1, <2>2 DEF LoopsInnermost
<1> QED BY <1>3, <1>4

\* A finished frame leaves the others as they were.
LEMMA FramePopped ==
  ASSUME TypeOK, Depth > 0, stack' = Pop
  PROVE  /\ stack' \in Seq(Frame) /\ Depth' = Depth - 1
         /\ \A i \in 1..(Depth - 1) : i \in 1..Depth /\ stack'[i] = stack[i]
<1>1. Depth \in Nat /\ \A i \in 1..(Depth - 1) : stack[i] \in Frame
  BY StackFacts
<1>2. /\ stack' \in Seq(Frame)
      /\ Len(stack') = IF 1 <= Depth - 1 THEN Depth - 1 - 1 + 1 ELSE 0
      /\ \A i \in 1..(Depth - 1 - 1 + 1) : stack'[i] = stack[1 + i - 1]
  BY <1>1, SubSeqProperties DEF Pop
<1>3. Depth - 1 \in Nat /\ Depth - 1 - 1 + 1 = Depth - 1
  BY <1>1
<1>4. Len(stack') = Depth - 1
  BY <1>2, <1>3
<1>5. \A i \in 1..(Depth - 1) : i \in 1..Depth /\ 1 + i - 1 = i
  BY <1>1
<1> QED BY <1>2, <1>3, <1>4, <1>5 DEF Depth

\* Lists of labels handed out before are not disturbed by new labels.
LEMMA OldLists ==
  ASSUME TypeOK, Grown,
         \A m : m < labels => Waiting(m)' = Waiting(m)
  PROVE  \A x, m : m < labels /\ Threaded(x, Waiting(m)) => Threaded(x, Waiting(m))'
<1> SUFFICES ASSUME NEW x, NEW m, m < labels, ThreadedIn(text, x, Waiting(m))
             PROVE  ThreadedIn(text', x, Waiting(m)')
  BY DEF Threaded
<1>1. \A y \in Waiting(m) : text'[y] = text[y]
  BY DEF Waiting, TypeOK, Grown
<1> QED BY <1>1, ThreadKept

\* if: a frame of its own list, of one slot.
LEMMA IfHeadInv == IInv /\ IfHead => IInv' /\ Kept
<1> SUFFICES ASSUME IInv, IfHead PROVE IInv' /\ Kept
  OBVIOUS
<1> USE DEF IInv
<1>0. PICK n \in ExprSizes, form \in Conds :
        LET s == GenJcc(GenExpr(Text, n), form, 0)
        IN /\ Write(s)
           /\ stack' = Append(stack,
                [kind |-> "if", loop |-> Loop, a |-> LastSlot(s), b |-> 0,
                 c |-> 0, d |-> 0, l |-> labels])
           /\ Slot(LastSlot(s), labels)
  BY DEF IfHead
<1>1. PICK s, t, l, f : /\ s = GenJcc(GenExpr(Text, n), form, 0) /\ t = LastSlot(s) /\ l = labels
                        /\ f = [kind |-> "if", loop |-> Loop, a |-> t, b |-> 0,
                                c |-> 0, d |-> 0, l |-> l]
  OBVIOUS
<1>2. Write(s) /\ stack' = Append(stack, f) /\ Slot(t, l)
  BY <1>0, <1>1
<1>3. AddsSlot(Text, s, 0)
  <2>1. Longer(Text, GenExpr(Text, n)) /\ GenExpr(Text, n).text = Text.text
    BY SectionNow, GenExprLonger, JumpGenAssumption
  <2>2. AddsSlot(GenExpr(Text, n), s, 0)
    BY <1>1, <2>1, GenJccLonger DEF Longer
  <2> QED BY <2>1, <2>2, SectionNow, LongerAddsSlot
<1>4. Grown
  BY <1>2, <1>3, WriteGrown DEF AddsSlot
<1>5. /\ t \in Nat \ {0} /\ t >= ind /\ t \in DOMAIN text' /\ text'[t] = 0
      /\ l \in Nat /\ l = labels
  BY <1>1, <1>2, <1>3 DEF AddsSlot, Write, Text, TypeOK
<1>6. SlotAdded(t, l)
  BY <1>2, <1>4, <1>5, SlotFacts
<1>7. f \in Frame /\ f.l = labels /\ f.loop = Loop
  BY <1>1, <1>5, LoopFacts, StackFacts DEF Frame
<1>u. /\ phase = "body" /\ patching = <<>> /\ Len(patching) = 0 /\ labels' = labels + 2
      /\ UNCHANGED <<phase, rsym, patching, func_begin_ind, func_ret_sub, funcs, bound>>
      /\ ReturnLabel' = ReturnLabel
  BY DEF IfHead, Read, Parsing, ReturnLabel
<1>8. /\ stack' \in Seq(Frame) /\ Depth' = Depth + 1 /\ Depth \in Nat
      /\ \A i \in 1..Depth : stack'[i] = stack[i]
      /\ stack'[Depth + 1] = f
      /\ LabelsApart' /\ LoopsInnermost'
  <2>1. Pushed(f)
    BY <1>2, <1>7, FrameAppended
  <2>2. labels' \in Nat /\ labels + 1 < labels' /\ bound' = bound /\ Len(funcs) > 0
    BY <1>u, <1>5 DEF PhaseShape
  <2>3. LabelsApart' /\ LoopsInnermost'
    BY <1>u, <1>7, <2>1, <2>2, FramePushed
  <2> QED BY <2>1, <2>3 DEF Pushed
<1>9. TypeOK'
  <2>1. labels' = labels + 2 /\ \A x \in DOMAIN want' : want'[x] < labels'
    BY <1>u, <1>5, <1>6 DEF TypeOK, SlotAdded
  <2>2. ind' \in Nat /\ DOMAIN text' \subseteq Nat /\ text' \in [DOMAIN text' -> Int]
    BY <1>4 DEF Grown
  <2>3. /\ want' \in [DOMAIN want' -> Nat] /\ DOMAIN want' \subseteq DOMAIN text'
        /\ open' \subseteq DOMAIN want' /\ 0 \notin DOMAIN want'
    BY <1>6 DEF SlotAdded
  <2>4. /\ phase' \in {"outside", "body", "epilog", "crashed"}
        /\ rsym' \in Nat /\ func_begin_ind' \in Nat /\ func_ret_sub' \in Nat
        /\ patching' \in Seq(Pending) /\ funcs' \in Seq(Func)
    BY <1>u DEF TypeOK
  <2>5. bound' \in [DOMAIN bound' -> Nat] /\ DOMAIN bound' \subseteq Nat
    BY <1>u DEF TypeOK
  <2>6. labels' \in Nat
    BY <1>5, <2>1
  <2>7. stack' \in Seq(Frame)
    BY <1>8
  <2> QED BY <2>1, <2>2, <2>3, <2>4, <2>5, <2>6, <2>7 DEF TypeOK
<1>10. PhaseShape' /\ CallsBound'
  BY <1>u DEF PhaseShape, CallsBound
<1>11. NoJumpForgotten'
  <2>1. \A m : Awaited(m) => Awaited(m)'
    BY <1>u, <1>8 DEF Awaited
  <2>2. Awaited(l)'
    BY <1>1, <1>8 DEF Awaited
  <2> QED BY <1>6, <2>1, <2>2, SlotAwaited
<1>12. ListsThreaded'
  <2>1. /\ \A x, m : m # l /\ Threaded(x, Waiting(m)) => Threaded(x, Waiting(m))'
        /\ Threaded(0, Waiting(l)) => Threaded(t, Waiting(l))'
    BY <1>2, <1>4, <1>5, ListsPushed
  <2>2. Threaded(t, Waiting(l))'
    <3>1. Waiting(l) = {}
      BY <1>5, FreshWaiting
    <3>2. Threaded(0, Waiting(l))
      BY <3>1, ThreadEmpty DEF Threaded
    <3> QED BY <2>1, <3>2
  <2>3. /\ \A i \in 1..Depth : stack[i].l # l /\ stack[i].l + 1 # l
        /\ ReturnLabel # l
        /\ Len(patching) = 0
    BY <1>u, <1>5, StackFacts DEF LabelsApart, PhaseShape
  <2>4. ASSUME NEW i \in 1..(Depth + 1), NEW x, NEW m,
               \/ x = ExitList(stack'[i]) /\ m = stack'[i].l
               \/ stack'[i].kind = "for" /\ x = stack'[i].b /\ m = stack'[i].l + 1
        PROVE  Threaded(x, Waiting(m))'
    <3>1. CASE i = Depth + 1
      BY <1>1, <1>8, <2>2, <2>4, <3>1 DEF ExitList
    <3>2. CASE i \in 1..Depth
      <4>1. Threaded(x, Waiting(m)) /\ m # l
        BY <1>8, <2>3, <2>4, <3>2 DEF ListsThreaded
      <4> QED BY <2>1, <4>1
    <3> QED BY <1>8, <3>1, <3>2
  <2>5. Threaded(rsym, Waiting(ReturnLabel))'
    BY <1>u, <2>1, <2>3 DEF ListsThreaded
  <2> QED BY <1>u, <1>8, <2>4, <2>5 DEF ListsThreaded
<1>13. PatchedJumpsHit' /\ Kept
  BY <1>u, <1>4, <1>6, PatchedKept DEF SlotAdded
<1> QED BY <1>4, <1>8, <1>9, <1>10, <1>11, <1>12, <1>13 DEF Grown
\* The type invariant after a step that writes code and stays in the body.
LEMMA TypedStep ==
  ASSUME TypeOK, Grown, UNCHANGED <<phase, rsym, func_begin_ind, func_ret_sub, funcs>>,
         stack' \in Seq(Frame), patching' \in Seq(Pending),
         labels' \in Nat,
         want' \in [DOMAIN want' -> Nat], DOMAIN want' \subseteq DOMAIN text',
         open' \subseteq DOMAIN want', 0 \notin DOMAIN want',
         \A x \in DOMAIN want' : want'[x] < labels',
         bound' \in [DOMAIN bound' -> Nat], DOMAIN bound' \subseteq Nat
  PROVE  TypeOK'
<1>1. ind' \in Nat /\ DOMAIN text' \subseteq Nat /\ text' \in [DOMAIN text' -> Int]
  BY DEF Grown
<1>2. /\ phase' \in {"outside", "body", "epilog", "crashed"}
      /\ rsym' \in Nat /\ func_begin_ind' \in Nat /\ func_ret_sub' \in Nat
      /\ funcs' \in Seq(Func)
  BY DEF TypeOK
<1> QED BY <1>1, <1>2 DEF TypeOK

\* A label that gets its address
LEMMA LabelBound ==
  ASSUME TypeOK, LabelsApart, NEW m \in Nat, m < labels, m \notin DOMAIN bound,
         NEW x \in Nat, bound' = Put(bound, m, x)
  PROVE  /\ DOMAIN bound' = DOMAIN bound \cup {m} /\ bound'[m] = x
         /\ \A y \in DOMAIN bound : bound'[y] = bound[y]
         /\ bound' \in [DOMAIN bound' -> Nat] /\ DOMAIN bound' \subseteq Nat
         /\ \A y \in DOMAIN bound' : y < labels
BY DEF TypeOK, LabelsApart, Put

\* else: the frame's old label is bound, and its list handed to backpatch;
\* the frame begins a list of its own under a new label.
LEMMA ElseInv == IInv /\ Else => IInv' /\ Kept
<1> SUFFICES ASSUME IInv, Else PROVE IInv' /\ Kept
  OBVIOUS
<1> USE DEF IInv
<1>0. PICK k, q, h, s, t, l, g :
        /\ k = Depth /\ q = stack[k].l /\ h = stack[k].a
        /\ s = GenJmpForward(Text, 0) /\ t = LastSlot(s) /\ l = labels
        /\ g = [stack[k] EXCEPT !.kind = "else", !.b = t, !.l = l]
  OBVIOUS
<1>1. /\ k \in 1..Depth /\ stack[k].kind = "if" /\ stack[k] \in Frame
      /\ h \in Nat /\ q \in Nat /\ Depth \in Nat
  BY <1>0, StackFacts DEF Else, Top
<1>2. /\ Write(s) /\ Slot(t, l)
      /\ stack' = [stack EXCEPT ![k] = g]
      /\ patching' = <<Call(h, s.ind, q)>>
      /\ bound' = Put(bound, q, s.ind)
  BY <1>0 DEF Else, Top
<1>3. AddsSlot(Text, s, 0)
  BY <1>0, SectionNow, GenJmpForwardLonger
<1>4. Grown
  BY <1>2, <1>3, WriteGrown DEF AddsSlot
<1>5. /\ t \in Nat \ {0} /\ t >= ind /\ t \in DOMAIN text' /\ text'[t] = 0
      /\ l \in Nat /\ l = labels /\ s.ind \in Nat
  BY <1>0, <1>2, <1>3, <1>4 DEF AddsSlot, Write, Text, TypeOK, Grown
<1>6. SlotAdded(t, l)
  BY <1>2, <1>4, <1>5, SlotFacts
<1>u. /\ phase = "body" /\ Len(patching) = 0 /\ labels' = labels + 2
      /\ UNCHANGED <<phase, rsym, func_begin_ind, func_ret_sub, funcs>>
      /\ ReturnLabel' = ReturnLabel
  BY DEF Else, Parsing, ReturnLabel
<1>7. /\ stack' \in Seq(Frame) /\ Depth' = Depth
      /\ \A i \in 1..Depth : /\ i # k => stack'[i] = stack[i]
                            /\ stack'[i].loop = stack[i].loop
      /\ stack'[k] = g /\ g.kind = "else" /\ g.b = t /\ g.l = l
  <2>1. g \in Frame /\ g.kind = "else" /\ g.b = t /\ g.l = l /\ g.loop = stack[k].loop
    BY <1>0, <1>1, <1>5 DEF Frame
  <2>2. stack \in Seq(Frame)
    BY DEF TypeOK
  <2>3. /\ stack' \in Seq(Frame) /\ Len(stack') = Len(stack)
        /\ \A i \in 1..Len(stack) : stack'[i] = IF i = k THEN g ELSE stack[i]
    BY <1>1, <1>2, <2>1, <2>2, ExceptSeq DEF Depth
  <2> QED BY <1>1, <2>1, <2>3 DEF Depth
<1>8. /\ Len(patching') = 1 /\ patching'[1].t = h /\ patching'[1].a = s.ind
      /\ patching'[1].l = q /\ patching' \in Seq(Pending)
  BY <1>1, <1>2, <1>5 DEF Call, Pending
<1>9. q + 1 < labels /\ q < labels /\ q \notin DOMAIN bound /\ labels \in Nat /\ q # l
  BY <1>0, <1>1, <1>5 DEF LabelsApart, TypeOK
<1>10. /\ DOMAIN bound' = DOMAIN bound \cup {q} /\ bound'[q] = s.ind
       /\ \A y \in DOMAIN bound : bound'[y] = bound[y]
       /\ bound' \in [DOMAIN bound' -> Nat] /\ DOMAIN bound' \subseteq Nat
       /\ \A y \in DOMAIN bound' : y < labels
  BY <1>1, <1>2, <1>5, <1>9, LabelBound
<1>11. /\ \A i \in 1..Depth : i # k => /\ stack[i].l \in Nat /\ stack[i].l + 1 < q
                                       /\ stack[i].l # l /\ stack[i].l + 1 # l
       /\ ReturnLabel # l /\ ReturnLabel # q
       /\ ReturnLabel \in Nat /\ ReturnLabel < labels
  <2>1. \A i \in 1..Depth : i # k => i < k
    BY <1>0, <1>1
  <2>2. \A i \in 1..Depth : stack[i].l \in Nat
    BY StackFacts
  <2>3. \A i \in 1..Depth : i # k => stack[i].l + 1 < q
    BY <1>0, <1>1, <2>1 DEF LabelsApart
  <2>4. ReturnLabel \in Nat /\ ReturnLabel < labels /\ ReturnLabel < q
    BY <1>0, <1>1, <1>u, StackFacts DEF LabelsApart, PhaseShape
  <2> QED BY <1>1, <1>5, <1>9, <2>2, <2>3, <2>4
<1>12. TypeOK'
  <2>1. labels' \in Nat /\ \A x \in DOMAIN want' : want'[x] < labels'
    BY <1>u, <1>5, <1>6 DEF TypeOK, SlotAdded
  <2>2. /\ want' \in [DOMAIN want' -> Nat] /\ DOMAIN want' \subseteq DOMAIN text'
        /\ open' \subseteq DOMAIN want' /\ 0 \notin DOMAIN want'
    BY <1>6 DEF SlotAdded
  <2> QED BY <1>u, <1>4, <1>7, <1>8, <1>10, <2>1, <2>2, TypedStep
<1>13. PhaseShape' /\ CallsBound'
  BY <1>u, <1>8, <1>10 DEF PhaseShape, CallsBound
<1>14. LabelsApart'
  <2>1. \A i \in 1..Depth : /\ stack'[i].l \in Nat /\ stack'[i].l + 1 < labels'
                            /\ stack'[i].l \notin DOMAIN bound' /\ stack'[i].l + 1 \notin DOMAIN bound'
                            /\ ReturnLabel < stack'[i].l
    <3> SUFFICES ASSUME NEW i \in 1..Depth
                 PROVE  /\ stack'[i].l \in Nat /\ stack'[i].l + 1 < labels'
                        /\ stack'[i].l \notin DOMAIN bound' /\ stack'[i].l + 1 \notin DOMAIN bound'
                        /\ ReturnLabel < stack'[i].l
      OBVIOUS
    <3>1. CASE i = k
      <4>1. l \notin DOMAIN bound' /\ l + 1 \notin DOMAIN bound'
        BY <1>5, <1>10
      <4> QED BY <1>u, <1>5, <1>7, <1>11, <3>1, <4>1
    <3>2. CASE i # k
      <4>1. /\ stack[i].l \in Nat /\ stack[i].l + 1 < q
            /\ stack[i].l \notin DOMAIN bound /\ stack[i].l + 1 \notin DOMAIN bound
            /\ ReturnLabel < stack[i].l
        BY <1>u, <1>11, <3>2 DEF LabelsApart
      <4>2. stack[i].l # q /\ stack[i].l + 1 # q /\ stack[i].l + 1 < labels'
        BY <1>1, <1>5, <1>9, <1>u, <4>1
      <4> QED BY <1>7, <1>10, <3>2, <4>1, <4>2
    <3> QED BY <3>1, <3>2
  <2>2. \A i \in 1..Depth : \A j \in 1..Depth : i < j => stack'[i].l + 1 < stack'[j].l
    <3> SUFFICES ASSUME NEW i \in 1..Depth, NEW j \in 1..Depth, i < j
                 PROVE  stack'[i].l + 1 < stack'[j].l
      OBVIOUS
    <3>1. i # k
      BY <1>0, <1>1
    <3>2. stack[i].l \in Nat /\ stack[i].l + 1 < q /\ stack'[i] = stack[i]
      BY <1>7, <1>11, <3>1
    <3>3. CASE j = k
      BY <1>1, <1>5, <1>7, <1>9, <3>2, <3>3
    <3>4. CASE j # k
      BY <1>7, <3>2, <3>4 DEF LabelsApart
    <3> QED BY <3>3, <3>4
  <2>3. \A y \in DOMAIN bound' : y < labels'
    BY <1>u, <1>5, <1>10
  <2>4. ReturnLabel < labels' /\ ReturnLabel \notin DOMAIN bound'
    <3>1. ReturnLabel \notin DOMAIN bound
      BY <1>u DEF LabelsApart
    <3> QED BY <1>u, <1>5, <1>10, <1>11, <3>1
  <2> QED BY <1>u, <1>7, <2>1, <2>2, <2>3, <2>4 DEF LabelsApart
<1>15. LoopsInnermost'
  <2>1. \A i \in 1..Depth : \A j \in 1..(i - 1) : j \in 1..Depth
    BY <1>1
  <2>2. \A i \in 1..Depth : stack[i].loop # 0 => stack[i].loop \in 1..Depth
    BY <1>1, <2>1 DEF LoopsInnermost
  <2>3. \A i \in 1..Depth : stack[i].loop # 0 => stack[i].loop # k
    BY <1>1 DEF LoopsInnermost
  <2>4. \A j \in 1..Depth : stack'[j].kind = "for" => stack[j].kind = "for"
    BY <1>7
  <2>5. ASSUME NEW i \in 1..Depth
        PROVE  /\ stack'[i].loop \in 0..(i - 1)
               /\ stack'[i].loop # 0 => stack'[stack'[i].loop].kind = "for"
               /\ \A j \in 1..(i - 1) : stack'[j].kind = "for" => j <= stack'[i].loop
    <3>1. stack'[i].loop = stack[i].loop
      BY <1>7
    <3>2. stack[i].loop \in 0..(i - 1)
      BY DEF LoopsInnermost
    <3>3. stack[i].loop # 0 => stack[stack[i].loop].kind = "for"
      BY DEF LoopsInnermost
    <3>4. stack[i].loop # 0 => stack'[stack[i].loop] = stack[stack[i].loop]
      BY <1>7, <2>2, <2>3
    <3>5. \A j \in 1..(i - 1) : stack'[j].kind = "for" => j <= stack[i].loop
      BY <2>1, <2>4 DEF LoopsInnermost
    <3> QED BY <3>1, <3>2, <3>3, <3>4, <3>5
  <2> QED BY <1>7, <2>5 DEF LoopsInnermost
<1>16. ListsThreaded'
  <2>1. /\ \A x, m : m # l /\ Threaded(x, Waiting(m)) => Threaded(x, Waiting(m))'
        /\ Threaded(0, Waiting(l)) => Threaded(t, Waiting(l))'
    BY <1>2, <1>4, <1>5, ListsPushed
  <2>2. Threaded(t, Waiting(l))'
    <3>1. Waiting(l) = {}
      BY <1>5, FreshWaiting
    <3>2. Threaded(0, Waiting(l))
      BY <3>1, ThreadEmpty DEF Threaded
    <3> QED BY <2>1, <3>2
  <2>3. Threaded(h, Waiting(q))
    BY <1>0, <1>1 DEF ListsThreaded, ExitList
  <2>4. ASSUME NEW i \in 1..Depth, NEW x, NEW m,
               \/ x = ExitList(stack'[i]) /\ m = stack'[i].l
               \/ stack'[i].kind = "for" /\ x = stack'[i].b /\ m = stack'[i].l + 1
        PROVE  Threaded(x, Waiting(m))'
    <3>1. CASE i = k
      BY <1>7, <2>2, <2>4, <3>1 DEF ExitList
    <3>2. CASE i # k
      <4>1. Threaded(x, Waiting(m)) /\ m # l
        BY <1>7, <1>11, <2>4, <3>2 DEF ListsThreaded
      <4> QED BY <2>1, <4>1
    <3> QED BY <3>1, <3>2
  <2>5. Threaded(rsym, Waiting(ReturnLabel))'
    BY <1>u, <1>11, <2>1 DEF ListsThreaded
  <2>6. Threaded(h, Waiting(q))'
    BY <1>9, <2>1, <2>3
  <2>7. \A j \in 1..Len(patching') : Threaded(patching[j].t, Waiting(patching[j].l))'
    <3>1. ASSUME NEW x, NEW m, x = patching'[1].t, m = patching'[1].l
          PROVE  Threaded(x, Waiting(m))'
      BY <1>8, <2>6, <3>1
    <3> QED BY <1>8, <3>1
  <2> QED BY <1>u, <1>7, <2>4, <2>5, <2>7 DEF ListsThreaded
<1>17. NoJumpForgotten'
  <2>1. \A m : Awaited(m) => Awaited(m)'
    <3> SUFFICES ASSUME NEW m, Awaited(m) PROVE Awaited(m)'
      OBVIOUS
    <3>1. CASE m = q
      BY <1>8, <3>1 DEF Awaited
    <3>2. CASE m # q
      BY <1>u, <1>0, <1>1, <1>7, <3>2 DEF Awaited
    <3> QED BY <3>1, <3>2
  <2>2. Awaited(l)'
    BY <1>1, <1>7 DEF Awaited
  <2> QED BY <1>6, <2>1, <2>2, SlotAwaited
<1>18. PatchedJumpsHit' /\ Kept
  BY <1>4, <1>6, <1>10, PatchedKept DEF SlotAdded
<1> QED BY <1>4, <1>12, <1>13, <1>14, <1>15, <1>16, <1>17, <1>18 DEF Grown

\* The frames that stay, after the innermost has been given its addresses.
LEMMA FrameClosed ==
  ASSUME TypeOK, LabelsApart, LoopsInnermost, phase = "body", Len(funcs) > 0,
         Depth > 0, stack' = Pop, UNCHANGED <<phase, funcs, labels>>,
         NEW q, q = stack[Depth].l,
         \A y \in DOMAIN bound' : y \in DOMAIN bound \/ y = q \/ y = q + 1
  PROVE  /\ LabelsApart' /\ LoopsInnermost'
         /\ q \in Nat /\ q + 1 < labels /\ q \notin DOMAIN bound /\ q + 1 \notin DOMAIN bound
         /\ \A i \in 1..(Depth - 1) : stack[i].l \in Nat /\ stack[i].l + 1 < q
         /\ ReturnLabel \in Nat /\ ReturnLabel < q /\ ReturnLabel' = ReturnLabel
<1>1. /\ stack' \in Seq(Frame) /\ Depth' = Depth - 1
      /\ \A i \in 1..(Depth - 1) : i \in 1..Depth /\ stack'[i] = stack[i]
  BY FramePopped
<1>2. Depth \in Nat /\ Depth \in 1..Depth /\ labels \in Nat
  BY StackFacts DEF TypeOK
<1>3. q \in Nat /\ q + 1 < labels /\ q \notin DOMAIN bound /\ q + 1 \notin DOMAIN bound
  BY <1>2, StackFacts DEF LabelsApart
<1>4. \A i \in 1..(Depth - 1) : stack[i].l \in Nat
  BY <1>1, StackFacts
<1>5. \A i \in 1..(Depth - 1) : stack[i].l + 1 < q
  <2> SUFFICES ASSUME NEW i \in 1..(Depth - 1) PROVE stack[i].l + 1 < q
    OBVIOUS
  <2>1. i \in 1..Depth /\ i < Depth
    BY <1>2
  <2> QED BY <1>2, <2>1 DEF LabelsApart
<1>6. ReturnLabel \in Nat /\ ReturnLabel < q /\ ReturnLabel' = ReturnLabel /\ ReturnLabel < labels
  BY <1>2, StackFacts DEF LabelsApart, ReturnLabel
<1>7. LabelsApart'
  <2>1. \A y \in DOMAIN bound' : y < labels
    BY <1>2, <1>3 DEF LabelsApart
  <2>2. \A i \in 1..(Depth - 1) : /\ stack[i].l + 1 < labels
                                  /\ stack[i].l \notin DOMAIN bound'
                                  /\ stack[i].l + 1 \notin DOMAIN bound'
                                  /\ ReturnLabel < stack[i].l
    <3> SUFFICES ASSUME NEW i \in 1..(Depth - 1)
                 PROVE  /\ stack[i].l + 1 < labels
                        /\ stack[i].l \notin DOMAIN bound'
                        /\ stack[i].l + 1 \notin DOMAIN bound'
                        /\ ReturnLabel < stack[i].l
      OBVIOUS
    <3>1. i \in 1..Depth
      BY <1>1
    <3>2. /\ stack[i].l + 1 < labels
          /\ stack[i].l \notin DOMAIN bound /\ stack[i].l + 1 \notin DOMAIN bound
          /\ ReturnLabel < stack[i].l
      BY <3>1 DEF LabelsApart
    <3>3. stack[i].l \in Nat /\ stack[i].l + 1 < q
      BY <1>4, <1>5
    <3>4. stack[i].l # q /\ stack[i].l # q + 1 /\ stack[i].l + 1 # q /\ stack[i].l + 1 # q + 1
      BY <1>3, <3>3
    <3> QED BY <3>2, <3>4
  <2>3. \A i, j \in 1..(Depth - 1) : i < j => stack[i].l + 1 < stack[j].l
    BY <1>1 DEF LabelsApart
  <2>4. ReturnLabel \notin DOMAIN bound'
    <3>1. ReturnLabel \notin DOMAIN bound
      BY DEF LabelsApart
    <3> QED BY <1>3, <1>6, <3>1
  <2> QED BY <1>1, <1>6, <2>1, <2>2, <2>3, <2>4 DEF LabelsApart
<1>8. LoopsInnermost'
  <2>1. ASSUME NEW i \in 1..(Depth - 1)
        PROVE  /\ stack'[i].loop \in 0..(i - 1)
               /\ stack'[i].loop # 0 => stack'[stack'[i].loop].kind = "for"
               /\ \A j \in 1..(i - 1) : stack'[j].kind = "for" => j <= stack'[i].loop
    <3>1. i \in 1..Depth /\ stack'[i].loop = stack[i].loop
      BY <1>1
    <3>2. stack[i].loop \in 0..(i - 1)
      BY <3>1 DEF LoopsInnermost
    <3>3. stack[i].loop # 0 => stack[i].loop \in 1..(Depth - 1)
      BY <1>2, <3>2
    <3>4. stack[i].loop # 0 => stack'[stack[i].loop].kind = "for"
      BY <1>1, <3>1, <3>3 DEF LoopsInnermost
    <3>5. \A j \in 1..(i - 1) : j \in 1..(Depth - 1)
      BY <1>2
    <3>6. \A j \in 1..(i - 1) : stack'[j].kind = "for" => j <= stack[i].loop
      BY <1>1, <3>1, <3>5 DEF LoopsInnermost
    <3> QED BY <3>1, <3>2, <3>4, <3>6
  <2> QED BY <1>1, <2>1 DEF LoopsInnermost
<1> QED BY <1>3, <1>4, <1>5, <1>6, <1>7, <1>8

\* The end of an if: its list is handed to backpatch.
LEMMA EndIfInv == IInv /\ EndIf => IInv' /\ Kept
<1> SUFFICES ASSUME IInv, EndIf PROVE IInv' /\ Kept
  OBVIOUS
<1> USE DEF IInv
<1>0. PICK k, q, h : k = Depth /\ q = stack[k].l /\ h = ExitList(stack[k])
  OBVIOUS
<1>u. /\ phase = "body" /\ Len(patching) = 0 /\ Depth > 0 /\ stack' = Pop
      /\ UNCHANGED <<phase, ind, code, text, rsym, func_begin_ind, func_ret_sub,
                     funcs, want, open, labels>>
      /\ Len(funcs) > 0
  BY DEF EndIf, Parsing, PhaseShape
<1>1. /\ k \in 1..Depth /\ stack[k].kind \in {"if", "else"} /\ Depth \in Nat
      /\ h \in Nat /\ q \in Nat /\ ind \in Nat
  BY <1>0, <1>u, StackFacts DEF EndIf, Top, ExitList, TypeOK
<1>2. patching' = <<Call(h, ind, q)>> /\ bound' = Put(bound, q, ind)
  BY <1>0, <1>1 DEF EndIf, Top, ExitList
<1>3. q < labels /\ q \notin DOMAIN bound
  BY <1>0, <1>1 DEF LabelsApart, TypeOK
<1>4. /\ DOMAIN bound' = DOMAIN bound \cup {q} /\ bound'[q] = ind
      /\ \A y \in DOMAIN bound : bound'[y] = bound[y]
      /\ bound' \in [DOMAIN bound' -> Nat] /\ DOMAIN bound' \subseteq Nat
  BY <1>1, <1>2, <1>3, LabelBound
<1>5. /\ LabelsApart' /\ LoopsInnermost' /\ ReturnLabel' = ReturnLabel
  BY <1>0, <1>u, <1>4, FrameClosed
<1>6. /\ stack' \in Seq(Frame) /\ Depth' = Depth - 1
      /\ \A i \in 1..(Depth - 1) : i \in 1..Depth /\ stack'[i] = stack[i]
  BY <1>u, FramePopped
<1>7. /\ Len(patching') = 1 /\ patching'[1].t = h /\ patching'[1].a = ind
      /\ patching'[1].l = q /\ patching' \in Seq(Pending)
  BY <1>1, <1>2 DEF Call, Pending
<1>8. Grown
  BY <1>u DEF Grown, TypeOK, CellsBelow
<1>9. TypeOK'
  <2>1. /\ labels' \in Nat /\ \A x \in DOMAIN want' : want'[x] < labels'
        /\ want' \in [DOMAIN want' -> Nat] /\ DOMAIN want' \subseteq DOMAIN text'
        /\ open' \subseteq DOMAIN want' /\ 0 \notin DOMAIN want'
    BY <1>u DEF TypeOK
  <2> QED BY <1>u, <1>4, <1>6, <1>7, <1>8, <2>1, TypedStep
<1>10. PhaseShape' /\ CallsBound'
  BY <1>u, <1>4, <1>7 DEF PhaseShape, CallsBound
<1>11. ListsThreaded'
  <2>1. \A x, m : Threaded(x, Waiting(m)) => Threaded(x, Waiting(m))'
    BY <1>u, <1>8, ListsKept
  <2>2. ASSUME NEW i \in 1..(Depth - 1), NEW x, NEW m,
               \/ x = ExitList(stack'[i]) /\ m = stack'[i].l
               \/ stack'[i].kind = "for" /\ x = stack'[i].b /\ m = stack'[i].l + 1
        PROVE  Threaded(x, Waiting(m))'
    <3>1. Threaded(x, Waiting(m))
      BY <1>6, <2>2 DEF ListsThreaded
    <3> QED BY <2>1, <3>1
  <2>3. Threaded(h, Waiting(q))'
    BY <1>0, <1>1, <2>1 DEF ListsThreaded
  <2>4. \A j \in 1..Len(patching') : Threaded(patching[j].t, Waiting(patching[j].l))'
    <3>1. ASSUME NEW x, NEW m, x = patching'[1].t, m = patching'[1].l
          PROVE  Threaded(x, Waiting(m))'
      BY <1>7, <2>3, <3>1
    <3> QED BY <1>7, <3>1
  <2>5. Threaded(rsym, Waiting(ReturnLabel))'
    BY <1>u, <1>5, <2>1 DEF ListsThreaded
  <2> QED BY <1>6, <2>2, <2>4, <2>5 DEF ListsThreaded
<1>12. NoJumpForgotten'
  <2>1. ASSUME NEW m, Awaited(m) PROVE Awaited(m)'
    <3>1. CASE m = q
      BY <1>7, <3>1 DEF Awaited
    <3>2. CASE m # q
      <4>1. \A i \in 1..Depth : i # k => i \in 1..(Depth - 1)
        BY <1>0, <1>1
      <4> QED BY <1>u, <1>0, <1>1, <1>5, <1>6, <2>1, <3>2, <4>1 DEF Awaited
    <3> QED BY <3>1, <3>2
  <2>2. \A s \in open' : \A m : m = want'[s] => Awaited(m)'
    BY <1>u, <2>1 DEF NoJumpForgotten
  <2> QED BY <2>2 DEF NoJumpForgotten, Awaited
<1>13. PatchedJumpsHit' /\ Kept
  BY <1>u, <1>4, <1>8, PatchedKept
<1> QED BY <1>5, <1>8, <1>9, <1>10, <1>11, <1>12, <1>13 DEF Grown

\* The end of a for: the jump back, and both of its lists for backpatch.
LEMMA EndForInv == IInv /\ EndFor => IInv' /\ Kept
<1> SUFFICES ASSUME IInv, EndFor PROVE IInv' /\ Kept
  OBVIOUS
<1> USE DEF IInv
<1>0. PICK k, q, h, b, c, s : /\ k = Depth /\ q = stack[k].l /\ h = stack[k].a
                              /\ b = stack[k].b /\ c = stack[k].c
                              /\ s = GenJmpBackward(Text, c)
  OBVIOUS
<1>u. /\ phase = "body" /\ Len(patching) = 0 /\ Depth > 0 /\ stack' = Pop
      /\ UNCHANGED <<phase, rsym, func_begin_ind, func_ret_sub,
                     funcs, want, open, labels>>
      /\ Len(funcs) > 0
  BY DEF EndFor, Parsing, PhaseShape
<1>1. /\ k \in 1..Depth /\ stack[k].kind = "for" /\ Depth \in Nat
      /\ h \in Nat /\ b \in Nat /\ c \in Nat /\ q \in Nat
  BY <1>0, <1>u, StackFacts DEF EndFor, Top
<1>2. /\ Write(s) /\ patching' = <<Call(h, s.ind, q), Call(b, c, q + 1)>>
      /\ bound' = Put(Put(bound, q, s.ind), q + 1, c)
  BY <1>0 DEF EndFor, Top, LoopCalls
<1>3. q + 1 < labels /\ q \notin DOMAIN bound /\ q + 1 \notin DOMAIN bound
  BY <1>0, <1>1 DEF LabelsApart
<1>8. Grown /\ s.ind \in Nat
  <2>1. Longer(Text, s)
    BY <1>0, <1>1, SectionNow, GenJmpBackwardLonger
  <2>2. Grown
    BY <1>2, <2>1, WriteGrown
  <2> QED BY <1>2, <2>2 DEF Grown, Write
<1>4. /\ DOMAIN bound' = DOMAIN bound \cup {q, q + 1}
      /\ bound'[q] = s.ind /\ bound'[q + 1] = c
      /\ \A y \in DOMAIN bound : bound'[y] = bound[y]
      /\ bound' \in [DOMAIN bound' -> Nat] /\ DOMAIN bound' \subseteq Nat
  <2>1. PICK p : p = Put(bound, q, s.ind)
    OBVIOUS
  <2>2. /\ DOMAIN p = DOMAIN bound \cup {q} /\ p[q] = s.ind
        /\ \A y \in DOMAIN bound : p[y] = bound[y]
        /\ p \in [DOMAIN p -> Nat] /\ DOMAIN p \subseteq Nat
    BY <1>1, <1>3, <1>8, <2>1 DEF Put, TypeOK
  <2>3. bound' = Put(p, q + 1, c)
    BY <1>2, <2>1
  <2> QED BY <1>1, <1>3, <2>2, <2>3 DEF Put
<1>5. /\ LabelsApart' /\ LoopsInnermost' /\ ReturnLabel' = ReturnLabel
  BY <1>0, <1>u, <1>4, FrameClosed
<1>6. /\ stack' \in Seq(Frame) /\ Depth' = Depth - 1
      /\ \A i \in 1..(Depth - 1) : i \in 1..Depth /\ stack'[i] = stack[i]
  BY <1>u, FramePopped
<1>7. /\ Len(patching') = 2 /\ patching' \in Seq(Pending)
      /\ patching'[1].t = h /\ patching'[1].a = s.ind /\ patching'[1].l = q
      /\ patching'[2].t = b /\ patching'[2].a = c /\ patching'[2].l = q + 1
  BY <1>1, <1>2, <1>8 DEF Call, Pending
<1>9. TypeOK'
  <2>1. /\ labels' \in Nat /\ \A x \in DOMAIN want' : want'[x] < labels'
        /\ want' \in [DOMAIN want' -> Nat] /\ DOMAIN want' \subseteq DOMAIN text'
        /\ open' \subseteq DOMAIN want' /\ 0 \notin DOMAIN want'
    BY <1>u, <1>8 DEF TypeOK, Grown
  <2> QED BY <1>u, <1>4, <1>6, <1>7, <1>8, <2>1, TypedStep
<1>10. PhaseShape' /\ CallsBound'
  <2>1. \A j \in 1..Len(patching') : j = 1 \/ j = 2
    BY <1>7
  <2>2. CallsBound'
    BY <1>1, <1>4, <1>7, <2>1 DEF CallsBound
  <2> QED BY <1>u, <2>2 DEF PhaseShape
<1>11. ListsThreaded'
  <2>1. \A x, m : Threaded(x, Waiting(m)) => Threaded(x, Waiting(m))'
    BY <1>u, <1>8, ListsKept
  <2>2. ASSUME NEW i \in 1..(Depth - 1), NEW x, NEW m,
               \/ x = ExitList(stack'[i]) /\ m = stack'[i].l
               \/ stack'[i].kind = "for" /\ x = stack'[i].b /\ m = stack'[i].l + 1
        PROVE  Threaded(x, Waiting(m))'
    <3>1. Threaded(x, Waiting(m))
      BY <1>6, <2>2 DEF ListsThreaded
    <3> QED BY <2>1, <3>1
  <2>3. Threaded(h, Waiting(q))' /\ Threaded(b, Waiting(q + 1))'
    BY <1>0, <1>1, <2>1 DEF ListsThreaded, ExitList
  <2>4. \A j \in 1..Len(patching') : Threaded(patching[j].t, Waiting(patching[j].l))'
    <3>1. ASSUME NEW j \in 1..Len(patching'), NEW x, NEW m,
                 x = patching'[j].t, m = patching'[j].l
          PROVE  Threaded(x, Waiting(m))'
      BY <1>7, <2>3, <3>1
    <3> QED BY <3>1
  <2>5. Threaded(rsym, Waiting(ReturnLabel))'
    BY <1>u, <1>5, <2>1 DEF ListsThreaded
  <2> QED BY <1>6, <2>2, <2>4, <2>5 DEF ListsThreaded
<1>12. NoJumpForgotten'
  <2>1. ASSUME NEW m, Awaited(m) PROVE Awaited(m)'
    <3>1. CASE m = q \/ m = q + 1
      BY <1>7, <3>1 DEF Awaited
    <3>2. CASE m # q /\ m # q + 1
      <4>1. \A i \in 1..Depth : i # k => i \in 1..(Depth - 1)
        BY <1>0, <1>1
      <4> QED BY <1>u, <1>0, <1>1, <1>5, <1>6, <2>1, <3>2, <4>1 DEF Awaited
    <3> QED BY <3>1, <3>2
  <2>2. \A y \in open' : \A m : m = want'[y] => Awaited(m)'
    BY <1>u, <2>1 DEF NoJumpForgotten
  <2> QED BY <2>2 DEF NoJumpForgotten, Awaited
<1>13. PatchedJumpsHit' /\ Kept
  BY <1>u, <1>4, <1>8, PatchedKept
<1> QED BY <1>5, <1>8, <1>9, <1>10, <1>11, <1>12, <1>13 DEF Grown

\* What for_statement writes before its body: at most the slots a, of the
\* test, and e, of the jump over the third expression, each ending its list.
LEMMA ForSections ==
  ASSUME TypeOK, CellsBelow,
         NEW n0 \in ExprSizes, NEW n1 \in ExprSizes, NEW n2 \in ExprSizes,
         NEW cond, NEW inc \in BOOLEAN,
         NEW s0, s0 = GenExpr(Text, n0),
         NEW s1, s1 = IF cond = "none" THEN s0 ELSE GenJcc(GenExpr(s0, n1), cond, 0),
         NEW s2, s2 = GenJmpForward(s1, 0),
         NEW s3, s3 = GenExpr(s2, n2),
         NEW s4, s4 = GenJmpBackward(s3, s2.ind),
         NEW s, s = IF inc THEN s4 ELSE s1,
         NEW a, a = IF cond = "none" THEN 0 ELSE LastSlot(s1),
         NEW e, e = LastSlot(s2)
  PROVE  /\ Longer(Text, s)
         /\ s0.ind \in Nat /\ s2.ind \in Nat
         /\ cond # "none" => a \in Nat \ {0} /\ a >= ind /\ a \in DOMAIN s.text /\ s.text[a] = 0
         /\ inc => e \in Nat \ {0} /\ e >= ind /\ e \in DOMAIN s.text /\ s.text[e] = 0
         /\ inc => e # a
<1>0. Section(Text)
  BY SectionNow
<1>1. Longer(Text, s0) /\ s0.text = text /\ Section(s0) /\ s0.ind \in Nat
  <2>1. Longer(Text, s0) /\ s0.text = Text.text
    BY <1>0, GenExprLonger, JumpGenAssumption
  <2> QED BY <2>1 DEF Longer, Section, Text
<1>2. CASE cond = "none"
  <2>1. s1 = s0 /\ a = 0
    BY <1>2
  <2>2. AddsSlot(s1, s2, 0)
    BY <1>1, <2>1, GenJmpForwardLonger
  <2>3. Section(s2)
    BY <2>2 DEF AddsSlot, Longer
  <2>4. Longer(s2, s3) /\ s3.text = s2.text /\ Section(s3)
    BY <2>3, GenExprLonger, JumpGenAssumption DEF Longer
  <2>5. s2.ind \in Nat
    BY <2>3 DEF Section
  <2>6. Longer(s3, s4)
    BY <2>4, <2>5, GenJmpBackwardLonger
  <2>7. Longer(s1, s2) /\ Longer(s2, s4) /\ Longer(Text, s2) /\ Longer(Text, s4)
    BY <1>0, <1>1, <2>1, <2>2, <2>3, <2>4, <2>6, LongerTrans DEF AddsSlot
  <2>8. Longer(Text, s)
    BY <1>1, <2>1, <2>7
  <2>9. ASSUME inc
        PROVE  /\ e \in Nat \ {0} /\ e >= ind /\ e \in DOMAIN s.text /\ s.text[e] = 0
               /\ e # a
    <3>1. e \in Nat \ {0} /\ e >= s1.ind /\ e \in DOMAIN s2.text /\ s2.text[e] = 0
      BY <2>2 DEF AddsSlot
    <3>2. s1.ind \in Nat /\ s1.ind >= ind /\ ind \in Nat
      BY <1>1, <2>1 DEF Longer, Section, Text, TypeOK
    <3>3. e \in DOMAIN s4.text /\ s4.text[e] = 0
      BY <2>7, <3>1 DEF Longer
    <3>4. s = s4
      BY <2>9
    <3> QED BY <2>1, <3>1, <3>2, <3>3, <3>4
  <2> QED BY <1>1, <1>2, <2>5, <2>8, <2>9
<1>3. CASE cond # "none"
  <2>1. PICK q : q = GenExpr(s0, n1)
    OBVIOUS
  <2>2. s1 = GenJcc(q, cond, 0) /\ a = LastSlot(s1)
    BY <1>3, <2>1
  <2>3. Longer(s0, q) /\ q.text = s0.text /\ Section(q)
    BY <1>1, <2>1, GenExprLonger, JumpGenAssumption DEF Longer
  <2>4. AddsSlot(q, s1, 0)
    BY <2>2, <2>3, GenJccLonger
  <2>5. Section(s1)
    BY <2>4 DEF AddsSlot, Longer
  <2>6. AddsSlot(s1, s2, 0)
    BY <2>5, GenJmpForwardLonger
  <2>7. Section(s2) /\ s2.ind \in Nat
    BY <2>6 DEF AddsSlot, Longer, Section
  <2>8. Longer(s2, s3) /\ Section(s3)
    BY <2>7, GenExprLonger, JumpGenAssumption DEF Longer
  <2>9. Longer(s3, s4)
    BY <2>7, <2>8, GenJmpBackwardLonger
  <2>10. /\ Longer(Text, q) /\ Longer(q, s1) /\ Longer(Text, s1) /\ Longer(s1, s2)
         /\ Longer(Text, s2)
    BY <1>0, <1>1, <2>3, <2>4, <2>6, LongerTrans DEF AddsSlot
  <2>11. Longer(s2, s4) /\ Longer(s1, s4) /\ Longer(Text, s4)
    BY <1>0, <2>5, <2>7, <2>8, <2>9, <2>10, LongerTrans
  <2>12. Longer(Text, s)
    BY <2>10, <2>11
  <2>13. a \in Nat \ {0} /\ a >= ind /\ a \in DOMAIN s1.text /\ s1.text[a] = 0 /\ a < s1.ind
    <3>1. a \in Nat \ {0} /\ a >= q.ind /\ a \in DOMAIN s1.text /\ s1.text[a] = 0
      BY <2>2, <2>4 DEF AddsSlot
    <3>2. q.ind \in Nat /\ q.ind >= ind /\ ind \in Nat
      BY <2>10 DEF Longer, Section, Text, TypeOK
    <3>3. a < s1.ind
      BY <2>2, <2>5 DEF LastSlot, Section
    <3> QED BY <3>1, <3>2, <3>3
  <2>14. a \in DOMAIN s.text /\ s.text[a] = 0
    <3>1. CASE inc
      BY <2>11, <2>13, <3>1 DEF Longer
    <3>2. CASE ~inc
      BY <2>13, <3>2
    <3> QED BY <3>1, <3>2
  <2>15. e \in Nat \ {0} /\ e >= s1.ind /\ e \in DOMAIN s2.text /\ s2.text[e] = 0
    BY <2>6 DEF AddsSlot
  <2>16. s1.ind \in Nat /\ s1.ind >= ind /\ ind \in Nat
    BY <2>10 DEF Longer, Section, Text, TypeOK
  <2>17. inc => e \in DOMAIN s.text /\ s.text[e] = 0
    BY <2>11, <2>15 DEF Longer
  <2> QED BY <1>1, <1>3, <2>7, <2>12, <2>13, <2>14, <2>15, <2>16, <2>17
<1> QED BY <1>2, <1>3

\* for: a frame with the list of its test and an empty one for continue; the
\* jump over the third expression is handed to backpatch at once.
LEMMA ForHeadInv == IInv /\ ForHead => IInv' /\ Kept
<1> SUFFICES ASSUME IInv, ForHead PROVE IInv' /\ Kept
  OBVIOUS
<1> USE DEF IInv
<1>u. /\ phase = "body" /\ Len(patching) = 0 /\ Len(funcs) > 0
      /\ UNCHANGED <<phase, rsym, func_begin_ind, func_ret_sub, funcs>>
      /\ labels' = labels + 3 /\ ReturnLabel' = ReturnLabel /\ labels \in Nat
  BY DEF ForHead, Read, Parsing, PhaseShape, ReturnLabel, TypeOK
<1>0. PICK n0 \in ExprSizes, n1 \in ExprSizes, n2 \in ExprSizes,
           cond \in Conds \cup {"none"}, inc \in BOOLEAN :
       LET s0 == GenExpr(Text, n0)
           s1 == IF cond = "none" THEN s0 ELSE GenJcc(GenExpr(s0, n1), cond, 0)
           s2 == GenJmpForward(s1, 0)
           s3 == GenExpr(s2, n2)
           s4 == GenJmpBackward(s3, s2.ind)
           s  == IF inc THEN s4 ELSE s1
           d  == s0.ind
           c  == IF inc THEN s2.ind ELSE d
           a  == IF cond = "none" THEN 0 ELSE LastSlot(s1)
           e  == LastSlot(s2)
           slots == (IF cond = "none" THEN {} ELSE {a}) \cup (IF inc THEN {e} ELSE {})
           over  == labels + 2
       IN /\ Write(s)
          /\ stack' = Append(stack,
               [kind |-> "for", loop |-> Loop, a |-> a, b |-> 0,
                c |-> c, d |-> d, l |-> labels])
          /\ want' = [x \in DOMAIN want \cup slots |->
                        IF x \in DOMAIN want THEN want[x]
                        ELSE IF inc /\ x = e THEN over ELSE labels]
          /\ open' = open \cup slots
          /\ patching' = IF inc THEN <<Call(e, s.ind, over)>> ELSE <<>>
          /\ bound' = IF inc THEN Put(bound, over, s.ind) ELSE bound
          /\ backs' = IF inc THEN Put(backs, s3.ind, [dest |-> c, meant |-> d])
                      ELSE backs
  BY DEF ForHead
<1>1. PICK s0, s1, s2, s3, s4, s, d, c, a, e, slots, l, over, f :
        /\ s0 = GenExpr(Text, n0)
        /\ s1 = IF cond = "none" THEN s0 ELSE GenJcc(GenExpr(s0, n1), cond, 0)
        /\ s2 = GenJmpForward(s1, 0)
        /\ s3 = GenExpr(s2, n2)
        /\ s4 = GenJmpBackward(s3, s2.ind)
        /\ s  = IF inc THEN s4 ELSE s1
        /\ d  = s0.ind
        /\ c  = IF inc THEN s2.ind ELSE d
        /\ a  = IF cond = "none" THEN 0 ELSE LastSlot(s1)
        /\ e  = LastSlot(s2)
        /\ slots = (IF cond = "none" THEN {} ELSE {a}) \cup (IF inc THEN {e} ELSE {})
        /\ l = labels /\ over = labels + 2
        /\ f = [kind |-> "for", loop |-> Loop, a |-> a, b |-> 0,
                c |-> c, d |-> d, l |-> l]
  OBVIOUS
<1>2. /\ Write(s)
      /\ stack' = Append(stack, f)
      /\ want' = [x \in DOMAIN want \cup slots |->
                    IF x \in DOMAIN want THEN want[x]
                    ELSE IF inc /\ x = e THEN over ELSE l]
      /\ open' = open \cup slots
      /\ patching' = IF inc THEN <<Call(e, s.ind, over)>> ELSE <<>>
      /\ bound' = IF inc THEN Put(bound, over, s.ind) ELSE bound
  BY <1>0, <1>1
<1>3. /\ Longer(Text, s)
      /\ s0.ind \in Nat /\ s2.ind \in Nat
      /\ cond # "none" => a \in Nat \ {0} /\ a >= ind /\ a \in DOMAIN s.text /\ s.text[a] = 0
      /\ inc => e \in Nat \ {0} /\ e >= ind /\ e \in DOMAIN s.text /\ s.text[e] = 0
      /\ inc => e # a
  BY <1>1, ForSections
<1>4. Grown /\ s.ind \in Nat /\ s.text = text'
  <2>1. Grown
    BY <1>2, <1>3, WriteGrown
  <2> QED BY <1>2, <2>1 DEF Grown, Write
<1>5. /\ f \in Frame /\ f.l = labels /\ f.loop = Loop /\ f.kind = "for" /\ f.a = a /\ f.b = 0
      /\ l = labels /\ l \in Nat /\ over = labels + 2
      /\ a \in Nat
  BY <1>u, <1>1, <1>3, LoopFacts, StackFacts DEF Frame
<1>6. /\ \A x \in slots : /\ x \in Nat \ {0} /\ x >= ind /\ x \in DOMAIN text' /\ text'[x] = 0
                          /\ x \notin DOMAIN want /\ x \notin open
      /\ cond # "none" => a \in slots
      /\ cond = "none" => a = 0 /\ a \notin slots
      /\ inc => e \in slots /\ e # a
      /\ \A x \in slots : (inc /\ x = e) \/ x = a
      /\ ~inc => \A x \in slots : x = a
  <2>1. \A x \in slots : (x = a /\ cond # "none") \/ (x = e /\ inc)
    BY <1>1
  <2>2. \A x \in slots : x \in Nat \ {0} /\ x >= ind /\ x \in DOMAIN text' /\ text'[x] = 0
    BY <1>3, <1>4, <2>1
  <2>3. \A x \in slots : x \notin DOMAIN want
    BY <2>2 DEF TypeOK, CellsBelow
  <2>4. \A x \in slots : x \notin open
    BY <2>3 DEF TypeOK
  <2>5. /\ cond # "none" => a \in slots
        /\ inc => e \in slots /\ e # a
        /\ cond = "none" => a = 0
    BY <1>1, <1>3
  <2> QED BY <2>1, <2>2, <2>3, <2>4, <2>5
<1>7. /\ DOMAIN want' = DOMAIN want \cup slots
      /\ \A x \in DOMAIN want : want'[x] = want[x]
      /\ cond # "none" => want'[a] = l
      /\ inc => want'[e] = over
      /\ \A x \in slots : want'[x] = l \/ (inc /\ x = e /\ want'[x] = over)
      /\ DOMAIN want' \ open' = DOMAIN want \ open
  <2>1. /\ DOMAIN want' = DOMAIN want \cup slots
        /\ \A x \in DOMAIN want : want'[x] = want[x]
        /\ \A x \in slots : want'[x] = IF inc /\ x = e THEN over ELSE l
    BY <1>2, <1>6
  <2>2. DOMAIN want' \ open' = DOMAIN want \ open
    BY <1>2, <1>6, <2>1
  <2> QED BY <1>6, <2>1, <2>2
<1>8. /\ inc => DOMAIN bound' = DOMAIN bound \cup {over} /\ bound'[over] = s.ind
      /\ ~inc => bound' = bound
      /\ \A y \in DOMAIN bound : y \in DOMAIN bound' /\ bound'[y] = bound[y]
      /\ bound' \in [DOMAIN bound' -> Nat] /\ DOMAIN bound' \subseteq Nat
  <2>1. over \in Nat /\ over \notin DOMAIN bound
    BY <1>u, <1>5 DEF LabelsApart
  <2>2. CASE inc
    <3>1. bound' = Put(bound, over, s.ind)
      BY <1>2, <2>2
    <3> QED BY <1>4, <2>1, <2>2, <3>1 DEF Put, TypeOK
  <2>3. CASE ~inc
    BY <1>2, <2>3 DEF TypeOK
  <2> QED BY <2>2, <2>3
<1>9. /\ inc => /\ Len(patching') = 1 /\ patching'[1].t = e /\ patching'[1].a = s.ind
                /\ patching'[1].l = over
      /\ ~inc => Len(patching') = 0
      /\ patching' \in Seq(Pending)
  <2>1. CASE inc
    BY <1>u, <1>2, <1>3, <1>4, <1>5, <2>1 DEF Call, Pending
  <2>2. CASE ~inc
    BY <1>2, <2>2
  <2> QED BY <2>1, <2>2
<1>10. Pushed(f)
  BY <1>2, <1>5, FrameAppended
<1>11. LabelsApart' /\ LoopsInnermost'
  <2>1. labels' \in Nat /\ labels + 1 < labels' /\ labels + 2 < labels'
    BY <1>u
  <2>2. \A x \in DOMAIN bound' : x \in DOMAIN bound \/ (x = labels + 2 /\ x < labels')
    BY <1>5, <1>8, <2>1
  <2> QED BY <1>u, <1>5, <1>10, <2>1, <2>2, FramePushed
<1>12. TypeOK'
  <2>1. labels' \in Nat /\ l < labels' /\ over < labels' /\ l \in Nat /\ over \in Nat
    BY <1>u, <1>5
  <2>2. \A x \in DOMAIN want : want[x] \in Nat /\ want[x] < labels'
    BY <1>u DEF TypeOK
  <2>3. \A x \in DOMAIN want' : want'[x] \in Nat /\ want'[x] < labels'
    BY <1>7, <2>1, <2>2
  <2>4. want' \in [DOMAIN want' -> Nat]
    BY <1>2, <1>7, <2>3
  <2>5. /\ DOMAIN want' \subseteq DOMAIN text' /\ 0 \notin DOMAIN want'
        /\ open' \subseteq DOMAIN want'
    BY <1>2, <1>4, <1>6, <1>7 DEF TypeOK, Grown
  <2> QED BY <1>u, <1>4, <1>8, <1>9, <1>10, <2>1, <2>3, <2>4, <2>5, TypedStep DEF Pushed
<1>13. PhaseShape'
  BY <1>u DEF PhaseShape
<1>14. CallsBound'
  <2>1. CASE inc
    <3>1. /\ Len(patching') = 1 /\ patching'[1].a = s.ind /\ patching'[1].l = over
      BY <1>9, <2>1
    <3>2. over \in DOMAIN bound' /\ bound'[over] = s.ind
      BY <1>8, <2>1
    <3> QED BY <3>1, <3>2 DEF CallsBound
  <2>2. CASE ~inc
    <3>1. Len(patching') = 0
      BY <1>9, <2>2
    <3> QED BY <3>1 DEF CallsBound
  <2> QED BY <2>1, <2>2
<1>15. /\ \A m : m < labels => Waiting(m)' = Waiting(m)
       /\ Waiting(l)' = IF cond = "none" THEN {} ELSE {a}
       /\ Waiting(l + 1)' = {}
       /\ inc => Waiting(over)' = {e}
  <2>1. \A x \in open : x \in DOMAIN want /\ want'[x] = want[x] /\ want[x] \in Nat /\ want[x] < labels
    BY <1>7 DEF TypeOK
  <2>2. l # over /\ l + 1 # over /\ l # l + 1 /\ \A x \in open : want'[x] # l /\ want'[x] # l + 1 /\ want'[x] # over
    BY <1>u, <1>5, <2>1
  <2>3. ASSUME NEW m, m < labels PROVE Waiting(m)' = Waiting(m)
    <3>1. m # l /\ m # over
      BY <1>u, <1>5, <2>3
    <3>2. \A x \in slots : want'[x] # m
      BY <1>7, <3>1
    <3> QED BY <1>2, <2>1, <3>2 DEF Waiting
  <2>4. Waiting(l)' = IF cond = "none" THEN {} ELSE {a}
    <3>1. \A x \in open' : want'[x] = l => x \in slots /\ x = a
      BY <1>2, <1>6, <1>7, <2>2
    <3>2. cond # "none" => a \in open' /\ want'[a] = l
      BY <1>2, <1>6, <1>7
    <3>3. cond = "none" => a \notin slots
      BY <1>6
    <3> QED BY <3>1, <3>2, <3>3 DEF Waiting
  <2>5. Waiting(l + 1)' = {}
    <3>1. \A x \in open' : want'[x] # l + 1
      BY <1>2, <1>7, <2>2
    <3> QED BY <3>1 DEF Waiting
  <2>6. inc => Waiting(over)' = {e}
    <3>1. \A x \in open' : want'[x] = over => x = e
      BY <1>2, <1>7, <2>2
    <3>2. inc => e \in open' /\ want'[e] = over
      BY <1>2, <1>6, <1>7
    <3> QED BY <3>1, <3>2 DEF Waiting
  <2> QED BY <2>3, <2>4, <2>5, <2>6
<1>16. \A x, m : m < labels /\ Threaded(x, Waiting(m)) => Threaded(x, Waiting(m))'
  BY <1>4, <1>15, OldLists
<1>17. ListsThreaded'
  <2>1. /\ Threaded(a, Waiting(l))' /\ Threaded(0, Waiting(l + 1))'
        /\ inc => Threaded(e, Waiting(over))'
    <3>1. \A x \in slots : ThreadedIn(text', x, {x})
      BY <1>6 DEF ThreadedIn
    <3>2. ThreadedIn(text', 0, {})
      BY DEF ThreadedIn
    <3>3. Threaded(a, Waiting(l))'
      <4>1. CASE cond = "none"
        BY <1>6, <1>15, <3>2, <4>1 DEF Threaded
      <4>2. CASE cond # "none"
        BY <1>6, <1>15, <3>1, <4>2 DEF Threaded
      <4> QED BY <4>1, <4>2
    <3>4. Threaded(0, Waiting(l + 1))'
      BY <1>15, <3>2 DEF Threaded
    <3>5. inc => Threaded(e, Waiting(over))'
      BY <1>6, <1>15, <3>1 DEF Threaded
    <3> QED BY <3>3, <3>4, <3>5
  <2>2. /\ Depth \in Nat /\ Depth' = Depth + 1
        /\ \A i \in 1..Depth : stack'[i] = stack[i] /\ stack[i].l \in Nat /\ stack[i].l + 1 < labels
        /\ stack'[Depth + 1] = f
    BY <1>10, StackFacts DEF Pushed, LabelsApart
  <2>3. ASSUME NEW i \in 1..(Depth + 1), NEW x, NEW m,
               \/ x = ExitList(stack'[i]) /\ m = stack'[i].l
               \/ stack'[i].kind = "for" /\ x = stack'[i].b /\ m = stack'[i].l + 1
        PROVE  Threaded(x, Waiting(m))'
    <3>1. CASE i = Depth + 1
      BY <1>5, <2>1, <2>2, <2>3, <3>1 DEF ExitList
    <3>2. CASE i \in 1..Depth
      <4>1. Threaded(x, Waiting(m))
        BY <2>2, <2>3, <3>2 DEF ListsThreaded
      <4>2. m < labels
        BY <1>u, <2>2, <2>3, <3>2
      <4> QED BY <1>16, <4>1, <4>2
    <3> QED BY <2>2, <3>1, <3>2
  <2>4. \A j \in 1..Len(patching') : Threaded(patching[j].t, Waiting(patching[j].l))'
    <3>1. CASE inc
      <4>0. /\ Len(patching') = 1 /\ patching'[1].t = e /\ patching'[1].l = over
            /\ Threaded(e, Waiting(over))'
        BY <1>9, <2>1, <3>1
      <4>1. ASSUME NEW x, NEW m, x = patching'[1].t, m = patching'[1].l
            PROVE  Threaded(x, Waiting(m))'
        BY <4>0, <4>1
      <4> QED BY <4>0, <4>1
    <3>2. CASE ~inc
      <4>1. Len(patching') = 0
        BY <1>9, <3>2
      <4> QED BY <4>1
    <3> QED BY <3>1, <3>2
  <2>5. Threaded(rsym, Waiting(ReturnLabel))'
    <3>1. ReturnLabel < labels /\ Threaded(rsym, Waiting(ReturnLabel))
      BY <1>u DEF LabelsApart, ListsThreaded
    <3> QED BY <1>u, <1>16, <3>1
  <2> QED BY <2>2, <2>3, <2>4, <2>5 DEF ListsThreaded
<1>18. NoJumpForgotten'
  <2>1. \A m : Awaited(m) => Awaited(m)'
    BY <1>u, <1>10 DEF Awaited, Pushed
  <2>2. Awaited(l)'
    BY <1>5, <1>10 DEF Awaited, Pushed
  <2>3. ASSUME inc PROVE Awaited(over)'
    <3>1. Len(patching') = 1 /\ patching'[1].l = over
      BY <1>9, <2>3
    <3> QED BY <3>1 DEF Awaited
  <2>4. \A x \in open : want'[x] = want[x] /\ Awaited(want[x])
    BY <1>7 DEF NoJumpForgotten, TypeOK
  <2>5. \A x \in open' : \A m : m = want'[x] => Awaited(m)'
    BY <1>2, <1>7, <2>1, <2>2, <2>3, <2>4
  <2> QED BY <2>5 DEF NoJumpForgotten, Awaited
<1>19. PatchedJumpsHit' /\ Kept
  BY <1>4, <1>7, <1>8, PatchedKept
<1> QED BY <1>4, <1>11, <1>12, <1>13, <1>14, <1>17, <1>18, <1>19 DEF Grown

-----------------------------------------------------------------------------
(* The specification.                                                      *)

\* Every step of the parser keeps the inductive invariant, and every
\* displacement that was filled in before.
LEMMA NextInv == IInv /\ [Next]_vars => IInv' /\ Kept
<1> SUFFICES ASSUME IInv, [Next]_vars PROVE IInv' /\ Kept
  OBVIOUS
<1>1. CASE Statement
  BY <1>1, ExprStmtInv, IfHeadInv, ForHeadInv, BreakInv, ContinueInv, ReturnInv,
     StrayJumpInv DEF Statement
<1>2. CASE Block
  BY <1>2, ElseInv, EndIfInv, EndForInv DEF Block
<1>3. CASE Function
  BY <1>3, OpenFuncInv, CloseBodyInv, GenEpilogInv DEF Function
<1>4. CASE Patch
  BY <1>4, BackpatchInv, BackpatchReturnsInv DEF Patch
<1>5. CASE UNCHANGED vars
  <2> USE <1>5 DEF IInv, vars, state, history
  <2>1. TypeOK' /\ PhaseShape' /\ CellsBelow' /\ CallsBound' /\ LoopsInnermost' /\ PatchedJumpsHit'
    BY DEF TypeOK, PhaseShape, CellsBelow, CallsBound, LoopsInnermost, PatchedJumpsHit, Depth
  <2>2. LabelsApart'
    BY DEF LabelsApart, Depth, ReturnLabel
  <2>3. ListsThreaded'
    BY DEF ListsThreaded, Depth, ReturnLabel, Threaded, ThreadedIn, Waiting, ExitList
  <2>4. NoJumpForgotten'
    BY DEF NoJumpForgotten, Awaited, Depth, ReturnLabel
  <2>5. Kept
    BY DEF Kept
  <2> QED BY <2>1, <2>2, <2>3, <2>4, <2>5
<1> QED BY <1>1, <1>2, <1>3, <1>4, <1>5 DEF Next, EndOfFile

\* Whatever the program, the expressions' sizes and the bounds, every state the
\* parser reaches satisfies the inductive invariant.
THEOREM Inductive == Spec => []IInv
<1>1. Init => IInv
  BY InitInv
<1> QED BY <1>1, NextInv, PTL DEF Spec

\* Type correctness of the control-flow code generator.
THEOREM TypeCorrect == Spec => []TypeOK
<1>1. IInv => TypeOK
  BY DEF IInv
<1> QED BY <1>1, Inductive, PTL

\* The heads that if_statement, for_statement, funcbody and a running backpatch
\* hold always head 0-terminated lists of exactly the jumps that wait for them.
THEOREM ListsCorrect == Spec => []ListsThreaded
<1>1. IInv => ListsThreaded
  BY DEF IInv
<1> QED BY <1>1, Inductive, PTL

\* No forward jump is ever left without somebody who will give it its target.
THEOREM NothingForgotten == Spec => []NoJumpForgotten
<1>1. IInv => NoJumpForgotten
  BY DEF IInv
<1> QED BY <1>1, Inductive, PTL

\* Every forward jump that has been filled in goes where its statement says.
THEOREM ForwardJumpsCorrect == Spec => []PatchedJumpsHit
<1>1. IInv => PatchedJumpsHit
  BY DEF IInv
<1> QED BY <1>1, Inductive, PTL

\* When a function is done no link of a list is left in its code.
THEOREM NoLinkInFinishedCode == Spec => []FunctionsClosed
<1>1. IInv => FunctionsClosed
  <2> SUFFICES ASSUME IInv, phase = "outside" PROVE open = {}
    BY DEF FunctionsClosed
  <2>1. patching = <<>>
    BY DEF IInv, PhaseShape
  <2> QED BY <2>1, NothingPending DEF IInv
<1> QED BY <1>1, Inductive, PTL
\* No step writes a displacement a second time: neither the lists of enclosing
\* statements nor those of later functions reach a slot that is done with.
THEOREM DisplacementsStay == Spec => PatchedStays
<1>1. IInv /\ [Next]_vars => [\A s \in DOMAIN want \ open : text'[s] = text[s] /\ s \notin open']_vars
  BY NextInv DEF Kept
<1> QED BY <1>1, Inductive, PTL DEF Spec, PatchedStays

-----------------------------------------------------------------------------
(* The emitters.                                                           *)

\* The instructions of a section lie below its ind.
Below(s) ==
  /\ s.ind \in Nat /\ DOMAIN s.code \subseteq Nat
  /\ \A p \in DOMAIN s.code : s.code[p].len \in Nat \ {0} /\ p + s.code[p].len <= s.ind

Added(s, r) == DOMAIN r.code \ DOMAIN s.code
AddedJumps(s, r) == {p \in Added(s, r) : r.code[p].op \in {"jmp", "jcc"}}

\* r is s with instructions written after it, one after another.
Appends(s, r) ==
  /\ Below(r) /\ s.ind <= r.ind
  /\ DOMAIN s.code \subseteq DOMAIN r.code
  /\ \A p \in DOMAIN s.code : r.code[p] = s.code[p]
  /\ s.ind \in DOMAIN r.code \cup {r.ind}
  /\ \A p \in Added(s, r) :
       /\ p >= s.ind
       /\ p + r.code[p].len \in DOMAIN r.code \cup {r.ind}
       /\ \A q \in DOMAIN r.code : q > p => q >= p + r.code[p].len

\* Nothing written
LEMMA AppendsNothing ==
  ASSUME NEW s, Below(s)
  PROVE  Appends(s, s) /\ AddedJumps(s, s) = {}
BY DEF Appends, Below, Added, AddedJumps

\* Appends is transitive, and the jumps add up.
LEMMA AppendsTrans ==
  ASSUME NEW s, NEW r, NEW q, Below(s), Appends(s, r), Appends(r, q)
  PROVE  Appends(s, q) /\ AddedJumps(s, q) = AddedJumps(s, r) \cup AddedJumps(r, q)
<1>1. /\ s.ind \in Nat /\ r.ind \in Nat /\ q.ind \in Nat /\ s.ind <= r.ind /\ r.ind <= q.ind
      /\ DOMAIN q.code \subseteq Nat
  BY DEF Appends, Below
<1>2. /\ DOMAIN s.code \subseteq DOMAIN r.code /\ DOMAIN r.code \subseteq DOMAIN q.code
      /\ \A p \in DOMAIN s.code : r.code[p] = s.code[p]
      /\ \A p \in DOMAIN r.code : q.code[p] = r.code[p]
  BY DEF Appends
<1>3. s.ind \in DOMAIN q.code \cup {q.ind}
  BY <1>2 DEF Appends
<1>4. ASSUME NEW p \in Added(s, q)
      PROVE  /\ p >= s.ind
             /\ p + q.code[p].len \in DOMAIN q.code \cup {q.ind}
             /\ \A x \in DOMAIN q.code : x > p => x >= p + q.code[p].len
  <2>1. CASE p \in DOMAIN r.code
    <3>1. p \in Added(s, r) /\ q.code[p] = r.code[p] /\ p \in Nat
      BY <1>1, <1>2, <2>1 DEF Added
    <3>2. /\ p >= s.ind /\ p + r.code[p].len \in DOMAIN r.code \cup {r.ind}
          /\ \A x \in DOMAIN r.code : x > p => x >= p + r.code[p].len
      BY <3>1 DEF Appends
    <3>3. p + r.code[p].len \in DOMAIN q.code \cup {q.ind}
      BY <1>2, <3>2 DEF Appends
    <3>4. p + r.code[p].len <= r.ind /\ r.code[p].len \in Nat
      BY <2>1 DEF Appends, Below
    <3>5. \A x \in DOMAIN q.code : x \notin DOMAIN r.code => x \in Nat /\ x >= r.ind
      BY <1>1 DEF Appends, Added
    <3>6. \A x \in DOMAIN q.code : x > p => x >= p + r.code[p].len
      BY <1>1, <3>1, <3>2, <3>4, <3>5
    <3> QED BY <3>1, <3>2, <3>3, <3>6
  <2>2. CASE p \notin DOMAIN r.code
    <3>1. p \in Added(r, q) /\ p \in Nat
      BY <1>1, <2>2 DEF Added
    <3>2. /\ p >= r.ind /\ p + q.code[p].len \in DOMAIN q.code \cup {q.ind}
          /\ \A x \in DOMAIN q.code : x > p => x >= p + q.code[p].len
      BY <3>1 DEF Appends
    <3> QED BY <1>1, <3>1, <3>2
  <2> QED BY <2>1, <2>2
<1>5. AddedJumps(s, q) = AddedJumps(s, r) \cup AddedJumps(r, q)
  BY <1>2 DEF AddedJumps, Added
<1> QED BY <1>1, <1>2, <1>3, <1>4, <1>5 DEF Appends

\* One instruction at the end
LEMMA OneAppended ==
  ASSUME NEW s, NEW r, NEW op, NEW len \in Nat \ {0}, Below(s), r.ind = s.ind + len,
         r.code = Put(s.code, s.ind, [op |-> op, len |-> len])
  PROVE  /\ Appends(s, r)
         /\ DOMAIN r.code = DOMAIN s.code \cup {s.ind} /\ s.ind \notin DOMAIN s.code
         /\ r.code[s.ind] = [op |-> op, len |-> len]
         /\ AddedJumps(s, r) = IF op \in {"jmp", "jcc"} THEN {s.ind} ELSE {}
<1>1. s.ind \notin DOMAIN s.code /\ s.ind \in Nat /\ DOMAIN s.code \subseteq Nat
  BY DEF Below
<1>2. /\ DOMAIN r.code = DOMAIN s.code \cup {s.ind}
      /\ r.code[s.ind] = [op |-> op, len |-> len]
      /\ \A p \in DOMAIN s.code : r.code[p] = s.code[p]
  BY <1>1 DEF Put
<1>3. r.code[s.ind].len = len /\ r.code[s.ind].op = op
  BY <1>2
<1>4. r.ind \in Nat /\ s.ind + len = r.ind /\ s.ind < r.ind
  BY <1>1
<1>5. Below(r)
  <2>1. \A p \in DOMAIN s.code : p \in Nat /\ s.code[p].len \in Nat \ {0} /\ p + s.code[p].len <= s.ind
    BY DEF Below
  <2>2. \A p \in DOMAIN s.code : p + s.code[p].len <= r.ind
    BY <1>1, <1>4, <2>1
  <2> QED BY <1>1, <1>2, <1>3, <1>4, <2>1, <2>2 DEF Below
<1>6. Added(s, r) = {s.ind}
  BY <1>1, <1>2 DEF Added
<1>7. \A q \in DOMAIN r.code : ~ (q > s.ind)
  BY <1>1, <1>2 DEF Below
<1>8. Appends(s, r)
  BY <1>1, <1>2, <1>3, <1>4, <1>5, <1>6, <1>7 DEF Appends
<1>9. AddedJumps(s, r) = IF op \in {"jmp", "jcc"} THEN {s.ind} ELSE {}
  BY <1>3, <1>6 DEF AddedJumps
<1> QED BY <1>1, <1>2, <1>8, <1>9

\* An instruction without a displacement
LEMMA EmitAppends ==
  ASSUME NEW s, NEW op, NEW len \in Nat \ {0}, Below(s), op \notin {"jmp", "jcc"}
  PROVE  /\ Appends(s, Emit(s, op, len)) /\ AddedJumps(s, Emit(s, op, len)) = {}
         /\ DOMAIN Emit(s, op, len).code = DOMAIN s.code \cup {s.ind}
         /\ Emit(s, op, len).ind = s.ind + len
<1>1. PICK r : r = Emit(s, op, len)
  OBVIOUS
<1>2. r.ind = s.ind + len /\ r.code = Put(s.code, s.ind, [op |-> op, len |-> len])
  BY <1>1 DEF Emit
<1> QED BY <1>1, <1>2, OneAppended

\* An expression holds no jump.
LEMMA GenExprAppends ==
  ASSUME NEW s, NEW n \in Nat, Below(s)
  PROVE  Appends(s, GenExpr(s, n)) /\ AddedJumps(s, GenExpr(s, n)) = {}
<1>1. CASE n = 0
  BY <1>1, AppendsNothing DEF GenExpr
<1>2. CASE n # 0
  BY <1>2, EmitAppends DEF GenExpr
<1> QED BY <1>1, <1>2

\* r is s with one more jump, whose displacement is the last dword.
AddsJump(s, r) ==
  /\ Appends(s, r)
  /\ \E p : /\ AddedJumps(s, r) = {p} /\ p >= s.ind /\ r.code[p].len > 4
            /\ p + r.code[p].len - 4 = LastSlot(r)

\* An instruction with a slot
LEMMA EmitSlotAppends ==
  ASSUME NEW s, NEW op \in {"jmp", "jcc"}, NEW len \in Nat, len > 4, NEW t, Below(s)
  PROVE  AddsJump(s, EmitSlot(s, op, len, t))
<1>1. PICK r : r = EmitSlot(s, op, len, t)
  OBVIOUS
<1>2. r.ind = s.ind + len /\ r.code = Put(s.code, s.ind, [op |-> op, len |-> len])
  BY <1>1 DEF EmitSlot
<1>3. /\ Appends(s, r) /\ r.code[s.ind] = [op |-> op, len |-> len]
      /\ AddedJumps(s, r) = {s.ind}
  BY <1>2, OneAppended
<1>4. r.code[s.ind].len = len /\ s.ind \in Nat
  BY <1>3 DEF Below
<1>5. s.ind + r.code[s.ind].len - 4 = LastSlot(r) /\ s.ind >= s.ind
  BY <1>2, <1>4 DEF LastSlot
<1> QED BY <1>1, <1>3, <1>4, <1>5 DEF AddsJump

\* gen_jmpforward
LEMMA GenJmpForwardAppends ==
  ASSUME NEW s, NEW t, Below(s)
  PROVE  AddsJump(s, GenJmpForward(s, t))
BY EmitSlotAppends DEF GenJmpForward

\* Code without a jump may come first.
LEMMA AppendsAddsJump ==
  ASSUME NEW s, NEW q, NEW r, Below(s), Appends(s, q), AddedJumps(s, q) = {}, AddsJump(q, r)
  PROVE  AddsJump(s, r)
<1>1. PICK p : /\ AddedJumps(q, r) = {p} /\ p >= q.ind /\ r.code[p].len > 4
               /\ p + r.code[p].len - 4 = LastSlot(r)
  BY DEF AddsJump
<1>2. Appends(s, r) /\ AddedJumps(s, r) = {p}
  BY <1>1, AppendsTrans DEF AddsJump
<1>3. p \in Nat /\ s.ind \in Nat /\ q.ind \in Nat /\ s.ind <= q.ind
  BY <1>1 DEF Appends, AddsJump, Below, AddedJumps, Added
<1>4. p >= s.ind
  BY <1>1, <1>3
<1> QED BY <1>1, <1>2, <1>4 DEF AddsJump

\* gen_jcc
LEMMA GenJccAppends ==
  ASSUME NEW s, NEW form, NEW t, Below(s)
  PROVE  AddsJump(s, GenJcc(s, form, t))
<1>1. CASE form = "cmp"
  BY <1>1, EmitSlotAppends DEF GenJcc
<1>2. CASE form = "const"
  BY <1>2, GenJmpForwardAppends DEF GenJcc
<1>3. CASE form \notin {"cmp", "const"}
  <2>1. PICK q : q = Emit(s, "expr", 2)
    OBVIOUS
  <2>2. Appends(s, q) /\ AddedJumps(s, q) = {}
    BY <2>1, EmitAppends
  <2>3. Below(q)
    BY <2>2 DEF Appends
  <2>4. GenJcc(s, form, t) = EmitSlot(q, "jcc", 6, t)
    BY <1>3, <2>1 DEF GenJcc
  <2>5. AddsJump(q, EmitSlot(q, "jcc", 6, t))
    BY <2>3, EmitSlotAppends
  <2> QED BY <2>2, <2>4, <2>5, AppendsAddsJump
<1> QED BY <1>1, <1>2, <1>3

\* gen_jmpbackward: either form leads to a, from the end of the instruction.
LEMMA GenJmpBackwardAppends ==
  ASSUME NEW s, NEW a \in Nat, Below(s)
  PROVE  LET r == GenJmpBackward(s, a)
         IN /\ Appends(s, r) /\ AddedJumps(s, r) = {s.ind}
            /\ r.code[s.ind].len \in {2, 5}
            /\ DOMAIN r.text = DOMAIN s.text \cup {s.ind + 1}
            /\ s.ind + r.code[s.ind].len + r.text[s.ind + 1] = a
<1>1. PICK r, len, d, disp :
        /\ r = GenJmpBackward(s, a)
        /\ d = a - s.ind - 2
        /\ len = IF FitsChar(d) THEN 2 ELSE 5
        /\ disp = IF FitsChar(d) THEN AsChar(d) ELSE LongDisplacement(s, a)
  OBVIOUS
<1>2. /\ r.ind = s.ind + len /\ r.code = Put(s.code, s.ind, [op |-> "jmp", len |-> len])
      /\ r.text = Put(s.text, s.ind + 1, disp)
  BY <1>1 DEF GenJmpBackward
<1>3. s.ind \in Nat /\ d \in Int /\ len \in {2, 5}
  BY <1>1 DEF Below
<1>4. s.ind + len + disp = a
  <2>1. CASE FitsChar(d)
    <3>1. disp = d /\ len = 2
      BY <1>1, <2>1 DEF FitsChar
    <3> QED BY <1>1, <1>3, <3>1
  <2>2. CASE ~FitsChar(d)
    BY <1>1, <1>3, <2>2 DEF LongDisplacement
  <2> QED BY <2>1, <2>2
<1>5. Appends(s, r) /\ AddedJumps(s, r) = {s.ind} /\ r.code[s.ind] = [op |-> "jmp", len |-> len]
  BY <1>2, <1>3, OneAppended
<1>6. r.code[s.ind].len = len
  BY <1>5
<1>7. DOMAIN r.text = DOMAIN s.text \cup {s.ind + 1} /\ r.text[s.ind + 1] = disp
  BY <1>2 DEF Put
<1> QED BY <1>1, <1>3, <1>4, <1>5, <1>6, <1>7

-----------------------------------------------------------------------------
(* What a step leaves of the layout.                                       *)

\* The section of a state has what the emitters expect.
LEMMA BelowNow == TypeOK /\ Layout => Below(Text)
BY DEF TypeOK, Layout, Below, Text

\* Where the functions begin
LEMMA FuncFacts ==
  ASSUME TypeOK
  PROVE  Len(funcs) \in Nat /\ \A i \in 1..Len(funcs) : funcs[i].begin \in Nat
<1>1. Len(funcs) \in Nat /\ \A i \in 1..Len(funcs) : funcs[i] \in Func
  BY ElementOfSeq, LenProperties DEF TypeOK
<1> QED BY <1>1 DEF Func

\* Two addresses after the beginning of the last function are both in it.
LEMMA SameLate ==
  ASSUME TypeOK', FuncsOrdered', phase' # "outside",
         NEW p \in Int, NEW q \in Int, p >= func_begin_ind', q >= func_begin_ind'
  PROVE  SameFunction(p, q)'
<1>1. Len(funcs') \in Nat /\ \A i \in 1..Len(funcs') : funcs'[i] \in Func
  BY ElementOfSeq, LenProperties DEF TypeOK
<1>2. \A i \in 1..Len(funcs') : funcs'[i].begin \in Nat
  BY <1>1 DEF Func
<1>3. \A i \in 1..Len(funcs') : funcs'[i].begin <= func_begin_ind' /\ func_begin_ind' \in Nat
  BY DEF FuncsOrdered, TypeOK
<1>4. \A i \in 1..Len(funcs') : funcs'[i].begin <= p /\ funcs'[i].begin <= q
  BY <1>2, <1>3
<1> QED BY <1>4 DEF SameFunction

\* Instructions, labels and backward jumps stay what they are, and
\* displacements that are in no slot stay so.
Extended ==
  /\ DOMAIN code \subseteq DOMAIN code' /\ \A p \in DOMAIN code : code'[p] = code[p]
  /\ DOMAIN want \subseteq DOMAIN want' /\ \A x \in DOMAIN want : want'[x] = want[x]
  /\ DOMAIN bound \subseteq DOMAIN bound' /\ \A l \in DOMAIN bound : bound'[l] = bound[l]
  /\ DOMAIN backs \subseteq DOMAIN backs' /\ \A p \in DOMAIN backs : backs'[p] = backs[p]
  /\ \A x \in DOMAIN text \ DOMAIN want : x \in DOMAIN text' \ DOMAIN want' /\ text'[x] = text[x]

\* Addresses that code or a label has
Marks == DOMAIN code \cup {bound[l] : l \in DOMAIN bound}

\* The jumps that were there stay labelled.
LEMMA OldLabelled ==
  ASSUME JumpsLabelled, Extended,
         \A p, q \in Marks : SameFunction(p, q) => SameFunction(p, q)',
         \A l \in DOMAIN bound' \ DOMAIN bound : \A p \in DOMAIN code :
            p >= func_begin_ind => SameFunction(p, bound[l])',
         \/ phase' # "outside" /\ func_begin_ind' = func_begin_ind
         \/ \A x \in DOMAIN want : want[x] \in DOMAIN bound
  PROVE  /\ \A p \in Jumps \ DOMAIN backs : SlotLabelled(p)'
         /\ \A p \in DOMAIN backs : BackLands(p)'
<1>1. ASSUME NEW p \in Jumps \ DOMAIN backs PROVE SlotLabelled(p)'
  <2>1. PICK c, l : c = Cell(p) /\ l = want[c]
    OBVIOUS
  <2>2. p \in DOMAIN code /\ code'[p] = code[p] /\ SlotLabelled(p)
    BY DEF JumpsLabelled, Jumps, Extended
  <2>3. Cell(p)' = c
    BY <2>1, <2>2 DEF Cell
  <2>4. code[p].len > 4 /\ c \in DOMAIN want /\ c \in DOMAIN want' /\ want'[c] = l
    BY <2>1, <2>2 DEF SlotLabelled, Extended
  <2>5. CASE l \in DOMAIN bound
    <3>1. SameFunction(p, bound[l]) /\ l \in DOMAIN bound' /\ bound'[l] = bound[l]
      BY <2>1, <2>2, <2>5 DEF SlotLabelled, Extended
    <3>2. p \in Marks /\ bound[l] \in Marks
      BY <2>2, <2>5 DEF Marks
    <3>3. PICK b : b = bound[l]
      OBVIOUS
    <3>4. SameFunction(p, b)'
      BY <3>1, <3>2, <3>3
    <3> QED BY <2>2, <2>3, <2>4, <3>1, <3>3, <3>4 DEF SlotLabelled, SameFunction
  <2>6. CASE l \notin DOMAIN bound
    <3>1. phase # "outside" /\ p >= func_begin_ind
      BY <2>1, <2>2, <2>6 DEF SlotLabelled
    <3>2. phase' # "outside" /\ func_begin_ind' = func_begin_ind
      BY <2>1, <2>4, <2>6
    <3>3. l \in DOMAIN bound' => SameFunction(p, bound[l])'
      BY <2>2, <2>6, <3>1
    <3> QED BY <2>2, <2>3, <2>4, <3>1, <3>2, <3>3 DEF SlotLabelled, SameFunction
  <2> QED BY <2>5, <2>6
<1>2. ASSUME NEW p \in DOMAIN backs PROVE BackLands(p)'
  <2>1. PICK c, d : c = Cell(p) /\ d = backs[p].dest
    OBVIOUS
  <2>2. BackLands(p) /\ p \in DOMAIN code /\ code'[p] = code[p] /\ backs'[p] = backs[p]
    BY DEF JumpsLabelled, Jumps, Extended
  <2>3. Cell(p)' = c /\ backs'[p].dest = d
    BY <2>1, <2>2 DEF Cell
  <2>4. /\ code[p].len \in {2, 5} /\ c \in DOMAIN text \ DOMAIN want
        /\ Target(p) = d /\ d \in DOMAIN code /\ SameFunction(p, d)
    BY <2>1, <2>2 DEF BackLands
  <2>5. c \in DOMAIN text' \ DOMAIN want' /\ text'[c] = text[c] /\ d \in DOMAIN code'
    BY <2>4 DEF Extended
  <2>6. Target(p)' = d
    BY <2>1, <2>2, <2>3, <2>4, <2>5 DEF Target
  <2>7. SameFunction(p, d)'
    BY <2>2, <2>4 DEF Marks
  <2> QED BY <2>2, <2>3, <2>4, <2>5, <2>6, <2>7 DEF BackLands, SameFunction
<1> QED BY <1>1, <1>2

\* A new jump of the function that is being compiled is labelled.
LEMMA NewLabelled ==
  ASSUME TypeOK', FuncsOrdered', phase' # "outside",
         NEW p \in Nat, p >= func_begin_ind', code'[p].len > 4,
         NEW x, x = p + code'[p].len - 4, x \in DOMAIN want', code'[p].len \in Nat,
         want'[x] \in DOMAIN bound' => bound'[want'[x]] >= func_begin_ind'
  PROVE  SlotLabelled(p)'
<1>1. Cell(p)' = x
  BY DEF Cell
<1>2. ASSUME want'[x] \in DOMAIN bound' PROVE SameFunction(p, bound[want[x]])'
  <2>1. PICK b : b = bound'[want'[x]]
    OBVIOUS
  <2>2. b \in Nat /\ b >= func_begin_ind'
    BY <1>2, <2>1 DEF TypeOK
  <2>3. SameFunction(p, b)'
    BY <2>2, SameLate
  <2> QED BY <2>1, <2>3 DEF SameFunction
<1> QED BY <1>1, <1>2 DEF SlotLabelled

\* The step writes s at the end of the function that is being compiled.
Writes(s) ==
  /\ phase = "body" /\ phase' = "body" /\ UNCHANGED <<func_begin_ind, funcs>>
  /\ Write(s) /\ Appends(Text, s)

\* What that does to the layout
LEMMA LayoutGrown ==
  ASSUME TypeOK, Layout, FuncsOrdered, NEW s, Writes(s)
  PROVE  /\ Layout' /\ FuncsOrdered'
         /\ Boundary \subseteq Boundary'
         /\ func_begin_ind <= ind /\ ind <= ind' /\ ind' \in Nat
         /\ DOMAIN code \subseteq DOMAIN code' /\ \A p \in DOMAIN code : code'[p] = code[p]
         /\ Jumps' = Jumps \cup AddedJumps(Text, s)
         /\ \A p \in AddedJumps(Text, s) :
              p \in Nat /\ p >= ind /\ p \in DOMAIN code' /\ p \notin DOMAIN code
              /\ code'[p].len \in Nat
<1> USE DEF Writes
<1>0. /\ Appends(Text, s) /\ ind' = s.ind /\ code' = s.code /\ phase = "body" /\ phase' = "body"
      /\ func_begin_ind' = func_begin_ind /\ funcs' = funcs /\ Below(Text)
  BY BelowNow DEF Write
<1> HIDE DEF Writes
<1>1. /\ ind \in Nat /\ ind' \in Nat /\ ind <= ind' /\ DOMAIN code' \subseteq Nat
      /\ DOMAIN code \subseteq DOMAIN code' /\ \A p \in DOMAIN code : code'[p] = code[p]
      /\ ind \in DOMAIN code' \cup {ind'}
      /\ func_begin_ind \in Nat
  BY <1>0 DEF Appends, Below, Text, TypeOK
<1>2. \A p \in DOMAIN code' : code'[p].len \in Nat \ {0} /\ p + code'[p].len <= ind'
  BY <1>0 DEF Appends, Below
<1>3. \A p \in DOMAIN code' \ DOMAIN code :
        /\ p >= ind
        /\ p + code'[p].len \in DOMAIN code' \cup {ind'}
        /\ \A q \in DOMAIN code' : q > p => q >= p + code'[p].len
  BY <1>0 DEF Appends, Added, Text
<1>4. Boundary \subseteq Boundary'
  BY <1>1 DEF Boundary
<1>5. func_begin_ind + 9 \in Boundary /\ func_begin_ind + 9 <= ind
  <2>1. func_begin_ind + 9 \in Boundary
    BY <1>0 DEF Layout, FUNC_PROLOG_SIZE
  <2>2. \A p \in DOMAIN code : p \in Nat /\ code[p].len \in Nat /\ p + code[p].len <= ind
    BY DEF Layout
  <2> QED BY <1>1, <2>1, <2>2 DEF Boundary
<1>6. Layout'
  <2>1. Gap' = Gap
    BY <1>0 DEF Gap
  <2>2. ASSUME NEW p \in DOMAIN code
        PROVE  /\ p + code'[p].len \in (Boundary \cup Gap)'
               /\ \A q \in DOMAIN code' : q > p => q >= p + code'[p].len
    <3>1. /\ p + code[p].len \in Boundary \cup Gap /\ p + code[p].len <= ind
          /\ \A q \in DOMAIN code : q > p => q >= p + code[p].len
          /\ code'[p] = code[p] /\ p \in Nat /\ code[p].len \in Nat
      BY <1>1 DEF Layout
    <3>2. \A q \in DOMAIN code' : q > p => q >= p + code[p].len
      BY <1>1, <1>3, <3>1
    <3> QED BY <1>4, <2>1, <3>1, <3>2
  <2>3. ASSUME NEW p \in DOMAIN code' \ DOMAIN code
        PROVE  /\ p + code'[p].len \in (Boundary \cup Gap)'
               /\ \A q \in DOMAIN code' : q > p => q >= p + code'[p].len
    BY <1>3 DEF Boundary
  <2>4. \A p \in DOMAIN code' : \/ p + code'[p].len <= func_begin_ind
                                \/ p >= func_begin_ind + 9
    <3>1. \A p \in DOMAIN code : \/ p + code'[p].len <= func_begin_ind
                                 \/ p >= func_begin_ind + 9
      BY <1>0, <1>1 DEF Layout, FUNC_PROLOG_SIZE
    <3>2. \A p \in DOMAIN code' \ DOMAIN code : p >= func_begin_ind + 9
      BY <1>1, <1>3, <1>5
    <3> QED BY <3>1, <3>2
  <2>5. func_begin_ind + 9 \in Boundary'
    BY <1>4, <1>5
  <2> QED BY <1>0, <1>1, <1>2, <2>2, <2>3, <2>4, <2>5 DEF Layout, FUNC_PROLOG_SIZE
<1>7. FuncsOrdered'
  BY <1>0, <1>1, FuncFacts DEF FuncsOrdered
<1>8. Jumps' = Jumps \cup AddedJumps(Text, s)
  BY <1>0, <1>1 DEF Jumps, AddedJumps, Added, Text
<1>9. \A p \in AddedJumps(Text, s) :
        p \in Nat /\ p >= ind /\ p \in DOMAIN code' /\ p \notin DOMAIN code /\ code'[p].len \in Nat
  BY <1>0, <1>1, <1>2, <1>3 DEF AddedJumps, Added, Text
<1> QED BY <1>1, <1>4, <1>5, <1>6, <1>7, <1>8, <1>9

\* A step that writes code keeps the layout if its new labels, frames and jumps
\* fit in.
LEMMA LayoutStep ==
  ASSUME IInv, TypeOK', LayoutInv, NEW s, Writes(s), Extended,
         \A l \in DOMAIN bound' \ DOMAIN bound :
            bound'[l] \in Boundary' /\ bound'[l] >= func_begin_ind,
         \A i \in 1..Depth' : stack'[i].kind = "for" =>
            stack'[i].c \in Boundary' /\ stack'[i].c >= func_begin_ind,
         DOMAIN backs' \subseteq DOMAIN backs \cup AddedJumps(Text, s),
         \A p \in AddedJumps(Text, s) : IF p \in DOMAIN backs' THEN BackLands(p)'
                                        ELSE SlotLabelled(p)'
  PROVE  LayoutInv'
<1>0. TypeOK /\ Layout /\ FuncsOrdered /\ LabelsLand /\ JumpsLabelled
  BY DEF IInv, LayoutInv
<1>1. /\ Layout' /\ FuncsOrdered'
      /\ Boundary \subseteq Boundary'
      /\ Jumps' = Jumps \cup AddedJumps(Text, s)
      /\ \A p \in AddedJumps(Text, s) : p \notin DOMAIN code
  BY <1>0, LayoutGrown
<1>2. phase = "body" /\ phase' = "body" /\ func_begin_ind' = func_begin_ind /\ funcs' = funcs
  BY DEF Writes
<1>3. LabelsLand'
  <2>1. \A l \in DOMAIN bound : bound[l] \in Boundary /\ bound'[l] = bound[l]
    BY <1>0, <1>2 DEF LabelsLand, Extended
  <2>2. \A l \in DOMAIN bound' : bound'[l] \in Boundary'
    BY <1>1, <2>1
  <2> QED BY <1>2, <2>2 DEF LabelsLand
<1>4. \A p, q : SameFunction(p, q) => SameFunction(p, q)'
  BY <1>2 DEF SameFunction
<1>5. ASSUME NEW l \in DOMAIN bound' \ DOMAIN bound, NEW p \in DOMAIN code, p >= func_begin_ind
      PROVE  SameFunction(p, bound[l])'
  <2>1. PICK b : b = bound'[l]
    OBVIOUS
  <2>2. b \in Nat /\ b >= func_begin_ind' /\ p \in Nat
    BY <1>0, <1>2, <2>1 DEF TypeOK, Layout
  <2>3. SameFunction(p, b)'
    BY <1>1, <1>2, <1>5, <2>2, SameLate
  <2> QED BY <2>1, <2>3 DEF SameFunction
<1>6. /\ \A p \in Jumps \ DOMAIN backs : SlotLabelled(p)'
      /\ \A p \in DOMAIN backs : BackLands(p)'
  BY <1>0, <1>2, <1>4, <1>5, OldLabelled
<1>7. JumpsLabelled'
  <2>1. DOMAIN backs \subseteq Jumps /\ DOMAIN backs \subseteq DOMAIN backs'
    BY <1>0 DEF JumpsLabelled, Extended
  <2>2. DOMAIN backs' \subseteq Jumps'
    BY <1>1, <2>1
  <2>3. \A p \in Jumps' \ DOMAIN backs' : SlotLabelled(p)'
    BY <1>1, <1>6, <2>1
  <2>4. \A p \in DOMAIN backs' : BackLands(p)'
    BY <1>6
  <2> QED BY <2>2, <2>3, <2>4 DEF JumpsLabelled
<1> QED BY <1>1, <1>3, <1>7 DEF LayoutInv

\* A step inside a function that writes no code keeps the layout if its new
\* labels and frames fit in.
LEMMA LayoutKept ==
  ASSUME IInv, TypeOK', LayoutInv, phase # "outside", phase' # "outside",
         UNCHANGED <<ind, code, func_begin_ind, funcs, backs>>, Extended,
         \A l \in DOMAIN bound' \ DOMAIN bound :
            bound'[l] \in Boundary /\ bound'[l] >= func_begin_ind,
         \A i \in 1..Depth' : stack'[i].kind = "for" =>
            stack'[i].c \in Boundary /\ stack'[i].c >= func_begin_ind
  PROVE  LayoutInv'
<1>0. TypeOK /\ Layout /\ FuncsOrdered /\ LabelsLand /\ JumpsLabelled
  BY DEF IInv, LayoutInv
<1>1. Layout' /\ FuncsOrdered'
  BY <1>0 DEF Layout, FuncsOrdered, Boundary, Gap
<1>2. Boundary' = Boundary /\ Jumps' = Jumps
  BY DEF Boundary, Jumps
<1>3. LabelsLand'
  <2>1. \A l \in DOMAIN bound : bound[l] \in Boundary /\ bound'[l] = bound[l]
    BY <1>0 DEF LabelsLand, Extended
  <2>2. \A l \in DOMAIN bound' : bound'[l] \in Boundary'
    BY <1>2, <2>1
  <2> QED BY <1>2, <2>2 DEF LabelsLand
<1>4. \A p, q : SameFunction(p, q) => SameFunction(p, q)'
  BY DEF SameFunction
<1>5. ASSUME NEW l \in DOMAIN bound' \ DOMAIN bound, NEW p \in DOMAIN code, p >= func_begin_ind
      PROVE  SameFunction(p, bound[l])'
  <2>1. PICK b : b = bound'[l]
    OBVIOUS
  <2>2. b \in Nat /\ b >= func_begin_ind' /\ p \in Nat
    BY <1>0, <2>1 DEF TypeOK, Layout
  <2>3. SameFunction(p, b)'
    BY <1>1, <1>5, <2>2, SameLate
  <2> QED BY <2>1, <2>3 DEF SameFunction
<1>6. /\ \A p \in Jumps \ DOMAIN backs : SlotLabelled(p)'
      /\ \A p \in DOMAIN backs : BackLands(p)'
  BY <1>0, <1>4, <1>5, OldLabelled
<1>7. JumpsLabelled'
  BY <1>0, <1>2, <1>6 DEF JumpsLabelled
<1> QED BY <1>1, <1>3, <1>7 DEF LayoutInv

-----------------------------------------------------------------------------
(* The layout, one lemma per action.                                       *)

\* What is true of for frames stays so when the frames stay.
LEMMA FramesLand ==
  ASSUME LabelsLand, Boundary \subseteq Boundary', NEW n, n <= Depth, n \in Nat, Depth \in Nat,
         \A i \in 1..n : stack'[i].kind = stack[i].kind /\ stack'[i].c = stack[i].c
  PROVE  \A i \in 1..n : stack'[i].kind = "for" =>
            stack'[i].c \in Boundary' /\ stack'[i].c >= func_begin_ind
<1>1. \A i \in 1..n : i \in 1..Depth
  OBVIOUS
<1> QED BY <1>1 DEF LabelsLand

\* The compiler begins with an empty section.
LEMMA InitLayout == Init => LayoutInv
<1> SUFFICES ASSUME Init PROVE LayoutInv
  OBVIOUS
<1>1. Depth = 0 /\ Len(funcs) = 0
  BY DEF Init, Depth
<1> QED BY <1>1 DEF Init, LayoutInv, Layout, FuncsOrdered, LabelsLand, JumpsLabelled, Jumps

\* A step that writes s and adds at most slots in it extends what was there.
LEMMA WriteExtends ==
  ASSUME IInv, LayoutInv, NEW s, Writes(s), Longer(Text, s),
         DOMAIN want \subseteq DOMAIN want', \A x \in DOMAIN want : want'[x] = want[x],
         \A x \in DOMAIN want' \ DOMAIN want : x >= ind,
         DOMAIN bound \subseteq DOMAIN bound', \A l \in DOMAIN bound : bound'[l] = bound[l],
         DOMAIN backs \subseteq DOMAIN backs', \A p \in DOMAIN backs : backs'[p] = backs[p]
  PROVE  Extended
<1>1. /\ DOMAIN code \subseteq DOMAIN code' /\ \A p \in DOMAIN code : code'[p] = code[p]
  BY LayoutGrown DEF IInv, LayoutInv
<1>2. DOMAIN text \subseteq DOMAIN text' /\ \A x \in DOMAIN text : text'[x] = text[x]
  BY WriteGrown DEF Writes, Grown
<1>3. \A x \in DOMAIN text : ~ (x >= ind)
  BY DEF IInv, TypeOK, CellsBelow
<1> QED BY <1>1, <1>2, <1>3 DEF Extended

\* Straight-line code
LEMMA ExprStmtLayout == IInv /\ IInv' /\ LayoutInv /\ ExprStmt => LayoutInv'
<1> SUFFICES ASSUME IInv, IInv', LayoutInv, ExprStmt PROVE LayoutInv'
  OBVIOUS
<1>0. TypeOK /\ CellsBelow /\ TypeOK' /\ Layout /\ FuncsOrdered /\ LabelsLand
  BY DEF IInv, LayoutInv
<1>1. PICK n \in ExprSizes : Write(GenExpr(Text, n))
  BY DEF ExprStmt
<1>2. PICK s : s = GenExpr(Text, n)
  OBVIOUS
<1>3. /\ phase = "body"
      /\ UNCHANGED <<phase, stack, func_begin_ind, funcs, want, bound, backs>>
  BY DEF ExprStmt, Read, Parsing
<1>4. Appends(Text, s) /\ AddedJumps(Text, s) = {} /\ Longer(Text, s)
  BY <1>0, <1>2, BelowNow, SectionNow, GenExprAppends, GenExprLonger, JumpGenAssumption
<1>5. Writes(s)
  BY <1>1, <1>2, <1>3, <1>4 DEF Writes
<1>6. Extended
  BY <1>3, <1>4, <1>5, WriteExtends
<1>7. Boundary \subseteq Boundary'
  BY <1>0, <1>5, LayoutGrown
<1>8. Depth' = Depth /\ Depth \in Nat
  BY <1>0, <1>3, StackFacts DEF Depth
<1>9. \A i \in 1..Depth' : stack'[i].kind = "for" =>
            stack'[i].c \in Boundary' /\ stack'[i].c >= func_begin_ind
  BY <1>0, <1>3, <1>7, <1>8, FramesLand
<1> QED BY <1>0, <1>3, <1>4, <1>5, <1>6, <1>9, LayoutStep

\* The one slot of a step that writes s and adds a jump is labelled.
LEMMA SlotLands ==
  ASSUME IInv, IInv', LayoutInv, NEW s, Writes(s), AddsJump(Text, s),
         NEW t, t = LastSlot(s), t \in DOMAIN want',
         want'[t] \in DOMAIN bound' => bound'[want'[t]] >= func_begin_ind,
         backs' = backs
  PROVE  \A p \in AddedJumps(Text, s) : IF p \in DOMAIN backs' THEN BackLands(p)'
                                        ELSE SlotLabelled(p)'
<1>0. TypeOK /\ TypeOK' /\ Layout /\ FuncsOrdered /\ JumpsLabelled
  BY DEF IInv, LayoutInv
<1>1. PICK p : /\ AddedJumps(Text, s) = {p} /\ p >= Text.ind /\ s.code[p].len > 4
               /\ p + s.code[p].len - 4 = LastSlot(s)
  BY DEF AddsJump
<1>2. /\ FuncsOrdered' /\ func_begin_ind <= ind
      /\ p \in Nat /\ p >= ind /\ p \notin DOMAIN code /\ code'[p].len \in Nat
  BY <1>0, <1>1, LayoutGrown
<1>3. phase' # "outside" /\ func_begin_ind' = func_begin_ind /\ code' = s.code
  BY DEF Writes, Write
<1>4. p >= func_begin_ind'
  BY <1>0, <1>2, <1>3 DEF TypeOK
<1>5. SlotLabelled(p)'
  BY <1>0, <1>1, <1>2, <1>3, <1>4, NewLabelled
<1>6. p \notin DOMAIN backs'
  BY <1>0, <1>2 DEF JumpsLabelled, Jumps
<1> QED BY <1>1, <1>5, <1>6

\* A step that adds one jump, for a label that stands for nothing yet or for
\* an address in the function, keeps the layout.
LEMMA SlotStep ==
  ASSUME IInv, IInv', LayoutInv, NEW s, Writes(s), AddsJump(Text, s), NEW h, AddsSlot(Text, s, h),
         NEW t, t = LastSlot(s), NEW l, Slot(t, l), backs' = backs,
         l \in DOMAIN bound' => bound'[l] >= func_begin_ind,
         DOMAIN bound \subseteq DOMAIN bound', \A m \in DOMAIN bound : bound'[m] = bound[m],
         \A m \in DOMAIN bound' \ DOMAIN bound :
            bound'[m] \in Boundary' /\ bound'[m] >= func_begin_ind,
         \A i \in 1..Depth' : stack'[i].kind = "for" =>
            stack'[i].c \in Boundary' /\ stack'[i].c >= func_begin_ind
  PROVE  LayoutInv'
<1>0. TypeOK /\ TypeOK' /\ CellsBelow
  BY DEF IInv
<1>1. t >= ind /\ Longer(Text, s)
  BY DEF AddsSlot, Text
<1>2. t \notin DOMAIN want
  <2>1. \A x \in DOMAIN text : ~ (x >= ind)
    BY <1>0 DEF TypeOK, CellsBelow
  <2>2. DOMAIN want \subseteq DOMAIN text
    BY <1>0 DEF TypeOK
  <2> QED BY <1>1, <2>1, <2>2
<1>3. /\ DOMAIN want' = DOMAIN want \cup {t} /\ want'[t] = l
      /\ \A x \in DOMAIN want : want'[x] = want[x]
  BY <1>2 DEF Slot, Put
<1>4. Extended
  BY <1>1, <1>3, WriteExtends
<1>5. \A p \in AddedJumps(Text, s) : IF p \in DOMAIN backs' THEN BackLands(p)'
                                     ELSE SlotLabelled(p)'
  BY <1>3, SlotLands
<1> QED BY <1>0, <1>4, <1>5, LayoutStep

\* return: a jump to the end of the function
LEMMA ReturnLayout == IInv /\ IInv' /\ LayoutInv /\ Return => LayoutInv'
<1> SUFFICES ASSUME IInv, IInv', LayoutInv, Return PROVE LayoutInv'
  OBVIOUS
<1>0. TypeOK /\ CellsBelow /\ TypeOK' /\ Layout /\ FuncsOrdered /\ LabelsLand
  BY DEF IInv, LayoutInv
<1>1. PICK n \in ExprSizes :
        LET s == GenJmpForward(GenExpr(Text, n), rsym)
        IN /\ Write(s)
           /\ rsym' = LastSlot(s)
           /\ Slot(LastSlot(s), ReturnLabel)
  BY DEF Return
<1>2. PICK q, s, t, l : /\ q = GenExpr(Text, n) /\ s = GenJmpForward(q, rsym)
                        /\ t = LastSlot(s) /\ l = ReturnLabel
  OBVIOUS
<1>3. /\ phase = "body"
      /\ UNCHANGED <<phase, stack, func_begin_ind, funcs, bound, backs>>
      /\ Write(s) /\ Slot(t, l)
  BY <1>1, <1>2 DEF Return, Read, Parsing
<1>4. Appends(Text, q) /\ AddedJumps(Text, q) = {} /\ Longer(Text, q) /\ q.text = Text.text
  BY <1>0, <1>2, BelowNow, SectionNow, GenExprAppends, GenExprLonger, JumpGenAssumption
<1>5. AddsJump(Text, s)
  <2>1. AddsJump(q, s)
    BY <1>2, <1>4, GenJmpForwardAppends DEF Appends
  <2> QED BY <1>0, <1>4, <2>1, BelowNow, AppendsAddsJump
<1>6. AddsSlot(Text, s, rsym)
  <2>1. AddsSlot(q, s, rsym)
    BY <1>0, <1>2, <1>4, GenJmpForwardLonger DEF Longer, TypeOK
  <2> QED BY <1>0, <1>4, <2>1, SectionNow, LongerAddsSlot
<1>7. Writes(s)
  BY <1>3, <1>5 DEF Writes, AddsJump
<1>8. l \notin DOMAIN bound
  BY <1>2, <1>3 DEF IInv, LabelsApart
<1>9. \A i \in 1..Depth' : stack'[i].kind = "for" =>
            stack'[i].c \in Boundary' /\ stack'[i].c >= func_begin_ind
  <2>1. Boundary \subseteq Boundary'
    BY <1>0, <1>7, LayoutGrown
  <2>2. Depth' = Depth /\ Depth \in Nat
    BY <1>0, <1>3, StackFacts DEF Depth
  <2> QED BY <1>0, <1>3, <2>1, <2>2, FramesLand
<1> QED BY <1>2, <1>3, <1>5, <1>6, <1>7, <1>8, <1>9, SlotStep

\* break: a jump to the end of the innermost for
LEMMA BreakLayout == IInv /\ IInv' /\ LayoutInv /\ Break => LayoutInv'
<1> SUFFICES ASSUME IInv, IInv', LayoutInv, Break PROVE LayoutInv'
  OBVIOUS
<1>0. TypeOK /\ CellsBelow /\ TypeOK' /\ Layout /\ FuncsOrdered /\ LabelsLand
  BY DEF IInv, LayoutInv
<1>1. PICK k, l, h, s, t : /\ k = Loop /\ l = stack[k].l /\ h = stack[k].a
                           /\ s = GenJmpForward(Text, h) /\ t = LastSlot(s)
  OBVIOUS
<1>2. /\ phase = "body" /\ k # 0
      /\ UNCHANGED <<phase, func_begin_ind, funcs, bound, backs>>
      /\ Write(s) /\ Slot(t, l) /\ stack' = [stack EXCEPT ![k].a = t]
  BY <1>1 DEF Break, Read, Parsing
<1>3. k \in 1..Depth /\ Depth \in Nat /\ h \in Nat /\ stack \in Seq(Frame)
  <2>1. Depth \in Nat /\ \A i \in 1..Depth : stack[i].a \in Nat /\ stack[i].b \in Nat
    BY <1>0, StackFacts
  <2>2. Loop \in 0..Depth
    BY <1>0, LoopFacts DEF IInv
  <2>3. stack \in Seq(Frame)
    BY <1>0 DEF TypeOK
  <2> QED BY <1>1, <1>2, <2>1, <2>2, <2>3
<1>4. AddsJump(Text, s) /\ AddsSlot(Text, s, h)
  BY <1>0, <1>1, <1>3, BelowNow, SectionNow, GenJmpForwardAppends, GenJmpForwardLonger
<1>5. Writes(s)
  BY <1>2, <1>4 DEF Writes, AddsJump
<1>6. l \notin DOMAIN bound
  BY <1>1, <1>3 DEF IInv, LabelsApart
<1>7. /\ Depth' = Depth
      /\ \A i \in 1..Depth : stack'[i].kind = stack[i].kind /\ stack'[i].c = stack[i].c
  <2>1. stack' = [stack EXCEPT ![k] = [stack[k] EXCEPT !.a = t]]
    BY <1>2
  <2>2. Len(stack') = Len(stack)
    BY <1>3, <2>1
  <2>3. \A i \in 1..Depth : stack[i] \in Frame
    BY <1>0, StackFacts
  <2>4. \A i \in 1..Depth : i \in DOMAIN stack
    BY <1>3 DEF Depth
  <2>5. \A i \in 1..Depth :
          stack'[i] = IF i = k THEN [stack[k] EXCEPT !.a = t] ELSE stack[i]
    BY <1>3, <2>1, <2>4
  <2> QED BY <1>3, <2>2, <2>3, <2>5 DEF Depth, Frame
<1>8. \A i \in 1..Depth' : stack'[i].kind = "for" =>
            stack'[i].c \in Boundary' /\ stack'[i].c >= func_begin_ind
  <2>1. Boundary \subseteq Boundary'
    BY <1>0, <1>5, LayoutGrown
  <2> QED BY <1>0, <1>3, <1>7, <2>1, FramesLand
<1> QED BY <1>1, <1>2, <1>4, <1>5, <1>6, <1>8, SlotStep

\* continue: a jump to the step of the innermost for
LEMMA ContinueLayout == IInv /\ IInv' /\ LayoutInv /\ Continue => LayoutInv'
<1> SUFFICES ASSUME IInv, IInv', LayoutInv, Continue PROVE LayoutInv'
  OBVIOUS
<1>0. TypeOK /\ CellsBelow /\ TypeOK' /\ Layout /\ FuncsOrdered /\ LabelsLand
  BY DEF IInv, LayoutInv
<1>1. PICK k, l, h, s, t : /\ k = Loop /\ l = stack[k].l + 1 /\ h = stack[k].b
                           /\ s = GenJmpForward(Text, h) /\ t = LastSlot(s)
  OBVIOUS
<1>2. /\ phase = "body" /\ k # 0
      /\ UNCHANGED <<phase, func_begin_ind, funcs, bound, backs>>
      /\ Write(s) /\ Slot(t, l) /\ stack' = [stack EXCEPT ![k].b = t]
  BY <1>1 DEF Continue, Read, Parsing
<1>3. k \in 1..Depth /\ Depth \in Nat /\ h \in Nat /\ stack \in Seq(Frame)
  <2>1. Depth \in Nat /\ \A i \in 1..Depth : stack[i].a \in Nat /\ stack[i].b \in Nat
    BY <1>0, StackFacts
  <2>2. Loop \in 0..Depth
    BY <1>0, LoopFacts DEF IInv
  <2>3. stack \in Seq(Frame)
    BY <1>0 DEF TypeOK
  <2> QED BY <1>1, <1>2, <2>1, <2>2, <2>3
<1>4. AddsJump(Text, s) /\ AddsSlot(Text, s, h)
  BY <1>0, <1>1, <1>3, BelowNow, SectionNow, GenJmpForwardAppends, GenJmpForwardLonger
<1>5. Writes(s)
  BY <1>2, <1>4 DEF Writes, AddsJump
<1>6. l \notin DOMAIN bound
  BY <1>1, <1>3 DEF IInv, LabelsApart
<1>7. /\ Depth' = Depth
      /\ \A i \in 1..Depth : stack'[i].kind = stack[i].kind /\ stack'[i].c = stack[i].c
  <2>1. stack' = [stack EXCEPT ![k] = [stack[k] EXCEPT !.b = t]]
    BY <1>2
  <2>2. Len(stack') = Len(stack)
    BY <1>3, <2>1
  <2>3. \A i \in 1..Depth : stack[i] \in Frame
    BY <1>0, StackFacts
  <2>4. \A i \in 1..Depth : i \in DOMAIN stack
    BY <1>3 DEF Depth
  <2>5. \A i \in 1..Depth :
          stack'[i] = IF i = k THEN [stack[k] EXCEPT !.b = t] ELSE stack[i]
    BY <1>3, <2>1, <2>4
  <2> QED BY <1>3, <2>2, <2>3, <2>5 DEF Depth, Frame
<1>8. \A i \in 1..Depth' : stack'[i].kind = "for" =>
            stack'[i].c \in Boundary' /\ stack'[i].c >= func_begin_ind
  <2>1. Boundary \subseteq Boundary'
    BY <1>0, <1>5, LayoutGrown
  <2> QED BY <1>0, <1>3, <1>7, <2>1, FramesLand
<1> QED BY <1>1, <1>2, <1>4, <1>5, <1>6, <1>8, SlotStep

\* if: a jump for the label of its end
LEMMA IfHeadLayout == IInv /\ IInv' /\ LayoutInv /\ IfHead => LayoutInv'
<1> SUFFICES ASSUME IInv, IInv', LayoutInv, IfHead PROVE LayoutInv'
  OBVIOUS
<1>0. TypeOK /\ CellsBelow /\ TypeOK' /\ Layout /\ FuncsOrdered /\ LabelsLand
  BY DEF IInv, LayoutInv
<1>1. PICK n \in ExprSizes, form \in Conds :
        LET s == GenJcc(GenExpr(Text, n), form, 0)
        IN /\ Write(s)
           /\ stack' = Append(stack,
                [kind |-> "if", loop |-> Loop, a |-> LastSlot(s), b |-> 0,
                 c |-> 0, d |-> 0, l |-> labels])
           /\ Slot(LastSlot(s), labels)
  BY DEF IfHead
<1>2. PICK q, s, t, l, f : /\ q = GenExpr(Text, n) /\ s = GenJcc(q, form, 0)
                           /\ t = LastSlot(s) /\ l = labels
                           /\ f = [kind |-> "if", loop |-> Loop, a |-> t, b |-> 0,
                                   c |-> 0, d |-> 0, l |-> l]
  OBVIOUS
<1>3. /\ phase = "body"
      /\ UNCHANGED <<phase, func_begin_ind, funcs, bound, backs>>
      /\ Write(s) /\ Slot(t, l) /\ stack' = Append(stack, f) /\ f.kind = "if"
  BY <1>1, <1>2 DEF IfHead, Read, Parsing
<1>4. Appends(Text, q) /\ AddedJumps(Text, q) = {} /\ Longer(Text, q) /\ q.text = Text.text
  BY <1>0, <1>2, BelowNow, SectionNow, GenExprAppends, GenExprLonger, JumpGenAssumption
<1>5. AddsJump(Text, s)
  <2>1. AddsJump(q, s)
    BY <1>2, <1>4, GenJccAppends DEF Appends
  <2> QED BY <1>0, <1>4, <2>1, BelowNow, AppendsAddsJump
<1>6. AddsSlot(Text, s, 0)
  <2>1. AddsSlot(q, s, 0)
    BY <1>0, <1>2, <1>4, GenJccLonger DEF Longer
  <2> QED BY <1>0, <1>4, <2>1, SectionNow, LongerAddsSlot
<1>7. Writes(s)
  BY <1>3, <1>5 DEF Writes, AddsJump
<1>8. l \notin DOMAIN bound
  BY <1>0, <1>2 DEF IInv, LabelsApart, TypeOK
<1>9. \A i \in 1..Depth' : stack'[i].kind = "for" =>
            stack'[i].c \in Boundary' /\ stack'[i].c >= func_begin_ind
  <2>1. Boundary \subseteq Boundary'
    BY <1>0, <1>7, LayoutGrown
  <2>2. /\ Depth' = Depth + 1 /\ Depth \in Nat /\ stack'[Depth + 1] = f
        /\ \A i \in 1..Depth : stack'[i] = stack[i]
    BY <1>0, <1>3 DEF TypeOK, Depth
  <2>3. \A i \in 1..Depth : stack'[i].kind = "for" =>
            stack'[i].c \in Boundary' /\ stack'[i].c >= func_begin_ind
    BY <1>0, <2>1, <2>2, FramesLand
  <2>4. \A i \in 1..Depth' : i \in 1..Depth \/ i = Depth + 1
    BY <2>2
  <2> QED BY <1>3, <2>2, <2>3, <2>4
<1> QED BY <1>2, <1>3, <1>5, <1>6, <1>7, <1>8, <1>9, SlotStep

\* The address the code has reached is one of the function.
LEMMA HereLands ==
  ASSUME TypeOK, Layout, phase # "outside"
  PROVE  ind \in Boundary /\ func_begin_ind <= ind
<1>1. func_begin_ind + 9 \in Boundary
  BY DEF Layout, FUNC_PROLOG_SIZE
<1>2. \A p \in DOMAIN code : p \in Nat /\ code[p].len \in Nat /\ p + code[p].len <= ind
  BY DEF Layout
<1>3. func_begin_ind \in Nat /\ ind \in Nat
  BY DEF TypeOK
<1>4. func_begin_ind <= ind
  BY <1>1, <1>2, <1>3 DEF Boundary
<1> QED BY <1>4 DEF Boundary

\* else: the label of the if ends where its jump over the else ends.
LEMMA ElseLayout == IInv /\ IInv' /\ LayoutInv /\ Else => LayoutInv'
<1> SUFFICES ASSUME IInv, IInv', LayoutInv, Else PROVE LayoutInv'
  OBVIOUS
<1>0. TypeOK /\ CellsBelow /\ TypeOK' /\ Layout /\ FuncsOrdered /\ LabelsLand
  BY DEF IInv, LayoutInv
<1>1. PICK k, q, l, s, t : /\ k = Depth /\ q = stack[k].l /\ l = labels
                           /\ s = GenJmpForward(Text, 0) /\ t = LastSlot(s)
  OBVIOUS
<1>2. /\ phase = "body" /\ k > 0 /\ stack[k].kind = "if"
      /\ UNCHANGED <<phase, func_begin_ind, funcs, backs>>
      /\ Write(s) /\ Slot(t, l) /\ bound' = Put(bound, q, s.ind)
      /\ stack' = [stack EXCEPT ![k] = [@ EXCEPT !.kind = "else", !.b = t, !.l = l]]
  BY <1>1 DEF Else, Parsing, Top
<1>3. k \in 1..Depth /\ Depth \in Nat /\ stack \in Seq(Frame) /\ l \in Nat /\ q \in Nat
  <2>1. Depth \in Nat /\ \A i \in 1..Depth : stack[i].l \in Nat
    BY <1>0, StackFacts
  <2>2. stack \in Seq(Frame) /\ labels \in Nat
    BY <1>0 DEF TypeOK
  <2> QED BY <1>1, <1>2, <2>1, <2>2
<1>4. AddsJump(Text, s) /\ AddsSlot(Text, s, 0)
  BY <1>0, <1>1, BelowNow, SectionNow, GenJmpForwardAppends, GenJmpForwardLonger
<1>5. Writes(s)
  BY <1>2, <1>4 DEF Writes, AddsJump
<1>6. q # l /\ l \notin DOMAIN bound /\ q \notin DOMAIN bound
  <2>1. q + 1 < labels /\ q \notin DOMAIN bound /\ \A m \in DOMAIN bound : m < labels
    BY <1>1, <1>3 DEF IInv, LabelsApart
  <2> QED BY <1>1, <1>3, <2>1
<1>7. /\ DOMAIN bound' = DOMAIN bound \cup {q} /\ bound'[q] = s.ind
      /\ \A m \in DOMAIN bound : bound'[m] = bound[m]
  BY <1>2, <1>6 DEF Put
<1>8. Boundary \subseteq Boundary' /\ s.ind \in Boundary' /\ func_begin_ind <= s.ind
  <2>1. Boundary \subseteq Boundary' /\ func_begin_ind <= ind /\ ind <= ind' /\ ind' \in Nat
    BY <1>0, <1>5, LayoutGrown
  <2>2. ind' = s.ind /\ func_begin_ind \in Nat /\ ind \in Nat
    BY <1>0, <1>2 DEF Write, TypeOK
  <2> QED BY <2>1, <2>2 DEF Boundary
<1>9. /\ Depth' = Depth
      /\ \A i \in 1..Depth : stack'[i].kind = "for" =>
            stack[i].kind = "for" /\ stack'[i].c = stack[i].c
  <2>1. stack' = [stack EXCEPT ![k] = [stack[k] EXCEPT !.kind = "else", !.b = t, !.l = l]]
    BY <1>2
  <2>2. Len(stack') = Len(stack)
    BY <1>3, <2>1
  <2>3. \A i \in 1..Depth : stack[i] \in Frame
    BY <1>0, StackFacts
  <2>4. \A i \in 1..Depth : i \in DOMAIN stack
    BY <1>3 DEF Depth
  <2>5. \A i \in 1..Depth :
          stack'[i] = IF i = k THEN [stack[k] EXCEPT !.kind = "else", !.b = t, !.l = l]
                      ELSE stack[i]
    BY <1>3, <2>1, <2>4
  <2>6. stack'[k].kind = "else"
    BY <1>3, <2>3, <2>5 DEF Frame
  <2> QED BY <1>3, <2>2, <2>5, <2>6 DEF Depth
<1>10. \A i \in 1..Depth' : stack'[i].kind = "for" =>
            stack'[i].c \in Boundary' /\ stack'[i].c >= func_begin_ind
  BY <1>0, <1>8, <1>9 DEF LabelsLand
<1>11. /\ l \notin DOMAIN bound'
       /\ \A m \in DOMAIN bound' \ DOMAIN bound :
            bound'[m] \in Boundary' /\ bound'[m] >= func_begin_ind
  BY <1>6, <1>7, <1>8
<1> QED BY <1>1, <1>2, <1>4, <1>5, <1>7, <1>10, <1>11, SlotStep

\* The frames under the top land as before.
LEMMA PoppedLand ==
  ASSUME TypeOK, LabelsLand, Depth > 0, stack' = Pop, Boundary \subseteq Boundary'
  PROVE  \A i \in 1..Depth' : stack'[i].kind = "for" =>
            stack'[i].c \in Boundary' /\ stack'[i].c >= func_begin_ind
<1>1. /\ Depth' = Depth - 1
      /\ \A i \in 1..(Depth - 1) : i \in 1..Depth /\ stack'[i] = stack[i]
  BY FramePopped
<1> QED BY <1>1 DEF LabelsLand

\* The end of an if: its label stands for the address reached.
LEMMA EndIfLayout == IInv /\ IInv' /\ LayoutInv /\ EndIf => LayoutInv'
<1> SUFFICES ASSUME IInv, IInv', LayoutInv, EndIf PROVE LayoutInv'
  OBVIOUS
<1>0. TypeOK /\ TypeOK' /\ Layout /\ LabelsLand
  BY DEF IInv, LayoutInv
<1>1. PICK q : q = stack[Depth].l
  OBVIOUS
<1>2. /\ phase = "body" /\ Depth > 0 /\ stack' = Pop /\ bound' = Put(bound, q, ind)
      /\ UNCHANGED <<phase, ind, code, text, func_begin_ind, funcs, want, backs>>
  BY <1>1 DEF EndIf, Parsing, Top
<1>3. q \notin DOMAIN bound
  BY <1>0, <1>1, <1>2, StackFacts DEF IInv, LabelsApart
<1>4. Extended
  BY <1>2, <1>3 DEF Extended, Put
<1>5. \A l \in DOMAIN bound' \ DOMAIN bound : bound'[l] \in Boundary /\ bound'[l] >= func_begin_ind
  BY <1>0, <1>2, HereLands DEF Put, TypeOK
<1>6. Boundary' = Boundary
  BY <1>2 DEF Boundary
<1>7. \A i \in 1..Depth' : stack'[i].kind = "for" =>
            stack'[i].c \in Boundary /\ stack'[i].c >= func_begin_ind
  BY <1>0, <1>2, <1>6, PoppedLand
<1> QED BY <1>0, <1>2, <1>4, <1>5, <1>7, LayoutKept

\* The end of a body: the label of the returns stands for the address reached.
LEMMA CloseBodyLayout == IInv /\ IInv' /\ LayoutInv /\ CloseBody => LayoutInv'
<1> SUFFICES ASSUME IInv, IInv', LayoutInv, CloseBody PROVE LayoutInv'
  OBVIOUS
<1>0. TypeOK /\ TypeOK' /\ Layout
  BY DEF IInv, LayoutInv
<1>1. PICK q : q = ReturnLabel
  OBVIOUS
<1>2. /\ phase = "body" /\ phase' = "epilog" /\ Depth = 0 /\ bound' = Put(bound, q, ind)
      /\ UNCHANGED <<ind, code, text, stack, func_begin_ind, funcs, want, backs>>
  BY <1>1 DEF CloseBody, Parsing
<1>3. q \notin DOMAIN bound
  BY <1>1, <1>2 DEF IInv, LabelsApart
<1>4. Extended
  BY <1>2, <1>3 DEF Extended, Put
<1>5. \A l \in DOMAIN bound' \ DOMAIN bound : bound'[l] \in Boundary /\ bound'[l] >= func_begin_ind
  BY <1>0, <1>2, HereLands DEF Put, TypeOK
<1>6. Depth' = 0
  BY <1>2 DEF Depth
<1> QED BY <1>0, <1>2, <1>4, <1>5, <1>6, LayoutKept

\* The frames of a step that leaves them and the code land as before.
LEMMA SameFramesLand ==
  ASSUME LabelsLand, UNCHANGED stack
  PROVE  \A i \in 1..Depth' : stack'[i].kind = "for" =>
            stack'[i].c \in Boundary /\ stack'[i].c >= func_begin_ind
BY DEF LabelsLand, Depth

\* A crash leaves the code.
LEMMA StrayJumpLayout == IInv /\ IInv' /\ LayoutInv /\ StrayJump => LayoutInv'
<1> SUFFICES ASSUME IInv, IInv', LayoutInv, StrayJump PROVE LayoutInv'
  OBVIOUS
<1>0. TypeOK' /\ LabelsLand
  BY DEF IInv, LayoutInv
<1>1. /\ phase = "body" /\ phase' = "crashed"
      /\ UNCHANGED <<ind, code, text, stack, func_begin_ind, funcs, want, bound, backs>>
  BY DEF StrayJump, Read, Parsing
<1>2. Extended
  BY <1>1 DEF Extended
<1>3. \A i \in 1..Depth' : stack'[i].kind = "for" =>
            stack'[i].c \in Boundary /\ stack'[i].c >= func_begin_ind
  BY <1>0, <1>1, SameFramesLand
<1> QED BY <1>0, <1>1, <1>2, <1>3, LayoutKept

\* backpatch runs inside a function.
LEMMA PatchingInside == IInv /\ patching # <<>> => phase # "outside"
BY DEF IInv, PhaseShape

\* An iteration of backpatch writes a slot.
LEMMA BackpatchLayout == IInv /\ IInv' /\ LayoutInv /\ Backpatch => LayoutInv'
<1> SUFFICES ASSUME IInv, IInv', LayoutInv, Backpatch PROVE LayoutInv'
  OBVIOUS
<1>0. TypeOK /\ TypeOK' /\ LabelsLand
  BY DEF IInv, LayoutInv
<1>1. PICK t, d : t = Head(patching).t /\ d = Displacement(t, Head(patching).a)
  OBVIOUS
<1>2. /\ t # 0 /\ text' = [text EXCEPT ![t] = d] /\ patching # <<>>
      /\ UNCHANGED <<phase, ind, code, stack, func_begin_ind, funcs, want, bound, backs>>
  BY <1>1 DEF Backpatch
<1>3. t \in DOMAIN want
  <2>1. Len(patching) \in Nat /\ 1 \in 1..Len(patching) /\ Head(patching) = patching[1]
    BY <1>0, <1>2, StackFacts, EmptySeq DEF TypeOK
  <2>2. Threaded(t, Waiting(patching[1].l))
    BY <1>1, <2>1 DEF IInv, ListsThreaded
  <2>3. t \in open
    BY <1>2, <2>2 DEF Threaded, ThreadedIn, Waiting
  <2> QED BY <1>0, <2>3 DEF TypeOK
<1>4. Extended
  BY <1>2, <1>3 DEF Extended
<1>5. \A i \in 1..Depth' : stack'[i].kind = "for" =>
            stack'[i].c \in Boundary /\ stack'[i].c >= func_begin_ind
  BY <1>0, <1>2, SameFramesLand
<1> QED BY <1>0, <1>2, <1>4, <1>5, PatchingInside, LayoutKept

\* The end of backpatch writes nothing.
LEMMA BackpatchReturnsLayout == IInv /\ IInv' /\ LayoutInv /\ BackpatchReturns => LayoutInv'
<1> SUFFICES ASSUME IInv, IInv', LayoutInv, BackpatchReturns PROVE LayoutInv'
  OBVIOUS
<1>0. TypeOK' /\ LabelsLand
  BY DEF IInv, LayoutInv
<1>1. /\ patching # <<>>
      /\ UNCHANGED <<phase, ind, code, text, stack, func_begin_ind, funcs, want, bound, backs>>
  BY DEF BackpatchReturns, history
<1>2. Extended
  BY <1>1 DEF Extended
<1>3. \A i \in 1..Depth' : stack'[i].kind = "for" =>
            stack'[i].c \in Boundary /\ stack'[i].c >= func_begin_ind
  BY <1>0, <1>1, SameFramesLand
<1> QED BY <1>0, <1>1, <1>2, <1>3, PatchingInside, LayoutKept

\* A new backward jump to an instruction of the function lands there.
LEMMA NewBackLands ==
  ASSUME TypeOK', FuncsOrdered', phase' # "outside",
         NEW p \in Nat, NEW d \in Nat, p >= func_begin_ind', d >= func_begin_ind',
         code'[p].len \in {2, 5}, p + 1 \in DOMAIN text' \ DOMAIN want',
         p + code'[p].len + text'[p + 1] = d, backs'[p].dest = d, d \in DOMAIN code'
  PROVE  BackLands(p)'
<1>1. Cell(p)' = p + 1
  BY DEF Cell
<1>2. Target(p)' = d
  BY <1>1 DEF Target
<1>3. SameFunction(p, d)'
  BY SameLate
<1> QED BY <1>1, <1>2, <1>3 DEF BackLands, SameFunction

\* The end of a for: the jump back, and the labels of its break and continue
LEMMA EndForLayout == IInv /\ IInv' /\ LayoutInv /\ EndFor => LayoutInv'
<1> SUFFICES ASSUME IInv, IInv', LayoutInv, EndFor PROVE LayoutInv'
  OBVIOUS
<1>0. TypeOK /\ CellsBelow /\ TypeOK' /\ Layout /\ FuncsOrdered /\ LabelsLand /\ JumpsLabelled
  BY DEF IInv, LayoutInv
<1>1. PICK k, q, c, s : /\ k = Depth /\ q = stack[k].l /\ c = stack[k].c
                        /\ s = GenJmpBackward(Text, c)
  OBVIOUS
<1>2. /\ phase = "body" /\ k > 0 /\ stack[k].kind = "for" /\ stack' = Pop
      /\ UNCHANGED <<phase, func_begin_ind, funcs, want>>
      /\ Write(s) /\ bound' = Put(Put(bound, q, s.ind), q + 1, c)
      /\ backs' = Put(backs, ind, [dest |-> c, meant |-> c])
  BY <1>1 DEF EndFor, Parsing, Top
<1>3. k \in 1..Depth /\ c \in Nat /\ q \in Nat
  BY <1>0, <1>1, <1>2, StackFacts
<1>4. c \in Boundary /\ c >= func_begin_ind
  BY <1>0, <1>1, <1>2, <1>3 DEF LabelsLand
<1>5. /\ Appends(Text, s) /\ AddedJumps(Text, s) = {ind} /\ s.code[ind].len \in {2, 5}
      /\ ind + 1 \in DOMAIN s.text /\ ind + s.code[ind].len + s.text[ind + 1] = c
  BY <1>0, <1>1, <1>3, BelowNow, GenJmpBackwardAppends DEF Text
<1>6. Longer(Text, s)
  BY <1>0, <1>1, <1>3, SectionNow, GenJmpBackwardLonger
<1>7. Writes(s)
  BY <1>2, <1>5 DEF Writes
<1>8. /\ FuncsOrdered' /\ Boundary \subseteq Boundary'
      /\ func_begin_ind <= ind /\ ind <= ind' /\ ind' \in Nat
      /\ DOMAIN code \subseteq DOMAIN code'
      /\ ind \in DOMAIN code' /\ ind \notin DOMAIN code
  BY <1>0, <1>5, <1>7, LayoutGrown
<1>9. /\ ind \in Nat /\ func_begin_ind \in Nat /\ ind' = s.ind /\ code' = s.code /\ text' = s.text
      /\ func_begin_ind' = func_begin_ind
  BY <1>0, <1>2 DEF Write, TypeOK
<1>10. q \notin DOMAIN bound /\ q + 1 \notin DOMAIN bound /\ q + 1 # q
  BY <1>1, <1>3 DEF IInv, LabelsApart
<1>11. /\ DOMAIN bound' = DOMAIN bound \cup {q, q + 1}
       /\ bound'[q] = s.ind /\ bound'[q + 1] = c
       /\ \A m \in DOMAIN bound : bound'[m] = bound[m]
  BY <1>2, <1>10 DEF Put
<1>12. /\ DOMAIN backs' = DOMAIN backs \cup {ind} /\ backs'[ind].dest = c
       /\ \A p \in DOMAIN backs : backs'[p] = backs[p]
  <2>1. ind \notin DOMAIN backs
    BY <1>0, <1>8 DEF JumpsLabelled, Jumps
  <2> QED BY <1>2, <2>1 DEF Put
<1>13. Extended
  BY <1>2, <1>6, <1>7, <1>11, <1>12, WriteExtends
<1>14. \A m \in DOMAIN bound' \ DOMAIN bound :
            bound'[m] \in Boundary' /\ bound'[m] >= func_begin_ind
  <2>1. s.ind \in Boundary' /\ s.ind >= func_begin_ind
    BY <1>8, <1>9 DEF Boundary
  <2> QED BY <1>4, <1>8, <1>11, <2>1
<1>15. \A i \in 1..Depth' : stack'[i].kind = "for" =>
            stack'[i].c \in Boundary' /\ stack'[i].c >= func_begin_ind
  BY <1>0, <1>1, <1>2, <1>8, PoppedLand
<1>16. PICK p : p = ind
  OBVIOUS
<1>17. BackLands(p)'
  <2>1. p + 1 \notin DOMAIN want'
    <3>1. \A x \in DOMAIN want : x \in Nat /\ x < ind
      BY <1>0 DEF TypeOK, CellsBelow
    <3> QED BY <1>2, <1>9, <1>16, <3>1
  <2>2. c \in DOMAIN code'
    BY <1>4, <1>8 DEF Boundary
  <2>3. /\ p \in Nat /\ p >= func_begin_ind' /\ c >= func_begin_ind'
        /\ code'[p].len \in {2, 5} /\ p + 1 \in DOMAIN text'
        /\ p + code'[p].len + text'[p + 1] = c /\ backs'[p].dest = c
    BY <1>4, <1>5, <1>8, <1>9, <1>12, <1>16
  <2> QED BY <1>0, <1>2, <1>3, <1>8, <2>1, <2>2, <2>3, NewBackLands
<1>18. AddedJumps(Text, s) = {p} /\ DOMAIN backs' = DOMAIN backs \cup {p}
  BY <1>5, <1>12, <1>16
<1> QED BY <1>0, <1>7, <1>13, <1>14, <1>15, <1>17, <1>18, LayoutStep

\* s is .text with the jumps of the slots a and e, and the jump back from s3
\* to s2.
ForLaid(s, s0, s2, s3, a, e, cond, inc) ==
  /\ Appends(Text, s)
  /\ s0.ind \in Nat /\ s0.ind >= ind /\ s0.ind \in DOMAIN s.code \cup {s.ind}
  /\ \A p \in AddedJumps(Text, s) :
       \/ /\ s.code[p].len > 4 /\ ~ (inc /\ p = s3.ind)
          /\ \/ cond # "none" /\ p + s.code[p].len - 4 = a
             \/ inc /\ p + s.code[p].len - 4 = e
       \/ inc /\ p = s3.ind
  /\ inc => /\ s3.ind \in AddedJumps(Text, s) /\ s.code[s3.ind].len \in {2, 5}
            /\ s3.ind \in Nat /\ s3.ind >= ind /\ s3.ind + 1 # a /\ s3.ind + 1 # e
            /\ s3.ind + 1 \in DOMAIN s.text
            /\ s3.ind + s.code[s3.ind].len + s.text[s3.ind + 1] = s2.ind
            /\ s2.ind \in DOMAIN s.code /\ s2.ind \in Nat /\ s2.ind >= ind

\* What for_statement writes before its body
LEMMA ForCode ==
  ASSUME TypeOK, Layout,
         NEW n0 \in ExprSizes, NEW n1 \in ExprSizes, NEW n2 \in ExprSizes,
         NEW cond, NEW inc \in BOOLEAN,
         NEW s0, s0 = GenExpr(Text, n0),
         NEW s1, s1 = IF cond = "none" THEN s0 ELSE GenJcc(GenExpr(s0, n1), cond, 0),
         NEW s2, s2 = GenJmpForward(s1, 0),
         NEW s3, s3 = GenExpr(s2, n2),
         NEW s4, s4 = GenJmpBackward(s3, s2.ind),
         NEW s, s = IF inc THEN s4 ELSE s1,
         NEW a, a = IF cond = "none" THEN 0 ELSE LastSlot(s1),
         NEW e, e = LastSlot(s2)
  PROVE  ForLaid(s, s0, s2, s3, a, e, cond, inc)
<1>0. Below(Text) /\ Text.ind = ind /\ ind \in Nat
  BY BelowNow DEF Text, TypeOK
<1>1. Appends(Text, s0) /\ AddedJumps(Text, s0) = {} /\ Below(s0)
  <2>1. Appends(Text, s0) /\ AddedJumps(Text, s0) = {}
    BY <1>0, GenExprAppends, JumpGenAssumption
  <2> QED BY <2>1 DEF Appends
<1>2. /\ Appends(s0, s1) /\ Below(s1)
      /\ cond = "none" => AddedJumps(s0, s1) = {} /\ a = 0
      /\ cond # "none" => AddsJump(s0, s1) /\ a = LastSlot(s1)
  <2>1. CASE cond = "none"
    <3>1. s1 = s0 /\ a = 0
      BY <2>1
    <3> QED BY <1>1, <2>1, <3>1, AppendsNothing
  <2>2. CASE cond # "none"
    <3>1. PICK q : q = GenExpr(s0, n1)
      OBVIOUS
    <3>2. s1 = GenJcc(q, cond, 0) /\ a = LastSlot(s1)
      BY <2>2, <3>1
    <3>3. Appends(s0, q) /\ AddedJumps(s0, q) = {}
      BY <1>1, <3>1, GenExprAppends, JumpGenAssumption
    <3>4. AddsJump(q, s1)
      BY <3>2, <3>3, GenJccAppends DEF Appends
    <3>5. AddsJump(s0, s1)
      BY <1>1, <3>3, <3>4, AppendsAddsJump
    <3> QED BY <2>2, <3>2, <3>5 DEF AddsJump, Appends
  <2> QED BY <2>1, <2>2
<1>3. Appends(Text, s1) /\ AddedJumps(Text, s1) = AddedJumps(s0, s1)
  BY <1>0, <1>1, <1>2, AppendsTrans
<1>4. s0.ind \in Nat /\ s1.ind \in Nat /\ ind <= s0.ind /\ s0.ind <= s1.ind
      /\ s0.ind \in DOMAIN s1.code \cup {s1.ind}
  BY <1>0, <1>1, <1>2 DEF Appends, Below
<1>5. \A p \in AddedJumps(Text, s1) :
         /\ cond # "none" /\ s1.code[p].len > 4 /\ p + s1.code[p].len - 4 = a
         /\ p \in DOMAIN s1.code
  BY <1>2, <1>3 DEF AddsJump, AddedJumps, Added
<1>6. CASE ~inc
  <2>1. s = s1
    BY <1>6
  <2> QED BY <1>3, <1>4, <1>5, <1>6, <2>1 DEF ForLaid
<1>7. CASE inc
  <2>1. s = s4
    BY <1>7
  <2>2. AddsJump(s1, s2) /\ Appends(s1, s2) /\ Below(s2)
    BY <1>2, GenJmpForwardAppends DEF AddsJump, Appends
  <2>3. Appends(s2, s3) /\ AddedJumps(s2, s3) = {} /\ Below(s3)
    <3>1. Appends(s2, s3) /\ AddedJumps(s2, s3) = {}
      BY <2>2, GenExprAppends, JumpGenAssumption
    <3> QED BY <3>1 DEF Appends
  <2>4. s2.ind \in Nat /\ s3.ind \in Nat /\ s1.ind <= s2.ind /\ s2.ind <= s3.ind
    BY <2>2, <2>3 DEF Appends, Below
  <2>5. /\ Appends(s3, s) /\ AddedJumps(s3, s) = {s3.ind} /\ s.code[s3.ind].len \in {2, 5}
        /\ DOMAIN s.text = DOMAIN s3.text \cup {s3.ind + 1}
        /\ s3.ind + s.code[s3.ind].len + s.text[s3.ind + 1] = s2.ind
    BY <2>1, <2>3, <2>4, GenJmpBackwardAppends
  <2>6. /\ Appends(Text, s2)
        /\ AddedJumps(Text, s2) = AddedJumps(Text, s1) \cup AddedJumps(s1, s2)
    BY <1>0, <1>3, <2>2, AppendsTrans
  <2>7. Appends(Text, s3) /\ AddedJumps(Text, s3) = AddedJumps(Text, s2)
    BY <1>0, <2>3, <2>6, AppendsTrans
  <2>8. Appends(Text, s) /\ AddedJumps(Text, s) = AddedJumps(Text, s3) \cup {s3.ind}
    BY <1>0, <2>5, <2>7, AppendsTrans
  <2>9. Appends(s2, s) /\ Appends(s1, s)
    BY <1>2, <2>2, <2>3, <2>5, AppendsTrans
  <2>10. /\ DOMAIN s1.code \subseteq DOMAIN s.code /\ s1.ind \in DOMAIN s.code \cup {s.ind}
         /\ DOMAIN s1.code \subseteq DOMAIN s3.code /\ DOMAIN s2.code \subseteq DOMAIN s3.code
         /\ \A p \in DOMAIN s1.code : s.code[p] = s1.code[p]
         /\ \A p \in DOMAIN s2.code : s.code[p] = s2.code[p]
    <3>1. /\ DOMAIN s1.code \subseteq DOMAIN s.code /\ s1.ind \in DOMAIN s.code \cup {s.ind}
          /\ \A p \in DOMAIN s1.code : s.code[p] = s1.code[p]
      BY <2>9 DEF Appends
    <3>2. \A p \in DOMAIN s2.code : s.code[p] = s2.code[p]
      BY <2>9 DEF Appends
    <3>3. DOMAIN s2.code \subseteq DOMAIN s3.code
      BY <2>3 DEF Appends
    <3>4. DOMAIN s1.code \subseteq DOMAIN s2.code
      BY <2>2 DEF Appends
    <3> QED BY <3>1, <3>2, <3>3, <3>4
  <2>11. \A p \in AddedJumps(Text, s1) :
            s.code[p].len > 4 /\ cond # "none" /\ p + s.code[p].len - 4 = a /\ p \in DOMAIN s3.code
    BY <1>5, <2>10
  <2>12. \A p \in AddedJumps(s1, s2) :
            s.code[p].len > 4 /\ p + s.code[p].len - 4 = e /\ p \in DOMAIN s3.code
    <3>1. \A p \in AddedJumps(s1, s2) :
            s2.code[p].len > 4 /\ p + s2.code[p].len - 4 = e /\ p \in DOMAIN s2.code
      BY <2>2 DEF AddsJump, AddedJumps, Added
    <3> QED BY <2>10, <3>1
  <2>13. s3.ind \notin DOMAIN s3.code
    BY <2>3 DEF Below
  <2>14. \A p \in AddedJumps(Text, s) :
           \/ /\ s.code[p].len > 4 /\ p # s3.ind
              /\ \/ cond # "none" /\ p + s.code[p].len - 4 = a
                 \/ p + s.code[p].len - 4 = e
           \/ p = s3.ind
    BY <2>6, <2>7, <2>8, <2>11, <2>12, <2>13
  <2>15. s3.ind + 1 # e /\ s3.ind + 1 # a
    <3>1. e = s2.ind - 4
      BY DEF LastSlot
    <3>2. cond # "none" => a = s1.ind - 4
      BY <1>2 DEF LastSlot
    <3>3. cond = "none" => a = 0
      BY <1>2
    <3> QED BY <1>4, <2>4, <3>1, <3>2, <3>3
  <2>16. s2.ind \in DOMAIN s.code
    <3>1. s3.ind \in DOMAIN s.code
      BY <2>5 DEF AddedJumps, Added
    <3>2. s2.ind \in DOMAIN s3.code \cup {s3.ind}
      BY <2>3 DEF Appends
    <3> QED BY <2>5, <3>1, <3>2 DEF Appends
  <2>17. s0.ind \in DOMAIN s.code \cup {s.ind}
    BY <1>4, <2>10
  <2>18. s3.ind >= ind /\ s2.ind >= ind
    BY <1>0, <1>4, <2>4
  <2> QED BY <1>4, <1>7, <2>4, <2>5, <2>8, <2>14, <2>15, <2>16, <2>17, <2>18 DEF ForLaid
<1> QED BY <1>6, <1>7

\* for: the jumps of its test and over its third expression, and the jump
\* back from there
LEMMA ForHeadLayout == IInv /\ IInv' /\ LayoutInv /\ ForHead => LayoutInv'
<1> SUFFICES ASSUME IInv, IInv', LayoutInv, ForHead PROVE LayoutInv'
  OBVIOUS
<1>z. TypeOK /\ CellsBelow /\ TypeOK' /\ Layout /\ FuncsOrdered /\ LabelsLand /\ JumpsLabelled
  BY DEF IInv, LayoutInv
<1>0. PICK n0 \in ExprSizes, n1 \in ExprSizes, n2 \in ExprSizes,
           cond \in Conds \cup {"none"}, inc \in BOOLEAN :
       LET s0 == GenExpr(Text, n0)
           s1 == IF cond = "none" THEN s0 ELSE GenJcc(GenExpr(s0, n1), cond, 0)
           s2 == GenJmpForward(s1, 0)
           s3 == GenExpr(s2, n2)
           s4 == GenJmpBackward(s3, s2.ind)
           s  == IF inc THEN s4 ELSE s1
           d  == s0.ind
           c  == IF inc THEN s2.ind ELSE d
           a  == IF cond = "none" THEN 0 ELSE LastSlot(s1)
           e  == LastSlot(s2)
           slots == (IF cond = "none" THEN {} ELSE {a}) \cup (IF inc THEN {e} ELSE {})
           over  == labels + 2
       IN /\ Write(s)
          /\ stack' = Append(stack,
               [kind |-> "for", loop |-> Loop, a |-> a, b |-> 0,
                c |-> c, d |-> d, l |-> labels])
          /\ want' = [x \in DOMAIN want \cup slots |->
                        IF x \in DOMAIN want THEN want[x]
                        ELSE IF inc /\ x = e THEN over ELSE labels]
          /\ open' = open \cup slots
          /\ patching' = IF inc THEN <<Call(e, s.ind, over)>> ELSE <<>>
          /\ bound' = IF inc THEN Put(bound, over, s.ind) ELSE bound
          /\ backs' = IF inc THEN Put(backs, s3.ind, [dest |-> c, meant |-> d])
                      ELSE backs
  BY DEF ForHead
<1>1. PICK s0, s1, s2, s3, s4, s, d, c, a, e, slots, l, over, f :
        /\ s0 = GenExpr(Text, n0)
        /\ s1 = IF cond = "none" THEN s0 ELSE GenJcc(GenExpr(s0, n1), cond, 0)
        /\ s2 = GenJmpForward(s1, 0)
        /\ s3 = GenExpr(s2, n2)
        /\ s4 = GenJmpBackward(s3, s2.ind)
        /\ s  = IF inc THEN s4 ELSE s1
        /\ d  = s0.ind
        /\ c  = IF inc THEN s2.ind ELSE d
        /\ a  = IF cond = "none" THEN 0 ELSE LastSlot(s1)
        /\ e  = LastSlot(s2)
        /\ slots = (IF cond = "none" THEN {} ELSE {a}) \cup (IF inc THEN {e} ELSE {})
        /\ l = labels /\ over = labels + 2
        /\ f = [kind |-> "for", loop |-> Loop, a |-> a, b |-> 0,
                c |-> c, d |-> d, l |-> l]
  OBVIOUS
<1>2. /\ Write(s)
      /\ stack' = Append(stack, f) /\ f.c = c
      /\ want' = [x \in DOMAIN want \cup slots |->
                    IF x \in DOMAIN want THEN want[x]
                    ELSE IF inc /\ x = e THEN over ELSE l]
      /\ bound' = IF inc THEN Put(bound, over, s.ind) ELSE bound
      /\ backs' = IF inc THEN Put(backs, s3.ind, [dest |-> c, meant |-> d]) ELSE backs
  BY <1>0, <1>1
<1>3. phase = "body" /\ UNCHANGED <<phase, func_begin_ind, funcs>>
  BY DEF ForHead, Read, Parsing
<1>4. /\ Longer(Text, s)
      /\ cond # "none" => a \in Nat \ {0} /\ a >= ind
      /\ inc => e \in Nat \ {0} /\ e >= ind
      /\ inc => e # a
  BY <1>z, <1>1, ForSections
<1>5. /\ Appends(Text, s)
      /\ s0.ind \in Nat /\ s0.ind >= ind /\ s0.ind \in DOMAIN s.code \cup {s.ind}
      /\ \A p \in AddedJumps(Text, s) :
           \/ /\ s.code[p].len > 4 /\ ~ (inc /\ p = s3.ind)
              /\ \/ cond # "none" /\ p + s.code[p].len - 4 = a
                 \/ inc /\ p + s.code[p].len - 4 = e
           \/ inc /\ p = s3.ind
      /\ inc => /\ s3.ind \in AddedJumps(Text, s) /\ s.code[s3.ind].len \in {2, 5}
                /\ s3.ind \in Nat /\ s3.ind >= ind /\ s3.ind + 1 # a /\ s3.ind + 1 # e
                /\ s3.ind + 1 \in DOMAIN s.text
                /\ s3.ind + s.code[s3.ind].len + s.text[s3.ind + 1] = s2.ind
                /\ s2.ind \in DOMAIN s.code /\ s2.ind \in Nat /\ s2.ind >= ind
  <2>1. ForLaid(s, s0, s2, s3, a, e, cond, inc)
    BY <1>z, <1>1, ForCode
  <2> QED BY <2>1 DEF ForLaid
<1>6. Writes(s)
  BY <1>2, <1>3, <1>5 DEF Writes
<1>7. /\ FuncsOrdered' /\ Boundary \subseteq Boundary'
      /\ func_begin_ind <= ind /\ ind <= ind' /\ ind' \in Nat
      /\ \A p \in AddedJumps(Text, s) :
              p \in Nat /\ p >= ind /\ p \in DOMAIN code' /\ p \notin DOMAIN code
              /\ code'[p].len \in Nat
  BY <1>z, <1>6, LayoutGrown
<1>8. /\ ind \in Nat /\ func_begin_ind \in Nat /\ labels \in Nat
      /\ ind' = s.ind /\ code' = s.code /\ text' = s.text
      /\ func_begin_ind' = func_begin_ind /\ phase' # "outside"
  BY <1>z, <1>2, <1>3 DEF Write, TypeOK
<1>9. /\ DOMAIN want' = DOMAIN want \cup slots
      /\ \A x \in DOMAIN want : want'[x] = want[x]
      /\ \A x \in slots : (cond # "none" /\ x = a) \/ (inc /\ x = e)
      /\ \A x \in slots : x \in Nat /\ x >= ind /\ x \notin DOMAIN want
  <2>1. \A x \in DOMAIN want : ~ (x >= ind)
    <3>1. \A x \in DOMAIN text : ~ (x >= ind)
      BY <1>z DEF TypeOK, CellsBelow
    <3> QED BY <1>z, <3>1 DEF TypeOK
  <2>2. \A x \in slots : (cond # "none" /\ x = a) \/ (inc /\ x = e)
    BY <1>1
  <2>3. \A x \in slots : x \in Nat /\ x >= ind
    BY <1>4, <2>2
  <2>4. \A x \in slots : x \notin DOMAIN want
    BY <2>1, <2>3
  <2>5. /\ DOMAIN want' = DOMAIN want \cup slots
        /\ \A x \in DOMAIN want : want'[x] = want[x]
    BY <1>2
  <2> QED BY <2>2, <2>3, <2>4, <2>5
<1>10. /\ cond # "none" => a \in DOMAIN want' /\ want'[a] = l
       /\ inc => e \in DOMAIN want' /\ want'[e] = over
  <2>1. (cond # "none" => a \in slots) /\ (inc => e \in slots)
    BY <1>1
  <2> QED BY <1>2, <1>4, <1>9, <2>1
<1>11. /\ l \notin DOMAIN bound /\ over \notin DOMAIN bound /\ l # over
       /\ inc => DOMAIN bound' = DOMAIN bound \cup {over} /\ bound'[over] = s.ind
       /\ ~inc => bound' = bound
       /\ DOMAIN bound \subseteq DOMAIN bound'
       /\ \A m \in DOMAIN bound : bound'[m] = bound[m]
  <2>1. \A m \in DOMAIN bound : m \in Nat /\ m < labels
    BY <1>z DEF IInv, LabelsApart, TypeOK
  <2>2. l \notin DOMAIN bound /\ over \notin DOMAIN bound /\ l # over
    BY <1>1, <1>8, <2>1
  <2>3. CASE inc
    <3>1. bound' = Put(bound, over, s.ind)
      BY <1>2, <2>3
    <3> QED BY <2>2, <2>3, <3>1 DEF Put
  <2>4. CASE ~inc
    BY <1>2, <2>2, <2>4
  <2> QED BY <2>3, <2>4
<1>12. /\ inc => /\ DOMAIN backs' = DOMAIN backs \cup {s3.ind} /\ backs'[s3.ind].dest = s2.ind
                 /\ s3.ind \notin DOMAIN backs
       /\ ~inc => backs' = backs
       /\ DOMAIN backs \subseteq DOMAIN backs' /\ DOMAIN backs \subseteq DOMAIN code
       /\ \A p \in DOMAIN backs : backs'[p] = backs[p]
  <2>1. DOMAIN backs \subseteq DOMAIN code
    BY <1>z DEF JumpsLabelled, Jumps
  <2>2. CASE inc
    <3>1. s3.ind \notin DOMAIN backs
      BY <1>5, <1>7, <2>1, <2>2
    <3>2. backs' = Put(backs, s3.ind, [dest |-> s2.ind, meant |-> d])
      BY <1>1, <1>2, <2>2
    <3> QED BY <2>1, <2>2, <3>1, <3>2 DEF Put
  <2>3. CASE ~inc
    BY <1>2, <2>1, <2>3
  <2> QED BY <2>2, <2>3
<1>13. Extended
  BY <1>4, <1>6, <1>9, <1>11, <1>12, WriteExtends
<1>14. s.ind \in Boundary' /\ s.ind >= func_begin_ind
  BY <1>7, <1>8 DEF Boundary
<1>15. \A m \in DOMAIN bound' \ DOMAIN bound :
            bound'[m] \in Boundary' /\ bound'[m] >= func_begin_ind
  BY <1>11, <1>14
<1>16. \A i \in 1..Depth' : stack'[i].kind = "for" =>
            stack'[i].c \in Boundary' /\ stack'[i].c >= func_begin_ind
  <2>1. /\ Depth' = Depth + 1 /\ Depth \in Nat /\ stack'[Depth + 1] = f
        /\ \A i \in 1..Depth : stack'[i] = stack[i]
    BY <1>z, <1>2 DEF TypeOK, Depth
  <2>2. \A i \in 1..Depth : stack'[i].kind = "for" =>
            stack'[i].c \in Boundary' /\ stack'[i].c >= func_begin_ind
    BY <1>z, <1>7, <2>1, FramesLand
  <2>3. \A i \in 1..Depth' : i \in 1..Depth \/ i = Depth + 1
    BY <2>1
  <2>4. c \in Boundary' /\ c >= func_begin_ind
    <3>1. c \in DOMAIN s.code \cup {s.ind} /\ c \in Nat /\ c >= ind
      BY <1>1, <1>5
    <3> QED BY <1>7, <1>8, <3>1 DEF Boundary
  <2> QED BY <1>2, <2>1, <2>2, <2>3, <2>4
<1>17. ASSUME NEW p \in AddedJumps(Text, s)
       PROVE  IF p \in DOMAIN backs' THEN BackLands(p)' ELSE SlotLabelled(p)'
  <2>1. /\ p \in Nat /\ p >= func_begin_ind' /\ p \notin DOMAIN backs /\ code'[p].len \in Nat
        /\ code'[p] = s.code[p]
    BY <1>7, <1>8, <1>12
  <2>2. CASE inc /\ p = s3.ind
    <3>1. PICK x : x = s2.ind
      OBVIOUS
    <3>2. /\ x \in Nat /\ x >= func_begin_ind' /\ x \in DOMAIN code' /\ backs'[p].dest = x
          /\ code'[p].len \in {2, 5} /\ p + 1 \in DOMAIN text'
          /\ p + code'[p].len + text'[p + 1] = x
      BY <1>5, <1>7, <1>8, <1>12, <2>2, <3>1
    <3>3. p + 1 \notin DOMAIN want'
      <4>1. p + 1 # a /\ p + 1 # e /\ p >= ind
        BY <1>5, <2>2
      <4>2. \A y \in DOMAIN want : y \in Nat /\ y < ind
        BY <1>z DEF TypeOK, CellsBelow
      <4> QED BY <1>8, <1>9, <2>1, <4>1, <4>2
    <3>4. BackLands(p)'
      BY <1>z, <1>7, <1>8, <2>1, <3>2, <3>3, NewBackLands
    <3>5. p \in DOMAIN backs'
      BY <1>12, <2>2
    <3> QED BY <3>4, <3>5
  <2>3. CASE ~ (inc /\ p = s3.ind)
    <3>1. p \notin DOMAIN backs'
      BY <1>12, <2>1, <2>3
    <3>2. /\ code'[p].len > 4
          /\ \/ cond # "none" /\ p + code'[p].len - 4 = a
             \/ inc /\ p + code'[p].len - 4 = e
      BY <1>5, <2>1, <2>3
    <3>3. PICK x : x = p + code'[p].len - 4
      OBVIOUS
    <3>4. x \in DOMAIN want' /\ (want'[x] = l \/ (inc /\ want'[x] = over))
      BY <1>10, <3>2, <3>3
    <3>5. want'[x] \in DOMAIN bound' => bound'[want'[x]] >= func_begin_ind'
      <4>1. l \notin DOMAIN bound'
        BY <1>11
      <4>2. inc => bound'[over] >= func_begin_ind'
        BY <1>8, <1>11, <1>14
      <4> QED BY <3>4, <4>1, <4>2
    <3>6. SlotLabelled(p)'
      BY <1>z, <1>7, <1>8, <2>1, <3>2, <3>3, <3>4, <3>5, NewLabelled
    <3> QED BY <3>1, <3>6
  <2> QED BY <2>2, <2>3
<1>18. DOMAIN backs' \subseteq DOMAIN backs \cup AddedJumps(Text, s)
  BY <1>5, <1>12
<1> QED BY <1>z, <1>6, <1>13, <1>15, <1>16, <1>17, <1>18, LayoutStep

\* Between functions every label stands for an address.
LEMMA AllBound ==
  ASSUME IInv, phase \in {"outside", "epilog"}, patching = <<>>
  PROVE  \A x \in DOMAIN want : want[x] \in DOMAIN bound
<1>1. open = {}
  BY NothingPending DEF IInv
<1> QED BY <1>1 DEF IInv, PatchedJumpsHit

\* A function begins at ind, which no instruction has reached.
LEMMA OpenFuncLayout == IInv /\ IInv' /\ LayoutInv /\ OpenFunc => LayoutInv'
<1> SUFFICES ASSUME IInv, IInv', LayoutInv, OpenFunc PROVE LayoutInv'
  OBVIOUS
<1>0. TypeOK /\ TypeOK' /\ Layout /\ FuncsOrdered /\ LabelsLand /\ JumpsLabelled
  BY DEF IInv, LayoutInv
<1>1. /\ phase = "outside" /\ phase' = "body" /\ func_begin_ind' = ind /\ ind' = ind + 9
      /\ UNCHANGED <<code, text, stack, want, bound, backs>>
      /\ patching = <<>> /\ Depth = 0 /\ Depth' = 0
  BY DEF OpenFunc, FUNC_PROLOG_SIZE, IInv, PhaseShape, Depth
<1>2. PICK f : funcs' = Append(funcs, f) /\ f.begin = ind
  <2>1. PICK stdcall \in BOOLEAN, bytes \in ParamBytes \cup {-1} :
          funcs' = Append(funcs, [begin |-> ind, stdcall |-> stdcall,
                                  bytes |-> IF bytes = -1 THEN 0 ELSE bytes,
                                  pops |-> 0, ret |-> labels])
    BY DEF OpenFunc
  <2> QED BY <2>1
<1>3. /\ Len(funcs) \in Nat /\ Len(funcs') = Len(funcs) + 1 /\ funcs'[Len(funcs) + 1].begin = ind
      /\ \A i \in 1..Len(funcs) : funcs'[i] = funcs[i]
      /\ \A i \in 1..Len(funcs') : i \in 1..Len(funcs) \/ i = Len(funcs) + 1
  <2>1. funcs \in Seq(Func) /\ Len(funcs) \in Nat
    BY <1>0, FuncFacts DEF TypeOK
  <2> QED BY <1>2, <2>1
<1>4. ind \in Nat /\ \A p \in DOMAIN code : p \in Nat /\ code[p].len \in Nat \ {0} /\ p + code[p].len <= ind
  BY <1>0 DEF TypeOK, Layout
<1>5. Layout'
  <2>1. \A p \in DOMAIN code : p + code[p].len \in DOMAIN code \cup {ind}
    BY <1>0, <1>1 DEF Layout, Boundary, Gap
  <2>2. \A p \in DOMAIN code : \A q \in DOMAIN code : q > p => q >= p + code[p].len
    BY <1>0 DEF Layout
  <2>3. (Boundary \cup Gap)' = DOMAIN code \cup {ind + 9} \cup {ind} /\ ind + 9 \in Boundary'
    BY <1>1 DEF Boundary, Gap
  <2>4. \A p \in DOMAIN code : p + code[p].len <= ind'
    BY <1>1, <1>4
  <2> QED BY <1>1, <1>4, <2>1, <2>2, <2>3, <2>4 DEF Layout, FUNC_PROLOG_SIZE
<1>6. FuncsOrdered'
  <2>1. \A i \in 1..Len(funcs) : funcs[i].begin \in Nat /\ funcs[i].begin <= ind
    BY <1>0, FuncFacts DEF FuncsOrdered
  <2>2. \A i \in 1..Len(funcs') : funcs'[i].begin \in Nat /\ funcs'[i].begin <= ind
    BY <1>3, <1>4, <2>1
  <2> QED BY <1>1, <1>3, <1>4, <2>2 DEF FuncsOrdered
<1>7. LabelsLand'
  BY <1>0, <1>1 DEF LabelsLand, Boundary
<1>8. Extended
  BY <1>1 DEF Extended
<1>9. \A p \in Marks : p \in Nat /\ p < ind
  BY <1>0, <1>1, <1>4 DEF Marks, LabelsLand
<1>10. \A p, q \in Marks : SameFunction(p, q) => SameFunction(p, q)'
  <2> SUFFICES ASSUME NEW p \in Marks, NEW q \in Marks, SameFunction(p, q),
                      NEW i \in 1..Len(funcs')
               PROVE  funcs'[i].begin <= p <=> funcs'[i].begin <= q
    BY DEF SameFunction
  <2>1. CASE i \in 1..Len(funcs)
    BY <1>3, <2>1 DEF SameFunction
  <2>2. CASE i = Len(funcs) + 1
    BY <1>3, <1>4, <1>9, <2>2
  <2> QED BY <1>3, <2>1, <2>2
<1>11. JumpsLabelled'
  <2>1. /\ \A p \in Jumps \ DOMAIN backs : SlotLabelled(p)'
        /\ \A p \in DOMAIN backs : BackLands(p)'
    BY <1>0, <1>1, <1>8, <1>10, AllBound, OldLabelled
  <2>2. Jumps' = Jumps
    BY <1>1 DEF Jumps
  <2> QED BY <1>0, <1>1, <2>1, <2>2 DEF JumpsLabelled
<1> QED BY <1>5, <1>6, <1>7, <1>11 DEF LayoutInv

\* The epilogue follows the code, and the prologue fills the gap.
LEMMA EpilogCode ==
  ASSUME TypeOK, Layout, GenEpilog
  PROVE  /\ ind' \in Nat /\ ind' > ind /\ DOMAIN code' \subseteq Nat
         /\ DOMAIN code \subseteq DOMAIN code' /\ \A p \in DOMAIN code : code'[p] = code[p]
         /\ ind \in DOMAIN code' /\ Jumps' = Jumps
         /\ \A p \in DOMAIN code' :
              /\ code'[p].len \in Nat \ {0}
              /\ p + code'[p].len <= ind'
              /\ p + code'[p].len \in DOMAIN code' \cup {ind'}
              /\ \A q \in DOMAIN code' : q > p => q >= p + code'[p].len
<1>0. PICK ret, b : ret = (IF func_ret_sub = 0 THEN 1 ELSE 3) /\ b = func_begin_ind
  OBVIOUS
<1>1. PICK t1, t2, tail : /\ t1 = Emit(Text, "mov", 2) /\ t2 = Emit(t1, "pop", 1)
                          /\ tail = Emit(t2, "ret", ret)
  OBVIOUS
<1>2. PICK full : full = Emit(Emit(Emit(MoveTo(tail, b), "push", 1), "mov", 2), "sub", 6)
  OBVIOUS
<1>3. ind' = tail.ind /\ code' = full.code
  BY <1>0, <1>1, <1>2 DEF GenEpilog, Write, MoveTo
<1>4. ret \in Nat \ {0} /\ Below(Text) /\ Text.ind = ind /\ Text.code = code /\ b \in Nat /\ ind \in Nat
  BY <1>0, BelowNow DEF TypeOK, Text
<1>5. /\ Appends(Text, t1) /\ AddedJumps(Text, t1) = {} /\ Below(t1)
      /\ DOMAIN t1.code = DOMAIN code \cup {ind} /\ t1.ind = ind + 2
  BY <1>1, <1>4, EmitAppends DEF Appends
<1>6. Appends(t1, t2) /\ AddedJumps(t1, t2) = {} /\ Below(t2) /\ t2.ind = t1.ind + 1
  BY <1>1, <1>5, EmitAppends DEF Appends
<1>7. Appends(t2, tail) /\ AddedJumps(t2, tail) = {} /\ Below(tail) /\ tail.ind = t2.ind + ret
  BY <1>1, <1>4, <1>6, EmitAppends DEF Appends
<1>8. Appends(Text, t2) /\ AddedJumps(Text, t2) = {}
  BY <1>4, <1>5, <1>6, AppendsTrans
<1>9. Appends(Text, tail) /\ AddedJumps(Text, tail) = {}
  BY <1>4, <1>7, <1>8, AppendsTrans
<1>10. tail.ind \in Nat /\ tail.ind > ind
  BY <1>4, <1>5, <1>6, <1>7
<1>11. ind \in DOMAIN tail.code
  BY <1>4, <1>9, <1>10 DEF Appends
<1>12. /\ full.code = Put(Put(Put(tail.code, b, [op |-> "push", len |-> 1]),
                              b + 1, [op |-> "mov", len |-> 2]),
                          b + 3, [op |-> "sub", len |-> 6])
  <2>1. PICK m1, m2 : /\ m1 = Emit(MoveTo(tail, b), "push", 1) /\ m2 = Emit(m1, "mov", 2)
    OBVIOUS
  <2>2. m1.ind = b + 1 /\ m1.code = Put(tail.code, b, [op |-> "push", len |-> 1])
    BY <2>1 DEF Emit, MoveTo
  <2>3. m2.ind = b + 1 + 2 /\ m2.code = Put(m1.code, b + 1, [op |-> "mov", len |-> 2])
    BY <2>1, <2>2 DEF Emit
  <2>4. full.code = Put(m2.code, b + 1 + 2, [op |-> "sub", len |-> 6])
    BY <1>2, <2>1, <2>3 DEF Emit
  <2>5. b + 1 + 2 = b + 3
    BY <1>4
  <2> QED BY <2>2, <2>3, <2>4, <2>5
<1>13. /\ DOMAIN code' = DOMAIN tail.code \cup {b, b + 1, b + 3}
       /\ code'[b] = [op |-> "push", len |-> 1]
       /\ code'[b + 1] = [op |-> "mov", len |-> 2]
       /\ code'[b + 3] = [op |-> "sub", len |-> 6]
       /\ \A p \in DOMAIN tail.code : p \notin {b, b + 1, b + 3} => code'[p] = tail.code[p]
  <2>1. b # b + 1 /\ b # b + 3 /\ b + 1 # b + 3
    BY <1>4
  <2> QED BY <1>3, <1>12, <2>1 DEF Put
<1>14. code'[b].len = 1 /\ code'[b + 1].len = 2 /\ code'[b + 3].len = 6
  BY <1>13
<1>15. /\ b + 9 \in DOMAIN code \cup {ind} /\ b + 9 <= ind
       /\ \A p \in DOMAIN code : p + code[p].len <= b \/ p >= b + 9
       /\ \A p \in DOMAIN code : /\ p \in Nat /\ code[p].len \in Nat \ {0}
                                 /\ p + code[p].len \in DOMAIN code \cup {ind} \cup {b}
                                 /\ p + code[p].len <= ind
                                 /\ \A q \in DOMAIN code : q > p => q >= p + code[p].len
  <2>1. phase # "outside"
    BY DEF GenEpilog
  <2>2. /\ b + 9 \in DOMAIN code \cup {ind}
        /\ \A p \in DOMAIN code : p + code[p].len <= b \/ p >= b + 9
    BY <1>0, <2>1 DEF Layout, Boundary, FUNC_PROLOG_SIZE
  <2>3. \A p \in DOMAIN code : /\ p \in Nat /\ code[p].len \in Nat \ {0}
                               /\ p + code[p].len \in DOMAIN code \cup {ind} \cup {b}
                               /\ p + code[p].len <= ind
                               /\ \A q \in DOMAIN code : q > p => q >= p + code[p].len
    BY <1>0, <2>1 DEF Layout, Boundary, Gap
  <2>4. b + 9 <= ind
    BY <1>4, <2>2, <2>3
  <2> QED BY <2>2, <2>3, <2>4
<1>16. /\ DOMAIN code \subseteq DOMAIN tail.code
       /\ \A p \in DOMAIN code : tail.code[p] = code[p]
       /\ \A p \in DOMAIN tail.code \ DOMAIN code :
            /\ p >= ind /\ p + tail.code[p].len \in DOMAIN tail.code \cup {tail.ind}
            /\ \A q \in DOMAIN tail.code : q > p => q >= p + tail.code[p].len
       /\ \A p \in DOMAIN tail.code :
            p \in Nat /\ tail.code[p].len \in Nat \ {0} /\ p + tail.code[p].len <= tail.ind
  BY <1>4, <1>9 DEF Appends, Added, Below
\* No instruction lies where the prologue goes.
<1>17. \A p \in DOMAIN tail.code :
          /\ p + tail.code[p].len <= b \/ p >= b + 9
          /\ p \notin {b, b + 1, b + 3} /\ code'[p] = tail.code[p]
  <2>1. \A p \in DOMAIN tail.code : p + tail.code[p].len <= b \/ p >= b + 9
    BY <1>4, <1>15, <1>16
  <2>2. \A p \in DOMAIN tail.code : p \notin {b, b + 1, b + 3}
    BY <1>4, <1>16, <2>1
  <2> QED BY <1>13, <2>1, <2>2
<1>18. b + 9 \in DOMAIN code'
  BY <1>11, <1>13, <1>15, <1>16
<1>19. ASSUME NEW p \in DOMAIN tail.code
       PROVE  /\ code'[p].len \in Nat \ {0} /\ p + code'[p].len <= ind'
              /\ p + code'[p].len \in DOMAIN code' \cup {ind'}
              /\ \A q \in DOMAIN code' : q > p => q >= p + code'[p].len
  <2>1. code'[p] = tail.code[p] /\ p \in Nat /\ tail.code[p].len \in Nat \ {0} /\ p + tail.code[p].len <= ind'
    BY <1>3, <1>16, <1>17
  <2>2. p + tail.code[p].len \in DOMAIN code' \cup {ind'}
    <3>1. CASE p \in DOMAIN code
      BY <1>11, <1>13, <1>15, <1>16, <3>1
    <3>2. CASE p \notin DOMAIN code
      BY <1>3, <1>13, <1>16, <3>2
    <3> QED BY <3>1, <3>2
  <2>3. \A q \in DOMAIN tail.code : q > p => q >= p + tail.code[p].len
    <3>1. CASE p \in DOMAIN code
      BY <1>4, <1>15, <1>16, <3>1
    <3>2. CASE p \notin DOMAIN code
      BY <1>16, <3>2
    <3> QED BY <3>1, <3>2
  <2>4. \A q \in {b, b + 1, b + 3} : q > p => q >= p + tail.code[p].len
    BY <1>4, <1>17, <2>1
  <2> QED BY <1>13, <2>1, <2>2, <2>3, <2>4
<1>20. ASSUME NEW p \in {b, b + 1, b + 3}
       PROVE  /\ code'[p].len \in Nat \ {0} /\ p + code'[p].len <= ind'
              /\ p + code'[p].len \in DOMAIN code' \cup {ind'}
              /\ \A q \in DOMAIN code' : q > p => q >= p + code'[p].len
  <2>1. /\ code'[p].len \in Nat \ {0} /\ p + code'[p].len \in {b + 1, b + 3, b + 9}
    BY <1>4, <1>14
  <2>2. p + code'[p].len <= ind'
    BY <1>3, <1>4, <1>10, <1>15, <2>1
  <2>3. p + code'[p].len \in DOMAIN code'
    BY <1>13, <1>18, <2>1
  <2>4. \A q \in DOMAIN tail.code : q > p => q >= p + code'[p].len
    <3>1. \A q \in DOMAIN tail.code : q \in Nat /\ (q < b \/ q >= b + 9)
      BY <1>4, <1>16, <1>17
    <3> QED BY <1>4, <2>1, <3>1
  <2>5. \A q \in {b, b + 1, b + 3} : q > p => q >= p + code'[p].len
    BY <1>4, <1>14
  <2> QED BY <1>13, <2>1, <2>2, <2>3, <2>4, <2>5
<1>21. DOMAIN code \subseteq DOMAIN code' /\ (\A p \in DOMAIN code : code'[p] = code[p])
       /\ ind \in DOMAIN code' /\ DOMAIN code' \subseteq Nat
  BY <1>4, <1>11, <1>13, <1>16, <1>17
<1>22. Jumps' = Jumps
  <2>1. \A p \in DOMAIN tail.code \ DOMAIN code : tail.code[p].op \notin {"jmp", "jcc"}
    BY <1>4, <1>9 DEF AddedJumps, Added
  <2>2. \A p \in {b, b + 1, b + 3} : code'[p].op \notin {"jmp", "jcc"}
    BY <1>13
  <2>3. \A p \in DOMAIN code' \ DOMAIN code : code'[p].op \notin {"jmp", "jcc"}
    BY <1>13, <1>17, <2>1, <2>2
  <2> QED BY <1>21, <2>3 DEF Jumps
<1> QED BY <1>3, <1>10, <1>13, <1>19, <1>20, <1>21, <1>22

\* The epilogue closes the gap of the function.
LEMMA GenEpilogLayout == IInv /\ IInv' /\ LayoutInv /\ GenEpilog => LayoutInv'
<1> SUFFICES ASSUME IInv, IInv', LayoutInv, GenEpilog PROVE LayoutInv'
  OBVIOUS
<1>0. TypeOK /\ TypeOK' /\ Layout /\ FuncsOrdered /\ LabelsLand /\ JumpsLabelled
  BY DEF IInv, LayoutInv
<1>1. /\ phase = "epilog" /\ phase' = "outside" /\ patching = <<>> /\ stack' = stack
      /\ Depth' = 0
      /\ UNCHANGED <<want, bound, backs>>
  BY DEF GenEpilog, IInv, PhaseShape, Depth
<1>2. text' = text
  <2>1. PICK ret : ret = IF func_ret_sub = 0 THEN 1 ELSE 3
    OBVIOUS
  <2>2. PICK tail : tail = Emit(Emit(Emit(Text, "mov", 2), "pop", 1), "ret", ret)
    OBVIOUS
  <2>3. tail.text = text
    BY <2>2 DEF Emit, Text
  <2>4. PICK full : full = Emit(Emit(Emit(MoveTo(tail, func_begin_ind), "push", 1),
                                    "mov", 2), "sub", 6)
    OBVIOUS
  <2>5. full.text = text
    BY <2>3, <2>4 DEF Emit, MoveTo
  <2>6. Write(MoveTo(full, tail.ind))
    BY <2>1, <2>2, <2>4 DEF GenEpilog
  <2> QED BY <2>5, <2>6 DEF Write, MoveTo
<1>3. Layout'
  BY <1>0, <1>1, EpilogCode DEF Layout, Boundary, Gap
<1>4. /\ Len(funcs') = Len(funcs)
      /\ \A i \in 1..Len(funcs) : funcs'[i].begin = funcs[i].begin
  <2>1. PICK n : n = Len(funcs)
    OBVIOUS
  <2>2. funcs' = [funcs EXCEPT ![n] = [funcs[n] EXCEPT !.pops = func_ret_sub]]
    BY <2>1 DEF GenEpilog
  <2>3. funcs \in Seq(Func) /\ Len(funcs) \in Nat /\ \A i \in 1..Len(funcs) : funcs[i] \in Func
    BY <1>0, ElementOfSeq, LenProperties DEF TypeOK
  <2>4. Len(funcs') = Len(funcs)
    BY <2>2, <2>3
  <2>5. \A i \in 1..Len(funcs) :
          funcs'[i] = IF i = n THEN [funcs[n] EXCEPT !.pops = func_ret_sub] ELSE funcs[i]
    BY <2>2, <2>3
  <2> QED BY <2>3, <2>4, <2>5 DEF Func
<1>5. FuncsOrdered'
  <2>1. ind \in Nat /\ ind' \in Nat /\ ind' > ind
    BY <1>0, EpilogCode DEF TypeOK
  <2>2. \A i \in 1..Len(funcs) : funcs[i].begin \in Nat /\ funcs[i].begin <= ind
    BY <1>0, FuncFacts DEF FuncsOrdered
  <2>3. \A i \in 1..Len(funcs') : funcs'[i].begin <= ind'
    BY <1>4, <2>1, <2>2
  <2> QED BY <1>1, <2>3 DEF FuncsOrdered
<1>6. DOMAIN code \cup {ind} \subseteq DOMAIN code' /\ \A p \in DOMAIN code : code'[p] = code[p]
  BY <1>0, EpilogCode
<1>7. LabelsLand'
  BY <1>0, <1>1, <1>6 DEF LabelsLand, Boundary
<1>8. Extended
  BY <1>1, <1>2, <1>6 DEF Extended
<1>9. \A p, q : SameFunction(p, q) => SameFunction(p, q)'
  BY <1>4 DEF SameFunction
<1>10. JumpsLabelled'
  <2>1. /\ \A p \in Jumps \ DOMAIN backs : SlotLabelled(p)'
        /\ \A p \in DOMAIN backs : BackLands(p)'
    BY <1>0, <1>1, <1>8, <1>9, AllBound, OldLabelled
  <2>2. Jumps' = Jumps
    BY <1>0, EpilogCode
  <2> QED BY <1>0, <1>1, <2>1, <2>2 DEF JumpsLabelled
<1> QED BY <1>3, <1>5, <1>7, <1>10 DEF LayoutInv

-----------------------------------------------------------------------------
(* The specification.                                                      *)

\* Every step of the parser keeps the layout.
LEMMA NextLayout == IInv /\ IInv' /\ LayoutInv /\ [Next]_vars => LayoutInv'
<1> SUFFICES ASSUME IInv, IInv', LayoutInv, [Next]_vars PROVE LayoutInv'
  OBVIOUS
<1>1. CASE Statement
  BY <1>1, ExprStmtLayout, IfHeadLayout, ForHeadLayout, BreakLayout, ContinueLayout,
     ReturnLayout, StrayJumpLayout DEF Statement
<1>2. CASE Block
  BY <1>2, ElseLayout, EndIfLayout, EndForLayout DEF Block
<1>3. CASE Function
  BY <1>3, OpenFuncLayout, CloseBodyLayout, GenEpilogLayout DEF Function
<1>4. CASE Patch
  BY <1>4, BackpatchLayout, BackpatchReturnsLayout DEF Patch
<1>5. CASE UNCHANGED vars
  <2> USE <1>5 DEF LayoutInv, vars, state, history
  <2>1. Layout' /\ FuncsOrdered'
    BY DEF Layout, FuncsOrdered, Boundary, Gap
  <2>2. LabelsLand'
    BY DEF LabelsLand, Boundary, Depth
  <2>3. JumpsLabelled'
    BY DEF JumpsLabelled, Jumps, SlotLabelled, BackLands, Cell, Target, SameFunction
  <2> QED BY <2>1, <2>2, <2>3
<1> QED BY <1>1, <1>2, <1>3, <1>4, <1>5 DEF Next, EndOfFile

\* Whatever the program, the layout invariant holds in every state the parser
\* reaches.
THEOREM LayoutCorrect == Spec => [](IInv /\ LayoutInv)
<1>1. Init => IInv /\ LayoutInv
  BY InitInv, InitLayout
<1>2. IInv /\ LayoutInv /\ [Next]_vars => (IInv /\ LayoutInv)'
  BY NextInv, NextLayout
<1> QED BY <1>1, <1>2, PTL DEF Spec

\* The instructions of finished functions tile .text: the prologue that
\* gen_epilog writes fills exactly the bytes gen_prolog left out.
THEOREM FinishedCodeTiles == Spec => []CodeTiles
<1>1. IInv /\ LayoutInv => CodeTiles
  BY DEF LayoutInv, Layout, CodeTiles, Boundary, Gap
<1> QED BY <1>1, LayoutCorrect, PTL

\* Every backward jump, of two bytes or of five, goes to the address that
\* gen_jmpbackward was given.
THEOREM BackwardJumpsCorrect == Spec => []BackwardJumpsHit
<1>1. IInv /\ LayoutInv => BackwardJumpsHit
  BY DEF LayoutInv, JumpsLabelled, BackLands, BackwardJumpsHit
<1> QED BY <1>1, LayoutCorrect, PTL

\* In a finished function every jump leads to the beginning of an instruction
\* of the same function.
THEOREM JumpsStayInFunction == Spec => []JumpsLandInFunction
<1>1. IInv /\ LayoutInv => JumpsLandInFunction
  <2> SUFFICES ASSUME IInv, LayoutInv, phase = "outside",
                      NEW p \in Jumps, NEW i \in 1..Len(funcs),
                      p \in funcs[i].begin .. FuncEnd(i) - 1
               PROVE  Target(p) \in DOMAIN code \cap (funcs[i].begin .. FuncEnd(i) - 1)
    BY DEF JumpsLandInFunction
  <2>0. TypeOK /\ Layout /\ FuncsOrdered /\ LabelsLand /\ JumpsLabelled
    BY DEF IInv, LayoutInv
  <2>1. Target(p) \in DOMAIN code /\ SameFunction(p, Target(p))
    <3>1. CASE p \in DOMAIN backs
      BY <2>0, <3>1 DEF JumpsLabelled, BackLands
    <3>2. CASE p \notin DOMAIN backs
      <4>1. PICK x, b : x = Cell(p) /\ b = bound[want[x]]
        OBVIOUS
      <4>2. SlotLabelled(p) /\ p \in DOMAIN code
        BY <2>0, <3>2 DEF JumpsLabelled, Jumps
      <4>3. /\ code[p].len > 4 /\ x \in DOMAIN want /\ want[x] \in DOMAIN bound
            /\ SameFunction(p, b)
        BY <4>1, <4>2 DEF SlotLabelled
      <4>4. open = {}
        BY <2>0, NothingPending DEF IInv, PhaseShape
      <4>5. text[x] + x + 4 = b
        BY <4>1, <4>3, <4>4 DEF IInv, PatchedJumpsHit
      <4>6. p \in Nat /\ code[p].len \in Nat /\ text[x] \in Int
        BY <2>0, <4>2, <4>3 DEF Layout, TypeOK
      <4>7. x = p + code[p].len - 4
        BY <4>1, <4>3, <4>6 DEF Cell
      <4>8. Target(p) = b
        BY <4>1, <4>5, <4>6, <4>7 DEF Target
      <4>9. b \in DOMAIN code
        BY <2>0, <4>1, <4>3 DEF LabelsLand
      <4> QED BY <4>3, <4>8, <4>9
    <3> QED BY <3>1, <3>2
  <2>2. PICK t : t = Target(p)
    OBVIOUS
  <2>3. /\ t \in DOMAIN code /\ t \in Nat /\ p \in Nat /\ ind \in Nat /\ t < ind
        /\ \A j \in 1..Len(funcs) : funcs[j].begin \in Nat
        /\ \A j \in 1..Len(funcs) : funcs[j].begin <= p <=> funcs[j].begin <= t
    <3>1. t \in Nat /\ t < ind /\ p \in Nat /\ ind \in Nat
      <4>1. p \in DOMAIN code /\ t \in DOMAIN code
        BY <2>1, <2>2 DEF Jumps
      <4>2. DOMAIN code \subseteq Nat /\ code[t].len \in Nat \ {0} /\ t + code[t].len <= ind
        BY <2>0, <4>1 DEF Layout
      <4>3. ind \in Nat
        BY <2>0 DEF TypeOK
      <4> QED BY <4>1, <4>2, <4>3
    <3> QED BY <2>0, <2>1, <2>2, <3>1, FuncFacts DEF SameFunction
  <2>4. funcs[i].begin <= p /\ p < FuncEnd(i) /\ FuncEnd(i) \in Nat
        /\ (i = Len(funcs) => FuncEnd(i) = ind)
        /\ (i # Len(funcs) => i + 1 \in 1..Len(funcs) /\ FuncEnd(i) = funcs[i + 1].begin)
    <3>1. Len(funcs) \in Nat /\ i \in Nat
      BY <2>0, FuncFacts
    <3>2. (i = Len(funcs) => FuncEnd(i) = ind)
          /\ (i # Len(funcs) => i + 1 \in 1..Len(funcs) /\ FuncEnd(i) = funcs[i + 1].begin)
      BY <3>1 DEF FuncEnd
    <3>3. FuncEnd(i) \in Nat
      BY <2>3, <3>2
    <3> QED BY <2>3, <3>2, <3>3
  <2>5. funcs[i].begin <= t /\ t < FuncEnd(i)
    BY <2>3, <2>4
  <2> QED BY <2>2, <2>3, <2>4, <2>5
<1> QED BY <1>1, LayoutCorrect, PTL

-----------------------------------------------------------------------------
(* The refinement: what the steps do to the mapped state.                  *)

\* The mapped frames
NestedFrames == {Nested(f) : f \in Frame}

\* They are one for each frame.
LEMMA NestFacts ==
  ASSUME TypeOK
  PROVE  /\ Depth \in Nat /\ Len(Nest) = Depth /\ Nest \in Seq(NestedFrames)
         /\ \A i \in 1..Depth : Nest[i] = Nested(stack[i]) /\ Nest[i] \in NestedFrames
<1>1. Depth \in Nat /\ \A i \in 1..Depth : stack[i] \in Frame
  BY StackFacts
<1> QED BY <1>1, IsASeq DEF Nest, NestedFrames

\* A sequence of the frames' images is the mapped one after the step.
LEMMA NestIs ==
  ASSUME TypeOK', NEW n \in Seq(NestedFrames), Len(n) = Depth',
         \A i \in 1..Depth' : n[i] = Nested(stack'[i])
  PROVE  Nest' = n
<1>1. Depth' \in Nat /\ Nest' = [i \in 1..Depth' |-> Nested(stack'[i])]
  BY LenProperties DEF Nest, Depth, TypeOK
<1>2. PICK m : m = Nest'
  OBVIOUS
<1>3. Len(m) = Depth' /\ \A i \in 1..Depth' : m[i] = n[i]
  BY <1>1, <1>2
<1>4. \A i \in 1..Depth' : m[i] \in NestedFrames
  BY <1>3, ElementOfSeq
<1>5. m \in Seq(NestedFrames)
  BY <1>1, <1>2, <1>3, <1>4
<1> QED BY <1>2, <1>3, <1>5, SeqEqual

\* The frames that stay are mapped to the same.
LEMMA NestKept ==
  ASSUME TypeOK, TypeOK', Depth' = Depth,
         \A i \in 1..Depth : Nested(stack'[i]) = Nested(stack[i])
  PROVE  Nest' = Nest
BY NestFacts, NestIs

\* The step leaves every patched displacement, and patches none.
LEMMA TargetsKept ==
  ASSUME IInv, Kept, DOMAIN want' \ open' = DOMAIN want \ open
  PROVE  Targets' = Targets
BY DEF Kept, Targets

\* A step that adds a slot does so.
LEMMA SlotKeepsTargets ==
  ASSUME IInv, Kept, NEW t, NEW l, Slot(t, l), t \notin DOMAIN want
  PROVE  Targets' = Targets
<1>1. DOMAIN want' \ open' = DOMAIN want \ open
  BY DEF Slot, Put, IInv, TypeOK
<1> QED BY <1>1, TargetsKept

\* A slot in the code the step wrote is a new jump.
LEMMA SlotJumps ==
  ASSUME IInv, IInv', NEW s, Write(s), NEW h, AddsSlot(Text, s, h),
         NEW t, t = LastSlot(s), NEW l, Slot(t, l)
  PROVE  /\ Labels!Jump(l) /\ t \notin DOMAIN want
<1>1. TypeOK /\ CellsBelow
  BY DEF IInv
<1>2. t \in Nat /\ t >= ind /\ t < ind' /\ ind \in Nat /\ ind' \in Nat
  <2>1. t \in Nat \ {0} /\ t >= ind /\ s.ind \in Nat /\ ind' = s.ind
    BY DEF AddsSlot, Longer, Section, Write, Text
  <2> QED BY <1>1, <2>1 DEF LastSlot, TypeOK
<1>3. t \notin DOMAIN want
  <2>1. \A x \in DOMAIN text : ~ (x >= ind)
    BY <1>1 DEF TypeOK, CellsBelow
  <2>2. DOMAIN want \subseteq DOMAIN text
    BY <1>1 DEF TypeOK
  <2> QED BY <1>2, <2>1, <2>2
<1>4. t \in ind .. ind' - 1
  BY <1>2
<1> QED BY <1>3, <1>4 DEF Slot, Put, Labels!Jump, Labels!Put

\* A frame put on the stack is put on the mapped one.
LEMMA NestPushed ==
  ASSUME TypeOK, TypeOK', NEW f \in Frame, Pushed(f)
  PROVE  Nest' = Append(Nest, Nested(f))
<1>1. /\ Depth' = Depth + 1 /\ Depth \in Nat /\ stack'[Depth + 1] = f
      /\ \A i \in 1..Depth : stack'[i] = stack[i]
  BY DEF Pushed
<1>2. PICK n, g, m : n = Nest /\ g = Nested(f) /\ m = Append(n, g)
  OBVIOUS
<1>3. n \in Seq(NestedFrames) /\ Len(n) = Depth /\ \A i \in 1..Depth : n[i] = Nested(stack[i])
  BY <1>2, NestFacts
<1>4. g \in NestedFrames
  BY <1>2 DEF NestedFrames
<1>5. /\ m \in Seq(NestedFrames) /\ Len(m) = Depth + 1 /\ m[Depth + 1] = g
      /\ \A i \in 1..Depth : m[i] = n[i]
  BY <1>2, <1>3, <1>4, AppendProperties
<1>6. \A i \in 1..Depth' : m[i] = Nested(stack'[i])
  <2>1. \A i \in 1..Depth' : i \in 1..Depth \/ i = Depth + 1
    BY <1>1
  <2> QED BY <1>1, <1>2, <1>3, <1>5, <2>1
<1>7. Nest' = m
  BY <1>1, <1>5, <1>6, NestIs
<1> QED BY <1>2, <1>7

\* A frame taken off the stack is taken off the mapped one, whose last it is.
LEMMA NestPopped ==
  ASSUME TypeOK, Depth > 0
  PROVE  /\ Nest # <<>> /\ Labels!Last = Nested(stack[Depth])
         /\ Labels!Pop \in Seq(NestedFrames) /\ Len(Labels!Pop) = Depth - 1
         /\ \A i \in 1..(Depth - 1) : Labels!Pop[i] = Nested(stack[i])
<1>1. PICK n, m : n = Nest /\ m = SubSeq(n, 1, Len(n) - 1)
  OBVIOUS
<1>2. /\ Depth \in Nat /\ n \in Seq(NestedFrames) /\ Len(n) = Depth
      /\ \A i \in 1..Depth : n[i] = Nested(stack[i]) /\ n[i] \in NestedFrames
  BY <1>1, NestFacts
<1>3. n # <<>> /\ n[Len(n)] = Nested(stack[Depth])
  BY <1>2
<1>4. \A i \in 1..(Depth - 1) : i \in 1..Depth
  BY <1>2
<1>5. /\ m \in Seq(NestedFrames)
      /\ Len(m) = IF 1 <= Depth - 1 THEN Depth - 1 - 1 + 1 ELSE 0
      /\ \A i \in 1..(Depth - 1 - 1 + 1) : m[i] = n[1 + i - 1]
  BY <1>1, <1>2, <1>4, SubSeqProperties
<1>6. Len(m) = Depth - 1 /\ Depth - 1 - 1 + 1 = Depth - 1
  BY <1>2, <1>5
<1>7. \A i \in 1..(Depth - 1) : m[i] = n[i]
  <2>1. \A i \in 1..(Depth - 1) : 1 + i - 1 = i
    OBVIOUS
  <2> QED BY <1>5, <1>6, <2>1
<1> QED BY <1>1, <1>2, <1>3, <1>4, <1>5, <1>6, <1>7 DEF Labels!Last, Labels!Pop

-----------------------------------------------------------------------------
(* The refinement, one lemma per action.                                   *)

\* The initial states are the abstract ones.
LEMMA InitLabels == Init => Labels!Init
<1> SUFFICES ASSUME Init PROVE Labels!Init
  OBVIOUS
<1>1. Nest = <<>> /\ Targets = <<>> /\ Ret = 0
  BY DEF Init, Nest, Targets, Ret, Depth
<1> QED BY <1>1 DEF Init, Labels!Init

\* What all steps of a body share
LEMMA RetKept == funcs' = funcs => Ret' = Ret
BY DEF Ret, ReturnLabel

\* expression_statement
LEMMA ExprStmtLabels == IInv /\ IInv' /\ Kept /\ ExprStmt => Labels!Straight
<1> SUFFICES ASSUME IInv, IInv', Kept, ExprStmt PROVE Labels!Straight
  OBVIOUS
<1>1. /\ phase = "body" /\ UNCHANGED <<phase, stack, funcs, want, bound, open, labels>>
  BY DEF ExprStmt, Read, Parsing
<1>2. PICK n \in ExprSizes : Write(GenExpr(Text, n))
  BY DEF ExprStmt
<1>3. ind' >= ind
  <2>1. Grown
    BY <1>2, SectionNow, GenExprLonger, WriteGrown, JumpGenAssumption DEF IInv
  <2> QED BY <2>1 DEF Grown
<1>4. Targets' = Targets
  BY <1>1, TargetsKept
<1>5. Nest' = Nest
  BY <1>1 DEF Nest, Depth
<1>6. Ret' = Ret
  BY <1>1, RetKept
<1> QED BY <1>1, <1>3, <1>4, <1>5, <1>6 DEF Labels!Straight

\* return_statement
LEMMA ReturnLabels == IInv /\ IInv' /\ Kept /\ Return => Labels!Return
<1> SUFFICES ASSUME IInv, IInv', Kept, Return PROVE Labels!Return
  OBVIOUS
<1>1. PICK n \in ExprSizes :
        LET s == GenJmpForward(GenExpr(Text, n), rsym)
        IN /\ Write(s)
           /\ rsym' = LastSlot(s)
           /\ Slot(LastSlot(s), ReturnLabel)
  BY DEF Return
<1>2. PICK q, s, t, l : /\ q = GenExpr(Text, n) /\ s = GenJmpForward(q, rsym)
                        /\ t = LastSlot(s) /\ l = ReturnLabel
  OBVIOUS
<1>3. /\ phase = "body" /\ Write(s) /\ Slot(t, l)
      /\ UNCHANGED <<phase, stack, funcs, bound, labels>>
  BY <1>1, <1>2 DEF Return, Read, Parsing
<1>4. AddsSlot(Text, s, rsym)
  <2>1. Longer(Text, q) /\ q.text = Text.text
    BY <1>2, SectionNow, GenExprLonger, JumpGenAssumption DEF IInv
  <2>2. AddsSlot(q, s, rsym)
    BY <1>2, <2>1, GenJmpForwardLonger DEF Longer, TypeOK, IInv
  <2> QED BY <2>1, <2>2, SectionNow, LongerAddsSlot DEF IInv
<1>5. Labels!Jump(l) /\ t \notin DOMAIN want
  BY <1>2, <1>3, <1>4, SlotJumps
<1>6. l = Ret
  BY <1>2, <1>3 DEF Ret, IInv, PhaseShape
<1>7. Targets' = Targets
  BY <1>3, <1>5, SlotKeepsTargets
<1>8. Nest' = Nest
  BY <1>3 DEF Nest, Depth
<1>9. Ret' = Ret
  BY <1>3, RetKept
<1> QED BY <1>3, <1>5, <1>6, <1>7, <1>8, <1>9 DEF Labels!Return

\* The innermost for is the one that bsym and csym point into.
LEMMA LoopInnermost ==
  ASSUME IInv, Loop # 0
  PROVE  /\ Loop \in 1..Len(Nest) /\ Labels!Innermost(Loop)
         /\ Nest[Loop].exit = stack[Loop].l /\ Nest[Loop].cont = stack[Loop].l + 1
<1>1. /\ Loop \in 1..Depth /\ stack[Loop].kind = "for" /\ Depth \in Nat
      /\ \A j \in 1..Depth : stack[j].kind = "for" => j <= Loop
  BY LoopFacts, StackFacts DEF IInv
<1>2. Len(Nest) = Depth /\ \A i \in 1..Depth : Nest[i] = Nested(stack[i])
  BY NestFacts DEF IInv
<1>3. \A i \in 1..Depth : Nest[i].kind = stack[i].kind
  BY <1>2 DEF Nested
<1>4. \A j \in Loop + 1 .. Len(Nest) : Nest[j].kind # "for"
  <2>1. \A j \in Loop + 1 .. Len(Nest) : j \in 1..Depth /\ ~ (j <= Loop)
    BY <1>1, <1>2
  <2> QED BY <1>1, <1>3, <2>1
<1>5. Nest[Loop].exit = stack[Loop].l /\ Nest[Loop].cont = stack[Loop].l + 1
  BY <1>1, <1>2 DEF Nested
<1> QED BY <1>1, <1>2, <1>3, <1>4, <1>5 DEF Labels!Innermost

\* A new head of a list of a frame leaves what the frame is mapped to.
LEMMA HeadChanged ==
  ASSUME TypeOK, TypeOK', NEW k \in 1..Depth, NEW t,
         \/ stack' = [stack EXCEPT ![k].a = t]
         \/ stack' = [stack EXCEPT ![k].b = t]
  PROVE  Nest' = Nest
<1>1. PICK f : /\ f \in {[stack[k] EXCEPT !.a = t], [stack[k] EXCEPT !.b = t]}
               /\ stack' = [stack EXCEPT ![k] = f]
  OBVIOUS
<1>2. Depth \in Nat /\ stack \in Seq(Frame) /\ \A i \in 1..Depth : stack[i] \in Frame
  BY StackFacts DEF TypeOK
<1>3. /\ Depth' = Depth
      /\ \A i \in 1..Depth : stack'[i] = IF i = k THEN f ELSE stack[i]
  BY <1>1, <1>2 DEF Depth
<1>4. f.kind = stack[k].kind /\ f.l = stack[k].l /\ f.c = stack[k].c
  BY <1>1, <1>2 DEF Frame
<1>5. Nested(f) = Nested(stack[k])
  BY <1>4 DEF Nested
<1>6. \A i \in 1..Depth : Nested(stack'[i]) = Nested(stack[i])
  BY <1>3, <1>5
<1> QED BY <1>3, <1>6, NestKept

\* break_statement
LEMMA BreakLabels == IInv /\ IInv' /\ Kept /\ Break => Labels!Break
<1> SUFFICES ASSUME IInv, IInv', Kept, Break PROVE Labels!Break
  OBVIOUS
<1>1. PICK k, l, h, s, t : /\ k = Loop /\ l = stack[k].l /\ h = stack[k].a
                           /\ s = GenJmpForward(Text, h) /\ t = LastSlot(s)
  OBVIOUS
<1>2. /\ phase = "body" /\ k # 0 /\ Write(s) /\ Slot(t, l)
      /\ stack' = [stack EXCEPT ![k].a = t]
      /\ UNCHANGED <<phase, funcs, bound, labels>>
  BY <1>1 DEF Break, Read, Parsing
<1>3. k \in 1..Depth /\ h \in Nat
  <2>1. Depth \in Nat /\ \A i \in 1..Depth : stack[i].a \in Nat
    BY StackFacts DEF IInv
  <2>2. Loop \in 0..Depth
    BY LoopFacts DEF IInv
  <2> QED BY <1>1, <1>2, <2>1, <2>2
<1>4. AddsSlot(Text, s, h)
  BY <1>1, <1>3, SectionNow, GenJmpForwardLonger DEF IInv
<1>5. Labels!Jump(l) /\ t \notin DOMAIN want
  BY <1>1, <1>2, <1>4, SlotJumps
<1>6. k \in 1..Len(Nest) /\ Labels!Innermost(k) /\ Nest[k].exit = l
  BY <1>1, <1>2, LoopInnermost
<1>7. Targets' = Targets
  BY <1>2, <1>5, SlotKeepsTargets
<1>8. Nest' = Nest
  BY <1>2, <1>3, HeadChanged DEF IInv
<1>9. Ret' = Ret
  BY <1>2, RetKept
<1> QED BY <1>2, <1>5, <1>6, <1>7, <1>8, <1>9 DEF Labels!Break

\* continue_statement
LEMMA ContinueLabels == IInv /\ IInv' /\ Kept /\ Continue => Labels!Continue
<1> SUFFICES ASSUME IInv, IInv', Kept, Continue PROVE Labels!Continue
  OBVIOUS
<1>1. PICK k, l, h, s, t : /\ k = Loop /\ l = stack[k].l + 1 /\ h = stack[k].b
                           /\ s = GenJmpForward(Text, h) /\ t = LastSlot(s)
  OBVIOUS
<1>2. /\ phase = "body" /\ k # 0 /\ Write(s) /\ Slot(t, l)
      /\ stack' = [stack EXCEPT ![k].b = t]
      /\ UNCHANGED <<phase, funcs, bound, labels>>
  BY <1>1 DEF Continue, Read, Parsing
<1>3. k \in 1..Depth /\ h \in Nat
  <2>1. Depth \in Nat /\ \A i \in 1..Depth : stack[i].b \in Nat
    BY StackFacts DEF IInv
  <2>2. Loop \in 0..Depth
    BY LoopFacts DEF IInv
  <2> QED BY <1>1, <1>2, <2>1, <2>2
<1>4. AddsSlot(Text, s, h)
  BY <1>1, <1>3, SectionNow, GenJmpForwardLonger DEF IInv
<1>5. Labels!Jump(l) /\ t \notin DOMAIN want
  BY <1>1, <1>2, <1>4, SlotJumps
<1>6. k \in 1..Len(Nest) /\ Labels!Innermost(k) /\ Nest[k].cont = l
  BY <1>1, <1>2, LoopInnermost
<1>7. Targets' = Targets
  BY <1>2, <1>5, SlotKeepsTargets
<1>8. Nest' = Nest
  BY <1>2, <1>3, HeadChanged DEF IInv
<1>9. Ret' = Ret
  BY <1>2, RetKept
<1> QED BY <1>2, <1>5, <1>6, <1>7, <1>8, <1>9 DEF Labels!Continue

\* if_statement up to its first statement
LEMMA IfHeadLabels == IInv /\ IInv' /\ Kept /\ IfHead => Labels!If
<1> SUFFICES ASSUME IInv, IInv', Kept, IfHead PROVE Labels!If
  OBVIOUS
<1>1. PICK n \in ExprSizes, form \in Conds :
        LET s == GenJcc(GenExpr(Text, n), form, 0)
        IN /\ Write(s)
           /\ stack' = Append(stack,
                [kind |-> "if", loop |-> Loop, a |-> LastSlot(s), b |-> 0,
                 c |-> 0, d |-> 0, l |-> labels])
           /\ Slot(LastSlot(s), labels)
  BY DEF IfHead
<1>2. PICK q, s, t, l, f : /\ q = GenExpr(Text, n) /\ s = GenJcc(q, form, 0)
                           /\ t = LastSlot(s) /\ l = labels
                           /\ f = [kind |-> "if", loop |-> Loop, a |-> t, b |-> 0,
                                   c |-> 0, d |-> 0, l |-> l]
  OBVIOUS
<1>3. Write(s) /\ stack' = Append(stack, f) /\ Slot(t, l)
  BY <1>1, <1>2
<1>4. /\ phase = "body" /\ labels' = labels + 2 /\ labels \in Nat
      /\ UNCHANGED <<phase, funcs, bound>>
  BY DEF IfHead, Read, Parsing, IInv, TypeOK
<1>5. AddsSlot(Text, s, 0)
  <2>1. Longer(Text, q) /\ q.text = Text.text
    BY <1>2, SectionNow, GenExprLonger, JumpGenAssumption DEF IInv
  <2>2. AddsSlot(q, s, 0)
    BY <1>2, <2>1, GenJccLonger DEF Longer
  <2> QED BY <2>1, <2>2, SectionNow, LongerAddsSlot DEF IInv
<1>6. Labels!Jump(l) /\ t \notin DOMAIN want
  BY <1>2, <1>3, <1>5, SlotJumps
<1>7. Targets' = Targets
  BY <1>3, <1>6, SlotKeepsTargets
<1>8. f \in Frame
  <2>1. t \in Nat
    BY <1>2, <1>5 DEF AddsSlot
  <2>2. Loop \in Nat
    BY LoopFacts, StackFacts DEF IInv
  <2> QED BY <1>2, <1>4, <2>1, <2>2 DEF Frame
<1>9. Nest' = Append(Nest, Nested(f))
  BY <1>3, <1>8, FrameAppended, NestPushed DEF IInv
<1>10. Nested(f) = [kind |-> "if", exit |-> l, cont |-> 0, step |-> 0]
  BY <1>2 DEF Nested
<1>11. Ret' = Ret
  BY <1>4, RetKept
<1>12. labels' > labels
  BY <1>4
<1> QED BY <1>2, <1>4, <1>6, <1>7, <1>9, <1>10, <1>11, <1>12 DEF Labels!If

\* A label that stands for an address now
LEMMA PutSame == \A f, x, v : Put(f, x, v) = Labels!Put(f, x, v)
BY DEF Put, Labels!Put

\* if_statement at KW_ELSE
LEMMA ElseLabels == IInv /\ IInv' /\ Kept /\ Else => Labels!Else
<1> SUFFICES ASSUME IInv, IInv', Kept, Else PROVE Labels!Else
  OBVIOUS
<1>1. PICK k, q, s, t, l, f, g :
        /\ k = Depth /\ f = stack[k] /\ q = f.l
        /\ s = GenJmpForward(Text, 0) /\ t = LastSlot(s) /\ l = labels
        /\ g = [f EXCEPT !.kind = "else", !.b = t, !.l = l]
  OBVIOUS
<1>2. /\ k \in 1..Depth /\ f.kind = "if" /\ f \in Frame /\ k \in Nat
      /\ k > 0 /\ Depth \in Nat
  BY <1>1, StackFacts DEF Else, Top, IInv
<1>3. /\ Write(s) /\ Slot(t, l)
      /\ stack' = [stack EXCEPT ![k] = g]
      /\ bound' = Put(bound, q, s.ind)
      /\ phase = "body" /\ labels' = labels + 2 /\ labels \in Nat
      /\ UNCHANGED <<phase, funcs>>
  BY <1>1 DEF Else, Top, Parsing, IInv, TypeOK
<1>4. AddsSlot(Text, s, 0)
  BY <1>1, SectionNow, GenJmpForwardLonger DEF IInv
<1>5. Labels!Jump(l) /\ t \notin DOMAIN want
  BY <1>1, <1>3, <1>4, SlotJumps
<1>6. Targets' = Targets
  BY <1>3, <1>5, SlotKeepsTargets
<1>7. bound' = Labels!Put(bound, q, ind')
  BY <1>3, PutSame DEF Write
<1>8. /\ Nest # <<>> /\ Labels!Last = Nested(f)
      /\ Labels!Pop \in Seq(NestedFrames) /\ Len(Labels!Pop) = k - 1
      /\ \A i \in 1..(k - 1) : Labels!Pop[i] = Nested(stack[i])
  BY <1>1, <1>2, NestPopped DEF IInv
<1>9. Labels!Last.kind = "if" /\ Labels!Last.exit = q
  BY <1>1, <1>2, <1>8 DEF Nested
<1>10. g \in Frame /\ g.kind = "else" /\ g.l = l
  <2>1. t \in Nat
    BY <1>1, <1>4 DEF AddsSlot
  <2> QED BY <1>1, <1>2, <1>3, <2>1 DEF Frame
<1>11. Nested(g) = [kind |-> "else", exit |-> l, cont |-> 0, step |-> 0]
  BY <1>10 DEF Nested
<1>12. /\ Depth' = k /\ stack'[k] = g
       /\ \A i \in 1..k : i # k => stack'[i] = stack[i]
  <2>1. stack \in Seq(Frame) /\ stack' = [stack EXCEPT ![k] = g] /\ k = Len(stack)
    BY <1>1, <1>3 DEF IInv, TypeOK, Depth
  <2>2. Len(stack') = k
    BY <1>2, <1>10, <2>1
  <2>3. stack'[k] = g /\ \A i \in 1..k : i # k => stack'[i] = stack[i]
    BY <1>2, <2>1
  <2> QED BY <2>2, <2>3 DEF Depth
<1>13. Nest' = Append(Labels!Pop, Nested(g))
  <2>1. PICK p, e, m : p = Labels!Pop /\ e = Nested(g) /\ m = Append(p, e)
    OBVIOUS
  <2>2. e \in NestedFrames
    BY <1>10, <2>1 DEF NestedFrames
  <2>3. /\ m \in Seq(NestedFrames) /\ Len(m) = k - 1 + 1 /\ m[k - 1 + 1] = e
        /\ \A i \in 1..(k - 1) : m[i] = p[i]
    BY <1>8, <2>1, <2>2, AppendProperties
  <2>4. k - 1 + 1 = k /\ \A i \in 1..k : i = k \/ i \in 1..(k - 1)
    BY <1>2
  <2>5. \A i \in 1..(k - 1) : i # k /\ i \in 1..k
    BY <1>2
  <2>6. Len(m) = Depth' /\ m[k] = e
    BY <1>12, <2>3, <2>4
  <2>7. \A i \in 1..Depth' : m[i] = Nested(stack'[i])
    BY <1>8, <1>12, <2>1, <2>3, <2>4, <2>5, <2>6
  <2>8. Nest' = m
    BY <2>3, <2>6, <2>7, NestIs DEF IInv
  <2> QED BY <2>1, <2>8
<1>14. Ret' = Ret
  BY <1>3, RetKept
<1>15. labels' > labels
  BY <1>3
<1> QED BY <1>1, <1>3, <1>5, <1>6, <1>7, <1>8, <1>9, <1>11, <1>13, <1>14, <1>15 DEF Labels!Else

\* A step that takes a frame off leaves the mapped ones below it.
LEMMA NestIsPop ==
  ASSUME TypeOK, TypeOK', Depth > 0, stack' = Pop
  PROVE  Nest' = Labels!Pop
<1>1. /\ Depth' = Depth - 1
      /\ \A i \in 1..(Depth - 1) : stack'[i] = stack[i]
  BY FramePopped
<1>2. PICK m : m = Labels!Pop
  OBVIOUS
<1>3. /\ m \in Seq(NestedFrames) /\ Len(m) = Depth'
      /\ \A i \in 1..Depth' : m[i] = Nested(stack'[i])
  BY <1>1, <1>2, NestPopped
<1> QED BY <1>2, <1>3, NestIs

\* The end of if_statement
LEMMA EndIfLabels == IInv /\ IInv' /\ Kept /\ EndIf => Labels!EndIf
<1> SUFFICES ASSUME IInv, IInv', Kept, EndIf PROVE Labels!EndIf
  OBVIOUS
<1>1. PICK f : f = stack[Depth]
  OBVIOUS
<1>2. /\ phase = "body" /\ Depth > 0 /\ f.kind \in {"if", "else"}
      /\ bound' = Put(bound, f.l, ind) /\ stack' = Pop
      /\ UNCHANGED <<phase, ind, text, funcs, want, open, labels>>
  BY <1>1 DEF EndIf, Parsing, Top
<1>3. Nest # <<>> /\ Labels!Last = Nested(f)
  BY <1>1, <1>2, NestPopped DEF IInv
<1>4. Labels!Last.kind \in {"if", "else"} /\ Labels!Last.exit = f.l
  BY <1>2, <1>3 DEF Nested
<1>5. Nest' = Labels!Pop
  BY <1>2, NestIsPop DEF IInv
<1>6. Targets' = Targets
  BY <1>2 DEF Targets
<1>7. bound' = Labels!Put(bound, f.l, ind)
  BY <1>2, PutSame
<1>8. Ret' = Ret
  BY <1>2, RetKept
<1> QED BY <1>2, <1>3, <1>4, <1>5, <1>6, <1>7, <1>8 DEF Labels!EndIf

\* for_statement after its body
LEMMA EndForLabels == IInv /\ IInv' /\ Kept /\ EndFor => Labels!EndFor
<1> SUFFICES ASSUME IInv, IInv', Kept, EndFor PROVE Labels!EndFor
  OBVIOUS
<1>1. PICK f, s : f = stack[Depth] /\ s = GenJmpBackward(Text, f.c)
  OBVIOUS
<1>2. /\ phase = "body" /\ Depth > 0 /\ f.kind = "for"
      /\ Write(s) /\ stack' = Pop
      /\ bound' = Put(Put(bound, f.l, s.ind), f.l + 1, f.c)
      /\ UNCHANGED <<phase, funcs, want, open, labels>>
  BY <1>1 DEF EndFor, Parsing, Top
<1>3. f.c \in Nat
  BY <1>1, <1>2, StackFacts DEF IInv
<1>4. ind' > ind
  BY <1>1, <1>2, <1>3, SectionNow, GenJmpBackwardLonger DEF IInv, Write, Text
<1>5. Nest # <<>> /\ Labels!Last = Nested(f)
  BY <1>1, <1>2, NestPopped DEF IInv
<1>6. /\ Labels!Last.kind = "for" /\ Labels!Last.exit = f.l
      /\ Labels!Last.cont = f.l + 1 /\ Labels!Last.step = f.c
  BY <1>2, <1>5 DEF Nested
<1>7. Nest' = Labels!Pop
  BY <1>2, NestIsPop DEF IInv
<1>8. Targets' = Targets
  BY <1>2, TargetsKept
<1>9. bound' = Labels!Put(Labels!Put(bound, f.l, ind'), f.l + 1, f.c)
  BY <1>2, PutSame DEF Write
<1>10. Ret' = Ret
  BY <1>2, RetKept
<1> QED BY <1>2, <1>4, <1>5, <1>6, <1>7, <1>8, <1>9, <1>10 DEF Labels!EndFor

\* break or continue outside of a loop
LEMMA StrayJumpLabels == IInv /\ StrayJump => Labels!Stray
<1> SUFFICES ASSUME IInv, StrayJump PROVE Labels!Stray
  OBVIOUS
<1>1. /\ phase = "body" /\ Loop = 0 /\ phase' = "crashed"
      /\ UNCHANGED <<ind, text, stack, funcs, want, bound, open, labels>>
  BY DEF StrayJump, Read, Parsing
<1>2. Depth \in Nat /\ \A j \in 1..Depth : stack[j].kind = "for" => j <= Loop
  BY LoopFacts, StackFacts DEF IInv
<1>3. \A j \in 1..Depth : stack[j].kind # "for"
  BY <1>1, <1>2
<1>4. \A i \in 1..Len(Nest) : Nest[i].kind # "for"
  BY <1>3, NestFacts DEF IInv, Nested
<1>5. Nest' = Nest /\ Targets' = Targets /\ Ret' = Ret
  BY <1>1 DEF Nest, Depth, Targets, Ret, ReturnLabel
<1> QED BY <1>1, <1>4, <1>5 DEF Labels!Stray

\* for_statement up to its body
LEMMA ForHeadLabels == IInv /\ IInv' /\ LayoutInv /\ Kept /\ ForHead => Labels!For
<1> SUFFICES ASSUME IInv, IInv', LayoutInv, Kept, ForHead PROVE Labels!For
  OBVIOUS
<1>z. TypeOK /\ CellsBelow /\ TypeOK' /\ CellsBelow' /\ Layout
  BY DEF IInv, LayoutInv
<1>y. TypeOK /\ CellsBelow
  BY DEF IInv
<1>0. PICK n0 \in ExprSizes, n1 \in ExprSizes, n2 \in ExprSizes,
           cond \in Conds \cup {"none"}, inc \in BOOLEAN :
       LET s0 == GenExpr(Text, n0)
           s1 == IF cond = "none" THEN s0 ELSE GenJcc(GenExpr(s0, n1), cond, 0)
           s2 == GenJmpForward(s1, 0)
           s3 == GenExpr(s2, n2)
           s4 == GenJmpBackward(s3, s2.ind)
           s  == IF inc THEN s4 ELSE s1
           d  == s0.ind
           c  == IF inc THEN s2.ind ELSE d
           a  == IF cond = "none" THEN 0 ELSE LastSlot(s1)
           e  == LastSlot(s2)
           slots == (IF cond = "none" THEN {} ELSE {a}) \cup (IF inc THEN {e} ELSE {})
           over  == labels + 2
       IN /\ Write(s)
          /\ stack' = Append(stack,
               [kind |-> "for", loop |-> Loop, a |-> a, b |-> 0,
                c |-> c, d |-> d, l |-> labels])
          /\ want' = [x \in DOMAIN want \cup slots |->
                        IF x \in DOMAIN want THEN want[x]
                        ELSE IF inc /\ x = e THEN over ELSE labels]
          /\ open' = open \cup slots
          /\ patching' = IF inc THEN <<Call(e, s.ind, over)>> ELSE <<>>
          /\ bound' = IF inc THEN Put(bound, over, s.ind) ELSE bound
          /\ backs' = IF inc THEN Put(backs, s3.ind, [dest |-> c, meant |-> d])
                      ELSE backs
  BY DEF ForHead
<1>1. PICK s0, s1, s2, s3, s4, s, d, c, a, e, slots, l, over, f :
        /\ s0 = GenExpr(Text, n0)
        /\ s1 = IF cond = "none" THEN s0 ELSE GenJcc(GenExpr(s0, n1), cond, 0)
        /\ s2 = GenJmpForward(s1, 0)
        /\ s3 = GenExpr(s2, n2)
        /\ s4 = GenJmpBackward(s3, s2.ind)
        /\ s  = IF inc THEN s4 ELSE s1
        /\ d  = s0.ind
        /\ c  = IF inc THEN s2.ind ELSE d
        /\ a  = IF cond = "none" THEN 0 ELSE LastSlot(s1)
        /\ e  = LastSlot(s2)
        /\ slots = (IF cond = "none" THEN {} ELSE {a}) \cup (IF inc THEN {e} ELSE {})
        /\ l = labels /\ over = labels + 2
        /\ f = [kind |-> "for", loop |-> Loop, a |-> a, b |-> 0,
                c |-> c, d |-> d, l |-> l]
  OBVIOUS
<1>2. /\ Write(s)
      /\ stack' = Append(stack, f)
      /\ want' = [x \in DOMAIN want \cup slots |->
                    IF x \in DOMAIN want THEN want[x]
                    ELSE IF inc /\ x = e THEN over ELSE l]
      /\ open' = open \cup slots
      /\ bound' = IF inc THEN Put(bound, over, s.ind) ELSE bound
  BY <1>0, <1>1
<1>3. /\ phase = "body" /\ UNCHANGED <<phase, funcs>>
      /\ labels' = labels + 3
  BY DEF ForHead, Read, Parsing
<1>4. /\ Longer(Text, s)
      /\ s0.ind \in Nat /\ s2.ind \in Nat
      /\ cond # "none" => a \in Nat \ {0} /\ a >= ind /\ a \in DOMAIN s.text /\ s.text[a] = 0
      /\ inc => e \in Nat \ {0} /\ e >= ind /\ e \in DOMAIN s.text /\ s.text[e] = 0
      /\ inc => e # a
  BY <1>y, <1>1, ForSections
<1>5. ForLaid(s, s0, s2, s3, a, e, cond, inc)
  BY <1>z, <1>1, ForCode
<1>6. ind' \in Nat /\ ind \in Nat /\ ind' >= ind /\ s.ind = ind' /\ s.text = text'
  BY <1>z, <1>2, <1>4 DEF Longer, Write, Text, TypeOK
<1>7. c \in Nat /\ c >= ind /\ c <= ind'
  <2>1. \A p \in DOMAIN s.code : p \in Nat /\ p <= s.ind
    BY <1>5 DEF ForLaid, Appends, Below
  <2>2. s0.ind \in Nat /\ s0.ind >= ind /\ s0.ind <= s.ind
    BY <1>5, <1>6, <2>1 DEF ForLaid
  <2>3. inc => s2.ind \in Nat /\ s2.ind >= ind /\ s2.ind <= s.ind
    BY <1>5, <2>1 DEF ForLaid
  <2> QED BY <1>1, <1>6, <2>2, <2>3
<1>8. \A x \in slots : x \in Nat \ {0} /\ x >= ind /\ x < ind' /\ x \notin DOMAIN want
  <2>1. \A x \in slots : x \in Nat \ {0} /\ x >= ind /\ x \in DOMAIN text'
    BY <1>1, <1>4, <1>6
  <2>2. \A x \in DOMAIN text' : x < ind'
    BY <1>z DEF CellsBelow
  <2>3. \A x \in DOMAIN want : ~ (x >= ind)
    <3>1. DOMAIN want \subseteq DOMAIN text /\ DOMAIN text \subseteq Nat
      BY <1>z DEF TypeOK
    <3>2. \A x \in DOMAIN text : x < ind
      BY <1>z DEF CellsBelow
    <3> QED BY <1>6, <3>1, <3>2
  <2> QED BY <2>1, <2>2, <2>3
<1>9. /\ DOMAIN want \subseteq DOMAIN want'
      /\ \A x \in DOMAIN want' : IF x \in DOMAIN want THEN want'[x] = want[x]
                                 ELSE /\ x \in ind .. ind' - 1
                                      /\ want'[x] \in {labels, labels + 2}
  <2>1. DOMAIN want' = DOMAIN want \cup slots
    BY <1>2
  <2>2. \A x \in slots : x \in ind .. ind' - 1
    BY <1>6, <1>8
  <2>3. \A x \in DOMAIN want' : x \in DOMAIN want \/ x \in slots
    BY <2>1
  <2>4. \A x \in DOMAIN want : want'[x] = want[x]
    BY <1>2
  <2>5. \A x \in slots : want'[x] \in {labels, labels + 2}
    BY <1>1, <1>2, <1>8
  <2> QED BY <2>1, <2>2, <2>3, <2>4, <2>5
<1>10. DOMAIN want' \ open' = DOMAIN want \ open
  <2>1. DOMAIN want' = DOMAIN want \cup slots
    BY <1>2
  <2> QED BY <1>2, <1>8, <2>1
<1>11. Targets' = Targets
  BY <1>10, TargetsKept
<1>12. bound' \in {bound, Labels!Put(bound, labels + 2, ind')}
  BY <1>1, <1>2, <1>6, PutSame
<1>13. f \in Frame
  <2>1. a \in Nat /\ l \in Nat
    BY <1>z, <1>1, <1>4 DEF TypeOK
  <2>2. Loop \in Nat
    BY LoopFacts, StackFacts DEF IInv
  <2> QED BY <1>1, <1>4, <1>7, <2>1, <2>2 DEF Frame
<1>14. Nest' = Append(Nest, Nested(f))
  BY <1>2, <1>13, <1>z, FrameAppended, NestPushed
<1>15. Nested(f) = [kind |-> "for", exit |-> labels, cont |-> labels + 1, step |-> c]
  BY <1>1 DEF Nested
<1>16. Ret' = Ret
  BY <1>3, RetKept
<1>17. c \in ind .. ind'
  BY <1>6, <1>7
<1>18. \E step \in ind .. ind' :
         Nest' = Append(Nest, [kind |-> "for", exit |-> labels, cont |-> labels + 1,
                               step |-> step])
  BY <1>14, <1>15, <1>17
<1> QED BY <1>3, <1>6, <1>9, <1>11, <1>12, <1>16, <1>18 DEF Labels!For

\* funcbody up to its compound_statement
LEMMA OpenFuncLabels == IInv /\ IInv' /\ OpenFunc => Labels!Begin
<1> SUFFICES ASSUME IInv, IInv', OpenFunc PROVE Labels!Begin
  OBVIOUS
<1>1. /\ phase = "outside" /\ phase' = "body" /\ ind' = ind + FUNC_PROLOG_SIZE
      /\ labels' = labels + 1 /\ UNCHANGED <<text, stack, want, bound, open>>
  BY DEF OpenFunc
<1>2. ind \in Nat /\ ind' >= ind
  BY <1>1 DEF IInv, TypeOK, FUNC_PROLOG_SIZE
<1>3. PICK stdcall \in BOOLEAN, bytes \in ParamBytes \cup {-1} :
        funcs' = Append(funcs, [begin |-> ind, stdcall |-> stdcall,
                                bytes |-> IF bytes = -1 THEN 0 ELSE bytes,
                                pops |-> 0, ret |-> labels])
  BY DEF OpenFunc
<1>4. PICK f : f = [begin |-> ind, stdcall |-> stdcall,
                    bytes |-> IF bytes = -1 THEN 0 ELSE bytes,
                    pops |-> 0, ret |-> labels]
  OBVIOUS
<1>5. funcs \in Seq(Func) /\ f \in Func /\ f.ret = labels /\ funcs' = Append(funcs, f)
  BY <1>2, <1>3, <1>4, JumpGenAssumption DEF IInv, TypeOK, Func
<1>6. /\ funcs' # <<>> /\ Len(funcs') = Len(funcs) + 1 /\ Len(funcs) \in Nat
      /\ funcs'[Len(funcs) + 1] = f
  BY <1>5
<1>7. Ret' = labels
  BY <1>5, <1>6 DEF Ret, ReturnLabel
<1>8. Nest' = Nest /\ Targets' = Targets
  BY <1>1 DEF Nest, Depth, Targets
<1> QED BY <1>1, <1>2, <1>7, <1>8 DEF Labels!Begin

\* funcbody after its compound_statement
LEMMA CloseBodyLabels == IInv /\ CloseBody => Labels!Close
<1> SUFFICES ASSUME IInv, CloseBody PROVE Labels!Close
  OBVIOUS
<1>1. PICK r : r = ReturnLabel
  OBVIOUS
<1>2. /\ phase = "body" /\ Depth = 0 /\ phase' = "epilog" /\ bound' = Put(bound, r, ind)
      /\ UNCHANGED <<ind, text, stack, funcs, want, open, labels>>
  BY <1>1 DEF CloseBody, Parsing
<1>3. Ret = r
  BY <1>1, <1>2 DEF Ret, IInv, PhaseShape
<1>4. Nest = <<>>
  BY <1>2 DEF Nest
<1>5. Nest' = Nest /\ Targets' = Targets
  BY <1>2 DEF Nest, Depth, Targets
<1>6. Ret' = Ret
  BY <1>2, RetKept
<1>7. bound' = Labels!Put(bound, r, ind)
  BY <1>2, PutSame
<1> QED BY <1>2, <1>3, <1>4, <1>5, <1>6, <1>7 DEF Labels!Close

\* The epilogue: every jump of the function has its target.
LEMMA GenEpilogLabels == IInv /\ IInv' /\ LayoutInv /\ Kept /\ GenEpilog => Labels!Finish
<1> SUFFICES ASSUME IInv, IInv', LayoutInv, Kept, GenEpilog PROVE Labels!Finish
  OBVIOUS
<1>1. /\ phase = "epilog" /\ patching = <<>> /\ phase' = "outside"
      /\ UNCHANGED <<stack, want, bound, open, labels>>
      /\ funcs' = [funcs EXCEPT ![Len(funcs)].pops = func_ret_sub]
  BY DEF GenEpilog
<1>2. open = {}
  BY <1>1, NothingPending DEF IInv
<1>3. Labels!Resolved
  BY <1>2 DEF Labels!Resolved, Targets
<1>4. ind' > ind
  BY EpilogCode DEF IInv, LayoutInv
<1>5. Targets' = Targets
  BY <1>1, TargetsKept
<1>6. Nest' = Nest
  BY <1>1 DEF Nest, Depth
<1>7. Ret' = Ret
  <2>1. funcs \in Seq(Func) /\ Len(funcs) \in Nat /\ Len(funcs) > 0
    <3>1. funcs \in Seq(Func)
      BY DEF IInv, TypeOK
    <3>2. Len(funcs) > 0
      BY <1>1 DEF IInv, PhaseShape
    <3> QED BY <3>1, <3>2, StackFacts DEF IInv
  <2>2. PICK k, f, v : k = Len(funcs) /\ f = funcs[k] /\ v = [f EXCEPT !.pops = func_ret_sub]
    OBVIOUS
  <2>3. f \in Func /\ v.ret = f.ret
    <3>1. f \in Func
      BY <2>1, <2>2, ElementOfSeq
    <3> QED BY <2>2, <3>1 DEF Func
  <2>4. v \in Func
    <3>1. func_ret_sub \in Nat
      BY DEF IInv, TypeOK
    <3> QED BY <2>2, <2>3, <3>1 DEF Func
  <2>5. funcs' = [funcs EXCEPT ![k] = v]
    BY <1>1, <2>2
  <2>6. Len(funcs') = k /\ funcs'[k] = v
    BY <2>1, <2>2, <2>4, <2>5
  <2>7. funcs # <<>> /\ funcs' # <<>>
    BY <2>1, <2>2, <2>6
  <2> QED BY <2>2, <2>3, <2>6, <2>7 DEF Ret, ReturnLabel
<1> QED BY <1>1, <1>3, <1>4, <1>5, <1>6, <1>7 DEF Labels!Finish

\* An iteration of backpatch gives one jump its target.
LEMMA BackpatchLabels == IInv /\ IInv' /\ Kept /\ Backpatch => Labels!Resolve
<1> SUFFICES ASSUME IInv, IInv', Kept, Backpatch PROVE Labels!Resolve
  OBVIOUS
<1>0. PICK c, t, a, l : c = patching[1] /\ t = c.t /\ a = c.a /\ l = c.l
  OBVIOUS
<1>1. /\ patching # <<>> /\ Head(patching) = c /\ Len(patching) > 0
      /\ patching \in Seq(Pending) /\ Len(patching) \in Nat
  BY <1>0 DEF Backpatch, IInv, TypeOK
<1>2. /\ t # 0 /\ text' = [text EXCEPT ![t] = Displacement(t, a)] /\ open' = open \ {t}
      /\ UNCHANGED <<phase, ind, stack, funcs, want, bound, labels>>
  BY <1>0, <1>1 DEF Backpatch
<1>3. l \in DOMAIN bound /\ a = bound[l] /\ Threaded(t, Waiting(l))
  <2>1. 1 \in 1..Len(patching)
    BY <1>1
  <2> QED BY <1>0, <2>1 DEF IInv, CallsBound, ListsThreaded
<1>4. t \in open /\ want[t] = l /\ t \in DOMAIN want /\ t \in DOMAIN text
  BY <1>2, <1>3 DEF Threaded, ThreadedIn, Waiting, IInv, TypeOK
<1>5. t \in Int /\ a \in Int /\ text'[t] + t + 4 = a
  <2>1. t \in Int /\ a \in Int
    BY <1>0, <1>1, StackFacts DEF IInv
  <2>2. text'[t] = a - t - 4
    BY <1>2, <1>4 DEF Displacement
  <2> QED BY <2>1, <2>2
<1>6. DOMAIN want' \ open' = (DOMAIN want \ open) \cup {t}
  BY <1>2, <1>4
<1>7. \A x \in DOMAIN want \ open : x # t /\ text'[x] = text[x]
  BY <1>4 DEF Kept
<1>8. Targets' = Labels!Put(Targets, t, a)
  <2>1. Targets' = [x \in (DOMAIN want \ open) \cup {t} |-> text'[x] + x + 4]
    BY <1>6 DEF Targets
  <2>2. DOMAIN Targets = DOMAIN want \ open /\ \A x \in DOMAIN Targets : Targets[x] = text[x] + x + 4
    BY DEF Targets
  <2> QED BY <1>5, <1>7, <2>1, <2>2 DEF Labels!Put
<1>9. t \in DOMAIN want \ DOMAIN Targets
  BY <1>4 DEF Targets
<1>10. Nest' = Nest
  BY <1>2 DEF Nest, Depth
<1>11. Ret' = Ret
  BY <1>2, RetKept
<1> QED BY <1>2, <1>3, <1>4, <1>8, <1>9, <1>10, <1>11 DEF Labels!Resolve

\* A step that leaves what is mapped
LEMMA Stutters ==
  UNCHANGED <<phase, ind, text, stack, funcs, want, bound, open, labels>>
    => UNCHANGED Labels!vars
BY DEF Labels!vars, Nest, Depth, Targets, Ret, ReturnLabel

-----------------------------------------------------------------------------
(* The specification.                                                      *)

\* Every step of the parser is a step of the labels, or leaves them.
LEMMA NextLabels ==
  IInv /\ IInv' /\ LayoutInv /\ Kept /\ [Next]_vars => [Labels!Next]_(Labels!vars)
<1> SUFFICES ASSUME IInv, IInv', LayoutInv, Kept, [Next]_vars
             PROVE  Labels!Next \/ UNCHANGED Labels!vars
  OBVIOUS
<1>1. CASE Statement
  BY <1>1, ExprStmtLabels, IfHeadLabels, ForHeadLabels, BreakLabels, ContinueLabels,
     ReturnLabels, StrayJumpLabels DEF Statement, Labels!Next
<1>2. CASE Block
  BY <1>2, ElseLabels, EndIfLabels, EndForLabels DEF Block, Labels!Next
<1>3. CASE Function
  BY <1>3, OpenFuncLabels, CloseBodyLabels, GenEpilogLabels DEF Function, Labels!Next
<1>4. CASE Backpatch
  BY <1>4, BackpatchLabels DEF Labels!Next
<1>5. CASE BackpatchReturns
  BY <1>5, Stutters DEF BackpatchReturns, history
<1>6. CASE UNCHANGED vars
  BY <1>6, Stutters DEF vars, state, history
<1> QED BY <1>1, <1>2, <1>3, <1>4, <1>5, <1>6 DEF Next, Patch, EndOfFile

\* The code generator with its lists in .text gives every jump the target its
\* statement calls for: break and continue those of the innermost for, return
\* the end of its function, and no function ends before.
THEOREM JumpGenImplementsLabels == Spec => ImplementsLabels
<1>1. Init => Labels!Init
  BY InitLabels
<1>2. /\ IInv /\ LayoutInv /\ [Next]_vars => Kept /\ [Labels!Next]_(Labels!vars)
  BY NextInv, NextLabels
<1> QED BY <1>1, <1>2, LayoutCorrect, PTL DEF Spec, ImplementsLabels, Labels!Spec
=============================================================================
