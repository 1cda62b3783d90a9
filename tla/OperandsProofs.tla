--------------------------- MODULE OperandsProofs ---------------------------
(***************************************************************************)
(* Proofs about Operands, for programs of any set of operators and operand *)
(* stacks of any height: through every load and spill an operand is where  *)
(* its fields say, no two are in the same register, and what the code      *)
(* stores, passes, tests and returns is the value the source says.         *)
(*                                                                         *)
(* The lemmas follow the calls of the generator: each takes a good state   *)
(* to a good one (Good), as the model's operators do.                      *)
(***************************************************************************)
EXTENDS Operands, SequenceTheorems, WellFoundedInduction, TLAPS

-----------------------------------------------------------------------------
(* Numbers, tokens and sequences.                                          *)

\* A set of natural numbers has a lowest member.
LEMMA LowestExists ==
  ASSUME NEW S \in SUBSET Nat, S # {}
  PROVE  Min(S) \in S /\ \A k \in S : Min(S) <= k
<1> DEFINE R == OpToRel(<, Nat)
<1>1. IsWellFoundedOn(R, Nat)
  BY NatLessThanWellFounded
<1>2. \A k, m \in Nat : k < m => <<k, m>> \in R
  BY DEF OpToRel
<1> HIDE DEF R
<1>3. S \subseteq Nat
  OBVIOUS
<1>4. PICK k \in S : \A m \in S : ~ (<<m, k>> \in R)
  BY <1>1, <1>3, WFMin
<1>5. \A m \in S : m \in Nat /\ ~ (m < k)
  BY <1>2, <1>3, <1>4
<1>6. \A m \in S : k <= m
  BY <1>3, <1>5
<1> QED BY <1>6 DEF Min

\* Finitely many numbers have a highest one.
LEMMA HighestExists ==
  ASSUME NEW n \in Nat, NEW f \in [1 .. n -> Nat]
  PROVE  LET S == {0} \cup {f[i] : i \in 1 .. n}
         IN Max(S) \in Nat /\ \A i \in 1 .. n : f[i] <= Max(S)
<1> DEFINE Below(k, b) == \A i \in 1 .. k : f[i] <= b
           Unbounded == {k \in 0 .. n : \A b \in Nat : ~ Below(k, b)}
           Bounds == {b \in Nat : Below(n, b)}
           S == {0} \cup {f[i] : i \in 1 .. n}
<1>1. Unbounded = {}
  <2> SUFFICES ASSUME Unbounded # {} PROVE FALSE
    OBVIOUS
  <2>0. Unbounded \in SUBSET Nat
    OBVIOUS
  <2>1. PICK k \in Unbounded : \A m \in Unbounded : k <= m
    <3> HIDE DEF Unbounded
    <3> QED BY <2>0, LowestExists
  <2>2. k \in 0 .. n /\ \A b \in Nat : ~ Below(k, b)
    OBVIOUS
  <2>3. k # 0
    <3>1. Below(0, 0)
      OBVIOUS
    <3> QED BY <2>2, <3>1
  <2>4. k - 1 \in 0 .. n /\ ~ (k <= k - 1)
    BY <2>2, <2>3
  <2>5. PICK b \in Nat : Below(k - 1, b)
    BY <2>1, <2>4
  <2> HIDE DEF Unbounded, Bounds, S
  <2>6. k \in 1 .. n /\ f[k] \in Nat
    BY <2>2, <2>3
  <2>7. PICK c \in Nat : b <= c /\ f[k] <= c
    <3>1. b <= f[k] \/ f[k] <= b
      BY <2>6
    <3> QED BY <2>6, <3>1
  <2>8. Below(k, c)
    BY <2>5, <2>6, <2>7
  <2> QED BY <2>2, <2>8
<1>2. n \in 0 .. n
  OBVIOUS
<1>3. Bounds # {} /\ Bounds \in SUBSET Nat
  BY <1>1, <1>2
<1>4. PICK b \in Bounds : \A c \in Bounds : b <= c
  <2> HIDE DEF Bounds
  <2> QED BY <1>3, LowestExists
<1>5. b \in S
  <2> SUFFICES ASSUME b # 0, \A i \in 1 .. n : f[i] # b PROVE FALSE
    OBVIOUS
  <2>1. b - 1 \in Nat
    BY <1>4
  <2>2. Below(n, b - 1)
    BY <1>4, <2>1
  <2> QED BY <1>4, <2>1, <2>2
<1>6. S \subseteq Nat /\ \A x \in S : b >= x
  BY <1>4
<1>7. Max(S) \in S /\ \A x \in S : Max(S) >= x
  BY <1>5, <1>6 DEF Max
<1>8. \A i \in 1 .. n : f[i] \in S
  OBVIOUS
<1> HIDE DEF S
<1>9. Max(S) \in Nat /\ \A i \in 1 .. n : f[i] <= Max(S)
  BY <1>6, <1>7, <1>8
<1> QED BY <1>9 DEF S

LEMMA TokenFacts ==
  ASSUME NEW t \in Tokens
  PROVE  /\ t[1] \in Nat /\ t[2] \in Int /\ t = <<t[1], t[2]>>
         /\ Reads(t) \in Tokens /\ Reads(t)[1] = t[1]
         /\ Points(t) \in Int \X Int /\ Points(t)[1] = t[1]
         /\ t[1] # 0 => Points(t) \in Tokens
<1>1. t[1] \in Nat /\ t[2] \in Int /\ t = <<t[1], t[2]>>
  BY DEF Tokens
<1>2. t[2] + 1 \in Int /\ t[2] - 1 \in Int
  BY <1>1
<1> QED BY <1>1, <1>2 DEF Tokens, Reads, Points, Junk

\* What is read through a pointer is what it points to.
LEMMA ReadsPoints ==
  ASSUME NEW t \in Tokens, NEW u \in Tokens, Reads(t) = u, u[1] # 0
  PROVE  t = Points(u) /\ t[1] = u[1]
<1>1. t # Junk
  BY DEF Reads, Junk
<1>2. u = <<t[1], t[2] + 1>>
  BY <1>1 DEF Reads
<1>3. u[1] = t[1] /\ u[2] = t[2] + 1
  BY <1>2
<1>4. u[2] - 1 = t[2]
  BY <1>3, TokenFacts
<1> QED BY <1>3, <1>4, TokenFacts DEF Points

LEMMA PointsReads ==
  ASSUME NEW t \in Tokens, t[1] # 0
  PROVE  /\ Reads(Points(t)) = t
         /\ Reads(t) = <<t[1], t[2] + 1>>
<1>1. t[1] \in Nat /\ t[2] \in Int /\ t = <<t[1], t[2]>>
  BY TokenFacts
<1>2. Points(t) = <<t[1], t[2] - 1>> /\ Points(t) # Junk
  BY <1>1 DEF Points, Junk
<1>3. Reads(Points(t)) = <<t[1], t[2] - 1 + 1>>
  BY <1>2 DEF Reads
<1>4. t[2] - 1 + 1 = t[2]
  BY <1>1
<1>5. t # Junk
  BY DEF Junk
<1> QED BY <1>1, <1>3, <1>4, <1>5 DEF Reads

-----------------------------------------------------------------------------
(* States.                                                                 *)

LEMMA StackTyped ==
  ASSUME NEW s \in States
  PROVE  /\ s.stack \in Seq(Operand) /\ Len(s.stack) \in Nat
         /\ DOMAIN s.stack = 1 .. Len(s.stack)
         /\ \A i \in 1 .. Len(s.stack) : s.stack[i] \in Operand
<1>1. s.stack \in Seq(Operand)
  BY DEF States
<1> QED BY <1>1, LenProperties, ElementOfSeq

LEMMA OperandTyped ==
  ASSUME NEW o \in Operand
  PROVE  /\ o.r \in Regs \cup (SC_GLOBAL .. SC_CMP) /\ o.lval \in BOOLEAN
         /\ o.base \in Tokens /\ o.stands \in Tokens /\ o.type \in Types
         /\ o.object \in BOOLEAN /\ o.value \in Int
BY DEF Operand

LEMMA ValueTyped ==
  ASSUME NEW s \in States, NEW o \in Operand
  PROVE  ValueOf(s, o) \in Tokens
<1>1. /\ s.reg \in [Regs -> Tokens] /\ s.flags \in Tokens /\ s.frame.holds \in Tokens
      /\ o.base \in Tokens
  BY DEF States, Operand
<1>2. Junk \in Tokens
  BY DEF Junk, Tokens
<1>3. ASSUME NEW t \in Tokens PROVE Reads(t) \in Tokens
  BY TokenFacts
<1> HIDE DEF Tokens, Reads
<1> QED BY <1>1, <1>2, <1>3 DEF ValueOf

\* What an operand says where its value is does not depend on the rest.
LEMMA SameValue ==
  ASSUME NEW s, NEW t, NEW o,
         o.r \in Regs => t.reg[o.r] = s.reg[o.r],
         o.r = SC_CMP => t.flags = s.flags,
         InFrame(o) => t.frame = s.frame
  PROVE  ValueOf(t, o) = ValueOf(s, o)
BY DEF ValueOf

LEMMA StillReachable ==
  ASSUME NEW s, NEW t, NEW i, NEW j, t.stack[j] = s.stack[i], Reachable(s, i),
         s.stack[i].r \in Regs => t.reg[s.stack[i].r] = s.reg[s.stack[i].r],
         s.stack[i].r = SC_CMP => t.flags = s.flags,
         InFrame(s.stack[i]) => t.frame = s.frame
  PROVE  Reachable(t, j)
<1>1. ValueOf(t, s.stack[i]) = ValueOf(s, s.stack[i])
  BY SameValue
<1> QED BY <1>1 DEF Reachable, Holds

LEMMA FreshIs ==
  ASSUME NEW s \in States
  PROVE  /\ FreshId(s) \in Nat /\ FreshId(s) # 0
         /\ \A i \in 1 .. Len(s.stack) : s.stack[i].stands[1] # FreshId(s)
<1> DEFINE f == [i \in 1 .. Len(s.stack) |-> s.stack[i].stands[1]]
           S == {0} \cup {f[i] : i \in 1 .. Len(s.stack)}
<1>1. Len(s.stack) \in Nat /\ DOMAIN s.stack = 1 .. Len(s.stack)
  BY StackTyped
<1>2. \A i \in 1 .. Len(s.stack) : s.stack[i].stands[1] \in Nat
  BY StackTyped, OperandTyped, TokenFacts
<1>3. f \in [1 .. Len(s.stack) -> Nat]
  BY <1>2
<1>4. S = {0} \cup {s.stack[i].stands[1] : i \in DOMAIN s.stack}
  BY <1>1
<1>5. Max(S) \in Nat /\ \A i \in 1 .. Len(s.stack) : f[i] <= Max(S)
  <2> HIDE DEF f
  <2> QED BY <1>1, <1>3, HighestExists
<1>6. FreshId(s) = 1 + Max(S)
  BY <1>4 DEF FreshId
<1> HIDE DEF S
<1>7. \A i \in 1 .. Len(s.stack) : s.stack[i].stands[1] <= Max(S)
  BY <1>5
<1> QED BY <1>2, <1>5, <1>6, <1>7

LEMMA GoodTyped ==
  ASSUME NEW s, Good(s)
  PROVE  /\ s \in States
         /\ s.stack \in Seq(Operand) /\ Len(s.stack) \in Nat
         /\ DOMAIN s.stack = 1 .. Len(s.stack)
         /\ \A i \in 1 .. Len(s.stack) : s.stack[i] \in Operand
BY StackTyped DEF Good

\* The operands are the same ones, fewer or in another order.
LEMMA Rearranged ==
  ASSUME NEW s, Good(s), NEW t \in States,
         NEW h \in [1 .. Len(t.stack) -> 1 .. Len(s.stack)],
         \A i, j \in 1 .. Len(t.stack) : h[i] = h[j] => i = j,
         \A i \in 1 .. Len(t.stack) : t.stack[i] = s.stack[h[i]],
         t.reg = s.reg, t.flags = s.flags, t.frame = s.frame,
         ~ t.lost => ~ s.lost /\ t.right
  PROVE  Good(t)
<1>1. \A i \in 1 .. Len(t.stack) : h[i] \in 1 .. Len(s.stack)
  OBVIOUS
<1>2. Apart(t)
  <2> SUFFICES ASSUME NEW i \in 1 .. Len(t.stack), NEW j \in 1 .. Len(t.stack),
                      t.stack[i].r = t.stack[j].r, t.stack[i].r \in Regs
               PROVE  i = j
    BY DEF Apart
  <2>1. h[i] \in 1 .. Len(s.stack) /\ h[j] \in 1 .. Len(s.stack)
    BY <1>1
  <2>2. s.stack[h[i]].r = s.stack[h[j]].r /\ s.stack[h[i]].r \in Regs
    OBVIOUS
  <2>3. h[i] = h[j]
    BY <2>1, <2>2 DEF Good, Apart
  <2> QED BY <2>3
<1>3. Numbered(t)
  <2>1. ASSUME NEW i \in 1 .. Len(t.stack) PROVE t.stack[i].stands[1] # 0
    <3>1. h[i] \in 1 .. Len(s.stack) /\ t.stack[i] = s.stack[h[i]]
      BY <1>1
    <3>2. s.stack[h[i]].stands[1] # 0
      BY <3>1 DEF Good, Numbered
    <3> QED BY <3>1, <3>2
  <2>2. ASSUME NEW i \in 1 .. Len(t.stack), NEW j \in 1 .. Len(t.stack),
               t.stack[i].stands[1] = t.stack[j].stands[1]
        PROVE  i = j
    <3>1. h[i] \in 1 .. Len(s.stack) /\ h[j] \in 1 .. Len(s.stack)
      BY <1>1
    <3>2. s.stack[h[i]].stands[1] = s.stack[h[j]].stands[1]
      BY <2>2
    <3>3. h[i] = h[j]
      BY <3>1, <3>2 DEF Good, Numbered
    <3> QED BY <3>3
  <2> QED BY <2>1, <2>2 DEF Numbered
<1>4. ASSUME ~ t.lost, NEW i \in 1 .. Len(t.stack)
      PROVE  Reachable(t, i)
  <2>1. Reachable(s, h[i])
    BY <1>1, <1>4 DEF Good
  <2>2. PICK k : k = h[i]
    OBVIOUS
  <2>3. /\ t.stack[i] = s.stack[k] /\ Reachable(s, k)
        /\ t.reg[s.stack[k].r] = s.reg[s.stack[k].r]
        /\ t.flags = s.flags /\ t.frame = s.frame
    BY <2>1, <2>2
  <2> QED BY <2>3, StillReachable
<1> QED BY <1>2, <1>3, <1>4 DEF Good

\* Operand k is new or another one.
LEMMA OneChanged ==
  ASSUME NEW s, Good(s), NEW t \in States, NEW k \in 1 .. Len(t.stack),
         \A j \in 1 .. Len(t.stack) : j # k =>
           j \in 1 .. Len(s.stack) /\ t.stack[j] = s.stack[j],
         \A j \in 1 .. Len(t.stack) : j # k =>
           /\ t.stack[k].r \in Regs => s.stack[j].r # t.stack[k].r
           /\ s.stack[j].stands[1] # t.stack[k].stands[1],
         t.stack[k].stands[1] # 0,
         ~ t.lost => ~ s.lost /\ t.right /\ Reachable(t, k),
         ~ t.lost => \A j \in 1 .. Len(t.stack) : j # k =>
           /\ s.stack[j].r \in Regs => t.reg[s.stack[j].r] = s.reg[s.stack[j].r]
           /\ s.stack[j].r = SC_CMP => t.flags = s.flags
           /\ InFrame(s.stack[j]) => t.frame = s.frame
  PROVE  Good(t)
<1>1. Apart(t)
  <2> SUFFICES ASSUME NEW i \in 1 .. Len(t.stack), NEW j \in 1 .. Len(t.stack),
                      t.stack[i].r = t.stack[j].r, t.stack[i].r \in Regs
               PROVE  i = j
    BY DEF Apart
  <2>1. CASE i # k /\ j # k
    BY <2>1 DEF Good, Apart
  <2>2. CASE i = k /\ j # k
    <3>1. t.stack[j] = s.stack[j] /\ t.stack[k].r \in Regs
      BY <2>2
    <3> QED BY <2>2, <3>1
  <2>3. CASE i # k /\ j = k
    <3>1. t.stack[i] = s.stack[i] /\ t.stack[k].r \in Regs
      BY <2>3
    <3> QED BY <2>3, <3>1
  <2> QED BY <2>1, <2>2, <2>3
<1>2. Numbered(t)
  <2>1. ASSUME NEW i \in 1 .. Len(t.stack) PROVE t.stack[i].stands[1] # 0
    <3>1. CASE i # k
      <4>1. i \in 1 .. Len(s.stack) /\ t.stack[i] = s.stack[i]
        BY <3>1
      <4>2. s.stack[i].stands[1] # 0
        BY <4>1 DEF Good, Numbered
      <4> QED BY <4>1, <4>2
    <3> QED BY <3>1
  <2>2. ASSUME NEW i \in 1 .. Len(t.stack), NEW j \in 1 .. Len(t.stack),
               t.stack[i].stands[1] = t.stack[j].stands[1]
        PROVE  i = j
    <3>1. CASE i # k /\ j # k
      <4>1. /\ i \in 1 .. Len(s.stack) /\ t.stack[i] = s.stack[i]
            /\ j \in 1 .. Len(s.stack) /\ t.stack[j] = s.stack[j]
        BY <3>1
      <4>2. s.stack[i].stands[1] = s.stack[j].stands[1]
        BY <2>2, <4>1
      <4> QED BY <4>1, <4>2 DEF Good, Numbered
    <3>2. CASE i = k /\ j # k
      <4>1. t.stack[j] = s.stack[j]
        BY <3>2
      <4> QED BY <2>2, <3>2, <4>1
    <3>3. CASE i # k /\ j = k
      <4>1. t.stack[i] = s.stack[i]
        BY <3>3
      <4> QED BY <2>2, <3>3, <4>1
    <3> QED BY <3>1, <3>2, <3>3
  <2> QED BY <2>1, <2>2 DEF Numbered
<1>3. ASSUME ~ t.lost, NEW i \in 1 .. Len(t.stack), i # k
      PROVE  Reachable(t, i)
  <2>1. Reachable(s, i) /\ t.stack[i] = s.stack[i]
    BY <1>3 DEF Good
  <2>2. /\ s.stack[i].r \in Regs => t.reg[s.stack[i].r] = s.reg[s.stack[i].r]
        /\ s.stack[i].r = SC_CMP => t.flags = s.flags
        /\ InFrame(s.stack[i]) => t.frame = s.frame
    BY <1>3
  <2> QED BY <2>1, <2>2, StillReachable
<1> QED BY <1>1, <1>2, <1>3 DEF Good

-----------------------------------------------------------------------------
(* The operand stack.                                                      *)

LEMMA LoseIfGood ==
  ASSUME NEW s, Good(s), NEW bad \in BOOLEAN
  PROVE  /\ Good(LoseIf(s, bad))
         /\ LoseIf(s, bad).stack = s.stack /\ LoseIf(s, bad).reg = s.reg
         /\ LoseIf(s, bad).flags = s.flags /\ LoseIf(s, bad).frame = s.frame
         /\ LoseIf(s, bad).right = s.right
         /\ LoseIf(s, bad).lost = (s.lost \/ bad)
<1> DEFINE t == LoseIf(s, bad)
<1>1. s \in States /\ Len(s.stack) \in Nat
  BY GoodTyped
<1>2. t = [s EXCEPT !.lost = s.lost \/ bad]
  BY DEF LoseIf
<1>3. /\ t \in States /\ t.stack = s.stack /\ t.reg = s.reg /\ t.flags = s.flags
      /\ t.frame = s.frame /\ t.right = s.right /\ t.lost = (s.lost \/ bad)
  BY <1>1, <1>2 DEF States
<1> HIDE DEF t
<1>4. ~ t.lost => ~ s.lost /\ t.right
  BY <1>3 DEF Good
<1>5. PICK h : h = [i \in 1 .. Len(s.stack) |-> i]
  OBVIOUS
<1>6. /\ h \in [1 .. Len(t.stack) -> 1 .. Len(s.stack)]
      /\ \A i \in 1 .. Len(t.stack) : h[i] = i
  BY <1>3, <1>5
<1>7. Good(t)
  BY <1>3, <1>4, <1>6, Rearranged
<1> QED BY <1>3, <1>7 DEF t

LEMMA CheckGood ==
  ASSUME NEW s, Good(s), NEW ok \in BOOLEAN, ~ s.lost => ok
  PROVE  /\ Good(Check(s, ok))
         /\ Check(s, ok).stack = s.stack /\ Check(s, ok).reg = s.reg
         /\ Check(s, ok).flags = s.flags /\ Check(s, ok).frame = s.frame
         /\ Check(s, ok).lost = s.lost
<1> DEFINE t == Check(s, ok)
<1>1. s \in States /\ Len(s.stack) \in Nat
  BY GoodTyped
<1>2. t = [s EXCEPT !.right = s.right /\ ok]
  BY DEF Check
<1>3. /\ t \in States /\ t.stack = s.stack /\ t.reg = s.reg /\ t.flags = s.flags
      /\ t.frame = s.frame /\ t.lost = s.lost /\ t.right = (s.right /\ ok)
  BY <1>1, <1>2 DEF States
<1> HIDE DEF t
<1>4. ~ t.lost => ~ s.lost /\ t.right
  BY <1>3 DEF Good
<1>5. PICK h : h = [i \in 1 .. Len(s.stack) |-> i]
  OBVIOUS
<1>6. /\ h \in [1 .. Len(t.stack) -> 1 .. Len(s.stack)]
      /\ \A i \in 1 .. Len(t.stack) : h[i] = i
  BY <1>3, <1>5
<1>7. Good(t)
  BY <1>3, <1>4, <1>6, Rearranged
<1> QED BY <1>3, <1>7 DEF t

LEMMA PopGood ==
  ASSUME NEW s, Good(s), Len(s.stack) # 0
  PROVE  /\ Good(Pop(s)) /\ Len(Pop(s).stack) = Len(s.stack) - 1
         /\ \A i \in 1 .. Len(s.stack) - 1 : Pop(s).stack[i] = s.stack[i]
         /\ Pop(s).reg = s.reg /\ Pop(s).flags = s.flags
         /\ Pop(s).frame = s.frame /\ Pop(s).lost = s.lost
<1> DEFINE t == Pop(s)
           n == Len(s.stack) - 1
<1>1. /\ s \in States /\ s.stack \in Seq(Operand) /\ Len(s.stack) \in Nat
      /\ \A i \in 1 .. Len(s.stack) : s.stack[i] \in Operand
  BY GoodTyped
<1>2. /\ SubSeq(s.stack, 1, n) \in Seq(Operand) /\ Len(SubSeq(s.stack, 1, n)) = n
      /\ \A i \in 1 .. n : SubSeq(s.stack, 1, n)[i] = s.stack[i]
  <2>1. n \in Nat /\ \A i \in 1 .. n : s.stack[i] \in Operand
    BY <1>1
  <2>2. \A i \in 1 .. n : 1 + i - 1 = i
    BY <2>1
  <2> QED BY <2>1, <2>2, SubSeqProperties, Z3
<1>3. t = [s EXCEPT !.stack = SubSeq(s.stack, 1, n)]
  BY DEF Pop, Front
<1>4. /\ t \in States /\ t.stack = SubSeq(s.stack, 1, n) /\ t.reg = s.reg
      /\ t.flags = s.flags /\ t.frame = s.frame /\ t.lost = s.lost /\ t.right = s.right
  BY <1>1, <1>2, <1>3 DEF States
<1>5. Len(t.stack) = n /\ \A i \in 1 .. n : t.stack[i] = s.stack[i]
  BY <1>2, <1>4
<1> HIDE DEF t
<1>6. [i \in 1 .. n |-> i] \in [1 .. Len(t.stack) -> 1 .. Len(s.stack)]
  BY <1>1, <1>5
<1>7. ~ t.lost => ~ s.lost /\ t.right
  BY <1>4 DEF Good
<1>8. Good(t)
  <2>1. PICK h : h = [i \in 1 .. n |-> i]
    OBVIOUS
  <2>2. \A i \in 1 .. Len(t.stack) : h[i] = i
    BY <1>5, <2>1
  <2> QED BY <1>4, <1>5, <1>6, <1>7, <2>1, <2>2, Rearranged
<1> QED BY <1>4, <1>5, <1>8 DEF t

\* The code swaps nothing.
LEMMA SwapSame ==
  ASSUME NEW s, Good(s), Len(s.stack) > 1
  PROVE  Swap(s) = s
<1>1. PICK n, q : n = Len(s.stack) /\ q = [s.stack EXCEPT ![n] = s.stack[n]]
  OBVIOUS
<1>2. /\ s \in States /\ s.stack \in Seq(Operand) /\ n \in 1 .. n /\ n = Len(s.stack)
      /\ s.stack[n] \in Operand
  BY <1>1, GoodTyped
<1>3. q \in Seq(Operand) /\ Len(q) = n /\ \A i \in 1 .. n : q[i] = s.stack[i]
  BY <1>1, <1>2, ExceptSeq
<1>4. q = s.stack
  BY <1>2, <1>3
<1>5. Swap(s) = [s EXCEPT !.stack = q]
  BY <1>1, <1>2 DEF Swap, Top, States
<1> QED BY <1>2, <1>4, <1>5 DEF States

\* An instruction that sets the flags.
LEMMA ClobberGood ==
  ASSUME NEW s, Good(s)
  PROVE  /\ Good(Clobber(s)) /\ Clobber(s).stack = s.stack
         /\ Clobber(s).reg = s.reg /\ Clobber(s).frame = s.frame
         /\ s.lost => Clobber(s).lost
         /\ ~ Clobber(s).lost => ~ s.lost /\
              \A i \in 1 .. Len(s.stack) : s.stack[i].r # SC_CMP
<1> DEFINE t == Clobber(s)
<1>1. /\ s \in States /\ Len(s.stack) \in Nat /\ DOMAIN s.stack = 1 .. Len(s.stack)
  BY GoodTyped
<1>2. Junk \in Tokens
  BY DEF Junk, Tokens
<1>3. /\ t \in States /\ t.stack = s.stack /\ t.reg = s.reg /\ t.frame = s.frame
      /\ t.right = s.right /\ t.lost = (s.lost \/ UsesReg(s, SC_CMP) # {})
  <2>1. PICK bad \in BOOLEAN : bad = (UsesReg(s, SC_CMP) # {})
    OBVIOUS
  <2>2. t = [[s EXCEPT !.flags = Junk] EXCEPT !.lost = @ \/ bad]
    BY <2>1 DEF Clobber, LoseIf
  <2>3. /\ t \in States /\ t.stack = s.stack /\ t.reg = s.reg /\ t.frame = s.frame
        /\ t.right = s.right /\ t.lost = (s.lost \/ bad)
    <3> HIDE DEF t
    <3> QED BY <1>1, <1>2, <2>2 DEF States
  <2> QED BY <2>1, <2>3
<1> HIDE DEF t
<1>4. ~ t.lost => ~ s.lost /\ \A i \in 1 .. Len(s.stack) : s.stack[i].r # SC_CMP
  BY <1>1, <1>3 DEF UsesReg
<1>5. ASSUME ~ t.lost, NEW i \in 1 .. Len(t.stack)
      PROVE  Reachable(t, i)
  <2>1. Reachable(s, i) /\ s.stack[i].r # SC_CMP
    BY <1>3, <1>4, <1>5 DEF Good
  <2> QED BY <1>3, <2>1, StillReachable
<1>6. Apart(t) /\ Numbered(t)
  BY <1>3 DEF Good, Apart, Numbered
<1>7. Good(t)
  BY <1>3, <1>4, <1>5, <1>6 DEF Good
<1> QED BY <1>3, <1>4, <1>7 DEF t

-----------------------------------------------------------------------------
(* Registers.                                                              *)

LEMMA AlignRange ==
  ASSUME NEW n \in Int
  PROVE  calc_align(n, 4) \in 0 .. 3
BY DEF calc_align

\* An operand in r is stored in the frame: r is free, and the others are where
\* they were.
LEMMA SpillGood ==
  ASSUME NEW s, Good(s), NEW r \in Regs, locals \in BOOLEAN
  PROVE  /\ Good(spill_reg(s, r)) /\ Len(spill_reg(s, r).stack) = Len(s.stack)
         /\ \A i \in 1 .. Len(s.stack) :
              IF s.stack[i].r = r
              THEN /\ spill_reg(s, r).stack[i].r = SC_LOCAL
                   /\ spill_reg(s, r).stack[i].stands = s.stack[i].stands
                   /\ spill_reg(s, r).stack[i].object = s.stack[i].object
                   /\ spill_reg(s, r).stack[i].type = s.stack[i].type
              ELSE spill_reg(s, r).stack[i] = s.stack[i]
         /\ s.lost => spill_reg(s, r).lost
         /\ spill_reg(s, r).reg = s.reg /\ spill_reg(s, r).flags = s.flags
<1>1. /\ s \in States /\ s.stack \in Seq(Operand) /\ Len(s.stack) \in Nat
      /\ DOMAIN s.stack = 1 .. Len(s.stack)
      /\ \A i \in 1 .. Len(s.stack) : s.stack[i] \in Operand
  BY GoodTyped
<1>2. CASE UsesReg(s, r) = {}
  <2>1. spill_reg(s, r) = s
    BY <1>2 DEF spill_reg
  <2>2. \A i \in 1 .. Len(s.stack) : s.stack[i].r # r
    BY <1>1, <1>2 DEF UsesReg
  <2> QED BY <2>1, <2>2
<1>3. CASE UsesReg(s, r) # {}
  <2>1. UsesReg(s, r) \in SUBSET (1 .. Len(s.stack))
    BY <1>1 DEF UsesReg
  <2>2. PICK i : i = Min(UsesReg(s, r))
    OBVIOUS
  <2>3. i \in UsesReg(s, r)
    <3>1. UsesReg(s, r) \in SUBSET Nat
      BY <2>1
    <3> QED BY <1>3, <2>2, <3>1, LowestExists
  <2>4. i \in 1 .. Len(s.stack) /\ s.stack[i].r = r
    BY <1>1, <2>3 DEF UsesReg
  <2>5. \A j \in 1 .. Len(s.stack) : s.stack[j].r = r => j = i
    BY <2>4 DEF Good, Apart
  <2>6. PICK at : at = calc_align(s.loc - 4, 4)
    OBVIOUS
  <2>7. at \in 0 .. 3
    <3>1. s.loc - 4 \in Int
      BY <1>1 DEF States
    <3> QED BY <2>6, <3>1, AlignRange
  <2>8. PICK o : o = [s.stack[i] EXCEPT !.r = SC_LOCAL, !.lval = TRUE, !.value = at,
                                        !.base = Junk]
    OBVIOUS
  <2>9. /\ o.r = SC_LOCAL /\ o.lval = TRUE /\ o.value = at /\ o.base = Junk
        /\ o.stands = s.stack[i].stands /\ o.object = s.stack[i].object
        /\ o.type = s.stack[i].type /\ o \in Operand
    <3>1. s.stack[i] \in Operand
      BY <1>1, <2>4
    <3>2. SC_LOCAL \in Regs \cup (SC_GLOBAL .. SC_CMP) /\ Junk \in Tokens /\ at \in Int
      BY <2>7 DEF SC_LOCAL, SC_GLOBAL, SC_CMP, Junk, Tokens
    <3> QED BY <2>8, <3>1, <3>2 DEF Operand
  <2>10. PICK q : q = [s.stack EXCEPT ![i] = o]
    OBVIOUS
  <2>11. /\ q \in Seq(Operand) /\ Len(q) = Len(s.stack)
         /\ \A j \in 1 .. Len(s.stack) : q[j] = IF j = i THEN o ELSE s.stack[j]
    BY <1>1, <2>4, <2>9, <2>10, ExceptSeq
  <2>12. PICK f, t : /\ f = [at |-> at, holds |-> s.reg[r]]
                     /\ t = [s EXCEPT !.loc = at, !.frame = f, !.stack = q]
    OBVIOUS
  <2>13. f \in [at : 0 .. 3, holds : Tokens]
    <3>1. s.reg[r] \in Tokens
      BY <1>1 DEF States
    <3> QED BY <2>7, <2>12, <3>1
  <2>14. /\ t \in States /\ t.stack = q /\ t.frame = f /\ t.reg = s.reg
         /\ t.flags = s.flags /\ t.lost = s.lost /\ t.right = s.right
    BY <1>1, <2>7, <2>11, <2>12, <2>13 DEF States
  <2>15. PICK shared \in BOOLEAN, bad \in BOOLEAN :
           /\ shared = (locals \/ \E j \in DOMAIN s.stack : InFrame(s.stack[j]))
           /\ bad = s.stack[i].lval
    <3>1. s.stack[i].lval \in BOOLEAN
      BY <1>1, <2>4, OperandTyped
    <3> QED BY <3>1
  <2>16. spill_reg(s, r) = LoseIf(LoseIf(t, shared), bad)
    <3>1. t = [s EXCEPT !.loc = at, !.frame = [at |-> at, holds |-> s.reg[r]],
                        !.stack[i] = [@ EXCEPT !.r = SC_LOCAL, !.lval = TRUE,
                                               !.value = at, !.base = Junk]]
      BY <1>1, <2>8, <2>10, <2>12 DEF States
    <3> QED BY <1>3, <2>2, <2>6, <2>15, <3>1 DEF spill_reg
  <2>17. PICK u : u = spill_reg(s, r)
    OBVIOUS
  <2>18. /\ u \in States /\ u.stack = q /\ u.frame = f /\ u.reg = s.reg
         /\ u.flags = s.flags /\ u.right = s.right
         /\ u.lost = (s.lost \/ shared \/ bad)
    <3>1. u = [[t EXCEPT !.lost = @ \/ shared] EXCEPT !.lost = @ \/ bad]
      BY <2>16, <2>17 DEF LoseIf
    <3> QED BY <2>14, <3>1 DEF States
  <2>19. ~ u.lost => ~ s.lost /\ u.right /\ Reachable(u, i)
    <3> SUFFICES ASSUME ~ u.lost PROVE ~ s.lost /\ u.right /\ Reachable(u, i)
      OBVIOUS
    <3>1. ~ s.lost /\ ~ shared /\ ~ bad /\ u.right
      BY <2>18 DEF Good
    <3>2. Reachable(s, i)
      BY <2>4, <3>1 DEF Good
    <3>3. ~ InFrame(s.stack[i]) /\ s.stack[i].r # SC_CMP
      BY <2>4 DEF InFrame, Regs, SC_LOCAL, SC_CMP
    <3>4. s.reg[r] = s.stack[i].stands
      BY <2>4, <2>15, <3>1, <3>2, <3>3 DEF Reachable, Holds, ValueOf
    <3>5. u.stack[i] = o
      BY <2>4, <2>11, <2>18
    <3>6. InFrame(o) /\ ValueOf(u, o) = f.holds
      BY <2>9, <2>12, <2>18 DEF InFrame, ValueOf
    <3>7. Holds(u, i)
      BY <2>9, <2>12, <3>4, <3>5, <3>6 DEF Holds
    <3>8. ~ o.object
      BY <2>9, <2>15, <3>1, <3>2 DEF Reachable
    <3> QED BY <2>9, <3>1, <3>5, <3>7, <3>8 DEF Reachable, SC_LOCAL, SC_CMP
  <2>20. ~ u.lost => \A j \in 1 .. Len(u.stack) : j # i => ~ InFrame(s.stack[j])
    BY <1>1, <2>11, <2>15, <2>18
  <2>21. /\ \A j \in 1 .. Len(u.stack) : j # i =>
              j \in 1 .. Len(s.stack) /\ u.stack[j] = s.stack[j]
         /\ i \in 1 .. Len(u.stack) /\ u.stack[i] = o
    BY <2>4, <2>11, <2>18
  <2>22. o.stands[1] # 0
    BY <2>4, <2>9 DEF Good, Numbered
  <2>23. \A j \in 1 .. Len(u.stack) : j # i =>
           /\ o.r \in Regs => s.stack[j].r # o.r
           /\ s.stack[j].stands[1] # o.stands[1]
    BY <2>4, <2>9, <2>21 DEF Good, Numbered, Regs, SC_LOCAL
  <2>24. Good(u)
    BY <2>18, <2>19, <2>20, <2>21, <2>22, <2>23, OneChanged
  <2>25. \A j \in 1 .. Len(s.stack) :
           IF s.stack[j].r = r
           THEN /\ u.stack[j].r = SC_LOCAL
                /\ u.stack[j].stands = s.stack[j].stands
                /\ u.stack[j].object = s.stack[j].object
                /\ u.stack[j].type = s.stack[j].type
           ELSE u.stack[j] = s.stack[j]
    BY <2>4, <2>5, <2>9, <2>11, <2>18
  <2> QED BY <2>11, <2>17, <2>18, <2>24, <2>25
<1> QED BY <1>2, <1>3

RegClasses == Regs \cup {REG_ANY}

\* The registers of a class, of which allocate_reg takes one.
Fits(rc) == IF rc = REG_ANY THEN Regs ELSE {rc}

\* How the operands are after allocate_reg: none is in the register it returns.
\* If one was, that was the one it spilled, the lowest in a register of the class.
Allocated(s, rc, a) ==
  /\ a.r \in Regs /\ a.r \in Fits(rc) /\ Good(a.s) /\ Len(a.s.stack) = Len(s.stack)
  /\ \A i \in 1 .. Len(s.stack) :
       /\ a.s.stack[i].r # a.r
       /\ IF s.stack[i].r = a.r
          THEN /\ a.s.stack[i].r = SC_LOCAL
               /\ a.s.stack[i].stands = s.stack[i].stands
               /\ a.s.stack[i].object = s.stack[i].object
               /\ a.s.stack[i].type = s.stack[i].type
          ELSE a.s.stack[i] = s.stack[i]
  /\ s.lost => a.s.lost
  /\ \/ \A i \in 1 .. Len(s.stack) : s.stack[i].r # a.r
     \/ \E k \in 1 .. Len(s.stack) :
          /\ s.stack[k].r = a.r
          /\ Fits(rc) \subseteq {s.stack[i].r : i \in k .. Len(s.stack)}

LEMMA AllocateGood ==
  ASSUME NEW s, Good(s), NEW rc \in RegClasses, locals \in BOOLEAN
  PROVE  Allocated(s, rc, allocate_reg(s, rc))
<1> DEFINE fits == Fits(rc)
           free == fits \cap FreeRegs(s)
           held == {i \in DOMAIN s.stack : s.stack[i].r \in fits}
<1>1. /\ s \in States /\ s.stack \in Seq(Operand) /\ Len(s.stack) \in Nat
      /\ DOMAIN s.stack = 1 .. Len(s.stack)
      /\ \A i \in 1 .. Len(s.stack) : s.stack[i] \in Operand
  BY GoodTyped
<1>2. fits \subseteq Regs /\ fits # {}
  BY DEF Fits, RegClasses, Regs
<1>3. allocate_reg(s, rc) =
        LET r == IF free # {} THEN Min(free) ELSE s.stack[Min(held)].r
        IN [r |-> r, s |-> IF free # {} THEN s ELSE spill_reg(s, r)]
  BY DEF allocate_reg, Fits
<1>4. PICK a : a = allocate_reg(s, rc)
  OBVIOUS
<1>5. CASE free # {}
  <2>1. a.r = Min(free) /\ a.s = s
    BY <1>3, <1>4, <1>5
  <2>2. a.r \in free
    <3>1. free \in SUBSET Nat
      BY <1>2 DEF Regs
    <3> HIDE DEF free
    <3> QED BY <1>5, <2>1, <3>1, LowestExists
  <2>3. \A i \in 1 .. Len(s.stack) : s.stack[i].r # a.r
    BY <1>1, <2>2 DEF FreeRegs, UsesReg
  <2>4. PICK b : b = a.r
    OBVIOUS
  <2>5. b \in free /\ \A i \in 1 .. Len(s.stack) : s.stack[i].r # b
    BY <2>2, <2>3, <2>4
  <2>6. b \in Regs /\ b \in Fits(rc)
    BY <1>2, <2>5
  <2>7. Allocated(s, rc, a)
    <3> HIDE DEF fits, free, held
    <3> QED BY <2>1, <2>4, <2>5, <2>6 DEF Allocated
  <2> QED BY <1>4, <2>7
<1>6. CASE free = {}
  <2>1. a.r = s.stack[Min(held)].r /\ a.s = spill_reg(s, a.r)
    BY <1>3, <1>4, <1>6
  <2>2. \A r \in fits : \E i \in 1 .. Len(s.stack) : s.stack[i].r = r
    BY <1>1, <1>2, <1>6 DEF FreeRegs, UsesReg
  <2>3. PICK k : k = Min(held)
    OBVIOUS
  <2>4. k \in held /\ \A i \in held : k <= i
    <3>1. held \in SUBSET Nat
      BY <1>1
    <3>2. held # {}
      BY <1>1, <1>2, <2>2
    <3> HIDE DEF held
    <3> QED BY <2>3, <3>1, <3>2, LowestExists
  <2>5. k \in 1 .. Len(s.stack) /\ a.r = s.stack[k].r /\ a.r \in fits /\ a.r \in Regs
    BY <1>1, <1>2, <2>1, <2>3, <2>4
  <2>6. fits \subseteq {s.stack[i].r : i \in k .. Len(s.stack)}
    <3> SUFFICES ASSUME NEW r \in fits
                 PROVE  \E i \in k .. Len(s.stack) : s.stack[i].r = r
      OBVIOUS
    <3>1. PICK i \in 1 .. Len(s.stack) : s.stack[i].r = r
      BY <2>2
    <3>2. k <= i
      BY <1>1, <2>4, <3>1
    <3> QED BY <1>1, <2>5, <3>1, <3>2
  <2>7. PICK t : t = spill_reg(s, a.r)
    OBVIOUS
  <2>8. /\ Good(t) /\ Len(t.stack) = Len(s.stack)
        /\ \A i \in 1 .. Len(s.stack) :
             IF s.stack[i].r = a.r
             THEN /\ t.stack[i].r = SC_LOCAL
                  /\ t.stack[i].stands = s.stack[i].stands
                  /\ t.stack[i].object = s.stack[i].object
                  /\ t.stack[i].type = s.stack[i].type
             ELSE t.stack[i] = s.stack[i]
        /\ s.lost => t.lost
    BY <2>5, <2>7, SpillGood
  <2>9. \A i \in 1 .. Len(s.stack) : t.stack[i].r # a.r
    <3>1. SC_LOCAL # a.r
      BY <2>5 DEF Regs, SC_LOCAL
    <3> QED BY <2>8, <3>1
  <2>10. \E j \in 1 .. Len(s.stack) :
           s.stack[j].r = a.r /\ fits \subseteq {s.stack[i].r : i \in j .. Len(s.stack)}
    BY <2>5, <2>6
  <2>11. PICK b : b = a.r
    OBVIOUS
  <2>12. a.s = t
    BY <2>1, <2>7
  <2> HIDE DEF fits, held
  <2>13. /\ Good(t) /\ Len(t.stack) = Len(s.stack) /\ b \in fits /\ b \in Regs
         /\ \A i \in 1 .. Len(t.stack) : t.stack[i].r # b
         /\ \A i \in 1 .. Len(s.stack) :
              IF s.stack[i].r = b
              THEN /\ t.stack[i].r = SC_LOCAL
                   /\ t.stack[i].stands = s.stack[i].stands
                   /\ t.stack[i].object = s.stack[i].object
                   /\ t.stack[i].type = s.stack[i].type
              ELSE t.stack[i] = s.stack[i]
         /\ s.lost => t.lost
         /\ \E j \in 1 .. Len(s.stack) :
              s.stack[j].r = b /\ fits \subseteq {s.stack[i].r : i \in j .. Len(s.stack)}
    <3>1. b = a.r /\ b \in fits /\ b \in Regs
      BY <2>5, <2>11
    <3>2. Good(t) /\ Len(t.stack) = Len(s.stack) /\ (s.lost => t.lost)
      BY <2>8
    <3>3. \A i \in 1 .. Len(t.stack) : t.stack[i].r # b
      BY <2>9, <3>1, <3>2
    <3>4. \A i \in 1 .. Len(s.stack) :
            IF s.stack[i].r = b
            THEN /\ t.stack[i].r = SC_LOCAL
                 /\ t.stack[i].stands = s.stack[i].stands
                 /\ t.stack[i].object = s.stack[i].object
                 /\ t.stack[i].type = s.stack[i].type
            ELSE t.stack[i] = s.stack[i]
      BY <2>8, <3>1
    <3>5. \E j \in 1 .. Len(s.stack) :
            s.stack[j].r = b /\ fits \subseteq {s.stack[i].r : i \in j .. Len(s.stack)}
      BY <2>10, <3>1
    <3> QED BY <3>1, <3>2, <3>3, <3>4, <3>5
  <2>14. Allocated(s, rc, a)
    BY <2>11, <2>12, <2>13 DEF Allocated, fits
  <2> QED BY <1>4, <2>14
<1> QED BY <1>5, <1>6

\* A value is loaded into a register that is free.
LEMMA LoadGood ==
  ASSUME NEW a, Good(a.s), NEW i \in 1 .. Len(a.s.stack), a.r \in Regs,
         \A j \in 1 .. Len(a.s.stack) : a.s.stack[j].r # a.r
  PROVE  LET t == load(a, i)
         IN /\ Good(t) /\ Len(t.stack) = Len(a.s.stack) /\ t.lost = a.s.lost
            /\ \A j \in 1 .. Len(t.stack) : j # i => t.stack[j] = a.s.stack[j]
            /\ t.stack[i].r = a.r /\ ~ t.stack[i].lval /\ ~ t.stack[i].object
            /\ t.stack[i].stands = a.s.stack[i].stands
            /\ t.stack[i].type = a.s.stack[i].type
<1>1. PICK s : s = a.s
  OBVIOUS
<1>2. /\ Good(s) /\ s \in States /\ s.stack \in Seq(Operand) /\ Len(s.stack) \in Nat
      /\ DOMAIN s.stack = 1 .. Len(s.stack)
      /\ \A j \in 1 .. Len(s.stack) : s.stack[j] \in Operand
  BY <1>1, GoodTyped
<1>3. PICK o : o = [s.stack[i] EXCEPT !.r = a.r, !.lval = FALSE, !.sym = FALSE,
                                      !.value = 0, !.base = Junk, !.object = FALSE]
  OBVIOUS
<1>4. /\ o \in Operand /\ o.r = a.r /\ ~ o.lval /\ ~ o.object
      /\ o.stands = s.stack[i].stands /\ o.type = s.stack[i].type
  <2>1. s.stack[i] \in Operand
    BY <1>1, <1>2
  <2>2. Junk \in Tokens /\ a.r \in Regs \cup (SC_GLOBAL .. SC_CMP)
    BY DEF Junk, Tokens
  <2>3. PICK p, c, x, z :
          /\ p = [c EXCEPT !.r = x, !.base = Junk, !.value = z]
          /\ c = s.stack[i] /\ x = a.r /\ z = 0
    OBVIOUS
  <2>4. p \in Operand /\ p.r = a.r /\ p.stands = s.stack[i].stands /\ p.type = s.stack[i].type
    <3>1. c \in Operand /\ x \in Regs \cup (SC_GLOBAL .. SC_CMP) /\ z \in Int
      BY <2>1, <2>2, <2>3
    <3>2. p \in Operand /\ p.r = x /\ p.stands = c.stands /\ p.type = c.type
      BY <2>2, <2>3, <3>1 DEF Operand
    <3> QED BY <2>3, <3>2
  <2>5. o = [p EXCEPT !.lval = FALSE, !.sym = FALSE, !.object = FALSE]
    BY <1>3, <2>1, <2>3 DEF Operand
  <2>6. /\ o.lval = FALSE /\ o.object = FALSE /\ o.r = p.r
        /\ o.stands = p.stands /\ o.type = p.type
    BY <2>4, <2>5 DEF Operand
  <2>7. o \in Operand
    BY <2>4, <2>5 DEF Operand
  <2> QED BY <2>4, <2>6, <2>7
<1>5. PICK q : q = [s.stack EXCEPT ![i] = o]
  OBVIOUS
<1>6. /\ q \in Seq(Operand) /\ Len(q) = Len(s.stack)
      /\ \A j \in 1 .. Len(s.stack) : q[j] = IF j = i THEN o ELSE s.stack[j]
  BY <1>1, <1>2, <1>4, <1>5, ExceptSeq
<1>7. PICK v : v = ValueOf(s, s.stack[i])
  OBVIOUS
<1>8. v \in Tokens
  BY <1>1, <1>2, <1>7, ValueTyped
<1>9. PICK g : g = [s.reg EXCEPT ![a.r] = v]
  OBVIOUS
<1>10. g \in [Regs -> Tokens] /\ g[a.r] = v /\ \A x \in Regs : x # a.r => g[x] = s.reg[x]
  <2>1. s.reg \in [Regs -> Tokens]
    BY <1>2 DEF States
  <2> HIDE DEF Tokens
  <2> QED BY <1>8, <1>9, <2>1
<1>11. PICK t : t = load(a, i)
  OBVIOUS
<1>12. t = [s EXCEPT !.reg = g, !.stack = q]
  BY <1>1, <1>2, <1>3, <1>5, <1>7, <1>9, <1>11 DEF load, States
<1>13. /\ t \in States /\ t.stack = q /\ t.reg = g /\ t.flags = s.flags
       /\ t.frame = s.frame /\ t.lost = s.lost /\ t.right = s.right
  BY <1>2, <1>6, <1>10, <1>12 DEF States
<1>14. /\ \A j \in 1 .. Len(t.stack) : j # i =>
            j \in 1 .. Len(s.stack) /\ t.stack[j] = s.stack[j]
       /\ i \in 1 .. Len(t.stack) /\ t.stack[i] = o
  BY <1>1, <1>6, <1>13
<1>15. \A j \in 1 .. Len(t.stack) : j # i =>
         /\ o.r \in Regs => s.stack[j].r # o.r
         /\ s.stack[j].stands[1] # o.stands[1]
  BY <1>1, <1>2, <1>4, <1>14 DEF Good, Numbered
<1>16. o.stands[1] # 0
  BY <1>1, <1>2, <1>4 DEF Good, Numbered
<1>17. ~ t.lost => ~ s.lost /\ t.right /\ Reachable(t, i)
  <2> SUFFICES ASSUME ~ t.lost PROVE ~ s.lost /\ t.right /\ Reachable(t, i)
    OBVIOUS
  <2>1. ~ s.lost /\ t.right /\ Reachable(s, i)
    BY <1>1, <1>2, <1>13 DEF Good
  <2>2. v = s.stack[i].stands
    BY <1>7, <2>1 DEF Reachable, Holds
  <2>3. ~ InFrame(o) /\ o.r # SC_CMP
    BY <1>4 DEF InFrame, Regs, SC_LOCAL, SC_CMP
  <2>4. ValueOf(t, o) = g[a.r]
    BY <1>4, <1>13, <2>3 DEF ValueOf
  <2>5. Holds(t, i)
    BY <1>4, <1>10, <1>14, <2>2, <2>4 DEF Holds
  <2> QED BY <1>4, <1>14, <2>1, <2>3, <2>5 DEF Reachable
<1>18. \A j \in 1 .. Len(t.stack) : j # i =>
         /\ s.stack[j].r \in Regs => t.reg[s.stack[j].r] = s.reg[s.stack[j].r]
         /\ s.stack[j].r = SC_CMP => t.flags = s.flags
         /\ InFrame(s.stack[j]) => t.frame = s.frame
  BY <1>1, <1>10, <1>13, <1>14
<1>19. Good(t)
  <2>1. Good(s) /\ t \in States /\ i \in 1 .. Len(t.stack)
    BY <1>2, <1>13, <1>14
  <2>2. \A j \in 1 .. Len(t.stack) : j # i =>
          j \in 1 .. Len(s.stack) /\ t.stack[j] = s.stack[j]
    BY <1>14
  <2>3. \A j \in 1 .. Len(t.stack) : j # i =>
          /\ t.stack[i].r \in Regs => s.stack[j].r # t.stack[i].r
          /\ s.stack[j].stands[1] # t.stack[i].stands[1]
    BY <1>14, <1>15
  <2>4. t.stack[i].stands[1] # 0
    BY <1>14, <1>16
  <2>5. ~ t.lost => ~ s.lost /\ t.right /\ Reachable(t, i)
    BY <1>17
  <2>6. ~ t.lost => \A j \in 1 .. Len(t.stack) : j # i =>
          /\ s.stack[j].r \in Regs => t.reg[s.stack[j].r] = s.reg[s.stack[j].r]
          /\ s.stack[j].r = SC_CMP => t.flags = s.flags
          /\ InFrame(s.stack[j]) => t.frame = s.frame
    BY <1>18
  <2> QED BY <2>1, <2>2, <2>3, <2>4, <2>5, <2>6, OneChanged
<1> QED BY <1>1, <1>4, <1>6, <1>11, <1>13, <1>14, <1>19

\* How the operands of t are those of s after operand i has been loaded: it is in
\* a register, another may have been spilled, and what they stand for remains.
Loaded(s, t, i) ==
  /\ Good(t) /\ Len(t.stack) = Len(s.stack) /\ (s.lost => t.lost)
  /\ t.stack[i].r \in Regs /\ ~ t.stack[i].lval
  /\ ~ t.lost => ~ t.stack[i].object
  /\ \A j \in 1 .. Len(s.stack) :
       /\ t.stack[j].stands = s.stack[j].stands
       /\ t.stack[j].type = s.stack[j].type
       /\ j # i => t.stack[j].object = s.stack[j].object
       /\ j # i => \/ t.stack[j] = s.stack[j]
                   \/ s.stack[j].r \in Regs

LEMMA Load1Good ==
  ASSUME NEW s, Good(s), NEW rc \in RegClasses, NEW i \in 1 .. Len(s.stack),
         locals \in BOOLEAN
  PROVE  /\ Loaded(s, load_1(s, rc, i), i)
         /\ rc = REG_ANY /\ i # Len(s.stack) =>
              load_1(s, rc, i).stack[Len(s.stack)] = s.stack[Len(s.stack)]
<1>1. /\ s \in States /\ Len(s.stack) \in Nat
      /\ \A j \in 1 .. Len(s.stack) : s.stack[j] \in Operand
  BY GoodTyped
<1>2. PICK t : t = load_1(s, rc, i)
  OBVIOUS
<1>3. CASE s.stack[i].r >= SC_GLOBAL \/ s.stack[i].lval
  <2>1. PICK a : a = allocate_reg(s, rc)
    OBVIOUS
  <2>2. t = load(a, i)
    BY <1>2, <1>3, <2>1 DEF load_1
  <2>3. /\ a.r \in Regs /\ a.r \in Fits(rc) /\ Good(a.s) /\ Len(a.s.stack) = Len(s.stack)
        /\ \A j \in 1 .. Len(s.stack) :
             /\ a.s.stack[j].r # a.r
             /\ IF s.stack[j].r = a.r
                THEN /\ a.s.stack[j].r = SC_LOCAL
                     /\ a.s.stack[j].stands = s.stack[j].stands
                     /\ a.s.stack[j].object = s.stack[j].object
                     /\ a.s.stack[j].type = s.stack[j].type
                ELSE a.s.stack[j] = s.stack[j]
        /\ s.lost => a.s.lost
        /\ \/ \A j \in 1 .. Len(s.stack) : s.stack[j].r # a.r
           \/ \E k \in 1 .. Len(s.stack) :
                /\ s.stack[k].r = a.r
                /\ Fits(rc) \subseteq {s.stack[j].r : j \in k .. Len(s.stack)}
    <3>1. Allocated(s, rc, a)
      BY <2>1, AllocateGood
    <3> QED BY <3>1 DEF Allocated
  <2>4. /\ i \in 1 .. Len(a.s.stack)
        /\ \A j \in 1 .. Len(a.s.stack) : a.s.stack[j].r # a.r
    BY <2>3
  <2>5. /\ Good(t) /\ Len(t.stack) = Len(a.s.stack) /\ t.lost = a.s.lost
        /\ \A j \in 1 .. Len(t.stack) : j # i => t.stack[j] = a.s.stack[j]
        /\ t.stack[i].r = a.r /\ ~ t.stack[i].lval /\ ~ t.stack[i].object
        /\ t.stack[i].stands = a.s.stack[i].stands
        /\ t.stack[i].type = a.s.stack[i].type
    BY <2>2, <2>3, <2>4, LoadGood
  <2>6. \A j \in 1 .. Len(s.stack) :
          /\ a.s.stack[j].stands = s.stack[j].stands
          /\ a.s.stack[j].type = s.stack[j].type
          /\ a.s.stack[j].object = s.stack[j].object
          /\ a.s.stack[j] = s.stack[j] \/ s.stack[j].r \in Regs
    BY <2>3
  <2>7. \A j \in 1 .. Len(s.stack) :
          /\ t.stack[j].stands = s.stack[j].stands
          /\ t.stack[j].type = s.stack[j].type
          /\ j # i => t.stack[j].object = s.stack[j].object
          /\ j # i => \/ t.stack[j] = s.stack[j]
                      \/ s.stack[j].r \in Regs
    BY <2>3, <2>5, <2>6
  <2>8. Loaded(s, t, i)
    BY <2>3, <2>5, <2>7 DEF Loaded
  <2>9. ASSUME rc = REG_ANY, i # Len(s.stack)
        PROVE  t.stack[Len(s.stack)] = s.stack[Len(s.stack)]
    <3>1. Len(s.stack) \in 1 .. Len(s.stack)
      BY <1>1
    <3>2. s.stack[Len(s.stack)].r # a.r
      <4> SUFFICES ASSUME s.stack[Len(s.stack)].r = a.r PROVE FALSE
        OBVIOUS
      <4>1. PICK k \in 1 .. Len(s.stack) :
              /\ s.stack[k].r = a.r
              /\ Fits(rc) \subseteq {s.stack[j].r : j \in k .. Len(s.stack)}
        BY <2>3, <3>1
      <4>2. k = Len(s.stack)
        BY <2>3, <3>1, <4>1 DEF Good, Apart
      <4>3. Regs \subseteq {a.r}
        <5>1. \A j \in k .. Len(s.stack) : j = k
          BY <1>1, <4>2
        <5> QED BY <2>9, <4>1, <5>1 DEF Fits
      <4> QED BY <4>3 DEF Regs
    <3>3. a.s.stack[Len(s.stack)] = s.stack[Len(s.stack)]
      BY <2>3, <3>1, <3>2
    <3> QED BY <2>3, <2>5, <2>9, <3>1, <3>3
  <2> QED BY <1>2, <2>8, <2>9
<1>4. CASE ~ (s.stack[i].r >= SC_GLOBAL \/ s.stack[i].lval)
  <2>1. t = s
    BY <1>2, <1>4 DEF load_1
  <2>2. s.stack[i].r \in Regs /\ ~ s.stack[i].lval
    <3>1. s.stack[i].r \in Regs \cup (SC_GLOBAL .. SC_CMP)
      BY <1>1, OperandTyped
    <3> QED BY <1>4, <3>1 DEF SC_GLOBAL, SC_CMP
  <2>3. ~ s.lost => ~ s.stack[i].object
    <3>1. ~ s.lost => Reachable(s, i)
      BY DEF Good
    <3> QED BY <2>2, <3>1 DEF Reachable
  <2>4. Loaded(s, s, i)
    BY <2>2, <2>3 DEF Loaded
  <2> QED BY <1>2, <2>1, <2>4
<1> QED BY <1>3, <1>4

\* The two operands of an operator are loaded, the top first.
LEMMA Load2Good ==
  ASSUME NEW s, Good(s), NEW rc1 \in RegClasses, NEW rc2 \in RegClasses,
         Len(s.stack) > 1, locals \in BOOLEAN
  PROVE  LET t == load_2(s, rc1, rc2)
         IN /\ Good(t) /\ Len(t.stack) = Len(s.stack) /\ (s.lost => t.lost)
            /\ t.stack[Second(s)].r \in Regs
            /\ rc1 = REG_ANY => t.stack[Top(s)].r \in Regs /\ ~ t.stack[Top(s)].lval
            /\ \A j \in 1 .. Len(s.stack) :
                 /\ t.stack[j].type = s.stack[j].type
<1>1. PICK n : n = Len(s.stack)
  OBVIOUS
<1>2. n \in Nat /\ n > 1 /\ n \in 1 .. n /\ n - 1 \in 1 .. n /\ n # n - 1
  BY <1>1, GoodTyped
<1>3. PICK u : u = load_1(s, rc2, n)
  OBVIOUS
<1>4. Loaded(s, u, n)
  BY <1>1, <1>2, <1>3, Load1Good
<1>5. Good(u) /\ Len(u.stack) = n
  BY <1>1, <1>4 DEF Loaded
<1>6. PICK t : t = load_1(u, rc1, n - 1)
  OBVIOUS
<1>7. Loaded(u, t, n - 1) /\ (rc1 = REG_ANY => t.stack[n] = u.stack[n])
  <2>1. n - 1 \in 1 .. Len(u.stack)
    BY <1>2, <1>5
  <2>2. /\ Loaded(u, t, n - 1)
        /\ rc1 = REG_ANY /\ n - 1 # Len(u.stack) =>
             t.stack[Len(u.stack)] = u.stack[Len(u.stack)]
    BY <1>5, <1>6, <2>1, Load1Good
  <2> QED BY <1>2, <1>5, <2>2
<1>8. t = load_2(s, rc1, rc2)
  BY <1>1, <1>3, <1>6 DEF load_2, Top, Second
<1>9. \A j \in 1 .. n : t.stack[j].type = s.stack[j].type
  BY <1>1, <1>4, <1>5, <1>7 DEF Loaded
<1>10. /\ Good(t) /\ Len(t.stack) = n /\ (s.lost => t.lost)
       /\ t.stack[n - 1].r \in Regs
  BY <1>4, <1>5, <1>7 DEF Loaded
<1>11. rc1 = REG_ANY => t.stack[n].r \in Regs /\ ~ t.stack[n].lval
  BY <1>4, <1>7 DEF Loaded
<1> QED BY <1>1, <1>8, <1>9, <1>10, <1>11 DEF Top, Second

-----------------------------------------------------------------------------
(* Instructions.                                                           *)

\* An instruction may leave the value numbered id in r, where no operand below the
\* top is, when the registers hold g.
Writable(b, r, id, g) ==
  /\ \A j \in 1 .. Len(b.stack) - 1 :
       /\ b.stack[j].stands[1] # id
       /\ r \in Regs => b.stack[j].r # r
       /\ ~ b.lost => /\ b.stack[j].r \in Regs => g[b.stack[j].r] = b.reg[b.stack[j].r]
                      /\ r = SC_CMP => b.stack[j].r # SC_CMP
  /\ ~ b.lost /\ r = SC_CMP => b.stack[Len(b.stack)].type = "int"

\* The top operand of b is in t what was computed in r.
Replaced(b, t, r, id) ==
  /\ Good(t) /\ Len(t.stack) = Len(b.stack) /\ t.lost = b.lost
  /\ \A j \in 1 .. Len(b.stack) - 1 : t.stack[j] = b.stack[j]
  /\ t.stack[Len(b.stack)].r = r /\ ~ t.stack[Len(b.stack)].lval
  /\ ~ t.stack[Len(b.stack)].object
  /\ t.stack[Len(b.stack)].type = b.stack[Len(b.stack)].type
  /\ t.stack[Len(b.stack)].stands = <<id, 1>>

\* g is what the registers hold before the instruction, which may have spoilt that
\* of the top.
LEMMA ComputedGood ==
  ASSUME NEW b, Good(b), Len(b.stack) > 0, NEW r \in Regs \cup {SC_CMP},
         NEW id \in Nat, id # 0, NEW ok \in BOOLEAN, ~ b.lost => ok,
         NEW g \in [Regs -> Tokens], NEW e, e = [b EXCEPT !.reg = g],
         Writable(b, r, id, g)
  PROVE  Replaced(b, Computed(e, r, id, ok), r, id)
<1>0. /\ \A j \in 1 .. Len(b.stack) - 1 :
           /\ b.stack[j].stands[1] # id
           /\ r \in Regs => b.stack[j].r # r
           /\ ~ b.lost => /\ b.stack[j].r \in Regs => g[b.stack[j].r] = b.reg[b.stack[j].r]
                          /\ r = SC_CMP => b.stack[j].r # SC_CMP
      /\ ~ b.lost /\ r = SC_CMP => b.stack[Len(b.stack)].type = "int"
  BY DEF Writable
<1>1. /\ b \in States /\ b.stack \in Seq(Operand) /\ Len(b.stack) \in Nat
      /\ \A j \in 1 .. Len(b.stack) : b.stack[j] \in Operand
  BY GoodTyped
<1>2. PICK n, c, z : n = Len(b.stack) /\ c = b.stack[n] /\ z = 0
  OBVIOUS
<1>3. n \in 1 .. n /\ n \in Nat /\ c \in Operand /\ z \in Int
  BY <1>1, <1>2
<1>4. PICK w, token :
        /\ w = <<id, 1>>
        /\ token = IF ok THEN w ELSE Junk
  OBVIOUS
<1>5. w \in Tokens /\ token \in Tokens /\ w[1] = id /\ Junk \in Tokens
  BY <1>4 DEF Tokens, Junk
<1>6. PICK p, o :
        /\ p = [c EXCEPT !.r = r, !.value = z, !.base = Junk, !.stands = w]
        /\ o = [p EXCEPT !.lval = FALSE, !.sym = FALSE, !.object = FALSE]
  OBVIOUS
<1>7. p \in Operand /\ p.r = r /\ p.stands = w /\ p.type = c.type
  <2>1. r \in Regs \cup (SC_GLOBAL .. SC_CMP)
    BY DEF SC_GLOBAL, SC_CMP
  <2> QED BY <1>3, <1>5, <1>6, <2>1 DEF Operand
<1>8. /\ o \in Operand /\ o.r = r /\ o.stands = w /\ o.type = c.type
      /\ o.lval = FALSE /\ o.object = FALSE
  <2>1. o \in Operand
    BY <1>6, <1>7 DEF Operand
  <2>2. o.r = p.r /\ o.stands = p.stands /\ o.type = p.type
        /\ o.lval = FALSE /\ o.object = FALSE
    BY <1>6, <1>7 DEF Operand
  <2> QED BY <1>7, <2>1, <2>2
<1>9. PICK q : q = [b.stack EXCEPT ![n] = o]
  OBVIOUS
<1>10. /\ q \in Seq(Operand) /\ Len(q) = n
       /\ \A j \in 1 .. n : q[j] = IF j = n THEN o ELSE b.stack[j]
  BY <1>1, <1>2, <1>3, <1>8, <1>9, ExceptSeq
<1>11. PICK s : s = [b EXCEPT !.reg = g]
  OBVIOUS
<1>12. PICK u : u = [s EXCEPT !.stack = q]
  OBVIOUS
<1>13. /\ u \in States /\ u.stack = q /\ u.reg = g /\ u.flags = b.flags
       /\ u.frame = b.frame /\ u.lost = b.lost /\ u.right = b.right
       /\ s.stack = b.stack
  BY <1>1, <1>10, <1>11, <1>12 DEF States
<1>14. PICK t : t = Computed(s, r, id, ok)
  OBVIOUS
<1>15. t = IF r = SC_CMP THEN [u EXCEPT !.flags = token] ELSE [u EXCEPT !.reg[r] = token]
  <2>1. o = [c EXCEPT !.r = r, !.lval = FALSE, !.sym = FALSE, !.value = 0,
                      !.base = Junk, !.stands = w, !.object = FALSE]
    BY <1>2, <1>3, <1>6 DEF Operand
  <2>2. u = [s EXCEPT !.stack[n] = o]
    BY <1>1, <1>9, <1>11, <1>12 DEF States
  <2>3. Top(s) = n /\ s.stack[n] = c
    BY <1>2, <1>13 DEF Top
  <2>4. u = [s EXCEPT !.stack[Top(s)] =
               [@ EXCEPT !.r = r, !.lval = FALSE, !.sym = FALSE, !.value = 0,
                         !.base = Junk, !.stands = <<id, 1>>, !.object = FALSE]]
    BY <1>4, <2>1, <2>2, <2>3
  <2> QED BY <1>4, <1>14, <2>4 DEF Computed
<1>16. /\ t \in States /\ t.stack = q /\ t.frame = b.frame /\ t.lost = b.lost
       /\ t.right = b.right
       /\ r = SC_CMP => t.flags = token /\ t.reg = g
       /\ r # SC_CMP => t.flags = b.flags /\ t.reg = [g EXCEPT ![r] = token]
  <2>1. CASE r = SC_CMP
    BY <1>5, <1>13, <1>15, <2>1 DEF States
  <2>2. CASE r # SC_CMP
    <3>1. [g EXCEPT ![r] = token] \in [Regs -> Tokens]
      BY <1>5
    <3>2. t = [u EXCEPT !.reg = [g EXCEPT ![r] = token]]
      BY <1>13, <1>15, <2>2 DEF States
    <3> QED BY <1>13, <2>2, <3>1, <3>2 DEF States
  <2> QED BY <2>1, <2>2
<1>17. \A j \in 1 .. Len(t.stack) : j # n => j \in 1 .. n - 1 /\ j \in 1 .. n /\ t.stack[j] = b.stack[j]
  BY <1>3, <1>10, <1>16
<1>18. t.stack[n] = o /\ n \in 1 .. Len(t.stack) /\ o.stands[1] # 0
  BY <1>3, <1>5, <1>8, <1>10, <1>16
<1>19. \A j \in 1 .. Len(t.stack) : j # n =>
         /\ t.stack[n].r \in Regs => b.stack[j].r # t.stack[n].r
         /\ b.stack[j].stands[1] # t.stack[n].stands[1]
  BY <1>0, <1>2, <1>5, <1>8, <1>17, <1>18
<1>20. ~ t.lost => ~ b.lost /\ t.right /\ Reachable(t, n)
  <2> SUFFICES ASSUME ~ t.lost PROVE ~ b.lost /\ t.right /\ Reachable(t, n)
    OBVIOUS
  <2>1. ~ b.lost /\ t.right /\ token = w
    BY <1>4, <1>16 DEF Good
  <2>2. ~ InFrame(o)
    BY <1>8 DEF InFrame, Regs, SC_LOCAL, SC_CMP
  <2>3. ValueOf(t, o) = token
    <3>1. CASE r = SC_CMP
      <4>1. r \notin Regs
        BY <3>1 DEF Regs, SC_CMP
      <4> QED BY <1>8, <1>16, <2>2, <3>1, <4>1 DEF ValueOf
    <3>2. CASE r # SC_CMP
      <4>1. r \in Regs /\ t.reg[r] = token
        BY <1>16, <3>2
      <4> QED BY <1>8, <2>2, <4>1 DEF ValueOf
    <3> QED BY <3>1, <3>2
  <2>4. Holds(t, n)
    BY <1>8, <1>18, <2>1, <2>3 DEF Holds
  <2>5. o.r = SC_CMP => o.type = "int"
    BY <1>0, <1>2, <1>8, <2>1
  <2> QED BY <1>8, <1>18, <2>1, <2>2, <2>4, <2>5 DEF Reachable
<1>21. ~ t.lost => \A j \in 1 .. Len(t.stack) : j # n =>
         /\ b.stack[j].r \in Regs => t.reg[b.stack[j].r] = b.reg[b.stack[j].r]
         /\ b.stack[j].r = SC_CMP => t.flags = b.flags
         /\ InFrame(b.stack[j]) => t.frame = b.frame
  <2> SUFFICES ASSUME ~ t.lost, NEW j \in 1 .. Len(t.stack), j # n
               PROVE  /\ b.stack[j].r \in Regs => t.reg[b.stack[j].r] = b.reg[b.stack[j].r]
                      /\ b.stack[j].r = SC_CMP => t.flags = b.flags
                      /\ InFrame(b.stack[j]) => t.frame = b.frame
    OBVIOUS
  <2>1. j \in 1 .. Len(b.stack) - 1 /\ ~ b.lost
    BY <1>2, <1>16, <1>17
  <2>2. /\ r \in Regs => b.stack[j].r # r
        /\ b.stack[j].r \in Regs => g[b.stack[j].r] = b.reg[b.stack[j].r]
        /\ r = SC_CMP => b.stack[j].r # SC_CMP
    BY <1>0, <2>1
  <2>3. b.stack[j].r \in Regs => t.reg[b.stack[j].r] = g[b.stack[j].r]
    BY <1>16, <2>2
  <2> QED BY <1>16, <2>2, <2>3
<1>22. Good(t)
  <2>1. /\ \A j \in 1 .. Len(t.stack) : j # n =>
              j \in 1 .. Len(b.stack) /\ t.stack[j] = b.stack[j]
        /\ t.stack[n].stands[1] # 0 /\ n \in 1 .. Len(t.stack) /\ t \in States
    BY <1>2, <1>16, <1>17, <1>18
  <2> QED BY <1>19, <1>20, <1>21, <2>1, OneChanged
<1>23. /\ Len(t.stack) = Len(b.stack) /\ t.lost = b.lost
       /\ \A j \in 1 .. Len(b.stack) - 1 : t.stack[j] = b.stack[j]
  BY <1>2, <1>3, <1>10, <1>16
<1>24. /\ t.stack[Len(b.stack)].r = r /\ ~ t.stack[Len(b.stack)].lval
       /\ ~ t.stack[Len(b.stack)].object
       /\ t.stack[Len(b.stack)].type = b.stack[Len(b.stack)].type
       /\ t.stack[Len(b.stack)].stands = <<id, 1>>
  BY <1>2, <1>4, <1>8, <1>18
<1>25. t = Computed(e, r, id, ok)
  BY <1>11, <1>14
<1> QED BY <1>22, <1>23, <1>24, <1>25 DEF Replaced

\* The two operands on top of s give way to their result in r.
ResultOf(s, t, r) ==
  /\ Good(t) /\ Len(t.stack) = Len(s.stack) - 1 /\ (s.lost => t.lost)
  /\ t.stack[Len(t.stack)].r = r /\ ~ t.stack[Len(t.stack)].lval
  /\ t.stack[Len(t.stack)].type = s.stack[Len(s.stack) - 1].type

LEMMA ResultGood ==
  ASSUME NEW s, Good(s), Len(s.stack) > 1, NEW r \in Regs \cup {SC_CMP},
         s.stack[Second(s)].r \in Regs,
         s.stack[Top(s)].r \in Regs \/ IsConst(s.stack[Top(s)]),
         r = SC_CMP \/ r = s.stack[Second(s)].r,
         ~ s.lost /\ r = SC_CMP =>
           /\ s.stack[Second(s)].type = "int"
           /\ \A i \in 1 .. Len(s.stack) : s.stack[i].r # SC_CMP
  PROVE  ResultOf(s, Result(s, r), r)
<1>1. PICK n : n = Len(s.stack)
  OBVIOUS
<1>2. /\ n \in Nat /\ n > 1 /\ n - 1 \in 1 .. n /\ n \in 1 .. n
      /\ Top(s) = n /\ Second(s) = n - 1 /\ s \in States
  BY <1>1, GoodTyped DEF Top, Second
<1>3. PICK b : b = Pop(s)
  OBVIOUS
<1>4. /\ Good(b) /\ Len(b.stack) = n - 1
      /\ \A i \in 1 .. n - 1 : b.stack[i] = s.stack[i]
      /\ b.reg = s.reg /\ b.lost = s.lost
  BY <1>1, <1>2, <1>3, PopGood
<1>5. PICK id, ok :
        /\ id = FreshId(s)
        /\ ok = (/\ Ready(s, Second(s))
                 /\ Ready(s, Top(s)) \/ (IsConst(s.stack[Top(s)]) /\ Holds(s, Top(s))))
  OBVIOUS
<1>6. id \in Nat /\ id # 0 /\ \A i \in 1 .. n : s.stack[i].stands[1] # id
  BY <1>1, <1>2, <1>5, FreshIs
<1>7. ok \in BOOLEAN
  BY <1>5
<1>8. ~ b.lost => ok
  <2> SUFFICES ASSUME ~ s.lost PROVE ok
    BY <1>4
  <2>1. Holds(s, n) /\ Holds(s, n - 1)
    BY <1>1, <1>2 DEF Good, Reachable
  <2> QED BY <1>2, <1>5, <2>1 DEF Ready
<1>9. PICK g : g = b.reg
  OBVIOUS
<1>10. g \in [Regs -> Tokens] /\ b = [b EXCEPT !.reg = g]
  BY <1>4, <1>9 DEF Good, States
<1>11. Len(b.stack) > 0
  BY <1>2, <1>4
<1>12. \A j \in 1 .. Len(b.stack) - 1 :
         /\ b.stack[j].stands[1] # id
         /\ r \in Regs => b.stack[j].r # r
         /\ ~ b.lost => /\ b.stack[j].r \in Regs => g[b.stack[j].r] = b.reg[b.stack[j].r]
                        /\ r = SC_CMP => b.stack[j].r # SC_CMP
  <2> SUFFICES ASSUME NEW j \in 1 .. Len(b.stack) - 1
               PROVE  /\ b.stack[j].stands[1] # id
                      /\ r \in Regs => b.stack[j].r # r
                      /\ ~ b.lost => /\ b.stack[j].r \in Regs => g[b.stack[j].r] = b.reg[b.stack[j].r]
                                     /\ r = SC_CMP => b.stack[j].r # SC_CMP
    OBVIOUS
  <2>1. j \in 1 .. n - 1 /\ j \in 1 .. n /\ j # n - 1
    BY <1>2, <1>4
  <2>2. b.stack[j] = s.stack[j]
    BY <1>4, <2>1
  <2>3. r \in Regs => s.stack[j].r # r
    <3>1. r \in Regs => r = s.stack[n - 1].r
      BY <1>2 DEF Regs, SC_CMP
    <3> QED BY <1>1, <1>2, <2>1, <3>1 DEF Good, Apart
  <2>4. ~ s.lost /\ r = SC_CMP => s.stack[j].r # SC_CMP
    BY <1>1, <2>1
  <2> QED BY <1>4, <1>6, <1>9, <2>1, <2>2, <2>3, <2>4
<1>13. Writable(b, r, id, g)
  <2>1. ~ b.lost /\ r = SC_CMP => b.stack[Len(b.stack)].type = "int"
    BY <1>2, <1>4
  <2> QED BY <1>12, <2>1 DEF Writable
<1>14. PICK t : t = Computed(b, r, id, ok)
  OBVIOUS
<1>15. Replaced(b, t, r, id)
  <2>1. /\ Good(b) /\ id \in Nat /\ id # 0
        /\ g \in [Regs -> Tokens] /\ b = [b EXCEPT !.reg = g]
    BY <1>4, <1>6, <1>10
  <2> QED BY <2>1, <1>7, <1>8, <1>11, <1>13, <1>14, ComputedGood
<1>16. t = Result(s, r)
  BY <1>3, <1>5, <1>14 DEF Result
<1>17. b.stack[n - 1] = s.stack[n - 1]
  BY <1>2, <1>4
<1>18. ResultOf(s, t, r)
  BY <1>1, <1>4, <1>15, <1>17 DEF ResultOf, Replaced
<1> QED BY <1>16, <1>18

Operators == {"alu", "mul", "div", "mod", "rel"}

LEMMA ComputeGood ==
  ASSUME NEW s, Good(s), Len(s.stack) > 1, NEW op \in Operators,
         s.stack[Second(s)].r \in Regs,
         s.stack[Top(s)].r \in Regs \/ IsConst(s.stack[Top(s)]),
         op = "rel" /\ ~ s.lost => s.stack[Second(s)].type = "int"
  PROVE  ResultOf(s, Compute(s, op),
                  IF op = "rel" THEN SC_CMP ELSE s.stack[Second(s)].r)
<1>1. PICK u, r : /\ u = Clobber(s)
                  /\ r = IF op = "rel" THEN SC_CMP ELSE s.stack[Second(s)].r
  OBVIOUS
<1>2. /\ Good(u) /\ u.stack = s.stack /\ (s.lost => u.lost)
      /\ ~ u.lost => ~ s.lost /\ \A i \in 1 .. Len(s.stack) : s.stack[i].r # SC_CMP
  BY <1>1, ClobberGood
<1>3. Top(u) = Top(s) /\ Second(u) = Second(s)
  BY <1>2 DEF Top, Second
<1>4. r \in Regs \cup {SC_CMP} /\ (r = SC_CMP \/ r = u.stack[Second(u)].r)
  BY <1>1, <1>2, <1>3
<1>5. ~ u.lost /\ r = SC_CMP =>
        /\ u.stack[Second(u)].type = "int"
        /\ \A i \in 1 .. Len(u.stack) : u.stack[i].r # SC_CMP
  <2>1. r = SC_CMP => op = "rel"
    BY <1>1 DEF Regs, SC_CMP
  <2> QED BY <1>2, <1>3, <2>1
<1>6. PICK t : t = Result(u, r)
  OBVIOUS
<1>7. /\ Len(u.stack) > 1 /\ u.stack[Second(u)].r \in Regs
      /\ u.stack[Top(u)].r \in Regs \/ IsConst(u.stack[Top(u)])
  BY <1>2, <1>3
<1>8. ResultOf(u, t, r)
  BY <1>2, <1>4, <1>5, <1>6, <1>7, ResultGood
<1>9. ResultOf(s, t, r)
  BY <1>2, <1>8 DEF ResultOf
<1>10. t = Compute(s, op)
  BY <1>1, <1>6 DEF Compute
<1> QED BY <1>1, <1>9, <1>10

\* The two operands on top of s give way to a value of the type of the first, in a
\* register unless it is a comparison.
Operated(s, t, op) ==
  /\ Good(t) /\ Len(t.stack) = Len(s.stack) - 1 /\ (s.lost => t.lost)
  /\ ~ t.stack[Len(t.stack)].lval
  /\ op # "rel" => t.stack[Len(t.stack)].r \in Regs
  /\ t.stack[Len(t.stack)].type = s.stack[Len(s.stack) - 1].type

\* The operands have been loaded in u.
LEMMA OperatedGood ==
  ASSUME NEW s, Good(s), Len(s.stack) > 1, NEW u, Good(u),
         Len(u.stack) = Len(s.stack), s.lost => u.lost,
         NEW op \in Operators,
         u.stack[Len(s.stack) - 1].r \in Regs,
         u.stack[Len(s.stack)].r \in Regs \/ IsConst(u.stack[Len(s.stack)]),
         u.stack[Len(s.stack) - 1].type = s.stack[Len(s.stack) - 1].type,
         op = "rel" /\ ~ s.lost => s.stack[Len(s.stack) - 1].type = "int"
  PROVE  Operated(s, Compute(u, op), op)
<1>1. Top(u) = Len(s.stack) /\ Second(u) = Len(s.stack) - 1
  BY DEF Top, Second
<1>2. PICK t, r : /\ t = Compute(u, op)
                  /\ r = IF op = "rel" THEN SC_CMP ELSE u.stack[Second(u)].r
  OBVIOUS
<1>3. ResultOf(u, t, r)
  <2>1. /\ Len(u.stack) > 1 /\ u.stack[Second(u)].r \in Regs
        /\ u.stack[Top(u)].r \in Regs \/ IsConst(u.stack[Top(u)])
        /\ op = "rel" /\ ~ u.lost => u.stack[Second(u)].type = "int"
    BY <1>1
  <2> QED BY <1>2, <2>1, ComputeGood
<1> QED BY <1>1, <1>2, <1>3 DEF ResultOf, Operated

LEMMA Opi2Good ==
  ASSUME NEW s, Good(s), Len(s.stack) > 1, NEW op \in Operators, locals \in BOOLEAN,
         op = "rel" /\ ~ s.lost => s.stack[Len(s.stack) - 1].type = "int"
  PROVE  Operated(s, gen_opi2(s, op), op)
<1>1. PICK n : n = Len(s.stack)
  OBVIOUS
<1>2. /\ n \in Nat /\ n > 1 /\ n - 1 \in 1 .. n /\ n \in 1 .. n /\ n - 1 # n
      /\ Top(s) = n /\ Second(s) = n - 1
  BY <1>1, GoodTyped DEF Top, Second
<1>3. REG_ANY \in RegClasses
  BY DEF RegClasses
<1>4. CASE IsConst(s.stack[n])
  <2>1. PICK t, bad, u : /\ t = load_1(s, REG_ANY, n - 1)
                         /\ bad = (s.stack[n].value = 1) /\ u = LoseIf(t, bad)
    OBVIOUS
  <2>2. Loaded(s, t, n - 1) /\ t.stack[n] = s.stack[n]
    <3>1. /\ Loaded(s, t, n - 1)
          /\ REG_ANY = REG_ANY /\ n - 1 # Len(s.stack) =>
               t.stack[Len(s.stack)] = s.stack[Len(s.stack)]
      BY <1>1, <1>2, <1>3, <2>1, Load1Good
    <3> QED BY <1>1, <1>2, <3>1
  <2>3. /\ Good(t) /\ Len(t.stack) = n /\ (s.lost => t.lost)
        /\ t.stack[n - 1].r \in Regs /\ t.stack[n - 1].type = s.stack[n - 1].type
    BY <1>1, <1>2, <2>2 DEF Loaded
  <2>4. bad \in BOOLEAN
    BY <2>1
  <2>5. Good(u) /\ u.stack = t.stack /\ (t.lost => u.lost)
    BY <2>1, <2>3, <2>4, LoseIfGood
  <2>6. /\ Len(u.stack) = Len(s.stack) /\ (s.lost => u.lost)
        /\ u.stack[Len(s.stack) - 1].r \in Regs
        /\ IsConst(u.stack[Len(s.stack)])
        /\ u.stack[Len(s.stack) - 1].type = s.stack[Len(s.stack) - 1].type
    BY <1>1, <1>4, <2>2, <2>3, <2>5
  <2>7. Operated(s, Compute(u, op), op)
    BY <2>5, <2>6, OperatedGood
  <2> QED BY <1>2, <1>4, <2>1, <2>7 DEF gen_opi2
<1>5. CASE ~ IsConst(s.stack[n])
  <2>1. PICK u : u = load_2(s, REG_ANY, REG_ANY)
    OBVIOUS
  <2>2. /\ Good(u) /\ Len(u.stack) = Len(s.stack) /\ (s.lost => u.lost)
        /\ u.stack[n - 1].r \in Regs /\ u.stack[n].r \in Regs
        /\ u.stack[n - 1].type = s.stack[n - 1].type
    BY <1>1, <1>2, <1>3, <2>1, Load2Good
  <2>3. Operated(s, Compute(u, op), op)
    BY <1>1, <2>2, OperatedGood
  <2> QED BY <1>2, <1>5, <2>1, <2>3 DEF gen_opi2
<1> QED BY <1>4, <1>5

LEMMA MultiplyGood ==
  ASSUME NEW s, Good(s), Len(s.stack) > 1, locals \in BOOLEAN
  PROVE  Operated(s, Multiply(s), "mul")
<1>1. REG_ANY \in RegClasses /\ "mul" \in Operators
  BY DEF RegClasses, Operators
<1>2. PICK u : u = load_2(s, REG_ANY, REG_ANY)
  OBVIOUS
<1>3. Top(s) = Len(s.stack) /\ Second(s) = Len(s.stack) - 1
  BY DEF Top, Second
<1>4. Len(s.stack) \in Nat /\ Len(s.stack) - 1 \in 1 .. Len(s.stack)
  BY GoodTyped
<1>5. /\ Good(u) /\ Len(u.stack) = Len(s.stack) /\ (s.lost => u.lost)
      /\ u.stack[Len(s.stack) - 1].r \in Regs /\ u.stack[Len(s.stack)].r \in Regs
      /\ u.stack[Len(s.stack) - 1].type = s.stack[Len(s.stack) - 1].type
  BY <1>1, <1>2, <1>3, <1>4, Load2Good
<1>6. Operated(s, Compute(u, "mul"), "mul")
  BY <1>1, <1>5, OperatedGood
<1> QED BY <1>2, <1>6 DEF Multiply

\* The dividend is in EAX, what was in EDX is spilled: the division spoils no other
\* operand.
LEMMA IDivGood ==
  ASSUME NEW s, Good(s), Len(s.stack) > 1, NEW op, locals \in BOOLEAN
  PROVE  Operated(s, IDiv(s, op), "div")
<1>1. PICK n, z : n = Len(s.stack) /\ z = n - 1
  OBVIOUS
<1>2. /\ n \in Nat /\ z \in Nat /\ z > 0 /\ z \in 1 .. n /\ n \in 1 .. n /\ z \in 1 .. z
      /\ Top(s) = n /\ Second(s) = z /\ n # 0
      /\ \A j \in 1 .. z : j \in 1 .. n
      /\ \A j \in 1 .. z - 1 : j \in 1 .. z /\ j # z
  BY <1>1, GoodTyped DEF Top, Second
<1>3. PICK p, v : p = Pop(s) /\ v = spill_reg(p, EDX)
  OBVIOUS
<1>4. /\ Good(p) /\ Len(p.stack) = z /\ \A j \in 1 .. z : p.stack[j] = s.stack[j]
      /\ p.lost = s.lost
  BY <1>1, <1>2, <1>3, PopGood
<1>5. EDX \in Regs /\ EAX \in Regs /\ EDX # EAX
  BY DEF EDX, EAX, Regs
<1>6. /\ Good(v) /\ Len(v.stack) = z
      /\ \A j \in 1 .. z :
           IF p.stack[j].r = EDX
           THEN /\ v.stack[j].r = SC_LOCAL
                /\ v.stack[j].stands = p.stack[j].stands
                /\ v.stack[j].object = p.stack[j].object
                /\ v.stack[j].type = p.stack[j].type
           ELSE v.stack[j] = p.stack[j]
      /\ p.lost => v.lost
  <2>1. Good(p) /\ EDX \in Regs
    BY <1>4, <1>5
  <2>2. /\ Good(v) /\ Len(v.stack) = Len(p.stack)
        /\ \A j \in 1 .. Len(p.stack) :
             IF p.stack[j].r = EDX
             THEN /\ v.stack[j].r = SC_LOCAL
                  /\ v.stack[j].stands = p.stack[j].stands
                  /\ v.stack[j].object = p.stack[j].object
                  /\ v.stack[j].type = p.stack[j].type
             ELSE v.stack[j] = p.stack[j]
        /\ p.lost => v.lost
    BY <1>3, <2>1, SpillGood
  <2> QED BY <1>4, <2>2
<1>7. PICK fits, bad, c, b :
        /\ fits = (s.stack[z].r = EAX /\ s.stack[n].r \in Regs \ {EAX, EDX})
        /\ bad = (op = "div" \/ ~ fits)
        /\ c = LoseIf(v, bad) /\ b = Clobber(c)
  OBVIOUS
<1>8. /\ Good(c) /\ c.stack = v.stack /\ c.lost = (v.lost \/ bad)
  BY <1>6, <1>7, LoseIfGood
<1>9. /\ Good(b) /\ b.stack = v.stack /\ (c.lost => b.lost)
  BY <1>7, <1>8, ClobberGood
<1>10. PICK g, e : g = [b.reg EXCEPT ![EAX] = Junk] /\ e = [b EXCEPT !.reg = g]
  OBVIOUS
<1>11. b \in States /\ b.reg \in [Regs -> Tokens]
  BY <1>9, GoodTyped DEF States
<1>12. g \in [Regs -> Tokens] /\ \A x \in Regs : x # EAX => g[x] = b.reg[x]
  <2>1. Junk \in Tokens
    BY DEF Junk, Tokens
  <2> QED BY <1>10, <1>11, <2>1
<1>13. PICK id, ok : id = FreshId(s) /\ ok = (Holds(s, n) /\ Holds(s, z))
  OBVIOUS
<1>14. id \in Nat /\ id # 0 /\ \A j \in 1 .. n : s.stack[j].stands[1] # id
  BY <1>1, <1>13, FreshIs, GoodTyped
<1>15. ~ b.lost => ok
  <2>1. ~ b.lost => ~ s.lost
    BY <1>4, <1>6, <1>8, <1>9
  <2> QED BY <1>1, <1>2, <1>13, <2>1 DEF Good, Reachable
<1>16. Writable(b, EDX, id, g)
  <2>1. ASSUME NEW j \in 1 .. z - 1
        PROVE  /\ b.stack[j].stands[1] # id
               /\ EDX \in Regs => b.stack[j].r # EDX
               /\ ~ b.lost => /\ b.stack[j].r \in Regs => g[b.stack[j].r] = b.reg[b.stack[j].r]
                              /\ EDX = SC_CMP => b.stack[j].r # SC_CMP
    <3>1. j \in 1 .. z /\ j \in 1 .. n /\ j # z
      BY <1>2
    <3>2. /\ b.stack[j] = v.stack[j] /\ p.stack[j] = s.stack[j]
          /\ v.stack[j].stands = s.stack[j].stands
      BY <1>4, <1>6, <1>9, <3>1
    <3>3. v.stack[j].r # EDX
      BY <1>6, <3>1 DEF SC_LOCAL, EDX
    <3>4. ~ b.lost => v.stack[j].r # EAX
      <4> SUFFICES ASSUME ~ b.lost, v.stack[j].r = EAX PROVE FALSE
        OBVIOUS
      <4>1. s.stack[z].r = EAX
        BY <1>7, <1>8, <1>9
      <4>2. s.stack[j].r = EAX
        BY <1>6, <3>1, <3>2 DEF SC_LOCAL, EAX
      <4>3. j \in 1 .. Len(s.stack) /\ z \in 1 .. Len(s.stack)
        BY <1>1, <1>2, <3>1
      <4> QED BY <1>5, <3>1, <4>1, <4>2, <4>3 DEF Good, Apart
    <3>5. EDX # SC_CMP
      BY DEF EDX, SC_CMP
    <3>6. ~ b.lost /\ b.stack[j].r \in Regs => g[b.stack[j].r] = b.reg[b.stack[j].r]
      BY <1>12, <3>2, <3>4
    <3> QED BY <1>14, <3>1, <3>2, <3>3, <3>5, <3>6
  <2>2. EDX # SC_CMP
    BY DEF EDX, SC_CMP
  <2>3. Len(b.stack) = z
    BY <1>6, <1>9
  <2> QED BY <2>1, <2>2, <2>3 DEF Writable
<1>17. PICK t : t = Computed(e, EDX, id, ok)
  OBVIOUS
<1>18. Replaced(b, t, EDX, id)
  <2>1. Len(b.stack) > 0 /\ ok \in BOOLEAN /\ EDX \in Regs \cup {SC_CMP}
    BY <1>2, <1>5, <1>6, <1>9, <1>13
  <2> QED BY <1>9, <1>10, <1>12, <1>14, <1>15, <1>16, <1>17, <2>1, ComputedGood
<1>19. t = IDiv(s, op)
  <2>1. e = [b EXCEPT !.reg[EAX] = Junk]
    BY <1>5, <1>10, <1>11 DEF States
  <2> QED BY <1>2, <1>3, <1>7, <1>13, <1>17, <2>1 DEF IDiv
<1>20. Operated(s, t, "div")
  <2>1. Len(b.stack) = z /\ (s.lost => b.lost)
    BY <1>4, <1>6, <1>8, <1>9
  <2>2. b.stack[z].type = s.stack[z].type
    BY <1>2, <1>4, <1>6, <1>9
  <2> QED BY <1>1, <1>5, <1>18, <2>1, <2>2 DEF Replaced, Operated
<1> QED BY <1>19, <1>20

LEMMA DivideGood ==
  ASSUME NEW s, Good(s), Len(s.stack) > 1, NEW op, locals \in BOOLEAN
  PROVE  Operated(s, Divide(s, op), "div")
<1>1. EAX \in RegClasses /\ ECX \in RegClasses
  BY DEF RegClasses, Regs, EAX, ECX
<1>2. PICK u, t : u = load_2(s, EAX, ECX) /\ t = IDiv(u, op)
  OBVIOUS
<1>3. Len(s.stack) \in Nat /\ Len(s.stack) - 1 \in 1 .. Len(s.stack)
  BY GoodTyped
<1>4. /\ Good(u) /\ Len(u.stack) = Len(s.stack) /\ (s.lost => u.lost)
      /\ u.stack[Len(s.stack) - 1].type = s.stack[Len(s.stack) - 1].type
  BY <1>1, <1>2, <1>3, Load2Good
<1>5. Operated(u, t, "div")
  BY <1>2, <1>4, IDivGood
<1>6. Operated(s, t, "div")
  BY <1>4, <1>5 DEF Operated
<1> QED BY <1>2, <1>6 DEF Divide

LEMMA OpiGood ==
  ASSUME NEW s, Good(s), Len(s.stack) > 1, NEW op \in Operators, locals \in BOOLEAN,
         op = "rel" /\ ~ s.lost => s.stack[Len(s.stack) - 1].type = "int"
  PROVE  Operated(s, gen_opi(s, op), op)
<1>1. CASE op \in {"alu", "rel"}
  BY <1>1, Opi2Good DEF gen_opi
<1>2. CASE op = "mul"
  BY <1>2, MultiplyGood DEF gen_opi
<1>3. CASE op \in {"div", "mod"}
  <2>1. Operated(s, Divide(s, op), "div")
    BY DivideGood
  <2>2. gen_opi(s, op) = Divide(s, op)
    BY <1>3 DEF gen_opi
  <2>3. op # "rel"
    BY <1>3
  <2> QED BY <2>1, <2>2, <2>3 DEF Operated
<1> QED BY <1>1, <1>2, <1>3 DEF Operators

-----------------------------------------------------------------------------
(* Operands are pushed; operators on pointers.                             *)

Leaf == [r : {SC_GLOBAL, SC_LOCAL}, lval : BOOLEAN, sym : BOOLEAN, value : Int,
         type : Types]

\* leaf is above the operands of s in t.
Pushed(s, t, leaf) ==
  /\ Good(t) /\ Len(t.stack) = Len(s.stack) + 1 /\ t.lost = s.lost
  /\ \A j \in 1 .. Len(s.stack) : t.stack[j] = s.stack[j]
  /\ t.stack[Len(t.stack)].type = leaf.type
  /\ t.stack[Len(t.stack)].object = leaf.lval

LEMMA PushGood ==
  ASSUME NEW s, Good(s), NEW leaf \in Leaf
  PROVE  Pushed(s, operand_push(s, leaf), leaf)
<1>1. PICK n, m : n = Len(s.stack) /\ m = n + 1
  OBVIOUS
<1>2. /\ s \in States /\ s.stack \in Seq(Operand) /\ n \in Nat /\ m \in 1 .. m
      /\ \A j \in 1 .. m : j # m => j \in 1 .. n
      /\ \A j \in 1 .. n : j # m /\ j \in 1 .. m
  BY <1>1, GoodTyped
<1>3. PICK id, read, o, w, x :
        /\ id = FreshId(s) /\ read = (IF leaf.lval THEN 0 ELSE 1)
        /\ x = <<id, read>> /\ w = <<id, 1>>
        /\ o = [r |-> leaf.r, lval |-> leaf.lval, sym |-> leaf.sym, value |-> leaf.value,
                type |-> leaf.type, base |-> x, stands |-> w, object |-> leaf.lval]
  OBVIOUS
<1>4. id \in Nat /\ id # 0 /\ \A j \in 1 .. n : s.stack[j].stands[1] # id
  BY <1>1, <1>2, <1>3, FreshIs
<1>5. x \in Tokens /\ w \in Tokens /\ x # Junk /\ w[1] = id
  BY <1>3, <1>4 DEF Tokens, Junk
<1>6. /\ leaf.r \in {SC_GLOBAL, SC_LOCAL} /\ leaf.lval \in BOOLEAN /\ leaf.sym \in BOOLEAN
      /\ leaf.value \in Int /\ leaf.type \in Types
  BY DEF Leaf
<1>7. /\ o \in Operand /\ o.r = leaf.r /\ o.lval = leaf.lval /\ o.base = x
      /\ o.stands = w /\ o.object = leaf.lval /\ o.type = leaf.type
  <2>1. leaf.r \in Regs \cup (SC_GLOBAL .. SC_CMP)
    BY <1>6 DEF SC_GLOBAL, SC_LOCAL, SC_CMP
  <2> QED BY <1>3, <1>5, <1>6, <2>1 DEF Operand
<1>8. PICK q : q = Append(s.stack, o)
  OBVIOUS
<1>9. /\ q \in Seq(Operand) /\ Len(q) = m /\ q[m] = o
      /\ \A j \in 1 .. n : q[j] = s.stack[j]
  BY <1>1, <1>2, <1>7, <1>8, AppendProperties
<1>10. PICK t : t = operand_push(s, leaf)
  OBVIOUS
<1>11. t = [s EXCEPT !.stack = q]
  BY <1>2, <1>3, <1>8, <1>10 DEF operand_push
<1>12. /\ t \in States /\ t.stack = q /\ t.reg = s.reg /\ t.flags = s.flags
       /\ t.frame = s.frame /\ t.lost = s.lost /\ t.right = s.right
  BY <1>2, <1>9, <1>11 DEF States
<1>13. o.r \notin Regs /\ o.r # SC_CMP /\ ~ InFrame(o)
  BY <1>5, <1>6, <1>7 DEF Regs, SC_GLOBAL, SC_LOCAL, SC_CMP, InFrame
<1>14. ~ t.lost => ~ s.lost /\ t.right /\ Reachable(t, m)
  <2> SUFFICES ASSUME ~ t.lost PROVE ~ s.lost /\ t.right /\ Reachable(t, m)
    OBVIOUS
  <2>1. ~ s.lost /\ t.right
    BY <1>12 DEF Good
  <2>2. ValueOf(t, o) = w
    <3>1. ValueOf(t, o) = IF o.lval THEN Reads(x) ELSE x
      BY <1>7, <1>13 DEF ValueOf
    <3>2. CASE o.lval
      <4>1. x = <<id, 0>>
        BY <1>3, <1>7, <3>2
      <4>2. Reads(x) = <<x[1], x[2] + 1>>
        BY <1>5 DEF Reads
      <4> QED BY <1>3, <3>1, <3>2, <4>1, <4>2
    <3>3. CASE ~ o.lval
      BY <1>3, <1>7, <3>1, <3>3
    <3> QED BY <3>2, <3>3
  <2>3. Holds(t, m)
    BY <1>7, <1>9, <1>12, <2>2 DEF Holds
  <2> QED BY <1>7, <1>9, <1>12, <1>13, <2>1, <2>3 DEF Reachable
<1>15. Good(t)
  <2>1. m \in 1 .. Len(t.stack)
    BY <1>2, <1>9, <1>12
  <2>2. \A j \in 1 .. Len(t.stack) : j # m =>
          j \in 1 .. Len(s.stack) /\ t.stack[j] = s.stack[j]
    BY <1>1, <1>2, <1>9, <1>12
  <2>3. \A j \in 1 .. Len(t.stack) : j # m =>
          /\ t.stack[m].r \in Regs => s.stack[j].r # t.stack[m].r
          /\ s.stack[j].stands[1] # t.stack[m].stands[1]
    BY <1>2, <1>4, <1>5, <1>7, <1>9, <1>12, <1>13
  <2>4. t.stack[m].stands[1] # 0
    BY <1>4, <1>5, <1>7, <1>9, <1>12
  <2>5. ~ t.lost => \A j \in 1 .. Len(t.stack) : j # m =>
          /\ s.stack[j].r \in Regs => t.reg[s.stack[j].r] = s.reg[s.stack[j].r]
          /\ s.stack[j].r = SC_CMP => t.flags = s.flags
          /\ InFrame(s.stack[j]) => t.frame = s.frame
    BY <1>12
  <2>6. t \in States
    BY <1>12
  <2> QED BY <1>14, <2>1, <2>2, <2>3, <2>4, <2>5, <2>6, OneChanged
<1> QED BY <1>1, <1>7, <1>9, <1>10, <1>12, <1>15 DEF Pushed

LEMMA IntConstLeaf == IntConst \in Leaf /\ IntConst.type = "int"
BY DEF IntConst, Leaf, Types

\* What is scaled keeps its type.
LEMMA ScaledGood ==
  ASSUME NEW s, Good(s), Len(s.stack) > 0, locals \in BOOLEAN
  PROVE  LET t == Scaled(s)
         IN /\ Good(t) /\ Len(t.stack) = Len(s.stack) /\ (s.lost => t.lost)
<1>1. PICK u, t : u = operand_push(s, IntConst) /\ t = Multiply(u)
  OBVIOUS
<1>2. Pushed(s, u, IntConst)
  BY <1>1, PushGood, IntConstLeaf
<1>3. Len(s.stack) \in Nat
  BY GoodTyped
<1>4. Good(u) /\ Len(u.stack) > 1 /\ Len(u.stack) - 1 = Len(s.stack) /\ u.lost = s.lost
  BY <1>2, <1>3 DEF Pushed
<1>5. Operated(u, t, "mul")
  BY <1>1, <1>4, MultiplyGood
<1>6. t = Scaled(s)
  BY <1>1 DEF Scaled
<1>7. Good(t) /\ Len(t.stack) = Len(s.stack) /\ (s.lost => t.lost)
  BY <1>4, <1>5 DEF Operated
<1> QED BY <1>6, <1>7

LEMMA OpGood ==
  ASSUME NEW s, Good(s), Len(s.stack) > 1, NEW op \in Operators, locals \in BOOLEAN
  PROVE  LET t == gen_op(s, op)
         IN /\ Good(t) /\ Len(t.stack) = Len(s.stack) - 1
            /\ op # "rel" => t.stack[Len(t.stack)].r \in Regs
            /\ ~ t.stack[Len(t.stack)].lval
<1>1. PICK n, t : n = Len(s.stack) /\ t = gen_op(s, op)
  OBVIOUS
<1>2. n \in Nat /\ n > 1 /\ Top(s) = n /\ Second(s) = n - 1
  BY <1>1, GoodTyped DEF Top, Second
<1>3. PICK u : u = Lose(s)
  OBVIOUS
<1>4. Good(u) /\ u.stack = s.stack /\ u.lost
  BY <1>3, LoseIfGood DEF Lose
<1>5. CASE s.stack[n - 1].type = "int" /\ s.stack[n].type = "int"
  <2>1. Operated(s, gen_opi(s, op), op)
    BY <1>1, <1>5, OpiGood
  <2>2. t = gen_opi(s, op)
    BY <1>1, <1>2, <1>5 DEF gen_op
  <2> QED BY <1>1, <2>1, <2>2 DEF Operated
<1>6. CASE ~ (s.stack[n - 1].type = "int" /\ s.stack[n].type = "int") /\ op = "rel"
  <2>1. Operated(u, gen_opi(u, op), op)
    BY <1>4, OpiGood
  <2>2. t = gen_opi(u, op)
    BY <1>1, <1>2, <1>3, <1>6 DEF gen_op
  <2> QED BY <1>1, <1>4, <2>1, <2>2 DEF Operated
<1>7. CASE /\ ~ (s.stack[n - 1].type = "int" /\ s.stack[n].type = "int") /\ op # "rel"
           /\ s.stack[n].type = "int"
  <2>1. PICK v : v = Scaled(s)
    OBVIOUS
  <2>2. Good(v) /\ Len(v.stack) = n
    BY <1>1, <1>2, <2>1, ScaledGood
  <2>3. Operated(v, gen_opi(v, op), op)
    BY <1>2, <1>7, <2>2, OpiGood
  <2>4. t = gen_opi(v, op)
    BY <1>1, <1>2, <1>7, <2>1 DEF gen_op
  <2> QED BY <1>1, <2>2, <2>3, <2>4 DEF Operated
<1>8. CASE op # "rel" /\ s.stack[n].type # "int"
  <2>1. PICK a, b, c : /\ a = gen_opi(u, op) /\ b = operand_push(a, IntConst)
                       /\ c = Scaled(b)
    OBVIOUS
  <2>2. Operated(u, a, op)
    BY <1>4, <1>8, <2>1, OpiGood
  <2>3. Good(a) /\ Len(a.stack) = n - 1
    BY <1>1, <1>4, <2>2 DEF Operated
  <2>4. Pushed(a, b, IntConst)
    BY <2>1, <2>3, PushGood, IntConstLeaf
  <2>5. Good(b) /\ Len(b.stack) = n
    BY <1>2, <2>3, <2>4 DEF Pushed
  <2>6. Good(c) /\ Len(c.stack) = n
    BY <1>2, <2>1, <2>5, ScaledGood
  <2>7. Operated(c, Divide(c, "div"), "div")
    BY <1>2, <2>6, DivideGood
  <2>8. t = Divide(c, "div")
    BY <1>1, <1>2, <1>3, <1>8, <2>1 DEF gen_op
  <2> QED BY <1>1, <2>6, <2>7, <2>8 DEF Operated
<1> QED BY <1>5, <1>6, <1>7, <1>8

-----------------------------------------------------------------------------
(* Lvalues: & and * change what the top operand stands for, not its place. *)

\* What a reachable operand is, for one that is not on the stack yet.
Valid(s, o) ==
  /\ ValueOf(s, o) = o.stands
  /\ o.object => o.lval /\ ~ InFrame(o)
  /\ InFrame(o) => o.lval
  /\ o.r = SC_CMP => ~ o.lval /\ o.type = "int"

Put(s, n, o) == [s EXCEPT !.stack[n] = o]

LEMMA TopChanged ==
  ASSUME NEW s, Good(s), NEW n \in 1 .. Len(s.stack), NEW o \in Operand,
         o.r = s.stack[n].r, o.stands[1] = s.stack[n].stands[1],
         ~ s.lost => Valid(s, o),
         NEW t, t = Put(s, n, o)
  PROVE  /\ Good(t) /\ Len(t.stack) = Len(s.stack) /\ t.lost = s.lost
         /\ t.stack[n] = o
         /\ \A j \in 1 .. Len(s.stack) : j # n => t.stack[j] = s.stack[j]
         /\ t.reg = s.reg /\ t.flags = s.flags /\ t.frame = s.frame
<1>1. /\ s \in States /\ s.stack \in Seq(Operand) /\ Len(s.stack) \in Nat
      /\ DOMAIN s.stack = 1 .. Len(s.stack)
  BY GoodTyped
<1>2. PICK q : q = [s.stack EXCEPT ![n] = o]
  OBVIOUS
<1>3. /\ q \in Seq(Operand) /\ Len(q) = Len(s.stack) /\ q[n] = o
      /\ \A j \in 1 .. Len(s.stack) : j # n => q[j] = s.stack[j]
  <2>1. /\ q \in Seq(Operand) /\ Len(q) = Len(s.stack)
        /\ \A j \in 1 .. Len(s.stack) : q[j] = IF j = n THEN o ELSE s.stack[j]
    BY <1>1, <1>2, ExceptSeq
  <2> QED BY <2>1
<1>4. t = [s EXCEPT !.stack = q]
  BY <1>1, <1>2 DEF States, Put
<1>5. /\ t \in States /\ t.stack = q /\ t.reg = s.reg /\ t.flags = s.flags
      /\ t.frame = s.frame /\ t.lost = s.lost /\ t.right = s.right
  BY <1>1, <1>3, <1>4 DEF States
<1>6. \A j \in 1 .. Len(t.stack) : j # n =>
        j \in 1 .. Len(s.stack) /\ t.stack[j] = s.stack[j]
  BY <1>3, <1>5
<1>7. \A j \in 1 .. Len(t.stack) : j # n =>
        /\ t.stack[n].r \in Regs => s.stack[j].r # t.stack[n].r
        /\ s.stack[j].stands[1] # t.stack[n].stands[1]
  <2> SUFFICES ASSUME NEW j \in 1 .. Len(t.stack), j # n
               PROVE  /\ t.stack[n].r \in Regs => s.stack[j].r # t.stack[n].r
                      /\ s.stack[j].stands[1] # t.stack[n].stands[1]
    OBVIOUS
  <2>1. j \in 1 .. Len(s.stack) /\ t.stack[n] = o
    BY <1>3, <1>5
  <2>2. s.stack[n].r \in Regs => s.stack[j].r # s.stack[n].r
    BY <2>1 DEF Good, Apart
  <2>3. s.stack[j].stands[1] # s.stack[n].stands[1]
    BY <2>1 DEF Good, Numbered
  <2> QED BY <2>1, <2>2, <2>3
<1>8. t.stack[n].stands[1] # 0 /\ n \in 1 .. Len(t.stack)
  BY <1>3, <1>5 DEF Good, Numbered
<1>9. ~ t.lost => ~ s.lost /\ t.right /\ Reachable(t, n)
  <2> SUFFICES ASSUME ~ t.lost PROVE ~ s.lost /\ t.right /\ Reachable(t, n)
    OBVIOUS
  <2>1. ~ s.lost /\ t.right /\ Valid(s, o)
    BY <1>5 DEF Good
  <2>2. t.stack[n] = o
    BY <1>3, <1>5
  <2>3. ValueOf(t, o) = ValueOf(s, o)
    <3>1. /\ o.r \in Regs => t.reg[o.r] = s.reg[o.r]
          /\ o.r = SC_CMP => t.flags = s.flags
          /\ InFrame(o) => t.frame = s.frame
      BY <1>5
    <3> QED BY <3>1, SameValue
  <2> QED BY <2>1, <2>2, <2>3 DEF Valid, Reachable, Holds
<1>10. Good(t)
  <2>1. ~ t.lost => \A j \in 1 .. Len(t.stack) : j # n =>
          /\ s.stack[j].r \in Regs => t.reg[s.stack[j].r] = s.reg[s.stack[j].r]
          /\ s.stack[j].r = SC_CMP => t.flags = s.flags
          /\ InFrame(s.stack[j]) => t.frame = s.frame
    BY <1>5
  <2>2. t \in States /\ n \in 1 .. Len(t.stack) /\ t.stack[n].stands[1] # 0
    BY <1>5, <1>8
  <2> QED BY <1>6, <1>7, <1>9, <2>1, <2>2, OneChanged
<1> QED BY <1>3, <1>5, <1>10

\* cancel_lvalue: the place of an object is its address.
LEMMA AddressValid ==
  ASSUME NEW s, Good(s), NEW i \in 1 .. Len(s.stack), NEW type \in Types,
         NEW c, c = s.stack[i], c.object,
         NEW o, o = cancel_lvalue(c, type)
  PROVE  /\ o \in Operand /\ o.r = c.r /\ o.stands[1] = c.stands[1] /\ o.type = type
         /\ ~ s.lost => Valid(s, o)
<1>1. s \in States /\ c \in Operand
  BY GoodTyped
<1>2. c.stands \in Tokens /\ c.stands[1] # 0 /\ c.base \in Tokens
  BY <1>1, OperandTyped DEF Good, Numbered
<1>3. PICK w, p : w = Points(c.stands) /\ p = [c EXCEPT !.type = type, !.stands = w]
  OBVIOUS
<1>4. w \in Tokens /\ w[1] = c.stands[1]
  BY <1>2, <1>3, TokenFacts
<1>5. /\ p \in Operand /\ p.r = c.r /\ p.stands = w /\ p.type = type /\ p.base = c.base
      /\ p.value = c.value
  BY <1>1, <1>3, <1>4 DEF Operand
<1>6. o = [p EXCEPT !.lval = FALSE, !.object = FALSE]
  BY <1>1, <1>3 DEF Operand, cancel_lvalue
<1>7. /\ o \in Operand /\ o.r = c.r /\ o.stands = w /\ o.type = type /\ o.base = c.base
      /\ o.lval = FALSE /\ o.object = FALSE
  <2>1. /\ o \in Operand /\ o.r = p.r /\ o.stands = p.stands /\ o.type = p.type
        /\ o.base = p.base /\ o.lval = FALSE /\ o.object = FALSE
    BY <1>5, <1>6 DEF Operand
  <2> QED BY <1>5, <2>1
<1>8. ASSUME ~ s.lost PROVE Valid(s, o)
  <2>1. Reachable(s, i)
    BY <1>8 DEF Good
  <2>2. c.lval /\ ~ InFrame(c) /\ c.r # SC_CMP /\ ValueOf(s, c) = c.stands
    BY <2>1 DEF Reachable, Holds
  <2>3. PICK x : x = IF c.r \in Regs THEN s.reg[c.r] ELSE c.base
    OBVIOUS
  <2>4. x \in Tokens
    BY <1>1, <1>2, <2>3 DEF States
  <2>5. Reads(x) = c.stands
    BY <2>2, <2>3 DEF ValueOf
  <2>6. x = w
    BY <1>2, <1>3, <2>4, <2>5, ReadsPoints
  <2>7. ~ InFrame(o)
    BY <1>7, <2>2 DEF InFrame
  <2>8. ValueOf(s, o) = x
    BY <1>7, <2>2, <2>3, <2>7 DEF ValueOf
  <2> QED BY <1>7, <2>2, <2>6, <2>7, <2>8 DEF Valid
<1> QED BY <1>4, <1>7, <1>8

\* A value that is a pointer is the place of what it points to.
LEMMA DereferencedValid ==
  ASSUME NEW s, Good(s), NEW i \in 1 .. Len(s.stack), NEW type \in Types,
         NEW c, c = s.stack[i], ~ c.lval, c.type # "int" \/ c.r \in Regs,
         NEW o, o = ObjectAt(c, type)
  PROVE  /\ o \in Operand /\ o.r = c.r /\ o.stands[1] = c.stands[1] /\ o.type = type
         /\ ~ s.lost => Valid(s, o)
<1>1. s \in States /\ c \in Operand
  BY GoodTyped
<1>2. c.stands \in Tokens /\ c.base \in Tokens
  BY <1>1, OperandTyped
<1>3. PICK w, p : w = Reads(c.stands) /\ p = [c EXCEPT !.type = type, !.stands = w]
  OBVIOUS
<1>4. w \in Tokens /\ w[1] = c.stands[1]
  BY <1>2, <1>3, TokenFacts
<1>5. /\ p \in Operand /\ p.r = c.r /\ p.stands = w /\ p.type = type /\ p.base = c.base
      /\ p.value = c.value
  BY <1>1, <1>3, <1>4 DEF Operand
<1>6. o = [p EXCEPT !.lval = TRUE, !.object = TRUE]
  BY <1>1, <1>3 DEF Operand, ObjectAt
<1>7. /\ o \in Operand /\ o.r = c.r /\ o.stands = w /\ o.type = type /\ o.base = c.base
      /\ o.lval = TRUE /\ o.object = TRUE
  <2>1. /\ o \in Operand /\ o.r = p.r /\ o.stands = p.stands /\ o.type = p.type
        /\ o.base = p.base /\ o.lval = TRUE /\ o.object = TRUE
    BY <1>5, <1>6 DEF Operand
  <2> QED BY <1>5, <2>1
<1>8. ASSUME ~ s.lost PROVE Valid(s, o)
  <2>1. Reachable(s, i)
    BY <1>8 DEF Good
  <2>2. ~ InFrame(c) /\ ValueOf(s, c) = c.stands
    BY <2>1 DEF Reachable, Holds
  <2>3. c.r # SC_CMP
    BY <2>1 DEF Reachable, Regs, SC_CMP
  <2>4. PICK x : x = IF c.r \in Regs THEN s.reg[c.r] ELSE c.base
    OBVIOUS
  <2>5. x = c.stands
    BY <2>2, <2>3, <2>4 DEF ValueOf
  <2>6. ~ InFrame(o)
    BY <1>7, <2>2 DEF InFrame
  <2>7. ValueOf(s, o) = Reads(x)
    BY <1>7, <2>3, <2>4, <2>6 DEF ValueOf
  <2> QED BY <1>3, <1>7, <2>3, <2>5, <2>6, <2>7 DEF Valid
<1> QED BY <1>4, <1>7, <1>8

LEMMA AddressGood ==
  ASSUME NEW s, Good(s), NEW n \in 1 .. Len(s.stack), NEW type \in Types,
         NEW c, c = s.stack[n], c.object,
         NEW t, t = Put(s, n, cancel_lvalue(c, type))
  PROVE  /\ Good(t) /\ Len(t.stack) = Len(s.stack) /\ t.lost = s.lost
         /\ t.stack[n].type = type
<1>1. PICK o : o = cancel_lvalue(c, type)
  OBVIOUS
<1>2. /\ o \in Operand /\ o.r = c.r /\ o.stands[1] = c.stands[1] /\ o.type = type
      /\ ~ s.lost => Valid(s, o)
  BY <1>1, AddressValid
<1>3. t = Put(s, n, o)
  BY <1>1
<1>4. Good(t) /\ Len(t.stack) = Len(s.stack) /\ t.lost = s.lost /\ t.stack[n] = o
  BY <1>2, <1>3, TopChanged
<1> QED BY <1>2, <1>4

LEMMA DereferencedGood ==
  ASSUME NEW s, Good(s), NEW n \in 1 .. Len(s.stack), NEW type \in Types,
         NEW c, c = s.stack[n], ~ c.lval, c.type # "int" \/ c.r \in Regs,
         NEW t, t = Put(s, n, ObjectAt(c, type))
  PROVE  Good(t) /\ Len(t.stack) = Len(s.stack) /\ t.lost = s.lost
<1>1. PICK o : o = ObjectAt(c, type)
  OBVIOUS
<1>2. /\ o \in Operand /\ o.r = c.r /\ o.stands[1] = c.stands[1] /\ o.type = type
      /\ ~ s.lost => Valid(s, o)
  BY <1>1, DereferencedValid
<1>3. t = Put(s, n, o)
  BY <1>1
<1>4. Good(t) /\ Len(t.stack) = Len(s.stack) /\ t.lost = s.lost
  BY <1>2, <1>3, TopChanged
<1> QED BY <1>4

LEMMA IndirectionGood ==
  ASSUME NEW s, Good(s), Len(s.stack) > 0, locals \in BOOLEAN,
         s.stack[Len(s.stack)].type \in DOMAIN Pointed
  PROVE  LET t == indirection(s)
         IN Good(t) /\ Len(t.stack) = Len(s.stack)
<1>1. PICK n : n = Len(s.stack)
  OBVIOUS
<1>2. n \in Nat /\ n \in 1 .. n /\ Top(s) = n
  BY <1>1, GoodTyped DEF Top
<1>3. PICK u : u = IF s.stack[n].lval THEN load_1(s, REG_ANY, n) ELSE s
  OBVIOUS
<1>4. /\ Good(u) /\ Len(u.stack) = n /\ ~ u.stack[n].lval
      /\ u.stack[n].type = s.stack[n].type
  <2>1. CASE s.stack[n].lval
    <3>1. REG_ANY \in RegClasses
      BY DEF RegClasses
    <3>2. Loaded(s, u, n)
      BY <1>1, <1>2, <1>3, <2>1, <3>1, Load1Good
    <3> QED BY <1>1, <1>2, <3>2 DEF Loaded
  <2>2. CASE ~ s.stack[n].lval
    BY <1>1, <1>3, <2>2
  <2> QED BY <2>1, <2>2
<1>5. PICK c, type : c = u.stack[n] /\ type = Pointed[c.type]
  OBVIOUS
<1>6. type \in Types /\ c.type # "int"
  BY <1>1, <1>4, <1>5 DEF Pointed, Types
<1>7. PICK t : t = Put(u, n, ObjectAt(c, type))
  OBVIOUS
<1>8. Good(t) /\ Len(t.stack) = n
  <2>1. n \in 1 .. Len(u.stack) /\ ~ c.lval
    BY <1>2, <1>4, <1>5
  <2> QED BY <1>4, <1>5, <1>6, <1>7, <2>1, DereferencedGood
<1>9. t = indirection(s)
  <2>1. indirection(s) = Dereferenced(u)
    BY <1>2, <1>3 DEF indirection
  <2>2. u.stack[Top(u)] = c /\ Top(u) = n
    BY <1>4, <1>5 DEF Top
  <2>3. Dereferenced(u) = Put(u, n, ObjectAt(c, type))
    BY <1>5, <2>2 DEF Dereferenced, Put
  <2> QED BY <1>7, <2>1, <2>3
<1> QED BY <1>1, <1>8, <1>9

\* An argument, a condition or a result is used and its operand deleted.
LEMMA ArgumentGood ==
  ASSUME NEW s, Good(s), Len(s.stack) > 0
  PROVE  LET t == Argument(s)
         IN /\ Good(t) /\ Len(t.stack) = Len(s.stack) - 1 /\ t.lost = s.lost
            /\ \A j \in 1 .. Len(s.stack) - 1 : t.stack[j] = s.stack[j]
<1>1. PICK ok, u : ok = Holds(s, Top(s)) /\ u = Check(s, ok)
  OBVIOUS
<1>2. Len(s.stack) \in Nat /\ Len(s.stack) \in 1 .. Len(s.stack)
  BY GoodTyped
<1>3. ok \in BOOLEAN /\ (~ s.lost => ok)
  BY <1>1, <1>2 DEF Good, Reachable, Top, Holds
<1>4. Good(u) /\ u.stack = s.stack /\ u.lost = s.lost
  BY <1>1, <1>3, CheckGood
<1>5. PICK t : t = Pop(u)
  OBVIOUS
<1>6. /\ Good(t) /\ Len(t.stack) = Len(u.stack) - 1 /\ t.lost = u.lost
      /\ \A j \in 1 .. Len(u.stack) - 1 : t.stack[j] = u.stack[j]
  <2>1. Len(u.stack) # 0
    BY <1>2, <1>4
  <2> QED BY <1>4, <1>5, <2>1, PopGood
<1>7. t = Argument(s)
  BY <1>1, <1>5 DEF Argument
<1> QED BY <1>4, <1>6, <1>7

LEMMA MemberGood ==
  ASSUME NEW s, Good(s), Len(s.stack) > 0, locals \in BOOLEAN
  PROVE  Good(member(s)) /\ Len(member(s).stack) = Len(s.stack)
<1>1. PICK n, u, t : n = Len(s.stack) /\ u = operand_push(s, IntConst) /\ t = gen_op(u, "alu")
  OBVIOUS
<1>2. n \in Nat /\ n \in 1 .. n
  BY <1>1, GoodTyped
<1>3. Good(u) /\ Len(u.stack) > 1 /\ Len(u.stack) - 1 = n
  <2>1. Pushed(s, u, IntConst)
    BY <1>1, PushGood, IntConstLeaf
  <2> QED BY <1>1, <1>2, <2>1 DEF Pushed
<1>4. Good(t) /\ Len(t.stack) = n /\ t.stack[n].r \in Regs /\ ~ t.stack[n].lval
  <2>1. /\ Good(t) /\ Len(t.stack) = Len(u.stack) - 1
        /\ "alu" # "rel" => t.stack[Len(t.stack)].r \in Regs
        /\ ~ t.stack[Len(t.stack)].lval
    BY <1>1, <1>3, OpGood DEF Operators
  <2> QED BY <1>3, <2>1
<1>5. PICK c, x : c = t.stack[n] /\ x = Put(t, n, ObjectAt(c, "int"))
  OBVIOUS
<1>6. Good(x) /\ Len(x.stack) = n
  <2>1. n \in 1 .. Len(t.stack) /\ ~ c.lval /\ c.r \in Regs /\ "int" \in Types
    BY <1>2, <1>4, <1>5 DEF Types
  <2> QED BY <1>4, <1>5, <2>1, DereferencedGood
<1>7. x = member(s)
  <2>1. Top(t) = n
    BY <1>4 DEF Top
  <2> QED BY <1>1, <1>5, <2>1 DEF member, Put
<1> QED BY <1>1, <1>6, <1>7

-----------------------------------------------------------------------------
(* Stores, calls and jumps.                                                *)

\* The address that a store uses is that of the object.
LEMMA AddressHeld ==
  ASSUME NEW s, Good(s), NEW i \in 1 .. Len(s.stack), NEW c, c = s.stack[i],
         c.object, ~ s.lost,
         NEW x, x = IF InFrame(c) THEN Junk ELSE IF c.r \in Regs THEN s.reg[c.r] ELSE c.base
  PROVE  x = Points(c.stands)
<1>1. s \in States /\ c \in Operand
  BY GoodTyped
<1>2. c.stands \in Tokens /\ c.stands[1] # 0 /\ c.base \in Tokens
  BY <1>1, OperandTyped DEF Good, Numbered
<1>3. Reachable(s, i)
  BY DEF Good
<1>4. c.lval /\ ~ InFrame(c) /\ c.r # SC_CMP /\ ValueOf(s, c) = c.stands
  BY <1>3 DEF Reachable, Holds
<1>5. x \in Tokens
  BY <1>1, <1>2, <1>4 DEF States
<1>6. Reads(x) = c.stands
  BY <1>4 DEF ValueOf
<1> QED BY <1>2, <1>5, <1>6, ReadsPoints

LEMMA StoredGood ==
  ASSUME NEW s, Good(s), Len(s.stack) > 1, s.stack[Second(s)].object \/ s.lost
  PROVE  Good(Stored(s)) /\ Len(Stored(s).stack) = Len(s.stack) - 1
<1>1. PICK n, there, address, ok, u, t :
        /\ n = Len(s.stack) /\ there = s.stack[Second(s)]
        /\ address = IF InFrame(there) THEN Junk
                     ELSE IF there.r \in Regs THEN s.reg[there.r] ELSE there.base
        /\ ok = (Holds(s, Top(s)) /\ address = Points(there.stands))
        /\ u = Check(s, ok) /\ t = Pop(u)
  OBVIOUS
<1>2. n \in Nat /\ n \in 1 .. n /\ n - 1 \in 1 .. n /\ Top(s) = n /\ Second(s) = n - 1
  BY <1>1, GoodTyped DEF Top, Second
<1>3. ok \in BOOLEAN
  BY <1>1
<1>4. ~ s.lost => ok
  <2> SUFFICES ASSUME ~ s.lost PROVE ok
    OBVIOUS
  <2>1. Holds(s, n)
    BY <1>1, <1>2 DEF Good, Reachable
  <2>2. address = Points(there.stands)
    <3>1. n - 1 \in 1 .. Len(s.stack) /\ there = s.stack[n - 1] /\ there.object
      BY <1>1, <1>2
    <3> QED BY <1>1, <3>1, AddressHeld
  <2> QED BY <1>1, <1>2, <2>1, <2>2
<1>5. Good(u) /\ u.stack = s.stack
  BY <1>1, <1>3, <1>4, CheckGood
<1>6. Len(u.stack) = n /\ Len(u.stack) > 1 /\ Len(u.stack) # 0
  <2>1. Len(u.stack) = Len(s.stack) /\ Len(s.stack) = n
    BY <1>1, <1>5
  <2> QED BY <1>2, <2>1
<1>7. Good(t) /\ Len(t.stack) = n - 1
  BY <1>1, <1>5, <1>6, PopGood
<1>8. t = Stored(s)
  <2>1. Swap(u) = u
    BY <1>5, <1>6, SwapSame
  <2> QED BY <1>1, <2>1 DEF Stored, store
<1> QED BY <1>1, <1>7, <1>8

LEMMA StoreGood ==
  ASSUME NEW s, Good(s), Len(s.stack) > 1,
         s.stack[Len(s.stack) - 1].object \/ s.lost, locals \in BOOLEAN
  PROVE  Good(store0_1(s)) /\ Len(store0_1(s).stack) = Len(s.stack) - 1
<1>1. PICK n, u, t : n = Len(s.stack) /\ u = load_1(s, REG_ANY, n) /\ t = Stored(u)
  OBVIOUS
<1>2. n \in Nat /\ n \in 1 .. n /\ n - 1 \in 1 .. n /\ n - 1 # n /\ Top(s) = n
  BY <1>1, GoodTyped DEF Top
<1>3. Loaded(s, u, n)
  <2>1. REG_ANY \in RegClasses
    BY DEF RegClasses
  <2> QED BY <1>1, <1>2, <2>1, Load1Good
<1>4. /\ Good(u) /\ Len(u.stack) = n /\ u.stack[n - 1].object = s.stack[n - 1].object
      /\ s.lost => u.lost
  BY <1>1, <1>2, <1>3 DEF Loaded
<1>5. Len(u.stack) > 1 /\ (u.stack[Second(u)].object \/ u.lost)
  BY <1>1, <1>4 DEF Second
<1>6. Good(t) /\ Len(t.stack) = Len(u.stack) - 1
  BY <1>1, <1>4, <1>5, StoredGood
<1>7. t = store0_1(s)
  BY <1>1, <1>2 DEF store0_1
<1> QED BY <1>1, <1>4, <1>6, <1>7

\* The first operands of s, in t, stand for the same, wherever they are.
Lowest(s, t, n) ==
  /\ Good(t) /\ Len(t.stack) = n /\ (s.lost => t.lost)
  /\ \A j \in 1 .. n : t.stack[j].stands = s.stack[j].stands

LEMMA LowestAgain ==
  ASSUME NEW s, NEW t, NEW u, NEW n \in Nat, NEW m \in Nat, m <= n,
         Lowest(s, t, n), Lowest(t, u, m)
  PROVE  Lowest(s, u, m)
BY DEF Lowest

LEMMA StackLost ==
  ASSUME NEW s, Good(s), NEW t \in States, t.lost, t.stack = s.stack
  PROVE  Good(t)
BY DEF Good, Apart, Numbered

LEMMA OtherArgumentGood ==
  ASSUME NEW s, Good(s), Len(s.stack) > 0, NEW filled \in BOOLEAN, locals \in BOOLEAN
  PROVE  Lowest(s, OtherArgument(s, filled), Len(s.stack) - 1)
<1>1. PICK n, z, a : n = Len(s.stack) /\ z = n - 1 /\ a = allocate_reg(s, REG_ANY)
  OBVIOUS
<1>2. n \in Nat /\ z \in Nat /\ n # 0 /\ \A j \in 1 .. z : j \in 1 .. n
  BY <1>1, GoodTyped
<1>3. /\ a.r \in Regs /\ Good(a.s) /\ Len(a.s.stack) = n
      /\ \A j \in 1 .. n : a.s.stack[j].stands = s.stack[j].stands
  <2>1. REG_ANY \in RegClasses
    BY DEF RegClasses
  <2>2. /\ a.r \in Regs /\ a.r \in Fits(REG_ANY) /\ Good(a.s) /\ Len(a.s.stack) = Len(s.stack)
        /\ \A i \in 1 .. Len(s.stack) :
             /\ a.s.stack[i].r # a.r
             /\ IF s.stack[i].r = a.r
                THEN /\ a.s.stack[i].r = SC_LOCAL
                     /\ a.s.stack[i].stands = s.stack[i].stands
                     /\ a.s.stack[i].object = s.stack[i].object
                     /\ a.s.stack[i].type = s.stack[i].type
                ELSE a.s.stack[i] = s.stack[i]
    <3>1. Allocated(s, REG_ANY, a)
      BY <1>1, <2>1, AllocateGood
    <3> QED BY <3>1 DEF Allocated
  <2> QED BY <1>1, <2>2
<1>4. PICK b, x, y, t :
        /\ b = (IF filled THEN a.s ELSE s)
        /\ x = (IF filled THEN [a.s EXCEPT !.reg[a.r] = Junk] ELSE s)
        /\ y = Pop(x) /\ t = Lose(y)
  OBVIOUS
<1>5. /\ Good(b) /\ Len(b.stack) = n
      /\ \A j \in 1 .. n : b.stack[j].stands = s.stack[j].stands
  BY <1>1, <1>3, <1>4
<1>6. x \in States /\ x.stack = b.stack
  <2>1. Junk \in Tokens
    BY DEF Junk, Tokens
  <2>2. s \in States /\ a.s \in States
    BY <1>3, GoodTyped
  <2>3. CASE ~ filled
    BY <1>4, <2>2, <2>3
  <2>4. CASE filled
    <3>1. a.s.reg \in [Regs -> Tokens]
      BY <2>2 DEF States
    <3>2. [a.s.reg EXCEPT ![a.r] = Junk] \in [Regs -> Tokens]
      BY <1>3, <2>1, <3>1
    <3>3. x = [a.s EXCEPT !.reg = [a.s.reg EXCEPT ![a.r] = Junk]]
      BY <1>4, <2>2, <2>4 DEF States
    <3> QED BY <1>4, <2>2, <2>4, <3>2, <3>3 DEF States
  <2> QED BY <2>3, <2>4
<1>7. PICK p : p = Pop(b)
  OBVIOUS
<1>8. /\ Good(p) /\ Len(p.stack) = z
      /\ \A j \in 1 .. z : p.stack[j] = b.stack[j]
  <2>1. Len(b.stack) # 0
    BY <1>2, <1>5
  <2>2. /\ Good(p) /\ Len(p.stack) = Len(b.stack) - 1
        /\ \A j \in 1 .. Len(b.stack) - 1 : p.stack[j] = b.stack[j]
    BY <1>5, <1>7, <2>1, PopGood
  <2> QED BY <1>1, <1>5, <2>2
<1>9. t \in States /\ t.lost /\ t.stack = p.stack
  <2>1. p.stack = Front(b.stack) /\ p.stack \in Seq(Operand)
    BY <1>5, <1>7, <1>8, GoodTyped DEF Pop, States
  <2>2. y = [x EXCEPT !.stack = p.stack]
    BY <1>4, <1>6, <2>1 DEF Pop
  <2>3. y \in States /\ y.stack = p.stack
    BY <1>6, <2>1, <2>2 DEF States
  <2>4. t = [y EXCEPT !.lost = (y.lost \/ TRUE)]
    BY <1>4 DEF Lose, LoseIf
  <2> QED BY <2>3, <2>4 DEF States
<1>10. Good(t)
  BY <1>8, <1>9, StackLost
<1>11. Lowest(s, t, z)
  BY <1>2, <1>5, <1>8, <1>9, <1>10 DEF Lowest
<1>12. t = OtherArgument(s, filled)
  BY <1>1, <1>4 DEF OtherArgument
<1> QED BY <1>1, <1>11, <1>12

\* The registers that are the places of operands.
Held(s) == {s.stack[i].r : i \in 1 .. Len(s.stack)} \cap Regs

LEMMA SpillFirstGood ==
  ASSUME NEW s, Good(s), locals \in BOOLEAN
  PROVE  /\ Lowest(s, SpillFirst(s), Len(s.stack))
         /\ Held(s) = {} => Held(SpillFirst(s)) = {}
         /\ Held(s) # {} =>
              \E r \in Held(s) : Held(SpillFirst(s)) \subseteq Held(s) \ {r}
<1> DEFINE held == {i \in DOMAIN s.stack : s.stack[i].r \in Regs}
<1>1. /\ s \in States /\ Len(s.stack) \in Nat /\ DOMAIN s.stack = 1 .. Len(s.stack)
  BY GoodTyped
<1>2. PICK t : t = SpillFirst(s)
  OBVIOUS
<1>3. CASE held = {}
  <2>1. t = s /\ Held(s) = {}
    BY <1>1, <1>2, <1>3 DEF SpillFirst, Held
  <2>2. Lowest(s, s, Len(s.stack))
    BY DEF Lowest
  <2> QED BY <1>2, <2>1, <2>2
<1>4. CASE held # {}
  <2>1. PICK k, r : k = Min(held) /\ r = s.stack[k].r
    OBVIOUS
  <2>2. k \in held
    <3>1. held \in SUBSET Nat
      BY <1>1
    <3> HIDE DEF held
    <3> QED BY <1>4, <2>1, <3>1, LowestExists
  <2>3. k \in 1 .. Len(s.stack) /\ r \in Regs /\ r \in Held(s)
    BY <1>1, <2>1, <2>2 DEF Held
  <2>4. t = spill_reg(s, r)
    BY <1>2, <1>4, <2>1 DEF SpillFirst
  <2>5. /\ Good(t) /\ Len(t.stack) = Len(s.stack)
        /\ \A i \in 1 .. Len(s.stack) :
             IF s.stack[i].r = r
             THEN /\ t.stack[i].r = SC_LOCAL
                  /\ t.stack[i].stands = s.stack[i].stands
                  /\ t.stack[i].object = s.stack[i].object
                  /\ t.stack[i].type = s.stack[i].type
             ELSE t.stack[i] = s.stack[i]
        /\ s.lost => t.lost
    BY <2>3, <2>4, SpillGood
  <2>6. Lowest(s, t, Len(s.stack))
    BY <2>5 DEF Lowest
  <2>7. Held(t) \subseteq Held(s) \ {r}
    <3> SUFFICES ASSUME NEW i \in 1 .. Len(t.stack), t.stack[i].r \in Regs
                 PROVE  t.stack[i].r \in Held(s) /\ t.stack[i].r # r
      BY DEF Held
    <3>1. i \in 1 .. Len(s.stack) /\ s.stack[i].r # r /\ t.stack[i] = s.stack[i]
      BY <2>5 DEF SC_LOCAL, Regs
    <3> QED BY <3>1 DEF Held
  <2> QED BY <1>2, <2>3, <2>6, <2>7
<1> QED BY <1>3, <1>4

\* Four times the first operand in a register: then none is left.
LEMMA SpillRegsGood ==
  ASSUME NEW s, Good(s), locals \in BOOLEAN
  PROVE  Lowest(s, spill_regs(s), Len(s.stack)) /\ Held(spill_regs(s)) = {}
<1>1. PICK a, b, c, d : /\ a = SpillFirst(s) /\ b = SpillFirst(a)
                        /\ c = SpillFirst(b) /\ d = SpillFirst(c)
  OBVIOUS
<1>2. Len(s.stack) \in Nat
  BY GoodTyped
<1>3. /\ Lowest(s, a, Len(s.stack)) /\ (Held(s) = {} => Held(a) = {})
      /\ Held(s) # {} => \E r \in Held(s) : Held(a) \subseteq Held(s) \ {r}
  BY <1>1, SpillFirstGood
<1>4. Good(a) /\ Len(a.stack) = Len(s.stack)
  BY <1>3 DEF Lowest
<1>5. /\ Lowest(a, b, Len(s.stack)) /\ (Held(a) = {} => Held(b) = {})
      /\ Held(a) # {} => \E r \in Held(a) : Held(b) \subseteq Held(a) \ {r}
  BY <1>1, <1>4, SpillFirstGood
<1>6. Good(b) /\ Len(b.stack) = Len(s.stack)
  BY <1>5 DEF Lowest
<1>7. /\ Lowest(b, c, Len(s.stack)) /\ (Held(b) = {} => Held(c) = {})
      /\ Held(b) # {} => \E r \in Held(b) : Held(c) \subseteq Held(b) \ {r}
  BY <1>1, <1>6, SpillFirstGood
<1>8. Good(c) /\ Len(c.stack) = Len(s.stack)
  BY <1>7 DEF Lowest
<1>9. /\ Lowest(c, d, Len(s.stack)) /\ (Held(c) = {} => Held(d) = {})
      /\ Held(c) # {} => \E r \in Held(c) : Held(d) \subseteq Held(c) \ {r}
  BY <1>1, <1>8, SpillFirstGood
<1>10. Lowest(s, d, Len(s.stack))
  BY <1>2, <1>3, <1>5, <1>7, <1>9 DEF Lowest
<1>11. Held(d) = {}
  <2> SUFFICES ASSUME NEW x \in Held(d) PROVE FALSE
    OBVIOUS
  <2>1. Held(c) # {} /\ Held(b) # {} /\ Held(a) # {} /\ Held(s) # {}
    BY <1>3, <1>5, <1>7, <1>9
  <2>2. PICK r1 \in Held(s) : Held(a) \subseteq Held(s) \ {r1}
    BY <1>3, <2>1
  <2>3. PICK r2 \in Held(a) : Held(b) \subseteq Held(a) \ {r2}
    BY <1>5, <2>1
  <2>4. PICK r3 \in Held(b) : Held(c) \subseteq Held(b) \ {r3}
    BY <1>7, <2>1
  <2>5. PICK r4 \in Held(c) : Held(d) \subseteq Held(c) \ {r4}
    BY <1>9, <2>1
  <2>6. /\ x \in Held(c) /\ x # r4 /\ x \in Held(b) /\ r4 \in Held(b) /\ x # r3 /\ r4 # r3
        /\ x \in Held(a) /\ r4 \in Held(a) /\ r3 \in Held(a)
        /\ x # r2 /\ r4 # r2 /\ r3 # r2
        /\ x \in Held(s) /\ r4 \in Held(s) /\ r3 \in Held(s) /\ r2 \in Held(s)
        /\ x # r1 /\ r4 # r1 /\ r3 # r1 /\ r2 # r1
    BY <2>2, <2>3, <2>4, <2>5
  <2>7. /\ x \in 0 .. 3 /\ r1 \in 0 .. 3 /\ r2 \in 0 .. 3 /\ r3 \in 0 .. 3 /\ r4 \in 0 .. 3
    BY <2>6 DEF Held, Regs
  <2> QED BY <2>6, <2>7
<1>12. d = spill_regs(s)
  BY <1>1 DEF spill_regs
<1> QED BY <1>10, <1>11, <1>12

\* The value that a call returns is in EAX, the only register in use.
LEMMA ReturnedGood ==
  ASSUME NEW s, Good(s), Len(s.stack) > 0, Held(s) = {},
         NEW id \in Nat, id # 0, \A j \in 1 .. Len(s.stack) : s.stack[j].stands[1] # id,
         NEW type \in Types
  PROVE  LET t == Returned(s, id, type)
         IN Good(t) /\ Len(t.stack) = Len(s.stack)
<1>1. PICK n, z, p : n = Len(s.stack) /\ z = n - 1 /\ p = Pop(s)
  OBVIOUS
<1>2. /\ n \in Nat /\ z \in Nat /\ n \in 1 .. n /\ z + 1 = n
      /\ \A j \in 1 .. n : j # n => j \in 1 .. z
      /\ \A j \in 1 .. z : j \in 1 .. n /\ j # n
  BY <1>1, GoodTyped
<1>3. /\ Good(p) /\ Len(p.stack) = z /\ p.lost = s.lost
      /\ \A j \in 1 .. z : p.stack[j] = s.stack[j]
  <2>1. Len(s.stack) # 0
    BY <1>2
  <2> QED BY <1>1, <2>1, PopGood
<1>4. p \in States /\ p.stack \in Seq(Operand)
  BY <1>3, GoodTyped
<1>5. PICK w, v : w = <<id, 1>> /\ v = 0
  OBVIOUS
<1>6. w \in Tokens /\ w[1] = id /\ Junk \in Tokens /\ EAX \in Regs /\ v \in Int
  BY <1>5 DEF Tokens, Junk, EAX, Regs
<1>7. PICK o : o = [r |-> EAX, lval |-> FALSE, sym |-> FALSE, value |-> v, type |-> type,
                    base |-> Junk, stands |-> w, object |-> FALSE]
  OBVIOUS
<1>8. /\ o \in Operand /\ o.r = EAX /\ o.lval = FALSE /\ o.stands = w /\ o.object = FALSE
  BY <1>6, <1>7 DEF Operand
<1>9. PICK f, q : /\ f = [r \in Regs |-> IF r = REG_IRET THEN w ELSE Junk]
                  /\ q = Append(p.stack, o)
  OBVIOUS
<1>10. f \in [Regs -> Tokens] /\ f[EAX] = w
  BY <1>6, <1>9 DEF REG_IRET
<1>11. /\ q \in Seq(Operand) /\ Len(q) = n /\ q[n] = o
       /\ \A j \in 1 .. z : q[j] = p.stack[j]
  BY <1>2, <1>3, <1>4, <1>8, <1>9, AppendProperties
<1>12. PICK t : t = Returned(s, id, type)
  OBVIOUS
<1>13. t = [p EXCEPT !.reg = f, !.stack = q]
  BY <1>1, <1>4, <1>5, <1>7, <1>9, <1>12 DEF Returned, REG_IRET, States
<1>14. /\ t \in States /\ t.stack = q /\ t.reg = f /\ t.flags = p.flags
       /\ t.frame = p.frame /\ t.lost = p.lost /\ t.right = p.right
  BY <1>4, <1>10, <1>11, <1>13 DEF States
<1>15. \A j \in 1 .. z : p.stack[j].r \notin Regs /\ p.stack[j].stands[1] # id
  BY <1>1, <1>2, <1>3 DEF Held
<1>16. ~ t.lost => ~ p.lost /\ t.right /\ Reachable(t, n)
  <2> SUFFICES ASSUME ~ t.lost PROVE ~ p.lost /\ t.right /\ Reachable(t, n)
    OBVIOUS
  <2>1. ~ p.lost /\ t.right
    BY <1>3, <1>14 DEF Good
  <2>2. ~ InFrame(o) /\ o.r # SC_CMP /\ o.r \in Regs
    BY <1>8 DEF InFrame, EAX, Regs, SC_LOCAL, SC_CMP
  <2>3. ValueOf(t, o) = w
    BY <1>8, <1>10, <1>14, <2>2 DEF ValueOf
  <2> QED BY <1>8, <1>11, <1>14, <2>1, <2>2, <2>3 DEF Reachable, Holds
<1>17. Good(t)
  <2>1. n \in 1 .. Len(t.stack) /\ t.stack[n].stands[1] # 0
    BY <1>2, <1>6, <1>8, <1>11, <1>14
  <2>2. \A j \in 1 .. Len(t.stack) : j # n =>
          j \in 1 .. Len(p.stack) /\ t.stack[j] = p.stack[j]
    BY <1>2, <1>3, <1>11, <1>14
  <2>3. \A j \in 1 .. Len(t.stack) : j # n =>
          /\ t.stack[n].r \in Regs => p.stack[j].r # t.stack[n].r
          /\ p.stack[j].stands[1] # t.stack[n].stands[1]
    BY <1>2, <1>6, <1>8, <1>11, <1>14, <1>15
  <2>4. ~ t.lost => \A j \in 1 .. Len(t.stack) : j # n =>
          /\ p.stack[j].r \in Regs => t.reg[p.stack[j].r] = p.reg[p.stack[j].r]
          /\ p.stack[j].r = SC_CMP => t.flags = p.flags
          /\ InFrame(p.stack[j]) => t.frame = p.frame
    BY <1>2, <1>11, <1>14, <1>15
  <2>5. t \in States
    BY <1>14
  <2> QED BY <1>3, <1>16, <2>1, <2>2, <2>3, <2>4, <2>5, OneChanged
<1> QED BY <1>1, <1>11, <1>12, <1>14, <1>17

LEMMA LoadedArgument ==
  ASSUME NEW s, Good(s), Len(s.stack) > 0, NEW rc \in RegClasses, locals \in BOOLEAN
  PROVE  Lowest(s, Argument(load_1(s, rc, Top(s))), Len(s.stack) - 1)
<1>1. PICK n, z, u, t : /\ n = Len(s.stack) /\ z = n - 1
                        /\ u = load_1(s, rc, n) /\ t = Argument(u)
  OBVIOUS
<1>2. n \in Nat /\ n \in 1 .. n /\ Top(s) = n /\ \A j \in 1 .. z : j \in 1 .. n
  BY <1>1, GoodTyped DEF Top
<1>3. Loaded(s, u, n)
  BY <1>1, <1>2, Load1Good
<1>4. /\ Good(u) /\ Len(u.stack) = n /\ (s.lost => u.lost)
      /\ \A j \in 1 .. n : u.stack[j].stands = s.stack[j].stands
  BY <1>1, <1>3 DEF Loaded
<1>5. /\ Good(t) /\ Len(t.stack) = Len(u.stack) - 1 /\ t.lost = u.lost
      /\ \A j \in 1 .. Len(u.stack) - 1 : t.stack[j] = u.stack[j]
  <2>1. Len(u.stack) > 0
    BY <1>1, <1>4
  <2> QED BY <1>1, <1>4, <2>1, ArgumentGood
<1>6. Lowest(s, t, z)
  BY <1>1, <1>2, <1>4, <1>5 DEF Lowest
<1> QED BY <1>1, <1>2, <1>6

LEMMA InvokeGood ==
  ASSUME NEW s, Good(s), NEW n \in 0 .. 2, Len(s.stack) > n, NEW filled \in BOOLEAN,
         NEW type \in Types, locals \in BOOLEAN
  PROVE  LET t == gen_invoke(s, n, filled, type)
         IN Good(t) /\ Len(t.stack) = Len(s.stack) - n
<1>1. PICK one, all, b, c :
        /\ one = (IF n = 0 THEN s ELSE Argument(load_1(s, REG_ANY, Top(s))))
        /\ all = (IF n < 2 THEN one ELSE OtherArgument(one, filled))
        /\ b = spill_regs(all) /\ c = Clobber(b)
  OBVIOUS
<1>2. PICK m, m1 : m = Len(s.stack) /\ m1 = IF n = 0 THEN m ELSE m - 1
  OBVIOUS
<1>3. m \in Nat /\ m1 \in Nat /\ m1 <= m /\ m > n /\ m - n \in Nat /\ m - n <= m1
  BY <1>2, GoodTyped
<1>4. Lowest(s, one, m1)
  <2>1. CASE n = 0
    BY <1>1, <1>2, <2>1 DEF Lowest
  <2>2. CASE n # 0
    <3>1. REG_ANY \in RegClasses /\ Len(s.stack) > 0
      BY <1>2, <1>3 DEF RegClasses
    <3>2. Lowest(s, Argument(load_1(s, REG_ANY, Top(s))), Len(s.stack) - 1)
      BY <3>1, LoadedArgument
    <3> QED BY <1>1, <1>2, <2>2, <3>2
  <2> QED BY <2>1, <2>2
<1>5. Lowest(one, all, m - n)
  <2>1. Good(one) /\ Len(one.stack) = m1
    BY <1>4 DEF Lowest
  <2>2. CASE n < 2
    <3>1. all = one /\ m1 = m - n
      BY <1>1, <1>2, <1>3, <2>2
    <3> QED BY <2>1, <3>1 DEF Lowest
  <2>3. CASE ~ (n < 2)
    <3>1. Len(one.stack) > 0 /\ Len(one.stack) - 1 = m - n
      BY <1>2, <1>3, <2>1, <2>3
    <3>2. Lowest(one, OtherArgument(one, filled), Len(one.stack) - 1)
      BY <2>1, <3>1, OtherArgumentGood
    <3> QED BY <1>1, <2>3, <3>1, <3>2
  <2> QED BY <2>2, <2>3
<1>6. Lowest(s, all, m - n)
  BY <1>3, <1>4, <1>5, LowestAgain
<1>7. Lowest(all, b, m - n) /\ Held(b) = {}
  <2>1. Good(all) /\ Len(all.stack) = m - n
    BY <1>6 DEF Lowest
  <2>2. Lowest(all, spill_regs(all), Len(all.stack)) /\ Held(spill_regs(all)) = {}
    BY <2>1, SpillRegsGood
  <2> QED BY <1>1, <2>1, <2>2
<1>8. Lowest(s, b, m - n)
  BY <1>3, <1>6, <1>7 DEF Lowest
<1>9. Good(c) /\ c.stack = b.stack
  <2>1. Good(b)
    BY <1>8 DEF Lowest
  <2> QED BY <1>1, <2>1, ClobberGood
<1>10. PICK id : id = FreshId(s)
  OBVIOUS
<1>11. id \in Nat /\ id # 0 /\ \A j \in 1 .. m : s.stack[j].stands[1] # id
  BY <1>2, <1>10, FreshIs, GoodTyped
<1>12. /\ Len(c.stack) = m - n /\ Len(c.stack) > 0 /\ Held(c) = {}
       /\ \A j \in 1 .. Len(c.stack) : c.stack[j].stands[1] # id
  <2>1. Len(c.stack) = m - n /\ Held(c) = {}
    BY <1>7, <1>8, <1>9 DEF Lowest, Held
  <2>2. \A j \in 1 .. m - n : j \in 1 .. m
    BY <1>3
  <2>3. \A j \in 1 .. m - n : c.stack[j].stands = s.stack[j].stands
    BY <1>8, <1>9 DEF Lowest
  <2> QED BY <1>3, <1>11, <2>1, <2>2, <2>3
<1>13. PICK t : t = Returned(c, id, type)
  OBVIOUS
<1>14. Good(t) /\ Len(t.stack) = Len(c.stack)
  BY <1>9, <1>11, <1>12, <1>13, ReturnedGood
<1>15. t = gen_invoke(s, n, filled, type)
  BY <1>1, <1>10, <1>13 DEF gen_invoke
<1> QED BY <1>2, <1>12, <1>14, <1>15

LEMMA JccGood ==
  ASSUME NEW s, Good(s), Len(s.stack) = 1, locals \in BOOLEAN
  PROVE  Good(gen_jcc(s)) /\ Len(gen_jcc(s).stack) = 0
<1>1. CASE IsConst(s.stack[Top(s)])
  <2>1. PICK u, t : u = Lose(s) /\ t = Pop(u)
    OBVIOUS
  <2>2. Good(u) /\ u.stack = s.stack
    BY <2>1, LoseIfGood DEF Lose
  <2>3. Len(u.stack) = 1 /\ Len(u.stack) # 0
    BY <2>2
  <2>4. Good(t) /\ Len(t.stack) = Len(u.stack) - 1
    BY <2>1, <2>2, <2>3, PopGood
  <2>5. t = gen_jcc(s)
    BY <1>1, <2>1 DEF gen_jcc
  <2> QED BY <2>3, <2>4, <2>5
<1>2. CASE ~ IsConst(s.stack[Top(s)]) /\ s.stack[Top(s)].r = SC_CMP
  <2>1. PICK t : t = Argument(s)
    OBVIOUS
  <2>2. Good(t) /\ Len(t.stack) = Len(s.stack) - 1
    <3>1. Len(s.stack) > 0
      OBVIOUS
    <3> QED BY <2>1, <3>1, ArgumentGood
  <2>3. t = gen_jcc(s)
    BY <1>2, <2>1 DEF gen_jcc
  <2> QED BY <2>2, <2>3
<1>3. CASE ~ IsConst(s.stack[Top(s)]) /\ s.stack[Top(s)].r # SC_CMP
  <2>1. PICK t : t = Argument(load_1(s, REG_ANY, Top(s)))
    OBVIOUS
  <2>2. REG_ANY \in RegClasses /\ Len(s.stack) > 0 /\ Len(s.stack) - 1 = 0
    BY DEF RegClasses
  <2>3. Lowest(s, t, Len(s.stack) - 1)
    BY <2>1, <2>2, LoadedArgument
  <2>4. t = gen_jcc(s)
    BY <1>3, <2>1 DEF gen_jcc
  <2> QED BY <2>2, <2>3, <2>4 DEF Lowest
<1> QED BY <1>1, <1>2, <1>3

LEMMA ReturnGood ==
  ASSUME NEW s, Good(s), Len(s.stack) = 1, locals \in BOOLEAN
  PROVE  LET t == Returning(load_1(s, REG_IRET, Top(s)))
         IN Good(t) /\ Len(t.stack) = 0
<1>1. PICK u, v, bad, t :
        /\ u = load_1(s, REG_IRET, Top(s)) /\ v = Argument(u)
        /\ bad = (u.stack[Top(u)].r # REG_IRET) /\ t = LoseIf(v, bad)
  OBVIOUS
<1>2. REG_IRET \in RegClasses /\ Len(s.stack) > 0 /\ Len(s.stack) - 1 = 0
  BY DEF RegClasses, REG_IRET, EAX, Regs
<1>3. Lowest(s, v, Len(s.stack) - 1)
  BY <1>1, <1>2, LoadedArgument
<1>4. Good(v) /\ Len(v.stack) = 0
  BY <1>2, <1>3 DEF Lowest
<1>5. bad \in BOOLEAN
  BY <1>1
<1>6. Good(t) /\ t.stack = v.stack
  BY <1>1, <1>4, <1>5, LoseIfGood
<1>7. t = Returning(u)
  BY <1>1 DEF Returning
<1> QED BY <1>1, <1>4, <1>6, <1>7

\* The variable stays above its initializer, so that the statement is lost.
LEMMA InitGood ==
  ASSUME NEW s, Good(s), Len(s.stack) = 1, NEW leaf \in Leaf, locals \in BOOLEAN
  PROVE  Good(Initialize(s, leaf)) /\ Len(Initialize(s, leaf).stack) = 0
<1>1. PICK u, below, v, w, t :
        /\ u = operand_push(s, leaf)
        /\ below = (u.stack[Second(u)].stands[1] = FreshId(s))
        /\ v = LoseIf(u, ~ below) /\ w = store0_1(v) /\ t = Pop(w)
  OBVIOUS
<1>2. Pushed(s, u, leaf)
  BY <1>1, PushGood
<1>3. Good(u) /\ Len(u.stack) = 2 /\ Len(u.stack) > 1 /\ Second(u) = 1
  BY <1>2 DEF Pushed, Second
<1>4. ~ below
  <2>1. u.stack[1].stands = s.stack[1].stands
    BY <1>2 DEF Pushed
  <2>2. s.stack[1].stands[1] # FreshId(s)
    <3>1. s \in States /\ 1 \in 1 .. Len(s.stack)
      BY GoodTyped
    <3> QED BY <3>1, FreshIs
  <2> QED BY <1>1, <1>3, <2>1, <2>2
<1>5. Good(v) /\ v.stack = u.stack /\ v.lost
  <2>1. below \in BOOLEAN /\ u \in States
    BY <1>1, <1>3, GoodTyped
  <2>2. v.lost
    BY <1>1, <1>4, <2>1 DEF LoseIf, States
  <2>3. Good(v) /\ v.stack = u.stack
    BY <1>1, <1>3, <2>1, LoseIfGood
  <2> QED BY <2>2, <2>3
<1>6. Good(w) /\ Len(w.stack) = 1
  <2>1. Len(v.stack) = 2
    BY <1>3, <1>5
  <2>2. Len(v.stack) > 1 /\ Len(v.stack) - 1 = 1
    BY <2>1
  <2>3. Good(w) /\ Len(w.stack) = Len(v.stack) - 1
    BY <1>1, <1>5, <2>2, StoreGood
  <2> QED BY <2>2, <2>3
<1>7. Good(t) /\ Len(t.stack) = 0
  <2>1. Len(w.stack) # 0 /\ Len(w.stack) - 1 = 0
    BY <1>6
  <2> QED BY <1>1, <1>6, <2>1, PopGood
<1>8. t = Initialize(s, leaf)
  <2>1. Swap(u) = u
    BY <1>3, SwapSame
  <2> QED BY <1>1, <2>1 DEF Initialize
<1> QED BY <1>7, <1>8

-----------------------------------------------------------------------------
(* Steps.                                                                  *)

\* A token that an operand is read through may be given the operand's new number.
LEMMA Renumbered ==
  ASSUME NEW x \in Tokens, NEW w \in Tokens, w[1] # 0, NEW lval \in BOOLEAN,
         (IF lval THEN Reads(x) ELSE x) = w, NEW i \in Nat, i # 0
  PROVE  /\ x[1] = w[1] /\ x # Junk
         /\ (IF lval THEN Reads(<<i, x[2]>>) ELSE <<i, x[2]>>) = <<i, w[2]>>
<1>1. x[1] = w[1]
  BY ReadsPoints
<1>2. x # Junk
  BY <1>1 DEF Junk
<1>3. CASE lval
  <2>1. w = <<x[1], x[2] + 1>>
    BY <1>2, <1>3 DEF Reads
  <2>2. w[2] = x[2] + 1
    BY <2>1
  <2>3. <<i, x[2]>> # Junk
    BY DEF Junk
  <2>4. Reads(<<i, x[2]>>) = <<i, x[2] + 1>>
    BY <2>3 DEF Reads
  <2> QED BY <1>1, <1>2, <1>3, <2>2, <2>4
<1>4. CASE ~ lval
  BY <1>1, <1>2, <1>4
<1> QED BY <1>3, <1>4

\* The end of a call gives the operands new numbers, their positions.
LEMMA WriteGood ==
  ASSUME NEW s, Good(s), Write(s)
  PROVE  /\ Good(State)' /\ Len(stack') = Len(s.stack) /\ stack' \in Seq(Operand)
         /\ reg' \in [Regs -> Tokens] /\ flags' \in Tokens
         /\ frame' \in [at : 0 .. 3, holds : Tokens] /\ loc' \in 0 .. 3
         /\ lost' \in BOOLEAN /\ right' \in BOOLEAN
<1> DEFINE Id(i) == s.stack[i].stands[1]
           live == IF s.lost THEN {} ELSE {Id(i) : i \in DOMAIN s.stack}
           place == [k \in live |-> CHOOSE i \in DOMAIN s.stack : Id(i) = k]
           Named(t) == IF t[1] \in live THEN <<place[t[1]], t[2]>> ELSE Junk
           Kept(t, used) == IF used THEN Named(t) ELSE Junk
           n == Len(s.stack)
           New(i) == [s.stack[i] EXCEPT
                        !.base = IF s.stack[i].base = Junk THEN Junk ELSE <<i, s.stack[i].base[2]>>,
                        !.stands = <<i, s.stack[i].stands[2]>>]
<1>1. /\ s \in States /\ s.stack \in Seq(Operand) /\ n \in Nat
      /\ DOMAIN s.stack = 1 .. n
      /\ \A i \in 1 .. n : s.stack[i] \in Operand
  BY GoodTyped
<1>2. /\ loc' = s.loc /\ lost' = s.lost /\ right' = (s.lost \/ s.right)
      /\ stack' = [i \in 1 .. n |-> New(i)]
      /\ reg' = [r \in Regs |-> Kept(s.reg[r], UsesReg(s, r) # {})]
      /\ flags' = Kept(s.flags, UsesReg(s, SC_CMP) # {})
      /\ frame' = [at |-> s.frame.at,
                   holds |-> Kept(s.frame.holds,
                                  \E i \in DOMAIN s.stack : InFrame(s.stack[i]))]
  BY <1>1 DEF Write
<1>3. \A k \in live : place[k] \in 1 .. n /\ Id(place[k]) = k
  <2> SUFFICES ASSUME NEW k \in live PROVE place[k] \in 1 .. n /\ Id(place[k]) = k
    OBVIOUS
  <2>1. \E i \in DOMAIN s.stack : Id(i) = k
    OBVIOUS
  <2> QED BY <1>1, <2>1
<1>4. ~ s.lost => \A i \in 1 .. n : Id(i) \in live /\ place[Id(i)] = i
  <2> SUFFICES ASSUME ~ s.lost, NEW i \in 1 .. n
               PROVE  Id(i) \in live /\ place[Id(i)] = i
    OBVIOUS
  <2>1. Id(i) \in live
    BY <1>1
  <2>2. place[Id(i)] \in 1 .. n /\ Id(place[Id(i)]) = Id(i)
    BY <1>3, <2>1
  <2> QED BY <2>1, <2>2 DEF Good, Numbered
<1> HIDE DEF live, place
<1>5. Junk \in Tokens
  BY DEF Junk, Tokens
<1>6. \A t \in Tokens : Named(t) \in Tokens
  <2> SUFFICES ASSUME NEW t \in Tokens PROVE Named(t) \in Tokens
    OBVIOUS
  <2>1. CASE t[1] \in live
    <3>1. place[t[1]] \in 1 .. n
      BY <1>3, <2>1
    <3>2. n \in Nat
      BY <1>1
    <3>3. t[2] \in Int
      BY TokenFacts
    <3>4. PICK p, z : p = place[t[1]] /\ z = t[2]
      OBVIOUS
    <3> HIDE DEF n
    <3>5. p \in Nat /\ z \in Int
      BY <3>1, <3>2, <3>3, <3>4
    <3>6. <<p, z>> \in Tokens
      BY <3>5 DEF Tokens
    <3> QED BY <2>1, <3>4, <3>6
  <2> QED BY <1>5, <2>1
<1>7. \A t \in Tokens, used \in BOOLEAN : Kept(t, used) \in Tokens
  BY <1>5, <1>6
<1>8. ASSUME NEW i \in 1 .. n
      PROVE  /\ New(i) \in Operand /\ New(i).r = s.stack[i].r /\ New(i).lval = s.stack[i].lval
             /\ New(i).type = s.stack[i].type /\ New(i).object = s.stack[i].object
             /\ New(i).value = s.stack[i].value
             /\ New(i).base = IF s.stack[i].base = Junk THEN Junk ELSE <<i, s.stack[i].base[2]>>
             /\ New(i).stands = <<i, s.stack[i].stands[2]>>
  <2>1. PICK c, b, w : /\ c = s.stack[i] /\ w = <<i, c.stands[2]>>
                       /\ b = IF c.base = Junk THEN Junk ELSE <<i, c.base[2]>>
    OBVIOUS
  <2>2. c \in Operand /\ c.base \in Tokens /\ c.stands \in Tokens /\ i \in Nat
    BY <1>1, <2>1, OperandTyped
  <2>3. c.base[2] \in Int /\ c.stands[2] \in Int
    BY <2>2, TokenFacts
  <2>4. b \in Tokens /\ w \in Tokens
    BY <1>5, <2>1, <2>2, <2>3 DEF Tokens
  <2>5. New(i) = [c EXCEPT !.base = b, !.stands = w]
    BY <2>1
  <2> HIDE DEF New
  <2>6. /\ New(i) \in Operand /\ New(i).r = c.r /\ New(i).type = c.type
        /\ New(i).value = c.value /\ New(i).base = b /\ New(i).stands = w
        /\ New(i).lval = c.lval /\ New(i).object = c.object
    BY <2>2, <2>4, <2>5 DEF Operand
  <2> QED BY <2>1, <2>6
<1> HIDE DEF New
<1>9. PICK u : u = [stack |-> stack', reg |-> reg', flags |-> flags', frame |-> frame',
                    loc |-> loc', lost |-> lost', right |-> right']
  OBVIOUS
<1>10. /\ stack' \in Seq(Operand) /\ Len(stack') = n
       /\ \A i \in 1 .. n : stack'[i] = New(i)
  <2>1. \A i \in 1 .. n : New(i) \in Operand
    BY <1>8
  <2>2. PICK q : q = [i \in 1 .. n |-> New(i)]
    OBVIOUS
  <2>3. q \in [1 .. n -> Operand] /\ \A i \in 1 .. n : q[i] = New(i)
    BY <2>1, <2>2
  <2>4. q \in Seq(Operand) /\ Len(q) = n
    <3>1. n \in Nat /\ q \in [1 .. n -> Operand]
      BY <1>1, <2>3
    <3> HIDE DEF n
    <3>2. DOMAIN q = 1 .. n
      BY <3>1
    <3> QED BY <3>1, <3>2, SeqDef, LenProperties
  <2> QED BY <1>2, <2>2, <2>3, <2>4
<1>11. /\ s.reg \in [Regs -> Tokens] /\ s.flags \in Tokens /\ s.frame.holds \in Tokens
       /\ s.frame.at \in 0 .. 3 /\ s.loc \in 0 .. 3 /\ s.lost \in BOOLEAN /\ s.right \in BOOLEAN
  BY <1>1 DEF States
<1>12. reg' \in [Regs -> Tokens] /\ \A r \in Regs : reg'[r] = Kept(s.reg[r], UsesReg(s, r) # {})
  <2>1. \A r \in Regs : Kept(s.reg[r], UsesReg(s, r) # {}) \in Tokens
    <3> SUFFICES ASSUME NEW r \in Regs PROVE Kept(s.reg[r], UsesReg(s, r) # {}) \in Tokens
      OBVIOUS
    <3>1. s.reg[r] \in Tokens /\ (UsesReg(s, r) # {}) \in BOOLEAN
      BY <1>11
    <3> HIDE DEF Kept
    <3> QED BY <1>7, <3>1
  <2> HIDE DEF Kept
  <2> QED BY <1>2, <2>1
<1>13. flags' \in Tokens
  <2>1. (UsesReg(s, SC_CMP) # {}) \in BOOLEAN
    OBVIOUS
  <2> HIDE DEF Kept
  <2> QED BY <1>2, <1>7, <1>11, <2>1
<1>14. frame' \in [at : 0 .. 3, holds : Tokens]
  <2>1. (\E i \in DOMAIN s.stack : InFrame(s.stack[i])) \in BOOLEAN
    OBVIOUS
  <2> HIDE DEF Kept
  <2> QED BY <1>2, <1>7, <1>11, <2>1
<1>15. /\ u \in States /\ u.stack = stack' /\ u.reg = reg' /\ u.flags = flags'
       /\ u.frame = frame' /\ u.lost = s.lost /\ u.right = (s.lost \/ s.right)
  BY <1>2, <1>9, <1>10, <1>11, <1>12, <1>13, <1>14 DEF States
<1>16. Len(u.stack) = n /\ \A i \in 1 .. n : u.stack[i] = New(i)
  BY <1>10, <1>15
<1>17. Apart(u)
  <2> SUFFICES ASSUME NEW i \in 1 .. n, NEW j \in 1 .. n,
                      u.stack[i].r = u.stack[j].r, u.stack[i].r \in Regs
               PROVE  i = j
    BY <1>16 DEF Apart
  <2>1. s.stack[i].r = s.stack[j].r /\ s.stack[i].r \in Regs
    BY <1>8, <1>16
  <2> QED BY <2>1 DEF Good, Apart
<1>18. Numbered(u)
  <2>1. ASSUME NEW i \in 1 .. n PROVE u.stack[i].stands[1] = i /\ i # 0
    <3>1. New(i).stands = <<i, s.stack[i].stands[2]>>
      BY <1>8
    <3>2. u.stack[i] = New(i)
      BY <1>16
    <3> QED BY <1>1, <3>1, <3>2
  <2> QED BY <1>16, <2>1 DEF Numbered
<1>19. ASSUME ~ u.lost, NEW i \in 1 .. n PROVE Reachable(u, i)
  <2>1. PICK o, c : o = u.stack[i] /\ c = s.stack[i]
    OBVIOUS
  <2>2. /\ o.r = c.r /\ o.lval = c.lval /\ o.type = c.type /\ o.object = c.object
        /\ o.value = c.value
        /\ o.base = IF c.base = Junk THEN Junk ELSE <<i, c.base[2]>>
        /\ o.stands = <<i, c.stands[2]>>
    BY <1>8, <1>16, <2>1
  <2>3. Reachable(s, i) /\ ~ s.lost /\ Id(i) \in live /\ place[Id(i)] = i
    BY <1>4, <1>15, <1>19 DEF Good
  <2>4. ValueOf(s, c) = c.stands
    BY <2>1, <2>3 DEF Reachable, Holds
  <2>5. /\ c \in Operand /\ c.stands \in Tokens /\ c.stands[1] # 0 /\ c.base \in Tokens
        /\ Id(i) = c.stands[1] /\ i \in Nat /\ i # 0 /\ i \in DOMAIN s.stack
    BY <1>1, <2>1, OperandTyped DEF Good, Numbered
  <2>6. \A t \in Tokens : t[1] = c.stands[1] => Kept(t, TRUE) = <<i, t[2]>>
    BY <2>3, <2>5
  <2>7. InFrame(o) = InFrame(c)
    <3>1. c.base # Junk => o.base # Junk
      BY <2>2, <2>5 DEF Junk
    <3> QED BY <2>2, <3>1 DEF InFrame
  <2>8. ValueOf(u, o) = o.stands
    <3>1. CASE InFrame(c)
      <4>1. c.stands # Junk
        BY <2>5 DEF Junk
      <4>2. c.value = s.frame.at /\ s.frame.holds = c.stands
        BY <2>4, <3>1, <4>1 DEF ValueOf
      <4>3. frame'.at = s.frame.at /\ frame'.holds = Kept(s.frame.holds, TRUE)
        <5>1. (\E j \in DOMAIN s.stack : InFrame(s.stack[j])) = TRUE
          BY <2>1, <2>5, <3>1
        <5> HIDE DEF Kept
        <5> QED BY <1>2, <5>1
      <4>4. frame'.holds = <<i, c.stands[2]>>
        BY <2>5, <2>6, <4>2, <4>3
      <4> QED BY <1>15, <2>2, <2>7, <3>1, <4>2, <4>3, <4>4 DEF ValueOf
    <3>2. CASE ~ InFrame(c)
      <4>1. PICK x, y : /\ x = IF c.r \in Regs THEN s.reg[c.r]
                               ELSE IF c.r = SC_CMP THEN s.flags ELSE c.base
                        /\ y = IF c.r \in Regs THEN reg'[c.r]
                               ELSE IF c.r = SC_CMP THEN flags' ELSE o.base
        OBVIOUS
      <4>2. x \in Tokens /\ c.lval \in BOOLEAN
        BY <1>11, <2>5, <4>1, OperandTyped
      <4>3. (IF c.lval THEN Reads(x) ELSE x) = c.stands
        BY <2>4, <3>2, <4>1 DEF ValueOf
      <4>4. /\ x[1] = c.stands[1] /\ x # Junk
            /\ (IF c.lval THEN Reads(<<i, x[2]>>) ELSE <<i, x[2]>>) = <<i, c.stands[2]>>
        BY <2>5, <4>2, <4>3, Renumbered
      <4>5. Kept(x, TRUE) = <<i, x[2]>>
        BY <2>6, <4>2, <4>4
      <4>6. y = <<i, x[2]>>
        <5>1. CASE c.r \in Regs
          <6>1. (UsesReg(s, c.r) # {}) = TRUE
            BY <2>1, <2>5 DEF UsesReg
          <6>2. reg'[c.r] = Kept(s.reg[c.r], TRUE)
            <7> HIDE DEF Kept
            <7> QED BY <1>12, <5>1, <6>1
          <6> HIDE DEF Kept
          <6> QED BY <4>1, <4>5, <5>1, <6>2
        <5>2. CASE c.r \notin Regs /\ c.r = SC_CMP
          <6>1. (UsesReg(s, SC_CMP) # {}) = TRUE
            BY <2>1, <2>5, <5>2 DEF UsesReg
          <6>2. flags' = Kept(s.flags, TRUE)
            <7> HIDE DEF Kept
            <7> QED BY <1>2, <6>1
          <6> HIDE DEF Kept
          <6> QED BY <4>1, <4>5, <5>2, <6>2
        <5>3. CASE c.r \notin Regs /\ c.r # SC_CMP
          BY <2>2, <4>1, <4>4, <5>3
        <5> QED BY <5>1, <5>2, <5>3
      <4>7. ValueOf(u, o) = IF c.lval THEN Reads(y) ELSE y
        BY <1>15, <2>2, <2>7, <3>2, <4>1 DEF ValueOf
      <4> QED BY <2>2, <4>4, <4>6, <4>7
    <3> QED BY <3>1, <3>2
  <2>9. Reachable(s, i) => /\ c.object => c.lval /\ ~ InFrame(c)
                           /\ InFrame(c) => c.lval
                           /\ c.r = SC_CMP => ~ c.lval /\ c.type = "int"
    BY <2>1 DEF Reachable
  <2> QED BY <2>1, <2>2, <2>3, <2>7, <2>8, <2>9 DEF Reachable, Holds
<1>20. Good(u)
  <2>1. ~ u.lost => u.right
    BY <1>15 DEF Good
  <2> QED BY <1>15, <1>16, <1>17, <1>18, <1>19, <2>1 DEF Good
<1>21. Good(State)'
  BY <1>9, <1>20 DEF State
<1> QED BY <1>2, <1>10, <1>11, <1>12, <1>13, <1>14, <1>21

LEMMA DoneGood ==
  ASSUME NEW s, Good(s), Do(s), TypeOK, Len(s.stack) <= MaxOperands
  PROVE  IInv'
<1>1. Write(s) /\ program' = program /\ locals' = locals
  BY DEF Do
<1>2. /\ Good(State)' /\ Len(stack') = Len(s.stack) /\ stack' \in Seq(Operand)
      /\ reg' \in [Regs -> Tokens] /\ flags' \in Tokens
      /\ frame' \in [at : 0 .. 3, holds : Tokens] /\ loc' \in 0 .. 3
      /\ lost' \in BOOLEAN /\ right' \in BOOLEAN
  BY <1>1, WriteGood
<1>3. Depth' <= MaxOperands' /\ program' \in Programs /\ locals' \in BOOLEAN
  BY <1>1, <1>2 DEF Depth, MaxOperands, TypeOK
<1> QED BY <1>2, <1>3 DEF IInv, TypeOK

LEMMA Now ==
  ASSUME IInv
  PROVE  /\ TypeOK /\ Good(State) /\ State.stack = stack /\ Len(State.stack) = Depth
         /\ Depth \in Nat /\ Depth <= MaxOperands /\ locals \in BOOLEAN
         /\ MaxOperands \in Nat /\ State \in States
         /\ \A i \in 1 .. Depth : State.stack[i] = stack[i]
<1>1. TypeOK /\ Good(State) /\ State.stack = stack
  BY DEF IInv, State
<1>2. MaxOperands \in Nat
  BY <1>1, OperandsAssumption DEF TypeOK, MaxOperands
<1>3. Depth \in Nat /\ Depth <= MaxOperands /\ locals \in BOOLEAN
  BY <1>1, LenProperties DEF TypeOK, Depth
<1> QED BY <1>1, <1>2, <1>3 DEF Depth, Good

LEMMA LeavesAreLeaves ==
  ASSUME NEW leaf \in Leaves
  PROVE  leaf \in Leaf
<1>1. IntConst \in Leaf
  BY IntConstLeaf
<1>2. [IntConst EXCEPT !.value = 1] \in Leaf
  <2>1. PICK c : c = IntConst
    OBVIOUS
  <2>2. c \in Leaf
    BY <1>1, <2>1
  <2>3. [c EXCEPT !.value = 1] \in Leaf
    BY <2>2 DEF Leaf
  <2> QED BY <2>1, <2>3
<1>3. [r |-> SC_LOCAL, lval |-> TRUE, sym |-> FALSE, value |-> 0, type |-> "int"] \in Leaf
  BY DEF Leaf, Types
<1>4. [r |-> SC_GLOBAL, lval |-> TRUE, sym |-> TRUE, value |-> 0, type |-> "ptr"] \in Leaf
  BY DEF Leaf, Types
<1>5. \A t \in {"struct", "sptr"} :
        [r |-> SC_LOCAL, lval |-> TRUE, sym |-> FALSE, value |-> 0, type |-> t] \in Leaf
  BY DEF Leaf, Types
<1>6. [r |-> SC_LOCAL, lval |-> FALSE, sym |-> FALSE, value |-> 0, type |-> "ptr"] \in Leaf
  BY DEF Leaf, Types
<1>7. [r |-> SC_GLOBAL, lval |-> FALSE, sym |-> TRUE, value |-> 0, type |-> "func"] \in Leaf
  BY DEF Leaf, Types
<1> HIDE DEF IntConst, Leaf
<1> QED BY <1>1, <1>2, <1>3, <1>4, <1>5, <1>6, <1>7 DEF Leaves

LEMMA FirstLocRange == FirstLoc \in 0 .. 3
<1>1. calc_align(0 - 4, 4) \in 0 .. 3
  BY AlignRange
<1> QED BY <1>1 DEF FirstLoc

LEMMA InitGoodState ==
  ASSUME Init
  PROVE  IInv
<1>1. Junk \in Tokens
  BY DEF Junk, Tokens
<1>2. /\ stack = <<>> /\ stack \in Seq(Operand) /\ Len(stack) = 0
      /\ reg \in [Regs -> Tokens] /\ flags \in Tokens
      /\ frame \in [at : 0 .. 3, holds : Tokens] /\ loc \in 0 .. 3
      /\ program \in Programs /\ locals \in BOOLEAN /\ lost = FALSE /\ right = TRUE
  BY <1>1, FirstLocRange DEF Init
<1>3. TypeOK
  <2>1. MaxOperands \in Nat
    BY <1>2, OperandsAssumption DEF MaxOperands
  <2>2. Depth <= MaxOperands
    BY <1>2, <2>1 DEF Depth
  <2>3. lost \in BOOLEAN /\ right \in BOOLEAN
    BY <1>2
  <2> QED BY <1>2, <2>2, <2>3 DEF TypeOK
<1>4. PICK s : s = State
  OBVIOUS
<1>5. s \in States /\ Len(s.stack) = 0 /\ s.right
  BY <1>2, <1>4 DEF State, States
<1>6. Good(s)
  BY <1>5 DEF Good, Apart, Numbered
<1> QED BY <1>3, <1>4, <1>6 DEF IInv

LEMMA PrimaryStep ==
  ASSUME IInv, NEW leaf \in Leaves, Primary(leaf)
  PROVE  IInv'
<1>1. PICK s, t :
        /\ s = (IF stack = <<>> THEN [State EXCEPT !.lost = FALSE, !.right = TRUE, !.loc = FirstLoc]
                ELSE State)
        /\ t = operand_push(s, leaf)
  OBVIOUS
<1>2. Depth < MaxOperands /\ Do(t)
  BY <1>1 DEF Primary
<1>3. Good(s) /\ Len(s.stack) = Depth
  <2>1. CASE stack # <<>>
    BY <1>1, <2>1, Now
  <2>2. CASE stack = <<>>
    <3>1. s = [State EXCEPT !.lost = FALSE, !.right = TRUE, !.loc = FirstLoc]
      BY <1>1, <2>2
    <3>2. State \in States /\ FirstLoc \in 0 .. 3 /\ State.stack = stack
      BY Now, FirstLocRange
    <3>3. s \in States /\ s.stack = stack /\ s.right = TRUE
      BY <3>1, <3>2 DEF States
    <3>4. Len(s.stack) = 0 /\ Depth = 0
      BY <2>2, <3>3 DEF Depth
    <3> QED BY <3>3, <3>4 DEF Good, Apart, Numbered
  <2> QED BY <2>1, <2>2
<1>4. Pushed(s, t, leaf)
  BY <1>1, <1>3, LeavesAreLeaves, PushGood
<1>5. Good(t) /\ Len(t.stack) <= MaxOperands
  BY <1>2, <1>3, <1>4, Now DEF Pushed
<1> QED BY <1>2, <1>5, Now, DoneGood

LEMMA CommaStep ==
  ASSUME IInv, NEW leaf \in Leaves, Comma(leaf)
  PROVE  IInv'
<1>1. PICK s, t : s = Pop(State) /\ t = operand_push(s, leaf)
  OBVIOUS
<1>2. Depth > 0 /\ Do(t)
  BY <1>1 DEF Comma
<1>3. Good(s) /\ Len(s.stack) = Depth - 1
  <2>1. Good(State) /\ Len(State.stack) # 0 /\ Len(State.stack) = Depth
    BY <1>2, Now
  <2> QED BY <1>1, <2>1, PopGood
<1>4. Pushed(s, t, leaf)
  BY <1>1, <1>3, LeavesAreLeaves, PushGood
<1>5. Good(t) /\ Len(t.stack) <= MaxOperands
  BY <1>3, <1>4, Now DEF Pushed
<1> QED BY <1>2, <1>5, Now, DoneGood

LEMMA AddressOfStep ==
  ASSUME IInv, AddressOf
  PROVE  IInv'
<1>1. /\ Depth > 0 /\ Last1.object /\ Last1.type \in DOMAIN mk_pointer
      /\ Do([State EXCEPT !.stack[Depth] = cancel_lvalue(Last1, mk_pointer[Last1.type])])
  BY DEF AddressOf
<1>2. PICK n, c, type, t :
        /\ n = Depth /\ c = Last1 /\ type = mk_pointer[c.type]
        /\ t = Put(State, n, cancel_lvalue(c, type))
  OBVIOUS
<1>3. Do(t)
  BY <1>1, <1>2 DEF Put
<1>4. type \in Types
  BY <1>1, <1>2 DEF mk_pointer, Types
<1>5. PICK s : s = State
  OBVIOUS
<1>6. Good(s) /\ n \in 1 .. Len(s.stack) /\ c = s.stack[n] /\ c.object /\ Len(s.stack) <= MaxOperands
  BY <1>1, <1>2, <1>5, Now DEF Last1
<1>7. Good(t) /\ Len(t.stack) = Len(s.stack)
  BY <1>2, <1>4, <1>5, <1>6, AddressGood
<1> QED BY <1>3, <1>6, <1>7, Now, DoneGood

LEMMA IndirectionStep ==
  ASSUME IInv, Indirection
  PROVE  IInv'
<1>1. PICK s, t : s = State /\ t = indirection(s)
  OBVIOUS
<1>2. Do(t) /\ Depth > 0 /\ Last1.type \in DOMAIN Pointed
  BY <1>1 DEF Indirection
<1>3. /\ Good(s) /\ Len(s.stack) > 0 /\ s.stack[Len(s.stack)].type \in DOMAIN Pointed
      /\ Len(s.stack) <= MaxOperands
  BY <1>1, <1>2, Now DEF Last1
<1>4. Good(t) /\ Len(t.stack) = Len(s.stack)
  BY <1>1, <1>3, Now, IndirectionGood
<1> QED BY <1>2, <1>3, <1>4, Now, DoneGood

LEMMA MemberStep ==
  ASSUME IInv, Member
  PROVE  IInv'
<1>1. /\ Depth > 0 /\ Last1.object
      /\ Do(member([State EXCEPT !.stack[Depth] = cancel_lvalue(Last1, "ptr")]))
  BY DEF Member
<1>2. PICK n, c, u, t :
        /\ n = Depth /\ c = Last1 /\ u = Put(State, n, cancel_lvalue(c, "ptr"))
        /\ t = member(u)
  OBVIOUS
<1>3. Do(t)
  BY <1>1, <1>2 DEF Put
<1>4. PICK s : s = State
  OBVIOUS
<1>5. Good(s) /\ n \in 1 .. Len(s.stack) /\ c = s.stack[n] /\ c.object /\ Len(s.stack) <= MaxOperands
  BY <1>1, <1>2, <1>4, Now DEF Last1
<1>6. "ptr" \in Types
  BY DEF Types
<1>7. Good(u) /\ Len(u.stack) = Len(s.stack)
  BY <1>2, <1>4, <1>5, <1>6, AddressGood
<1>8. Good(t) /\ Len(t.stack) = Len(u.stack)
  <2>1. Len(u.stack) > 0
    BY <1>5, <1>7, GoodTyped
  <2> QED BY <1>2, <1>7, <2>1, Now, MemberGood
<1> QED BY <1>3, <1>5, <1>7, <1>8, Now, DoneGood

LEMMA BinaryStep ==
  ASSUME IInv, NEW op \in Operators, Binary(op)
  PROVE  IInv'
<1>1. PICK s, t : s = State /\ t = gen_op(s, op)
  OBVIOUS
<1>2. Do(t) /\ Depth > 1
  BY <1>1 DEF Binary
<1>3. Good(s) /\ Len(s.stack) > 1 /\ Len(s.stack) - 1 <= MaxOperands
  BY <1>1, <1>2, Now
<1>4. Good(t) /\ Len(t.stack) = Len(s.stack) - 1
  BY <1>1, <1>3, Now, OpGood
<1> QED BY <1>2, <1>3, <1>4, Now, DoneGood

LEMMA AssignStep ==
  ASSUME IInv, Assign
  PROVE  IInv'
<1>1. PICK s, t : s = State /\ t = store0_1(s)
  OBVIOUS
<1>2. Do(t) /\ Depth > 1 /\ Last2.object
  BY <1>1 DEF Assign
<1>3. /\ Good(s) /\ Len(s.stack) > 1 /\ s.stack[Len(s.stack) - 1].object
      /\ Len(s.stack) - 1 <= MaxOperands
  BY <1>1, <1>2, Now DEF Last2
<1>4. Good(t) /\ Len(t.stack) = Len(s.stack) - 1
  BY <1>1, <1>3, Now, StoreGood
<1> QED BY <1>2, <1>3, <1>4, Now, DoneGood

LEMMA CallStep ==
  ASSUME IInv, NEW n \in 0 .. 2, NEW filled \in BOOLEAN, NEW type \in {"int", "ptr"},
         Call(n, filled, type)
  PROVE  IInv'
<1>1. PICK s, t : s = State /\ t = gen_invoke(s, n, filled, type)
  OBVIOUS
<1>2. Do(t) /\ Depth > n
  BY <1>1 DEF Call
<1>3. Good(s) /\ Len(s.stack) > n /\ Len(s.stack) - n <= MaxOperands
  BY <1>1, <1>2, Now
<1>4. type \in Types
  BY DEF Types
<1>5. Good(t) /\ Len(t.stack) = Len(s.stack) - n
  BY <1>1, <1>3, <1>4, Now, InvokeGood
<1> QED BY <1>2, <1>3, <1>5, Now, DoneGood

LEMMA ExprStmtStep ==
  ASSUME IInv, ExprStmt
  PROVE  IInv'
<1>1. PICK s, t : s = State /\ t = Pop(s)
  OBVIOUS
<1>2. Do(t) /\ Depth = 1
  BY <1>1 DEF ExprStmt
<1>3. Good(s) /\ Len(s.stack) # 0 /\ Len(s.stack) = 1
  BY <1>1, <1>2, Now
<1>4. Good(t) /\ Len(t.stack) = Len(s.stack) - 1
  BY <1>1, <1>3, PopGood
<1>5. Len(t.stack) <= MaxOperands
  BY <1>3, <1>4, Now
<1> QED BY <1>2, <1>4, <1>5, Now, DoneGood

LEMMA ConditionStep ==
  ASSUME IInv, Condition
  PROVE  IInv'
<1>1. PICK s, t : s = State /\ t = gen_jcc(s)
  OBVIOUS
<1>2. Do(t) /\ Depth = 1
  BY <1>1 DEF Condition
<1>3. Good(s) /\ Len(s.stack) = 1
  BY <1>1, <1>2, Now
<1>4. Good(t) /\ Len(t.stack) = 0
  BY <1>1, <1>3, Now, JccGood
<1>5. Len(t.stack) <= MaxOperands
  BY <1>4, Now
<1> QED BY <1>2, <1>4, <1>5, Now, DoneGood

LEMMA ReturnStep ==
  ASSUME IInv, Return
  PROVE  IInv'
<1>1. PICK s, t : s = State /\ t = Returning(load_1(s, REG_IRET, Top(s)))
  OBVIOUS
<1>2. Depth = 1 /\ Do(Returning(load_1(State, REG_IRET, Depth)))
  BY DEF Return
<1>3. Good(s) /\ Len(s.stack) = 1 /\ Top(s) = Depth
  BY <1>1, <1>2, Now DEF Top
<1>4. Do(t)
  BY <1>1, <1>2, <1>3
<1>5. Good(t) /\ Len(t.stack) = 0
  BY <1>1, <1>3, Now, ReturnGood
<1>6. Len(t.stack) <= MaxOperands
  BY <1>5, Now
<1> QED BY <1>4, <1>5, <1>6, Now, DoneGood

LEMMA InitVariableStep ==
  ASSUME IInv, InitVariable
  PROVE  IInv'
<1>1. PICK s, leaf, t :
        s = State /\ leaf = Variable(Last1.type) /\ t = Initialize(s, leaf)
  OBVIOUS
<1>2. Depth = 1 /\ Last1.type \in Scalars /\ Do(t)
  BY <1>1 DEF InitVariable, AtInitializer
<1>3. Good(s) /\ Len(s.stack) = 1
  BY <1>1, <1>2, Now
<1>4. leaf \in Leaf
  BY <1>1, <1>2 DEF Variable, Leaf, Scalars, Types
<1>5. Good(t) /\ Len(t.stack) = 0
  BY <1>1, <1>3, <1>4, Now, InitGood
<1>6. Len(t.stack) <= MaxOperands
  BY <1>5, Now
<1> QED BY <1>2, <1>5, <1>6, Now, DoneGood

LEMMA StutterStep ==
  ASSUME IInv, UNCHANGED vars
  PROVE  IInv'
<1>1. State' = State
  BY DEF State, vars
<1>2. Good(State)'
  <2>1. PICK s : s = State
    OBVIOUS
  <2>2. Good(s) /\ State' = s
    BY <1>1, <2>1, Now
  <2> QED BY <2>2
<1>3. TypeOK'
  BY DEF IInv, TypeOK, vars, Depth, MaxOperands
<1> QED BY <1>2, <1>3 DEF IInv

\* The invariant holds in every state: for every program, whatever expressions are
\* parsed, in whatever order.
THEOREM OperandInductive == Spec => []IInv
<1>1. Init => IInv
  BY InitGoodState
<1>2. IInv /\ [Next]_vars => IInv'
  <2> SUFFICES ASSUME IInv, [Next]_vars PROVE IInv'
    OBVIOUS
  <2>1. CASE \E leaf \in Leaves : Primary(leaf) \/ Comma(leaf)
    BY <2>1, PrimaryStep, CommaStep
  <2>2. CASE AddressOf
    BY <2>2, AddressOfStep
  <2>3. CASE Indirection
    BY <2>3, IndirectionStep
  <2>4. CASE Member
    BY <2>4, MemberStep
  <2>5. CASE Assign
    BY <2>5, AssignStep
  <2>6. CASE \E op \in {"alu", "mul", "div", "mod", "rel"} : Binary(op)
    BY <2>6, BinaryStep DEF Operators
  <2>7. CASE \E n \in 0 .. 2, filled \in BOOLEAN, type \in {"int", "ptr"} : Call(n, filled, type)
    BY <2>7, CallStep
  <2>8. CASE ExprStmt
    BY <2>8, ExprStmtStep
  <2>9. CASE Condition
    BY <2>9, ConditionStep
  <2>10. CASE Return
    BY <2>10, ReturnStep
  <2>11. CASE InitVariable
    BY <2>11, InitVariableStep
  <2>12. CASE UNCHANGED vars
    BY <2>12, StutterStep
  <2> QED BY <2>1, <2>2, <2>3, <2>4, <2>5, <2>6, <2>7, <2>8, <2>9, <2>10, <2>11, <2>12 DEF Next
<1> QED BY <1>1, <1>2, PTL DEF Spec

\* The operand stack never grows beyond the operands of the program, and every
\* Operand, register and frame offset has a value that the code can store.
THEOREM OperandTypeCorrect == Spec => []TypeOK
<1>1. IInv => TypeOK
  BY DEF IInv
<1> QED BY <1>1, OperandInductive, PTL

\* allocate_reg and spill_reg never leave two operands in one register.
THEOREM RegistersApart == Spec => []OneOperandPerRegister
<1>1. IInv => OneOperandPerRegister
  <2> SUFFICES ASSUME IInv PROVE OneOperandPerRegister
    OBVIOUS
  <2>1. PICK s : s = State
    OBVIOUS
  <2>2. Apart(s) /\ s.stack = stack /\ DOMAIN stack = 1 .. Len(stack)
    BY <2>1, Now, GoodTyped DEF Good
  <2> QED BY <2>2 DEF Apart, OneOperandPerRegister
<1> QED BY <1>1, OperandInductive, PTL

\* Unless the statement is lost, the value of every operand is where its Operand
\* says, through any number of loads, spills and calls.
THEOREM OperandsHeld == Spec => []ValuesHeld
<1>1. IInv => ValuesHeld
  <2> SUFFICES ASSUME IInv, ~ lost, NEW i \in DOMAIN stack PROVE Holds(State, i)
    BY DEF ValuesHeld
  <2>1. PICK s : s = State
    OBVIOUS
  <2>2. Good(s) /\ s.stack = stack /\ s.lost = lost
    BY <2>1, Now DEF State
  <2>3. i \in 1 .. Len(s.stack)
    BY <2>2, GoodTyped
  <2>4. Holds(s, i)
    BY <2>2, <2>3 DEF Good, Reachable
  <2> QED BY <2>1, <2>4
<1> QED BY <1>1, OperandInductive, PTL

\* Unless the statement is lost, every store went to the object on the left and
\* every value stored, passed, tested or returned was that of its expression.
THEOREM UsesCorrect == Spec => []UsesRight
<1>1. IInv => UsesRight
  <2> SUFFICES ASSUME IInv, ~ lost PROVE right
    BY DEF UsesRight
  <2>1. PICK s : s = State
    OBVIOUS
  <2>2. Good(s) /\ s.lost = lost /\ s.right = right
    BY <2>1, Now DEF State
  <2> QED BY <2>2 DEF Good
<1> QED BY <1>1, OperandInductive, PTL
=============================================================================
