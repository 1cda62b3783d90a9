---------------------------- MODULE LuaGCProofs ----------------------------
(***************************************************************************)
(* Proofs about LuaGC, for every heap: the collector never frees what the  *)
(* program can reach, no black object refers to a white one, every gray    *)
(* object is on one list, and a finalizer is called once.  The invariant   *)
(* relates colours, lists and references in every state of the collector;  *)
(* the proof takes the operations of the program first, then the steps of  *)
(* the collector.                                                          *)
(***************************************************************************)
EXTENDS LuaGC, FiniteSetTheorems, TLAPS

-----------------------------------------------------------------------------
(* Induction, and sequences.                                               *)

\* Induction over the naturals for a set: the numbers up to the first one that
\* is missing would be mapped one to one into themselves without 0.
LEMMA NatInduct ==
  ASSUME NEW S, 0 \in S, \A n \in Nat : n \in S => n + 1 \in S
  PROVE  Nat \subseteq S
<1> SUFFICES ASSUME NEW n \in Nat, n \notin S PROVE FALSE
  OBVIOUS
<1> DEFINE D == {x \in 0..n : \A y \in 0..x : y \in S}
           succ == [x \in D |-> x + 1]
<1>1. IsFiniteSet(D) /\ IsFiniteSet(D \ {0}) /\ Cardinality(D) \in Nat
  <2>1. IsFiniteSet(0..n)
    BY FS_Interval
  <2>2. D \subseteq 0..n
    OBVIOUS
  <2>3. IsFiniteSet(D)
    BY <2>1, <2>2, FS_Subset
  <2>4. QED
    BY <2>3, FS_RemoveElement, FS_CardinalityType
<1>2. 0 \in D
  OBVIOUS
<1>3. ASSUME NEW x \in D PROVE x + 1 \in D \ {0}
  <2>1. x \in Nat /\ x \in S /\ x # n /\ x <= n
    OBVIOUS
  <2>2. x + 1 \in S /\ x + 1 \in 0..n
    BY <2>1
  <2>3. \A y \in 0..(x + 1) : y = x + 1 \/ y \in 0..x
    BY <2>1
  <2>4. QED
    BY <2>1, <2>2, <2>3
<1>4. succ \in Injection(D, D \ {0})
  BY <1>3 DEF Injection, IsInjective
<1>5. Cardinality(D) <= Cardinality(D \ {0})
  BY <1>1, <1>4, FS_Injection
<1>6. Cardinality(D \ {0}) = Cardinality(D) - 1
  BY <1>1, <1>2, FS_RemoveElement
<1> QED
  BY <1>1, <1>5, <1>6

\* A set of numbers that is not empty has a least one.
LEMMA LeastNat ==
  ASSUME NEW T \in SUBSET Nat, T # {}
  PROVE  \E n \in T : \A m \in T : n <= m
<1> SUFFICES ASSUME \A n \in T : \E m \in T : m < n PROVE FALSE
  OBVIOUS
<1> DEFINE S == {n \in Nat : \A m \in T : n <= m}
<1>1. 0 \in S
  OBVIOUS
<1>2. ASSUME NEW n \in Nat, n \in S PROVE n + 1 \in S
  <2>1. ASSUME NEW m \in T PROVE n + 1 <= m
    <3>1. PICK k \in T : k < m
      OBVIOUS
    <3>2. n <= k /\ k \in Nat /\ m \in Nat
      BY <1>2
    <3>3. QED
      BY <3>1, <3>2
  <2>2. QED
    BY <2>1
<1>3. Nat \subseteq S
  BY <1>1, <1>2, NatInduct
<1>4. PICK t \in T : TRUE
  OBVIOUS
<1>5. t + 1 \in S /\ t \in Nat
  BY <1>3
<1> QED
  BY <1>5

\* Those: the recursion has a solution.
Chosen(q, S, n, f) ==
  f = [i \in 0..n |-> IF i = 0 THEN <<>>
                      ELSE IF q[i] \in S THEN Append(f[i - 1], q[i]) ELSE f[i - 1]]
\* The recursion has a solution, for every length.
LEMMA ChosenExists ==
  ASSUME NEW q, NEW S
  PROVE  \A n \in Nat : \E f : Chosen(q, S, n, f)
<1> DEFINE N == {n \in Nat : \E f : Chosen(q, S, n, f)}
<1>1. 0 \in N
  <2> DEFINE g == [i \in 0..0 |-> <<>>]
  <2>1. Chosen(q, S, 0, g)
    BY DEF Chosen
  <2>2. QED
    BY <2>1
<1>2. ASSUME NEW n \in Nat, n \in N PROVE n + 1 \in N
  <2>1. PICK f : Chosen(q, S, n, f)
    BY <1>2
  <2> DEFINE g == [i \in 0..(n + 1) |-> IF i <= n THEN f[i]
                                        ELSE IF q[i] \in S THEN Append(f[i - 1], q[i]) ELSE f[i - 1]]
  <2>2. \A i \in 0..n : g[i] = f[i]
    OBVIOUS
  <2>3. \A i \in 0..n : f[i] = IF i = 0 THEN <<>>
                      ELSE IF q[i] \in S THEN Append(f[i - 1], q[i]) ELSE f[i - 1]
    BY <2>1 DEF Chosen
  <2>4. \A i \in 0..(n + 1) : g[i] = IF i = 0 THEN <<>>
                      ELSE IF q[i] \in S THEN Append(g[i - 1], q[i]) ELSE g[i - 1]
    BY <2>2, <2>3
  <2>5. Chosen(q, S, n + 1, g)
    BY <2>4 DEF Chosen
  <2>6. QED
    BY <2>5
<1>3. Nat \subseteq N
  BY <1>1, <1>2, NatInduct
<1> QED
  BY <1>3

\* Those is the last value of that solution.
LEMMA ThoseChosen ==
  ASSUME NEW T, NEW q \in Seq(T), NEW S
  PROVE  \E f : Chosen(q, S, Len(q), f) /\ Those(q, S) = f[Len(q)]
<1>1. Len(q) \in Nat
  OBVIOUS
<1>2. \E f : Chosen(q, S, Len(q), f)
  BY <1>1, ChosenExists
<1> QED
  BY <1>2 DEF Chosen, Those

\* What Those returns: a sequence of the members of S in q, with no duplicates
\* if q has none.
LEMMA ThoseAre ==
  ASSUME NEW T, NEW q \in Seq(T), NEW S
  PROVE  /\ Those(q, S) \in Seq(T)
         /\ Range(Those(q, S)) = Range(q) \cap S
         /\ IsInjective(q) => IsInjective(Those(q, S))
<1>1. PICK f : Chosen(q, S, Len(q), f) /\ Those(q, S) = f[Len(q)]
  BY ThoseChosen
<1>2. /\ f[0] = <<>>
      /\ \A i \in 1..Len(q) : f[i] = IF q[i] \in S THEN Append(f[i - 1], q[i]) ELSE f[i - 1]
  <2>1. Len(q) \in Nat
    OBVIOUS
  <2>2. \A i \in 0..Len(q) : f[i] = IF i = 0 THEN <<>>
                      ELSE IF q[i] \in S THEN Append(f[i - 1], q[i]) ELSE f[i - 1]
    BY <1>1 DEF Chosen
  <2>3. 0 \in 0..Len(q) /\ \A i \in 1..Len(q) : i \in 0..Len(q) /\ i # 0
    BY <2>1
  <2>4. QED
    BY <2>2, <2>3
<1> DEFINE Good(n) ==
             /\ f[n] \in Seq(T)
             /\ \A x : (\E i \in 1..Len(f[n]) : f[n][i] = x) <=> (x \in S /\ \E i \in 1..n : q[i] = x)
             /\ IsInjective(q) => \A i, j \in 1..Len(f[n]) : f[n][i] = f[n][j] => i = j
           N == {n \in Nat : n <= Len(q) => Good(n)}
<1> HIDE DEF Good
<1>3. 0 \in N
  <2>1. /\ f[0] \in Seq(T) /\ Len(f[0]) = 0
        /\ 1..0 = {}
    BY <1>2
  <2>2. Good(0)
    BY <2>1 DEF Good
  <2>3. QED
    BY <2>2
<1>4. ASSUME NEW n \in Nat, n \in N PROVE n + 1 \in N
  <2> SUFFICES ASSUME n + 1 <= Len(q) PROVE Good(n + 1)
    OBVIOUS
  <2>1. Good(n) /\ n + 1 \in 1..Len(q) /\ (n + 1) - 1 = n
    BY <1>4
  <2>2. f[n + 1] = IF q[n + 1] \in S THEN Append(f[n], q[n + 1]) ELSE f[n]
    BY <1>2, <2>1
  <2>3. \A x : (\E i \in 1..(n + 1) : q[i] = x) <=> (q[n + 1] = x \/ \E i \in 1..n : q[i] = x)
    BY <2>1
  <2>4. CASE q[n + 1] \notin S
    <3>1. f[n + 1] = f[n]
      BY <2>2, <2>4
    <3>2. QED
      BY <2>1, <2>3, <2>4, <3>1 DEF Good
  <2>5. CASE q[n + 1] \in S
    <3> DEFINE r == f[n]  e == q[n + 1]
    <3>1. f[n + 1] = Append(r, e) /\ r \in Seq(T) /\ e \in T
      BY <2>1, <2>2, <2>5 DEF Good
    <3>2. /\ Len(Append(r, e)) = Len(r) + 1 /\ Append(r, e) \in Seq(T)
          /\ \A i \in 1..Len(r) : Append(r, e)[i] = r[i]
          /\ Append(r, e)[Len(r) + 1] = e
      BY <3>1
    <3>3. Len(r) \in Nat
      BY <3>1
    <3>4. \A x : (\E i \in 1..Len(r) : r[i] = x) <=> (x \in S /\ \E i \in 1..n : q[i] = x)
      BY <2>1 DEF Good
    <3> DEFINE a == Append(r, e)
    <3>5. \A x : (\E i \in 1..Len(a) : a[i] = x) <=> (x = e \/ \E i \in 1..Len(r) : r[i] = x)
      <4> HIDE DEF r, e
      <4>1. ASSUME NEW x, NEW i \in 1..Len(a), a[i] = x PROVE x = e \/ \E k \in 1..Len(r) : r[k] = x
        <5>1. i \in 1..Len(r) \/ i = Len(r) + 1
          BY <3>2, <3>3, <4>1
        <5>2. QED
          BY <3>2, <3>3, <4>1, <5>1
      <4>2. \E i \in 1..Len(a) : a[i] = e
        BY <3>2, <3>3
      <4>3. ASSUME NEW k \in 1..Len(r) PROVE \E i \in 1..Len(a) : a[i] = r[k]
        BY <3>2, <3>3
      <4>4. QED
        BY <4>1, <4>2, <4>3
    <3>6. IsInjective(q) => \A i, j \in 1..Len(a) : a[i] = a[j] => i = j
      <4> SUFFICES ASSUME IsInjective(q), NEW i \in 1..Len(a), NEW j \in 1..Len(a), a[i] = a[j]
                   PROVE  i = j
        OBVIOUS
      <4>1. \A k \in 1..Len(r) : r[k] # e
        <5>1. \A k \in 1..n : q[k] # e
          BY <2>1 DEF IsInjective
        <5>2. QED
          BY <3>4, <5>1
      <4>2. \A k, l \in 1..Len(r) : r[k] = r[l] => k = l
        BY <2>1 DEF Good
      <4> HIDE DEF r, e
      <4>3. (i \in 1..Len(r) \/ i = Len(r) + 1) /\ (j \in 1..Len(r) \/ j = Len(r) + 1)
        BY <3>2, <3>3
      <4>4. QED
        BY <3>2, <4>1, <4>2, <4>3
    <3>7. \A x : (x = e \/ \E i \in 1..Len(r) : r[i] = x) <=> (x \in S /\ \E i \in 1..(n + 1) : q[i] = x)
      BY <2>3, <2>5, <3>4
    <3>8. f[n + 1] = a
      BY <3>1
    <3> HIDE DEF a, r, e
    <3>9. a \in Seq(T)
      BY <3>2 DEF a
    <3>10. QED
      BY <3>5, <3>6, <3>7, <3>8, <3>9 DEF Good
  <2>6. QED
    BY <2>4, <2>5
<1>5. Len(q) \in N
  <2>1. Nat \subseteq N
    BY <1>3, <1>4, NatInduct
  <2>2. QED
    BY <2>1
<1>6. Good(Len(q))
  BY <1>5
<1> DEFINE r == Those(q, S)
<1>7. /\ r \in Seq(T)
      /\ \A x : (\E i \in 1..Len(r) : r[i] = x) <=> (x \in S /\ \E i \in 1..Len(q) : q[i] = x)
      /\ IsInjective(q) => \A i, j \in 1..Len(r) : r[i] = r[j] => i = j
  BY <1>1, <1>6 DEF Good
<1> HIDE DEF r
<1>8. Range(r) = Range(q) \cap S
  <2>1. DOMAIN r = 1..Len(r) /\ DOMAIN q = 1..Len(q)
    BY <1>7
  <2>2. \A x : x \in Range(r) <=> \E i \in 1..Len(r) : r[i] = x
    BY <2>1 DEF Range
  <2>3. \A x : x \in Range(q) <=> \E i \in 1..Len(q) : q[i] = x
    BY <2>1 DEF Range
  <2>4. QED
    BY <1>7, <2>2, <2>3
<1>9. IsInjective(q) => IsInjective(r)
  BY <1>7 DEF IsInjective
<1> QED
  BY <1>7, <1>8, <1>9 DEF r

\* What is in a sequence.
LEMMA RangeHas ==
  ASSUME NEW T, NEW q \in Seq(T)
  PROVE  /\ \A x : x \in Range(q) <=> \E i \in 1..Len(q) : q[i] = x
         /\ Range(q) \subseteq T
         /\ DOMAIN q = 1..Len(q) /\ Len(q) \in Nat
<1>1. DOMAIN q = 1..Len(q) /\ Len(q) \in Nat
  OBVIOUS
<1>2. \A i \in 1..Len(q) : q[i] \in T
  OBVIOUS
<1> QED
  BY <1>1, <1>2 DEF Range

\* The empty sequence.
LEMMA EmptyRange == Range(<<>>) = {} /\ IsInjective(<<>>)
BY DEF Range, IsInjective

\* An object put at the head.
LEMMA ConsIs ==
  ASSUME NEW T, NEW q \in Seq(T), NEW o \in T
  PROVE  /\ <<o>> \o q \in Seq(T)
         /\ Len(<<o>> \o q) = Len(q) + 1
         /\ (<<o>> \o q)[1] = o
         /\ \A i \in 1..Len(q) : (<<o>> \o q)[i + 1] = q[i]
         /\ Range(<<o>> \o q) = {o} \cup Range(q)
         /\ IsInjective(q) /\ o \notin Range(q) => IsInjective(<<o>> \o q)
<1> DEFINE r == <<o>> \o q
<1>1. /\ r \in Seq(T) /\ Len(r) = Len(q) + 1 /\ r[1] = o /\ Len(q) \in Nat
      /\ \A i \in 1..Len(q) : r[i + 1] = q[i]
  OBVIOUS
<1> HIDE DEF r
<1>2. \A i \in 1..Len(r) : i = 1 \/ (i - 1 \in 1..Len(q) /\ r[i] = q[i - 1])
  <2> SUFFICES ASSUME NEW i \in 1..Len(r), i # 1 PROVE i - 1 \in 1..Len(q) /\ r[i] = q[i - 1]
    OBVIOUS
  <2>1. i - 1 \in 1..Len(q) /\ (i - 1) + 1 = i
    BY <1>1
  <2>2. QED
    BY <1>1, <2>1
<1>3. Range(r) = {o} \cup Range(q)
  <2>1. ASSUME NEW x PROVE x \in Range(r) <=> (x = o \/ x \in Range(q))
    <3>1. x \in Range(r) <=> \E i \in 1..Len(r) : r[i] = x
      BY <1>1, RangeHas
    <3>2. x \in Range(q) <=> \E i \in 1..Len(q) : q[i] = x
      BY RangeHas
    <3>3. (\E i \in 1..Len(q) : q[i] = x) => \E i \in 1..Len(r) : r[i] = x
      <4> SUFFICES ASSUME NEW i \in 1..Len(q) PROVE i + 1 \in 1..Len(r) /\ r[i + 1] = q[i]
        OBVIOUS
      <4>1. QED
        BY <1>1
    <3>4. 1 \in 1..Len(r)
      BY <1>1
    <3>5. QED
      BY <1>1, <1>2, <3>1, <3>2, <3>3, <3>4
  <2>2. QED
    BY <2>1
<1>4. ASSUME IsInjective(q), o \notin Range(q) PROVE IsInjective(r)
  <2>1. DOMAIN r = 1..Len(r) /\ DOMAIN q = 1..Len(q)
    BY <1>1
  <2>2. \A i \in 1..Len(q) : q[i] # o
    BY <1>4, RangeHas
  <2>3. ASSUME NEW i \in 1..Len(r), NEW j \in 1..Len(r), r[i] = r[j] PROVE i = j
    <3>1. CASE i = 1 /\ j # 1
      BY <1>1, <1>2, <2>2, <2>3, <3>1
    <3>2. CASE j = 1 /\ i # 1
      BY <1>1, <1>2, <2>2, <2>3, <3>2
    <3>3. CASE i # 1 /\ j # 1
      <4>1. i - 1 \in 1..Len(q) /\ j - 1 \in 1..Len(q) /\ q[i - 1] = q[j - 1]
        BY <1>2, <2>3, <3>3
      <4>2. i - 1 = j - 1
        BY <1>4, <2>1, <4>1 DEF IsInjective
      <4>3. QED
        BY <4>2
    <3>4. QED
      BY <3>1, <3>2, <3>3
  <2>4. QED
    BY <2>1, <2>3 DEF IsInjective
<1> QED
  BY <1>1, <1>3, <1>4 DEF r

\* The head taken off.
LEMMA TailIs ==
  ASSUME NEW T, NEW q \in Seq(T), q # <<>>
  PROVE  /\ Tail(q) \in Seq(T) /\ Head(q) \in T
         /\ Range(q) = {Head(q)} \cup Range(Tail(q))
         /\ IsInjective(q) => IsInjective(Tail(q)) /\ Head(q) \notin Range(Tail(q))
<1> DEFINE t == Tail(q)
<1>1. /\ t \in Seq(T) /\ Len(q) = Len(t) + 1 /\ Head(q) = q[1] /\ Len(t) \in Nat /\ q[1] \in T
      /\ \A i \in 1..Len(t) : t[i] = q[i + 1]
  OBVIOUS
<1> HIDE DEF t
<1>2. \A i \in 1..Len(q) : i = 1 \/ (i - 1 \in 1..Len(t) /\ q[i] = t[i - 1])
  <2> SUFFICES ASSUME NEW i \in 1..Len(q), i # 1 PROVE i - 1 \in 1..Len(t) /\ q[i] = t[i - 1]
    OBVIOUS
  <2>1. i - 1 \in 1..Len(t) /\ (i - 1) + 1 = i
    BY <1>1
  <2>2. QED
    BY <1>1, <2>1
<1>3. Range(q) = {q[1]} \cup Range(t)
  <2>1. ASSUME NEW x PROVE x \in Range(q) <=> (x = q[1] \/ x \in Range(t))
    <3>1. x \in Range(t) <=> \E i \in 1..Len(t) : t[i] = x
      BY <1>1, RangeHas
    <3>2. x \in Range(q) <=> \E i \in 1..Len(q) : q[i] = x
      BY RangeHas
    <3>3. (\E i \in 1..Len(t) : t[i] = x) => \E i \in 1..Len(q) : q[i] = x
      <4> SUFFICES ASSUME NEW i \in 1..Len(t) PROVE i + 1 \in 1..Len(q) /\ q[i + 1] = t[i]
        OBVIOUS
      <4>1. QED
        BY <1>1
    <3>4. 1 \in 1..Len(q)
      BY <1>1
    <3>5. QED
      BY <1>1, <1>2, <3>1, <3>2, <3>3, <3>4
  <2>2. QED
    BY <2>1
<1>4. ASSUME IsInjective(q) PROVE IsInjective(t) /\ q[1] \notin Range(t)
  <2>1. DOMAIN q = 1..Len(q) /\ DOMAIN t = 1..Len(t)
    BY <1>1
  <2>2. \A i, j \in 1..Len(q) : q[i] = q[j] => i = j
    BY <1>4, <2>1 DEF IsInjective
  <2>3. \A i \in 1..Len(t) : i + 1 \in 1..Len(q) /\ t[i] = q[i + 1]
    BY <1>1
  <2>4. ASSUME NEW i \in 1..Len(t), NEW j \in 1..Len(t), t[i] = t[j] PROVE i = j
    <3>1. i + 1 = j + 1
      BY <2>2, <2>3, <2>4
    <3>2. QED
      BY <3>1
  <2>5. ASSUME NEW i \in 1..Len(t) PROVE t[i] # q[1]
    <3>1. 1 \in 1..Len(q) /\ i + 1 # 1
      BY <1>1
    <3>2. QED
      BY <2>2, <2>3, <3>1
  <2>6. q[1] \notin Range(t)
    BY <1>1, <2>5, RangeHas
  <2>7. QED
    BY <2>1, <2>4, <2>6 DEF IsInjective
<1> QED
  BY <1>1, <1>3, <1>4 DEF t

\* Two sequences with nothing in common.
LEMMA JoinIs ==
  ASSUME NEW T, NEW p \in Seq(T), NEW q \in Seq(T)
  PROVE  /\ p \o q \in Seq(T)
         /\ Len(p \o q) = Len(p) + Len(q) /\ Len(p) \in Nat /\ Len(q) \in Nat
         /\ \A i \in 1..Len(p) : (p \o q)[i] = p[i]
         /\ \A i \in 1..Len(q) : (p \o q)[Len(p) + i] = q[i]
         /\ \A i \in 1..Len(p \o q) : i \in 1..Len(p) \/ i - Len(p) \in 1..Len(q)
         /\ Range(p \o q) = Range(p) \cup Range(q)
         /\ IsInjective(p) /\ IsInjective(q) /\ Range(p) \cap Range(q) = {} => IsInjective(p \o q)
<1> DEFINE r == p \o q
           n == Len(p)
<1>1. /\ r \in Seq(T) /\ Len(r) = n + Len(q) /\ n \in Nat /\ Len(q) \in Nat
      /\ \A i \in 1..n : r[i] = p[i]
      /\ \A i \in 1..Len(q) : r[n + i] = q[i]
  OBVIOUS
<1> HIDE DEF r, n
<1>2. \A i \in 1..Len(r) : i \in 1..n \/ (i - n \in 1..Len(q) /\ r[i] = q[i - n])
  <2> SUFFICES ASSUME NEW i \in 1..Len(r), i \notin 1..n PROVE i - n \in 1..Len(q) /\ r[i] = q[i - n]
    OBVIOUS
  <2>1. i - n \in 1..Len(q) /\ n + (i - n) = i
    BY <1>1
  <2>2. QED
    BY <1>1, <2>1
<1>3. /\ DOMAIN r = 1..Len(r) /\ DOMAIN q = 1..Len(q) /\ DOMAIN p = 1..n
  BY <1>1 DEF n
<1>4. \A i \in 1..Len(q) : n + i \in 1..Len(r)
  BY <1>1
<1>5. \A i \in 1..n : i \in 1..Len(r)
  BY <1>1
<1>6. Range(r) = Range(p) \cup Range(q)
  <2>1. Range(r) = {r[i] : i \in 1..Len(r)} /\ Range(p) = {p[i] : i \in 1..n} /\ Range(q) = {q[i] : i \in 1..Len(q)}
    BY <1>3 DEF Range
  <2>2. QED
    BY <1>1, <1>2, <1>4, <1>5, <2>1
<1>7. ASSUME IsInjective(p), IsInjective(q), Range(p) \cap Range(q) = {} PROVE IsInjective(r)
  <2>1. ASSUME NEW i \in 1..Len(r), NEW j \in 1..Len(r), r[i] = r[j] PROVE i = j
    <3>1. \A k \in 1..n, l \in 1..Len(q) : p[k] # q[l]
      BY <1>3, <1>7 DEF Range
    <3>2. \A k, l \in 1..n : p[k] = p[l] => k = l
      BY <1>3, <1>7 DEF IsInjective
    <3>3. \A k, l \in 1..Len(q) : q[k] = q[l] => k = l
      BY <1>3, <1>7 DEF IsInjective
    <3>4. CASE i \in 1..n /\ j \in 1..n
      BY <1>1, <2>1, <3>2, <3>4
    <3>5. CASE i \in 1..n /\ j \notin 1..n
      BY <1>1, <1>2, <2>1, <3>1, <3>5
    <3>6. CASE i \notin 1..n /\ j \in 1..n
      BY <1>1, <1>2, <2>1, <3>1, <3>6
    <3>7. CASE i \notin 1..n /\ j \notin 1..n
      <4>0. i - n \in 1..Len(q) /\ j - n \in 1..Len(q) /\ q[i - n] = q[j - n]
        BY <1>2, <2>1, <3>7
      <4>1. i - n = j - n
        BY <3>3, <4>0
      <4>2. QED
        BY <1>1, <4>1
    <3>8. QED
      BY <3>4, <3>5, <3>6, <3>7
  <2>2. QED
    BY <1>3, <2>1 DEF IsInjective
<1> QED
  BY <1>1, <1>2, <1>6, <1>7 DEF r, n

\* An object linked after another one.
LEMMA IndexIs ==
  ASSUME NEW T, NEW q \in Seq(T), NEW x \in Range(q)
  PROVE  IndexOf(q, x) \in 1..Len(q) /\ q[IndexOf(q, x)] = x
<1>1. \E i \in DOMAIN q : q[i] = x
  BY DEF Range
<1> QED
  BY <1>1 DEF IndexOf
\* Where After puts the object.
LEMMA AfterIs ==
  ASSUME NEW T, NEW q \in Seq(T), NEW x \in Range(q), NEW o \in T
  PROVE  \E n \in 1..Len(q) :
           /\ After(q, x, o) \in Seq(T)
           /\ Len(After(q, x, o)) = Len(q) + 1 /\ Len(q) \in Nat
           /\ q[n] = x
           /\ \A i \in 1..(Len(q) + 1) : After(q, x, o)[i] = IF i <= n THEN q[i]
                                                 ELSE IF i = n + 1 THEN o ELSE q[i - 1]
<1> DEFINE n == IndexOf(q, x)
           r == After(q, x, o)
<1>1. n \in 1..Len(q) /\ q[n] = x /\ Len(q) \in Nat
  BY IndexIs
<1>2. r = [i \in 1..(Len(q) + 1) |-> IF i <= n THEN q[i] ELSE IF i = n + 1 THEN o ELSE q[i - 1]]
  BY DEF After
<1> HIDE DEF r, n
<1>3. ASSUME NEW i \in 1..(Len(q) + 1) PROVE r[i] \in T
  <2>1. CASE i <= n
    <3>1. i \in 1..Len(q)
      BY <1>1, <2>1
    <3>2. QED
      BY <1>1, <1>2, <2>1, <3>1
  <2>2. CASE i = n + 1
    BY <1>1, <1>2, <2>2
  <2>3. CASE ~(i <= n) /\ i # n + 1
    <3>1. i - 1 \in 1..Len(q)
      BY <1>1, <2>3
    <3>2. QED
      BY <1>1, <1>2, <2>3, <3>1
  <2>4. QED
    BY <2>1, <2>2, <2>3
<1>4. r \in Seq(T) /\ Len(r) = Len(q) + 1
  BY <1>1, <1>2, <1>3
<1> QED
  BY <1>1, <1>2, <1>4 DEF r, n

\* What the sequence holds then.
LEMMA AfterHas ==
  ASSUME NEW T, NEW q \in Seq(T), NEW x \in Range(q), NEW o \in T
  PROVE  /\ After(q, x, o) \in Seq(T)
         /\ Range(After(q, x, o)) = {o} \cup Range(q)
         /\ IsInjective(q) /\ o \notin Range(q) => IsInjective(After(q, x, o))
<1> DEFINE r == After(q, x, o)
<1>1. PICK n \in 1..Len(q) :
           /\ r \in Seq(T)
           /\ Len(r) = Len(q) + 1 /\ Len(q) \in Nat
           /\ q[n] = x
           /\ \A i \in 1..(Len(q) + 1) : r[i] = IF i <= n THEN q[i] ELSE IF i = n + 1 THEN o ELSE q[i - 1]
  BY AfterIs
<1> HIDE DEF r
<1> DEFINE up(i) == IF i <= n THEN i ELSE i + 1
           down(i) == IF i <= n THEN i ELSE i - 1
<1>2. \A i \in 1..Len(q) : up(i) \in 1..Len(r) /\ r[up(i)] = q[i]
  <2> SUFFICES ASSUME NEW i \in 1..Len(q) PROVE up(i) \in 1..Len(r) /\ r[up(i)] = q[i]
    OBVIOUS
  <2>1. CASE i <= n
    BY <1>1, <2>1
  <2>2. CASE ~(i <= n)
    <3>1. i + 1 \in 1..Len(r) /\ ~(i + 1 <= n) /\ i + 1 # n + 1 /\ (i + 1) - 1 = i
      BY <1>1, <2>2
    <3>2. QED
      BY <1>1, <2>2, <3>1
  <2>3. QED
    BY <2>1, <2>2
<1>3. \A i \in 1..Len(r) : i # n + 1 => down(i) \in 1..Len(q) /\ r[i] = q[down(i)]
  BY <1>1
<1>4. n + 1 \in 1..Len(r) /\ r[n + 1] = o
  BY <1>1
<1>5. DOMAIN r = 1..Len(r) /\ DOMAIN q = 1..Len(q)
  BY <1>1
<1>6. Range(r) = {o} \cup Range(q)
  <2> HIDE DEF up, down
  <2>1. Range(r) = {r[i] : i \in 1..Len(r)} /\ Range(q) = {q[i] : i \in 1..Len(q)}
    BY <1>5 DEF Range
  <2>2. QED
    BY <1>2, <1>3, <1>4, <2>1
<1>7. ASSUME IsInjective(q), o \notin Range(q) PROVE IsInjective(r)
  <2>1. \A i \in 1..Len(q) : q[i] # o
    BY <1>5, <1>7 DEF Range
  <2>2. \A i, j \in 1..Len(q) : q[i] = q[j] => i = j
    BY <1>5, <1>7 DEF IsInjective
  <2>3. ASSUME NEW i \in 1..Len(r), NEW j \in 1..Len(r), r[i] = r[j], i # n + 1, j # n + 1 PROVE i = j
    <3>1. down(i) = down(j)
      <4> HIDE DEF down
      <4> QED BY <1>3, <2>2, <2>3
    <3>2. QED
      BY <1>1, <2>3, <3>1
  <2>4. ASSUME NEW i \in 1..Len(r), i # n + 1 PROVE r[i] # o
    <3> HIDE DEF down
    <3> QED BY <1>3, <2>1, <2>4
  <2>5. QED
    BY <1>4, <1>5, <2>3, <2>4 DEF IsInjective
<1> QED
  BY <1>1, <1>6, <1>7 DEF r

\* Order is kept: what is at or before some object is an old one at or before
\* it, or the new one.
LEMMA AfterBefore ==
  ASSUME NEW T, NEW q \in Seq(T), NEW x \in Range(q), NEW o \in T
  PROVE  \A i, j \in 1..Len(After(q, x, o)) :
           i <= j /\ After(q, x, o)[j] # o =>
             \/ After(q, x, o)[i] = o
             \/ \E k, l \in 1..Len(q) : k <= l /\ q[k] = After(q, x, o)[i] /\ q[l] = After(q, x, o)[j]
<1> DEFINE r == After(q, x, o)
<1>1. PICK n \in 1..Len(q) :
           /\ r \in Seq(T)
           /\ Len(r) = Len(q) + 1 /\ Len(q) \in Nat
           /\ q[n] = x
           /\ \A i \in 1..(Len(q) + 1) : r[i] = IF i <= n THEN q[i] ELSE IF i = n + 1 THEN o ELSE q[i - 1]
  BY AfterIs
<1> HIDE DEF r
<1> SUFFICES ASSUME NEW i \in 1..Len(r), NEW j \in 1..Len(r), i <= j, r[j] # o
             PROVE  r[i] = o \/ \E k, l \in 1..Len(q) : k <= l /\ q[k] = r[i] /\ q[l] = r[j]
  BY DEF r
<1> DEFINE down(m) == IF m <= n THEN m ELSE m - 1
<1>3. \A m \in 1..(Len(q) + 1) : m # n + 1 => down(m) \in 1..Len(q) /\ r[m] = q[down(m)]
  BY <1>1
<1>4. r[n + 1] = o /\ n + 1 \in 1..(Len(q) + 1)
  BY <1>1
<1>5. j # n + 1
  BY <1>4
<1>6. CASE i = n + 1
  BY <1>4, <1>6
<1>7. CASE i # n + 1
  <2>1. down(i) <= down(j)
    BY <1>1, <1>5, <1>7
  <2> HIDE DEF down
  <2>2. QED
    BY <1>1, <1>3, <1>5, <1>7, <2>1
<1> QED
  BY <1>6, <1>7

\* The last one stays the last one.
LEMMA AfterLast ==
  ASSUME NEW T, NEW q \in Seq(T), NEW x \in Range(q), NEW o \in T, NEW y, y # q[Len(q)], y # o
  PROVE  y # After(q, x, o)[Len(After(q, x, o))]
<1>1. PICK n \in 1..Len(q) :
           /\ After(q, x, o) \in Seq(T)
           /\ Len(After(q, x, o)) = Len(q) + 1 /\ Len(q) \in Nat
           /\ q[n] = x
           /\ \A m \in 1..(Len(q) + 1) : After(q, x, o)[m] = IF m <= n THEN q[m] ELSE IF m = n + 1 THEN o ELSE q[m - 1]
  BY AfterIs
<1>2. Len(q) + 1 \in 1..(Len(q) + 1) /\ ~(Len(q) + 1 <= n) /\ (Len(q) + 1) - 1 = Len(q)
  BY <1>1
<1> QED
  BY <1>1, <1>2

\* What RemoveAt returns.
LEMMA RemoveIs ==
  ASSUME NEW T, NEW q \in Seq(T), NEW p \in 1..Len(q)
  PROVE  /\ RemoveAt(q, p) \in Seq(T)
         /\ Len(RemoveAt(q, p)) = Len(q) - 1 /\ Len(q) \in Nat
         /\ \A i \in 1..(Len(q) - 1) : RemoveAt(q, p)[i] = IF i < p THEN q[i] ELSE q[i + 1]
<1> DEFINE a == SubSeq(q, 1, p - 1)
           b == SubSeq(q, p + 1, Len(q))
<1>1. Len(q) \in Nat /\ p \in Nat /\ 1 <= p /\ p <= Len(q)
  OBVIOUS
<1>2. a \in Seq(T) /\ Len(a) = p - 1 /\ \A i \in 1..(p - 1) : a[i] = q[i]
  BY <1>1
<1>3. b \in Seq(T) /\ Len(b) = Len(q) - p /\ \A i \in 1..(Len(q) - p) : b[i] = q[p + i]
  BY <1>1
<1>4. RemoveAt(q, p) = a \o b
  BY DEF RemoveAt
<1> HIDE DEF a, b
<1> DEFINE r == a \o b
<1>5. /\ r \in Seq(T) /\ Len(r) = Len(a) + Len(b)
      /\ \A i \in 1..Len(a) : r[i] = a[i]
      /\ \A i \in 1..Len(b) : r[Len(a) + i] = b[i]
  <2>1. a \in Seq(T) /\ b \in Seq(T)
    BY <1>2, <1>3
  <2>2. QED
    BY <2>1
<1> HIDE DEF r
<1>6. ASSUME NEW i \in 1..(Len(q) - 1) PROVE r[i] = IF i < p THEN q[i] ELSE q[i + 1]
  <2>1. CASE i < p
    <3>1. i \in 1..(p - 1)
      BY <1>1, <2>1
    <3>2. QED
      BY <1>2, <1>5, <2>1, <3>1
  <2>2. CASE ~(i < p)
    <3>1. i - (p - 1) \in 1..Len(b) /\ Len(a) + (i - (p - 1)) = i /\ p + (i - (p - 1)) = i + 1
          /\ i - (p - 1) \in 1..(Len(q) - p)
      BY <1>1, <1>2, <1>3, <2>2
    <3>2. r[i] = b[i - (p - 1)]
      BY <1>5, <3>1
    <3>3. b[i - (p - 1)] = q[i + 1]
      BY <1>3, <3>1
    <3>4. QED
      BY <2>2, <3>2, <3>3
  <2>3. QED
    BY <2>1, <2>2
<1>7. Len(r) = Len(q) - 1
  BY <1>1, <1>2, <1>3, <1>5
<1> QED
  BY <1>1, <1>4, <1>5, <1>6, <1>7 DEF r

\* One member less, in the same order.
LEMMA RemoveHas ==
  ASSUME NEW T, NEW q \in Seq(T), NEW p \in 1..Len(q), IsInjective(q)
  PROVE  /\ RemoveAt(q, p) \in Seq(T)
         /\ Range(RemoveAt(q, p)) = Range(q) \ {q[p]}
         /\ IsInjective(RemoveAt(q, p))
         /\ \A i, j \in 1..Len(RemoveAt(q, p)) : i <= j =>
              \E k, l \in 1..Len(q) : k <= l /\ q[k] = RemoveAt(q, p)[i] /\ q[l] = RemoveAt(q, p)[j]
<1> DEFINE r == RemoveAt(q, p)
           down(i) == IF i < p THEN i ELSE i + 1
           up(k) == IF k < p THEN k ELSE k - 1
<1>1. /\ r \in Seq(T) /\ Len(r) = Len(q) - 1 /\ Len(q) \in Nat
      /\ \A i \in 1..(Len(q) - 1) : r[i] = IF i < p THEN q[i] ELSE q[i + 1]
  BY RemoveIs
<1> HIDE DEF r
<1>2. \A i \in 1..Len(r) : down(i) \in 1..Len(q) /\ r[i] = q[down(i)] /\ down(i) # p
  <2> SUFFICES ASSUME NEW i \in 1..Len(r) PROVE down(i) \in 1..Len(q) /\ r[i] = q[down(i)] /\ down(i) # p
    OBVIOUS
  <2>1. i \in 1..(Len(q) - 1)
    BY <1>1
  <2>2. CASE i < p
    BY <1>1, <2>1, <2>2
  <2>3. CASE ~(i < p)
    BY <1>1, <2>1, <2>3
  <2>4. QED
    BY <2>2, <2>3
<1>3. \A k \in 1..Len(q) : k # p => up(k) \in 1..Len(r) /\ r[up(k)] = q[k]
  <2> SUFFICES ASSUME NEW k \in 1..Len(q), k # p PROVE up(k) \in 1..Len(r) /\ r[up(k)] = q[k]
    OBVIOUS
  <2>1. CASE k < p
    <3>1. k \in 1..(Len(q) - 1)
      BY <1>1, <2>1
    <3>2. QED
      BY <1>1, <2>1, <3>1
  <2>2. CASE ~(k < p)
    <3>1. k - 1 \in 1..(Len(q) - 1) /\ ~(k - 1 < p) /\ (k - 1) + 1 = k
      BY <1>1, <2>2
    <3>2. QED
      BY <1>1, <2>2, <3>1
  <2>3. QED
    BY <2>1, <2>2
<1>4. DOMAIN r = 1..Len(r) /\ DOMAIN q = 1..Len(q)
  BY <1>1
<1>5. \A k, l \in 1..Len(q) : q[k] = q[l] => k = l
  BY <1>4 DEF IsInjective
<1>6. Range(r) = Range(q) \ {q[p]}
  <2> HIDE DEF down, up
  <2>1. Range(r) = {r[i] : i \in 1..Len(r)} /\ Range(q) = {q[i] : i \in 1..Len(q)}
    BY <1>4 DEF Range
  <2>2. ASSUME NEW i \in 1..Len(r) PROVE r[i] \in Range(q) /\ r[i] # q[p]
    BY <1>2, <1>5, <2>1
  <2>3. ASSUME NEW k \in 1..Len(q), q[k] # q[p] PROVE q[k] \in Range(r)
    <3>1. k # p
      BY <2>3
    <3>2. QED
      BY <1>3, <2>1, <3>1
  <2>4. QED
    BY <2>1, <2>2, <2>3
<1>7. IsInjective(r)
  <2>1. ASSUME NEW i \in 1..Len(r), NEW j \in 1..Len(r), r[i] = r[j] PROVE i = j
    <3>1. down(i) = down(j)
      <4> HIDE DEF down
      <4> QED BY <1>2, <1>5, <2>1
    <3>2. QED
      BY <1>1, <3>1
  <2>2. QED
    BY <1>4, <2>1 DEF IsInjective
<1>8. \A i, j \in 1..Len(r) : i <= j => \E k, l \in 1..Len(q) : k <= l /\ q[k] = r[i] /\ q[l] = r[j]
  <2> SUFFICES ASSUME NEW i \in 1..Len(r), NEW j \in 1..Len(r), i <= j
               PROVE  \E k, l \in 1..Len(q) : k <= l /\ q[k] = r[i] /\ q[l] = r[j]
    OBVIOUS
  <2>1. down(i) <= down(j)
    BY <1>1
  <2> HIDE DEF down
  <2>2. QED
    BY <1>2, <2>1
<1> QED
  BY <1>1, <1>6, <1>7, <1>8 DEF r

\* Reverse holds the same.
LEMMA ReverseIs ==
  ASSUME NEW T, NEW q \in Seq(T)
  PROVE  /\ Reverse(q) \in Seq(T)
         /\ Range(Reverse(q)) = Range(q)
         /\ IsInjective(q) => IsInjective(Reverse(q))
<1> DEFINE r == Reverse(q)
           n == Len(q)
<1>1. n \in Nat /\ r = [i \in 1..n |-> q[n - i + 1]]
  BY DEF Reverse
<1>2. \A i \in 1..n : n - i + 1 \in 1..n /\ n - (n - i + 1) + 1 = i
  BY <1>1
<1>3. \A i \in 1..n : q[i] \in T
  OBVIOUS
<1> HIDE DEF r, n
<1>4. \A i \in 1..n : r[i] = q[n - i + 1]
  BY <1>1
<1>5. \A i \in 1..n : q[i] = r[n - i + 1]
  BY <1>2, <1>4
<1>6. DOMAIN r = 1..n /\ DOMAIN q = 1..n
  BY <1>1 DEF n
<1>7. r \in Seq(T) /\ Len(r) = n
  <2>1. r \in [1..n -> T]
    BY <1>1, <1>2, <1>3
  <2>2. QED
    BY <1>1, <2>1
<1>8. Range(r) = Range(q)
  <2>1. Range(r) = {r[i] : i \in 1..n} /\ Range(q) = {q[i] : i \in 1..n}
    BY <1>6 DEF Range
  <2>2. QED
    BY <1>2, <1>4, <1>5, <2>1
<1>9. IsInjective(q) => IsInjective(r)
  <2> SUFFICES ASSUME IsInjective(q), NEW i \in 1..n, NEW j \in 1..n, r[i] = r[j] PROVE i = j
    BY <1>6 DEF IsInjective
  <2>1. n - i + 1 = n - j + 1
    BY <1>2, <1>4, <1>6 DEF IsInjective
  <2>2. QED
    BY <1>1, <2>1
<1> QED
  BY <1>7, <1>8, <1>9 DEF r

-----------------------------------------------------------------------------
(* MarkAll and CloseAll do one object after the other.                     *)
MarkedBy(m, os, n, f) ==
  f = [i \in 0..n |-> IF i = 0 THEN m ELSE MarkObject(f[i - 1], os[i])]
\* The recursion of MarkAll has a solution.
LEMMA MarkedExists ==
  ASSUME NEW m, NEW os
  PROVE  \A n \in Nat : \E f : MarkedBy(m, os, n, f)
<1> DEFINE N == {n \in Nat : \E f : MarkedBy(m, os, n, f)}
<1>1. 0 \in N
  <2> DEFINE g == [i \in 0..0 |-> m]
  <2>1. MarkedBy(m, os, 0, g)
    BY DEF MarkedBy
  <2>2. QED
    BY <2>1
<1>2. ASSUME NEW n \in Nat, n \in N PROVE n + 1 \in N
  <2>1. PICK f : MarkedBy(m, os, n, f)
    BY <1>2
  <2> DEFINE g == [i \in 0..(n + 1) |-> IF i <= n THEN f[i] ELSE MarkObject(f[i - 1], os[i])]
  <2>2. \A i \in 0..n : g[i] = f[i]
    OBVIOUS
  <2>3. \A i \in 0..n : f[i] = IF i = 0 THEN m ELSE MarkObject(f[i - 1], os[i])
    BY <2>1 DEF MarkedBy
  <2>4. \A i \in 0..(n + 1) : g[i] = IF i = 0 THEN m ELSE MarkObject(g[i - 1], os[i])
    BY <2>2, <2>3
  <2>5. MarkedBy(m, os, n + 1, g)
    BY <2>4 DEF MarkedBy
  <2>6. QED
    BY <2>5
<1>3. Nat \subseteq N
  BY <1>1, <1>2, NatInduct
<1> QED
  BY <1>3

\* S relates how many objects have been marked and the marks.
LEMMA MarkAllInduct ==
  ASSUME NEW m, NEW T, NEW os \in Seq(T), NEW S, <<0, m>> \in S,
         \A i \in 1..Len(os) : \A x : <<i - 1, x>> \in S => <<i, MarkObject(x, os[i])>> \in S
  PROVE  <<Len(os), MarkAll(m, os)>> \in S
<1>1. Len(os) \in Nat
  OBVIOUS
<1>2. \E f : MarkedBy(m, os, Len(os), f)
  BY <1>1, MarkedExists
<1>3. PICK f : MarkedBy(m, os, Len(os), f) /\ MarkAll(m, os) = f[Len(os)]
  BY <1>2 DEF MarkedBy, MarkAll
<1>4. \A i \in 0..Len(os) : f[i] = IF i = 0 THEN m ELSE MarkObject(f[i - 1], os[i])
  BY <1>3 DEF MarkedBy
<1> DEFINE N == {n \in Nat : n <= Len(os) => <<n, f[n]>> \in S}
<1>5. 0 \in N
  BY <1>1, <1>4
<1>6. ASSUME NEW n \in Nat, n \in N PROVE n + 1 \in N
  <2> SUFFICES ASSUME n + 1 <= Len(os) PROVE <<n + 1, f[n + 1]>> \in S
    OBVIOUS
  <2>1. n + 1 \in 1..Len(os) /\ n + 1 \in 0..Len(os) /\ n + 1 # 0 /\ (n + 1) - 1 = n /\ <<n, f[n]>> \in S
    BY <1>1, <1>6
  <2>2. f[n + 1] = MarkObject(f[n], os[n + 1])
    BY <1>4, <2>1
  <2>3. <<n + 1, MarkObject(f[n], os[n + 1])>> \in S
    BY <2>1
  <2>4. QED
    BY <2>2, <2>3
<1>7. Nat \subseteq N
  BY <1>5, <1>6, NatInduct
<1> QED
  BY <1>1, <1>3, <1>7

ClosedBy(m, us, n, f) ==
  f = [i \in 0..n |-> IF i = 0 THEN m ELSE Closed(f[i - 1], us[i])]
\* The recursion of CloseAll has a solution.
LEMMA ClosedExists ==
  ASSUME NEW m, NEW us
  PROVE  \A n \in Nat : \E f : ClosedBy(m, us, n, f)
<1> DEFINE N == {n \in Nat : \E f : ClosedBy(m, us, n, f)}
<1>1. 0 \in N
  <2> DEFINE g == [i \in 0..0 |-> m]
  <2>1. ClosedBy(m, us, 0, g)
    BY DEF ClosedBy
  <2>2. QED
    BY <2>1
<1>2. ASSUME NEW n \in Nat, n \in N PROVE n + 1 \in N
  <2>1. PICK f : ClosedBy(m, us, n, f)
    BY <1>2
  <2> DEFINE g == [i \in 0..(n + 1) |-> IF i <= n THEN f[i] ELSE Closed(f[i - 1], us[i])]
  <2>2. \A i \in 0..n : g[i] = f[i]
    OBVIOUS
  <2>3. \A i \in 0..n : f[i] = IF i = 0 THEN m ELSE Closed(f[i - 1], us[i])
    BY <2>1 DEF ClosedBy
  <2>4. \A i \in 0..(n + 1) : g[i] = IF i = 0 THEN m ELSE Closed(g[i - 1], us[i])
    BY <2>2, <2>3
  <2>5. ClosedBy(m, us, n + 1, g)
    BY <2>4 DEF ClosedBy
  <2>6. QED
    BY <2>5
<1>3. Nat \subseteq N
  BY <1>1, <1>2, NatInduct
<1> QED
  BY <1>3

\* The same for CloseAll.
LEMMA CloseAllInduct ==
  ASSUME NEW m, NEW T, NEW us \in Seq(T), NEW S, <<0, m>> \in S,
         \A i \in 1..Len(us) : \A x : <<i - 1, x>> \in S => <<i, Closed(x, us[i])>> \in S
  PROVE  <<Len(us), CloseAll(m, us)>> \in S
<1>1. Len(us) \in Nat
  OBVIOUS
<1>2. \E f : ClosedBy(m, us, Len(us), f)
  BY <1>1, ClosedExists
<1>3. PICK f : ClosedBy(m, us, Len(us), f) /\ CloseAll(m, us) = f[Len(us)]
  BY <1>2 DEF ClosedBy, CloseAll
<1>4. \A i \in 0..Len(us) : f[i] = IF i = 0 THEN m ELSE Closed(f[i - 1], us[i])
  BY <1>3 DEF ClosedBy
<1> DEFINE N == {n \in Nat : n <= Len(us) => <<n, f[n]>> \in S}
<1>5. 0 \in N
  BY <1>1, <1>4
<1>6. ASSUME NEW n \in Nat, n \in N PROVE n + 1 \in N
  <2> SUFFICES ASSUME n + 1 <= Len(us) PROVE <<n + 1, f[n + 1]>> \in S
    OBVIOUS
  <2>1. n + 1 \in 1..Len(us) /\ n + 1 \in 0..Len(us) /\ n + 1 # 0 /\ (n + 1) - 1 = n /\ <<n, f[n]>> \in S
    BY <1>1, <1>6
  <2>2. f[n + 1] = Closed(f[n], us[n + 1])
    BY <1>4, <2>1
  <2>3. <<n + 1, Closed(f[n], us[n + 1])>> \in S
    BY <2>1
  <2>4. QED
    BY <2>2, <2>3
<1>7. Nat \subseteq N
  BY <1>5, <1>6, NatInduct
<1> QED
  BY <1>1, <1>3, <1>7

-----------------------------------------------------------------------------
(* The inductive invariant.                                                *)
Obj0    == Obj \cup {0}
Colours == Whites \cup {"gray", "black", "free"}
States  == {"pause", "propagate", "sweepstring", "sweep", "finalize"}

TypeOK ==
  /\ shape \in Shapes
  /\ colour \in [Obj -> Colours]
  /\ ref \in [Obj -> [key : Obj0, val : Obj0, meta : Obj0]]
  /\ DOMAIN at = Obj
  /\ \A o \in Obj : at[o] = <<>> \/ \E th \in OfKind("thread") : \E l \in Slots(th) : at[o] = <<th, l>>
  /\ DOMAIN stack = OfKind("thread")
  /\ \A th \in OfKind("thread") : stack[th] \in [Slots(th) -> Obj0]
  /\ running \in OfKind("thread") /\ arg \in Obj0
  /\ currentwhite \in Whites /\ gcstate \in States /\ stage \in 0..4
  /\ full \in {"no", "sweep", "mark"}
  /\ gray \in Seq(Obj) /\ grayagain \in Seq(Obj) /\ weak \in Seq(Obj)
  /\ rootgc \in Seq(Obj) /\ tmudata \in Seq(Obj)
  /\ sweepgc \in Obj0 /\ sweepstrgc \in Nat
  /\ finalized \subseteq Obj /\ called \subseteq Obj

\* Which objects a field may hold: only Lua closures refer to upvalues, and what
\* is free holds nothing.
Plain == Obj0 \ OfKind("upval")
FieldsFit ==
  \A o \in Obj :
    /\ ref[o].meta \in OfKind("table") \cup {0} /\ ref[o].key \in Plain
    /\ ~Is(o, "lclosure") => ref[o].val \in Plain
    /\ Is(o, "lclosure") /\ colour[o] # "free" => Is(ref[o].val, "upval") /\ ref[o].val # 0
    /\ ~Is(o, "table") => ref[o].key = 0
    /\ ~Is(o, "table") /\ ~Is(o, "udata") => ref[o].meta = 0
    /\ Is(o, "udata") \/ Is(o, "thread") \/ Is(o, "string") => ref[o].val = 0
    /\ Open(o) \/ colour[o] = "free" => ref[o] = Nothing
SlotsFit ==
  /\ \A th \in OfKind("thread") : \A s \in Slots(th) :
       stack[th][s] \in Plain /\ (colour[th] = "free" => stack[th][s] = 0)
  /\ arg # 0 => Is(arg, "udata")

\* An open upvalue leads into a thread that is not free, no other one to the
\* same slot.
OpenFit ==
  /\ \A u \in Obj : Open(u) => /\ Is(u, "upval") /\ colour[u] \notin {"free", "black"}
                               /\ colour[at[u][1]] # "free"
  /\ \A u, v \in Obj : Open(u) /\ at[u] = at[v] => u = v

\* Where the objects are linked.
Linked ==
  /\ IsInjective(rootgc) /\ IsInjective(tmudata)
  /\ \A o \in Range(rootgc) : /\ colour[o] # "free" /\ ~Is(o, "string") /\ ~Open(o)
                              /\ o \notin Range(tmudata)
  /\ \A o \in Range(tmudata) : colour[o] # "free" /\ Is(o, "udata")
  /\ \A o \in Obj : colour[o] # "free" =>
       Is(o, "string") \/ Open(o) \/ o \in Range(rootgc) \/ o \in Range(tmudata)

\* Threads are never black, userdata and closed upvalues never gray.
Coloured ==
  \A o \in Obj : /\ Is(o, "thread") => colour[o] # "black"
                 /\ Is(o, "udata") => colour[o] # "gray"
                 /\ Is(o, "upval") /\ colour[o] = "gray" => Open(o)

\* What has been swept: all, but while sweeping.
IsClean(o) == colour[o] \in {"free", currentwhite}
Before(q, x, o) == \E i, j \in 1..Len(q) : i <= j /\ q[i] = o /\ q[j] = x
SweptThread(th) == \A u \in Obj : Open(u) /\ at[u][1] = th => IsClean(u)
Phases ==
  /\ gcstate \notin {"sweepstring", "sweep"} => \A o \in Obj : ~IsDead(o)
  /\ gcstate \in {"pause", "finalize"} => \A o \in Obj : o \in Range(tmudata) \/ IsClean(o)
  /\ gcstate = "pause" => tmudata = <<>>
  /\ \A o \in Range(tmudata) : ~IsDead(o)
  /\ stage # 0 => gcstate = "propagate" /\ arg = 0
  /\ arg # 0 => gcstate = "finalize"
SweepString ==
  gcstate = "sweepstring" =>
    /\ sweepgc = 0
    /\ Strings # <<>> => sweepstrgc < Len(Strings)
    /\ \A i \in 1..Len(Strings) : i <= sweepstrgc => IsClean(Strings[i])
Sweep ==
  gcstate = "sweep" =>
    /\ \A o \in Obj : Is(o, "string") => IsClean(o)
    /\ sweepgc # 0 => sweepgc \in Range(rootgc) /\ sweepgc # rootgc[Len(rootgc)]
    /\ \A o \in Obj : Before(rootgc, sweepgc, o) => IsClean(o) /\ (Is(o, "thread") => SweptThread(o))

\* Nothing that lives refers to what is free or dead.
Live(c, w, r)  == r = 0 \/ c[r] \notin {"free", Other(w)}
Living(r)      == Live(colour, currentwhite, r)
LivingRefs ==
  /\ \A o \in Obj : Living(o) =>
       /\ Living(ref[o].meta)
       /\ ~Is(o, "upval") /\ ~(Is(o, "table") /\ ref[o].val = 0) => Living(ref[o].key) /\ Living(ref[o].val)
       /\ Is(o, "upval") => Living(ValueOf(o))
       /\ Is(o, "thread") => \A s \in Slots(o) : Living(stack[o][s])
  /\ Living(Main) /\ Living(Globals) /\ Living(running) /\ Living(arg)
  /\ \A o \in Range(tmudata) : Living(o)

\* Marking: the lists, and what black objects refer to (userdata that wait for
\* their finalizers may still be black from an earlier collection).
NW(c, r) == r = 0 \/ c[r] \notin Whites
FieldsMarked(o) ==
  /\ NW(colour, ref[o].key) /\ NW(colour, ref[o].val) /\ NW(colour, ref[o].meta)
  /\ ref[o].key # 0 => colour[ref[o].key] # "free"
GrayObjects(c) == {o \in Obj : shape.kinds[o] \in Gathered /\ c[o] = "gray"}
Marking ==
  /\ IsInjective(gray) /\ IsInjective(grayagain) /\ IsInjective(weak)
  /\ Range(gray) \cap Range(grayagain) = {} /\ Range(gray) \cap Range(weak) = {}
  /\ Range(grayagain) \cap Range(weak) = {}
  /\ Range(gray) \cup Range(grayagain) \cup Range(weak) = GrayObjects(colour)
  /\ \A o \in Range(weak) : Is(o, "table")
  /\ \A o \in Range(grayagain) : Is(o, "table") \/ Is(o, "thread")
  /\ NW(colour, Main) /\ NW(colour, Globals)
  /\ \A o \in Obj : colour[o] = "black" => o \in Range(tmudata) \/ FieldsMarked(o)
StrongMarked(t) ==
  /\ NW(colour, ref[t].meta)
  /\ "v" \notin Mode(t) => NW(colour, ref[t].val)
  /\ "k" \notin Mode(t) /\ ref[t].val # 0 => NW(colour, ref[t].key)
Atomic ==
  /\ stage >= 1 => \A u \in Obj : Open(u) /\ colour[u] = "gray" => NW(colour, ValueOf(u))
  /\ stage >= 2 => NW(colour, running) /\ \A t \in Range(weak) : StrongMarked(t)
  /\ stage >= 3 => \A o \in Range(grayagain) :
                     Is(o, "thread") /\ \A s \in Slots(o) : NW(colour, stack[o][s])
  /\ stage = 4 => \A o \in Range(tmudata) : NW(colour, o) /\ FieldsMarked(o)
Marked == gcstate = "propagate" => Marking /\ Atomic

FinalizedOK == /\ called \subseteq finalized /\ Range(tmudata) \subseteq finalized
               /\ called \cap Range(tmudata) = {}

IInv == /\ TypeOK /\ FieldsFit /\ SlotsFit /\ OpenFit /\ Linked /\ Coloured
        /\ Phases /\ SweepString /\ Sweep
        /\ LivingRefs /\ Marked /\ FinalizedOK

-----------------------------------------------------------------------------
(* Shapes and references.                                                  *)
LEMMA ShapeIs ==
  ASSUME TypeOK
  PROVE  /\ Obj \subseteq Nat \ {0} /\ Obj = DOMAIN shape.kinds /\ 0 \notin Obj
         /\ Main \in Obj /\ Globals \in Obj /\ Main # Globals
         /\ Is(Main, "thread") /\ Is(Globals, "table")
         /\ \A o \in Obj : shape.kinds[o] \in Kinds /\ shape.slots[o] \in Nat
                           /\ shape.mode[o] \subseteq {"k", "v"}
<1>1. /\ shape.kinds \in Seq(Kinds) /\ Len(shape.kinds) >= 2
      /\ shape.kinds[1] = "thread" /\ shape.kinds[2] = "table"
      /\ shape.slots \in [1..Len(shape.kinds) -> Nat]
      /\ shape.mode \in [1..Len(shape.kinds) -> SUBSET {"k", "v"}]
  BY ShapesAssumption DEF TypeOK
<1>2. Len(shape.kinds) \in Nat /\ DOMAIN shape.kinds = 1..Len(shape.kinds)
  BY <1>1
<1>3. \A o \in 1..Len(shape.kinds) : shape.kinds[o] \in Kinds
  BY <1>1
<1>4. 1 \in 1..Len(shape.kinds) /\ 2 \in 1..Len(shape.kinds)
  BY <1>1, <1>2
<1> QED
  BY <1>1, <1>2, <1>3, <1>4 DEF Obj, Main, Globals, Is

\* The fields of objects.
LEMMA RefIs ==
  ASSUME TypeOK, NEW o \in Obj
  PROVE  /\ ref[o] \in [key : Obj0, val : Obj0, meta : Obj0]
         /\ ref[o].key \in Obj0 /\ ref[o].val \in Obj0 /\ ref[o].meta \in Obj0
         /\ colour[o] \in Colours
BY DEF TypeOK

\* The value of an upvalue is no upvalue.
LEMMA ValueIs ==
  ASSUME TypeOK, FieldsFit, SlotsFit, NEW u \in Obj, Is(u, "upval")
  PROVE  ValueOf(u) \in Plain /\ ValueOf(u) \in Obj0
<1>1. CASE Open(u)
  <2>1. PICK th \in OfKind("thread") : \E l \in Slots(th) : at[u] = <<th, l>>
    BY <1>1 DEF TypeOK, Open
  <2>2. PICK l \in Slots(th) : at[u] = <<th, l>>
    BY <2>1
  <2>3. at[u][1] = th /\ at[u][2] = l
    BY <2>2
  <2>4. stack[th][l] \in Plain
    BY DEF SlotsFit
  <2>5. QED
    BY <1>1, <2>3, <2>4 DEF ValueOf, Plain
<1>2. CASE ~Open(u)
  <2>1. ref[u].val \in Plain
    BY DEF FieldsFit, Is
  <2>2. QED
    BY <1>2, <2>1 DEF ValueOf, Plain
<1> QED
  BY <1>1, <1>2

-----------------------------------------------------------------------------
(* What marking does.  x has grown from m: white objects have become gray, *)
(* on the list if they have references of their own, or black, and then    *)
(* what they refer to is not white.  E are the objects for which this is   *)
(* still to be done; upvalues of B are closed now and turn black.          *)
MarksType == [colour : [Obj -> Colours], gray : Seq(Obj)]
Blackened(c, o, B) ==
  \/ Is(o, "udata") /\ NW(c, ref[o].meta)
  \/ Is(o, "upval") /\ (o \in B \/ ~Open(o)) /\ NW(c, ValueOf(o))
Grayed(c, o) == ~Is(o, "udata") /\ (Is(o, "upval") => Open(o) /\ NW(c, ValueOf(o)))
Grew(m, x, B) ==
  \A o \in Obj : \/ x.colour[o] = m.colour[o]
                 \/ m.colour[o] \in Whites /\ x.colour[o] \in {"gray", "black"}
                 \/ o \in B /\ m.colour[o] = "gray" /\ x.colour[o] = "black"
GrewBlack(m, x, E, B) ==
  \A o \in Obj \ E : m.colour[o] # "black" /\ x.colour[o] = "black" => Blackened(x.colour, o, B)
GrewGray(m, x, E) ==
  \A o \in Obj \ E : m.colour[o] \in Whites /\ x.colour[o] = "gray" => Grayed(x.colour, o)
NewGray(m, x) == {o \in Obj : shape.kinds[o] \in Gathered /\ m.colour[o] \in Whites /\ x.colour[o] = "gray"}
GrewList(m, x) == IsInjective(x.gray) /\ Range(x.gray) = Range(m.gray) \cup NewGray(m, x)
Grown(m, x, E, B) ==
  /\ x \in MarksType /\ m \in MarksType /\ B \subseteq OfKind("upval")
  /\ Grew(m, x, B) /\ GrewBlack(m, x, E, B) /\ GrewGray(m, x, E) /\ GrewList(m, x)
\* What marking starts from.
MarksBase(m) == /\ m \in MarksType /\ IsInjective(m.gray)
                /\ \A o \in Range(m.gray) : m.colour[o] \notin Whites

\* Nothing has been marked yet.
LEMMA GrownStart ==
  ASSUME NEW m, MarksBase(m), NEW B, B \subseteq OfKind("upval")
  PROVE  Grown(m, m, {}, B)
<1>1. Whites = {"white0", "white1"}
  BY DEF Whites
<1>2. NewGray(m, m) = {}
  BY <1>1 DEF NewGray
<1>3. GrewList(m, m)
  BY <1>2 DEF GrewList, MarksBase
<1>4. Grew(m, m, B) /\ GrewBlack(m, m, {}, B) /\ GrewGray(m, m, {})
  BY <1>1 DEF Grew, GrewBlack, GrewGray
<1> QED
  BY <1>3, <1>4 DEF Grown, MarksBase

\* What is not white stays so.
LEMMA GrownKeeps ==
  ASSUME NEW m, NEW x, NEW E, NEW B, Grown(m, x, E, B), NEW r \in Obj0, NW(m.colour, r)
  PROVE  NW(x.colour, r)
BY DEF Grown, Grew, NW, Obj0, Whites

\* An object that has no references, or whose own ones wait on the list.
LEMMA ShadeGrown ==
  ASSUME TypeOK, FieldsFit, SlotsFit, NEW m, NEW x, NEW E, NEW B, Grown(m, x, E, B), NEW o \in Obj0,
         o # 0 => ~Is(o, "udata") /\ ~Is(o, "upval"), MarksBase(m)
  PROVE  /\ Grown(m, Shade(x, o), E, B) /\ NW(Shade(x, o).colour, o)
         /\ \A r \in Obj0 : NW(x.colour, r) => NW(Shade(x, o).colour, r)
<1>1. CASE o = 0 \/ x.colour[o] \notin Whites
  <2>1. Shade(x, o) = x
    BY <1>1 DEF Shade
  <2>2. QED
    BY <1>1, <2>1 DEF NW
<1>2. CASE o # 0 /\ x.colour[o] \in Whites
  <2> DEFINE y == Shade(x, o)
             g == IF shape.kinds[o] \in Gathered THEN <<o>> \o x.gray ELSE x.gray
  <2>0. Whites = {"white0", "white1"}
    BY DEF Whites
  <2>1. o \in Obj /\ x.colour \in [Obj -> Colours] /\ x.gray \in Seq(Obj)
        /\ m.colour \in [Obj -> Colours] /\ m.gray \in Seq(Obj)
    BY <1>2 DEF Obj0, Grown, MarksType
  <2>2. y.colour = [x.colour EXCEPT ![o] = "gray"] /\ y.gray = g
    BY <1>2 DEF Shade
  <2>3. m.colour[o] \in Whites
    BY <1>2, <2>0, <2>1 DEF Grown, Grew
  <2>4. g \in Seq(Obj)
    BY <2>1, ConsIs
  <2>5. y \in MarksType
    BY <1>2, <2>1, <2>4 DEF Shade, MarksType, Colours
  <2> HIDE DEF y, g
  <2>6. y.colour[o] = "gray" /\ \A p \in Obj : p # o => y.colour[p] = x.colour[p]
    BY <2>1, <2>2
  <2>7. Grew(m, y, B)
    BY <2>3, <2>6 DEF Grown, Grew
  <2>8. \A r \in Obj0 : NW(x.colour, r) => NW(y.colour, r)
    BY <2>0, <2>6 DEF NW, Obj0
  <2>9. GrewBlack(m, y, E, B)
    <3> SUFFICES ASSUME NEW p \in Obj \ E, m.colour[p] # "black", y.colour[p] = "black"
                 PROVE  Blackened(y.colour, p, B)
      BY DEF GrewBlack
    <3>1. x.colour[p] = "black"
      BY <2>6
    <3>2. Blackened(x.colour, p, B)
      BY <3>1 DEF Grown, GrewBlack
    <3>3. QED
      BY <2>8, <3>2, RefIs, ValueIs DEF Blackened
  <2>10. GrewGray(m, y, E)
    <3> SUFFICES ASSUME NEW p \in Obj \ E, m.colour[p] \in Whites, y.colour[p] = "gray"
                 PROVE  Grayed(y.colour, p)
      BY DEF GrewGray
    <3>1. CASE p = o
      BY <1>2, <3>1 DEF Grayed
    <3>2. CASE p # o
      <4>1. Grayed(x.colour, p)
        BY <2>6, <3>2 DEF Grown, GrewGray
      <4>2. QED
        BY <2>8, <4>1, ValueIs DEF Grayed
    <3>3. QED
      BY <3>1, <3>2
  <2>11. o \notin Range(x.gray)
    <3>1. Range(x.gray) = Range(m.gray) \cup NewGray(m, x)
      BY DEF Grown, GrewList
    <3>2. o \notin Range(m.gray)
      BY <2>3 DEF MarksBase
    <3>3. o \notin NewGray(m, x)
      BY <1>2, <2>0 DEF NewGray
    <3>4. QED
      BY <3>1, <3>2, <3>3
  <2>12. NewGray(m, y) = NewGray(m, x) \cup (IF shape.kinds[o] \in Gathered THEN {o} ELSE {})
    BY <1>2, <2>0, <2>1, <2>3, <2>6 DEF NewGray
  <2>13. IsInjective(g) /\ Range(g) = Range(x.gray) \cup (IF shape.kinds[o] \in Gathered THEN {o} ELSE {})
    <3>1. IsInjective(x.gray)
      BY DEF Grown, GrewList
    <3>2. CASE shape.kinds[o] \in Gathered
      <4>1. g = <<o>> \o x.gray
        BY <3>2 DEF g
      <4>2. Range(g) = {o} \cup Range(x.gray) /\ IsInjective(g)
        BY <2>1, <2>11, <3>1, <4>1, ConsIs
      <4>3. QED
        BY <3>2, <4>2
    <3>3. CASE shape.kinds[o] \notin Gathered
      BY <3>1, <3>3 DEF g
    <3>4. QED
      BY <3>2, <3>3
  <2>14. GrewList(m, y)
    BY <2>2, <2>12, <2>13 DEF Grown, GrewList
  <2>15. QED
    BY <1>2, <2>0, <2>5, <2>6, <2>7, <2>8, <2>9, <2>10, <2>14 DEF Grown, y, NW
<1> QED
  BY <1>1, <1>2

\* Userdata and upvalues: black at once, what they refer to is left to do.
LEMMA BlackenGrown ==
  ASSUME TypeOK, FieldsFit, SlotsFit, NEW m, NEW x, NEW E, NEW B, Grown(m, x, E, B), NEW o \in Obj,
         Is(o, "udata") \/ Is(o, "upval"),
         x.colour[o] \in Whites \/ (o \in B /\ x.colour[o] = "gray")
  PROVE  /\ Grown(m, Blacken(x, o), E \cup {o}, B)
         /\ Blacken(x, o).colour[o] = "black"
         /\ \A p \in Obj : p # o => Blacken(x, o).colour[p] = x.colour[p]
<1> DEFINE y == Blacken(x, o)
<1>0. Whites = {"white0", "white1"}
  BY DEF Whites
<1>1. x.colour \in [Obj -> Colours] /\ x.gray \in Seq(Obj) /\ x \in MarksType
      /\ m.colour \in [Obj -> Colours] /\ m.gray \in Seq(Obj)
  BY DEF Grown, MarksType
<1>2. y.colour = [x.colour EXCEPT ![o] = "black"] /\ y.gray = x.gray /\ y \in MarksType
  BY <1>1 DEF Blacken, MarksType, Colours
<1> HIDE DEF y
<1>3. y.colour[o] = "black" /\ \A p \in Obj : p # o => y.colour[p] = x.colour[p]
  BY <1>1, <1>2
<1>4. Grew(m, y, B)
  BY <1>0, <1>1, <1>3 DEF Grown, Grew
<1>5. \A r \in Obj0 : NW(x.colour, r) => NW(y.colour, r)
  BY <1>0, <1>3 DEF NW, Obj0
<1>6. GrewBlack(m, y, E \cup {o}, B)
  <2> SUFFICES ASSUME NEW p \in Obj \ (E \cup {o}), m.colour[p] # "black", y.colour[p] = "black"
               PROVE  Blackened(y.colour, p, B)
    BY DEF GrewBlack
  <2>1. x.colour[p] = "black"
    BY <1>3
  <2>2. Blackened(x.colour, p, B)
    BY <2>1 DEF Grown, GrewBlack
  <2>3. QED
    BY <1>5, <2>2, RefIs, ValueIs DEF Blackened
<1>7. GrewGray(m, y, E \cup {o})
  <2> SUFFICES ASSUME NEW p \in Obj \ (E \cup {o}), m.colour[p] \in Whites, y.colour[p] = "gray"
               PROVE  Grayed(y.colour, p)
    BY DEF GrewGray
  <2>1. Grayed(x.colour, p)
    BY <1>3 DEF Grown, GrewGray
  <2>2. QED
    BY <1>5, <2>1, ValueIs DEF Grayed
<1>8. shape.kinds[o] \notin Gathered
  BY DEF Is, Gathered
<1>9. NewGray(m, y) = NewGray(m, x)
  BY <1>3, <1>8 DEF NewGray
<1>10. GrewList(m, y)
  BY <1>2, <1>9 DEF Grown, GrewList
<1> QED
  BY <1>2, <1>3, <1>4, <1>6, <1>7, <1>10 DEF Grown, y

\* All but upvalues.
LEMMA MarkValueGrown ==
  ASSUME TypeOK, FieldsFit, SlotsFit, NEW m, MarksBase(m), NEW x, NEW E, NEW B, Grown(m, x, E, B),
         NEW o \in Plain
  PROVE  /\ Grown(m, MarkValue(x, o), E, B) /\ NW(MarkValue(x, o).colour, o)
         /\ \A r \in Obj0 : NW(x.colour, r) => NW(MarkValue(x, o).colour, r)
<1>0. o \in Obj0 /\ (o # 0 => o \in Obj /\ ~Is(o, "upval"))
  BY DEF Plain, Obj0, OfKind
<1>1. CASE ~(o # 0 /\ Is(o, "udata") /\ x.colour[o] \in Whites)
  <2>1. MarkValue(x, o) = Shade(x, o)
    BY <1>1 DEF MarkValue
  <2>2. CASE o # 0 => ~Is(o, "udata")
    <3>1. o # 0 => ~Is(o, "udata") /\ ~Is(o, "upval")
      BY <1>0, <2>2
    <3>2. QED
      BY <1>0, <2>1, <3>1, ShadeGrown
  <2>3. CASE o # 0 /\ Is(o, "udata") /\ x.colour[o] \notin Whites
    <3>1. Shade(x, o) = x
      BY <2>3 DEF Shade
    <3>2. QED
      BY <2>1, <2>3, <3>1 DEF NW
  <2>4. QED
    BY <1>1, <2>2, <2>3
<1>2. CASE o # 0 /\ Is(o, "udata") /\ x.colour[o] \in Whites
  <2> DEFINE y == Blacken(x, o)
             mt == ref[o].meta
             z == Shade(y, mt)
  <2>0. Whites = {"white0", "white1"} /\ o \in Obj
    BY <1>0, <1>2 DEF Whites
  <2>1. /\ Grown(m, y, E \cup {o}, B) /\ y.colour[o] = "black"
        /\ \A p \in Obj : p # o => y.colour[p] = x.colour[p]
    BY <1>2, <2>0, BlackenGrown
  <2>2. mt \in Obj0 /\ (mt # 0 => ~Is(mt, "udata") /\ ~Is(mt, "upval"))
    BY <2>0 DEF FieldsFit, OfKind, Is, Obj0
  <2>3. /\ Grown(m, z, E \cup {o}, B) /\ NW(z.colour, mt)
        /\ \A r \in Obj0 : NW(y.colour, r) => NW(z.colour, r)
    BY <2>1, <2>2, ShadeGrown
  <2>4. MarkValue(x, o) = z
    BY <1>2 DEF MarkValue
  <2> HIDE DEF z, y
  <2>5. NW(z.colour, o)
    BY <2>0, <2>1, <2>3 DEF NW, Obj0
  <2>6. z.colour[o] = "black"
    <3>1. z.colour[o] = "gray" \/ z.colour[o] = y.colour[o]
      BY <2>0, <2>1, <2>2 DEF z, Shade, Grown, MarksType, Obj0
    <3>2. CASE z.colour[o] = "gray"
      <4>1. mt # o
        BY <1>2, <2>2
      <4>2. z.colour[o] = y.colour[o]
        BY <2>0, <2>1, <2>2, <4>1 DEF z, Shade, Grown, MarksType, Obj0
      <4>3. QED
        BY <2>1, <4>2
    <3>3. QED
      BY <2>1, <3>1, <3>2
  <2>7. GrewBlack(m, z, E, B)
    BY <1>2, <2>3 DEF Grown, GrewBlack, Blackened
  <2>8. GrewGray(m, z, E)
    BY <2>0, <2>3, <2>6 DEF Grown, GrewGray
  <2>9. \A r \in Obj0 : NW(x.colour, r) => NW(y.colour, r)
    BY <2>0, <2>1 DEF NW, Obj0
  <2>10. Grown(m, z, E, B)
    BY <2>3, <2>7, <2>8 DEF Grown
  <2>11. QED
    BY <2>3, <2>4, <2>5, <2>9, <2>10
<1> QED
  BY <1>1, <1>2

\* An open upvalue turns gray, its value is left to do.
LEMMA ShadeUpvalGrown ==
  ASSUME TypeOK, FieldsFit, SlotsFit, NEW m, NEW x, NEW E, NEW B, Grown(m, x, E, B), NEW o \in Obj,
         Is(o, "upval"), x.colour[o] \in Whites
  PROVE  /\ Grown(m, Shade(x, o), E \cup {o}, B)
         /\ Shade(x, o).colour[o] = "gray"
         /\ \A p \in Obj : p # o => Shade(x, o).colour[p] = x.colour[p]
<1> DEFINE y == Shade(x, o)
<1>0. Whites = {"white0", "white1"}
  BY DEF Whites
<1>1. x.colour \in [Obj -> Colours] /\ x.gray \in Seq(Obj) /\ x \in MarksType
      /\ m.colour \in [Obj -> Colours] /\ m.gray \in Seq(Obj)
  BY DEF Grown, MarksType
<1>8. shape.kinds[o] \notin Gathered /\ o # 0
  BY ShapeIs DEF Is, Gathered
<1>2. y.colour = [x.colour EXCEPT ![o] = "gray"] /\ y.gray = x.gray /\ y \in MarksType
  BY <1>1, <1>8 DEF Shade, MarksType, Colours
<1> HIDE DEF y
<1>3. y.colour[o] = "gray" /\ \A p \in Obj : p # o => y.colour[p] = x.colour[p]
  BY <1>1, <1>2
<1>4. Grew(m, y, B)
  BY <1>0, <1>1, <1>3 DEF Grown, Grew
<1>5. \A r \in Obj0 : NW(x.colour, r) => NW(y.colour, r)
  BY <1>0, <1>3 DEF NW, Obj0
<1>6. GrewBlack(m, y, E \cup {o}, B)
  <2> SUFFICES ASSUME NEW p \in Obj \ (E \cup {o}), m.colour[p] # "black", y.colour[p] = "black"
               PROVE  Blackened(y.colour, p, B)
    BY DEF GrewBlack
  <2>1. x.colour[p] = "black"
    BY <1>3
  <2>2. Blackened(x.colour, p, B)
    BY <2>1 DEF Grown, GrewBlack
  <2>3. QED
    BY <1>5, <2>2, RefIs, ValueIs DEF Blackened
<1>7. GrewGray(m, y, E \cup {o})
  <2> SUFFICES ASSUME NEW p \in Obj \ (E \cup {o}), m.colour[p] \in Whites, y.colour[p] = "gray"
               PROVE  Grayed(y.colour, p)
    BY DEF GrewGray
  <2>1. Grayed(x.colour, p)
    BY <1>3 DEF Grown, GrewGray
  <2>2. QED
    BY <1>5, <2>1, ValueIs DEF Grayed
<1>9. NewGray(m, y) = NewGray(m, x)
  BY <1>3, <1>8 DEF NewGray
<1>10. GrewList(m, y)
  BY <1>2, <1>9 DEF Grown, GrewList
<1> QED
  BY <1>2, <1>3, <1>4, <1>6, <1>7, <1>10 DEF Grown, y

\* markobject: the object is not white afterwards, and what was not white has
\* stayed so.
LEMMA MarkObjectGrown ==
  ASSUME TypeOK, FieldsFit, SlotsFit, NEW m, MarksBase(m), NEW x, NEW B, Grown(m, x, {}, B),
         NEW o \in Obj0
  PROVE  /\ Grown(m, MarkObject(x, o), {}, B) /\ NW(MarkObject(x, o).colour, o)
         /\ \A r \in Obj0 : NW(x.colour, r) => NW(MarkObject(x, o).colour, r)
<1>1. CASE o \in Plain
  <2>1. MarkObject(x, o) = MarkValue(x, o)
    BY <1>1 DEF MarkObject, Plain, OfKind, Obj0
  <2>2. QED
    BY <1>1, <2>1, MarkValueGrown
<1>2. CASE o \notin Plain
  <2>0. o \in Obj /\ o # 0 /\ Is(o, "upval") /\ Whites = {"white0", "white1"}
    BY <1>2, ShapeIs DEF Plain, OfKind, Obj0, Whites
  <2>1. CASE x.colour[o] \notin Whites
    <3>1. MarkObject(x, o) = x
      BY <2>0, <2>1 DEF MarkObject, MarkValue, Shade, Is
    <3>2. QED
      BY <2>1, <3>1 DEF NW
  <2>2. CASE x.colour[o] \in Whites
    <3> DEFINE y == IF Open(o) THEN Shade(x, o) ELSE Blacken(x, o)
               v == ValueOf(o)
               z == MarkValue(y, v)
    <3>1. MarkObject(x, o) = z
      BY <2>0, <2>2 DEF MarkObject
    <3>2. v \in Plain /\ v \in Obj0
      BY <2>0, ValueIs
    <3>3. /\ Grown(m, y, {o}, B)
          /\ y.colour[o] = IF Open(o) THEN "gray" ELSE "black"
          /\ \A p \in Obj : p # o => y.colour[p] = x.colour[p]
      <4>1. {} \cup {o} = {o}
        OBVIOUS
      <4>2. CASE Open(o)
        BY <2>0, <2>2, <4>1, <4>2, ShadeUpvalGrown
      <4>3. CASE ~Open(o)
        BY <2>0, <2>2, <4>1, <4>3, BlackenGrown
      <4>4. QED
        BY <4>2, <4>3
    <3> HIDE DEF y, v
    <3>4. /\ Grown(m, z, {o}, B) /\ NW(z.colour, v)
          /\ \A r \in Obj0 : NW(y.colour, r) => NW(z.colour, r)
      BY <3>2, <3>3, MarkValueGrown
    <3>5. v # o
      BY <2>0, <3>2 DEF Plain, OfKind
    <3>6. z.colour[o] = y.colour[o]
      <4>1. y \in MarksType
        BY <3>3 DEF Grown
      <4>2. y.colour[o] \notin Whites
        BY <2>0, <3>3
      <4>3. NW(y.colour, o)
        BY <4>2 DEF NW
      <4>4. \A r \in Obj : ~Is(r, "upval") => r # o
        BY <2>0 DEF Is
      <4>5. \A r \in Obj0, w \in MarksType : r # o => Shade(w, r).colour[o] = w.colour[o]
        BY <2>0 DEF Shade, MarksType, Obj0
      <4>6. CASE v # 0 /\ Is(v, "udata") /\ y.colour[v] \in Whites
        <5>1. z = Shade(Blacken(y, v), ref[v].meta) /\ v \in Obj
          BY <3>2, <4>6 DEF MarkValue, z, Obj0
        <5>2. Blacken(y, v) \in MarksType /\ Blacken(y, v).colour[o] = y.colour[o]
          BY <2>0, <3>5, <4>1, <5>1 DEF Blacken, MarksType, Colours
        <5>3. ref[v].meta \in Obj0 /\ ref[v].meta # o
          BY <2>0, <5>1 DEF FieldsFit, OfKind, Is, Obj0
        <5>4. QED
          BY <4>5, <5>1, <5>2, <5>3
      <4>7. CASE ~(v # 0 /\ Is(v, "udata") /\ y.colour[v] \in Whites)
        <5>1. z = Shade(y, v)
          BY <4>7 DEF MarkValue, z
        <5>2. QED
          BY <3>2, <3>5, <4>1, <4>5, <5>1
      <4>8. QED
        BY <4>6, <4>7
    <3> HIDE DEF z
    <3>7. GrewBlack(m, z, {}, B)
      <4>1. z.colour[o] = "black" => ~Open(o)
        BY <3>3, <3>6
      <4>2. QED
        BY <2>0, <3>4, <4>1 DEF Grown, GrewBlack, Blackened, v
    <3>8. GrewGray(m, z, {})
      <4>1. z.colour[o] = "gray" => Open(o)
        BY <3>3, <3>6
      <4>2. ~Is(o, "udata")
        BY <2>0 DEF Is
      <4>3. QED
        BY <2>0, <3>4, <4>1, <4>2 DEF Grown, GrewGray, Grayed, v
    <3>9. Grown(m, z, {}, B)
      BY <3>4, <3>7, <3>8 DEF Grown
    <3>10. z.colour[o] \notin Whites
      BY <2>0, <3>3, <3>6
    <3>11. \A r \in Obj0 : NW(x.colour, r) => NW(y.colour, r)
      BY <2>0, <3>3 DEF NW, Obj0
    <3>12. QED
      BY <3>1, <3>4, <3>9, <3>10, <3>11 DEF NW
  <2>3. QED
    BY <2>1, <2>2
<1> QED
  BY <1>1, <1>2

\* All of a sequence.
LEMMA MarkAllGrown ==
  ASSUME TypeOK, FieldsFit, SlotsFit, NEW m, MarksBase(m), NEW B, B \subseteq OfKind("upval"),
         NEW os \in Seq(Obj0)
  PROVE  /\ Grown(m, MarkAll(m, os), {}, B)
         /\ \A r \in Range(os) : NW(MarkAll(m, os).colour, r)
<1> DEFINE D == {n \in Nat : n <= Len(os)}
           OK(p) == Grown(m, p[2], {}, B) /\ \A i \in 1..Len(os) : i <= p[1] => NW(p[2].colour, os[i])
           S == {p \in D \X MarksType : OK(p)}
<1>0. Len(os) \in Nat /\ \A i \in 1..Len(os) : os[i] \in Obj0
  OBVIOUS
<1>1. <<0, m>> \in S
  <2>1. Grown(m, m, {}, B) /\ m \in MarksType
    BY GrownStart DEF MarksBase
  <2>2. QED
    BY <1>0, <2>1
<1>2. ASSUME NEW i \in 1..Len(os), NEW x, <<i - 1, x>> \in S PROVE <<i, MarkObject(x, os[i])>> \in S
  <2> DEFINE y == MarkObject(x, os[i])
  <2>1. Grown(m, x, {}, B) /\ \A j \in 1..Len(os) : j <= i - 1 => NW(x.colour, os[j])
    BY <1>2
  <2>2. os[i] \in Obj0
    BY <1>0
  <2>3. /\ Grown(m, y, {}, B) /\ NW(y.colour, os[i])
        /\ \A r \in Obj0 : NW(x.colour, r) => NW(y.colour, r)
    BY <2>1, <2>2, MarkObjectGrown
  <2> HIDE DEF y
  <2>4. ASSUME NEW j \in 1..Len(os), j <= i PROVE NW(y.colour, os[j])
    <3>1. j = i \/ j <= i - 1
      BY <2>4
    <3>2. QED
      BY <1>0, <2>1, <2>3, <3>1
  <2>5. i \in D /\ y \in MarksType
    BY <1>0, <2>3 DEF Grown
  <2>6. <<i, y>> \in S
    BY <2>3, <2>4, <2>5
  <2>7. QED
    BY <2>6 DEF y
<1> HIDE DEF S
<1>3. <<Len(os), MarkAll(m, os)>> \in S
  BY <1>1, <1>2, MarkAllInduct
<1>4. OK(<<Len(os), MarkAll(m, os)>>)
  BY <1>3 DEF S
<1>5. Grown(m, MarkAll(m, os), {}, B) /\ \A i \in 1..Len(os) : NW(MarkAll(m, os).colour, os[i])
  BY <1>0, <1>4
<1>6. \A r \in Range(os) : \E i \in 1..Len(os) : os[i] = r
  BY RangeHas
<1> QED
  BY <1>5, <1>6

\* Marking a value leaves upvalues alone.
LEMMA MarkValueKeeps ==
  ASSUME TypeOK, FieldsFit, SlotsFit, NEW x \in MarksType, NEW o \in Plain,
         NEW p \in Obj, Is(p, "upval")
  PROVE  MarkValue(x, o).colour[p] = x.colour[p]
<1>1. \A r \in Obj0, w \in MarksType : r # p => Shade(w, r).colour[p] = w.colour[p]
  BY DEF Shade, MarksType, Obj0
<1>2. o # p /\ o \in Obj0
  BY DEF Plain, OfKind
<1>3. CASE o # 0 /\ Is(o, "udata") /\ x.colour[o] \in Whites
  <2>1. MarkValue(x, o) = Shade(Blacken(x, o), ref[o].meta) /\ o \in Obj
    BY <1>2, <1>3 DEF MarkValue, Obj0
  <2>2. Blacken(x, o) \in MarksType /\ Blacken(x, o).colour[p] = x.colour[p]
    BY <1>2, <2>1 DEF Blacken, MarksType, Colours
  <2>3. ref[o].meta \in Obj0 /\ ref[o].meta # p
    BY <2>1, ShapeIs DEF FieldsFit, OfKind, Is, Obj0
  <2>4. QED
    BY <1>1, <2>1, <2>2, <2>3
<1>4. CASE ~(o # 0 /\ Is(o, "udata") /\ x.colour[o] \in Whites)
  <2>1. MarkValue(x, o) = Shade(x, o)
    BY <1>4 DEF MarkValue
  <2>2. QED
    BY <1>1, <1>2, <2>1
<1> QED
  BY <1>3, <1>4

\* luaC_linkupval while marking: a gray upvalue turns black, no other upvalue
\* changes.
LEMMA ClosedGrown ==
  ASSUME TypeOK, FieldsFit, SlotsFit, NEW m, MarksBase(m), NEW x, NEW B, Grown(m, x, {}, B),
         gcstate = "propagate", NEW u \in B
  PROVE  /\ Grown(m, Closed(x, u), {}, B)
         /\ Closed(x, u).colour[u] = IF x.colour[u] = "gray" THEN "black" ELSE x.colour[u]
         /\ \A p \in Obj : Is(p, "upval") /\ p # u => Closed(x, u).colour[p] = x.colour[p]
<1>0. u \in Obj /\ Is(u, "upval") /\ Whites = {"white0", "white1"}
  BY DEF Grown, OfKind, Whites
<1>1. CASE x.colour[u] # "gray"
  BY <1>1 DEF Closed
<1>2. CASE x.colour[u] = "gray"
  <2> DEFINE y == Blacken(x, u)
             v == ValueOf(u)
             z == MarkObject(y, v)
  <2>1. Closed(x, u) = z
    BY <1>2 DEF Closed
  <2>2. /\ Grown(m, y, {} \cup {u}, B) /\ y.colour[u] = "black"
        /\ \A p \in Obj : p # u => y.colour[p] = x.colour[p]
    BY <1>0, <1>2, BlackenGrown
  <2>3. v \in Plain /\ v \in Obj0
    BY <1>0, ValueIs
  <2>4. z = MarkValue(y, v)
    BY <2>3 DEF MarkObject, Plain, OfKind, Obj0
  <2> HIDE DEF y, v
  <2>5. Grown(m, z, {u}, B) /\ NW(z.colour, v)
    <3>1. {} \cup {u} = {u}
      OBVIOUS
    <3>2. Grown(m, y, {u}, B)
      BY <2>2, <3>1
    <3>3. QED
      BY <2>3, <2>4, <3>2, MarkValueGrown
  <2>6. y \in MarksType
    BY <2>2 DEF Grown
  <2> HIDE DEF z
  <2>7. \A p \in Obj : Is(p, "upval") => z.colour[p] = y.colour[p]
    BY <2>3, <2>4, <2>6, MarkValueKeeps
  <2>8. z.colour[u] = "black"
    BY <1>0, <2>2, <2>7
  <2>9. GrewBlack(m, z, {}, B)
    BY <1>0, <2>5 DEF Grown, GrewBlack, Blackened, v
  <2>10. GrewGray(m, z, {})
    BY <1>0, <2>5, <2>8 DEF Grown, GrewGray
  <2>11. Grown(m, z, {}, B)
    BY <2>5, <2>9, <2>10 DEF Grown
  <2>12. QED
    BY <1>2, <2>1, <2>2, <2>7, <2>8, <2>11
<1> QED
  BY <1>1, <1>2

\* luaF_close of us: while marking, the gray ones have turned black.
LEMMA CloseAllGrown ==
  ASSUME TypeOK, FieldsFit, SlotsFit, NEW m, MarksBase(m), gcstate = "propagate",
         NEW us \in Seq(OfKind("upval"))
  PROVE  /\ Grown(m, CloseAll(m, us), {}, Range(us))
         /\ \A u \in Range(us) : CloseAll(m, us).colour[u] # "gray"
<1> DEFINE B == Range(us)
           D == {n \in Nat : n <= Len(us)}
           OK(p) == Grown(m, p[2], {}, B) /\ \A i \in 1..Len(us) : i <= p[1] => p[2].colour[us[i]] # "gray"
           S == {p \in D \X MarksType : OK(p)}
<1>0. /\ Len(us) \in Nat /\ \A i \in 1..Len(us) : us[i] \in OfKind("upval")
      /\ B = {us[i] : i \in 1..Len(us)} /\ B \subseteq OfKind("upval")
  <2>1. /\ Len(us) \in Nat /\ \A i \in 1..Len(us) : us[i] \in OfKind("upval")
        /\ DOMAIN us = 1..Len(us)
    OBVIOUS
  <2>2. QED
    BY <2>1 DEF Range
<1> HIDE DEF B
<1>1. <<0, m>> \in S
  <2>1. Grown(m, m, {}, B) /\ m \in MarksType
    BY <1>0, GrownStart DEF MarksBase
  <2>2. QED
    BY <1>0, <2>1
<1>2. ASSUME NEW i \in 1..Len(us), NEW x, <<i - 1, x>> \in S PROVE <<i, Closed(x, us[i])>> \in S
  <2> DEFINE y == Closed(x, us[i])
  <2>1. Grown(m, x, {}, B) /\ \A j \in 1..Len(us) : j <= i - 1 => x.colour[us[j]] # "gray"
    BY <1>2
  <2>2. us[i] \in B
    BY <1>0
  <2>3. /\ Grown(m, y, {}, B)
        /\ y.colour[us[i]] = IF x.colour[us[i]] = "gray" THEN "black" ELSE x.colour[us[i]]
        /\ \A p \in Obj : Is(p, "upval") /\ p # us[i] => y.colour[p] = x.colour[p]
    BY <2>1, <2>2, ClosedGrown
  <2> HIDE DEF y
  <2>4. ASSUME NEW j \in 1..Len(us), j <= i PROVE y.colour[us[j]] # "gray"
    <3>1. CASE us[j] = us[i]
      BY <2>3, <3>1
    <3>2. CASE us[j] # us[i]
      <4>1. j <= i - 1
        BY <2>4, <3>2
      <4>2. us[j] \in Obj /\ Is(us[j], "upval")
        BY <1>0 DEF OfKind
      <4>3. QED
        BY <2>1, <2>3, <3>2, <4>1, <4>2
    <3>3. QED
      BY <3>1, <3>2
  <2>5. i \in D /\ y \in MarksType
    BY <1>0, <2>3 DEF Grown
  <2>6. <<i, y>> \in S
    BY <2>3, <2>4, <2>5
  <2>7. QED
    BY <2>6 DEF y
<1> HIDE DEF S
<1>3. <<Len(us), CloseAll(m, us)>> \in S
  BY <1>1, <1>2, CloseAllInduct
<1>4. OK(<<Len(us), CloseAll(m, us)>>)
  BY <1>3 DEF S
<1>5. Grown(m, CloseAll(m, us), {}, B) /\ \A i \in 1..Len(us) : CloseAll(m, us).colour[us[i]] # "gray"
  BY <1>0, <1>4
<1> QED
  BY <1>0, <1>5 DEF B

-----------------------------------------------------------------------------
(* Steps of the program.                                                   *)
OpFrame == UNCHANGED <<shape, currentwhite, gcstate, stage, tmudata, full>>

\* What depends on the shape only.
LEMMA ShapeSame ==
  ASSUME shape' = shape
  PROVE  /\ Obj' = Obj /\ Obj0' = Obj0 /\ Plain' = Plain /\ Strings' = Strings
         /\ \A k : OfKind(k)' = OfKind(k)
BY DEF Obj, Obj0, Plain, Strings, Objects, OfKind, Is

\* What holds, whatever a field refers to.
LEMMA PlainHas ==
  ASSUME NEW r \in Plain
  PROVE  r \in Obj0 /\ (r = 0 \/ (r \in Obj /\ ~Is(r, "upval")))
BY DEF Plain, Obj0, OfKind

\* What the program can name is alive and no upvalue.
LEMMA StackIs ==
  ASSUME TypeOK, SlotsFit, NEW th \in OfKind("thread"), NEW s \in Slots(th)
  PROVE  stack[th][s] \in Plain /\ stack[th][s] \in Obj0
BY PlainHas DEF SlotsFit

\* What the program can reach in one step is alive.
LEMMA HeldLives ==
  ASSUME IInv, NEW o \in Held
  PROVE  o \in Plain /\ o \in Obj0 /\ Living(o)
<1>1. stack[running] \in [Slots(running) -> Obj0] /\ running \in OfKind("thread")
  BY DEF IInv, TypeOK
<1>2. CASE o \in Range(stack[running])
  <2>1. PICK s \in Slots(running) : o = stack[running][s]
    BY <1>1, <1>2 DEF Range
  <2>2. Is(running, "thread") /\ running \in Obj
    BY <1>1 DEF OfKind
  <2>3. Living(running)
    BY DEF IInv, LivingRefs
  <2>4. Living(o)
    BY <2>1, <2>2, <2>3 DEF IInv, LivingRefs, Living, Live
  <2>5. QED
    BY <1>1, <2>1, <2>4, StackIs DEF IInv
<1>3. CASE o = Globals
  <2>1. Globals \in Obj /\ Is(Globals, "table")
    BY ShapeIs DEF IInv
  <2>2. QED
    BY <1>3, <2>1 DEF IInv, LivingRefs, Plain, Obj0, OfKind, Is
<1>4. CASE o = arg
  <2>1. arg \in Obj0 /\ (arg # 0 => Is(arg, "udata"))
    BY DEF IInv, TypeOK, SlotsFit
  <2>2. 0 \notin Obj
    BY ShapeIs DEF IInv
  <2>3. QED
    BY <1>4, <2>1, <2>2 DEF IInv, LivingRefs, Plain, Obj0, OfKind, Is
<1> QED
  BY <1>2, <1>3, <1>4 DEF Held

\* So are the values it stores.
LEMMA ValuesLive ==
  ASSUME IInv, NEW o \in Values
  PROVE  o \in Plain /\ o \in Obj0 /\ Living(o)
<1>1. CASE o = 0
  BY <1>1, ShapeIs DEF Plain, Obj0, OfKind, Living, Live, IInv
<1>2. CASE o # 0
  BY <1>2, HeldLives DEF Values
<1> QED
  BY <1>1, <1>2

\* What keeps the sweep where it is.
LEMMA PhasesOp ==
  ASSUME IInv, OpFrame, arg' \in {0, arg},
         \A o \in Obj : colour'[o] = Other(currentwhite) => colour[o] = Other(currentwhite),
         gcstate \in {"pause", "finalize"} =>
           \A o \in Obj : IsClean(o) => colour'[o] \in {"free", currentwhite}
  PROVE  Phases'
<1>1. Obj' = Obj
  BY ShapeSame DEF OpFrame
<1>2. Range(tmudata) \subseteq Obj
  BY RangeHas DEF IInv, TypeOK
<1>3. Phases
  BY DEF IInv
<1> QED
  BY <1>1, <1>2, <1>3 DEF OpFrame, Phases, IsDead, IsClean

\* The strings that have been swept stay clean.
LEMMA SweepStringOp ==
  ASSUME IInv, OpFrame, UNCHANGED <<sweepstrgc, sweepgc>>,
         gcstate = "sweepstring" => \A o \in Obj : IsClean(o) => colour'[o] \in {"free", currentwhite}
  PROVE  SweepString'
<1>1. Obj' = Obj /\ Strings' = Strings
  BY ShapeSame DEF OpFrame
<1>2. SweepString
  BY DEF IInv
<1>3. ASSUME gcstate = "sweepstring", NEW i \in 1..Len(Strings), i <= sweepstrgc
      PROVE  colour'[Strings[i]] \in {"free", currentwhite}
  <2>1. IsClean(Strings[i])
    BY <1>2, <1>3 DEF SweepString
  <2>2. Strings \in Seq(Obj)
    <3>1. Objects \in Seq(Obj)
      BY DEF Objects, Obj
    <3>2. QED
      BY <3>1, ThoseAre DEF Strings
  <2>3. Strings[i] \in Obj
    BY <2>2
  <2>4. QED
    BY <1>3, <2>1, <2>3
<1> QED
  BY <1>1, <1>2, <1>3 DEF OpFrame, SweepString, IsClean

\* So do the objects of rootgc, with the upvalues of threads.
LEMMA SweepOp ==
  ASSUME IInv, OpFrame, UNCHANGED sweepgc,
         gcstate = "sweep" => \A o \in Obj : IsClean(o) => colour'[o] \in {"free", currentwhite},
         gcstate = "sweep" => \A o \in Obj : Is(o, "string") => colour'[o] \in {"free", currentwhite},
         gcstate = "sweep" /\ sweepgc # 0 => sweepgc \in Range(rootgc') /\ sweepgc # rootgc'[Len(rootgc')],
         gcstate = "sweep" => \A o \in Obj : Before(rootgc', sweepgc, o) =>
           \/ Before(rootgc, sweepgc, o)
           \/ colour'[o] \in {"free", currentwhite} /\ (Is(o, "thread") => \A u \in Obj : at'[u] # <<>> => at'[u][1] # o),
         gcstate = "sweep" => \A u \in Obj : at'[u] # <<>> =>
           at'[u] = at[u] \/ colour'[u] \in {"free", currentwhite}
  PROVE  Sweep'
<1>1. Obj' = Obj
  BY ShapeSame DEF OpFrame
<1>2. Sweep
  BY DEF IInv
<1>3. ASSUME gcstate = "sweep", NEW o \in Obj, Before(rootgc', sweepgc, o)
      PROVE  /\ colour'[o] \in {"free", currentwhite}
             /\ Is(o, "thread") => \A u \in Obj : at'[u] # <<>> /\ at'[u][1] = o => colour'[u] \in {"free", currentwhite}
  <2>1. CASE Before(rootgc, sweepgc, o)
    <3>1. IsClean(o) /\ (Is(o, "thread") => SweptThread(o))
      BY <1>2, <1>3, <2>1 DEF Sweep
    <3>2. QED
      BY <1>3, <3>1 DEF SweptThread, Open
  <2>2. CASE ~Before(rootgc, sweepgc, o)
    BY <1>3, <2>2
  <2>3. QED
    BY <2>1, <2>2
<1> QED
  BY <1>1, <1>2, <1>3 DEF OpFrame, Sweep, IsClean, SweptThread, Open, Is, Before

\* The lists of marking stay, and what is black refers to the same objects.
LEMMA MarkedOp ==
  ASSUME IInv, OpFrame, stage = 0, UNCHANGED lists,
         gcstate = "propagate" =>
           \A o \in Obj : /\ (colour'[o] = colour[o] \/ (colour[o] = "free" /\ colour'[o] \in Whites)
                              \/ (Is(o, "string") /\ {colour[o], colour'[o]} \subseteq Whites \cup {"free"}))
                          /\ colour[o] = "black" => ref'[o] = ref[o] /\ (ref[o].key # 0 => colour'[ref[o].key] # "free")
  PROVE  Marked'
<1>1. Obj' = Obj
  BY ShapeSame DEF OpFrame
<1> SUFFICES ASSUME gcstate = "propagate" PROVE Marking' /\ Atomic'
  BY DEF OpFrame, Marked
<1>2. Marking
  BY DEF IInv, Marked
<1>3. Whites = {"white0", "white1"}
  BY DEF Whites
<1>4. GrayObjects(colour') = GrayObjects(colour) /\ shape' = shape
  BY <1>3 DEF GrayObjects, OpFrame, Is, Gathered
<1>5. ASSUME NEW r \in Obj0, NW(colour, r), r # 0 => colour[r] # "free" PROVE NW(colour', r)
  BY <1>3, <1>5 DEF NW, Obj0
<1>6. ASSUME NEW o \in Obj, colour'[o] = "black" PROVE o \in Range(tmudata) \/ FieldsMarked(o)'
  <2>1. colour[o] = "black"
    BY <1>3, <1>6
  <2>2. CASE o \in Range(tmudata)
    BY <2>2
  <2>3. CASE o \notin Range(tmudata)
    <3>1. FieldsMarked(o) /\ ref'[o] = ref[o] /\ (ref[o].key # 0 => colour'[ref[o].key] # "free")
      BY <1>2, <2>1, <2>3 DEF Marking
    <3>2. Living(o)
      BY <2>1, <1>3 DEF Living, Live, IInv, TypeOK, Other
    <3>3. ref[o].key \in Obj0 /\ ref[o].val \in Obj0 /\ ref[o].meta \in Obj0
      BY RefIs DEF IInv
    <3>4. Living(ref[o].meta) /\ Living(ref[o].val)
      <4>1. Living(0)
        BY DEF Living, Live
      <4>2. ~Is(o, "upval") => Living(ref[o].meta) /\ Living(ref[o].val)
        BY <3>2, <4>1 DEF IInv, LivingRefs
      <4>3. Is(o, "upval") => ~Open(o) /\ ValueOf(o) = ref[o].val
        BY <2>1 DEF IInv, OpenFit, ValueOf
      <4>4. QED
        BY <3>2, <4>2, <4>3 DEF IInv, LivingRefs
    <3>5. NW(colour', ref[o].key) /\ NW(colour', ref[o].val) /\ NW(colour', ref[o].meta)
      BY <1>5, <3>1, <3>3, <3>4 DEF FieldsMarked, Living, Live
    <3>6. QED
      BY <3>1, <3>5 DEF FieldsMarked
  <2>4. QED
    BY <2>2, <2>3
<1>7. NW(colour', Main) /\ NW(colour', Globals)
  <2>1. Main \in Obj /\ Globals \in Obj
    BY ShapeIs DEF IInv
  <2>2. Living(Main) /\ Living(Globals)
    BY DEF IInv, LivingRefs
  <2>3. NW(colour, Main) /\ NW(colour, Globals)
    BY <1>2 DEF Marking
  <2>4. QED
    BY <1>5, <2>1, <2>2, <2>3 DEF Living, Live, Obj0, Main, Globals
<1>8. Marking'
  <2>1. /\ gray' = gray /\ grayagain' = grayagain /\ weak' = weak /\ tmudata' = tmudata
        /\ shape' = shape
    BY DEF lists, OpFrame
  <2>2. GrayObjects(colour)' = GrayObjects(colour')
    BY <1>1, <2>1 DEF GrayObjects
  <2>3. NW(colour, Main)' /\ NW(colour, Globals)'
    BY <1>7 DEF NW, Main, Globals
  <2>4. \A o \in Obj' : colour'[o] = "black" => o \in Range(tmudata') \/ FieldsMarked(o)'
    BY <1>1, <1>6, <2>1
  <2>5. QED
    BY <1>2, <1>4, <2>1, <2>2, <2>3, <2>4 DEF Marking, Is
<1>9. Atomic'
  BY DEF Atomic, OpFrame
<1> QED
  BY <1>8, <1>9

\* What a step may do to the stacks: what it stores is alive.
StackFits ==
  /\ DOMAIN stack' = OfKind("thread")
  /\ \A th \in OfKind("thread") :
       /\ stack'[th] \in [Slots(th) -> Obj0]
       /\ \A s \in Slots(th) : \/ stack'[th][s] = stack[th][s]
                               \/ /\ stack'[th][s] \in Plain
                                  /\ Live(colour', currentwhite, stack'[th][s])
                                  /\ colour'[th] # "free"
ObjFits(o) ==
  /\ ref[o].meta \in OfKind("table") \cup {0} /\ ref[o].key \in Plain
  /\ ~Is(o, "lclosure") => ref[o].val \in Plain
  /\ Is(o, "lclosure") /\ colour[o] # "free" => Is(ref[o].val, "upval") /\ ref[o].val # 0
  /\ ~Is(o, "table") => ref[o].key = 0
  /\ ~Is(o, "table") /\ ~Is(o, "udata") => ref[o].meta = 0
  /\ Is(o, "udata") \/ Is(o, "thread") \/ Is(o, "string") => ref[o].val = 0
  /\ Open(o) \/ colour[o] = "free" => ref[o] = Nothing
RefsLive(o) ==
  /\ Living(ref[o].meta)
  /\ ~Is(o, "upval") /\ ~(Is(o, "table") /\ ref[o].val = 0) => Living(ref[o].key) /\ Living(ref[o].val)
  /\ Is(o, "upval") => Living(ValueOf(o))
  /\ Is(o, "thread") => \A s \in Slots(o) : Living(stack[o][s])
LivesOn == \A o \in Obj : Living(o) => Live(colour', currentwhite, o)

\* The stacks fit.
LEMMA SlotsOp ==
  ASSUME IInv, OpFrame, StackFits, arg' \in {0, arg},
         \A th \in OfKind("thread") : colour'[th] = "free" => colour[th] = "free"
  PROVE  SlotsFit'
<1>1. OfKind("thread")' = OfKind("thread") /\ Plain' = Plain /\ (\A th : Slots(th)' = Slots(th)) /\ shape' = shape
  BY ShapeSame DEF OpFrame, Slots
<1>2. \A th \in OfKind("thread") : \A s \in Slots(th) :
        stack'[th][s] \in Plain /\ (colour'[th] = "free" => stack'[th][s] = 0)
  <2>1. SlotsFit
    BY DEF IInv
  <2>2. QED
    BY <2>1 DEF SlotsFit, StackFits
<1>3. arg' # 0 => Is(arg, "udata") /\ arg' = arg
  BY DEF IInv, SlotsFit
<1> QED
  BY <1>1, <1>2, <1>3 DEF SlotsFit, Is

\* An upvalue that stays as it is.
LEMMA ValueOp ==
  ASSUME IInv, OpFrame, StackFits, NEW u \in Obj, Is(u, "upval"), at'[u] = at[u], ref'[u] = ref[u],
         Living(u), LivesOn
  PROVE  Live(colour', currentwhite, ValueOf(u)')
<1>0. Living(ValueOf(u)) /\ ValueOf(u) \in Obj0
  BY ValueIs DEF IInv, LivingRefs
<1>1. CASE ~Open(u)
  <2>1. ValueOf(u)' = ValueOf(u)
    BY <1>1 DEF ValueOf, Open
  <2>2. QED
    BY <1>0, <2>1 DEF LivesOn, Obj0, Live
<1>2. CASE Open(u)
  <2>1. PICK th \in OfKind("thread") : \E l \in Slots(th) : at[u] = <<th, l>>
    BY <1>2 DEF IInv, TypeOK, Open
  <2>2. PICK l \in Slots(th) : at[u] = <<th, l>>
    BY <2>1
  <2>3. ValueOf(u)' = stack'[th][l] /\ ValueOf(u) = stack[th][l]
    BY <1>2, <2>2 DEF ValueOf, Open
  <2>4. QED
    BY <1>0, <2>3 DEF StackFits, LivesOn, Obj0, Live
<1> QED
  BY <1>1, <1>2

\* What lives refers to what lives.
LEMMA LivingOp ==
  ASSUME IInv, OpFrame, StackFits, LivesOn, arg' \in {0, arg},
         running' \in Obj, Live(colour', currentwhite, running'),
         \A o \in Obj : Live(colour', currentwhite, o) =>
            (Living(o) /\ ref'[o] = ref[o] /\ at'[o] = at[o]) \/ RefsLive(o)'
  PROVE  LivingRefs'
<1>1. /\ Obj' = Obj /\ (\A th : Slots(th)' = Slots(th)) /\ shape' = shape /\ tmudata' = tmudata
      /\ currentwhite' = currentwhite
  BY ShapeSame DEF OpFrame, Slots
<1>2. \A r \in Obj0 : Living(r) => Live(colour', currentwhite, r)
  BY DEF LivesOn, Obj0, Live
<1>3. ASSUME NEW o \in Obj, Live(colour', currentwhite, o) PROVE RefsLive(o)'
  <2>1. CASE Living(o) /\ ref'[o] = ref[o] /\ at'[o] = at[o]
    <3>1. RefsLive(o)
      BY <2>1 DEF IInv, LivingRefs, RefsLive
    <3>2. ref[o].meta \in Obj0 /\ ref[o].key \in Obj0 /\ ref[o].val \in Obj0
      BY RefIs DEF IInv
    <3>3. Is(o, "upval") => Live(colour', currentwhite, ValueOf(o)')
      BY <2>1, ValueOp
    <3>4. ASSUME Is(o, "thread"), NEW s \in Slots(o) PROVE Live(colour', currentwhite, stack'[o][s])
      <4>1. Living(stack[o][s]) /\ o \in OfKind("thread")
        BY <3>1, <3>4 DEF RefsLive, OfKind
      <4>2. stack[o][s] \in Obj0
        BY <4>1, StackIs DEF IInv
      <4>3. QED
        BY <1>2, <4>1, <4>2 DEF StackFits
    <3>5. QED
      BY <1>1, <1>2, <2>1, <3>1, <3>2, <3>3, <3>4 DEF RefsLive, Living, Is
  <2>2. QED
    BY <1>3, <2>1
<1>4. Live(colour', currentwhite, Main) /\ Live(colour', currentwhite, Globals)
      /\ Live(colour', currentwhite, arg')
  <2>1. Main \in Obj0 /\ Globals \in Obj0 /\ arg \in Obj0
    BY ShapeIs DEF IInv, TypeOK, Obj0
  <2>2. Living(Main) /\ Living(Globals) /\ Living(arg)
    BY DEF IInv, LivingRefs
  <2>3. QED
    BY <1>2, <2>1, <2>2 DEF Live
<1>5. \A o \in Range(tmudata) : Live(colour', currentwhite, o)
  <2>1. Range(tmudata) \subseteq Obj
    BY RangeHas DEF IInv, TypeOK
  <2>2. QED
    BY <2>1 DEF IInv, LivingRefs, LivesOn
<1> QED
  BY <1>1, <1>3, <1>4, <1>5 DEF LivingRefs, RefsLive, Living, Is, Main, Globals

\* Fields fit if those that changed do.
LEMMA FieldsOp ==
  ASSUME IInv, shape' = shape,
         \A o \in Obj : \/ ref'[o] = ref[o] /\ at'[o] = at[o] /\ (colour'[o] = "free" <=> colour[o] = "free")
                        \/ ObjFits(o)'
  PROVE  FieldsFit'
<1>1. Obj' = Obj /\ Plain' = Plain /\ OfKind("table")' = OfKind("table")
  BY ShapeSame
<1>2. ASSUME NEW o \in Obj PROVE ObjFits(o)'
  <2>1. ObjFits(o)
    BY DEF IInv, FieldsFit, ObjFits
  <2>2. CASE ref'[o] = ref[o] /\ at'[o] = at[o] /\ (colour'[o] = "free" <=> colour[o] = "free")
    BY <1>1, <2>1, <2>2 DEF ObjFits, Is, Open
  <2>3. QED
    BY <2>2
<1> QED
  BY <1>1, <1>2 DEF FieldsFit, ObjFits

\* An upvalue stays where it is, is closed, or is opened where none is.
Opened(u) == /\ at'[u] # <<>> /\ Is(u, "upval")
             /\ colour'[at'[u][1]] # "free"
             /\ \A v \in Obj : at'[v] = at'[u] => v = u
\* Open upvalues fit.
LEMMA OpenOp ==
  ASSUME IInv, shape' = shape,
         \A u \in Obj : at'[u] \in {at[u], <<>>} \/ Opened(u),
         \A u \in Obj : at'[u] # <<>> => colour'[u] \notin {"free", "black"},
         \A u \in Obj : at'[u] # <<>> /\ at'[u] = at[u] => colour'[at[u][1]] # "free"
  PROVE  OpenFit'
<1>1. Obj' = Obj /\ (\A o \in Obj : \A k : Is(o, k)' = Is(o, k))
  BY ShapeSame DEF Is
<1>2. OpenFit
  BY DEF IInv
<1>3. ASSUME NEW u \in Obj, at'[u] # <<>> PROVE Is(u, "upval") /\ colour'[at'[u][1]] # "free"
  BY <1>2, <1>3 DEF OpenFit, Open, Opened
<1>4. ASSUME NEW u \in Obj, NEW v \in Obj, at'[u] # <<>>, at'[u] = at'[v] PROVE u = v
  <2>1. CASE Opened(u) \/ Opened(v)
    BY <1>4, <2>1 DEF Opened
  <2>2. CASE at'[u] = at[u] /\ at'[v] = at[v]
    BY <1>2, <1>4, <2>2 DEF OpenFit, Open
  <2>3. QED
    BY <1>4, <2>1, <2>2
<1> QED
  BY <1>1, <1>3, <1>4 DEF OpenFit, Open

\* R are the objects linked by the step.
LEMMA LinkedOp ==
  ASSUME IInv, shape' = shape, tmudata' = tmudata, NEW R,
         IsInjective(rootgc'), Range(rootgc') = R \cup Range(rootgc),
         \A r \in R : colour'[r] # "free" /\ ~Is(r, "string") /\ at'[r] = <<>> /\ r \notin Range(tmudata),
         \A o \in Range(rootgc) : colour'[o] # "free" /\ at'[o] = at[o],
         \A o \in Range(tmudata) : colour'[o] # "free",
         \A o \in Obj : colour'[o] # "free" =>
            (colour[o] # "free" /\ at'[o] = at[o]) \/ Is(o, "string") \/ at'[o] # <<>> \/ o \in R
  PROVE  Linked'
<1>1. Linked /\ Obj' = Obj /\ (\A o : \A k : Is(o, k)' = Is(o, k))
  BY ShapeSame DEF IInv, Is
<1>2. \A o \in Range(rootgc') : colour'[o] # "free" /\ ~Is(o, "string") /\ at'[o] = <<>>
                              /\ o \notin Range(tmudata)
  BY <1>1 DEF Linked, Open
<1>3. \A o \in Range(tmudata) : colour'[o] # "free" /\ Is(o, "udata")
  BY <1>1 DEF Linked
<1>4. ASSUME NEW o \in Obj, colour'[o] # "free"
      PROVE  Is(o, "string") \/ at'[o] # <<>> \/ o \in Range(rootgc') \/ o \in Range(tmudata)
  BY <1>1, <1>4 DEF Linked, Open
<1> QED
  BY <1>1, <1>2, <1>3, <1>4 DEF Linked, Open

-----------------------------------------------------------------------------
\* Steps that change only the stacks, the thread that runs and the argument.
LEMMA StackOp ==
  ASSUME IInv, OpFrame, UNCHANGED <<colour, ref, at, lists, sweeping, finalized, called>>, stage = 0,
         StackFits, arg' \in {0, arg}, running' \in OfKind("thread"), Living(running')
  PROVE  IInv'
<1>0. /\ colour' = colour /\ ref' = ref /\ at' = at /\ shape' = shape /\ currentwhite' = currentwhite
      /\ gray' = gray /\ grayagain' = grayagain /\ weak' = weak /\ rootgc' = rootgc /\ sweepgc' = sweepgc
      /\ sweepstrgc' = sweepstrgc /\ finalized' = finalized /\ called' = called /\ tmudata' = tmudata
      /\ gcstate' = gcstate /\ stage' = stage /\ full' = full
  BY DEF OpFrame, lists, sweeping
<1>a. Obj' = Obj /\ Obj0' = Obj0 /\ OfKind("thread")' = OfKind("thread") /\ (\A th : Slots(th)' = Slots(th))
  BY <1>0, ShapeSame DEF Slots
<1>1. TypeOK'
  <2>1. TypeOK
    BY DEF IInv
  <2>2. arg' \in Obj0
    BY <2>1 DEF TypeOK, Obj0
  <2>3. QED
    BY <1>0, <1>a, <2>1, <2>2 DEF TypeOK, StackFits
<1>2. FieldsFit'
  BY <1>0, FieldsOp
<1>3. SlotsFit'
  BY <1>0, SlotsOp
<1>4. OpenFit'
  <2>1. \A u \in Obj : at[u] # <<>> => colour[u] \notin {"free", "black"} /\ colour[at[u][1]] # "free"
    BY DEF IInv, OpenFit, Open
  <2>2. QED
    BY <1>0, <2>1, OpenOp
<1>5. Linked'
  BY <1>0, <1>a DEF IInv, Linked, Is, Open
<1>6. Coloured'
  BY <1>0, <1>a DEF IInv, Coloured, Is, Open
<1>7. Phases'
  <2>1. gcstate \in {"pause", "finalize"} =>
           \A o \in Obj : IsClean(o) => colour'[o] \in {"free", currentwhite}
    BY <1>0 DEF IsClean
  <2>2. \A o \in Obj : colour'[o] = Other(currentwhite) => colour[o] = Other(currentwhite)
    BY <1>0
  <2>3. QED
    BY <2>1, <2>2, PhasesOp
<1>8. SweepString'
  <2>1. gcstate = "sweepstring" => \A o \in Obj : IsClean(o) => colour'[o] \in {"free", currentwhite}
    BY <1>0 DEF IsClean
  <2>2. UNCHANGED <<sweepstrgc, sweepgc>>
    BY <1>0
  <2>3. QED
    BY <2>1, <2>2, SweepStringOp
<1>9. Sweep'
  BY <1>0, <1>a DEF IInv, Sweep, Is, Open, IsClean, SweptThread, Before
<1>10. LivingRefs'
  <2>1. LivesOn /\ Live(colour', currentwhite, running') /\ running' \in Obj
    BY <1>0 DEF LivesOn, Living, OfKind
  <2>2. \A o \in Obj : Live(colour', currentwhite, o) => Living(o) /\ ref'[o] = ref[o] /\ at'[o] = at[o]
    BY <1>0 DEF Living
  <2>3. QED
    BY <2>1, <2>2, LivingOp
<1>11. Marked'
  <2>1. gcstate = "propagate" =>
           \A o \in Obj : /\ (colour'[o] = colour[o] \/ (colour[o] = "free" /\ colour'[o] \in Whites)
                              \/ (Is(o, "string") /\ {colour[o], colour'[o]} \subseteq Whites \cup {"free"}))
                          /\ colour[o] = "black" => ref'[o] = ref[o] /\ (ref[o].key # 0 => colour'[ref[o].key] # "free")
    <3> SUFFICES ASSUME gcstate = "propagate", NEW o \in Obj, colour[o] = "black"
                 PROVE  ref[o].key # 0 => colour[ref[o].key] # "free"
      BY <1>0
    <3>1. o \notin Range(tmudata) => FieldsMarked(o)
      BY DEF IInv, Marked, Marking
    <3>2. o \in Range(tmudata) => Is(o, "udata")
      BY DEF IInv, Linked
    <3>3. Is(o, "udata") => ref[o].key = 0
      BY DEF IInv, FieldsFit, Is
    <3>4. QED
      BY <3>1, <3>2, <3>3 DEF FieldsMarked
  <2>2. UNCHANGED lists
    BY <1>0 DEF lists
  <2>3. QED
    BY <2>1, <2>2, MarkedOp
<1>12. FinalizedOK'
  BY <1>0 DEF IInv, FinalizedOK
<1> QED
  BY <1>1, <1>2, <1>3, <1>4, <1>5, <1>6, <1>7, <1>8, <1>9, <1>10, <1>11, <1>12 DEF IInv

\* One slot is written.
LEMMA PutFits ==
  ASSUME IInv, NEW th \in OfKind("thread"), NEW s \in Slots(th), NEW o \in Plain,
         stack' = [stack EXCEPT ![th][s] = o],
         Live(colour', currentwhite, o), colour'[th] # "free"
  PROVE  StackFits
<1>1. DOMAIN stack = OfKind("thread") /\ \A h \in OfKind("thread") : stack[h] \in [Slots(h) -> Obj0]
  BY DEF IInv, TypeOK
<1>2. o \in Obj0
  BY PlainHas
<1> QED
  BY <1>1, <1>2 DEF StackFits

\* The thread that runs.
LEMMA RunningIs ==
  ASSUME IInv
  PROVE  running \in OfKind("thread") /\ running \in Obj /\ colour[running] # "free" /\ Living(running)
<1>1. running \in OfKind("thread") /\ running \in Obj
  BY DEF IInv, TypeOK, OfKind
<1>2. Living(running)
  BY DEF IInv, LivingRefs
<1>3. running # 0
  BY <1>1, ShapeIs DEF IInv
<1> QED
  BY <1>1, <1>2, <1>3 DEF Living, Live

\* What a read gives the program is alive.
LEMMA ContentsLive ==
  ASSUME IInv, NEW o \in Held, o # 0, NEW v \in Contents(o)
  PROVE  v \in Plain /\ Living(v)
<1>1. o \in Obj /\ ~Is(o, "upval") /\ Living(o)
  BY HeldLives, PlainHas
<1>2. /\ Living(ref[o].meta)
      /\ ~(Is(o, "table") /\ ref[o].val = 0) => Living(ref[o].key) /\ Living(ref[o].val)
  BY <1>1 DEF IInv, LivingRefs
<1>3. ref[o].meta \in OfKind("table") \cup {0} /\ ref[o].key \in Plain /\ (~Is(o, "lclosure") => ref[o].val \in Plain)
  BY <1>1 DEF IInv, FieldsFit
<1>4. OfKind("table") \cup {0} \subseteq Plain
  BY ShapeIs DEF Plain, Obj0, OfKind, Is, IInv
<1>5. CASE Is(o, "lclosure")
  <2>1. colour[o] # "free" /\ ~Is(o, "table")
    BY <1>1, <1>5, ShapeIs DEF Living, Live, Is, IInv
  <2>2. Is(ref[o].val, "upval") /\ ref[o].val # 0
    BY <1>1, <1>5, <2>1 DEF IInv, FieldsFit
  <2>3. ref[o].val \in Obj /\ Living(ref[o].val)
    BY <1>1, <1>2, <2>1, <2>2, RefIs DEF IInv, Obj0
  <2>4. Living(ValueOf(ref[o].val)) /\ ValueOf(ref[o].val) \in Plain
    BY <2>2, <2>3, ValueIs DEF IInv, LivingRefs
  <2>5. v = ValueOf(ref[o].val)
    BY <1>5 DEF Contents, Is
  <2>6. QED
    BY <2>4, <2>5
<1>6. CASE ~Is(o, "lclosure")
  <2>1. ~Is(o, "thread")
    BY <1>6 DEF Contents, Is
  <2>2. v = ref[o].meta \/ (v \in {ref[o].key, ref[o].val} /\ ~(Is(o, "table") /\ ref[o].val = 0))
    BY <1>6, <2>1 DEF Contents, Is
  <2>3. QED
    BY <1>2, <1>3, <1>4, <1>6, <2>2
<1> QED
  BY <1>5, <1>6

\* A read keeps the invariant.
LEMMA LoadKeeps ==
  ASSUME IInv, OpFrame, NEW s \in Slots(running), NEW o \in Held, NEW v \in Obj, Load(s, o, v)
  PROVE  IInv'
<1>1. v \in Plain /\ Living(v)
  BY ContentsLive DEF Load
<1>2. StackFits
  BY <1>1, RunningIs, PutFits DEF Load, Put, Living
<1> QED
  BY <1>2, RunningIs, StackOp DEF Load, May

\* A value moved to another thread keeps it.
LEMMA XmoveKeeps ==
  ASSUME IInv, OpFrame, NEW th \in Held, NEW v \in Values, Xmove(th, v)
  PROVE  IInv'
<1>1. v \in Plain /\ Living(v)
  BY ValuesLive
<1>2. th \in OfKind("thread") /\ Living(th) /\ th # 0
  BY HeldLives, ShapeIs DEF Xmove, OfKind, IInv
<1>3. PICK s \in Slots(th) : stack' = [stack EXCEPT ![th][s] = v]
  BY DEF Xmove
<1>4. StackFits
  BY <1>1, <1>2, <1>3, PutFits DEF Xmove, Living, Live
<1> QED
  BY <1>4, RunningIs, StackOp DEF Xmove, May

\* The stacks are not written.
LEMMA StackSame ==
  ASSUME IInv, UNCHANGED stack
  PROVE  StackFits
BY DEF IInv, TypeOK, StackFits

\* The main thread is alive.
LEMMA MainIs ==
  ASSUME IInv
  PROVE  Main \in OfKind("thread") /\ Main \in Obj /\ colour[Main] # "free" /\ Living(Main)
<1>1. Living(Main) /\ Main \in OfKind("thread") /\ Main \in Obj
  BY ShapeIs DEF IInv, LivingRefs, OfKind
<1> QED
  BY <1>1 DEF Living, Live, Main

\* Resuming a thread keeps it.
LEMMA ResumeKeeps ==
  ASSUME IInv, OpFrame, NEW th \in OfKind("thread"), Resume(th)
  PROVE  IInv'
<1>1. Living(th)
  BY HeldLives DEF Resume
<1>2. StackFits
  BY StackSame DEF Resume
<1> QED
  BY <1>1, <1>2, StackOp DEF Resume, May

\* So does yielding.
LEMMA YieldKeeps ==
  ASSUME IInv, OpFrame, Yield
  PROVE  IInv'
<1>1. CASE UNCHANGED stack
  <2>1. StackFits
    BY <1>1, StackSame
  <2>2. QED
    BY <2>1, MainIs, StackOp DEF Yield, May
<1>2. CASE ~UNCHANGED stack
  <2>1. PICK v \in Values \ {0}, s \in Slots(Main) : stack' = [stack EXCEPT ![Main][s] = v]
    BY <1>2 DEF Yield
  <2>2. v \in Plain /\ Living(v)
    BY ValuesLive
  <2>3. StackFits
    BY <2>1, <2>2, MainIs, PutFits DEF Yield, Living
  <2>4. QED
    BY <2>3, MainIs, StackOp DEF Yield, May
<1> QED
  BY <1>1, <1>2

\* So does the end of a finalizer.
LEMMA FinalizedKeeps ==
  ASSUME IInv, OpFrame, Finalized
  PROVE  IInv'
<1>1. stage = 0
  BY DEF IInv, Phases, Finalized
<1>2. StackFits
  BY StackSame DEF Finalized
<1> QED
  BY <1>1, <1>2, RunningIs, StackOp DEF Finalized

\* Objects R have been linked into rootgc.
RootGrown(R) ==
  /\ IsInjective(rootgc') /\ Range(rootgc') = R \cup Range(rootgc)
  /\ gcstate = "sweep" /\ sweepgc # 0 => sweepgc \in Range(rootgc') /\ sweepgc # rootgc'[Len(rootgc')]
  /\ gcstate = "sweep" => \A o \in Obj : Before(rootgc', sweepgc, o) => o \in R \/ Before(rootgc, sweepgc, o)

\* rootgc as it was.
LEMMA RootSame ==
  ASSUME IInv, rootgc' = rootgc
  PROVE  RootGrown({})
BY DEF IInv, Linked, Sweep, RootGrown

\* New objects at its head.
LEMMA RootJoined ==
  ASSUME IInv, NEW q \in Seq(Obj), IsInjective(q), Range(q) \cap Range(rootgc) = {}, rootgc' = q \o rootgc
  PROVE  RootGrown(Range(q)) /\ rootgc' \in Seq(Obj)
<1> DEFINE r == q \o rootgc
<1>1. rootgc \in Seq(Obj) /\ IsInjective(rootgc) /\ Len(rootgc) \in Nat /\ Len(q) \in Nat
  BY DEF IInv, TypeOK, Linked
<1>2. /\ r \in Seq(Obj)
      /\ Len(r) = Len(q) + Len(rootgc)
      /\ \A i \in 1..Len(q) : r[i] = q[i]
      /\ \A i \in 1..Len(rootgc) : r[Len(q) + i] = rootgc[i]
      /\ \A i \in 1..Len(r) : i \in 1..Len(q) \/ i - Len(q) \in 1..Len(rootgc)
      /\ Range(r) = Range(q) \cup Range(rootgc)
      /\ IsInjective(r)
  BY <1>1, JoinIs
<1>3. ASSUME gcstate = "sweep", sweepgc # 0 PROVE sweepgc \in Range(r) /\ sweepgc # r[Len(r)] /\ sweepgc \notin Range(q)
  <2>1. sweepgc \in Range(rootgc) /\ sweepgc # rootgc[Len(rootgc)]
    BY <1>3 DEF IInv, Sweep
  <2>2. Len(rootgc) \in 1..Len(rootgc)
    BY <1>1, <2>1, RangeHas
  <2>3. r[Len(q) + Len(rootgc)] = rootgc[Len(rootgc)]
    BY <1>2, <2>2
  <2>4. QED
    BY <1>2, <2>1, <2>3
<1>4. ASSUME gcstate = "sweep", NEW o \in Obj, Before(r, sweepgc, o)
      PROVE  o \in Range(q) \/ Before(rootgc, sweepgc, o)
  <2>1. PICK i, j \in 1..Len(r) : i <= j /\ r[i] = o /\ r[j] = sweepgc
    BY <1>4 DEF Before
  <2>2. sweepgc # 0
    BY <1>2, <2>1, ShapeIs DEF IInv
  <2>3. j \notin 1..Len(q)
    BY <1>2, <1>3, <1>4, <2>1, <2>2, RangeHas
  <2>4. CASE i \in 1..Len(q)
    BY <1>2, <2>1, <2>4, RangeHas
  <2>5. CASE i \notin 1..Len(q)
    <3> DEFINE k == i - Len(q)
               l == j - Len(q)
    <3>1. k \in 1..Len(rootgc) /\ l \in 1..Len(rootgc)
      BY <1>2, <2>1, <2>3, <2>5
    <3>2. Len(q) + k = i /\ Len(q) + l = j /\ k <= l
      BY <1>1, <2>1
    <3>3. rootgc[k] = o /\ rootgc[l] = sweepgc
      BY <1>2, <2>1, <3>1, <3>2
    <3>4. QED
      BY <3>1, <3>2, <3>3 DEF Before
  <2>6. QED
    BY <2>4, <2>5
<1>5. rootgc' = r
  OBVIOUS
<1> HIDE DEF r
<1> QED
  BY <1>2, <1>3, <1>4, <1>5 DEF RootGrown

\* One new object at its head.
LEMMA RootConsed ==
  ASSUME IInv, NEW o \in Obj, o \notin Range(rootgc), rootgc' = <<o>> \o rootgc
  PROVE  RootGrown({o}) /\ rootgc' \in Seq(Obj)
<1>1. <<o>> \in Seq(Obj) /\ IsInjective(<<o>>) /\ Range(<<o>>) = {o}
  BY DEF IsInjective, Range
<1> QED
  BY <1>1, RootJoined

\* A userdata after the main thread.
LEMMA RootAfter ==
  ASSUME IInv, NEW o \in Obj, o \notin Range(rootgc), NEW x \in Range(rootgc), rootgc' = After(rootgc, x, o)
  PROVE  RootGrown({o}) /\ rootgc' \in Seq(Obj)
<1> DEFINE r == After(rootgc, x, o)
<1>1. rootgc \in Seq(Obj) /\ IsInjective(rootgc)
  BY DEF IInv, TypeOK, Linked
<1>2. r \in Seq(Obj) /\ Range(r) = {o} \cup Range(rootgc) /\ IsInjective(r)
  BY <1>1, AfterHas
<1>3. ASSUME gcstate = "sweep", sweepgc # 0
      PROVE  sweepgc \in Range(rootgc) /\ sweepgc # o /\ sweepgc # r[Len(r)]
  <2>1. sweepgc \in Range(rootgc) /\ sweepgc # rootgc[Len(rootgc)]
    BY <1>3 DEF IInv, Sweep
  <2>2. sweepgc # o
    BY <2>1
  <2>3. \A y : y # rootgc[Len(rootgc)] /\ y # o => y # After(rootgc, x, o)[Len(After(rootgc, x, o))]
    <3> SUFFICES ASSUME NEW y, y # rootgc[Len(rootgc)], y # o
                 PROVE  y # After(rootgc, x, o)[Len(After(rootgc, x, o))]
      OBVIOUS
    <3> QED
      BY <1>1, AfterLast
  <2>4. QED
    BY <2>1, <2>2, <2>3
<1>4. ASSUME gcstate = "sweep", NEW p \in Obj, Before(r, sweepgc, p)
      PROVE  p \in {o} \/ Before(rootgc, sweepgc, p)
  <2>1. PICK i, j \in 1..Len(r) : i <= j /\ r[i] = p /\ r[j] = sweepgc
    BY <1>4 DEF Before
  <2>2. sweepgc # 0
    BY <1>2, <2>1, ShapeIs DEF IInv
  <2>3. r[j] # o
    BY <1>3, <1>4, <2>1, <2>2
  <2>4. r[i] = o \/ \E k, l \in 1..Len(rootgc) : k <= l /\ rootgc[k] = r[i] /\ rootgc[l] = r[j]
    BY <1>1, <2>1, <2>3, AfterBefore
  <2>5. QED
    BY <2>1, <2>4 DEF Before
<1>5. rootgc' = r
  OBVIOUS
<1> HIDE DEF r
<1> QED
  BY <1>2, <1>3, <1>4, <1>5 DEF RootGrown

\* A black object has no free key.
LEMMA BlackKey ==
  ASSUME IInv, gcstate = "propagate", NEW o \in Obj, colour[o] = "black"
  PROVE  ref[o].key # 0 => colour[ref[o].key] # "free"
<1>1. o \notin Range(tmudata) => FieldsMarked(o)
  BY DEF IInv, Marked, Marking
<1>2. o \in Range(tmudata) => Is(o, "udata")
  BY DEF IInv, Linked
<1>3. Is(o, "udata") => ref[o].key = 0
  BY DEF IInv, FieldsFit, Is
<1> QED
  BY <1>1, <1>2, <1>3 DEF FieldsMarked

-----------------------------------------------------------------------------
\* Objects N are new, or dead and used again; R are those of rootgc.
AllocStep(N) ==
  /\ N \subseteq Obj
  /\ \A n \in N : colour[n] \in {"free", Other(currentwhite)} /\ colour'[n] = currentwhite
  /\ \A o \in Obj \ N : colour'[o] = colour[o] /\ ref'[o] = ref[o] /\ at'[o] = at[o]
AllocFits(N, R) ==
  /\ \A n \in N : ObjFits(n)' /\ RefsLive(n)'
  /\ \A n \in N : colour[n] = "free" \/ at'[n] = at[n]
  /\ \A n \in N : at'[n] \in {at[n], <<>>} \/ Opened(n)
  /\ \A n \in N : n \in R \/ Is(n, "string") \/ at'[n] # <<>>
  /\ \A r \in R : /\ r \in N /\ colour[r] = "free" /\ ~Is(r, "string") /\ at'[r] = <<>>
                  /\ \A u \in Obj : at'[u] # <<>> => at'[u][1] # r
AllocFrame == stage = 0 /\ UNCHANGED <<running, arg, lists, sweepstrgc, sweepgc>>

\* Steps that allocate objects keep the invariant.
LEMMA AllocOp ==
  ASSUME IInv, OpFrame, TypeOK', AllocFrame, FinalizedOK', StackFits,
         NEW N, NEW R, AllocStep(N), AllocFits(N, R), RootGrown(R)
  PROVE  IInv'
<1>0. /\ shape' = shape /\ currentwhite' = currentwhite /\ stage = 0
      /\ gray' = gray /\ grayagain' = grayagain /\ weak' = weak /\ sweepgc' = sweepgc
      /\ sweepstrgc' = sweepstrgc /\ tmudata' = tmudata /\ arg' = arg /\ running' = running
      /\ gcstate' = gcstate /\ stage' = stage /\ full' = full
  BY DEF OpFrame, AllocFrame, lists
<1>a. Obj' = Obj /\ Obj0' = Obj0 /\ OfKind("thread")' = OfKind("thread")
  BY <1>0, ShapeSame
<1>b. /\ Whites = {"white0", "white1"} /\ currentwhite \in Whites /\ Other(currentwhite) \in Whites
      /\ Other(currentwhite) # currentwhite
  BY DEF Whites, Other, IInv, TypeOK
<1>c. \A o \in Obj : colour[o] # "free" => colour'[o] # "free"
  BY <1>b DEF AllocStep
<1>d. \A u \in Obj : at[u] # <<>> => colour[u] \notin {"free", "black"} /\ colour[at[u][1]] # "free"
                                      /\ at[u][1] \in Obj
  <2>1. \A u \in Obj : at[u] # <<>> => \E th \in OfKind("thread") : \E l \in Slots(th) : at[u] = <<th, l>>
    BY DEF IInv, TypeOK
  <2>2. \A u \in Obj : at[u] # <<>> => at[u][1] \in Obj
    BY <2>1 DEF OfKind
  <2>3. QED
    BY <2>2 DEF IInv, OpenFit, Open
<1>e. ASSUME NEW o \in Obj, IsClean(o) PROVE colour'[o] \in {"free", currentwhite}
  BY <1>e, <1>b DEF IsClean, AllocStep
<1>2. FieldsFit'
  <2>1. \A o \in Obj : \/ ref'[o] = ref[o] /\ at'[o] = at[o] /\ (colour'[o] = "free" <=> colour[o] = "free")
                       \/ ObjFits(o)'
    BY DEF AllocStep, AllocFits
  <2>2. QED
    BY <1>0, <2>1, FieldsOp
<1>3. SlotsFit'
  <2>1. \A th \in OfKind("thread") : colour'[th] = "free" => colour[th] = "free"
    BY <1>c DEF OfKind
  <2>2. QED
    BY <1>0, <2>1, SlotsOp
<1>4. OpenFit'
  <2>1. \A u \in Obj : at'[u] \in {at[u], <<>>} \/ Opened(u)
    BY DEF AllocStep, AllocFits
  <2>2. \A u \in Obj : at'[u] # <<>> => colour'[u] \notin {"free", "black"}
    BY <1>b, <1>d DEF AllocStep
  <2>3. \A u \in Obj : at'[u] # <<>> /\ at'[u] = at[u] => colour'[at[u][1]] # "free"
    BY <1>c, <1>d
  <2>4. QED
    BY <1>0, <2>1, <2>2, <2>3, OpenOp
<1>5. Linked'
  <2>0. Linked /\ Range(rootgc) \subseteq Obj /\ Range(tmudata) \subseteq Obj
    BY RangeHas DEF IInv, TypeOK
  <2>1. IsInjective(rootgc') /\ Range(rootgc') = R \cup Range(rootgc)
    BY DEF RootGrown
  <2>2. \A r \in R : colour'[r] # "free" /\ ~Is(r, "string") /\ at'[r] = <<>> /\ r \notin Range(tmudata)
    <3>1. \A o \in Range(tmudata) : colour[o] # "free"
      BY <2>0 DEF Linked
    <3>2. \A r \in R : r \in N /\ colour[r] = "free" /\ ~Is(r, "string") /\ at'[r] = <<>>
      BY DEF AllocFits
    <3>3. QED
      BY <1>b, <3>1, <3>2 DEF AllocStep
  <2>3. \A o \in Range(rootgc) : colour'[o] # "free" /\ at'[o] = at[o]
    <3>1. \A o \in Range(rootgc) : colour[o] # "free"
      BY <2>0 DEF Linked
    <3>2. QED
      BY <1>c, <2>0, <3>1 DEF AllocStep, AllocFits
  <2>4. \A o \in Range(tmudata) : colour'[o] # "free"
    BY <1>c, <2>0 DEF Linked
  <2>5. \A o \in Obj : colour'[o] # "free" =>
            (colour[o] # "free" /\ at'[o] = at[o]) \/ Is(o, "string") \/ at'[o] # <<>> \/ o \in R
    BY DEF AllocStep, AllocFits
  <2>6. QED
    BY <1>0, <2>1, <2>2, <2>3, <2>4, <2>5, LinkedOp
<1>6. Coloured'
  <2>1. Coloured
    BY DEF IInv
  <2>2. \A o \in Obj : colour'[o] \in Whites \/ (colour'[o] = colour[o] /\ at'[o] = at[o])
    BY <1>b DEF AllocStep
  <2>3. QED
    BY <1>0, <1>a, <1>b, <2>1, <2>2 DEF Coloured, Is, Open
<1>7. Phases'
  <2>1. \A o \in Obj : colour'[o] = Other(currentwhite) => colour[o] = Other(currentwhite)
    BY <1>b DEF AllocStep
  <2>2. gcstate \in {"pause", "finalize"} =>
           \A o \in Obj : IsClean(o) => colour'[o] \in {"free", currentwhite}
    BY <1>e
  <2>3. QED
    BY <1>0, <2>1, <2>2, PhasesOp
<1>8. SweepString'
  <2>1. gcstate = "sweepstring" => \A o \in Obj : IsClean(o) => colour'[o] \in {"free", currentwhite}
    BY <1>e
  <2>2. UNCHANGED <<sweepstrgc, sweepgc>>
    BY <1>0
  <2>3. QED
    BY <2>1, <2>2, SweepStringOp
<1>9. Sweep'
  <2>1. gcstate = "sweep" => \A o \in Obj : IsClean(o) => colour'[o] \in {"free", currentwhite}
    BY <1>e
  <2>2. gcstate = "sweep" => \A o \in Obj : Is(o, "string") => colour'[o] \in {"free", currentwhite}
    BY <1>e DEF IInv, Sweep
  <2>3. gcstate = "sweep" /\ sweepgc # 0 => sweepgc \in Range(rootgc') /\ sweepgc # rootgc'[Len(rootgc')]
    BY DEF RootGrown
  <2>4. gcstate = "sweep" => \A o \in Obj : Before(rootgc', sweepgc, o) =>
           \/ Before(rootgc, sweepgc, o)
           \/ colour'[o] \in {"free", currentwhite} /\ (Is(o, "thread") => \A u \in Obj : at'[u] # <<>> => at'[u][1] # o)
    BY DEF RootGrown, AllocStep, AllocFits
  <2>5. gcstate = "sweep" => \A u \in Obj : at'[u] # <<>> =>
           at'[u] = at[u] \/ colour'[u] \in {"free", currentwhite}
    BY DEF AllocStep
  <2>6. QED
    BY <1>0, <2>1, <2>2, <2>3, <2>4, <2>5, SweepOp
<1>10. LivingRefs'
  <2>1. LivesOn
    BY <1>b, ShapeIs DEF LivesOn, Living, Live, AllocStep, IInv
  <2>2. Live(colour', currentwhite, running') /\ running' \in Obj
    BY <1>0, <2>1, RunningIs DEF LivesOn
  <2>3. \A o \in Obj : Live(colour', currentwhite, o) =>
            (Living(o) /\ ref'[o] = ref[o] /\ at'[o] = at[o]) \/ RefsLive(o)'
    BY DEF AllocStep, AllocFits, Living, Live
  <2>4. QED
    BY <1>0, <2>1, <2>2, <2>3, LivingOp
<1>11. Marked'
  <2>1. gcstate = "propagate" =>
           \A o \in Obj : /\ (colour'[o] = colour[o] \/ (colour[o] = "free" /\ colour'[o] \in Whites)
                              \/ (Is(o, "string") /\ {colour[o], colour'[o]} \subseteq Whites \cup {"free"}))
                          /\ colour[o] = "black" => ref'[o] = ref[o] /\ (ref[o].key # 0 => colour'[ref[o].key] # "free")
    <3> SUFFICES ASSUME gcstate = "propagate", NEW o \in Obj
                 PROVE  /\ colour'[o] = colour[o] \/ (colour[o] = "free" /\ colour'[o] \in Whites)
                        /\ colour[o] = "black" => ref'[o] = ref[o] /\ (ref[o].key # 0 => colour'[ref[o].key] # "free")
      OBVIOUS
    <3>1. colour[o] # Other(currentwhite)
      BY DEF IInv, Phases, IsDead
    <3>2. colour[o] = "black" => ref'[o] = ref[o]
      BY <1>b DEF AllocStep
    <3>3. colour[o] = "black" => (ref[o].key # 0 => colour'[ref[o].key] # "free")
      BY <1>c, BlackKey, RefIs DEF IInv, Obj0
    <3>4. colour'[o] = colour[o] \/ (colour[o] = "free" /\ colour'[o] \in Whites)
      BY <1>b, <3>1 DEF AllocStep
    <3>5. QED
      BY <3>2, <3>3, <3>4
  <2>2. UNCHANGED lists
    BY DEF AllocFrame
  <2>3. QED
    BY <1>0, <2>1, <2>2, MarkedOp
<1> QED
  BY <1>2, <1>3, <1>4, <1>5, <1>6, <1>7, <1>8, <1>9, <1>10, <1>11 DEF IInv

\* The object that is allocated is free before.
LEMMA NewIs ==
  ASSUME IInv, NEW k, Fresh(k) # {}
  PROVE  /\ NewOf(k) \in Obj /\ Is(NewOf(k), k) /\ colour[NewOf(k)] = "free"
         /\ ref[NewOf(k)] = Nothing /\ at[NewOf(k)] = <<>>
<1>1. Fresh(k) \in SUBSET Nat
  BY ShapeIs DEF Fresh, OfKind, IInv
<1>2. \E o \in Fresh(k) : \A x \in Fresh(k) : o <= x
  BY <1>1, LeastNat
<1>3. NewOf(k) \in Fresh(k)
  BY <1>2 DEF NewOf
<1>4. NewOf(k) \in Obj /\ Is(NewOf(k), k) /\ colour[NewOf(k)] = "free"
  BY <1>3 DEF Fresh, OfKind
<1> QED
  BY <1>4 DEF IInv, FieldsFit, OpenFit, Open

\* What a step of the program leaves of the type invariant to show.
TypeStep ==
  /\ colour' \in [Obj -> Colours]
  /\ ref' \in [Obj -> [key : Obj0, val : Obj0, meta : Obj0]]
  /\ DOMAIN at' = Obj
  /\ \A o \in Obj : at'[o] \in {<<>>, at[o]} \/ \E th \in OfKind("thread") : \E l \in Slots(th) : at'[o] = <<th, l>>
  /\ gray' \in Seq(Obj) /\ grayagain' \in Seq(Obj) /\ weak' \in Seq(Obj)
  /\ rootgc' \in Seq(Obj) /\ sweepgc' \in Obj0 /\ sweepstrgc' \in Nat
  /\ finalized' \subseteq Obj /\ called' \subseteq Obj
\* Types after an allocation.
LEMMA TypeOp ==
  ASSUME IInv, OpFrame, StackFits, TypeStep, running' = running, arg' = arg
  PROVE  TypeOK'
<1>1. Obj' = Obj /\ Obj0' = Obj0 /\ OfKind("thread")' = OfKind("thread") /\ (\A th : Slots(th)' = Slots(th))
  BY ShapeSame DEF OpFrame, Slots
<1>2. TypeOK
  BY DEF IInv
<1>3. \A o \in Obj : at'[o] = <<>> \/ \E th \in OfKind("thread") : \E l \in Slots(th) : at'[o] = <<th, l>>
  BY <1>2 DEF TypeStep, TypeOK
<1>4. shape' \in Shapes /\ DOMAIN stack' = OfKind("thread") /\ (\A th \in OfKind("thread") : stack'[th] \in [Slots(th) -> Obj0])
  BY <1>2 DEF TypeOK, StackFits, OpFrame
<1>5. /\ running' \in OfKind("thread") /\ arg' \in Obj0 /\ currentwhite' \in Whites /\ gcstate' \in States
      /\ stage' \in 0..4 /\ full' \in {"no", "sweep", "mark"} /\ tmudata' \in Seq(Obj)
  BY <1>2 DEF TypeOK, OpFrame
<1> QED
  BY <1>1, <1>3, <1>4, <1>5 DEF TypeOK, TypeStep

\* Records of new objects.
LEMMA RecordsAre ==
  ASSUME TypeOK
  PROVE  /\ Nothing \in [key : Obj0, val : Obj0, meta : Obj0]
         /\ \A v \in Obj0 : /\ [Nothing EXCEPT !.val = v] \in [key : Obj0, val : Obj0, meta : Obj0]
                            /\ [Nothing EXCEPT !.val = v] = [key |-> 0, val |-> v, meta |-> 0]
         /\ [Nothing EXCEPT !.val = 0] = Nothing
         /\ currentwhite \in Colours /\ currentwhite # "free" /\ currentwhite # "black"
         /\ Other(currentwhite) # currentwhite /\ currentwhite \in Whites /\ currentwhite # "gray"
<1>1. Nothing \in [key : Obj0, val : Obj0, meta : Obj0]
  BY DEF Nothing, Obj0
<1>2. \A v : [Nothing EXCEPT !.val = v] = [key |-> 0, val |-> v, meta |-> 0]
  BY DEF Nothing
<1>3. \A v \in Obj0 : [key |-> 0, val |-> v, meta |-> 0] \in [key : Obj0, val : Obj0, meta : Obj0]
  BY DEF Obj0
<1>4. [Nothing EXCEPT !.val = 0] = Nothing
  BY <1>2 DEF Nothing
<1>5. /\ currentwhite \in Colours /\ currentwhite # "free" /\ currentwhite # "black"
      /\ Other(currentwhite) # currentwhite /\ currentwhite \in Whites /\ currentwhite # "gray"
  BY DEF Colours, Whites, TypeOK, Other
<1> QED
  BY <1>1, <1>2, <1>3, <1>4, <1>5

\* One new object of rootgc, put on the stack.
LEMMA FreshOp ==
  ASSUME IInv, OpFrame, AllocFrame, NEW n \in Obj, NEW k \in {"table", "thread", "udata", "cclosure"},
         Is(n, k), colour[n] = "free", at[n] = <<>>,
         NEW v \in Plain, Living(v), k # "cclosure" => v = 0,
         NEW s \in Slots(running), Put(s, n),
         LinkAs(n, [Nothing EXCEPT !.val = v]), at' = at,
         RootGrown({n}), rootgc' \in Seq(Obj),
         finalized' \subseteq Obj, called' \subseteq Obj, FinalizedOK'
  PROVE  IInv'
<1> DEFINE N == {n}
<1>1. colour' = [colour EXCEPT ![n] = currentwhite] /\ ref' = [ref EXCEPT ![n] = [Nothing EXCEPT !.val = v]]
  BY DEF LinkAs
<1>2. colour \in [Obj -> Colours] /\ ref \in [Obj -> [key : Obj0, val : Obj0, meta : Obj0]]
      /\ currentwhite \in Whites
  BY DEF IInv, TypeOK
<1>3. /\ colour'[n] = currentwhite /\ ref'[n] = [key |-> 0, val |-> v, meta |-> 0]
      /\ \A o \in Obj \ {n} : colour'[o] = colour[o] /\ ref'[o] = ref[o]
  BY <1>1, <1>2, PlainHas, RecordsAre DEF IInv
<1>4. AllocStep(N)
  BY <1>3 DEF AllocStep
<1>5. running # n /\ colour'[running] # "free" /\ n \in Plain /\ n # 0
  BY <1>3, RunningIs, ShapeIs DEF Plain, Obj0, OfKind, Is, IInv
<1>6. Live(colour', currentwhite, n)
  BY <1>2, <1>3, RecordsAre DEF Live, IInv
<1>7. StackFits
  BY <1>5, <1>6, RunningIs, PutFits DEF Put
<1>8. TypeOK'
  <2>1. gray \in Seq(Obj) /\ grayagain \in Seq(Obj) /\ weak \in Seq(Obj) /\ sweepgc \in Obj0 /\ sweepstrgc \in Nat
        /\ DOMAIN at = Obj
    BY DEF IInv, TypeOK
  <2>2. colour' \in [Obj -> Colours] /\ ref' \in [Obj -> [key : Obj0, val : Obj0, meta : Obj0]]
    BY <1>1, <1>2, PlainHas, RecordsAre DEF IInv
  <2>3. TypeStep
    BY <2>1, <2>2 DEF TypeStep, AllocFrame, lists
  <2>4. QED
    BY <1>7, <2>3, TypeOp DEF AllocFrame
<1>9. Obj' = Obj /\ Plain' = Plain /\ OfKind("table")' = OfKind("table") /\ shape' = shape /\ currentwhite' = currentwhite
      /\ (\A th : Slots(th)' = Slots(th))
  BY ShapeSame DEF OpFrame, Slots
<1>10. ObjFits(n)'
  <2>1. 0 \in Plain /\ (Is(n, "lclosure") => FALSE) /\ (Is(n, "udata") \/ Is(n, "thread") \/ Is(n, "string") => v = 0)
    BY ShapeIs DEF Plain, Obj0, OfKind, Is, IInv
  <2>2. colour'[n] # "free" /\ at'[n] = <<>>
    BY <1>3, RecordsAre DEF IInv
  <2>3. QED
    BY <1>3, <1>9, <2>1, <2>2 DEF ObjFits, Is, Open
<1>11. RefsLive(n)'
  <2>1. Live(colour', currentwhite, v) /\ Live(colour', currentwhite, 0)
    BY <1>3, PlainHas DEF Live, Living
  <2>2. ~Is(n, "upval")
    BY DEF Is
  <2>3. ASSUME Is(n, "thread"), NEW l \in Slots(n) PROVE stack'[n][l] = 0
    <3>1. n \in OfKind("thread")
      BY <2>3 DEF OfKind
    <3>2. stack[n][l] = 0
      BY <3>1 DEF IInv, SlotsFit
    <3>3. stack'[n] = stack[n]
      BY <1>5, <3>1, RunningIs DEF Put, IInv, TypeOK
    <3>4. QED
      BY <3>2, <3>3
  <2>4. QED
    BY <1>3, <1>9, <2>1, <2>2, <2>3 DEF RefsLive, Living, Is
<1>12. AllocFits(N, N)
  <2>1. \A u \in Obj : at'[u] # <<>> => at'[u][1] # n
    BY DEF IInv, OpenFit, Open
  <2>2. ~Is(n, "string")
    BY DEF Is
  <2>3. QED
    BY <1>10, <1>11, <2>1, <2>2 DEF AllocFits
<1> QED
  BY <1>4, <1>7, <1>8, <1>12, AllocOp

\* A free object is on no list.
LEMMA FreeUnlinked ==
  ASSUME IInv, NEW n, colour[n] = "free"
  PROVE  n \notin Range(rootgc) /\ n \notin Range(tmudata)
BY DEF IInv, Linked

\* A new table or thread keeps the invariant.
LEMMA NewKeeps ==
  ASSUME IInv, OpFrame, NEW s \in Slots(running), New(s)
  PROVE  IInv'
<1>1. PICK k \in {"table", "thread"} : Fresh(k) # {} /\ luaC_link(NewOf(k), Nothing) /\ Put(s, NewOf(k))
  BY DEF New
<1> PICK n : n = NewOf(k)
  OBVIOUS
<1>2. n \in Obj /\ Is(n, k) /\ colour[n] = "free" /\ at[n] = <<>>
  BY <1>1, NewIs
<1>3. LinkAs(n, [Nothing EXCEPT !.val = 0]) /\ rootgc' = <<n>> \o rootgc /\ Put(s, n)
  BY <1>1, RecordsAre DEF luaC_link, IInv
<1>4. RootGrown({n}) /\ rootgc' \in Seq(Obj)
  BY <1>2, <1>3, FreeUnlinked, RootConsed
<1>5. 0 \in Plain /\ Living(0)
  BY ShapeIs DEF Plain, Obj0, OfKind, Living, Live, IInv
<1>6. AllocFrame /\ at' = at /\ finalized' = finalized /\ called' = called
  BY DEF New, May, AllocFrame
<1>7. FinalizedOK' /\ finalized' \subseteq Obj /\ called' \subseteq Obj
  BY <1>6 DEF IInv, FinalizedOK, TypeOK, OpFrame
<1>8. k \in {"table", "thread", "udata", "cclosure"} /\ k # "cclosure"
  OBVIOUS
<1> QED
  BY <1>2, <1>3, <1>4, <1>5, <1>6, <1>7, <1>8, FreshOp

\* A new C closure keeps it.
LEMMA NewCclosureKeeps ==
  ASSUME IInv, OpFrame, NEW s \in Slots(running), NEW v \in Held, NewCclosure(s, v)
  PROVE  IInv'
<1> PICK n : n = NewOf("cclosure")
  OBVIOUS
<1>2. n \in Obj /\ Is(n, "cclosure") /\ colour[n] = "free" /\ at[n] = <<>>
  BY NewIs DEF NewCclosure
<1>3. LinkAs(n, [Nothing EXCEPT !.val = v]) /\ rootgc' = <<n>> \o rootgc /\ Put(s, n)
  BY DEF luaC_link, NewCclosure
<1>4. RootGrown({n}) /\ rootgc' \in Seq(Obj)
  BY <1>2, <1>3, FreeUnlinked, RootConsed
<1>5. v \in Plain /\ Living(v)
  BY HeldLives
<1>6. AllocFrame /\ at' = at /\ finalized' = finalized /\ called' = called
  BY DEF NewCclosure, May, AllocFrame
<1>7. FinalizedOK' /\ finalized' \subseteq Obj /\ called' \subseteq Obj
  BY <1>6 DEF IInv, FinalizedOK, TypeOK, OpFrame
<1> QED
  BY <1>2, <1>3, <1>4, <1>5, <1>6, <1>7, FreshOp

\* A new userdata keeps it.
LEMMA NewUdataKeeps ==
  ASSUME IInv, OpFrame, NEW s \in Slots(running), NewUdata(s)
  PROVE  IInv'
<1> PICK n : n = NewOf("udata")
  OBVIOUS
<1>2. n \in Obj /\ Is(n, "udata") /\ colour[n] = "free" /\ at[n] = <<>>
  BY NewIs DEF NewUdata
<1>3. LinkAs(n, [Nothing EXCEPT !.val = 0]) /\ rootgc' = After(rootgc, Main, n) /\ Put(s, n)
  BY RecordsAre DEF NewUdata, IInv
<1>4. Main \in Range(rootgc)
  <2>1. Main \in Obj /\ colour[Main] # "free" /\ Is(Main, "thread")
    BY MainIs DEF OfKind
  <2>2. ~Open(Main)
    BY <2>1, ShapeIs DEF IInv, OpenFit, Is
  <2>3. Main \notin Range(tmudata) /\ ~Is(Main, "string")
    BY <2>1 DEF IInv, Linked, Is
  <2>4. QED
    BY <2>1, <2>2, <2>3 DEF IInv, Linked
<1>5. RootGrown({n}) /\ rootgc' \in Seq(Obj)
  <2>1. n \notin Range(rootgc)
    BY <1>2, FreeUnlinked
  <2>2. PICK x \in Range(rootgc) : x = Main
    BY <1>4
  <2>3. rootgc' = After(rootgc, x, n)
    BY <1>3, <2>2
  <2>4. QED
    BY <1>2, <2>1, <2>3, RootAfter
<1>6. 0 \in Plain /\ Living(0)
  BY ShapeIs DEF Plain, Obj0, OfKind, Living, Live, IInv
<1>7. AllocFrame /\ at' = at /\ finalized' = finalized \ {n} /\ called' = called \ {n}
  BY DEF NewUdata, May, AllocFrame
<1>8. FinalizedOK' /\ finalized' \subseteq Obj /\ called' \subseteq Obj
  BY <1>2, <1>7, FreeUnlinked DEF IInv, FinalizedOK, TypeOK, OpFrame
<1> QED
  BY <1>2, <1>3, <1>5, <1>6, <1>7, <1>8, FreshOp

\* The fields of an object fit.
LEMMA FitsNow ==
  ASSUME IInv, NEW o \in Obj
  PROVE  ObjFits(o)
BY DEF IInv, FieldsFit, ObjFits

\* A string made, or found again while it is dead, keeps the invariant.
LEMMA StringKeeps ==
  ASSUME IInv, OpFrame, NEW s \in Slots(running), NEW o \in OfKind("string"), luaS_newlstr(s, o)
  PROVE  IInv'
<1> DEFINE again == colour[o] = "free" \/ IsDead(o)
           N == IF again THEN {o} ELSE {}
           R == {}
<1>1. o \in Obj /\ Is(o, "string") /\ colour \in [Obj -> Colours] /\ o # 0 /\ o \in Plain
  BY ShapeIs DEF OfKind, IInv, TypeOK, Plain, Obj0, Is
<1>2. colour' = IF again THEN [colour EXCEPT ![o] = currentwhite] ELSE colour
  BY DEF luaS_newlstr, Changewhite
<1>3. /\ ref' = ref /\ at' = at /\ running' = running /\ arg' = arg /\ rootgc' = rootgc /\ sweepgc' = sweepgc
      /\ sweepstrgc' = sweepstrgc /\ finalized' = finalized /\ called' = called /\ UNCHANGED lists /\ stage = 0
      /\ Put(s, o)
  BY DEF luaS_newlstr, May, sweeping
<1>4. AllocStep(N)
  BY <1>1, <1>2, <1>3 DEF AllocStep, IsDead
<1>5. colour' \in [Obj -> Colours] /\ Live(colour', currentwhite, o)
  BY <1>1, <1>2, RecordsAre DEF IInv, IsDead, Live
<1>6. colour'[running] # "free"
  BY <1>1, <1>2, RunningIs, RecordsAre DEF IInv
<1>7. StackFits
  BY <1>1, <1>3, <1>5, <1>6, RunningIs, PutFits DEF Put
<1>8. TypeOK'
  <2>1. TypeOK
    BY DEF IInv
  <2>2. TypeStep
    BY <1>3, <1>5, <2>1 DEF TypeStep, TypeOK, lists
  <2>3. QED
    BY <1>3, <1>7, <2>2, TypeOp
<1>9. RootGrown(R)
  BY <1>3, RootSame
<1>10. FinalizedOK' /\ AllocFrame
  BY <1>3 DEF IInv, FinalizedOK, OpFrame, AllocFrame
<1>11. Obj' = Obj /\ Plain' = Plain /\ OfKind("table")' = OfKind("table") /\ shape' = shape
  BY ShapeSame DEF OpFrame
<1>12. /\ ref[o].key = 0 /\ ref[o].val = 0 /\ ref[o].meta = 0
       /\ ~Is(o, "upval") /\ ~Is(o, "lclosure") /\ ~Is(o, "thread") /\ at[o] = <<>>
  BY <1>1 DEF IInv, FieldsFit, OpenFit, Open, Is
<1>13. ASSUME again PROVE ObjFits(o)' /\ RefsLive(o)'
  <2>1. colour'[o] # "free"
    BY <1>5, <1>1 DEF Live
  <2>2. ObjFits(o)
    BY <1>1, FitsNow
  <2>3. ObjFits(o)'
    BY <1>3, <1>11, <1>12, <2>1, <2>2 DEF ObjFits, Is, Open
  <2>4. QED
    BY <1>3, <1>11, <1>12, <2>3 DEF RefsLive, Is, Living, Live
<1>14. AllocFits(N, R)
  BY <1>1, <1>3, <1>13 DEF AllocFits
<1> QED
  BY <1>4, <1>7, <1>8, <1>9, <1>10, <1>14, AllocOp

\* The value of an upvalue of the thread that runs.
LEMMA LocalLives ==
  ASSUME IInv, NEW l \in Slots(running)
  PROVE  stack[running][l] \in Plain /\ Living(stack[running][l])
<1>1. stack[running][l] \in Plain
  BY RunningIs DEF IInv, SlotsFit
<1>2. Is(running, "thread") /\ running \in Obj /\ Living(running)
  BY RunningIs DEF OfKind
<1> QED
  BY <1>1, <1>2 DEF IInv, LivingRefs

\* A Lua closure with a new upvalue, or one shared with others, keeps it.
LEMMA NewLclosureKeeps ==
  ASSUME IInv, OpFrame, NEW s \in Slots(running), NEW l \in Slots(running), NewLclosure(s, l)
  PROVE  IInv'
<1> DEFINE us == UpvalsAt(running, l)
<1>1. PICK c \in {NewOf("lclosure")}, u \in IF us # {} THEN us ELSE Fresh("upval") :
       /\ us = {} => u = NewOf("upval")
       /\ colour' = IF us = {} THEN [colour EXCEPT ![c] = currentwhite, ![u] = currentwhite]
                    ELSE [Changewhite(u) EXCEPT ![c] = currentwhite]
       /\ ref' = [ref EXCEPT ![c] = [Nothing EXCEPT !.val = u]]
       /\ at' = [at EXCEPT ![u] = <<running, l>>]
       /\ rootgc' = <<c>> \o rootgc
       /\ Put(s, c)
  BY DEF NewLclosure
<1>2. /\ running' = running /\ arg' = arg /\ UNCHANGED lists /\ sweepgc' = sweepgc /\ sweepstrgc' = sweepstrgc
      /\ finalized' = finalized /\ called' = called /\ stage = 0 /\ l # s /\ Fresh("lclosure") # {}
  BY DEF NewLclosure, May
<1>3. c \in Obj /\ Is(c, "lclosure") /\ colour[c] = "free" /\ at[c] = <<>>
  BY <1>1, <1>2, NewIs
<1>4. us = {} => u \in Obj /\ Is(u, "upval") /\ colour[u] = "free" /\ ref[u] = Nothing /\ at[u] = <<>>
  BY <1>1, NewIs
<1>5. us # {} => u \in Obj /\ Is(u, "upval") /\ at[u] = <<running, l>>
  BY <1>1 DEF UpvalsAt, OfKind
<1>6. us # {} => colour[u] \notin {"free", "black"} /\ ref[u] = Nothing
  <2> SUFFICES ASSUME us # {} PROVE colour[u] \notin {"free", "black"} /\ ref[u] = Nothing
    OBVIOUS
  <2>1. u \in Obj /\ at[u] = <<running, l>>
    BY <1>5
  <2>2. at[u] # <<>>
    BY <2>1
  <2>3. QED
    BY <2>1, <2>2 DEF IInv, OpenFit, FieldsFit, Open
<1>7. u \in Obj /\ Is(u, "upval") /\ u # c /\ u # 0 /\ u \in Obj0
  BY <1>3, <1>4, <1>5, ShapeIs DEF Is, IInv, Obj0
<1> DEFINE again == us = {} \/ IsDead(u)
           N == IF again THEN {c, u} ELSE {c}
           R == {c}
<1> HIDE DEF us
<1>8. colour \in [Obj -> Colours] /\ ref \in [Obj -> [key : Obj0, val : Obj0, meta : Obj0]] /\ DOMAIN at = Obj
      /\ currentwhite \in Colours /\ currentwhite # "free"
  BY RecordsAre DEF IInv, TypeOK
<1>9. colour' = IF again THEN [colour EXCEPT ![c] = currentwhite, ![u] = currentwhite]
                ELSE [colour EXCEPT ![c] = currentwhite]
  <2>1. CASE us = {}
    BY <1>1, <2>1
  <2>2. CASE us # {} /\ IsDead(u)
    <3>1. colour' = [[colour EXCEPT ![u] = currentwhite] EXCEPT ![c] = currentwhite]
      BY <1>1, <2>2 DEF Changewhite
    <3>2. [[colour EXCEPT ![u] = currentwhite] EXCEPT ![c] = currentwhite]
            = [colour EXCEPT ![c] = currentwhite, ![u] = currentwhite]
      BY <1>3, <1>7, <1>8
    <3>3. QED
      BY <2>2, <3>1, <3>2
  <2>3. CASE us # {} /\ ~IsDead(u)
    BY <1>1, <2>3 DEF Changewhite
  <2>4. QED
    BY <2>1, <2>2, <2>3
<1>10. /\ colour'[c] = currentwhite
       /\ colour'[u] = (IF again THEN currentwhite ELSE colour[u])
       /\ \A o \in Obj : o # c /\ o # u => colour'[o] = colour[o]
       /\ colour' \in [Obj -> Colours]
  BY <1>3, <1>7, <1>8, <1>9
<1>11. [Nothing EXCEPT !.val = u] = [key |-> 0, val |-> u, meta |-> 0]
       /\ [key |-> 0, val |-> u, meta |-> 0] \in [key : Obj0, val : Obj0, meta : Obj0]
  BY <1>7, RecordsAre DEF IInv
<1>12. /\ ref' \in [Obj -> [key : Obj0, val : Obj0, meta : Obj0]]
       /\ ref'[c] = [key |-> 0, val |-> u, meta |-> 0] /\ \A o \in Obj : o # c => ref'[o] = ref[o]
  BY <1>1, <1>3, <1>8, <1>11
<1>13. /\ DOMAIN at' = Obj /\ at'[u] = <<running, l>> /\ \A o \in Obj : o # u => at'[o] = at[o]
  BY <1>1, <1>7, <1>8
<1>14. AllocStep(N)
  BY <1>3, <1>4, <1>7, <1>10, <1>12, <1>13, <1>5 DEF AllocStep, IsDead
<1>15. Live(colour', currentwhite, c) /\ Live(colour', currentwhite, u)
  BY <1>6, <1>10, RecordsAre DEF Live, IInv, IsDead
<1>16. running # c /\ running # u /\ colour'[running] # "free" /\ c \in Plain
  BY <1>3, <1>7, <1>10, RunningIs, ShapeIs DEF OfKind, Is, Plain, Obj0, IInv
<1>17. StackFits
  BY <1>1, <1>15, <1>16, RunningIs, PutFits DEF Put
<1>18. RootGrown(R) /\ rootgc' \in Seq(Obj)
  BY <1>1, <1>3, FreeUnlinked, RootConsed
<1>19. TypeOK'
  <2>1. TypeOK
    BY DEF IInv
  <2>2. TypeStep
    BY <1>2, <1>10, <1>12, <1>13, <1>18, <2>1, RunningIs DEF TypeStep, TypeOK, lists
  <2>3. QED
    BY <1>2, <1>17, <2>2, TypeOp
<1>20. FinalizedOK' /\ AllocFrame
  BY <1>2 DEF IInv, FinalizedOK, OpFrame, AllocFrame
<1>21. Obj' = Obj /\ Plain' = Plain /\ OfKind("table")' = OfKind("table") /\ shape' = shape /\ currentwhite' = currentwhite
  BY ShapeSame DEF OpFrame
<1>22. 0 \in Plain /\ Living(0) /\ Live(colour', currentwhite, 0)
  BY ShapeIs DEF Plain, Obj0, OfKind, Living, Live, IInv
<1>23. ObjFits(c)' /\ RefsLive(c)'
  <2>1. at'[c] = <<>> /\ colour'[c] # "free"
    BY <1>3, <1>7, <1>8, <1>10, <1>13
  <2>2. ObjFits(c)'
    BY <1>3, <1>7, <1>12, <1>21, <1>22, <2>1 DEF ObjFits, Is, Open
  <2>3. QED
    BY <1>3, <1>12, <1>15, <1>21, <1>22, <2>2 DEF RefsLive, Is, Living
<1>24. ObjFits(u)' /\ RefsLive(u)'
  <2>1. ref'[u] = Nothing /\ ref[u] = Nothing
    BY <1>4, <1>6, <1>7, <1>12
  <2>2. ObjFits(u)'
    BY <1>7, <1>21, <1>22, <2>1 DEF ObjFits, Is, Nothing
  <2>3. at'[u] # <<>> /\ at'[u][1] = running /\ at'[u][2] = l
    BY <1>13
  <2>4. ValueOf(u)' = stack'[running][l]
    BY <2>3 DEF ValueOf, Open
  <2>5. stack'[running][l] = stack[running][l]
    BY <1>1, <1>2, RunningIs DEF Put, IInv, TypeOK
  <2>6. LivesOn
    BY <1>14, RecordsAre, ShapeIs DEF LivesOn, Living, Live, AllocStep, IInv
  <2>7. Live(colour', currentwhite, stack'[running][l])
    <3>1. stack[running][l] \in Plain /\ Living(stack[running][l])
      BY LocalLives
    <3>2. QED
      BY <2>5, <2>6, <3>1, PlainHas DEF LivesOn, Live
  <2>8. QED
    BY <1>7, <1>21, <1>22, <2>1, <2>2, <2>4, <2>7 DEF RefsLive, Is, Living, Nothing
<1>25. Opened(u)
  <2>1. at'[u] = <<running, l>> /\ at'[u] # <<>> /\ at'[u][1] = running
    BY <1>13
  <2>2. ASSUME NEW v \in Obj, at'[v] = at'[u], v # u PROVE FALSE
    <3>1. at[v] = <<running, l>> /\ at[v] # <<>>
      BY <1>13, <2>1, <2>2
    <3>2. Is(v, "upval")
      BY <3>1 DEF IInv, OpenFit, Open
    <3>3. us # {}
      BY <3>1, <3>2 DEF us, UpvalsAt, OfKind
    <3>4. at[u] = at[v]
      BY <1>5, <3>1, <3>3
    <3>5. QED
      BY <1>7, <2>2, <3>1, <3>4 DEF IInv, OpenFit, Open
  <2>3. QED
    BY <1>7, <1>16, <2>1, <2>2 DEF Opened
<1>26. \A x \in Obj : at'[x] # <<>> => at'[x][1] # c
  <2>1. \A x \in Obj : at[x] # <<>> => at[x][1] # c
    BY <1>3 DEF IInv, OpenFit, Open
  <2>2. QED
    BY <1>13, <1>16, <2>1
<1>27. AllocFits(N, R)
  <2>1. ~Is(c, "string") /\ at'[c] = <<>> /\ at'[u] # <<>> /\ c \in N
    BY <1>3, <1>7, <1>13 DEF Is
  <2>2. colour[u] = "free" \/ at'[u] = at[u]
    BY <1>4, <1>5, <1>13
  <2>3. QED
    BY <1>3, <1>23, <1>24, <1>25, <1>26, <2>1, <2>2 DEF AllocFits
<1> QED
  BY <1>14, <1>17, <1>18, <1>19, <1>20, <1>27, AllocOp

-----------------------------------------------------------------------------
(* What marking leaves as it is.                                           *)
ListsFit(c, g, a, w) ==
  /\ IsInjective(g) /\ IsInjective(a) /\ IsInjective(w)
  /\ Range(g) \cap Range(a) = {} /\ Range(g) \cap Range(w) = {} /\ Range(a) \cap Range(w) = {}
  /\ Range(g) \cup Range(a) \cup Range(w) = GrayObjects(c)
FM(c, o) ==
  /\ NW(c, ref[o].key) /\ NW(c, ref[o].val) /\ NW(c, ref[o].meta)
  /\ ref[o].key # 0 => c[ref[o].key] # "free"

\* What has become gray is on one list.
LEMMA GrownLists ==
  ASSUME TypeOK, NEW m, NEW x, NEW B, Grown(m, x, {}, B), NEW a, NEW w, ListsFit(m.colour, m.gray, a, w)
  PROVE  ListsFit(x.colour, x.gray, a, w)
<1>1. Whites = {"white0", "white1"}
  BY DEF Whites
<1>2. IsInjective(x.gray) /\ Range(x.gray) = Range(m.gray) \cup NewGray(m, x)
  BY DEF Grown, GrewList
<1>3. NewGray(m, x) \cap GrayObjects(m.colour) = {}
  BY <1>1 DEF NewGray, GrayObjects
<1>4. GrayObjects(x.colour) = GrayObjects(m.colour) \cup NewGray(m, x)
  <2>1. \A o \in Obj : \/ x.colour[o] = m.colour[o]
                       \/ m.colour[o] \in Whites /\ x.colour[o] \in {"gray", "black"}
                       \/ o \in B /\ m.colour[o] = "gray" /\ x.colour[o] = "black"
    BY DEF Grown, Grew
  <2>2. \A o \in B : shape.kinds[o] \notin Gathered
    BY DEF Grown, OfKind, Is, Gathered
  <2>3. QED
    BY <1>1, <2>1, <2>2 DEF NewGray, GrayObjects
<1> QED
  BY <1>2, <1>3, <1>4 DEF ListsFit

\* Which colours an object may have got.
LEMMA GrownColours ==
  ASSUME TypeOK, NEW m, NEW x, NEW B, Grown(m, x, {}, B), NEW o \in Obj
  PROVE  /\ x.colour[o] = "free" <=> m.colour[o] = "free"
         /\ x.colour[o] \in Whites => x.colour[o] = m.colour[o]
         /\ x.colour[o] = m.colour[o] \/ x.colour[o] \in {"gray", "black"}
         /\ Is(o, "thread") /\ x.colour[o] = "black" => m.colour[o] = "black"
         /\ Is(o, "udata") /\ x.colour[o] = "gray" => m.colour[o] = "gray"
         /\ Is(o, "upval") /\ x.colour[o] = "gray" => m.colour[o] = "gray" \/ Open(o)
         /\ Open(o) /\ x.colour[o] = "black" => m.colour[o] = "black" \/ Is(o, "udata") \/ o \in B
<1>1. Whites = {"white0", "white1"}
  BY DEF Whites
<1>2. \/ x.colour[o] = m.colour[o]
      \/ m.colour[o] \in Whites /\ x.colour[o] \in {"gray", "black"}
      \/ o \in B /\ m.colour[o] = "gray" /\ x.colour[o] = "black"
  BY DEF Grown, Grew
<1>3. m.colour[o] # "black" /\ x.colour[o] = "black" => Blackened(x.colour, o, B)
  BY DEF Grown, GrewBlack
<1>4. m.colour[o] \in Whites /\ x.colour[o] = "gray" => Grayed(x.colour, o)
  BY DEF Grown, GrewGray
<1>5. Is(o, "thread") => ~Is(o, "udata") /\ ~Is(o, "upval")
  BY DEF Is
<1> QED
  BY <1>1, <1>2, <1>3, <1>4, <1>5 DEF Blackened, Grayed

\* What is black refers to nothing white.
LEMMA GrownBlack ==
  ASSUME TypeOK, FieldsFit, SlotsFit, NEW m, NEW x, NEW B, Grown(m, x, {}, B), NEW o \in Obj
  PROVE  /\ FM(m.colour, o) => FM(x.colour, o)
         /\ x.colour[o] = "black" /\ m.colour[o] # "black" /\ o \notin B => FM(x.colour, o)
         /\ x.colour[o] = "black" /\ m.colour[o] # "black" /\ o \in B => NW(x.colour, ValueOf(o))
<1>1. ref[o].key \in Obj0 /\ ref[o].val \in Obj0 /\ ref[o].meta \in Obj0 /\ 0 \notin Obj
  BY RefIs, ShapeIs
<1>2. FM(m.colour, o) => FM(x.colour, o)
  <2>1. \A r \in Obj0 : NW(m.colour, r) => NW(x.colour, r)
    BY GrownKeeps
  <2>2. \A r \in Obj : m.colour[r] # "free" => x.colour[r] # "free"
    BY GrownColours
  <2>3. QED
    BY <1>1, <2>1, <2>2 DEF FM, Obj0
<1>3. ASSUME x.colour[o] = "black", m.colour[o] # "black" PROVE Blackened(x.colour, o, B)
  BY <1>3 DEF Grown, GrewBlack
<1>4. ASSUME x.colour[o] = "black", m.colour[o] # "black", o \notin B PROVE FM(x.colour, o)
  <2>1. CASE Is(o, "udata")
    <3>1. ref[o].key = 0 /\ ref[o].val = 0 /\ ~Is(o, "upval")
      BY <2>1 DEF FieldsFit, Is
    <3>2. QED
      BY <1>3, <1>4, <3>1 DEF Blackened, FM, NW
  <2>2. CASE ~Is(o, "udata")
    <3>1. Is(o, "upval") /\ ~Open(o) /\ NW(x.colour, ValueOf(o))
      BY <1>3, <1>4, <2>2 DEF Blackened
    <3>2. ref[o].key = 0 /\ ref[o].meta = 0 /\ ValueOf(o) = ref[o].val
      BY <3>1 DEF FieldsFit, Is, ValueOf
    <3>3. QED
      BY <3>1, <3>2 DEF FM, NW
  <2>3. QED
    BY <2>1, <2>2
<1>5. ASSUME x.colour[o] = "black", m.colour[o] # "black", o \in B PROVE NW(x.colour, ValueOf(o))
  <2>1. Is(o, "upval") /\ ~Is(o, "udata")
    BY <1>5 DEF Grown, OfKind, Is
  <2>2. QED
    BY <1>3, <1>5, <2>1 DEF Blackened
<1> QED
  BY <1>2, <1>4, <1>5

\* The invariant of marking, in these terms.
LEMMA MarkingIs ==
  ASSUME IInv, gcstate = "propagate"
  PROVE  /\ ListsFit(colour, gray, grayagain, weak)
         /\ \A o \in Range(weak) : Is(o, "table")
         /\ \A o \in Range(grayagain) : Is(o, "table") \/ Is(o, "thread")
         /\ NW(colour, Main) /\ NW(colour, Globals)
         /\ \A o \in Obj : colour[o] = "black" => o \in Range(tmudata) \/ FM(colour, o)
BY DEF IInv, Marked, Marking, ListsFit, FM, FieldsMarked

-----------------------------------------------------------------------------
\* Steps of the program that store a reference and may have a barrier.
Recoloured ==
  \A o \in Obj : /\ colour'[o] = "free" <=> colour[o] = "free"
                 /\ colour'[o] = Other(currentwhite) <=> IsDead(o)
                 /\ gcstate # "propagate" /\ IsClean(o) => colour'[o] \in {"free", currentwhite}
                 /\ Is(o, "thread") => colour'[o] # "black"
                 /\ Is(o, "udata") => colour'[o] # "gray"
                 /\ Is(o, "upval") /\ colour'[o] = "gray" => at[o] # <<>>
                 /\ at[o] # <<>> => colour'[o] # "black"
Stored(o) == ref'[o] = ref[o] \/ (ObjFits(o)' /\ (Living(o) => RefsLive(o)'))
StoreFrame == stage = 0 /\ UNCHANGED <<at, running, arg, sweeping, finalized, called>>

\* A store with its barrier keeps the invariant.
LEMMA StoreOp ==
  ASSUME IInv, OpFrame, StoreFrame, TypeStep, StackFits, Recoloured, \A o \in Obj : Stored(o),
         gcstate = "propagate" => Marking'
  PROVE  IInv'
<1>0. /\ shape' = shape /\ currentwhite' = currentwhite /\ stage = 0 /\ at' = at
      /\ rootgc' = rootgc /\ sweepgc' = sweepgc
      /\ sweepstrgc' = sweepstrgc /\ tmudata' = tmudata /\ arg' = arg /\ running' = running
      /\ gcstate' = gcstate /\ stage' = stage /\ full' = full /\ finalized' = finalized /\ called' = called
  BY DEF OpFrame, StoreFrame, sweeping
<1>a. Obj' = Obj
  BY <1>0, ShapeSame
<1>d. \A u \in Obj : at[u] # <<>> => colour[u] # "free" /\ colour[at[u][1]] # "free"
                                      /\ at[u][1] \in Obj
  <2>1. \A u \in Obj : at[u] # <<>> => \E th \in OfKind("thread") : \E l \in Slots(th) : at[u] = <<th, l>>
    BY DEF IInv, TypeOK
  <2>2. \A u \in Obj : at[u] # <<>> => at[u][1] \in Obj
    BY <2>1 DEF OfKind
  <2>3. QED
    BY <2>2 DEF IInv, OpenFit, Open
<1>1. TypeOK'
  BY <1>0, TypeOp
<1>2. FieldsFit'
  <2>1. \A o \in Obj : \/ ref'[o] = ref[o] /\ at'[o] = at[o] /\ (colour'[o] = "free" <=> colour[o] = "free")
                       \/ ObjFits(o)'
    BY <1>0 DEF Stored, Recoloured
  <2>2. QED
    BY <1>0, <2>1, FieldsOp
<1>3. SlotsFit'
  <2>1. \A th \in OfKind("thread") : colour'[th] = "free" => colour[th] = "free"
    BY DEF OfKind, Recoloured
  <2>2. QED
    BY <1>0, <2>1, SlotsOp
<1>4. OpenFit'
  <2>1. \A u \in Obj : at'[u] \in {at[u], <<>>} \/ Opened(u)
    BY <1>0
  <2>2. \A u \in Obj : at'[u] # <<>> => colour'[u] \notin {"free", "black"}
    BY <1>0, <1>d DEF Recoloured
  <2>3. \A u \in Obj : at'[u] # <<>> /\ at'[u] = at[u] => colour'[at[u][1]] # "free"
    BY <1>0, <1>d DEF Recoloured
  <2>4. QED
    BY <1>0, <2>1, <2>2, <2>3, OpenOp
<1>5. Linked'
  <2>0. Linked /\ Range(rootgc) \subseteq Obj /\ Range(tmudata) \subseteq Obj
    BY RangeHas DEF IInv, TypeOK
  <2>1. \A o \in Obj : (colour[o] = "free")' <=> colour[o] = "free"
    BY DEF Recoloured
  <2>2. QED
    BY <1>0, <1>a, <2>0, <2>1 DEF Linked, Is, Open
<1>6. Coloured'
  BY <1>0, <1>a DEF Coloured, Recoloured, Is, Open
<1>7. Phases'
  <2>1. \A o \in Obj : colour'[o] = Other(currentwhite) => colour[o] = Other(currentwhite)
    BY DEF Recoloured, IsDead
  <2>2. gcstate \in {"pause", "finalize"} =>
           \A o \in Obj : IsClean(o) => colour'[o] \in {"free", currentwhite}
    BY DEF Recoloured
  <2>3. QED
    BY <1>0, <2>1, <2>2, PhasesOp
<1>8. SweepString'
  <2>1. gcstate = "sweepstring" => \A o \in Obj : IsClean(o) => colour'[o] \in {"free", currentwhite}
    BY DEF Recoloured
  <2>2. UNCHANGED <<sweepstrgc, sweepgc>>
    BY <1>0
  <2>3. QED
    BY <2>1, <2>2, SweepStringOp
<1>9. Sweep'
  <2>1. gcstate = "sweep" => \A o \in Obj : IsClean(o) => colour'[o] \in {"free", currentwhite}
    BY DEF Recoloured
  <2>2. gcstate = "sweep" => \A o \in Obj : Is(o, "string") => colour'[o] \in {"free", currentwhite}
    BY <2>1 DEF IInv, Sweep
  <2>3. gcstate = "sweep" /\ sweepgc # 0 => sweepgc \in Range(rootgc') /\ sweepgc # rootgc'[Len(rootgc')]
    BY <1>0 DEF IInv, Sweep
  <2>4. gcstate = "sweep" => \A o \in Obj : Before(rootgc', sweepgc, o) =>
           \/ Before(rootgc, sweepgc, o)
           \/ colour'[o] \in {"free", currentwhite} /\ (Is(o, "thread") => \A u \in Obj : at'[u] # <<>> => at'[u][1] # o)
    BY <1>0
  <2>5. gcstate = "sweep" => \A u \in Obj : at'[u] # <<>> =>
           at'[u] = at[u] \/ colour'[u] \in {"free", currentwhite}
    BY <1>0
  <2>6. QED
    BY <1>0, <2>1, <2>2, <2>3, <2>4, <2>5, SweepOp
<1>10. LivingRefs'
  <2>1. LivesOn /\ \A o \in Obj : Live(colour', currentwhite, o) => Living(o)
    BY DEF LivesOn, Living, Live, Recoloured, IsDead
  <2>2. Live(colour', currentwhite, running') /\ running' \in Obj
    BY <1>0, <2>1, RunningIs DEF LivesOn
  <2>3. \A o \in Obj : Live(colour', currentwhite, o) =>
            (Living(o) /\ ref'[o] = ref[o] /\ at'[o] = at[o]) \/ RefsLive(o)'
    BY <1>0, <2>1 DEF Stored
  <2>4. QED
    BY <1>0, <2>1, <2>2, <2>3, LivingOp
<1>11. Marked'
  BY <1>0 DEF Marked, Atomic
<1>12. FinalizedOK'
  BY <1>0 DEF IInv, FinalizedOK
<1> QED
  BY <1>1, <1>2, <1>3, <1>4, <1>5, <1>6, <1>7, <1>8, <1>9, <1>10, <1>11, <1>12 DEF IInv

\* The barrier has done nothing.
LEMMA SameRecoloured ==
  ASSUME IInv, colour' = colour
  PROVE  Recoloured
BY DEF IInv, Coloured, OpenFit, Open, Recoloured, IsDead, IsClean

\* Colours while marking.
LEMMA PhaseNow ==
  ASSUME IInv
  PROVE  /\ gcstate = "propagate" => \A o \in Obj : ~IsDead(o)
         /\ Other(currentwhite) \in Whites /\ currentwhite \in Whites /\ Other(currentwhite) # currentwhite
         /\ Whites = {"white0", "white1"}
         /\ colour \in [Obj -> Colours] /\ 0 \notin Obj
  BY ShapeIs DEF IInv, Phases, TypeOK, Whites, Other

\* The barrier has turned a table gray again.
LEMMA BackRecoloured ==
  ASSUME IInv, NEW t \in Obj, Is(t, "table"), colour[t] = "black", colour' = [colour EXCEPT ![t] = "gray"]
  PROVE  Recoloured /\ colour' \in [Obj -> Colours] /\ \A r \in Obj0 : NW(colour, r) => NW(colour', r)
<1>1. colour'[t] = "gray" /\ \A o \in Obj : o # t => colour'[o] = colour[o]
  BY PhaseNow
<1>2. ~Is(t, "thread") /\ ~Is(t, "udata") /\ ~Is(t, "upval")
  BY DEF Is
<1>3. Coloured /\ \A u \in Obj : at[u] # <<>> => colour[u] # "black"
  BY DEF IInv, OpenFit, Open
<1>4. ASSUME NEW o \in Obj
      PROVE  /\ colour'[o] = "free" <=> colour[o] = "free"
             /\ colour'[o] = Other(currentwhite) <=> IsDead(o)
             /\ gcstate # "propagate" /\ IsClean(o) => colour'[o] \in {"free", currentwhite}
             /\ Is(o, "thread") => colour'[o] # "black"
             /\ Is(o, "udata") => colour'[o] # "gray"
             /\ Is(o, "upval") /\ colour'[o] = "gray" => at[o] # <<>>
             /\ at[o] # <<>> => colour'[o] # "black"
  <2>1. CASE o = t
    BY <1>1, <1>2, <2>1, PhaseNow DEF IsDead, IsClean
  <2>2. CASE o # t
    BY <1>1, <1>3, <2>2 DEF IsDead, IsClean, Coloured, Open
  <2>3. QED
    BY <2>1, <2>2
<1>5. colour' \in [Obj -> Colours]
  BY PhaseNow DEF Colours
<1>6. \A r \in Obj0 : NW(colour, r) => NW(colour', r)
  BY <1>1, PhaseNow DEF NW, Obj0
<1> QED
  BY <1>4, <1>5, <1>6 DEF Recoloured

\* The barrier has swept an object.
LEMMA SweepRecoloured ==
  ASSUME IInv, NEW o \in Obj, colour[o] = "black", colour' = [colour EXCEPT ![o] = currentwhite],
         gcstate # "propagate"
  PROVE  Recoloured /\ colour' \in [Obj -> Colours]
<1>1. colour'[o] = currentwhite /\ \A p \in Obj : p # o => colour'[p] = colour[p]
  BY PhaseNow
<1>2. colour' \in [Obj -> Colours]
  BY PhaseNow DEF Colours
<1>3. Coloured /\ \A u \in Obj : at[u] # <<>> => colour[u] # "black"
  BY DEF IInv, OpenFit, Open
<1> QED
  BY <1>1, <1>2, <1>3, PhaseNow DEF Recoloured, IsDead, IsClean, Coloured, Open

\* Marking starts from the colours and the gray list.
LEMMA MarksAre ==
  ASSUME IInv, gcstate = "propagate"
  PROVE  MarksBase(Marks) /\ Marks.colour = colour /\ Marks.gray = gray
<1>1. Marks.colour = colour /\ Marks.gray = gray
  BY DEF Marks
<1>2. Marks \in MarksType
  BY DEF Marks, MarksType, IInv, TypeOK
<1>3. ListsFit(colour, gray, grayagain, weak)
  BY MarkingIs
<1>4. \A o \in Range(gray) : colour[o] = "gray"
  BY <1>3 DEF ListsFit, GrayObjects
<1> QED
  BY <1>1, <1>2, <1>3, <1>4 DEF MarksBase, ListsFit, Whites

\* The barrier has marked what was stored.
LEMMA ForwardRecoloured ==
  ASSUME IInv, gcstate = "propagate", NEW v \in Obj0, SetMarks(MarkObject(Marks, v))
  PROVE  /\ Recoloured /\ colour' \in [Obj -> Colours] /\ gray' \in Seq(Obj)
         /\ NW(colour', v) /\ \A r \in Obj0 : NW(colour, r) => NW(colour', r)
         /\ ListsFit(colour', gray', grayagain, weak)
         /\ \A o \in Obj : colour[o] = "black" /\ FM(colour, o) => FM(colour', o)
         /\ \A o \in Obj : colour[o] # "black" /\ colour'[o] = "black" => FM(colour', o)
<1>1. MarksBase(Marks) /\ Marks.colour = colour /\ Marks.gray = gray
  BY MarksAre
<1>2. Grown(Marks, Marks, {}, {})
  BY <1>1, GrownStart
<1> PICK m : m = Marks
  OBVIOUS
<1>3. PICK x : x = MarkObject(m, v)
  OBVIOUS
<1>4. Grown(m, x, {}, {}) /\ NW(x.colour, v) /\ \A r \in Obj0 : NW(m.colour, r) => NW(x.colour, r)
  BY <1>1, <1>2, <1>3, MarkObjectGrown DEF IInv
<1>5. colour' = x.colour /\ gray' = x.gray /\ m.colour = colour /\ m.gray = gray
  BY <1>1, <1>3 DEF SetMarks
<1>6. x.colour \in [Obj -> Colours] /\ x.gray \in Seq(Obj)
  BY <1>4 DEF Grown, MarksType
<1>7. ListsFit(m.colour, m.gray, grayagain, weak)
  BY <1>5, MarkingIs
<1>8. ListsFit(x.colour, x.gray, grayagain, weak)
  BY <1>4, <1>7, GrownLists DEF IInv
<1>9. ASSUME NEW o \in Obj
      PROVE  /\ FM(m.colour, o) => FM(x.colour, o)
             /\ x.colour[o] = "black" /\ m.colour[o] # "black" => FM(x.colour, o)
  BY <1>4, GrownBlack DEF IInv
<1>10. ASSUME NEW o \in Obj
       PROVE  /\ x.colour[o] = "free" <=> m.colour[o] = "free"
              /\ x.colour[o] \in Whites => x.colour[o] = m.colour[o]
              /\ x.colour[o] = m.colour[o] \/ x.colour[o] \in {"gray", "black"}
              /\ Is(o, "thread") /\ x.colour[o] = "black" => m.colour[o] = "black"
              /\ Is(o, "udata") /\ x.colour[o] = "gray" => m.colour[o] = "gray"
              /\ Is(o, "upval") /\ x.colour[o] = "gray" => m.colour[o] = "gray" \/ Open(o)
              /\ Open(o) /\ x.colour[o] = "black" => m.colour[o] = "black" \/ Is(o, "udata")
  BY <1>4, GrownColours DEF IInv
<1>11. Coloured /\ \A u \in Obj : at[u] # <<>> => colour[u] # "black" /\ Is(u, "upval")
  BY DEF IInv, OpenFit, Open
<1>12. Recoloured
  <2> SUFFICES ASSUME NEW o \in Obj
               PROVE  /\ x.colour[o] = "free" <=> colour[o] = "free"
                      /\ x.colour[o] = Other(currentwhite) <=> IsDead(o)
                      /\ Is(o, "thread") => x.colour[o] # "black"
                      /\ Is(o, "udata") => x.colour[o] # "gray"
                      /\ Is(o, "upval") /\ x.colour[o] = "gray" => at[o] # <<>>
                      /\ at[o] # <<>> => x.colour[o] # "black"
    BY <1>5 DEF Recoloured
  <2>1. ~IsDead(o) /\ colour[o] # Other(currentwhite)
    BY PhaseNow DEF IsDead
  <2>2. x.colour[o] # Other(currentwhite)
    BY <1>5, <1>10, <2>1, PhaseNow
  <2>3. Is(o, "upval") => ~Is(o, "udata")
    BY DEF Is
  <2>4. QED
    BY <1>5, <1>10, <1>11, <2>1, <2>2, <2>3 DEF Coloured, Open
<1> QED
  BY <1>4, <1>5, <1>6, <1>8, <1>9, <1>12

\* Marking after a store.
LEMMA MarkingStore ==
  ASSUME IInv, OpFrame, gcstate = "propagate", weak' = weak,
         ListsFit(colour', gray', grayagain', weak),
         \A o \in Range(grayagain') : Is(o, "table") \/ Is(o, "thread"),
         \A r \in Obj0 : NW(colour, r) => NW(colour', r),
         \A o \in Obj : colour'[o] = "black" => o \in Range(tmudata) \/ FM(colour, o)'
  PROVE  Marking'
<1>1. Obj' = Obj /\ shape' = shape /\ tmudata' = tmudata
  BY ShapeSame DEF OpFrame
<1>2. GrayObjects(colour)' = GrayObjects(colour')
  BY <1>1 DEF GrayObjects
<1>3. NW(colour', Main) /\ NW(colour', Globals)
  BY MarkingIs, ShapeIs DEF IInv, Obj0, Main, Globals
<1>4. \A o \in Range(weak) : Is(o, "table")
  BY MarkingIs
<1> QED
  BY <1>1, <1>2, <1>3, <1>4 DEF Marking, ListsFit, FM, FieldsMarked, Is, Main, Globals, NW

Fields(k, v, mt) == [key |-> k, val |-> v, meta |-> mt]

\* One object gets new fields.
LEMMA FieldsAre ==
  ASSUME TypeOK, NEW o \in Obj, NEW k \in Obj0, NEW v \in Obj0, NEW mt \in Obj0,
         ref' = [ref EXCEPT ![o] = Fields(k, v, mt)]
  PROVE  /\ ref' \in [Obj -> [key : Obj0, val : Obj0, meta : Obj0]]
         /\ ref'[o] = Fields(k, v, mt)
         /\ ref'[o].key = k /\ ref'[o].val = v /\ ref'[o].meta = mt
         /\ \A p \in Obj : p # o => ref'[p] = ref[p]
<1>1. Fields(k, v, mt) \in [key : Obj0, val : Obj0, meta : Obj0]
  BY DEF Fields
<1>2. Fields(k, v, mt).key = k /\ Fields(k, v, mt).val = v /\ Fields(k, v, mt).meta = mt
  BY DEF Fields
<1> QED
  BY <1>1, <1>2 DEF TypeOK

\* What was alive is alive.
LEMMA LivesNow ==
  ASSUME Recoloured, NEW r, Living(r), r \in Obj0
  PROVE  Live(colour', currentwhite, r)
BY DEF Recoloured, Living, Live, Obj0, IsDead

\* A table gets an entry or a metatable.
LEMMA TableStore ==
  ASSUME IInv, OpFrame, StoreFrame, NEW t \in Obj, Is(t, "table"), Living(t),
         NEW k \in Plain, NEW v \in Plain, NEW mt \in OfKind("table") \cup {0}, NEW vs,
         ref' = [ref EXCEPT ![t] = Fields(k, v, mt)], luaC_barriert(t, vs),
         k = ref[t].key \/ (k \in vs /\ Living(k)), v = ref[t].val \/ v \in vs, mt = ref[t].meta \/ mt \in vs,
         v # 0 => Living(k) /\ Living(v), Living(mt),
         UNCHANGED <<stack, gray, weak>>
  PROVE  IInv'
<1>0. /\ k \in Obj0 /\ v \in Obj0 /\ mt \in Obj0 /\ mt \in Plain
  BY PlainHas, ShapeIs DEF OfKind, Obj0, Plain, Is, IInv
<1>1. /\ ref' \in [Obj -> [key : Obj0, val : Obj0, meta : Obj0]]
      /\ ref'[t].key = k /\ ref'[t].val = v /\ ref'[t].meta = mt
      /\ \A p \in Obj : p # t => ref'[p] = ref[p]
  BY <1>0, FieldsAre DEF IInv
<1> DEFINE stored == \E x \in vs : MustMark(t, x)
<1>2. /\ stored => colour[t] = "black" /\ colour' = [colour EXCEPT ![t] = "gray"] /\ grayagain' = <<t>> \o grayagain
      /\ ~stored => colour' = colour /\ grayagain' = grayagain
  BY DEF luaC_barriert, luaC_barrierback, MustMark
<1>3. ~stored => \A x \in vs : NW(colour, x) \/ colour[t] # "black"
  BY DEF MustMark, NW, IsWhite
<1> HIDE DEF stored
<1>4. Recoloured /\ colour' \in [Obj -> Colours] /\ \A r \in Obj0 : NW(colour, r) => NW(colour', r)
  <2>1. CASE stored
    BY <1>2, <2>1, BackRecoloured
  <2>2. CASE ~stored
    BY <1>2, <2>2, SameRecoloured, PhaseNow
  <2>3. QED
    BY <2>1, <2>2
<1>5. StackFits
  BY StackSame
<1>6. TypeStep
  <2>1. TypeOK
    BY DEF IInv
  <2>2. grayagain' \in Seq(Obj)
    <3>1. grayagain \in Seq(Obj)
      BY <2>1 DEF TypeOK
    <3>2. <<t>> \o grayagain \in Seq(Obj)
      BY <3>1, ConsIs
    <3>3. QED
      BY <1>2, <3>1, <3>2
  <2>3. QED
    BY <1>1, <1>4, <2>1, <2>2 DEF TypeStep, TypeOK, StoreFrame, sweeping
<1>7. Obj' = Obj /\ Plain' = Plain /\ OfKind("table")' = OfKind("table") /\ shape' = shape /\ currentwhite' = currentwhite
  BY ShapeSame DEF OpFrame
<1>8. ObjFits(t)' /\ RefsLive(t)'
  <2>1. ~Is(t, "lclosure") /\ ~Is(t, "udata") /\ ~Is(t, "thread") /\ ~Is(t, "string") /\ ~Is(t, "upval")
    BY DEF Is
  <2>2. at[t] = <<>> /\ colour[t] # "free"
    BY <2>1, ShapeIs DEF IInv, OpenFit, Open, Living, Live
  <2>3. at'[t] = <<>> /\ colour'[t] # "free"
    BY <1>4, <2>2 DEF StoreFrame, Recoloured
  <2>4. ObjFits(t)'
    BY <1>0, <1>1, <1>7, <2>1, <2>3 DEF ObjFits, Is, Open
  <2>5. Live(colour', currentwhite, mt) /\ (v # 0 => Live(colour', currentwhite, k) /\ Live(colour', currentwhite, v))
    BY <1>0, <1>4, LivesNow
  <2>6. QED
    BY <1>1, <1>7, <2>1, <2>4, <2>5 DEF RefsLive, Is, Living
<1>9. \A o \in Obj : Stored(o)
  BY <1>1, <1>8 DEF Stored
<1>10. ASSUME gcstate = "propagate" PROVE Marking'
  <2>1. /\ ListsFit(colour, gray, grayagain, weak)
        /\ \A o \in Range(grayagain) : Is(o, "table") \/ Is(o, "thread")
        /\ \A o \in Obj : colour[o] = "black" => o \in Range(tmudata) \/ FM(colour, o)
    BY <1>10, MarkingIs
  <2>2. ListsFit(colour', gray', grayagain', weak) /\ \A o \in Range(grayagain') : Is(o, "table") \/ Is(o, "thread")
    <3>1. CASE stored
      <4>1. grayagain \in Seq(Obj) /\ colour[t] = "black"
        BY <1>2, <3>1 DEF IInv, TypeOK
      <4>2. GrayObjects(colour') = GrayObjects(colour) \cup {t} /\ t \notin GrayObjects(colour)
        BY <1>2, <3>1, PhaseNow DEF GrayObjects, Is, Gathered
      <4>3. t \notin Range(gray) /\ t \notin Range(grayagain) /\ t \notin Range(weak)
        BY <2>1, <4>2 DEF ListsFit
      <4>4. Range(grayagain') = {t} \cup Range(grayagain) /\ IsInjective(grayagain')
        <5>1. IsInjective(grayagain)
          BY <2>1 DEF ListsFit
        <5>2. /\ Range(<<t>> \o grayagain) = {t} \cup Range(grayagain)
              /\ IsInjective(<<t>> \o grayagain)
          BY <4>1, <4>3, <5>1, ConsIs
        <5>3. grayagain' = <<t>> \o grayagain
          BY <1>2, <3>1
        <5>4. QED
          BY <5>2, <5>3
      <4>5. QED
        BY <2>1, <4>2, <4>3, <4>4 DEF ListsFit
    <3>2. CASE ~stored
      BY <1>2, <2>1, <3>2
    <3>3. QED
      BY <3>1, <3>2
  <2>3. ASSUME NEW o \in Obj, colour'[o] = "black" PROVE o \in Range(tmudata) \/ FM(colour, o)'
    <3>1. colour[o] = "black"
      BY <1>2, <2>3, PhaseNow
    <3>2. o \in Range(tmudata) \/ FM(colour, o)
      BY <2>1, <3>1
    <3>3. CASE o # t
      <4>1. ref[o].key \in Obj0 /\ ref[o].val \in Obj0 /\ ref[o].meta \in Obj0
        BY RefIs DEF IInv
      <4>2. FM(colour, o) => FM(colour, o)'
        BY <1>1, <1>4, <3>3, <4>1 DEF FM, Recoloured, NW, Obj0
      <4>3. QED
        BY <3>2, <4>2
    <3>4. CASE o = t
      <4>1. t \notin Range(tmudata)
        BY DEF IInv, Linked, Is
      <4>2. FM(colour, t)
        BY <3>2, <3>4, <4>1
      <4>3. ~stored
        BY <1>2, <2>3, <3>4, PhaseNow
      <4>4. NW(colour, k) /\ NW(colour, v) /\ NW(colour, mt)
        BY <1>3, <3>1, <3>4, <4>2, <4>3 DEF FM
      <4>5. k # 0 => colour[k] # "free"
        BY <4>2 DEF FM, Living, Live
      <4>6. k # 0 => colour'[k] # "free"
        BY <1>0, <1>4, <4>5 DEF Recoloured, Obj0
      <4>7. NW(colour', k) /\ NW(colour', v) /\ NW(colour', mt)
        BY <1>0, <1>4, <4>4
      <4>8. QED
        BY <1>1, <3>4, <4>6, <4>7 DEF FM, NW
    <3>5. QED
      BY <3>3, <3>4
  <2>4. QED
    BY <1>4, <1>10, <2>2, <2>3, MarkingStore
<1> QED
  BY <1>4, <1>5, <1>6, <1>9, <1>10, StoreOp

\* A userdata gets a metatable, a closed upvalue or a C closure a value.
LEMMA ForwardStore ==
  ASSUME IInv, OpFrame, StoreFrame, NEW o \in Obj, Living(o), NEW v \in Plain, Living(v),
         \/ Is(o, "udata") /\ v \in OfKind("table") \cup {0} /\ ref' = [ref EXCEPT ![o] = Fields(0, 0, v)]
         \/ Is(o, "cclosure") /\ ref' = [ref EXCEPT ![o] = Fields(0, v, 0)]
         \/ Is(o, "upval") /\ at[o] = <<>> /\ ref' = [ref EXCEPT ![o] = Fields(0, v, 0)],
         luaC_barrier(o, v), UNCHANGED <<stack, grayagain, weak>>
  PROVE  IInv'
<1>0. v \in Obj0 /\ 0 \in Obj0 /\ 0 \in Plain /\ Living(0) /\ 0 \in OfKind("table") \cup {0}
  BY PlainHas, ShapeIs DEF OfKind, Obj0, Plain, IInv, Living, Live
<1>1. /\ ref' \in [Obj -> [key : Obj0, val : Obj0, meta : Obj0]]
      /\ ref'[o].key = 0 /\ ref'[o].val \in {0, v} /\ ref'[o].meta \in {0, v}
      /\ Is(o, "udata") => ref'[o].val = 0 /\ v \in OfKind("table") \cup {0}
      /\ ~Is(o, "udata") => ref'[o].meta = 0
      /\ \A p \in Obj : p # o => ref'[p] = ref[p]
  <2>1. CASE Is(o, "udata")
    <3>1. ref' = [ref EXCEPT ![o] = Fields(0, 0, v)] /\ v \in OfKind("table") \cup {0}
      BY <2>1 DEF Is
    <3>2. QED
      BY <1>0, <2>1, <3>1, FieldsAre DEF IInv
  <2>2. CASE ~Is(o, "udata")
    <3>1. ref' = [ref EXCEPT ![o] = Fields(0, v, 0)]
      BY <2>2
    <3>2. QED
      BY <1>0, <2>2, <3>1, FieldsAre DEF IInv
  <2>3. QED
    BY <2>1, <2>2
<1>2. /\ Is(o, "udata") \/ Is(o, "cclosure") \/ Is(o, "upval")
      /\ ~Is(o, "lclosure") /\ ~Is(o, "thread") /\ ~Is(o, "string") /\ ~Is(o, "table")
      /\ at[o] = <<>>
  BY DEF Is, IInv, OpenFit, Open
<1>3. colour[o] # "free"
  BY ShapeIs DEF Living, Live, IInv
<1> DEFINE must == MustMark(o, v)
<1>4. /\ must => colour[o] = "black"
      /\ ~must => NW(colour, v) \/ colour[o] # "black"
      /\ ~must => colour' = colour /\ gray' = gray
      /\ must /\ gcstate = "propagate" => SetMarks(MarkObject(Marks, v))
      /\ must /\ gcstate # "propagate" => colour' = [colour EXCEPT ![o] = currentwhite] /\ gray' = gray
  BY DEF luaC_barrier, MustMark, NW, IsWhite
<1> HIDE DEF must
<1>5. Recoloured /\ colour' \in [Obj -> Colours] /\ gray' \in Seq(Obj)
  <2>1. gray \in Seq(Obj)
    BY DEF IInv, TypeOK
  <2>2. CASE ~must
    BY <1>4, <2>1, <2>2, SameRecoloured, PhaseNow
  <2>3. CASE must /\ gcstate = "propagate"
    BY <1>0, <1>4, <2>3, ForwardRecoloured
  <2>4. CASE must /\ gcstate # "propagate"
    BY <1>4, <2>1, <2>4, SweepRecoloured
  <2>5. QED
    BY <2>2, <2>3, <2>4
<1>6. StackFits
  BY StackSame
<1>7. TypeStep
  <2>1. TypeOK
    BY DEF IInv
  <2>2. QED
    BY <1>1, <1>5, <2>1 DEF TypeStep, TypeOK, StoreFrame, sweeping
<1>8. Obj' = Obj /\ Plain' = Plain /\ OfKind("table")' = OfKind("table") /\ shape' = shape /\ currentwhite' = currentwhite
  BY ShapeSame DEF OpFrame
<1>9. ObjFits(o)' /\ RefsLive(o)'
  <2>1. at'[o] = <<>> /\ colour'[o] # "free"
    BY <1>2, <1>3, <1>5 DEF StoreFrame, Recoloured
  <2>2. ref'[o].key \in Plain /\ ref'[o].val \in Plain /\ ref'[o].meta \in OfKind("table") \cup {0}
    BY <1>0, <1>1
  <2>3. ObjFits(o)'
    BY <1>1, <1>2, <1>8, <2>1, <2>2 DEF ObjFits, Is, Open
  <2>4. Live(colour', currentwhite, v) /\ Live(colour', currentwhite, 0)
    BY <1>0, <1>5, LivesNow
  <2>5. ValueOf(o)' = ref'[o].val
    BY <2>1 DEF ValueOf, Open
  <2>6. QED
    BY <1>1, <1>2, <1>8, <2>3, <2>4, <2>5 DEF RefsLive, Is, Living
<1>10. \A p \in Obj : Stored(p)
  BY <1>1, <1>9 DEF Stored
<1>11. ASSUME gcstate = "propagate" PROVE Marking'
  <2>1. /\ ListsFit(colour, gray, grayagain, weak)
        /\ \A p \in Range(grayagain) : Is(p, "table") \/ Is(p, "thread")
        /\ \A p \in Obj : colour[p] = "black" => p \in Range(tmudata) \/ FM(colour, p)
    BY <1>11, MarkingIs
  <2>2. /\ ListsFit(colour', gray', grayagain, weak)
        /\ \A r \in Obj0 : NW(colour, r) => NW(colour', r)
        /\ \A p \in Obj : colour[p] = "black" /\ FM(colour, p) => FM(colour', p)
        /\ \A p \in Obj : colour[p] # "black" /\ colour'[p] = "black" => FM(colour', p)
        /\ must => NW(colour', v)
    <3>1. CASE must
      <4>1. SetMarks(MarkObject(Marks, v))
        BY <1>4, <1>11, <3>1
      <4>2. QED
        BY <1>0, <1>11, <4>1, ForwardRecoloured
    <3>2. CASE ~must
      BY <1>4, <2>1, <3>2
    <3>3. QED
      BY <3>1, <3>2
  <2>3. ASSUME NEW p \in Obj, colour'[p] = "black" PROVE p \in Range(tmudata) \/ FM(colour, p)'
    <3>1. CASE p # o
      <4>1. p \in Range(tmudata) \/ FM(colour', p)
        BY <2>1, <2>2, <2>3
      <4>2. FM(colour', p) => FM(colour, p)'
        BY <1>1, <3>1 DEF FM, NW
      <4>3. QED
        BY <4>1, <4>2
    <3>2. CASE p = o
      <4>1. colour[o] = "black"
        BY <1>4, <2>3, <3>2
      <4>2. NW(colour', v)
        BY <1>0, <1>4, <2>2, <4>1
      <4>3. QED
        BY <1>1, <3>2, <4>2 DEF FM, NW
    <3>3. QED
      BY <3>1, <3>2
  <2>4. weak' = weak /\ grayagain' = grayagain
    OBVIOUS
  <2>5. QED
    BY <1>11, <2>1, <2>2, <2>3, <2>4, MarkingStore
<1> QED
  BY <1>5, <1>6, <1>7, <1>10, <1>11, StoreOp

\* A record from its fields.
LEMMA FieldsNow ==
  ASSUME TypeOK, NEW o \in Obj
  PROVE  /\ ref[o] = Fields(ref[o].key, ref[o].val, ref[o].meta)
         /\ \A v : [ref EXCEPT ![o].val = v] = [ref EXCEPT ![o] = Fields(ref[o].key, v, ref[o].meta)]
         /\ \A v : [ref EXCEPT ![o].meta = v] = [ref EXCEPT ![o] = Fields(ref[o].key, ref[o].val, v)]
<1>1. ref[o] \in [key : Obj0, val : Obj0, meta : Obj0]
  BY RefIs
<1>2. ref[o] = Fields(ref[o].key, ref[o].val, ref[o].meta)
  BY <1>1 DEF Fields
<1>4. \A v : [ref[o] EXCEPT !.val = v] = Fields(ref[o].key, v, ref[o].meta)
  BY <1>1 DEF Fields
<1>5. \A v : [ref[o] EXCEPT !.meta = v] = Fields(ref[o].key, ref[o].val, v)
  BY <1>1 DEF Fields
<1>6. \A v : [ref EXCEPT ![o].val = v] = [ref EXCEPT ![o] = [ref[o] EXCEPT !.val = v]]
  BY DEF TypeOK
<1>7. \A v : [ref EXCEPT ![o].meta = v] = [ref EXCEPT ![o] = [ref[o] EXCEPT !.meta = v]]
  BY DEF TypeOK
<1> QED
  BY <1>2, <1>4, <1>5, <1>6, <1>7

\* Keys are alive.
LEMMA KeysLive ==
  ASSUME IInv, NEW k \in Keys
  PROVE  k \in Plain /\ Living(k)
<1>1. 0 \in Plain /\ Living(0)
  BY ShapeIs DEF OfKind, Obj0, Plain, IInv, Living, Live
<1> QED
  BY <1>1, HeldLives DEF Keys

\* An assignment to a table keeps the invariant.
LEMMA SetEntryKeeps ==
  ASSUME IInv, OpFrame, NEW t \in Held, NEW k \in Keys, NEW v \in Values, SetEntry(t, k, v)
  PROVE  IInv'
<1> DEFINE vs == IF k = ref[t].key THEN {v} ELSE {k, v}
           mt == ref[t].meta
<1>1. t \in Obj /\ Is(t, "table") /\ Living(t)
  BY HeldLives DEF SetEntry, OfKind
<1>2. k \in Plain /\ Living(k) /\ v \in Plain /\ Living(v)
  BY KeysLive, ValuesLive
<1>3. ref' = [ref EXCEPT ![t] = Fields(k, v, mt)]
  BY DEF SetEntry, Fields
<1>4. mt \in OfKind("table") \cup {0} /\ Living(mt)
  BY <1>1 DEF IInv, FieldsFit, LivingRefs
<1>5. luaC_barriert(t, vs) /\ StoreFrame /\ UNCHANGED <<stack, gray, weak>>
  BY DEF SetEntry, May, StoreFrame, program
<1>6. /\ k = ref[t].key \/ (k \in vs /\ Living(k))
      /\ v = ref[t].val \/ v \in vs
      /\ mt = ref[t].meta \/ mt \in vs
      /\ v # 0 => Living(k) /\ Living(v)
  BY <1>2
<1> HIDE DEF vs, mt
<1> QED
  BY <1>1, <1>2, <1>3, <1>4, <1>5, <1>6, TableStore DEF mt

\* A metatable that is set keeps it.
LEMMA SetMetatableKeeps ==
  ASSUME IInv, OpFrame, NEW o \in Held, NEW mt \in Held, SetMetatable(o, mt)
  PROVE  IInv'
<1>1. o \in Obj /\ Living(o) /\ Living(mt)
  BY HeldLives, PlainHas DEF SetMetatable
<1>2. mt \in OfKind("table") \cup {0}
  BY DEF SetMetatable, Metatables
<1>3. mt \in Plain /\ 0 \in Plain /\ 0 \in Obj0
  BY <1>2, HeldLives, ShapeIs DEF IInv, Plain, Obj0, OfKind
<1> PICK k : k = ref[o].key
  OBVIOUS
<1> PICK v : v = ref[o].val
  OBVIOUS
<1>4. ref' = [ref EXCEPT ![o] = Fields(k, v, mt)]
  <2>1. ref' = [ref EXCEPT ![o].meta = mt]
    BY DEF SetMetatable
  <2>2. QED
    BY <1>1, <2>1, FieldsNow DEF IInv
<1>5. StoreFrame /\ UNCHANGED <<stack, weak>>
  BY DEF SetMetatable, May, StoreFrame, program
<1>6. CASE Is(o, "table")
  <2>1. luaC_barriert(o, {mt}) /\ UNCHANGED gray
    BY <1>6 DEF SetMetatable, Is
  <2>2. k \in Plain /\ v \in Plain
    BY <1>1, <1>6 DEF IInv, FieldsFit, Is
  <2>3. v # 0 => Living(k) /\ Living(v)
    BY <1>1, <1>6 DEF IInv, LivingRefs, Is
  <2>4. QED
    BY <1>1, <1>2, <1>4, <1>5, <1>6, <2>1, <2>2, <2>3, TableStore
<1>7. CASE Is(o, "udata")
  <2>1. luaC_barrier(o, mt) /\ UNCHANGED grayagain
    BY <1>7 DEF SetMetatable, Is
  <2>2. k = 0 /\ v = 0
    BY <1>1, <1>7 DEF IInv, FieldsFit, Is
  <2>3. ref' = [ref EXCEPT ![o] = Fields(0, 0, mt)]
    BY <1>4, <2>2
  <2>4. UNCHANGED <<stack, grayagain, weak>>
    BY <1>5, <2>1
  <2>5. QED
    BY <1>1, <1>2, <1>3, <1>5, <1>7, <2>1, <2>3, <2>4, ForwardStore
<1> QED
  BY <1>6, <1>7 DEF SetMetatable

\* An assignment to an upvalue keeps it.
LEMMA SetUpvalueKeeps ==
  ASSUME IInv, OpFrame, NEW c \in Held, NEW v \in Values, SetUpvalue(c, v)
  PROVE  IInv'
<1>1. c \in Obj /\ Living(c) /\ c # 0 /\ v \in Plain /\ Living(v)
  BY HeldLives, ValuesLive, PlainHas DEF SetUpvalue
<1>2. colour[c] # "free" /\ 0 \in Obj0
  BY <1>1 DEF Living, Live, Obj0
<1>3. /\ StoreFrame /\ UNCHANGED <<grayagain, weak>> /\ stage = 0 /\ at' = at /\ running' = running /\ arg' = arg
      /\ UNCHANGED <<sweeping, finalized, called>>
  BY DEF SetUpvalue, May, StoreFrame
<1>4. CASE Is(c, "cclosure")
  <2>1. ref' = [ref EXCEPT ![c].val = v] /\ luaC_barrier(c, v) /\ UNCHANGED stack
    BY <1>4 DEF SetUpvalue, Is
  <2>2. ref[c].key = 0 /\ ref[c].meta = 0
    BY <1>1, <1>4 DEF IInv, FieldsFit, Is
  <2>3. ref' = [ref EXCEPT ![c] = Fields(0, v, 0)]
    <3>1. \A x : [ref EXCEPT ![c].val = x] = [ref EXCEPT ![c] = Fields(ref[c].key, x, ref[c].meta)]
      BY <1>1, FieldsNow DEF IInv
    <3>2. QED
      BY <2>1, <2>2, <3>1
  <2>4. UNCHANGED <<stack, grayagain, weak>>
    BY <1>3, <2>1
  <2>5. QED
    BY <1>1, <1>3, <1>4, <2>1, <2>3, <2>4, ForwardStore
<1>5. CASE Is(c, "lclosure")
  <2> PICK u : u = ref[c].val
    OBVIOUS
  <2>1. u \in Obj /\ Is(u, "upval") /\ u # 0 /\ Living(u)
    <3>1. Is(u, "upval") /\ u # 0
      BY <1>1, <1>2, <1>5 DEF IInv, FieldsFit
    <3>2. u \in Obj0
      BY <1>1, RefIs DEF IInv
    <3>3. Living(u)
      BY <1>1, <1>5 DEF IInv, LivingRefs, Is
    <3>4. QED
      BY <3>1, <3>2, <3>3 DEF Obj0
  <2>2. /\ IF Open(u) THEN /\ stack' = [stack EXCEPT ![at[u][1]][at[u][2]] = v]
                           /\ UNCHANGED ref
                      ELSE ref' = [ref EXCEPT ![u].val = v] /\ UNCHANGED stack
        /\ luaC_barrier(u, v)
    BY <1>5 DEF SetUpvalue, Is
  <2>3. CASE Open(u)
    <3>1. colour[u] # "black" /\ colour[at[u][1]] # "free"
      BY <2>1, <2>3 DEF IInv, OpenFit
    <3>2. UNCHANGED <<colour, gray>>
      BY <2>2, <3>1 DEF luaC_barrier, MustMark
    <3>3. PICK th \in OfKind("thread") : \E l \in Slots(th) : at[u] = <<th, l>>
      BY <2>1, <2>3 DEF IInv, TypeOK, Open
    <3>4. PICK l \in Slots(th) : at[u] = <<th, l>>
      BY <3>3
    <3>5. at[u][1] = th /\ at[u][2] = l
      BY <3>4
    <3>6. stack' = [stack EXCEPT ![th][l] = v]
      BY <2>2, <2>3, <3>5
    <3>7. StackFits
      BY <1>1, <3>1, <3>2, <3>5, <3>6, PutFits DEF Living
    <3>8. UNCHANGED <<colour, ref, at, lists, sweeping, finalized, called>>
      BY <1>3, <2>2, <2>3, <3>2 DEF lists
    <3>9. QED
      BY <1>3, <3>7, <3>8, RunningIs, StackOp
  <2>4. CASE ~Open(u)
    <3>1. ref[u].key = 0 /\ ref[u].meta = 0
      BY <2>1 DEF IInv, FieldsFit, Is
    <3>2. ref' = [ref EXCEPT ![u] = Fields(0, v, 0)]
      <4>1. \A x : [ref EXCEPT ![u].val = x] = [ref EXCEPT ![u] = Fields(ref[u].key, x, ref[u].meta)]
        BY <2>1, FieldsNow DEF IInv
      <4>2. QED
        BY <2>2, <2>4, <3>1, <4>1
    <3>3. at[u] = <<>>
      BY <2>4 DEF Open
    <3>4. UNCHANGED <<stack, grayagain, weak>>
      BY <1>3, <2>2, <2>4
    <3>5. QED
      BY <1>1, <1>3, <2>1, <2>2, <3>2, <3>3, <3>4, ForwardStore
  <2>5. QED
    BY <2>3, <2>4
<1> QED
  BY <1>4, <1>5 DEF SetUpvalue

\* Contains, by the range.
LEMMA ContainsIs ==
  ASSUME NEW T, NEW q \in Seq(T), NEW o
  PROVE  Contains(q, o) <=> o \in Range(q)
BY RangeHas DEF Contains

\* The open upvalues of a thread.
LEMMA OpenUpvalsAre ==
  ASSUME IInv, NEW th \in OfKind("thread")
  PROVE  /\ OpenUpvals(th) \in Seq(OfKind("upval")) /\ IsInjective(OpenUpvals(th))
         /\ \A u \in Obj : u \in Range(OpenUpvals(th)) <=> at[u] # <<>> /\ at[u][1] = th
<1> DEFINE n == shape.slots[th]
           down == [i \in Slots(th) |-> n + 1 - i]
           S == {l \in Slots(th) : UpvalsAt(th, l) # {}}
           ls == Those(down, S)
           us == [i \in DOMAIN ls |-> UpvalAt(th, ls[i])]
<1>1. n \in Nat /\ Slots(th) = 1..n
  BY ShapeIs DEF Slots, OfKind, IInv
<1>2. down \in Seq(Slots(th)) /\ Len(down) = n
  BY <1>1
<1>3. IsInjective(down)
  BY <1>1 DEF IsInjective
<1>4. Range(down) = Slots(th)
  <2>1. \A l \in Slots(th) : n + 1 - l \in Slots(th) /\ down[n + 1 - l] = l
    BY <1>1
  <2>2. DOMAIN down = Slots(th) /\ \A i \in Slots(th) : down[i] \in Slots(th)
    BY <1>1
  <2>3. QED
    BY <2>1, <2>2 DEF Range
<1> HIDE DEF down
<1>5. ls \in Seq(Slots(th)) /\ Range(ls) = S /\ IsInjective(ls)
  <2>1. /\ Those(down, S) \in Seq(Slots(th))
        /\ Range(Those(down, S)) = Range(down) \cap S
        /\ IsInjective(down) => IsInjective(Those(down, S))
    BY <1>2, ThoseAre
  <2>2. QED
    BY <1>3, <1>4, <2>1
<1> HIDE DEF ls
<1>6. DOMAIN ls = 1..Len(ls) /\ Len(ls) \in Nat /\ \A i \in 1..Len(ls) : ls[i] \in S
  BY <1>5, RangeHas
<1>7. \A l \in S : UpvalAt(th, l) \in UpvalsAt(th, l)
  BY DEF UpvalAt
<1>8. \A i \in 1..Len(ls) : us[i] \in OfKind("upval") /\ at[us[i]] = <<th, ls[i]>>
  BY <1>6, <1>7 DEF UpvalsAt
<1>9. us \in Seq(OfKind("upval")) /\ DOMAIN us = 1..Len(ls)
  BY <1>6, <1>8
<1>10. IsInjective(us)
  <2> SUFFICES ASSUME NEW i \in 1..Len(ls), NEW j \in 1..Len(ls), us[i] = us[j] PROVE i = j
    BY <1>9 DEF IsInjective
  <2>1. <<th, ls[i]>> = <<th, ls[j]>>
    BY <1>8
  <2>2. ls[i] = ls[j]
    BY <2>1
  <2>3. QED
    BY <1>5, <1>6, <2>2 DEF IsInjective
<1>11. ASSUME NEW u \in Obj PROVE u \in Range(us) <=> at[u] # <<>> /\ at[u][1] = th
  <2>1. ASSUME u \in Range(us) PROVE at[u] # <<>> /\ at[u][1] = th
    <3>1. PICK i \in 1..Len(ls) : us[i] = u
      BY <1>9, <2>1 DEF Range
    <3>2. at[u] = <<th, ls[i]>>
      BY <1>8, <3>1
    <3>3. QED
      BY <3>2
  <2>2. ASSUME at[u] # <<>>, at[u][1] = th PROVE u \in Range(us)
    <3>1. PICK h \in OfKind("thread") : \E l \in Slots(h) : at[u] = <<h, l>>
      BY <2>2 DEF IInv, TypeOK
    <3>2. PICK l \in Slots(h) : at[u] = <<h, l>>
      BY <3>1
    <3>3. h = th /\ l \in Slots(th) /\ at[u] = <<th, l>>
      BY <2>2, <3>2
    <3>4. Is(u, "upval")
      BY <2>2 DEF IInv, OpenFit, Open
    <3>5. u \in UpvalsAt(th, l) /\ l \in S
      BY <3>3, <3>4 DEF UpvalsAt, OfKind
    <3>6. PICK i \in 1..Len(ls) : ls[i] = l
      BY <1>5, <1>6, <3>5 DEF Range
    <3>7. at[us[i]] = at[u] /\ us[i] \in Obj
      BY <1>8, <3>3, <3>6 DEF OfKind
    <3>8. us[i] = u
      BY <2>2, <3>7 DEF IInv, OpenFit, Open
    <3>9. QED
      BY <1>9, <3>8 DEF Range
  <2>3. QED
    BY <2>1, <2>2
<1>12. OpenUpvals(th) = us
  BY DEF OpenUpvals, us, ls, down
<1> HIDE DEF us
<1> QED
  BY <1>9, <1>10, <1>11, <1>12

\* Closing while no mark phase runs: gray upvalues become white.
LEMMA CloseAllSweeps ==
  ASSUME IInv, gcstate # "propagate", NEW m \in MarksType, NEW us \in Seq(Obj)
  PROVE  /\ CloseAll(m, us) \in MarksType /\ CloseAll(m, us).gray = m.gray
         /\ \A o \in Obj : CloseAll(m, us).colour[o] =
              IF o \in Range(us) /\ m.colour[o] = "gray" THEN currentwhite ELSE m.colour[o]
<1> DEFINE D == {n \in Nat : n <= Len(us)}
           To(n) == {o \in Obj : \E i \in 1..Len(us) : i <= n /\ us[i] = o}
           OK(p) == /\ p[2].gray = m.gray
                    /\ \A o \in Obj : p[2].colour[o] =
                         IF o \in To(p[1]) /\ m.colour[o] = "gray" THEN currentwhite ELSE m.colour[o]
           S == {p \in D \X MarksType : OK(p)}
<1>0. Len(us) \in Nat /\ \A i \in 1..Len(us) : us[i] \in Obj
  OBVIOUS
<1>1. <<0, m>> \in S
  <2>1. To(0) = {}
    BY <1>0
  <2>2. OK(<<0, m>>)
    BY <2>1
  <2>3. QED
    BY <1>0, <2>2
<1>2. ASSUME NEW i \in 1..Len(us), NEW x, <<i - 1, x>> \in S PROVE <<i, Closed(x, us[i])>> \in S
  <2>1. x \in MarksType /\ OK(<<i - 1, x>>) /\ us[i] \in Obj
    BY <1>0, <1>2
  <2> PICK u : u = us[i]
    OBVIOUS
  <2> PICK y : y = Closed(x, u)
    OBVIOUS
  <2>2. x.colour \in [Obj -> Colours] /\ x.gray \in Seq(Obj) /\ u \in Obj
    BY <2>1 DEF MarksType
  <2>3. y = IF x.colour[u] # "gray" THEN x ELSE [x EXCEPT !.colour[u] = currentwhite]
    BY <1>0 DEF Closed
  <2>4. currentwhite \in Colours /\ currentwhite # "gray"
    BY RecordsAre DEF IInv
  <2>5. y \in MarksType /\ y.gray = x.gray
        /\ \A o \in Obj : y.colour[o] = IF o = u /\ x.colour[u] = "gray" THEN currentwhite ELSE x.colour[o]
    <3>1. CASE x.colour[u] # "gray"
      BY <2>1, <2>3, <3>1
    <3>2. CASE x.colour[u] = "gray"
      <4>1. y = [x EXCEPT !.colour[u] = currentwhite]
        BY <2>3, <3>2
      <4>2. y.colour = [x.colour EXCEPT ![u] = currentwhite] /\ y.gray = x.gray /\ y \in MarksType
        <5>1. x \in MarksType
          BY <2>1
        <5>2. y.colour = [x.colour EXCEPT ![u] = currentwhite] /\ y.gray = x.gray
          BY <5>1, <4>1 DEF MarksType
        <5>3. [x.colour EXCEPT ![u] = currentwhite] \in [Obj -> Colours]
          BY <2>2, <2>4
        <5>4. y = [colour |-> [x.colour EXCEPT ![u] = currentwhite], gray |-> x.gray]
          BY <5>1, <4>1 DEF MarksType
        <5>5. QED
          BY <2>2, <5>2, <5>3, <5>4 DEF MarksType
      <4>3. QED
        BY <2>2, <3>2, <4>2
    <3>3. QED
      BY <3>1, <3>2
  <2>6. To(i) = To(i - 1) \cup {u}
    <3>1. \A j \in 1..Len(us) : j <= i <=> (j <= i - 1 \/ j = i)
      BY <1>0
    <3>2. QED
      BY <2>2, <3>1
  <2>7. /\ x.gray = m.gray
        /\ \A o \in Obj : x.colour[o] =
             IF o \in To(i - 1) /\ m.colour[o] = "gray" THEN currentwhite ELSE m.colour[o]
    BY <2>1
  <2> HIDE DEF To
  <2>8. \A o \in Obj : y.colour[o] = IF o \in To(i) /\ m.colour[o] = "gray" THEN currentwhite ELSE m.colour[o]
    BY <2>4, <2>5, <2>6, <2>7
  <2>9. OK(<<i, y>>)
    BY <2>5, <2>7, <2>8
  <2>10. i \in D
    BY <1>0
  <2>11. QED
    BY <2>5, <2>9, <2>10
<1> HIDE DEF S
<1>3. <<Len(us), CloseAll(m, us)>> \in S
  BY <1>1, <1>2, CloseAllInduct
<1>4. CloseAll(m, us) \in MarksType /\ OK(<<Len(us), CloseAll(m, us)>>)
  BY <1>3 DEF S
<1>5. \A o \in Obj : o \in To(Len(us)) <=> o \in Range(us)
  BY <1>0, RangeHas
<1> QED
  BY <1>4, <1>5

\* What luaF_close does to the colours; U are closed, those of L live on.
ClosedColours(U, L) ==
  \A o \in Obj :
    /\ o \in U \ L => colour'[o] = "free" /\ gcstate # "propagate" /\ IsDead(o)
    /\ o \notin U \ L => /\ colour'[o] = "free" <=> colour[o] = "free"
                         /\ colour'[o] = Other(currentwhite) <=> IsDead(o)
    /\ o \in L => colour'[o] \notin {"gray", "free"} /\ ~IsDead(o)
                  /\ (gcstate # "propagate" => colour'[o] = currentwhite)
    /\ gcstate # "propagate" /\ IsClean(o) => colour'[o] \in {"free", currentwhite}
    /\ Is(o, "thread") => colour'[o] # "black"
    /\ Is(o, "udata") => colour'[o] # "gray"
    /\ Is(o, "upval") /\ o \notin U /\ colour'[o] = "gray" => at[o] # <<>>
    /\ at[o] # <<>> /\ o \notin U => colour'[o] # "black"
ClosedMarks(L) ==
  /\ ListsFit(colour', gray', grayagain, weak)
  /\ \A r \in Obj0 : NW(colour, r) => NW(colour', r)
  /\ \A o \in Obj : colour[o] = "black" /\ FM(colour, o) => FM(colour', o)
  /\ \A o \in Obj \ L : colour[o] # "black" /\ colour'[o] = "black" => FM(colour', o)
  /\ \A o \in L : colour'[o] = "black" => NW(colour', ValueOf(o))

\* Colours after upvalues have been closed.
LEMMA CloseColours ==
  ASSUME IInv, NEW us \in Seq(OfKind("upval")), NEW living \in Seq(OfKind("upval")),
         Range(living) = Range(us) \cap {u \in Obj : colour[u] # Other(currentwhite)},
         \A u \in Range(us) : at[u] # <<>>,
         colour' = [o \in Obj |-> IF o \in Range(us) /\ o \notin Range(living) THEN "free"
                                  ELSE CloseAll(Marks, living).colour[o]],
         gray' = CloseAll(Marks, living).gray
  PROVE  /\ ClosedColours(Range(us), Range(living)) /\ gray' \in Seq(Obj) /\ colour' \in [Obj -> Colours]
         /\ gcstate = "propagate" => ClosedMarks(Range(living))
<1> DEFINE U == Range(us)
           L == Range(living)
<1> PICK x : x = CloseAll(Marks, living)
  OBVIOUS
<1>1. U \subseteq OfKind("upval") /\ L \subseteq U /\ U \subseteq Obj
  BY RangeHas DEF OfKind
<1>2. \A u \in U : u \in L <=> ~IsDead(u)
  BY <1>1 DEF IsDead
<1>3. \A u \in U : Is(u, "upval") /\ ~Is(u, "thread") /\ ~Is(u, "udata") /\ colour[u] \notin {"free", "black"}
  BY <1>1 DEF OfKind, Is, IInv, OpenFit, Open
<1>4. \A o \in Obj : colour'[o] = IF o \in U /\ o \notin L THEN "free" ELSE x.colour[o]
  OBVIOUS
<1>5. Coloured /\ \A u \in Obj : at[u] # <<>> => colour[u] # "black" /\ Is(u, "upval")
  BY DEF IInv, OpenFit, Open
<1>6. living \in Seq(Obj)
  BY DEF OfKind
<1>7. Marks \in MarksType /\ Marks.colour = colour /\ Marks.gray = gray
  BY DEF Marks, MarksType, IInv, TypeOK
<1>8. CASE gcstate # "propagate"
  <2>1. /\ x \in MarksType /\ x.gray = Marks.gray
        /\ \A o \in Obj : x.colour[o] = IF o \in L /\ Marks.colour[o] = "gray" THEN currentwhite ELSE Marks.colour[o]
    BY <1>6, <1>7, <1>8, CloseAllSweeps
  <2>2. \A o \in Obj : x.colour[o] = IF o \in L /\ colour[o] = "gray" THEN currentwhite ELSE colour[o]
    BY <1>7, <2>1
  <2>3. \A o \in L : colour[o] = "gray" \/ colour[o] = currentwhite
    <3>1. \A o \in L : colour[o] \in Colours /\ colour[o] \notin {"free", "black", Other(currentwhite)}
      BY <1>1, <1>2, <1>3, PhaseNow DEF IsDead
    <3>2. QED
      BY <3>1, PhaseNow DEF Colours, Other
  <2>4. \A o \in L : colour'[o] = currentwhite
    BY <1>1, <1>4, <2>2, <2>3
  <2>5. \A o \in Obj \ U : colour'[o] = colour[o]
    BY <1>1, <1>4, <2>2
  <2>6. \A o \in U \ L : colour'[o] = "free" /\ IsDead(o)
    BY <1>1, <1>2, <1>4
  <2>7. ClosedColours(U, L)
    <3> SUFFICES ASSUME NEW o \in Obj
                 PROVE  /\ o \in U \ L => colour'[o] = "free" /\ gcstate # "propagate" /\ IsDead(o)
                        /\ o \notin U \ L => /\ colour'[o] = "free" <=> colour[o] = "free"
                                             /\ colour'[o] = Other(currentwhite) <=> IsDead(o)
                        /\ o \in L => colour'[o] \notin {"gray", "free"} /\ ~IsDead(o)
                                      /\ (gcstate # "propagate" => colour'[o] = currentwhite)
                        /\ gcstate # "propagate" /\ IsClean(o) => colour'[o] \in {"free", currentwhite}
                        /\ Is(o, "thread") => colour'[o] # "black"
                        /\ Is(o, "udata") => colour'[o] # "gray"
                        /\ Is(o, "upval") /\ o \notin U /\ colour'[o] = "gray" => at[o] # <<>>
                        /\ at[o] # <<>> /\ o \notin U => colour'[o] # "black"
      BY DEF ClosedColours
    <3>1. CASE o \in L
      BY <1>1, <1>2, <1>3, <2>4, <3>1, PhaseNow, RecordsAre DEF IInv, IsDead
    <3>2. CASE o \in U \ L
      BY <1>3, <1>8, <2>6, <3>2
    <3>3. CASE o \notin U
      BY <1>1, <1>5, <2>5, <3>3 DEF Coloured, Open, IsDead, IsClean
    <3>4. QED
      BY <3>1, <3>2, <3>3
  <2>8. gray' \in Seq(Obj) /\ colour' \in [Obj -> Colours]
    <3>1. x.colour \in [Obj -> Colours] /\ x.gray \in Seq(Obj)
      BY <2>1 DEF MarksType
    <3>2. QED
      BY <3>1 DEF Colours
  <2>9. QED
    BY <1>8, <2>7, <2>8
<1>9. CASE gcstate = "propagate"
  <2>1. MarksBase(Marks)
    BY <1>9, MarksAre
  <2> PICK m : m = Marks
    OBVIOUS
  <2>2. Grown(m, x, {}, L) /\ \A u \in L : x.colour[u] # "gray"
    BY <1>9, <2>1, CloseAllGrown DEF IInv
  <2>3. x.colour \in [Obj -> Colours] /\ x.gray \in Seq(Obj)
    BY <2>2 DEF Grown, MarksType
  <2>4. L = U
    BY <1>1, <1>2, <1>9, PhaseNow
  <2>5. colour' = x.colour /\ gray' = x.gray /\ m.colour = colour /\ m.gray = gray
    BY <1>7, <2>3, <2>4
  <2>6. ListsFit(x.colour, x.gray, grayagain, weak)
    <3>1. ListsFit(m.colour, m.gray, grayagain, weak)
      BY <1>9, <2>5, MarkingIs
    <3>2. QED
      BY <2>2, <3>1, GrownLists DEF IInv
  <2>7. \A r \in Obj0 : NW(m.colour, r) => NW(x.colour, r)
    BY <2>2, GrownKeeps
  <2>8. ASSUME NEW o \in Obj
        PROVE  /\ FM(m.colour, o) => FM(x.colour, o)
               /\ x.colour[o] = "black" /\ m.colour[o] # "black" /\ o \notin L => FM(x.colour, o)
               /\ x.colour[o] = "black" /\ m.colour[o] # "black" /\ o \in L => NW(x.colour, ValueOf(o))
    BY <2>2, GrownBlack DEF IInv
  <2>9. ASSUME NEW o \in Obj
        PROVE  /\ x.colour[o] = "free" <=> m.colour[o] = "free"
               /\ x.colour[o] \in Whites => x.colour[o] = m.colour[o]
               /\ x.colour[o] = m.colour[o] \/ x.colour[o] \in {"gray", "black"}
               /\ Is(o, "thread") /\ x.colour[o] = "black" => m.colour[o] = "black"
               /\ Is(o, "udata") /\ x.colour[o] = "gray" => m.colour[o] = "gray"
               /\ Is(o, "upval") /\ x.colour[o] = "gray" => m.colour[o] = "gray" \/ Open(o)
               /\ Open(o) /\ x.colour[o] = "black" => m.colour[o] = "black" \/ Is(o, "udata") \/ o \in L
    BY <2>2, GrownColours DEF IInv
  <2>10. ClosedColours(U, L)
    <3> SUFFICES ASSUME NEW o \in Obj
                 PROVE  /\ x.colour[o] = "free" <=> colour[o] = "free"
                        /\ x.colour[o] = Other(currentwhite) <=> IsDead(o)
                        /\ o \in L => x.colour[o] \notin {"gray", "free"} /\ ~IsDead(o)
                        /\ Is(o, "thread") => x.colour[o] # "black"
                        /\ Is(o, "udata") => x.colour[o] # "gray"
                        /\ Is(o, "upval") /\ x.colour[o] = "gray" => at[o] # <<>>
                        /\ at[o] # <<>> /\ o \notin L => x.colour[o] # "black"
      BY <1>9, <2>4, <2>5 DEF ClosedColours
    <3>1. ~IsDead(o) /\ colour[o] # Other(currentwhite)
      BY <1>9, PhaseNow DEF IsDead
    <3>2. x.colour[o] # Other(currentwhite)
      BY <2>5, <2>9, <3>1, PhaseNow
    <3>3. Is(o, "upval") => ~Is(o, "udata")
      BY DEF Is
    <3>4. o \in L => x.colour[o] \notin {"gray", "free"}
      BY <1>1, <1>3, <2>2, <2>5, <2>9
    <3>5. QED
      BY <1>5, <2>5, <2>9, <3>1, <3>2, <3>3, <3>4 DEF Coloured, Open
  <2>11. ClosedMarks(L)
    <3>1. \A o \in L : colour[o] # "black" /\ o \in Obj
      BY <1>1, <1>3
    <3>2. QED
      BY <2>5, <2>6, <2>7, <2>8, <3>1 DEF ClosedMarks
  <2>12. QED
    BY <2>3, <2>5, <2>10, <2>11
<1> QED
  BY <1>8, <1>9

\* A block that is left, with the upvalues it closes, keeps the invariant.
LEMMA LeaveKeeps ==
  ASSUME IInv, OpFrame, NEW l \in Slots(running), Leave(l)
  PROVE  IInv'
<1> DEFINE Ends == {u \in OfKind("upval") : Open(u) /\ at[u][2] >= l}
           Lives == {u \in Obj : Marks.colour[u] # Other(currentwhite)}
<1> PICK us : us = Those(OpenUpvals(running), Ends)
  OBVIOUS
<1> PICK living : living = Those(us, Lives)
  OBVIOUS
<1>1. /\ OpenUpvals(running) \in Seq(OfKind("upval")) /\ IsInjective(OpenUpvals(running))
      /\ \A u \in Obj : u \in Range(OpenUpvals(running)) <=> at[u] # <<>> /\ at[u][1] = running
  BY RunningIs, OpenUpvalsAre
<1>2. us \in Seq(OfKind("upval")) /\ IsInjective(us) /\ Range(us) = Range(OpenUpvals(running)) \cap Ends
  BY <1>1, ThoseAre
<1>3. living \in Seq(OfKind("upval")) /\ IsInjective(living) /\ Range(living) = Range(us) \cap Lives
  BY <1>2, ThoseAre
<1> DEFINE U == Range(us)
           L == Range(living)
<1>4. U \subseteq Obj /\ L \subseteq U /\ \A u \in U : Is(u, "upval") /\ at[u] # <<>>
  BY <1>2, <1>3 DEF OfKind, Open
<1>5. Marks.colour = colour
  BY DEF Marks
<1>6. L = U \cap {u \in Obj : colour[u] # Other(currentwhite)}
  BY <1>3, <1>5
<1> DEFINE c == luaF_close(Marks, us)
<1>7. /\ c.colour = [o \in Obj |-> IF Contains(us, o) /\ ~Contains(living, o) THEN "free"
                                   ELSE CloseAll(Marks, living).colour[o]]
      /\ c.gray = CloseAll(Marks, living).gray
      /\ c.ref = [o \in Obj |-> IF Contains(living, o) THEN [Nothing EXCEPT !.val = ValueOf(o)] ELSE ref[o]]
      /\ c.at = [o \in Obj |-> IF Contains(us, o) THEN <<>> ELSE at[o]]
      /\ c.new = Reverse(living)
  BY DEF luaF_close
<1>8. /\ SetMarks(c) /\ ref' = c.ref /\ at' = c.at /\ rootgc' = c.new \o rootgc
      /\ stack' = [stack EXCEPT ![running] = [s \in Slots(running) |-> IF s >= l THEN 0 ELSE stack[running][s]]]
      /\ running' = running /\ arg' = arg /\ grayagain' = grayagain /\ weak' = weak /\ sweepstrgc' = sweepstrgc
      /\ sweepgc' = sweepgc /\ finalized' = finalized /\ called' = called /\ stage = 0
  BY DEF Leave, May
<1>9. \A o : (Contains(us, o) <=> o \in U) /\ (Contains(living, o) <=> o \in L)
  BY <1>2, <1>3, ContainsIs
<1>10. /\ colour' = [o \in Obj |-> IF o \in U /\ o \notin L THEN "free" ELSE CloseAll(Marks, living).colour[o]]
       /\ gray' = CloseAll(Marks, living).gray
       /\ ref' = [o \in Obj |-> IF o \in L THEN [Nothing EXCEPT !.val = ValueOf(o)] ELSE ref[o]]
       /\ at' = [o \in Obj |-> IF o \in U THEN <<>> ELSE at[o]]
       /\ rootgc' = Reverse(living) \o rootgc
  BY <1>7, <1>8, <1>9 DEF SetMarks
<1> HIDE DEF c
<1>11. /\ ClosedColours(U, L) /\ gray' \in Seq(Obj) /\ colour' \in [Obj -> Colours]
       /\ gcstate = "propagate" => ClosedMarks(L)
  BY <1>2, <1>3, <1>4, <1>6, <1>10, CloseColours
<1> HIDE DEF U, L
<1>a. /\ shape' = shape /\ currentwhite' = currentwhite /\ tmudata' = tmudata /\ gcstate' = gcstate /\ stage' = stage
      /\ Obj' = Obj /\ Plain' = Plain /\ OfKind("table")' = OfKind("table") /\ TypeOK /\ 0 \in Plain /\ 0 \in Obj0
  BY ShapeSame, ShapeIs DEF OpFrame, IInv, Plain, Obj0, OfKind
<1>12. \A u \in U : ref[u] = Nothing /\ colour[u] # "free" /\ colour[u] # "black"
  BY <1>4 DEF IInv, FieldsFit, OpenFit, Open
<1>13. \A u \in L : ValueOf(u) \in Plain /\ ValueOf(u) \in Obj0 /\ Living(ValueOf(u)) /\ Living(u)
  <2> SUFFICES ASSUME NEW u \in L PROVE ValueOf(u) \in Plain /\ ValueOf(u) \in Obj0 /\ Living(ValueOf(u)) /\ Living(u)
    OBVIOUS
  <2>1. u \in Obj /\ Is(u, "upval") /\ colour[u] # "free" /\ colour[u] # Other(currentwhite)
    BY <1>4, <1>6, <1>12
  <2>2. Living(u)
    BY <2>1 DEF Living, Live
  <2>3. QED
    BY <2>1, <2>2, ValueIs DEF IInv, LivingRefs
<1>14. /\ \A o \in L : ref'[o] = [key |-> 0, val |-> ValueOf(o), meta |-> 0]
       /\ \A o \in Obj \ L : ref'[o] = ref[o]
       /\ \A o \in U : at'[o] = <<>>
       /\ \A o \in Obj \ U : at'[o] = at[o]
       /\ DOMAIN at' = Obj
       /\ ref' \in [Obj -> [key : Obj0, val : Obj0, meta : Obj0]]
  <2>1. \A o \in L : [Nothing EXCEPT !.val = ValueOf(o)] = [key |-> 0, val |-> ValueOf(o), meta |-> 0]
    BY <1>13, <1>a, RecordsAre
  <2>2. \A o \in L : [key |-> 0, val |-> ValueOf(o), meta |-> 0] \in [key : Obj0, val : Obj0, meta : Obj0]
    BY <1>13, <1>a
  <2>3. ref \in [Obj -> [key : Obj0, val : Obj0, meta : Obj0]]
    BY <1>a DEF TypeOK
  <2>4. QED
    BY <1>4, <1>10, <2>1, <2>2, <2>3
<1>b. ASSUME NEW o \in L
      PROVE  ref'[o].key = 0 /\ ref'[o].val = ValueOf(o) /\ ref'[o].meta = 0
  <2>1. PICK v : v = ValueOf(o)
    OBVIOUS
  <2>2. ref'[o] = [key |-> 0, val |-> v, meta |-> 0]
    BY <1>14, <2>1
  <2>3. ref'[o].key = 0 /\ ref'[o].val = v /\ ref'[o].meta = 0
    BY <2>2
  <2>4. QED
    BY <2>1, <2>3
<1>15. LivesOn
  <2> SUFFICES ASSUME NEW o \in Obj, Living(o) PROVE Live(colour', currentwhite, o)
    BY DEF LivesOn
  <2>1. o # 0 /\ ~IsDead(o) /\ colour[o] # "free"
    BY ShapeIs, <1>a DEF Living, Live, IsDead
  <2>2. QED
    BY <1>11, <2>1 DEF ClosedColours, Live
<1>16. colour'[running] # "free" /\ running \notin U
  BY <1>4, <1>11, RunningIs DEF ClosedColours, OfKind, Is
<1>17. StackFits
  <2>1. DOMAIN stack = OfKind("thread") /\ \A h \in OfKind("thread") : stack[h] \in [Slots(h) -> Obj0]
    BY <1>a DEF TypeOK
  <2>2. Live(colour', currentwhite, 0)
    BY DEF Live
  <2>3. QED
    BY <1>8, <1>16, <1>a, <2>1, <2>2, RunningIs DEF StackFits
<1>18. L \cap Range(rootgc) = {} /\ L \cap Range(tmudata) = {}
  BY <1>4 DEF IInv, Linked, Open, Is
<1>19. RootGrown(L) /\ rootgc' \in Seq(Obj)
  <2>1. Reverse(living) \in Seq(OfKind("upval")) /\ Range(Reverse(living)) = L /\ IsInjective(Reverse(living))
    BY <1>3, ReverseIs DEF L
  <2>2. Reverse(living) \in Seq(Obj)
    BY <2>1 DEF OfKind
  <2> PICK q : q = Reverse(living)
    OBVIOUS
  <2>3. q \in Seq(Obj) /\ IsInjective(q) /\ Range(q) \cap Range(rootgc) = {} /\ rootgc' = q \o rootgc /\ Range(q) = L
    BY <1>10, <1>18, <2>1, <2>2
  <2>4. RootGrown(Range(q)) /\ rootgc' \in Seq(Obj)
    BY <2>3, RootJoined
  <2>5. QED
    BY <2>3, <2>4
<1>20. TypeOK'
  <2>1. TypeStep
    BY <1>8, <1>11, <1>14, <1>19, <1>a DEF TypeStep, TypeOK
  <2>2. QED
    BY <1>8, <1>17, <2>1, TypeOp
<1>21. FieldsFit'
  <2> SUFFICES ASSUME NEW o \in Obj
               PROVE  \/ ref'[o] = ref[o] /\ at'[o] = at[o] /\ (colour'[o] = "free" <=> colour[o] = "free")
                      \/ ObjFits(o)'
    BY <1>a, FieldsOp
  <2>1. CASE o \in L
    <3>1. Is(o, "upval") /\ at'[o] = <<>> /\ colour'[o] # "free"
      BY <1>4, <1>11, <1>14, <2>1 DEF ClosedColours
    <3>2. ref'[o].key = 0 /\ ref'[o].val = ValueOf(o) /\ ref'[o].meta = 0
      BY <1>b, <2>1
    <3>3. ObjFits(o)'
      BY <1>13, <1>a, <2>1, <3>1, <3>2 DEF ObjFits, Is, Open
    <3>4. QED
      BY <3>3
  <2>2. CASE o \in U \ L
    <3>1. Is(o, "upval") /\ at'[o] = <<>> /\ ref'[o] = Nothing
      BY <1>4, <1>12, <1>14, <2>2
    <3>2. ObjFits(o)'
      BY <1>a, <3>1 DEF ObjFits, Is, Open, Nothing
    <3>3. QED
      BY <3>2
  <2>3. CASE o \notin U
    BY <1>4, <1>11, <1>14, <2>3 DEF ClosedColours
  <2>4. QED
    BY <2>1, <2>2, <2>3
<1>22. SlotsFit'
  <2>1. \A th \in OfKind("thread") : colour'[th] = "free" => colour[th] = "free"
    BY <1>4, <1>11 DEF ClosedColours, OfKind, Is
  <2>2. QED
    BY <1>8, <1>17, <2>1, SlotsOp
<1>23. OpenFit'
  <2>1. \A u \in Obj : at'[u] \in {at[u], <<>>} \/ Opened(u)
    BY <1>14
  <2>2. \A u \in Obj : at'[u] # <<>> => u \notin U /\ at'[u] = at[u]
    BY <1>14
  <2>3. \A u \in Obj : at[u] # <<>> => colour[u] # "free" /\ colour[at[u][1]] # "free" /\ at[u][1] \in OfKind("thread")
    <3>1. \A u \in Obj : at[u] # <<>> => \E th \in OfKind("thread") : \E s \in Slots(th) : at[u] = <<th, s>>
      BY <1>a DEF TypeOK
    <3>2. \A u \in Obj : at[u] # <<>> => at[u][1] \in OfKind("thread")
      BY <3>1
    <3>3. QED
      BY <3>2 DEF IInv, OpenFit, Open
  <2>4. \A u \in Obj : at'[u] # <<>> => colour'[u] \notin {"free", "black"}
    BY <1>11, <2>2, <2>3 DEF ClosedColours
  <2>5. \A th \in OfKind("thread") : th \notin U /\ th \in Obj
    BY <1>4 DEF OfKind, Is
  <2>6. \A u \in Obj : at'[u] # <<>> /\ at'[u] = at[u] => colour'[at[u][1]] # "free"
    BY <1>11, <2>2, <2>3, <2>5 DEF ClosedColours
  <2>7. QED
    BY <1>a, <2>1, <2>4, <2>6, OpenOp
<1>24. Linked'
  <2>1. IsInjective(rootgc') /\ Range(rootgc') = L \cup Range(rootgc)
    BY <1>19 DEF RootGrown
  <2>2. \A r \in L : colour'[r] # "free" /\ ~Is(r, "string") /\ at'[r] = <<>> /\ r \notin Range(tmudata)
    BY <1>4, <1>11, <1>14, <1>18 DEF ClosedColours, Is
  <2>3. Range(rootgc) \subseteq Obj \ U /\ Range(tmudata) \subseteq Obj \ U
    <3>1. Range(rootgc) \subseteq Obj /\ Range(tmudata) \subseteq Obj
      BY <1>a, RangeHas DEF TypeOK
    <3>2. QED
      BY <1>4, <3>1 DEF IInv, Linked, Is, Open
  <2>4. \A o \in Range(rootgc) : colour'[o] # "free" /\ at'[o] = at[o]
    BY <1>11, <1>14, <2>3 DEF ClosedColours, IInv, Linked
  <2>5. \A o \in Range(tmudata) : colour'[o] # "free"
    BY <1>11, <2>3 DEF ClosedColours, IInv, Linked
  <2>6. \A o \in Obj : colour'[o] # "free" =>
            (colour[o] # "free" /\ at'[o] = at[o]) \/ Is(o, "string") \/ at'[o] # <<>> \/ o \in L
    BY <1>11, <1>14 DEF ClosedColours
  <2>7. QED
    BY <1>a, <2>1, <2>2, <2>4, <2>5, <2>6, LinkedOp
<1>25. Coloured'
  <2> SUFFICES ASSUME NEW o \in Obj
               PROVE  /\ Is(o, "thread") => colour'[o] # "black"
                      /\ Is(o, "udata") => colour'[o] # "gray"
                      /\ Is(o, "upval") /\ colour'[o] = "gray" => at'[o] # <<>>
    BY <1>a DEF Coloured, Is, Open
  <2>1. CASE o \in U
    BY <1>4, <1>11, <2>1 DEF ClosedColours, Is
  <2>2. CASE o \notin U
    BY <1>11, <1>14, <2>2 DEF ClosedColours
  <2>3. QED
    BY <2>1, <2>2
<1>26. \A o \in Obj : gcstate # "propagate" /\ IsClean(o) => colour'[o] \in {"free", currentwhite}
  BY <1>11 DEF ClosedColours
<1>27. Phases'
  <2>1. \A o \in Obj : colour'[o] = Other(currentwhite) => colour[o] = Other(currentwhite)
    BY <1>11, PhaseNow DEF ClosedColours, IsDead
  <2>2. gcstate \in {"pause", "finalize"} =>
           \A o \in Obj : IsClean(o) => colour'[o] \in {"free", currentwhite}
    BY <1>26
  <2>3. arg' \in {0, arg}
    BY <1>8
  <2>4. QED
    BY <2>1, <2>2, <2>3, PhasesOp
<1>28. SweepString'
  <2>1. gcstate = "sweepstring" => \A o \in Obj : IsClean(o) => colour'[o] \in {"free", currentwhite}
    BY <1>26
  <2>2. UNCHANGED <<sweepstrgc, sweepgc>>
    BY <1>8
  <2>3. QED
    BY <2>1, <2>2, SweepStringOp
<1>29. Sweep'
  <2>1. gcstate = "sweep" => \A o \in Obj : IsClean(o) => colour'[o] \in {"free", currentwhite}
    BY <1>26
  <2>2. gcstate = "sweep" => \A o \in Obj : Is(o, "string") => colour'[o] \in {"free", currentwhite}
    BY <2>1 DEF IInv, Sweep
  <2>3. gcstate = "sweep" /\ sweepgc # 0 => sweepgc \in Range(rootgc') /\ sweepgc # rootgc'[Len(rootgc')]
    BY <1>19 DEF RootGrown
  <2>4. gcstate = "sweep" => \A o \in Obj : Before(rootgc', sweepgc, o) =>
           \/ Before(rootgc, sweepgc, o)
           \/ colour'[o] \in {"free", currentwhite} /\ (Is(o, "thread") => \A u \in Obj : at'[u] # <<>> => at'[u][1] # o)
    <3>1. \A o \in L : ~Is(o, "thread")
      BY <1>4 DEF Is
    <3>2. QED
      BY <1>11, <1>19, <3>1 DEF RootGrown, ClosedColours
  <2>5. gcstate = "sweep" => \A u \in Obj : at'[u] # <<>> =>
           at'[u] = at[u] \/ colour'[u] \in {"free", currentwhite}
    BY <1>14
  <2>6. sweepgc' = sweepgc
    BY <1>8
  <2>7. QED
    BY <2>1, <2>2, <2>3, <2>4, <2>5, <2>6, SweepOp
<1>30. LivingRefs'
  <2>1. Live(colour', currentwhite, running') /\ running' \in Obj
    BY <1>8, <1>15, RunningIs DEF LivesOn
  <2>2. ASSUME NEW o \in Obj, Live(colour', currentwhite, o)
        PROVE  (Living(o) /\ ref'[o] = ref[o] /\ at'[o] = at[o]) \/ RefsLive(o)'
    <3>0. o # 0
      BY ShapeIs, <1>a
    <3>1. CASE o \in L
      <4>1. ref'[o].val = ValueOf(o) /\ ref'[o].meta = 0 /\ at'[o] = <<>> /\ Is(o, "upval") /\ ~Is(o, "thread")
        BY <1>4, <1>14, <1>b, <3>1 DEF Is
      <4>2. ValueOf(o)' = ValueOf(o)
        BY <4>1 DEF ValueOf, Open
      <4>3. Live(colour', currentwhite, ValueOf(o)) /\ Live(colour', currentwhite, 0)
        BY <1>13, <1>15, <3>1 DEF LivesOn, Live, Obj0
      <4>4. QED
        BY <1>a, <4>1, <4>2, <4>3 DEF RefsLive, Is, Living
    <3>2. CASE o \in U \ L
      BY <1>11, <2>2, <3>0, <3>2 DEF ClosedColours, Live
    <3>3. CASE o \notin U
      <4>1. Living(o)
        BY <1>11, <2>2, <3>0, <3>3 DEF ClosedColours, Living, Live, IsDead
      <4>2. QED
        BY <1>4, <1>14, <3>3, <4>1
    <3>4. QED
      BY <3>1, <3>2, <3>3
  <2>3. arg' \in {0, arg}
    BY <1>8
  <2>4. QED
    BY <1>15, <1>17, <2>1, <2>2, <2>3, LivingOp
<1>31. Marked'
  <2> SUFFICES ASSUME gcstate = "propagate" PROVE Marking' /\ Atomic'
    BY <1>a DEF Marked
  <2>1. Atomic'
    BY <1>8, <1>a DEF Atomic
  <2>2. /\ ListsFit(colour', gray', grayagain, weak)
        /\ \A r \in Obj0 : NW(colour, r) => NW(colour', r)
        /\ \A o \in Obj : colour[o] = "black" /\ FM(colour, o) => FM(colour', o)
        /\ \A o \in Obj \ L : colour[o] # "black" /\ colour'[o] = "black" => FM(colour', o)
        /\ \A o \in L : colour'[o] = "black" => NW(colour', ValueOf(o))
    BY <1>11 DEF ClosedMarks
  <2>3. /\ \A p \in Range(grayagain) : Is(p, "table") \/ Is(p, "thread")
        /\ \A p \in Obj : colour[p] = "black" => p \in Range(tmudata) \/ FM(colour, p)
    BY MarkingIs
  <2>4. ASSUME NEW o \in Obj, colour'[o] = "black" PROVE o \in Range(tmudata) \/ FM(colour, o)'
    <3>1. CASE o \in L
      <4>1. NW(colour', ValueOf(o))
        BY <2>2, <2>4, <3>1
      <4>2. ref'[o].key = 0 /\ ref'[o].val = ValueOf(o) /\ ref'[o].meta = 0
        BY <1>b, <3>1
      <4>3. QED
        BY <4>1, <4>2 DEF FM, NW
    <3>2. CASE o \notin L
      <4>1. o \in Range(tmudata) \/ FM(colour', o)
        BY <2>2, <2>3, <2>4, <3>2
      <4>2. FM(colour', o) => FM(colour, o)'
        BY <1>14, <3>2 DEF FM, NW
      <4>3. QED
        BY <4>1, <4>2
    <3>3. QED
      BY <3>1, <3>2
  <2>5. weak' = weak /\ ListsFit(colour', gray', grayagain', weak) /\ \A p \in Range(grayagain') : Is(p, "table") \/ Is(p, "thread")
    BY <1>8, <2>2, <2>3
  <2>6. Marking'
    BY <2>2, <2>4, <2>5, MarkingStore
  <2>7. QED
    BY <2>1, <2>6
<1>32. FinalizedOK'
  BY <1>8, <1>a DEF IInv, FinalizedOK
<1> QED
  BY <1>20, <1>21, <1>22, <1>23, <1>24, <1>25, <1>27, <1>28, <1>29, <1>30, <1>31, <1>32 DEF IInv

\* Steps that leave the heap as it is.
HeapSame == UNCHANGED <<shape, colour, ref, at, stack, rootgc, tmudata, currentwhite>>
\* What is the same in the same heap.
LEMMA HeapIs ==
  ASSUME HeapSame
  PROVE  /\ shape' = shape /\ colour' = colour /\ ref' = ref /\ at' = at /\ stack' = stack /\ rootgc' = rootgc
         /\ tmudata' = tmudata /\ currentwhite' = currentwhite
         /\ Obj' = Obj /\ Obj0' = Obj0 /\ Plain' = Plain /\ Strings' = Strings
         /\ OfKind("thread")' = OfKind("thread") /\ OfKind("table")' = OfKind("table")
         /\ (\A th : Slots(th)' = Slots(th)) /\ (\A o : \A k : Is(o, k)' = Is(o, k))
         /\ \A u : ValueOf(u)' = ValueOf(u)
BY ShapeSame DEF HeapSame, Slots, Is, ValueOf, Open

\* The parts of the invariant about the heap.
LEMMA HeapKeeps ==
  ASSUME IInv, HeapSame, UNCHANGED <<running, arg>>
  PROVE  FieldsFit' /\ SlotsFit' /\ OpenFit' /\ Linked' /\ Coloured' /\ LivingRefs'
<1>1. FieldsFit'
  BY HeapIs, FieldsOp
<1>2. SlotsFit'
  BY HeapIs DEF IInv, SlotsFit
<1>3. OpenFit' /\ Linked' /\ Coloured'
  BY HeapIs DEF IInv, OpenFit, Open, Linked, Coloured
<1>4. LivingRefs'
  BY HeapIs DEF IInv, LivingRefs, Living, Main, Globals
<1> QED
  BY <1>1, <1>2, <1>3, <1>4

\* A full collection that is begun, in any state, keeps the invariant.
LEMMA FullGCKeeps ==
  ASSUME IInv, FullGC
  PROVE  IInv'
<1>1. /\ HeapSame /\ UNCHANGED <<running, arg>> /\ stage = 0 /\ stage' = 0 /\ arg = 0 /\ arg' = 0 /\ full' = "sweep"
      /\ finalized' = finalized /\ called' = called /\ running' = running
  BY DEF FullGC, May, HeapSame, program
<1>2. FieldsFit' /\ SlotsFit' /\ OpenFit' /\ Linked' /\ Coloured' /\ LivingRefs'
  BY <1>1, HeapKeeps
<1>3. FinalizedOK'
  BY <1>1, HeapIs DEF IInv, FinalizedOK
<1>4. CASE gcstate \in {"pause", "propagate"}
  <2>1. /\ gcstate' = "sweepstring" /\ sweepstrgc' = 0 /\ sweepgc' = 0
        /\ gray' = <<>> /\ grayagain' = <<>> /\ weak' = <<>>
    BY <1>4 DEF FullGC
  <2>2. TypeOK'
    <3>1. TypeOK
      BY DEF IInv
    <3>2. <<>> \in Seq(Obj)
      OBVIOUS
    <3>3. gray' \in Seq(Obj) /\ grayagain' \in Seq(Obj) /\ weak' \in Seq(Obj) /\ gcstate' \in States /\ sweepgc' \in Obj0
          /\ sweepstrgc' \in Nat /\ stage' \in 0..4 /\ full' \in {"no", "sweep", "mark"} /\ arg' \in Obj0
      BY <1>1, <2>1, <3>2 DEF States, Obj0
    <3>4. QED
      BY <1>1, <3>1, <3>3, HeapIs DEF TypeOK
  <2>3. Phases'
    BY <1>1, <2>1, HeapIs DEF IInv, Phases, IsDead
  <2>4. SweepString'
    <3>1. Strings \in Seq(Obj)
      <4>1. Objects \in Seq(Obj)
        BY DEF Objects, Obj
      <4>2. QED
        BY <4>1, ThoseAre DEF Strings
    <3>2. Len(Strings) \in Nat /\ (Strings # <<>> => 0 < Len(Strings))
      BY <3>1
    <3>3. QED
      BY <1>1, <2>1, <3>2, HeapIs DEF SweepString
  <2>5. Sweep' /\ Marked'
    BY <2>1 DEF Sweep, Marked
  <2>6. QED
    BY <1>2, <1>3, <2>2, <2>3, <2>4, <2>5 DEF IInv
<1>5. CASE gcstate \notin {"pause", "propagate"}
  <2>1. UNCHANGED <<gcstate, lists, sweepstrgc, sweepgc>>
    BY <1>5 DEF FullGC
  <2>2. TypeOK'
    BY <1>1, <2>1, HeapIs DEF IInv, TypeOK, lists
  <2>3. Phases'
    BY <1>1, <1>5, <2>1, HeapIs DEF IInv, Phases, IsDead, IsClean
  <2>4. SweepString'
    BY <1>1, <2>1, HeapIs DEF IInv, SweepString, IsClean
  <2>5. Sweep'
    BY <1>1, <2>1, HeapIs DEF IInv, Sweep, IsClean, Before, SweptThread, Open
  <2>6. Marked'
    BY <1>5, <2>1 DEF Marked
  <2>7. QED
    BY <1>2, <1>3, <2>2, <2>3, <2>4, <2>5, <2>6 DEF IInv
<1> QED
  BY <1>4, <1>5

\* Every operation of the program keeps the invariant.
LEMMA OperationKeeps ==
  ASSUME IInv, Operation
  PROVE  IInv'
<1>1. OpFrame
  BY DEF Operation, OpFrame
<1>2. CASE \E s \in Slots(running) :
             \/ New(s) \/ NewUdata(s)
             \/ \E v \in Held : NewCclosure(s, v)
             \/ \E o \in OfKind("string") : luaS_newlstr(s, o)
             \/ \E l \in Slots(running) : NewLclosure(s, l)
             \/ \E o \in Held, v \in Obj : Load(s, o, v)
  BY <1>1, <1>2, NewKeeps, NewUdataKeeps, NewCclosureKeeps, StringKeeps, NewLclosureKeeps, LoadKeeps
<1>3. CASE \E o \in Held, v \in Values :
             \/ \E k \in Keys : SetEntry(o, k, v)
             \/ SetUpvalue(o, v) \/ Xmove(o, v)
  BY <1>1, <1>3, SetEntryKeeps, SetUpvalueKeeps, XmoveKeeps
<1>4. CASE \E o, mt \in Held : SetMetatable(o, mt)
  BY <1>1, <1>4, SetMetatableKeeps
<1>5. CASE \E l \in Slots(running) : Leave(l)
  BY <1>1, <1>5, LeaveKeeps
<1>6. CASE \E th \in OfKind("thread") : Resume(th)
  BY <1>1, <1>6, ResumeKeeps
<1>7. CASE Yield \/ Finalized
  BY <1>1, <1>7, YieldKeeps, FinalizedKeeps
<1> QED
  BY <1>2, <1>3, <1>4, <1>5, <1>6, <1>7 DEF Operation

-----------------------------------------------------------------------------
(* Steps of the mark phase: c are the colours after the step; threads      *)
(* outside E are not black.                                                *)
Painted(c, E) ==
  \A o \in Obj : /\ ~IsDead(o)
                 /\ c[o] = "free" <=> colour[o] = "free"
                 /\ c[o] # Other(currentwhite)
                 /\ Is(o, "thread") /\ o \notin E => c[o] # "black"
                 /\ Is(o, "udata") => c[o] # "gray"
                 /\ Is(o, "upval") /\ c[o] = "gray" => at[o] # <<>>
                 /\ at[o] # <<>> => c[o] # "black"
PaintFrame == UNCHANGED <<shape, at, stack, running, arg, currentwhite>>
PaintType ==
  /\ colour' \in [Obj -> Colours]
  /\ gray' \in Seq(Obj) /\ grayagain' \in Seq(Obj) /\ weak' \in Seq(Obj)
  /\ rootgc' \in Seq(Obj) /\ tmudata' \in Seq(Obj) /\ sweepgc' \in Obj0 /\ sweepstrgc' \in Nat
  /\ gcstate' \in States /\ stage' \in 0..4 /\ full' \in {"no", "sweep", "mark"}
  /\ finalized' \subseteq Obj /\ called' \subseteq Obj
\* An entry without a value loses its key.
Emptied(o) == \/ ref'[o] = ref[o]
              \/ Is(o, "table") /\ ref[o].val = 0 /\ ref'[o] = Fields(0, 0, ref[o].meta)

\* Nothing has been painted yet.
LEMMA PaintedNow ==
  ASSUME IInv, gcstate \in {"pause", "propagate", "finalize"}
  PROVE  Painted(colour, {})
<1>1. \A o \in Obj : ~IsDead(o)
  BY DEF IInv, Phases
<1>2. Coloured /\ \A u \in Obj : at[u] # <<>> => colour[u] # "black"
  BY DEF IInv, OpenFit, Open
<1> QED
  BY <1>1, <1>2 DEF Painted, Coloured, Open, IsDead

\* Marking paints.
LEMMA GrownPainted ==
  ASSUME IInv, NEW m, NEW x, Grown(m, x, {}, {}), NEW E, Painted(m.colour, E)
  PROVE  Painted(x.colour, E)
<1> SUFFICES ASSUME NEW o \in Obj
             PROVE  /\ ~IsDead(o)
                    /\ x.colour[o] = "free" <=> colour[o] = "free"
                    /\ x.colour[o] # Other(currentwhite)
                    /\ Is(o, "thread") /\ o \notin E => x.colour[o] # "black"
                    /\ Is(o, "udata") => x.colour[o] # "gray"
                    /\ Is(o, "upval") /\ x.colour[o] = "gray" => at[o] # <<>>
                    /\ at[o] # <<>> => x.colour[o] # "black"
  BY DEF Painted
<1>1. /\ x.colour[o] = "free" <=> m.colour[o] = "free"
      /\ x.colour[o] \in Whites => x.colour[o] = m.colour[o]
      /\ x.colour[o] = m.colour[o] \/ x.colour[o] \in {"gray", "black"}
      /\ Is(o, "thread") /\ x.colour[o] = "black" => m.colour[o] = "black"
      /\ Is(o, "udata") /\ x.colour[o] = "gray" => m.colour[o] = "gray"
      /\ Is(o, "upval") /\ x.colour[o] = "gray" => m.colour[o] = "gray" \/ Open(o)
      /\ Open(o) /\ x.colour[o] = "black" => m.colour[o] = "black" \/ Is(o, "udata")
  BY GrownColours DEF IInv
<1>2. /\ ~IsDead(o)
      /\ m.colour[o] = "free" <=> colour[o] = "free"
      /\ m.colour[o] # Other(currentwhite)
      /\ Is(o, "thread") /\ o \notin E => m.colour[o] # "black"
      /\ Is(o, "udata") => m.colour[o] # "gray"
      /\ Is(o, "upval") /\ m.colour[o] = "gray" => at[o] # <<>>
      /\ at[o] # <<>> => m.colour[o] # "black"
  BY DEF Painted
<1>3. at[o] # <<>> => ~Is(o, "udata")
  BY DEF IInv, OpenFit, Open, Is
<1> QED
  BY <1>1, <1>2, <1>3, PhaseNow DEF Open

\* Painting keeps the parts about the heap.
LEMMA PaintKeeps ==
  ASSUME IInv, PaintFrame, PaintType, Painted(colour', {}), ref' \in [Obj -> [key : Obj0, val : Obj0, meta : Obj0]],
         \A o \in Obj : Emptied(o),
         \A o \in Range(tmudata') : o \in Obj /\ colour[o] # "free"
  PROVE  TypeOK' /\ FieldsFit' /\ SlotsFit' /\ OpenFit' /\ Coloured' /\ LivingRefs'
<1>0. /\ shape' = shape /\ at' = at /\ stack' = stack /\ running' = running /\ arg' = arg /\ currentwhite' = currentwhite
      /\ Obj' = Obj /\ Obj0' = Obj0 /\ Plain' = Plain /\ OfKind("table")' = OfKind("table")
      /\ OfKind("thread")' = OfKind("thread") /\ (\A th : Slots(th)' = Slots(th))
      /\ (\A o : \A k : Is(o, k)' = Is(o, k)) /\ 0 \in Plain
  BY ShapeSame, ShapeIs DEF PaintFrame, Slots, Is, IInv, Plain, Obj0, OfKind
<1>1. TypeOK'
  <2>1. TypeOK
    BY DEF IInv
  <2>2. QED
    BY <1>0, <2>1 DEF TypeOK, PaintType
<1>2. \A o \in Obj : /\ colour'[o] = "free" <=> colour[o] = "free"
                     /\ Live(colour', currentwhite, o) <=> Living(o)
  BY DEF Painted, Live, Living, IsDead
<1>3. \A r \in Obj0 : Live(colour', currentwhite, r) <=> Living(r)
  BY <1>2 DEF Obj0, Live, Living
<1>4. \A o \in Obj : /\ ref'[o].meta = ref[o].meta /\ ref'[o].val = ref[o].val /\ ref'[o].key \in {ref[o].key, 0}
                     /\ ref'[o].key # ref[o].key => Is(o, "table") /\ ref[o].val = 0
  BY DEF Emptied, Fields
<1>5. FieldsFit'
  <2> SUFFICES ASSUME NEW o \in Obj
               PROVE  \/ ref'[o] = ref[o] /\ at'[o] = at[o] /\ (colour'[o] = "free" <=> colour[o] = "free")
                      \/ ObjFits(o)'
    BY <1>0, FieldsOp
  <2>1. CASE ref'[o] = ref[o]
    BY <1>0, <1>2, <2>1
  <2>2. CASE ref'[o] # ref[o]
    <3>1. Is(o, "table") /\ ref'[o] = Fields(0, 0, ref[o].meta)
      BY <2>2 DEF Emptied
    <3>2. ref'[o].key = 0 /\ ref'[o].val = 0 /\ ref'[o].meta = ref[o].meta
      BY <3>1 DEF Fields
    <3>3. ref[o].meta \in OfKind("table") \cup {0} /\ ~Is(o, "lclosure") /\ ~Is(o, "udata") /\ at[o] = <<>>
      BY <3>1 DEF IInv, FieldsFit, OpenFit, Open, Is
    <3>4. colour[o] # "free" \/ ref[o] = Nothing
      BY DEF IInv, FieldsFit
    <3>5. ref[o] = Nothing => ref'[o] = Nothing
      BY <3>1 DEF Fields, Nothing
    <3>6. ObjFits(o)'
      BY <1>0, <1>2, <3>1, <3>2, <3>3, <3>4, <3>5 DEF ObjFits, Open
    <3>7. QED
      BY <3>6
  <2>3. QED
    BY <2>1, <2>2
<1>6. SlotsFit'
  <2>1. \A th \in OfKind("thread") : th \in Obj
    BY DEF OfKind
  <2>2. QED
    BY <1>0, <1>2, <2>1 DEF IInv, SlotsFit
<1>7. \A u \in Obj : at[u] # <<>> => colour[u] # "free" /\ colour[at[u][1]] # "free"
                                      /\ at[u][1] \in Obj
  <2>1. \A u \in Obj : at[u] # <<>> => \E th \in OfKind("thread") : \E l \in Slots(th) : at[u] = <<th, l>>
    BY DEF IInv, TypeOK
  <2>2. \A u \in Obj : at[u] # <<>> => at[u][1] \in Obj
    BY <2>1 DEF OfKind
  <2>3. QED
    BY <2>2 DEF IInv, OpenFit, Open
<1>8. OpenFit'
  <2>1. \A u \in Obj : at'[u] \in {at[u], <<>>} \/ Opened(u)
    BY <1>0
  <2>2. \A u \in Obj : at'[u] # <<>> => colour'[u] \notin {"free", "black"}
    BY <1>0, <1>2, <1>7 DEF Painted
  <2>3. \A u \in Obj : at'[u] # <<>> /\ at'[u] = at[u] => colour'[at[u][1]] # "free"
    BY <1>0, <1>2, <1>7
  <2>4. QED
    BY <1>0, <2>1, <2>2, <2>3, OpenOp
<1>9. Coloured'
  BY <1>0 DEF Coloured, Painted, Open
<1>10. LivingRefs'
  <2>1. ASSUME NEW o \in Obj, Live(colour', currentwhite, o) PROVE RefsLive(o)'
    <3>1. RefsLive(o)
      BY <1>2, <2>1 DEF IInv, LivingRefs, RefsLive
    <3>2. ref[o].meta \in Obj0 /\ ref[o].key \in Obj0 /\ ref[o].val \in Obj0
      BY RefIs DEF IInv
    <3>3. Is(o, "upval") => ValueOf(o)' = ValueOf(o) /\ ValueOf(o) \in Obj0
      BY <1>0, <1>4, ValueIs DEF ValueOf, Open, IInv
    <3>4. ASSUME Is(o, "thread"), NEW s \in Slots(o) PROVE stack[o][s] \in Obj0
      BY <3>4, StackIs DEF IInv, OfKind
    <3>5. QED
      BY <1>0, <1>3, <1>4, <3>1, <3>2, <3>3, <3>4 DEF RefsLive, Living
  <2>2. Main \in Obj0 /\ Globals \in Obj0 /\ arg \in Obj0 /\ running \in Obj0
    BY ShapeIs, RunningIs DEF IInv, TypeOK, Obj0
  <2>3. Live(colour', currentwhite, Main) /\ Live(colour', currentwhite, Globals)
        /\ Live(colour', currentwhite, arg) /\ Live(colour', currentwhite, running)
    BY <1>3, <2>2 DEF IInv, LivingRefs
  <2>4. \A o \in Range(tmudata') : Live(colour', currentwhite, o)
    BY <1>2 DEF Painted, Live
  <2>5. QED
    BY <1>0, <2>1, <2>3, <2>4 DEF LivingRefs, RefsLive, Living, Main, Globals
<1> QED
  BY <1>1, <1>5, <1>6, <1>8, <1>9, <1>10

-----------------------------------------------------------------------------
(* The steps of the mark phase.                                            *)
\* Nothing is linked or freed.
LEMMA LinkedSame ==
  ASSUME IInv, UNCHANGED <<shape, at, rootgc, tmudata>>,
         \A o \in Obj : colour'[o] = "free" <=> colour[o] = "free"
  PROVE  Linked'
<1>0. PICK R : R = {}
  OBVIOUS
<1>1. /\ IsInjective(rootgc') /\ Range(rootgc') = R \cup Range(rootgc)
      /\ \A o \in Range(rootgc) : o \in Obj /\ colour[o] # "free"
      /\ \A o \in Range(tmudata) : o \in Obj /\ colour[o] # "free"
  BY <1>0, RangeHas DEF IInv, TypeOK, Linked
<1>2. \A o \in Range(rootgc) : colour'[o] # "free" /\ at'[o] = at[o]
  BY <1>1
<1>3. \A o \in Range(tmudata) : colour'[o] # "free"
  BY <1>1
<1>4. \A o \in Obj : colour'[o] # "free" =>
            (colour[o] # "free" /\ at'[o] = at[o]) \/ Is(o, "string") \/ at'[o] # <<>> \/ o \in R
  OBVIOUS
<1>5. \A r \in R : colour'[r] # "free" /\ ~Is(r, "string") /\ at'[r] = <<>> /\ r \notin Range(tmudata)
  BY <1>0
<1>6. shape' = shape /\ tmudata' = tmudata
  OBVIOUS
<1> QED
  BY <1>1, <1>2, <1>3, <1>4, <1>5, <1>6, LinkedOp

\* Phases while marking.
LEMMA MarkPhase ==
  ASSUME IInv, PaintFrame, PaintType, Painted(colour', {}), ref' \in [Obj -> [key : Obj0, val : Obj0, meta : Obj0]],
         \A o \in Obj : Emptied(o), gcstate' = "propagate", arg = 0,
         Linked', FinalizedOK', Marking', Atomic',
         \A o \in Range(tmudata') : o \in Obj /\ colour[o] # "free"
  PROVE  IInv'
<1>1. TypeOK' /\ FieldsFit' /\ SlotsFit' /\ OpenFit' /\ Coloured' /\ LivingRefs'
  BY PaintKeeps
<1>2. /\ Obj' = Obj /\ currentwhite' = currentwhite /\ arg' = 0
  BY ShapeSame DEF PaintFrame
<1>3. \A o \in Obj : colour'[o] # Other(currentwhite)
  BY DEF Painted
<1>4. Phases'
  BY <1>2, <1>3 DEF Phases, IsDead
<1>5. SweepString' /\ Sweep' /\ Marked'
  BY DEF SweepString, Sweep, Marked
<1> QED
  BY <1>1, <1>4, <1>5 DEF IInv

\* What the colours after the step say of what they were before.
Darker(c, d) == /\ \A r \in Obj0 : NW(c, r) => NW(d, r)
                /\ \A r \in Obj : d[r] = "free" => c[r] = "free"
\* What marking the objects os does, starting from m.
LEMMA MarkMore ==
  ASSUME IInv, NEW m, MarksBase(m), NEW os \in Seq(Obj0), NEW x, x = MarkAll(m, os)
  PROVE  /\ Grown(m, x, {}, {}) /\ x.colour \in [Obj -> Colours] /\ x.gray \in Seq(Obj)
         /\ \A r \in Range(os) : NW(x.colour, r)
         /\ Darker(m.colour, x.colour)
         /\ \A p \in Obj : x.colour[p] = "black" /\ m.colour[p] # "black" => FM(x.colour, p)
         /\ \A p \in Obj : m.colour[p] = "black" => x.colour[p] = "black"
         /\ \A u \in Obj : /\ Open(u) /\ x.colour[u] = "gray"
                           /\ m.colour[u] = "gray" => NW(x.colour, ValueOf(u))
                           => NW(x.colour, ValueOf(u))
<1>0. TypeOK /\ FieldsFit /\ SlotsFit
  BY DEF IInv
<1>1. Grown(m, x, {}, {}) /\ \A r \in Range(os) : NW(x.colour, r)
  BY <1>0, MarkAllGrown
<1>2. x.colour \in [Obj -> Colours] /\ x.gray \in Seq(Obj)
  BY <1>1 DEF Grown, MarksType
<1>3. Darker(m.colour, x.colour)
  <2>1. \A r \in Obj0 : NW(m.colour, r) => NW(x.colour, r)
    BY <1>1, GrownKeeps
  <2>2. \A r \in Obj : x.colour[r] = "free" => m.colour[r] = "free"
    BY <1>0, <1>1, GrownColours
  <2>3. QED
    BY <2>1, <2>2 DEF Darker
<1>4. \A p \in Obj : x.colour[p] = "black" /\ m.colour[p] # "black" => FM(x.colour, p)
  BY <1>0, <1>1, GrownBlack
<1>5. \A p \in Obj : m.colour[p] = "black" => x.colour[p] = "black"
  BY <1>1 DEF Grown, Grew, Whites
<1>6. ASSUME NEW u \in Obj, Open(u), x.colour[u] = "gray", m.colour[u] = "gray" => NW(x.colour, ValueOf(u))
      PROVE  NW(x.colour, ValueOf(u))
  <2>1. Is(u, "upval")
    BY <1>6 DEF IInv, OpenFit
  <2>2. CASE m.colour[u] = "gray"
    BY <1>6, <2>2
  <2>3. CASE m.colour[u] # "gray"
    <3>1. m.colour[u] \in Whites
      BY <1>1, <1>6, <2>3 DEF Grown, Grew
    <3>2. Grayed(x.colour, u)
      BY <1>1, <1>6, <3>1 DEF Grown, GrewGray
    <3>3. QED
      BY <2>1, <3>2 DEF Grayed
  <2>4. QED
    BY <2>2, <2>3
<1> QED
  BY <1>1, <1>2, <1>3, <1>4, <1>5, <1>6

\* A step that marks keeps the invariant if the lists and black objects are right.
LEMMA DarkerKeeps ==
  ASSUME IInv, NEW c, NEW d, Darker(c, d), NEW p \in Obj, FM(c, p)
  PROVE  FM(d, p)
<1>1. ref[p].key \in Obj0 /\ ref[p].val \in Obj0 /\ ref[p].meta \in Obj0
  BY RefIs DEF IInv
<1> QED
  BY <1>1 DEF Darker, FM, Obj0

\* Marking after a step that marks.
LEMMA MarkingNow ==
  ASSUME IInv, shape' = shape,
         ListsFit(colour', gray', grayagain', weak'),
         \A o \in Range(weak') : Is(o, "table"),
         \A o \in Range(grayagain') : Is(o, "table") \/ Is(o, "thread"),
         NW(colour', Main), NW(colour', Globals),
         \A o \in Obj : colour'[o] = "black" => o \in Range(tmudata') \/ FM(colour, o)'
  PROVE  Marking'
<1>1. Obj' = Obj /\ \A o : \A k : Is(o, k)' = Is(o, k)
  BY ShapeSame DEF Is
<1>2. GrayObjects(colour)' = GrayObjects(colour')
  BY <1>1 DEF GrayObjects
<1>3. \A o \in Obj : FM(colour, o)' => FieldsMarked(o)'
  BY DEF FM, FieldsMarked
<1> QED
  BY <1>1, <1>2, <1>3 DEF Marking, ListsFit, Main, Globals

\* The start of a collection keeps the invariant.
LEMMA MarkrootKeeps ==
  ASSUME IInv, markroot
  PROVE  IInv'
<1> DEFINE m == [Marks EXCEPT !.gray = <<>>]
           os == <<Main, Globals>>
<1>1. PICK x : x = MarkAll(m, os)
  OBVIOUS
<1>2. /\ arg = 0 /\ gcstate \in {"pause", "finalize"} /\ colour' = x.colour /\ gray' = x.gray
      /\ grayagain' = <<>> /\ weak' = <<>> /\ gcstate' = "propagate" /\ full' \in {full, "mark"}
      /\ UNCHANGED <<shape, ref, at, stack, running, arg, rootgc, sweepstrgc, sweepgc, currentwhite, stage, tmudata,
                     finalized, called>>
  BY <1>1 DEF markroot, Collecting, SetMarks, program, sweeping
<1>3. m.colour = colour /\ m.gray = <<>> /\ m \in MarksType
  <2>1. m = [colour |-> colour, gray |-> <<>>]
    BY DEF Marks
  <2>2. colour \in [Obj -> Colours] /\ <<>> \in Seq(Obj)
    BY DEF IInv, TypeOK
  <2>3. QED
    BY <2>1, <2>2 DEF MarksType
<1>4. MarksBase(m)
  BY <1>3, EmptyRange DEF MarksBase
<1>5. os \in Seq(Obj0) /\ Main \in Range(os) /\ Globals \in Range(os)
  <2>1. Main \in Obj0 /\ Globals \in Obj0
    BY ShapeIs DEF IInv, Obj0
  <2>2. DOMAIN os = {1, 2} /\ os[1] = Main /\ os[2] = Globals
    OBVIOUS
  <2>3. os \in Seq(Obj0)
    BY <2>1
  <2>4. QED
    BY <2>2, <2>3 DEF Range
<1> HIDE DEF m, os
<1>6. /\ Grown(m, x, {}, {}) /\ x.colour \in [Obj -> Colours] /\ x.gray \in Seq(Obj)
      /\ \A r \in Range(os) : NW(x.colour, r)
      /\ \A p \in Obj : x.colour[p] = "black" /\ m.colour[p] # "black" => FM(x.colour, p)
  BY <1>1, <1>4, <1>5, MarkMore
<1>7. Painted(colour', {})
  <2>1. Painted(m.colour, {})
    BY <1>2, <1>3, PaintedNow
  <2>2. QED
    BY <1>2, <1>6, <2>1, GrownPainted
<1>8. stage = 0 /\ \A o \in Obj : o \in Range(tmudata) \/ IsClean(o)
  BY <1>2 DEF IInv, Phases
<1>9. /\ currentwhite \notin {"gray", "black"}
      /\ \A o \in Range(tmudata) : Is(o, "udata") /\ o \in Obj /\ colour[o] # "free"
  BY RangeHas DEF IInv, TypeOK, Whites, Linked
<1>10. GrayObjects(colour) = {}
  <2>1. ASSUME NEW o \in Obj, shape.kinds[o] \in Gathered PROVE colour[o] # "gray"
    BY <1>8, <1>9, <2>1 DEF IsClean, Is, Gathered
  <2>2. QED
    BY <2>1 DEF GrayObjects
<1>11. ListsFit(colour', gray', grayagain', weak')
  <2>1. ListsFit(m.colour, m.gray, <<>>, <<>>)
    BY <1>3, <1>10, EmptyRange DEF ListsFit
  <2>2. QED
    BY <1>2, <1>6, <2>1, GrownLists DEF IInv
<1>12. \A o \in Obj : colour'[o] = "black" => o \in Range(tmudata') \/ FM(colour', o)
  BY <1>2, <1>3, <1>6, <1>8, <1>9 DEF IsClean
<1>13. Marking'
  <2>1. \A o \in Obj : FM(colour', o) => FM(colour, o)'
    BY <1>2 DEF FM
  <2>2. QED
    BY <1>2, <1>5, <1>6, <1>11, <1>12, <2>1, MarkingNow, EmptyRange
<1>14. Atomic'
  BY <1>2, <1>8 DEF Atomic
<1>15. \A o \in Obj : Emptied(o)
  BY <1>2 DEF Emptied
<1>16. PaintFrame
  BY <1>2 DEF PaintFrame
<1>17. PaintType
  <2>1. <<>> \in Seq(Obj)
    OBVIOUS
  <2>2. gray' \in Seq(Obj) /\ grayagain' \in Seq(Obj) /\ weak' \in Seq(Obj) /\ colour' \in [Obj -> Colours]
    BY <1>2, <1>6, <2>1
  <2>3. TypeOK
    BY DEF IInv
  <2>4. gcstate' \in States /\ full' \in {"no", "sweep", "mark"}
    BY <1>2, <2>3 DEF States, TypeOK
  <2>5. QED
    BY <1>2, <2>2, <2>3, <2>4 DEF PaintType, TypeOK
<1>18. FinalizedOK'
  BY <1>2 DEF IInv, FinalizedOK
<1>19. Linked'
  <2>1. \A o \in Obj : colour'[o] = "free" <=> colour[o] = "free"
    BY <1>7 DEF Painted
  <2>2. QED
    BY <1>2, <2>1, LinkedSame
<1>20. ref' \in [Obj -> [key : Obj0, val : Obj0, meta : Obj0]]
  BY <1>2 DEF IInv, TypeOK
<1>21. arg = 0 /\ gcstate' = "propagate" /\ \A o \in Range(tmudata') : o \in Obj /\ colour[o] # "free"
  BY <1>2, <1>9
<1> QED
  BY <1>7, <1>13, <1>14, <1>15, <1>16, <1>17, <1>18, <1>19, <1>20, <1>21, MarkPhase

\* What traversing an object marks.
LEMMA TraversedIs ==
  ASSUME IInv, NEW o \in Obj
  PROVE  /\ Traversed(o) \in Seq(Obj0)
         /\ Is(o, "table") => /\ ref[o].meta \in Range(Traversed(o))
                              /\ "v" \notin Mode(o) => ref[o].val \in Range(Traversed(o))
                              /\ "k" \notin Mode(o) /\ ref[o].val # 0 => ref[o].key \in Range(Traversed(o))
         /\ Is(o, "thread") => \A s \in Slots(o) : stack[o][s] \in Range(Traversed(o))
         /\ ~Is(o, "table") /\ ~Is(o, "thread") => ref[o].val \in Range(Traversed(o))
<1>1. ref[o].key \in Obj0 /\ ref[o].val \in Obj0 /\ ref[o].meta \in Obj0 /\ Globals \in Obj0 /\ shape.slots[o] \in Nat
  BY RefIs, ShapeIs DEF IInv, Obj0
<1>2. CASE Is(o, "table")
  <2> DEFINE p == <<ref[o].meta>>
             q == IF "v" \in Mode(o) THEN <<>> ELSE <<ref[o].val>>
             r == IF "k" \in Mode(o) \/ ref[o].val = 0 THEN <<>> ELSE <<ref[o].key>>
  <2>1. p \in Seq(Obj0) /\ q \in Seq(Obj0) /\ r \in Seq(Obj0)
    BY <1>1
  <2>2. /\ ref[o].meta \in Range(p)
        /\ "v" \notin Mode(o) => ref[o].val \in Range(q)
        /\ "k" \notin Mode(o) /\ ref[o].val # 0 => ref[o].key \in Range(r)
    BY DEF Range
  <2>3. Traversed(o) = (p \o q) \o r
    BY <1>2 DEF Traversed, Strong, Is
  <2> HIDE DEF p, q, r
  <2>4. p \o q \in Seq(Obj0) /\ Range(p \o q) = Range(p) \cup Range(q)
    BY <2>1, JoinIs
  <2>41. PICK pq : pq = p \o q
    OBVIOUS
  <2>42. pq \in Seq(Obj0)
    BY <2>4, <2>41
  <2>43. pq \o r \in Seq(Obj0) /\ Range(pq \o r) = Range(pq) \cup Range(r)
    BY <2>1, <2>42, JoinIs
  <2>5. (p \o q) \o r \in Seq(Obj0) /\ Range((p \o q) \o r) = Range(p \o q) \cup Range(r)
    BY <2>41, <2>43
  <2>6. ~Is(o, "thread")
    BY <1>2 DEF Is
  <2>7. QED
    BY <1>2, <2>2, <2>3, <2>4, <2>5, <2>6
<1>3. CASE Is(o, "thread")
  <2>1. Traversed(o) = <<Globals>> \o stack[o] /\ ~Is(o, "table")
    BY <1>3 DEF Traversed, Is
  <2>2. stack[o] \in [1..shape.slots[o] -> Obj0] /\ Slots(o) = 1..shape.slots[o]
    BY <1>3 DEF IInv, TypeOK, OfKind, Slots
  <2>3. stack[o] \in Seq(Obj0)
    BY <1>1, <2>2
  <2>4. <<Globals>> \o stack[o] \in Seq(Obj0) /\ Range(<<Globals>> \o stack[o]) = {Globals} \cup Range(stack[o])
    BY <1>1, <2>3, ConsIs
  <2>5. \A s \in Slots(o) : stack[o][s] \in Range(stack[o])
    BY <2>2 DEF Range
  <2>6. QED
    BY <1>3, <2>1, <2>4, <2>5
<1>4. CASE ~Is(o, "table") /\ ~Is(o, "thread")
  <2>1. Traversed(o) = <<Globals, ref[o].val>>
    BY <1>4 DEF Traversed, Is
  <2>2. <<Globals, ref[o].val>> \in Seq(Obj0)
    BY <1>1
  <2>3. ref[o].val \in Range(<<Globals, ref[o].val>>)
    BY DEF Range
  <2>4. QED
    BY <1>4, <2>1, <2>2, <2>3
<1> QED
  BY <1>2, <1>3, <1>4

\* The head of the gray list turns black.
HeadMarks(o, m) == m = [colour |-> [colour EXCEPT ![o] = "black"], gray |-> Tail(gray)]
\* The object that is traversed turns black, what it refers to is marked.
LEMMA HeadBlack ==
  ASSUME IInv, gcstate = "propagate", gray # <<>>, NEW o, o = Head(gray), NEW m, HeadMarks(o, m)
  PROVE  /\ o \in Obj /\ shape.kinds[o] \in Gathered /\ colour[o] = "gray" /\ ~IsDead(o)
         /\ o \notin Range(grayagain) /\ o \notin Range(weak)
         /\ MarksBase(m) /\ ListsFit(m.colour, m.gray, grayagain, weak)
         /\ Darker(colour, m.colour) /\ Painted(m.colour, {o})
         /\ m.colour[o] = "black" /\ \A p \in Obj : p # o => m.colour[p] = colour[p]
<1>1. /\ ListsFit(colour, gray, grayagain, weak) /\ gray \in Seq(Obj) /\ colour \in [Obj -> Colours]
      /\ currentwhite \in Whites
  BY MarkingIs DEF IInv, TypeOK
<1>2. /\ o \in Obj /\ Tail(gray) \in Seq(Obj) /\ Range(gray) = {o} \cup Range(Tail(gray))
      /\ IsInjective(Tail(gray)) /\ o \notin Range(Tail(gray))
  BY <1>1, TailIs DEF ListsFit
<1>3. shape.kinds[o] \in Gathered /\ colour[o] = "gray"
  BY <1>1, <1>2 DEF ListsFit, GrayObjects
<1>4. ~IsDead(o) /\ o \notin Range(grayagain) /\ o \notin Range(weak)
  BY <1>1, <1>2 DEF ListsFit, IInv, Phases
<1>5. m.colour = [colour EXCEPT ![o] = "black"] /\ m.gray = Tail(gray)
  BY DEF HeadMarks
<1>6. m \in MarksType
  BY <1>1, <1>2 DEF HeadMarks, MarksType, Colours
<1>7. m.colour[o] = "black" /\ \A p \in Obj : p # o => m.colour[p] = colour[p]
  BY <1>1, <1>2, <1>5
<1>8. GrayObjects(m.colour) = GrayObjects(colour) \ {o}
  BY <1>7 DEF GrayObjects
<1>9. ListsFit(m.colour, m.gray, grayagain, weak)
  <2>1. PICK g : g = Tail(gray)
    OBVIOUS
  <2>2. IsInjective(g) /\ Range(gray) = {o} \cup Range(g) /\ o \notin Range(g) /\ m.gray = g
    BY <1>2, <1>5, <2>1
  <2>3. /\ IsInjective(grayagain) /\ IsInjective(weak)
        /\ Range(gray) \cap Range(grayagain) = {} /\ Range(gray) \cap Range(weak) = {}
        /\ Range(grayagain) \cap Range(weak) = {}
        /\ Range(gray) \cup Range(grayagain) \cup Range(weak) = GrayObjects(colour)
    BY <1>1 DEF ListsFit
  <2>4. Range(g) \cap Range(grayagain) = {} /\ Range(g) \cap Range(weak) = {}
    BY <2>2, <2>3
  <2>5. Range(g) \cup Range(grayagain) \cup Range(weak) = GrayObjects(m.colour)
    BY <1>4, <1>8, <2>2, <2>3
  <2>6. QED
    BY <2>2, <2>3, <2>4, <2>5 DEF ListsFit
<1>10. MarksBase(m)
  <2>1. \A p \in Range(m.gray) : p \in Obj /\ m.colour[p] = "gray"
    BY <1>9 DEF ListsFit, GrayObjects
  <2>2. QED
    BY <1>2, <1>5, <1>6, <2>1 DEF MarksBase, Whites
<1>11. Darker(colour, m.colour)
  BY <1>3, <1>7 DEF Darker, NW, Obj0, Whites
<1>12. Painted(m.colour, {o})
  <2>1. Painted(colour, {})
    BY PaintedNow
  <2>2. ~Is(o, "udata") /\ ~Is(o, "upval") /\ at[o] = <<>>
    BY <1>2, <1>3 DEF Is, Gathered, IInv, OpenFit, Open
  <2>3. "black" # Other(currentwhite)
    BY DEF Other
  <2> HIDE DEF HeadMarks
  <2>4. QED
    BY <1>3, <1>7, <2>1, <2>2, <2>3 DEF Painted
<1> QED
  BY <1>2, <1>3, <1>4, <1>7, <1>9, <1>10, <1>11, <1>12

\* Threads and weak tables are gray again, on another list.
Regrayed(c, o, d) == d = [c EXCEPT ![o] = "gray"]
\* A thread or a weak table turns gray again.
LEMMA BackAgain ==
  ASSUME IInv, NEW o \in Obj, shape.kinds[o] \in Gathered, NEW c, c \in [Obj -> Colours], c[o] = "black",
         Painted(c, {o}), ~IsDead(o), colour[o] # "free", NEW d, Regrayed(c, o, d),
         NEW g, NEW a \in Seq(Obj), NEW w \in Seq(Obj), ListsFit(c, g, a, w)
  PROVE  /\ ListsFit(d, g, <<o>> \o a, w) /\ ListsFit(d, g, a, <<o>> \o w)
         /\ Darker(c, d) /\ Painted(d, {}) /\ d \in [Obj -> Colours] /\ d[o] = "gray"
         /\ \A p \in Obj : p # o => d[p] = c[p]
<1>1. d \in [Obj -> Colours] /\ d[o] = "gray" /\ \A p \in Obj : p # o => d[p] = c[p]
  BY DEF Colours, Regrayed
<1>2. GrayObjects(d) = GrayObjects(c) \cup {o} /\ o \notin GrayObjects(c)
  BY <1>1 DEF GrayObjects
<1>3. o \notin Range(g) /\ o \notin Range(a) /\ o \notin Range(w)
  BY <1>2 DEF ListsFit
<1>4. /\ Range(<<o>> \o a) = {o} \cup Range(a) /\ (IsInjective(a) => IsInjective(<<o>> \o a))
      /\ Range(<<o>> \o w) = {o} \cup Range(w) /\ (IsInjective(w) => IsInjective(<<o>> \o w))
  BY <1>3, ConsIs
<1>5. ListsFit(d, g, <<o>> \o a, w) /\ ListsFit(d, g, a, <<o>> \o w)
  <2>1. PICK oa : oa = <<o>> \o a
    OBVIOUS
  <2>2. PICK ow : ow = <<o>> \o w
    OBVIOUS
  <2>3. /\ IsInjective(g) /\ IsInjective(a) /\ IsInjective(w)
        /\ Range(g) \cap Range(a) = {} /\ Range(g) \cap Range(w) = {} /\ Range(a) \cap Range(w) = {}
        /\ Range(g) \cup Range(a) \cup Range(w) = GrayObjects(c)
    BY DEF ListsFit
  <2>4. Range(oa) = {o} \cup Range(a) /\ IsInjective(oa) /\ Range(ow) = {o} \cup Range(w) /\ IsInjective(ow)
    BY <1>4, <2>1, <2>2, <2>3
  <2>5. ListsFit(d, g, oa, w)
    <3>1. Range(g) \cap Range(oa) = {} /\ Range(oa) \cap Range(w) = {}
      BY <1>3, <2>3, <2>4
    <3>2. Range(g) \cup Range(oa) \cup Range(w) = GrayObjects(d)
      BY <1>2, <2>3, <2>4
    <3>3. QED
      BY <2>3, <2>4, <3>1, <3>2 DEF ListsFit
  <2>6. ListsFit(d, g, a, ow)
    <3>1. Range(g) \cap Range(ow) = {} /\ Range(a) \cap Range(ow) = {}
      BY <1>3, <2>3, <2>4
    <3>2. Range(g) \cup Range(a) \cup Range(ow) = GrayObjects(d)
      BY <1>2, <2>3, <2>4
    <3>3. QED
      BY <2>3, <2>4, <3>1, <3>2 DEF ListsFit
  <2>7. QED
    BY <2>1, <2>2, <2>5, <2>6
<1>6. Darker(c, d)
  BY <1>1 DEF Darker, NW, Obj0, Whites
<1>7. Painted(d, {})
  <2>1. ~Is(o, "udata") /\ ~Is(o, "upval")
    BY DEF Is, Gathered
  <2>2. "gray" # Other(currentwhite)
    BY DEF Other
  <2>3. at[o] = <<>>
    BY <2>1 DEF IInv, OpenFit, Open
  <2>4. \A p \in Obj : p # o =>
             /\ ~IsDead(p)
             /\ d[p] = "free" <=> colour[p] = "free"
             /\ d[p] # Other(currentwhite)
             /\ Is(p, "thread") => d[p] # "black"
             /\ Is(p, "udata") => d[p] # "gray"
             /\ Is(p, "upval") /\ d[p] = "gray" => at[p] # <<>>
             /\ at[p] # <<>> => d[p] # "black"
    BY <1>1 DEF Painted
  <2>5. d[o] = "gray" /\ "gray" # "free" /\ "gray" # "black"
    BY <1>1
  <2>6. QED
    BY <2>1, <2>2, <2>3, <2>4, <2>5 DEF Painted
<1> QED
  BY <1>1, <1>5, <1>6, <1>7

\* Marking in two steps.
LEMMA DarkerTrans ==
  ASSUME NEW c, NEW d, NEW e, Darker(c, d), Darker(d, e)
  PROVE  Darker(c, e)
BY DEF Darker

IsWeak(o) == Is(o, "table") /\ Mode(o) # {}
\* The lists and the colours that propagatemark leaves; x are the marks after
\* the traversal of o.
PropagateLists(o, x) ==
  /\ ListsFit(colour', gray', grayagain', weak')
  /\ Darker(x.colour, colour') /\ Painted(colour', {}) /\ colour' \in [Obj -> Colours]
  /\ gray' \in Seq(Obj) /\ grayagain' \in Seq(Obj) /\ weak' \in Seq(Obj)
  /\ Range(grayagain') = Range(grayagain) \cup (IF Is(o, "thread") THEN {o} ELSE {})
  /\ Range(weak') = Range(weak) \cup (IF IsWeak(o) THEN {o} ELSE {})
  /\ \A p \in Obj : p # o => colour'[p] = x.colour[p]
  /\ colour'[o] = "black" => ~Is(o, "thread") /\ ~IsWeak(o)
\* The lists after the step.
LEMMA PropagateListsAre ==
  ASSUME IInv, NEW o \in Obj, shape.kinds[o] \in Gathered, ~IsDead(o), colour[o] # "free",
         NEW x, x.colour \in [Obj -> Colours], x.gray \in Seq(Obj), x.colour[o] = "black", Painted(x.colour, {o}),
         ListsFit(x.colour, x.gray, grayagain, weak),
         gray' = x.gray,
         colour' = IF Is(o, "thread") \/ IsWeak(o) THEN [x.colour EXCEPT ![o] = "gray"] ELSE x.colour,
         grayagain' = IF Is(o, "thread") THEN <<o>> \o grayagain ELSE grayagain,
         weak' = IF IsWeak(o) THEN <<o>> \o weak ELSE weak
  PROVE  PropagateLists(o, x)
<1>1. grayagain \in Seq(Obj) /\ weak \in Seq(Obj)
  BY DEF IInv, TypeOK
<1>2. CASE Is(o, "thread") \/ IsWeak(o)
  <2>1. PICK c : c = x.colour
    OBVIOUS
  <2>2. PICK d : Regrayed(c, o, d)
    BY DEF Regrayed
  <2>3. PICK g : g = x.gray
    OBVIOUS
  <2>31. /\ c \in [Obj -> Colours] /\ c[o] = "black"
         /\ Painted(c, {o}) /\ ListsFit(c, g, grayagain, weak)
    BY <2>1, <2>3
  <2>4. /\ ListsFit(d, g, <<o>> \o grayagain, weak) /\ ListsFit(d, g, grayagain, <<o>> \o weak)
        /\ Darker(c, d) /\ Painted(d, {}) /\ d \in [Obj -> Colours] /\ d[o] = "gray"
        /\ \A p \in Obj : p # o => d[p] = c[p]
    BY <1>1, <2>2, <2>31, BackAgain
  <2>5. colour' = d /\ gray' = g
    BY <1>2, <2>1, <2>2, <2>3 DEF Regrayed
  <2>6. /\ <<o>> \o grayagain \in Seq(Obj) /\ Range(<<o>> \o grayagain) = {o} \cup Range(grayagain)
        /\ <<o>> \o weak \in Seq(Obj) /\ Range(<<o>> \o weak) = {o} \cup Range(weak)
    BY <1>1, ConsIs
  <2>7. Is(o, "thread") => ~IsWeak(o)
    BY DEF IsWeak, Is
  <2>8. QED
    BY <1>1, <1>2, <2>1, <2>3, <2>4, <2>5, <2>6, <2>7 DEF PropagateLists
<1>3. CASE ~Is(o, "thread") /\ ~IsWeak(o)
  <2>1. colour' = x.colour /\ grayagain' = grayagain /\ weak' = weak
    BY <1>3
  <2>2. Darker(x.colour, x.colour)
    BY DEF Darker
  <2>3. Painted(x.colour, {})
    BY <1>3 DEF Painted
  <2>4. QED
    BY <1>1, <1>3, <2>1, <2>2, <2>3 DEF PropagateLists
<1> QED
  BY <1>2, <1>3

\* The traversal of a gray object keeps the invariant.
LEMMA PropagateKeeps ==
  ASSUME IInv, propagatemark
  PROVE  IInv'
<1>1. PICK o : o = Head(gray)
  OBVIOUS
<1>2. PICK m : HeadMarks(o, m)
  BY DEF HeadMarks
<1>3. PICK x : x = MarkAll(m, Traversed(o))
  OBVIOUS
<1>4. [Blacken(Marks, o) EXCEPT !.gray = Tail(gray)] = m
  <2>1. Marks = [colour |-> colour, gray |-> gray]
    BY DEF Marks
  <2>2. Blacken(Marks, o) = [colour |-> [colour EXCEPT ![o] = "black"], gray |-> gray]
    BY <2>1 DEF Blacken
  <2>3. PICK b : b = [colour EXCEPT ![o] = "black"]
    OBVIOUS
  <2>4. PICK t : t = Tail(gray)
    OBVIOUS
  <2>5. Blacken(Marks, o) = [colour |-> b, gray |-> gray] /\ m = [colour |-> b, gray |-> t]
    BY <1>2, <2>2, <2>3, <2>4 DEF HeadMarks
  <2>6. [Blacken(Marks, o) EXCEPT !.gray = t] = [colour |-> b, gray |-> t]
    BY <2>5
  <2>7. QED
    BY <2>4, <2>5, <2>6
<1>5. /\ arg = 0 /\ gcstate = "propagate" /\ gray # <<>>
      /\ gray' = x.gray
      /\ colour' = IF Is(o, "thread") \/ IsWeak(o) THEN [x.colour EXCEPT ![o] = "gray"] ELSE x.colour
      /\ grayagain' = IF Is(o, "thread") THEN <<o>> \o grayagain ELSE grayagain
      /\ weak' = IF IsWeak(o) THEN <<o>> \o weak ELSE weak
      /\ ref' = IF Is(o, "table") /\ ref[o].val = 0 /\ Mode(o) # {"k", "v"} THEN [ref EXCEPT ![o].key = 0] ELSE ref
      /\ UNCHANGED <<shape, at, stack, running, arg, rootgc, sweepstrgc, sweepgc, currentwhite, gcstate, stage, tmudata,
                     finalized, full, called>>
  BY <1>1, <1>3, <1>4 DEF propagatemark, Collecting, program, sweeping, IsWeak
<1>6. /\ o \in Obj /\ shape.kinds[o] \in Gathered /\ colour[o] = "gray" /\ ~IsDead(o)
      /\ o \notin Range(grayagain) /\ o \notin Range(weak)
      /\ MarksBase(m) /\ ListsFit(m.colour, m.gray, grayagain, weak)
      /\ Darker(colour, m.colour) /\ Painted(m.colour, {o})
      /\ m.colour[o] = "black" /\ \A p \in Obj : p # o => m.colour[p] = colour[p]
  BY <1>1, <1>2, <1>5, HeadBlack
<1>7. /\ Traversed(o) \in Seq(Obj0)
      /\ Is(o, "table") => /\ ref[o].meta \in Range(Traversed(o))
                           /\ "v" \notin Mode(o) => ref[o].val \in Range(Traversed(o))
                           /\ "k" \notin Mode(o) /\ ref[o].val # 0 => ref[o].key \in Range(Traversed(o))
      /\ Is(o, "thread") => \A s \in Slots(o) : stack[o][s] \in Range(Traversed(o))
      /\ ~Is(o, "table") /\ ~Is(o, "thread") => ref[o].val \in Range(Traversed(o))
  BY <1>6, TraversedIs
<1>8. /\ Grown(m, x, {}, {}) /\ x.colour \in [Obj -> Colours] /\ x.gray \in Seq(Obj)
      /\ \A r \in Range(Traversed(o)) : NW(x.colour, r)
      /\ Darker(m.colour, x.colour)
      /\ \A p \in Obj : x.colour[p] = "black" /\ m.colour[p] # "black" => FM(x.colour, p)
      /\ \A p \in Obj : m.colour[p] = "black" => x.colour[p] = "black"
      /\ \A u \in Obj : /\ Open(u) /\ x.colour[u] = "gray"
                        /\ m.colour[u] = "gray" => NW(x.colour, ValueOf(u))
                        => NW(x.colour, ValueOf(u))
  BY <1>3, <1>6, <1>7, MarkMore
<1>9. PropagateLists(o, x)
  <2>1. ListsFit(x.colour, x.gray, grayagain, weak)
    BY <1>6, <1>8, GrownLists DEF IInv
  <2>2. Painted(x.colour, {o})
    BY <1>6, <1>8, GrownPainted
  <2>3. x.colour[o] = "black" /\ colour[o] # "free"
    BY <1>6, <1>8
  <2>4. QED
    BY <1>5, <1>6, <1>8, <2>1, <2>2, <2>3, PropagateListsAre
\* References, all but the key of an empty table, stay.
<1>10. /\ ref' \in [Obj -> [key : Obj0, val : Obj0, meta : Obj0]]
       /\ \A p \in Obj : Emptied(p) /\ (p # o => ref'[p] = ref[p])
       /\ Is(o, "table") /\ ref[o].val = 0 /\ Mode(o) = {} => ref'[o].key = 0
  <2>1. CASE Is(o, "table") /\ ref[o].val = 0 /\ Mode(o) # {"k", "v"}
    <3>1. ref' = [ref EXCEPT ![o].key = 0]
      BY <1>5, <2>1
    <3>2. ref[o] \in [key : Obj0, val : Obj0, meta : Obj0] /\ ref \in [Obj -> [key : Obj0, val : Obj0, meta : Obj0]]
          /\ 0 \in Obj0 /\ ref[o].meta \in Obj0
      BY <1>6, RefIs DEF IInv, TypeOK, Obj0
    <3>3. ref'[o] = Fields(0, 0, ref[o].meta) /\ \A p \in Obj : p # o => ref'[p] = ref[p]
      BY <1>6, <2>1, <3>1, <3>2 DEF Fields
    <3>4. [ref[o] EXCEPT !.key = 0] = Fields(0, 0, ref[o].meta)
      BY <2>1, <3>2 DEF Fields
    <3>5. ref' = [ref EXCEPT ![o] = Fields(0, 0, ref[o].meta)]
      BY <3>1, <3>4
    <3>6. Fields(0, 0, ref[o].meta) \in [key : Obj0, val : Obj0, meta : Obj0]
      BY <3>2 DEF Fields
    <3>7. ref' \in [Obj -> [key : Obj0, val : Obj0, meta : Obj0]]
      BY <1>6, <3>2, <3>5, <3>6
    <3>8. ref'[o].key = 0
      BY <3>3 DEF Fields
    <3>9. \A p \in Obj : Emptied(p)
      BY <2>1, <3>3 DEF Emptied
    <3>10. QED
      BY <3>3, <3>7, <3>8, <3>9
  <2>2. CASE ~(Is(o, "table") /\ ref[o].val = 0 /\ Mode(o) # {"k", "v"})
    <3>1. ref' = ref
      BY <1>5, <2>2
    <3>2. ref \in [Obj -> [key : Obj0, val : Obj0, meta : Obj0]]
      BY DEF IInv, TypeOK
    <3>3. {} # {"k", "v"}
      OBVIOUS
    <3>4. QED
      BY <2>2, <3>1, <3>2, <3>3 DEF Emptied
  <2>3. QED
    BY <2>1, <2>2
<1>11. /\ ListsFit(colour', gray', grayagain', weak')
       /\ Darker(x.colour, colour') /\ Painted(colour', {}) /\ colour' \in [Obj -> Colours]
       /\ gray' \in Seq(Obj) /\ grayagain' \in Seq(Obj) /\ weak' \in Seq(Obj)
       /\ Range(grayagain') = Range(grayagain) \cup (IF Is(o, "thread") THEN {o} ELSE {})
       /\ Range(weak') = Range(weak) \cup (IF IsWeak(o) THEN {o} ELSE {})
       /\ \A p \in Obj : p # o => colour'[p] = x.colour[p]
       /\ colour'[o] = "black" => ~Is(o, "thread") /\ ~IsWeak(o)
  BY <1>9 DEF PropagateLists
<1>12. Darker(colour, colour') /\ Darker(m.colour, colour')
  BY <1>6, <1>8, <1>11, DarkerTrans
<1>13. \A r \in Range(Traversed(o)) : NW(colour', r)
  <2>1. Range(Traversed(o)) \subseteq Obj0
    BY <1>7, RangeHas
  <2>2. QED
    BY <1>8, <1>11, <2>1 DEF Darker
\* What is marked stays so; the key of an empty table may be gone.
<1>14. \A p \in Obj : /\ ref'[p].val = ref[p].val /\ ref'[p].meta = ref[p].meta
                      /\ ref'[p].key \in {ref[p].key, 0}
                      /\ FM(colour, p) => FM(colour, p)'
  <2>1. SUFFICES ASSUME NEW p \in Obj
                 PROVE  /\ ref'[p].val = ref[p].val /\ ref'[p].meta = ref[p].meta
                        /\ ref'[p].key \in {ref[p].key, 0}
                        /\ FM(colour, p) => FM(colour, p)'
    OBVIOUS
  <2>2. /\ ref'[p].val = ref[p].val /\ ref'[p].meta = ref[p].meta
        /\ ref'[p].key \in {ref[p].key, 0}
    BY <1>10 DEF Emptied, Fields
  <2>3. ref[p].key \in Obj0 /\ ref[p].val \in Obj0 /\ ref[p].meta \in Obj0
    BY RefIs DEF IInv
  <2>4. QED
    BY <1>12, <2>2, <2>3 DEF FM, Darker, Obj0, NW
<1>15. ASSUME NEW p \in Obj, colour'[p] = "black" PROVE p \in Range(tmudata') \/ FM(colour, p)'
  <2>1. CASE p # o
    <3>1. x.colour[p] = "black"
      BY <1>11, <1>15, <2>1
    <3>2. CASE m.colour[p] # "black"
      <4>1. FM(colour', p)
        <5>1. FM(x.colour, p)
          BY <1>8, <3>1, <3>2
        <5>2. QED
          BY <1>11, <5>1, DarkerKeeps
      <4>2. QED
        BY <1>10, <2>1, <4>1 DEF FM
    <3>3. CASE m.colour[p] = "black"
      <4>1. colour[p] = "black"
        BY <1>6, <2>1, <3>3
      <4>2. p \in Range(tmudata) \/ FM(colour, p)
        BY <1>5, <4>1, MarkingIs
      <4>3. QED
        BY <1>5, <1>14, <4>2
    <3>4. QED
      BY <3>2, <3>3
  <2>2. CASE p = o
    <3>1. ~Is(o, "thread") /\ ~IsWeak(o) /\ ~Is(o, "udata")
      BY <1>6, <1>11, <1>15, <2>2 DEF Is, Gathered
    <3>2. Is(o, "table") \/ (ref[o].key = 0 /\ ref[o].meta = 0)
      BY <1>6, <3>1 DEF IInv, FieldsFit
    <3>3. NW(colour', 0)
      BY DEF NW
    <3>4. CASE ~Is(o, "table")
      <4>1. NW(colour', ref[o].val) /\ ref[o].key = 0 /\ ref[o].meta = 0
        BY <1>7, <1>13, <3>1, <3>2, <3>4
      <4>2. ref'[o].val = ref[o].val /\ ref'[o].key = 0 /\ ref'[o].meta = 0
        BY <1>6, <1>14, <4>1
      <4>3. QED
        BY <2>2, <3>3, <4>1, <4>2 DEF FM
    <3>5. CASE Is(o, "table")
      <4>1. Mode(o) = {}
        BY <3>1, <3>5 DEF IsWeak
      <4>2. NW(colour', ref[o].meta) /\ NW(colour', ref[o].val) /\ (ref[o].val # 0 => NW(colour', ref[o].key))
        BY <1>7, <1>13, <3>5, <4>1
      <4>3. ref[o].val = 0 => ref'[o].key = 0
        BY <1>10, <3>5, <4>1
      <4>4. ref[o].val # 0 /\ ref[o].key # 0 => colour'[ref[o].key] # "free"
        <5>1. Living(o)
          BY <1>6 DEF Living, Live, IsDead
        <5>2. ref[o].val # 0 => Living(ref[o].key)
          BY <1>6, <3>5, <5>1 DEF IInv, LivingRefs, Is
        <5>3. ref[o].key \in Obj0
          BY <1>6, RefIs DEF IInv
        <5>4. QED
          BY <1>11, <5>2, <5>3 DEF Painted, Living, Live, Obj0
      <4>5. /\ ref'[o].val = ref[o].val /\ ref'[o].meta = ref[o].meta /\ ref'[o].key \in {ref[o].key, 0}
        BY <1>6, <1>14
      <4>6. QED
        BY <2>2, <3>3, <4>2, <4>3, <4>4, <4>5 DEF FM
    <3>6. QED
      BY <3>4, <3>5
  <2>3. QED
    BY <2>1, <2>2
<1>16. Marking'
  <2>1. ListsFit(colour, gray, grayagain, weak) /\ NW(colour, Main) /\ NW(colour, Globals)
        /\ (\A p \in Range(weak) : Is(p, "table"))
        /\ \A p \in Range(grayagain) : Is(p, "table") \/ Is(p, "thread")
    BY <1>5, MarkingIs
  <2>2. NW(colour', Main) /\ NW(colour', Globals)
    BY <1>12, <2>1, ShapeIs DEF Darker, IInv, Obj0
  <2>3. \A p \in Range(weak') : Is(p, "table")
    BY <1>11, <2>1 DEF IsWeak
  <2>4. \A p \in Range(grayagain') : Is(p, "table") \/ Is(p, "thread")
    BY <1>11, <2>1
  <2>5. QED
    BY <1>5, <1>11, <1>15, <2>2, <2>3, <2>4, MarkingNow
\* The stages of atomic that are done stay so.
<1>17. Atomic'
  <2>0. Atomic /\ stage' = stage /\ at' = at /\ stack' = stack /\ running' = running /\ tmudata' = tmudata
        /\ (\A p : Slots(p)' = Slots(p)) /\ (\A p : \A k : Is(p, k)' = Is(p, k)) /\ Obj' = Obj
        /\ shape' = shape
    BY <1>5 DEF IInv, Marked, Slots, Is, Obj
  <2>1. ASSUME stage >= 1, NEW u \in Obj, at[u] # <<>>, colour'[u] = "gray" PROVE NW(colour', ValueOf(u)')
    <3>1. Open(u) /\ Is(u, "upval")
      BY <2>1 DEF IInv, OpenFit, Open
    <3>2. u # o
      BY <1>6, <3>1 DEF Is, Gathered
    <3>3. ValueOf(u)' = ValueOf(u) /\ ValueOf(u) \in Obj0
      BY <1>14, <2>0, <3>1, ValueIs DEF ValueOf, Open, IInv
    <3>4. x.colour[u] = "gray"
      BY <1>11, <2>1, <3>2
    <3>5. ASSUME m.colour[u] = "gray" PROVE NW(x.colour, ValueOf(u))
      <4>1. colour[u] = "gray"
        BY <1>6, <3>2, <3>5
      <4>2. NW(colour, ValueOf(u))
        BY <2>0, <2>1, <3>1, <4>1 DEF Atomic
      <4>3. NW(m.colour, ValueOf(u))
        BY <1>6, <3>3, <4>2 DEF Darker
      <4>4. QED
        BY <1>8, <3>3, <4>3 DEF Darker
    <3>6. NW(x.colour, ValueOf(u))
      BY <1>8, <3>1, <3>4, <3>5
    <3>7. QED
      BY <1>11, <3>3, <3>6 DEF Darker
  <2>2. ASSUME stage >= 2 PROVE NW(colour', running)
    <3>1. running \in Obj0
      BY RunningIs DEF Obj0
    <3>2. QED
      BY <1>12, <2>0, <2>2, <3>1 DEF Atomic, Darker
  <2>3. ASSUME stage >= 2, NEW t \in Range(weak') PROVE StrongMarked(t)'
    <3>1. t \in Obj
      BY <1>11, RangeHas
    <3>2. ref'[t].val = ref[t].val /\ ref'[t].meta = ref[t].meta /\ ref'[t].key \in {ref[t].key, 0}
          /\ ref[t].val \in Obj0 /\ ref[t].meta \in Obj0 /\ ref[t].key \in Obj0
      BY <1>14, <3>1, RefIs DEF IInv
    <3>3. Mode(t)' = Mode(t)
      BY <2>0, <3>2 DEF Mode
    <3>4. CASE t \in Range(weak)
      <4>1. StrongMarked(t)
        BY <2>0, <2>3, <3>4 DEF Atomic
      <4>2. QED
        BY <1>12, <3>2, <3>3, <4>1 DEF StrongMarked, Darker, NW
    <3>5. CASE t = o /\ IsWeak(o)
      <4>1. /\ NW(colour', ref[o].meta)
            /\ "v" \notin Mode(o) => NW(colour', ref[o].val)
            /\ "k" \notin Mode(o) /\ ref[o].val # 0 => NW(colour', ref[o].key)
        BY <1>7, <1>13, <3>5 DEF IsWeak
      <4>2. QED
        BY <3>2, <3>3, <3>5, <4>1 DEF StrongMarked, NW
    <3>6. QED
      BY <1>11, <2>3, <3>4, <3>5
  <2>4. ASSUME stage >= 3, NEW th \in Range(grayagain')
        PROVE  Is(th, "thread") /\ \A s \in Slots(th) : NW(colour', stack[th][s])
    <3>1. CASE th \in Range(grayagain)
      <4>1. Is(th, "thread") /\ \A s \in Slots(th) : NW(colour, stack[th][s])
        BY <2>0, <2>4, <3>1 DEF Atomic
      <4>2. th \in OfKind("thread")
        BY <1>11, <4>1, <2>4, RangeHas DEF OfKind
      <4>3. \A s \in Slots(th) : stack[th][s] \in Obj0
        BY <4>2, StackIs DEF IInv
      <4>4. QED
        BY <1>12, <4>1, <4>3 DEF Darker
    <3>2. CASE th = o /\ Is(o, "thread")
      BY <1>7, <1>13, <3>2
    <3>3. QED
      BY <1>11, <2>4, <3>1, <3>2
  <2>5. ASSUME stage = 4, NEW t \in Range(tmudata) PROVE NW(colour', t) /\ FieldsMarked(t)'
    <3>1. t \in Obj /\ NW(colour, t) /\ FieldsMarked(t)
      BY <2>0, <2>5, RangeHas DEF Atomic, IInv, TypeOK
    <3>2. FM(colour, t)
      BY <3>1 DEF FM, FieldsMarked
    <3>3. FM(colour, t)'
      BY <1>14, <3>1, <3>2
    <3>4. QED
      BY <1>12, <3>1, <3>3 DEF FM, FieldsMarked, Darker, Obj0
  <2>6. QED
    BY <2>0, <2>1, <2>2, <2>3, <2>4, <2>5 DEF Atomic, Open
<1>18. PaintFrame /\ PaintType
  <2>1. TypeOK
    BY DEF IInv
  <2>2. QED
    BY <1>5, <1>11, <2>1 DEF PaintFrame, PaintType, TypeOK
<1>19. Linked' /\ FinalizedOK'
  <2>1. \A p \in Obj : colour'[p] = "free" <=> colour[p] = "free"
    BY <1>11 DEF Painted
  <2>2. Linked'
    BY <1>5, <2>1, LinkedSame
  <2>3. FinalizedOK'
    BY <1>5 DEF IInv, FinalizedOK
  <2>4. QED
    BY <2>2, <2>3
<1>20. \A p \in Range(tmudata') : p \in Obj /\ colour[p] # "free"
  BY <1>5, RangeHas DEF IInv, Linked, TypeOK
<1> QED
  BY <1>5, <1>10, <1>11, <1>16, <1>17, <1>18, <1>19, <1>20, MarkPhase

-----------------------------------------------------------------------------
(* The stages of atomic that mark: m are the marks they start from.        *)
StageFrame ==
  /\ gcstate = "propagate" /\ arg = 0 /\ stage' \in 0..4
  /\ UNCHANGED <<shape, ref, at, stack, running, arg, rootgc, sweepstrgc, sweepgc, currentwhite, gcstate, full, called,
                 tmudata, finalized>>
StageLists(m, x) ==
  /\ MarksBase(m) /\ m.colour = colour /\ colour' = x.colour /\ gray' = x.gray
  /\ ListsFit(colour, m.gray, grayagain', weak')
  /\ grayagain' \in Seq(Obj) /\ weak' \in Seq(Obj)
  /\ Range(grayagain') \subseteq Range(grayagain) /\ Range(weak') \subseteq Range(weak)

\* What such a stage does to colours.
LEMMA StageDarker ==
  ASSUME IInv, StageFrame, NEW m, NEW x, StageLists(m, x), NEW os \in Seq(Obj0), x = MarkAll(m, os)
  PROVE  /\ Darker(colour, colour') /\ \A r \in Range(os) : NW(colour', r)
         /\ \A u \in Obj : /\ Open(u) /\ colour'[u] = "gray"
                           /\ colour[u] = "gray" => NW(colour', ValueOf(u))
                           => NW(colour', ValueOf(u))
<1>1. MarksBase(m) /\ m.colour = colour /\ colour' = x.colour
  BY DEF StageLists
<1>2. /\ \A r \in Range(os) : NW(x.colour, r)
      /\ Darker(m.colour, x.colour)
      /\ \A u \in Obj : /\ Open(u) /\ x.colour[u] = "gray"
                        /\ m.colour[u] = "gray" => NW(x.colour, ValueOf(u))
                        => NW(x.colour, ValueOf(u))
  BY <1>1, MarkMore
<1> QED
  BY <1>1, <1>2

\* A stage of atomic keeps the invariant.
LEMMA StageKeeps ==
  ASSUME IInv, StageFrame, NEW m, NEW x, StageLists(m, x), NEW os \in Seq(Obj0), x = MarkAll(m, os), Atomic'
  PROVE  IInv'
<1>1. /\ MarksBase(m) /\ m.colour = colour /\ colour' = x.colour /\ gray' = x.gray
      /\ ListsFit(m.colour, m.gray, grayagain', weak')
      /\ grayagain' \in Seq(Obj) /\ weak' \in Seq(Obj)
      /\ Range(grayagain') \subseteq Range(grayagain) /\ Range(weak') \subseteq Range(weak)
  BY DEF StageLists
<1>2. /\ gcstate = "propagate" /\ arg = 0 /\ stage' \in 0..4
      /\ UNCHANGED <<shape, ref, at, stack, running, arg, rootgc, sweepstrgc, sweepgc, currentwhite, gcstate, full, called,
                     tmudata, finalized>>
  BY DEF StageFrame
<1>3. /\ Grown(m, x, {}, {}) /\ x.colour \in [Obj -> Colours] /\ x.gray \in Seq(Obj)
      /\ Darker(m.colour, x.colour)
      /\ \A p \in Obj : x.colour[p] = "black" /\ m.colour[p] # "black" => FM(x.colour, p)
  BY <1>1, MarkMore
<1>4. Painted(colour', {})
  <2>1. Painted(m.colour, {})
    BY <1>1, <1>2, PaintedNow
  <2>2. QED
    BY <1>1, <1>3, <2>1, GrownPainted
<1>5. ListsFit(colour', gray', grayagain', weak')
  BY <1>1, <1>3, GrownLists DEF IInv
<1>6. Marking'
  <2>1. NW(colour, Main) /\ NW(colour, Globals)
        /\ (\A p \in Range(weak) : Is(p, "table"))
        /\ (\A p \in Range(grayagain) : Is(p, "table") \/ Is(p, "thread"))
        /\ \A o \in Obj : colour[o] = "black" => o \in Range(tmudata) \/ FM(colour, o)
    BY <1>2, MarkingIs
  <2>2. NW(colour', Main) /\ NW(colour', Globals)
    BY <1>1, <1>3, <2>1, ShapeIs DEF Darker, IInv, Obj0
  <2>3. ASSUME NEW o \in Obj, colour'[o] = "black" PROVE o \in Range(tmudata') \/ FM(colour, o)'
    <3>1. o \in Range(tmudata) \/ FM(colour', o)
      <4>1. CASE colour[o] = "black"
        BY <1>1, <1>3, <2>1, <4>1, DarkerKeeps
      <4>2. CASE colour[o] # "black"
        BY <1>1, <1>3, <2>3, <4>2
      <4>3. QED
        BY <4>1, <4>2
    <3>2. QED
      BY <1>2, <3>1 DEF FM
  <2>4. shape' = shape
    BY <1>2
  <2>5. (\A p \in Range(weak') : Is(p, "table")) /\ \A p \in Range(grayagain') : Is(p, "table") \/ Is(p, "thread")
    BY <1>1, <2>1
  <2>6. QED
    BY <1>5, <2>2, <2>3, <2>4, <2>5, MarkingNow
<1>7. PaintFrame /\ PaintType
  <2>1. TypeOK
    BY DEF IInv
  <2>2. QED
    BY <1>1, <1>2, <1>3, <2>1 DEF PaintFrame, PaintType, TypeOK
<1>8. Linked' /\ FinalizedOK'
  <2>1. \A p \in Obj : colour'[p] = "free" <=> colour[p] = "free"
    BY <1>4 DEF Painted
  <2>2. Linked'
    BY <1>2, <2>1, LinkedSame
  <2>3. FinalizedOK'
    BY <1>2 DEF IInv, FinalizedOK
  <2>4. QED
    BY <2>2, <2>3
<1>9. \A p \in Range(tmudata') : p \in Obj /\ colour[p] # "free"
  BY <1>2, RangeHas DEF IInv, Linked, TypeOK
<1>10. ref' \in [Obj -> [key : Obj0, val : Obj0, meta : Obj0]] /\ (\A o \in Obj : Emptied(o)) /\ gcstate' = "propagate"
  BY <1>2 DEF IInv, TypeOK, Emptied
<1> QED
  BY <1>2, <1>4, <1>6, <1>7, <1>8, <1>9, <1>10, MarkPhase

\* What the stages that are done have marked stays marked.
LEMMA AtomicStays ==
  ASSUME IInv, gcstate = "propagate", shape' = shape, ref' = ref, Darker(colour, colour')
  PROVE  /\ stage >= 2 => NW(colour', running)
         /\ stage >= 2 => \A t \in Range(weak) : StrongMarked(t)'
         /\ stage >= 3 => \A th \in Range(grayagain) :
                            Is(th, "thread") /\ \A s \in Slots(th) : NW(colour', stack[th][s])
         /\ \A u \in Obj : Open(u) /\ NW(colour, ValueOf(u)) => NW(colour', ValueOf(u))
<1>0. /\ Atomic /\ ref' = ref /\ shape' = shape
      /\ grayagain \in Seq(Obj) /\ weak \in Seq(Obj)
  BY DEF IInv, Marked, TypeOK
<1>1. running \in Obj0
  BY RunningIs DEF Obj0
<1>2. ASSUME stage >= 2, NEW t \in Range(weak) PROVE StrongMarked(t)'
  <2>1. t \in Obj /\ StrongMarked(t) /\ Mode(t)' = Mode(t)
    BY <1>0, <1>2, RangeHas DEF Atomic, Mode
  <2>2. ref[t].val \in Obj0 /\ ref[t].meta \in Obj0 /\ ref[t].key \in Obj0
    BY <2>1, RefIs DEF IInv
  <2>3. QED
    BY <1>0, <2>1, <2>2 DEF StrongMarked, Darker
<1>3. ASSUME stage >= 3, NEW th \in Range(grayagain)
      PROVE  Is(th, "thread") /\ \A s \in Slots(th) : NW(colour', stack[th][s])
  <2>1. Is(th, "thread") /\ \A s \in Slots(th) : NW(colour, stack[th][s])
    BY <1>0, <1>3 DEF Atomic
  <2>2. th \in OfKind("thread")
    BY <1>0, <2>1, RangeHas DEF OfKind
  <2>3. QED
    BY <2>1, <2>2, StackIs DEF IInv, Darker
<1>4. ASSUME NEW u \in Obj, Open(u), NW(colour, ValueOf(u)) PROVE NW(colour', ValueOf(u))
  <2>1. Is(u, "upval")
    BY <1>4 DEF IInv, OpenFit
  <2>2. QED
    BY <1>4, <2>1, ValueIs DEF IInv, Darker
<1> QED
  BY <1>0, <1>1, <1>2, <1>3, <1>4 DEF Atomic, Darker

\* Atomic after such a step.
LEMMA AtomicNow ==
  ASSUME IInv, StageFrame,
         stage' >= 1 => \A u \in Obj : Open(u) /\ colour'[u] = "gray" => NW(colour', ValueOf(u)),
         stage' >= 2 => NW(colour', running),
         stage' >= 2 => \A t \in Range(weak') : StrongMarked(t)',
         stage' >= 3 => \A th \in Range(grayagain') :
                            Is(th, "thread") /\ \A s \in Slots(th) : NW(colour', stack[th][s]),
         stage' # 4
  PROVE  Atomic'
<1>1. /\ ref' = ref /\ shape' = shape /\ at' = at /\ stack' = stack /\ running' = running
  BY DEF StageFrame
<1>2. /\ (\A p : Slots(p)' = Slots(p)) /\ (\A p : \A k : Is(p, k)' = Is(p, k)) /\ Obj' = Obj
      /\ \A u : ValueOf(u)' = ValueOf(u) /\ Open(u)' = Open(u)
  BY <1>1 DEF Slots, Is, Obj, ValueOf, Open
<1> QED
  BY <1>1, <1>2 DEF Atomic

\* The sequence of all objects.
LEMMA ObjectsAre == Objects \in Seq(Obj) /\ Range(Objects) = Obj
<1>1. Objects \in [Obj -> Obj] /\ \A o \in Obj : Objects[o] = o
  BY DEF Objects
<1>2. Objects \in Seq(Obj)
  BY DEF Objects, Obj
<1>3. DOMAIN Objects = Obj
  BY DEF Objects
<1> QED
  BY <1>1, <1>2, <1>3 DEF Range

\* The values of gray open upvalues.
LEMMA GrayValuesAre ==
  ASSUME IInv
  PROVE  /\ GrayValues \in Seq(Obj0)
         /\ \A u \in Obj : Open(u) /\ colour[u] = "gray" => ValueOf(u) \in Range(GrayValues)
<1> DEFINE S == {u \in OfKind("upval") : Open(u) /\ colour[u] = "gray"}
<1>1. PICK us : us = Those(Objects, S)
  OBVIOUS
<1>2. us \in Seq(Obj) /\ Range(us) = S
  <2>1. S \subseteq Obj
    BY DEF OfKind
  <2> HIDE DEF S
  <2>2. us \in Seq(Obj) /\ Range(us) = Range(Objects) \cap S
    BY <1>1, ObjectsAre, ThoseAre
  <2>3. QED
    BY <2>1, <2>2, ObjectsAre
<1>3. GrayValues = [i \in DOMAIN us |-> ValueOf(us[i])]
  BY <1>1 DEF GrayValues
<1>4. DOMAIN us = 1..Len(us) /\ Len(us) \in Nat /\ \A i \in 1..Len(us) : us[i] \in S
  BY <1>2, RangeHas
<1>5. \A i \in 1..Len(us) : ValueOf(us[i]) \in Obj0
  BY <1>4, ValueIs DEF IInv, OfKind
<1>6. GrayValues \in [1..Len(us) -> Obj0]
  BY <1>3, <1>4, <1>5
<1>7. GrayValues \in Seq(Obj0)
  BY <1>4, <1>6
<1>8. ASSUME NEW u \in Obj, Open(u), colour[u] = "gray" PROVE ValueOf(u) \in Range(GrayValues)
  <2>1. u \in S
    BY <1>8 DEF IInv, OpenFit, OfKind
  <2>2. PICK i \in 1..Len(us) : us[i] = u
    BY <1>2, <2>1, RangeHas
  <2>3. GrayValues[i] = ValueOf(u) /\ i \in DOMAIN GrayValues
    BY <1>3, <1>4, <2>2
  <2>4. QED
    BY <2>3 DEF Range
<1> QED
  BY <1>7, <1>8

\* Marking the values of open upvalues keeps the invariant.
LEMMA RemarkUpvalsKeeps ==
  ASSUME IInv, remarkupvals
  PROVE  IInv'
<1>1. PICK x : x = MarkAll(Marks, GrayValues)
  OBVIOUS
<1>2. PICK m : m = Marks
  OBVIOUS
<1>3. PICK os : os = GrayValues
  OBVIOUS
<1>4. x = MarkAll(m, os)
  BY <1>1, <1>2, <1>3
<1>5. /\ arg = 0 /\ gcstate = "propagate" /\ gray = <<>> /\ stage = 0 /\ stage' = 1
      /\ colour' = x.colour /\ gray' = x.gray
      /\ UNCHANGED <<shape, ref, at, stack, running, arg, rootgc, sweepstrgc, sweepgc, currentwhite, gcstate, full, called,
                     tmudata, finalized, grayagain, weak>>
  BY <1>1 DEF remarkupvals, InAtomic, Collecting, SetMarks, NoFlip, program, sweeping
<1>6. StageFrame
  BY <1>5 DEF StageFrame
<1>7. MarksBase(m) /\ m.colour = colour /\ m.gray = gray
  BY <1>2, <1>5, MarksAre
<1>8. ListsFit(colour, m.gray, grayagain, weak)
  BY <1>5, <1>7, MarkingIs
<1>9. StageLists(m, x)
  BY <1>5, <1>7, <1>8 DEF StageLists, IInv, TypeOK
<1>10. os \in Seq(Obj0) /\ \A u \in Obj : Open(u) /\ colour[u] = "gray" => ValueOf(u) \in Range(os)
  BY <1>3, GrayValuesAre
<1>11. /\ Darker(colour, colour') /\ \A r \in Range(os) : NW(colour', r)
       /\ \A u \in Obj : /\ Open(u) /\ colour'[u] = "gray"
                         /\ colour[u] = "gray" => NW(colour', ValueOf(u))
                         => NW(colour', ValueOf(u))
  BY <1>4, <1>6, <1>9, <1>10, StageDarker
<1>12. Atomic'
  <2>1. \A u \in Obj : Open(u) /\ colour'[u] = "gray" => NW(colour', ValueOf(u))
    BY <1>10, <1>11
  <2>2. ~(stage' >= 2) /\ ~(stage' >= 3) /\ stage' # 4
    BY <1>5
  <2>3. QED
    BY <1>6, <2>1, <2>2, AtomicNow
<1> QED
  BY <1>4, <1>6, <1>9, <1>10, <1>12, StageKeeps

\* Marking one object is marking a list of one.
LEMMA MarkOne ==
  ASSUME NEW m, NEW o
  PROVE  MarkAll(m, <<o>>) = MarkObject(m, o)
<1>1. PICK S : S = {<<0, m>>, <<1, MarkObject(m, o)>>}
  OBVIOUS
<1>2. PICK os : os = <<o>>
  OBVIOUS
<1>3. os \in Seq({o}) /\ Len(os) = 1 /\ os[1] = o
  BY <1>2
<1>4. <<0, m>> \in S
  BY <1>1
<1>5. ASSUME NEW i \in 1..Len(os), NEW x, <<i - 1, x>> \in S
      PROVE  <<i, MarkObject(x, os[i])>> \in S
  <2>1. i = 1
    BY <1>3
  <2>2. <<0, x>> = <<0, m>> \/ <<0, x>> = <<1, MarkObject(m, o)>>
    BY <1>1, <1>5, <2>1
  <2>3. x = m
    BY <2>2
  <2>4. QED
    BY <1>1, <1>3, <2>1, <2>3
<1>6. <<Len(os), MarkAll(m, os)>> \in S
  BY <1>3, <1>4, <1>5, MarkAllInduct
<1>7. <<1, MarkAll(m, os)>> = <<0, m>> \/ <<1, MarkAll(m, os)>> = <<1, MarkObject(m, o)>>
  BY <1>1, <1>3, <1>6
<1> QED
  BY <1>2, <1>7

\* An object that is not white is not marked again.
LEMMA MarkNone ==
  ASSUME NEW m
  PROVE  MarkAll(m, <<>>) = m
<1>1. PICK S : S = {<<0, m>>}
  OBVIOUS
<1>2. PICK os : os = <<>>
  OBVIOUS
<1>3. os \in Seq({}) /\ Len(os) = 0
  BY <1>2
<1>4. <<0, m>> \in S
  BY <1>1
<1>5. \A i \in 1..Len(os) : \A x : <<i - 1, x>> \in S => <<i, MarkObject(x, os[i])>> \in S
  BY <1>3
<1>6. <<Len(os), MarkAll(m, os)>> \in S
  BY <1>3, <1>4, <1>5, MarkAllInduct
<1> QED
  BY <1>1, <1>2, <1>3, <1>6

\* A list of gray objects is taken for the gray list.
GrayList(m, q) == m = [colour |-> colour, gray |-> q]
\* Marking with another gray list.
LEMMA GrayListBase ==
  ASSUME IInv, NEW q \in Seq(Obj), NEW a, NEW w, ListsFit(colour, q, a, w), NEW m, GrayList(m, q)
  PROVE  MarksBase(m) /\ m.colour = colour /\ m.gray = q
<1>1. m.colour = colour /\ m.gray = q /\ m \in MarksType
  BY DEF GrayList, MarksType, IInv, TypeOK
<1>2. IsInjective(q) /\ \A p \in Range(q) : colour[p] = "gray"
  BY DEF ListsFit, GrayObjects
<1> QED
  BY <1>1, <1>2 DEF MarksBase, Whites

\* Traversing the weak tables again keeps the invariant.
LEMMA RemarkWeakKeeps ==
  ASSUME IInv, RemarkWeak
  PROVE  IInv'
<1>1. PICK m : GrayList(m, weak)
  BY DEF GrayList
<1>2. [Marks EXCEPT !.gray = weak] = m
  <2>1. Marks = [colour |-> colour, gray |-> gray]
    BY DEF Marks
  <2>2. QED
    BY <1>1, <2>1 DEF GrayList
<1>3. PICK os : os = <<running>>
  OBVIOUS
<1>4. PICK x : x = MarkAll(m, os)
  OBVIOUS
<1>5. x = MarkObject(m, running)
  BY <1>3, <1>4, MarkOne
<1>6. /\ arg = 0 /\ gcstate = "propagate" /\ gray = <<>> /\ stage = 1 /\ stage' = 2
      /\ colour' = x.colour /\ gray' = x.gray /\ weak' = <<>>
      /\ UNCHANGED <<shape, ref, at, stack, running, arg, rootgc, sweepstrgc, sweepgc, currentwhite, gcstate, full, called,
                     tmudata, finalized, grayagain>>
  BY <1>2, <1>5 DEF RemarkWeak, InAtomic, Collecting, SetMarks, NoFlip, program, sweeping
<1>7. StageFrame
  BY <1>6 DEF StageFrame
<1>8. ListsFit(colour, weak, grayagain, <<>>)
  <2>1. ListsFit(colour, <<>>, grayagain, weak)
    BY <1>6, MarkingIs
  <2>2. QED
    BY <2>1, EmptyRange DEF ListsFit
<1>9. MarksBase(m) /\ m.colour = colour /\ m.gray = weak
  BY <1>1, <1>8, GrayListBase DEF IInv, TypeOK
<1>10. StageLists(m, x)
  <2>1. <<>> \in Seq(Obj) /\ grayagain \in Seq(Obj)
    BY DEF IInv, TypeOK
  <2>2. QED
    BY <1>6, <1>8, <1>9, <2>1, EmptyRange DEF StageLists
<1>11. os \in Seq(Obj0) /\ running \in Range(os)
  <2>1. running \in Obj0
    BY RunningIs DEF Obj0
  <2>2. os \in Seq(Obj0) /\ DOMAIN os = {1} /\ os[1] = running
    BY <1>3, <2>1
  <2>3. QED
    BY <2>2 DEF Range
<1>12. /\ Darker(colour, colour') /\ \A r \in Range(os) : NW(colour', r)
       /\ \A u \in Obj : /\ Open(u) /\ colour'[u] = "gray"
                         /\ colour[u] = "gray" => NW(colour', ValueOf(u))
                         => NW(colour', ValueOf(u))
  BY <1>4, <1>7, <1>10, <1>11, StageDarker
<1>13. Atomic'
  <2>1. ASSUME NEW u \in Obj, Open(u), colour'[u] = "gray" PROVE NW(colour', ValueOf(u))
    <3>1. colour[u] = "gray" => NW(colour, ValueOf(u))
      BY <1>6, <2>1 DEF IInv, Marked, Atomic
    <3>2. NW(colour, ValueOf(u)) => NW(colour', ValueOf(u))
      BY <1>6, <1>12, <2>1, AtomicStays
    <3>3. QED
      BY <1>12, <2>1, <3>1, <3>2
  <2>2. NW(colour', running) /\ stage' # 4 /\ ~(stage' >= 3)
    BY <1>6, <1>11, <1>12
  <2>3. \A t \in Range(weak') : StrongMarked(t)'
    BY <1>6, EmptyRange
  <2>4. QED
    BY <1>7, <2>1, <2>2, <2>3, AtomicNow
<1> QED
  BY <1>4, <1>7, <1>10, <1>11, <1>13, StageKeeps

\* Traversing grayagain keeps the invariant.
LEMMA RemarkGrayKeeps ==
  ASSUME IInv, RemarkGray
  PROVE  IInv'
<1>1. PICK m : GrayList(m, grayagain)
  BY DEF GrayList
<1>2. PICK os : os = <<>>
  OBVIOUS
<1>3. m = MarkAll(m, os)
  BY <1>2, MarkNone
<1>4. m.colour = colour /\ m.gray = grayagain
  BY <1>1 DEF GrayList
<1>5. /\ arg = 0 /\ gcstate = "propagate" /\ gray = <<>> /\ stage = 2 /\ stage' = 3
      /\ colour' = colour /\ gray' = grayagain /\ grayagain' = <<>> /\ weak' = weak
      /\ UNCHANGED <<shape, ref, at, stack, running, arg, rootgc, sweepstrgc, sweepgc, currentwhite, gcstate, full, called,
                     tmudata, finalized>>
  BY DEF RemarkGray, InAtomic, Collecting, SetMarks, NoFlip, program, sweeping
<1>6. StageFrame
  BY <1>5 DEF StageFrame
<1>7. ListsFit(colour, grayagain, <<>>, weak)
  <2>1. ListsFit(colour, <<>>, grayagain, weak)
    BY <1>5, MarkingIs
  <2>2. QED
    BY <2>1, EmptyRange DEF ListsFit
<1>8. MarksBase(m)
  BY <1>1, <1>7, GrayListBase DEF IInv, TypeOK
<1>9. StageLists(m, m)
  <2>1. <<>> \in Seq(Obj) /\ weak \in Seq(Obj)
    BY DEF IInv, TypeOK
  <2>2. QED
    BY <1>4, <1>5, <1>7, <1>8, <2>1, EmptyRange DEF StageLists
<1>10. os \in Seq(Obj0)
  BY <1>2
<1>11. Darker(colour, colour')
  BY <1>5 DEF Darker
<1>12. Atomic'
  <2>1. \A u \in Obj : Open(u) /\ colour'[u] = "gray" => NW(colour', ValueOf(u))
    BY <1>5 DEF IInv, Marked, Atomic
  <2>2. NW(colour', running) /\ \A t \in Range(weak') : StrongMarked(t)'
    BY <1>5, <1>11, AtomicStays
  <2>3. stage' # 4 /\ \A th \in Range(grayagain') :
                            Is(th, "thread") /\ \A s \in Slots(th) : NW(colour', stack[th][s])
    BY <1>5, EmptyRange
  <2>4. QED
    BY <1>6, <2>1, <2>2, <2>3, AtomicNow
<1> QED
  BY <1>3, <1>6, <1>9, <1>10, <1>12, StageKeeps

-----------------------------------------------------------------------------
(* The userdata with finalizers are separated.                             *)
SeparatedSet == {u \in OfKind("udata") : IsWhite(u) /\ u \notin finalized /\ HasGC(u)}
\* The userdata that are separated.
LEMMA SeparatedAre ==
  ASSUME IInv
  PROVE  /\ Separated \in Seq(Obj) /\ IsInjective(Separated)
         /\ Range(Separated) = Range(rootgc) \cap SeparatedSet
         /\ tmudata \o Separated \in Seq(Obj) /\ IsInjective(tmudata \o Separated)
         /\ Range(tmudata \o Separated) = Range(tmudata) \cup Range(Separated)
         /\ \A u \in Range(tmudata \o Separated) : u \in Obj /\ Is(u, "udata") /\ colour[u] # "free"
<1>1. rootgc \in Seq(Obj) /\ tmudata \in Seq(Obj) /\ IsInjective(rootgc) /\ IsInjective(tmudata)
      /\ Range(rootgc) \cap Range(tmudata) = {}
      /\ \A u \in Range(tmudata) : u \in Obj /\ Is(u, "udata") /\ colour[u] # "free"
  BY RangeHas DEF IInv, TypeOK, Linked
<1>2. PICK s : s = Separated
  OBVIOUS
<1>3. s \in Seq(Obj) /\ IsInjective(s) /\ Range(s) = Range(rootgc) \cap SeparatedSet
  BY <1>1, <1>2, ThoseAre DEF Separated, SeparatedSet
<1>4. Range(tmudata) \cap Range(s) = {}
  BY <1>1, <1>3
<1>5. /\ tmudata \o s \in Seq(Obj) /\ IsInjective(tmudata \o s)
      /\ Range(tmudata \o s) = Range(tmudata) \cup Range(s)
  BY <1>1, <1>3, <1>4, JoinIs
<1>6. \A u \in Range(s) : u \in Obj /\ Is(u, "udata") /\ colour[u] # "free"
  BY <1>3 DEF SeparatedSet, OfKind, IsWhite, Whites
<1> QED
  BY <1>1, <1>2, <1>3, <1>5, <1>6

\* marktmu whitens them before it marks them.
Whitened(us, w) ==
  w = [colour |-> [o \in Obj |-> IF o \in Range(us) THEN currentwhite ELSE colour[o]], gray |-> gray]
\* They turn white before they are marked.
LEMMA WhitenedIs ==
  ASSUME IInv, gcstate = "propagate", gray = <<>>, NEW us, us = tmudata \o Separated, NEW w, Whitened(us, w)
  PROVE  /\ MarksBase(w) /\ ListsFit(w.colour, w.gray, grayagain, weak) /\ Painted(w.colour, {})
         /\ \A o \in Obj : w.colour[o] = IF o \in Range(us) THEN currentwhite ELSE colour[o]
<1>1. /\ colour \in [Obj -> Colours] /\ gray \in Seq(Obj) /\ currentwhite \in Whites
      /\ currentwhite \in Colours /\ currentwhite \notin {"free", "gray", "black"} /\ currentwhite # Other(currentwhite)
  BY DEF IInv, TypeOK, Colours, Whites, Other
<1>2. w.colour = [o \in Obj |-> IF o \in Range(us) THEN currentwhite ELSE colour[o]] /\ w.gray = gray
  BY DEF Whitened
<1>3. w \in MarksType
  BY <1>1 DEF Whitened, MarksType
<1>4. \A o \in Obj : w.colour[o] = IF o \in Range(us) THEN currentwhite ELSE colour[o]
  BY <1>2
<1>5. MarksBase(w)
  BY <1>2, <1>3, EmptyRange DEF MarksBase
<1>6. \A u \in Range(us) : u \in Obj /\ Is(u, "udata") /\ colour[u] # "free"
  BY SeparatedAre
<1>7. GrayObjects(w.colour) = GrayObjects(colour)
  <2>1. \A u \in Range(us) : shape.kinds[u] \notin Gathered
    BY <1>6 DEF Is, Gathered
  <2>2. QED
    BY <1>4, <2>1 DEF GrayObjects
<1>8. ListsFit(w.colour, w.gray, grayagain, weak)
  BY <1>2, <1>7, MarkingIs DEF ListsFit
<1>9. Painted(w.colour, {})
  <2>1. Painted(colour, {})
    BY PaintedNow
  <2>2. \A u \in Range(us) : ~Is(u, "thread") /\ ~Is(u, "upval") /\ at[u] = <<>>
    BY <1>6 DEF IInv, OpenFit, Open, Is
  <2>3. QED
    BY <1>1, <1>4, <1>6, <2>1, <2>2 DEF Painted
<1> QED
  BY <1>4, <1>5, <1>8, <1>9

\* Separating userdata and marking them keeps the invariant.
LEMMA SeparateUdataKeeps ==
  ASSUME IInv, SeparateUdata
  PROVE  IInv'
<1>1. PICK us : us = tmudata \o Separated
  OBVIOUS
<1>2. PICK w : Whitened(us, w)
  BY DEF Whitened
<1>3. PICK x : x = MarkAll(w, us)
  OBVIOUS
<1>4. /\ us \in Seq(Obj) /\ IsInjective(us)
      /\ Range(us) = Range(tmudata) \cup Range(Separated)
      /\ Range(Separated) = Range(rootgc) \cap SeparatedSet
      /\ \A u \in Range(us) : u \in Obj /\ Is(u, "udata") /\ colour[u] # "free"
  BY <1>1, SeparatedAre
<1>5. [Marks EXCEPT !.colour = [o \in Obj |-> IF Contains(us, o) THEN currentwhite ELSE colour[o]]] = w
  <2>1. \A o : Contains(us, o) <=> o \in Range(us)
    BY <1>4, ContainsIs
  <2>2. PICK c : c = [o \in Obj |-> IF Contains(us, o) THEN currentwhite ELSE colour[o]]
    OBVIOUS
  <2>3. c = [o \in Obj |-> IF o \in Range(us) THEN currentwhite ELSE colour[o]]
    BY <2>1, <2>2
  <2>4. Marks = [colour |-> colour, gray |-> gray]
    BY DEF Marks
  <2>5. [Marks EXCEPT !.colour = c] = [colour |-> c, gray |-> gray]
    BY <2>4
  <2>6. w = [colour |-> c, gray |-> gray]
    BY <1>2, <2>3 DEF Whitened
  <2>7. QED
    BY <2>2, <2>5, <2>6
<1>6. /\ arg = 0 /\ gcstate = "propagate" /\ gray = <<>> /\ stage = 3 /\ stage' = 4
      /\ colour' = x.colour /\ gray' = x.gray /\ tmudata' = us
      /\ finalized' = finalized \cup {u \in OfKind("udata") : IsWhite(u)}
      /\ rootgc' = Those(rootgc, Obj \ Range(Separated))
      /\ UNCHANGED <<shape, ref, at, stack, running, arg, sweepstrgc, sweepgc, currentwhite, gcstate, full, called,
                     grayagain, weak>>
  <2>1. SetMarks(MarkAll([Marks EXCEPT !.colour = [o \in Obj |-> IF Contains(us, o) THEN currentwhite ELSE colour[o]]], us))
    BY <1>1 DEF SeparateUdata
  <2>2. colour' = x.colour /\ gray' = x.gray
    BY <1>3, <1>5, <2>1 DEF SetMarks
  <2>3. QED
    BY <1>1, <2>2 DEF SeparateUdata, InAtomic, Collecting, program
<1>7. /\ MarksBase(w) /\ ListsFit(w.colour, w.gray, grayagain, weak) /\ Painted(w.colour, {})
      /\ \A o \in Obj : w.colour[o] = IF o \in Range(us) THEN currentwhite ELSE colour[o]
  BY <1>1, <1>2, <1>6, WhitenedIs
<1>8. us \in Seq(Obj0)
  BY <1>4, RangeHas DEF Obj0
<1>9. /\ Grown(w, x, {}, {}) /\ x.colour \in [Obj -> Colours] /\ x.gray \in Seq(Obj)
      /\ \A r \in Range(us) : NW(x.colour, r)
      /\ Darker(w.colour, x.colour)
      /\ \A p \in Obj : x.colour[p] = "black" /\ w.colour[p] # "black" => FM(x.colour, p)
      /\ \A u \in Obj : /\ Open(u) /\ x.colour[u] = "gray"
                        /\ w.colour[u] = "gray" => NW(x.colour, ValueOf(u))
                        => NW(x.colour, ValueOf(u))
  BY <1>3, <1>7, <1>8, MarkMore
<1>10. Painted(colour', {})
  BY <1>6, <1>7, <1>9, GrownPainted
<1>11. currentwhite \notin {"free", "gray", "black"} /\ currentwhite \in Whites
  BY DEF IInv, TypeOK, Whites
<1>12. Darker(colour, colour')
  <2>1. \A r \in Obj0 : NW(colour, r) => NW(colour', r)
    BY <1>6, <1>7, <1>9 DEF Darker, NW, Obj0
  <2>2. \A r \in Obj : colour'[r] = "free" => colour[r] = "free"
    BY <1>10 DEF Painted
  <2>3. QED
    BY <2>1, <2>2 DEF Darker
<1>13. ListsFit(colour', gray', grayagain', weak')
  BY <1>6, <1>7, <1>9, GrownLists DEF IInv
\* The black objects that are not queued have been so before, or are new.
<1>14. \A p \in Obj : colour'[p] = "black" => FM(colour', p)
  <2>1. SUFFICES ASSUME NEW p \in Obj, colour'[p] = "black" PROVE FM(colour', p)
    OBVIOUS
  <2>2. CASE w.colour[p] = "black"
    <3>1. p \notin Range(us) /\ colour[p] = "black"
      BY <1>7, <1>11, <2>2
    <3>2. FM(colour, p)
      BY <1>4, <1>6, <3>1, MarkingIs
    <3>3. QED
      BY <1>12, <3>2, DarkerKeeps
  <2>3. CASE w.colour[p] # "black"
    BY <1>6, <1>9, <2>1, <2>3
  <2>4. QED
    BY <2>2, <2>3
<1>15. Marking'
  <2>1. NW(colour, Main) /\ NW(colour, Globals)
        /\ (\A p \in Range(weak) : Is(p, "table"))
        /\ (\A p \in Range(grayagain) : Is(p, "table") \/ Is(p, "thread"))
    BY <1>6, MarkingIs
  <2>2. NW(colour', Main) /\ NW(colour', Globals)
    BY <1>12, <2>1, ShapeIs DEF Darker, IInv, Obj0
  <2>3. \A p \in Obj : colour'[p] = "black" => p \in Range(tmudata') \/ FM(colour, p)'
    BY <1>6, <1>14 DEF FM
  <2>4. QED
    BY <1>6, <1>13, <2>1, <2>2, <2>3, MarkingNow
<1>16. Atomic'
  <2>1. /\ NW(colour', running)
        /\ \A t \in Range(weak) : StrongMarked(t)'
        /\ \A th \in Range(grayagain) : Is(th, "thread") /\ \A s \in Slots(th) : NW(colour', stack[th][s])
    BY <1>6, <1>12, AtomicStays
  <2>2. ASSUME NEW u \in Obj, Open(u), colour'[u] = "gray" PROVE NW(colour', ValueOf(u))
    <3>1. colour[u] = "gray" => NW(colour, ValueOf(u))
      BY <1>6, <2>2 DEF IInv, Marked, Atomic
    <3>2. NW(colour, ValueOf(u)) => NW(colour', ValueOf(u))
      BY <1>6, <1>12, <2>2, AtomicStays
    <3>3. w.colour[u] = "gray" => colour[u] = "gray"
      BY <1>7, <1>11
    <3>4. QED
      BY <1>6, <1>9, <2>2, <3>1, <3>2, <3>3
  <2>3. ASSUME NEW u \in Range(us) PROVE NW(colour', u) /\ FieldsMarked(u)'
    <3>1. u \in Obj /\ Is(u, "udata") /\ colour[u] # "free" /\ NW(colour', u)
      BY <1>4, <1>6, <1>9
    <3>2. colour'[u] # "gray" /\ colour'[u] # "free" /\ colour'[u] \in Colours
      BY <1>6, <1>9, <1>10, <3>1 DEF Painted
    <3>3. colour'[u] = "black"
      BY <3>1, <3>2, ShapeIs DEF NW, Colours, IInv
    <3>4. FM(colour', u)
      BY <1>14, <3>1, <3>3
    <3>5. QED
      BY <1>6, <3>1, <3>4 DEF FM, FieldsMarked
  <2>4. /\ ref' = ref /\ shape' = shape /\ at' = at /\ stack' = stack /\ running' = running /\ tmudata' = us
        /\ grayagain' = grayagain /\ weak' = weak
    BY <1>6
  <2>5. /\ (\A p : Slots(p)' = Slots(p)) /\ (\A p : \A k : Is(p, k)' = Is(p, k)) /\ Obj' = Obj
        /\ \A u : ValueOf(u)' = ValueOf(u) /\ Open(u)' = Open(u)
    BY <2>4 DEF Slots, Is, Obj, ValueOf, Open
  <2>6. QED
    BY <2>1, <2>2, <2>3, <2>4, <2>5 DEF Atomic
<1>17. /\ rootgc' \in Seq(Obj) /\ IsInjective(rootgc') /\ Range(rootgc') = Range(rootgc) \ Range(Separated)
  <2>1. rootgc \in Seq(Obj) /\ IsInjective(rootgc) /\ Range(rootgc) \subseteq Obj
    BY RangeHas DEF IInv, TypeOK, Linked
  <2>2. PICK S : S = Obj \ Range(Separated)
    OBVIOUS
  <2>3. rootgc' \in Seq(Obj) /\ IsInjective(rootgc') /\ Range(rootgc') = Range(rootgc) \cap S
    BY <1>6, <2>1, <2>2, ThoseAre
  <2>4. QED
    BY <2>1, <2>2, <2>3
<1>18. Linked'
  <2>1. \A p \in Obj : colour'[p] = "free" <=> colour[p] = "free"
    BY <1>10 DEF Painted
  <2>2. \A o \in Range(rootgc') : /\ o \in Obj /\ colour'[o] # "free" /\ ~Is(o, "string") /\ at[o] = <<>>
                                  /\ o \notin Range(us)
    BY <1>4, <1>17, <2>1, RangeHas DEF IInv, Linked, Open, TypeOK
  <2>3. \A o \in Range(us) : colour'[o] # "free" /\ Is(o, "udata")
    BY <1>4, <2>1
  <2>4. \A o \in Obj : colour'[o] # "free" => Is(o, "string") \/ at[o] # <<>> \/ o \in Range(rootgc') \/ o \in Range(us)
    BY <1>4, <1>17, <2>1 DEF IInv, Linked, Open
  <2>5. IsInjective(rootgc') /\ IsInjective(us)
    BY <1>4, <1>17
  <2>6. /\ shape' = shape /\ at' = at /\ tmudata' = us /\ Obj' = Obj /\ \A p : \A k : Is(p, k)' = Is(p, k)
    BY <1>6 DEF Obj, Is
  <2>7. QED
    BY <2>2, <2>3, <2>4, <2>5, <2>6 DEF Linked, Open
<1>19. FinalizedOK'
  <2>1. called \subseteq finalized /\ Range(tmudata) \subseteq finalized /\ called \cap Range(tmudata) = {}
    BY DEF IInv, FinalizedOK
  <2>2. Range(Separated) \subseteq {u \in OfKind("udata") : IsWhite(u)} /\ Range(Separated) \cap finalized = {}
    BY <1>4 DEF SeparatedSet
  <2>3. /\ called \subseteq finalized' /\ Range(us) \subseteq finalized' /\ called \cap Range(us) = {}
    BY <1>4, <1>6, <2>1, <2>2
  <2>4. QED
    BY <1>6, <2>3 DEF FinalizedOK
<1>20. PaintFrame
  BY <1>6 DEF PaintFrame
<1>21. PaintType
  <2>1. TypeOK
    BY DEF IInv
  <2>2. finalized' \subseteq Obj /\ called' \subseteq Obj
    BY <1>6, <2>1 DEF TypeOK, OfKind
  <2>3. gray' \in Seq(Obj) /\ tmudata' \in Seq(Obj) /\ colour' \in [Obj -> Colours] /\ stage' \in 0..4
    BY <1>4, <1>6, <1>9
  <2>4. QED
    BY <1>6, <1>17, <2>1, <2>2, <2>3 DEF PaintType, TypeOK
<1>22. /\ ref' \in [Obj -> [key : Obj0, val : Obj0, meta : Obj0]] /\ (\A o \in Obj : Emptied(o)) /\ gcstate' = "propagate"
       /\ arg = 0 /\ \A o \in Range(tmudata') : o \in Obj /\ colour[o] # "free"
  BY <1>4, <1>6 DEF IInv, TypeOK, Emptied
<1> QED
  BY <1>10, <1>15, <1>16, <1>18, <1>19, <1>20, <1>21, <1>22, MarkPhase

-----------------------------------------------------------------------------
(* The end of atomic: entries of weak tables are cleared, the whites       *)
(* change places.                                                          *)
LEMMA ClearFrame ==
  ASSUME IInv, cleartable
  PROVE  /\ arg = 0 /\ gcstate = "propagate" /\ gray = <<>> /\ stage = 4 /\ stage' = 0
         /\ currentwhite' = Other(currentwhite) /\ sweepstrgc' = 0 /\ sweepgc' = 0 /\ gcstate' = "sweepstring"
         /\ UNCHANGED <<shape, at, stack, running, arg, gray, grayagain, weak, rootgc, tmudata, finalized, full, called>>
         /\ ref' \in [Obj -> [key : Obj0, val : Obj0, meta : Obj0]] /\ colour' \in [Obj -> Colours]
         /\ \A o \in Obj : ref'[o] = IF o \in Range(weak) /\ Cleared(o) THEN Fields(0, 0, ref[o].meta) ELSE ref[o]
         /\ \A o \in Obj : colour'[o] = IF o \in WeakStrings /\ IsWhite(o) THEN "gray" ELSE colour[o]
<1>1. /\ arg = 0 /\ gcstate = "propagate" /\ gray = <<>> /\ stage = 4 /\ stage' = 0
      /\ currentwhite' = Other(currentwhite) /\ sweepstrgc' = 0 /\ sweepgc' = 0 /\ gcstate' = "sweepstring"
      /\ UNCHANGED <<shape, at, stack, running, arg, gray, grayagain, weak, rootgc, tmudata, finalized, full, called>>
  BY DEF cleartable, InAtomic, Collecting, program, lists
<1>2. /\ ref \in [Obj -> [key : Obj0, val : Obj0, meta : Obj0]] /\ colour \in [Obj -> Colours] /\ weak \in Seq(Obj)
      /\ 0 \in Obj0
  BY DEF IInv, TypeOK, Obj0
<1>3. \A o : Contains(weak, o) <=> o \in Range(weak)
  BY <1>2, ContainsIs
<1>4. \A o \in Obj : [Nothing EXCEPT !.meta = ref[o].meta] = Fields(0, 0, ref[o].meta)
  BY DEF Nothing, Fields
<1>5. ref' = [o \in Obj |-> IF Contains(weak, o) /\ Cleared(o)
                            THEN [Nothing EXCEPT !.meta = ref[o].meta] ELSE ref[o]]
  BY DEF cleartable
<1>6. \A o \in Obj : ref'[o] = IF o \in Range(weak) /\ Cleared(o) THEN Fields(0, 0, ref[o].meta) ELSE ref[o]
  BY <1>3, <1>4, <1>5
<1>7. \A o \in Obj : ref[o].meta \in Obj0 /\ ref[o] \in [key : Obj0, val : Obj0, meta : Obj0]
  BY RefIs DEF IInv
<1>8. \A o \in Obj : Fields(0, 0, ref[o].meta) \in [key : Obj0, val : Obj0, meta : Obj0]
  BY <1>2, <1>7 DEF Fields
<1>9. ref' \in [Obj -> [key : Obj0, val : Obj0, meta : Obj0]]
  <2>1. DOMAIN ref' = Obj /\ ref' = [o \in Obj |-> ref'[o]]
    BY <1>5
  <2>2. \A o \in Obj : ref'[o] \in [key : Obj0, val : Obj0, meta : Obj0]
    BY <1>6, <1>7, <1>8
  <2>3. QED
    BY <2>1, <2>2
<1>10. colour' = [o \in Obj |-> IF o \in WeakStrings /\ IsWhite(o) THEN "gray" ELSE colour[o]]
  BY DEF cleartable
<1>11. colour' \in [Obj -> Colours]
  BY <1>2, <1>10 DEF Colours
<1> QED
  BY <1>1, <1>6, <1>9, <1>10, <1>11

\* What is marked is closed under the references that are left.
Kept(r) == r = 0 \/ colour'[r] \in {"gray", "black"}
KeptFields(o) == /\ Kept(ref'[o].meta)
                 /\ ~Is(o, "upval") /\ ~(Is(o, "table") /\ ref'[o].val = 0) => Kept(ref'[o].key) /\ Kept(ref'[o].val)
                 /\ Is(o, "upval") => Kept(ValueOf(o))
                 /\ Is(o, "thread") => \A s \in Slots(o) : Kept(stack[o][s])
\* What survives the flip of the whites.
LEMMA KeptIs ==
  ASSUME IInv, cleartable, NEW r \in Obj0
  PROVE  /\ Living(r) /\ NW(colour, r) => Kept(r)
         /\ Living(r) /\ r \in WeakStrings => Kept(r)
         /\ Living(r) => r = 0 \/ colour[r] \in {"gray", "black", currentwhite}
<1>1. \A o \in Obj : colour'[o] = IF o \in WeakStrings /\ IsWhite(o) THEN "gray" ELSE colour[o]
  BY ClearFrame
<1>2. colour \in [Obj -> Colours] /\ currentwhite \in Whites
  BY DEF IInv, TypeOK
<1>3. r # 0 => r \in Obj /\ colour[r] \in Colours
  BY <1>2 DEF Obj0
<1> QED
  BY <1>1, <1>2, <1>3 DEF Living, Live, NW, Kept, Colours, IsWhite, Whites, Other

\* A table that is not weak, and other objects: all they refer to survives.
LEMMA KeptRefs1 ==
  ASSUME IInv, cleartable, NEW o \in Obj, colour[o] = "black"
  PROVE  KeptFields(o)
<1>1. /\ gcstate = "propagate" /\ stage = 4
      /\ \A p \in Obj : ref'[p] = IF p \in Range(weak) /\ Cleared(p) THEN Fields(0, 0, ref[p].meta) ELSE ref[p]
  BY ClearFrame
<1>2. o \notin Range(weak)
  BY <1>1, MarkingIs DEF ListsFit, GrayObjects
<1>3. ref'[o] = ref[o]
  BY <1>1, <1>2
<1>4. FM(colour, o)
  <2>1. o \in Range(tmudata) \/ FM(colour, o)
    BY <1>1, MarkingIs
  <2>2. o \in Range(tmudata) => FieldsMarked(o)
    BY <1>1 DEF IInv, Marked, Atomic
  <2>3. QED
    BY <2>1, <2>2 DEF FM, FieldsMarked
<1>5. ref[o].key \in Obj0 /\ ref[o].val \in Obj0 /\ ref[o].meta \in Obj0
  BY RefIs DEF IInv
<1>6. Living(o)
  BY DEF Living, Live, IInv, TypeOK, Whites, Other
<1>7. RefsLive(o)
  BY <1>6 DEF IInv, LivingRefs, RefsLive
<1>8. Kept(ref[o].meta)
  BY <1>4, <1>5, <1>7, KeptIs DEF FM, RefsLive
<1>9. ~Is(o, "upval") /\ ~(Is(o, "table") /\ ref[o].val = 0) => Kept(ref[o].key) /\ Kept(ref[o].val)
  BY <1>4, <1>5, <1>7, KeptIs DEF FM, RefsLive
<1>10. Is(o, "upval") => Kept(ValueOf(o))
  <2>1. ASSUME Is(o, "upval") PROVE Kept(ValueOf(o))
    <3>1. ValueOf(o) = ref[o].val
      BY DEF IInv, OpenFit, ValueOf
    <3>2. QED
      BY <1>4, <1>5, <1>7, <2>1, <3>1, KeptIs DEF FM, RefsLive
  <2>2. QED
    BY <2>1
<1>11. ~Is(o, "thread")
  BY DEF IInv, Coloured
<1> QED
  BY <1>3, <1>8, <1>9, <1>10, <1>11 DEF KeptFields

\* A weak table: what is left of its entry survives.
LEMMA KeptWeak ==
  ASSUME IInv, cleartable, NEW o \in Obj, o \in Range(weak)
  PROVE  KeptFields(o)
<1>1. /\ gcstate = "propagate" /\ stage = 4
      /\ \A p \in Obj : ref'[p] = IF p \in Range(weak) /\ Cleared(p) THEN Fields(0, 0, ref[p].meta) ELSE ref[p]
  BY ClearFrame
<1>2. Is(o, "table") /\ colour[o] = "gray"
  BY <1>1, MarkingIs DEF ListsFit, GrayObjects
<1>3. ~Is(o, "upval") /\ ~Is(o, "thread")
  BY <1>2 DEF Is
<1>4. ref[o].key \in Obj0 /\ ref[o].val \in Obj0 /\ ref[o].meta \in Obj0
  BY RefIs DEF IInv
<1>5. Living(o)
  BY <1>2 DEF Living, Live, IInv, TypeOK, Whites, Other
<1>6. RefsLive(o)
  BY <1>5 DEF IInv, LivingRefs, RefsLive
<1>7. NW(colour, ref[o].meta)
  BY <1>1 DEF IInv, Marked, Atomic, StrongMarked
<1>8. Kept(ref[o].meta) /\ Kept(0)
  BY <1>4, <1>6, <1>7, KeptIs DEF RefsLive, Kept
<1>9. CASE Cleared(o)
  <2>1. ref'[o].meta = ref[o].meta /\ ref'[o].key = 0 /\ ref'[o].val = 0
    <3>1. ref'[o] = Fields(0, 0, ref[o].meta)
      BY <1>1, <1>9
    <3>2. QED
      BY <3>1 DEF Fields
  <2>2. QED
    BY <1>3, <1>8, <2>1 DEF KeptFields
<1>10. CASE ~Cleared(o) /\ ref[o].val # 0
  <2>1. ref'[o] = ref[o]
    BY <1>1, <1>10
  <2>2. ~IsCleared(ref[o].key, TRUE) /\ ~IsCleared(ref[o].val, FALSE)
    BY <1>10 DEF Cleared
  <2>3. Living(ref[o].key) /\ Living(ref[o].val)
    BY <1>2, <1>3, <1>6, <1>10 DEF RefsLive
  <2>4. Kept(ref[o].key)
    <3>1. CASE ref[o].key # 0 /\ Is(ref[o].key, "string")
      <4>1. ref[o].key \in WeakStrings
        BY <1>4, <1>10, <3>1 DEF WeakStrings, OfKind, Obj0
      <4>2. QED
        BY <1>4, <2>3, <4>1, KeptIs
    <3>2. CASE ~(ref[o].key # 0 /\ Is(ref[o].key, "string"))
      <4>1. NW(colour, ref[o].key)
        BY <2>2, <3>2 DEF IsCleared, NW, IsWhite
      <4>2. QED
        BY <1>4, <2>3, <4>1, KeptIs
    <3>3. QED
      BY <3>1, <3>2
  <2>5. Kept(ref[o].val)
    <3>1. CASE Is(ref[o].val, "string")
      <4>1. ref[o].val \in WeakStrings
        BY <1>4, <1>10, <2>2, <3>1 DEF WeakStrings, OfKind, Obj0
      <4>2. QED
        BY <1>4, <2>3, <4>1, KeptIs
    <3>2. CASE ~Is(ref[o].val, "string")
      <4>1. NW(colour, ref[o].val)
        BY <2>2, <3>2 DEF IsCleared, NW, IsWhite
      <4>2. QED
        BY <1>4, <2>3, <4>1, KeptIs
    <3>3. QED
      BY <3>1, <3>2
  <2>6. QED
    BY <1>3, <1>8, <2>1, <2>4, <2>5 DEF KeptFields
<1>11. CASE ref[o].val = 0
  <2>1. ref'[o] = ref[o]
    BY <1>1, <1>11 DEF Cleared
  <2>2. QED
    BY <1>2, <1>3, <1>8, <1>11, <2>1 DEF KeptFields
<1> QED
  BY <1>9, <1>10, <1>11

\* Every object that survives refers to survivors.
LEMMA KeptRefs2 ==
  ASSUME IInv, cleartable, NEW o \in Obj, colour'[o] = "gray"
  PROVE  KeptFields(o)
<1>1. /\ gcstate = "propagate" /\ stage = 4 /\ gray = <<>>
      /\ \A p \in Obj : ref'[p] = IF p \in Range(weak) /\ Cleared(p) THEN Fields(0, 0, ref[p].meta) ELSE ref[p]
      /\ \A p \in Obj : colour'[p] = IF p \in WeakStrings /\ IsWhite(p) THEN "gray" ELSE colour[p]
  BY ClearFrame
<1>2. Kept(0)
  BY DEF Kept
<1>3. shape.kinds[o] \in Kinds
  BY ShapeIs DEF IInv
<1>4. CASE o \in Range(weak)
  BY <1>4, KeptWeak
<1>5. CASE Is(o, "string")
  <2>1. ref[o].meta = 0 /\ ref[o].key = 0 /\ ref[o].val = 0 /\ ~Is(o, "upval") /\ ~Is(o, "thread") /\ ~Is(o, "table")
    BY <1>5 DEF IInv, FieldsFit, Is
  <2>2. o \notin Range(weak)
    BY <1>1, <2>1, MarkingIs
  <2>3. QED
    BY <1>1, <1>2, <2>1, <2>2 DEF KeptFields
<1>6. CASE ~Is(o, "string") /\ o \notin Range(weak)
  <2>1. colour[o] = "gray" /\ ref'[o] = ref[o]
    <3>1. o \notin WeakStrings
      BY <1>6 DEF WeakStrings, OfKind
    <3>2. QED
      BY <1>1, <1>6, <3>1
  <2>2. Living(o) /\ RefsLive(o)
    <3>1. Living(o)
      BY <2>1 DEF Living, Live, IInv, TypeOK, Whites, Other
    <3>2. QED
      BY <3>1 DEF IInv, LivingRefs, RefsLive
  <2>3. CASE Is(o, "upval")
    <3>1. Open(o)
      BY <2>1, <2>3 DEF IInv, Coloured
    <3>2. NW(colour, ValueOf(o))
      BY <1>1, <2>1, <3>1 DEF IInv, Marked, Atomic
    <3>3. ref[o] = Nothing /\ ValueOf(o) \in Obj0 /\ ~Is(o, "thread")
      BY <2>3, <3>1, ValueIs DEF IInv, FieldsFit, Is
    <3>4. Kept(ValueOf(o))
      BY <2>2, <2>3, <3>2, <3>3, KeptIs DEF RefsLive
    <3>5. ref[o].meta = 0
      BY <3>3 DEF Nothing
    <3>6. QED
      BY <1>2, <2>1, <2>3, <3>3, <3>4, <3>5 DEF KeptFields
  <2>4. CASE ~Is(o, "upval")
    <3>1. shape.kinds[o] \in Gathered
      BY <1>3, <1>6, <2>1, <2>4 DEF Is, Kinds, Gathered, IInv, Coloured
    <3>2. o \in Range(grayagain)
      <4>1. o \in GrayObjects(colour)
        BY <2>1, <3>1 DEF GrayObjects
      <4>2. QED
        BY <1>1, <1>6, <4>1, MarkingIs, EmptyRange DEF ListsFit
    <3>3. Is(o, "thread") /\ \A s \in Slots(o) : NW(colour, stack[o][s])
      BY <1>1, <3>2 DEF IInv, Marked, Atomic
    <3>4. \A s \in Slots(o) : Kept(stack[o][s])
      <4>1. \A s \in Slots(o) : stack[o][s] \in Obj0 /\ Living(stack[o][s])
        BY <2>2, <3>3, StackIs DEF IInv, OfKind, RefsLive
      <4>2. QED
        BY <3>3, <4>1, KeptIs
    <3>5. ref[o].meta = 0 /\ ref[o].key = 0 /\ ref[o].val = 0
      BY <3>3 DEF IInv, FieldsFit, Is
    <3>6. QED
      BY <1>2, <2>1, <2>4, <3>4, <3>5 DEF KeptFields
  <2>5. QED
    BY <2>3, <2>4
<1> QED
  BY <1>4, <1>5, <1>6

\* The string table.
LEMMA StringsAre ==
  /\ Strings \in Seq(Obj) /\ Len(Strings) \in Nat
  /\ Strings # <<>> => 0 < Len(Strings)
  /\ Range(Strings) = OfKind("string")
<1>1. PICK S : S = OfKind("string")
  OBVIOUS
<1>2. Strings = Those(Objects, S)
  BY <1>1 DEF Strings
<1>3. Strings \in Seq(Obj) /\ Range(Strings) = Range(Objects) \cap S
  BY <1>2, ObjectsAre, ThoseAre
<1>4. S \subseteq Obj
  BY <1>1 DEF OfKind
<1>5. Len(Strings) \in Nat /\ (Strings # <<>> => 0 < Len(Strings))
  BY <1>3
<1> QED
  BY <1>1, <1>3, <1>4, <1>5, ObjectsAre

\* Clearing weak tables and flipping the whites keeps the invariant.
LEMMA ClearKeeps ==
  ASSUME IInv, cleartable
  PROVE  IInv'
<1>1. /\ arg = 0 /\ gcstate = "propagate" /\ gray = <<>> /\ stage = 4 /\ stage' = 0
      /\ currentwhite' = Other(currentwhite) /\ sweepstrgc' = 0 /\ sweepgc' = 0 /\ gcstate' = "sweepstring"
      /\ UNCHANGED <<shape, at, stack, running, arg, gray, grayagain, weak, rootgc, tmudata, finalized, full, called>>
      /\ ref' \in [Obj -> [key : Obj0, val : Obj0, meta : Obj0]] /\ colour' \in [Obj -> Colours]
      /\ \A o \in Obj : ref'[o] = IF o \in Range(weak) /\ Cleared(o) THEN Fields(0, 0, ref[o].meta) ELSE ref[o]
      /\ \A o \in Obj : colour'[o] = IF o \in WeakStrings /\ IsWhite(o) THEN "gray" ELSE colour[o]
  BY ClearFrame
<1>2. /\ Obj' = Obj /\ Obj0' = Obj0 /\ Plain' = Plain /\ Strings' = Strings /\ (\A k : OfKind(k)' = OfKind(k))
      /\ (\A th : Slots(th)' = Slots(th)) /\ (\A o : \A k : Is(o, k)' = Is(o, k)) /\ \A o : Open(o)' = Open(o)
  BY <1>1, ShapeSame DEF Slots, Is, Open
<1>3. /\ currentwhite \in Whites /\ Other(currentwhite) \in Whites /\ Other(Other(currentwhite)) = currentwhite
      /\ \A o \in Obj : colour[o] # Other(currentwhite)
      /\ \A o \in Obj : colour[o] \in Colours
  BY <1>1 DEF IInv, TypeOK, Phases, IsDead, Whites, Other
<1>4. /\ \A o \in Obj : colour'[o] = "free" <=> colour[o] = "free"
      /\ \A o \in Obj : ~Is(o, "string") => colour'[o] = colour[o]
      /\ \A o \in Obj : colour'[o] \in {"free", "gray", "black", currentwhite}
  <2>1. \A o \in Obj : o \in WeakStrings => Is(o, "string")
    BY DEF WeakStrings, OfKind
  <2>2. QED
    BY <1>1, <1>3, <2>1 DEF IsWhite, Colours, Whites, Other
<1>5. TypeOK'
  <2>1. TypeOK
    BY DEF IInv
  <2>2. gcstate' \in States /\ stage' \in 0..4 /\ sweepgc' \in Obj0 /\ sweepstrgc' \in Nat
    BY <1>1 DEF States, Obj0
  <2>3. QED
    BY <1>1, <1>2, <1>3, <2>1, <2>2 DEF TypeOK
<1>6. FieldsFit'
  <2> SUFFICES ASSUME NEW o \in Obj
               PROVE  \/ ref'[o] = ref[o] /\ at'[o] = at[o] /\ (colour'[o] = "free" <=> colour[o] = "free")
                      \/ ObjFits(o)'
    BY <1>1, FieldsOp
  <2>1. CASE ref'[o] = ref[o]
    BY <1>1, <1>4, <2>1
  <2>2. CASE ref'[o] # ref[o]
    <3>1. o \in Range(weak) /\ ref'[o] = Fields(0, 0, ref[o].meta)
      BY <1>1, <2>2
    <3>2. Is(o, "table") /\ colour[o] = "gray"
      BY <1>1, <3>1, MarkingIs DEF ListsFit, GrayObjects
    <3>3. ref'[o].key = 0 /\ ref'[o].val = 0 /\ ref'[o].meta = ref[o].meta
      BY <3>1 DEF Fields
    <3>4. ref[o].meta \in OfKind("table") \cup {0} /\ ~Is(o, "lclosure") /\ ~Is(o, "udata") /\ ~Open(o)
      BY <3>2 DEF IInv, FieldsFit, OpenFit, Is
    <3>5. colour'[o] # "free" /\ 0 \in Plain
      BY <1>4, <3>2, ShapeIs DEF Plain, IInv, Obj0, OfKind
    <3>6. ObjFits(o)'
      BY <1>2, <3>2, <3>3, <3>4, <3>5 DEF ObjFits
    <3>7. QED
      BY <3>6
  <2>3. QED
    BY <2>1, <2>2
<1>7. SlotsFit'
  <2>1. \A th \in OfKind("thread") : th \in Obj
    BY DEF OfKind
  <2>2. QED
    BY <1>1, <1>2, <1>4, <2>1 DEF IInv, SlotsFit
<1>8. OpenFit'
  <2>1. \A u \in Obj : at[u] # <<>> => at[u][1] \in Obj /\ ~Is(u, "string") /\ colour[u] \notin {"free", "black"}
                                       /\ colour[at[u][1]] # "free"
    <3>1. \A u \in Obj : at[u] # <<>> => \E th \in OfKind("thread") : \E l \in Slots(th) : at[u] = <<th, l>>
      BY DEF IInv, TypeOK
    <3>2. \A u \in Obj : at[u] # <<>> => at[u][1] \in Obj
      BY <3>1 DEF OfKind
    <3>3. QED
      BY <3>2 DEF IInv, OpenFit, Open, Is
  <2>2. \A u \in Obj : at'[u] \in {at[u], <<>>} \/ Opened(u)
    BY <1>1
  <2>3. \A u \in Obj : at'[u] # <<>> => colour'[u] \notin {"free", "black"}
    BY <1>1, <1>4, <2>1
  <2>4. \A u \in Obj : at'[u] # <<>> /\ at'[u] = at[u] => colour'[at[u][1]] # "free"
    BY <1>1, <1>4, <2>1
  <2>5. QED
    BY <1>1, <2>2, <2>3, <2>4, OpenOp
<1>9. Linked'
  BY <1>1, <1>4, LinkedSame
<1>10. Coloured'
  <2>1. \A o \in Obj : Is(o, "thread") \/ Is(o, "udata") \/ Is(o, "upval") => ~Is(o, "string")
    BY DEF Is
  <2>2. QED
    BY <1>2, <1>4, <2>1 DEF IInv, Coloured
<1>11. \A o \in Range(tmudata) : o \in Obj /\ Is(o, "udata") /\ NW(colour, o) /\ Living(o)
  BY <1>1, RangeHas DEF IInv, TypeOK, Linked, Marked, Atomic, LivingRefs
<1>12. Phases'
  <2>1. \A o \in Range(tmudata) : ~IsDead(o)'
    <3>1. \A o \in Range(tmudata) : colour'[o] = colour[o] /\ colour[o] \notin Whites
      BY <1>4, <1>11, ShapeIs DEF NW, Is, IInv
    <3>2. QED
      BY <1>1, <1>3, <3>1 DEF IsDead
  <2>2. QED
    BY <1>1, <2>1 DEF Phases
<1>13. SweepString' /\ Sweep' /\ Marked' /\ FinalizedOK'
  <2>1. SweepString'
    BY <1>1, <1>2, StringsAre DEF SweepString
  <2>2. Sweep' /\ Marked'
    BY <1>1 DEF Sweep, Marked
  <2>3. FinalizedOK'
    BY <1>1 DEF IInv, FinalizedOK
  <2>4. QED
    BY <2>1, <2>2, <2>3
<1>14. LivingRefs'
  <2>1. \A r \in Obj0 : Kept(r) <=> Living(r)'
    BY <1>1, <1>3, <1>4 DEF Kept, Living, Live, Obj0, Whites, Other
  <2>2. ASSUME NEW o \in Obj, Kept(o) PROVE RefsLive(o)'
    <3>1. colour'[o] = "gray" \/ colour[o] = "black"
      <4>1. colour'[o] = "gray" \/ colour'[o] = "black"
        BY <2>2, ShapeIs DEF Kept, IInv
      <4>2. QED
        BY <1>1, <4>1
    <3>2. KeptFields(o)
      BY <3>1, KeptRefs1, KeptRefs2
    <3>3. ref'[o].meta \in Obj0 /\ ref'[o].key \in Obj0 /\ ref'[o].val \in Obj0
      BY <1>1
    <3>4. Is(o, "upval") => ValueOf(o)' = ValueOf(o) /\ ValueOf(o) \in Obj0
      <4>1. ASSUME Is(o, "upval") PROVE ref'[o] = ref[o]
        BY <1>1, <4>1, MarkingIs DEF Is
      <4>2. QED
        BY <1>1, <4>1, ValueIs DEF IInv, ValueOf, Open
    <3>5. Is(o, "thread") => \A s \in Slots(o) : stack[o][s] \in Obj0
      BY StackIs DEF IInv, OfKind
    <3>6. QED
      BY <1>1, <1>2, <2>1, <3>2, <3>3, <3>4, <3>5 DEF RefsLive, KeptFields
  <2>3. Kept(Main) /\ Kept(Globals) /\ Kept(running) /\ Kept(arg)
    <3>1. NW(colour, Main) /\ NW(colour, Globals) /\ NW(colour, running) /\ NW(colour, arg)
      BY <1>1, MarkingIs DEF IInv, Marked, Atomic, NW
    <3>2. Living(Main) /\ Living(Globals) /\ Living(running) /\ Living(arg)
      BY DEF IInv, LivingRefs
    <3>3. Main \in Obj0 /\ Globals \in Obj0 /\ running \in Obj0 /\ arg \in Obj0
      BY ShapeIs, RunningIs DEF IInv, TypeOK, Obj0
    <3>4. QED
      BY <3>1, <3>2, <3>3, KeptIs
  <2>4. Main \in Obj0 /\ Globals \in Obj0 /\ running \in Obj0 /\ arg \in Obj0
    BY ShapeIs, RunningIs DEF IInv, TypeOK, Obj0
  <2>5. \A o \in Range(tmudata) : Kept(o)
    BY <1>11, KeptIs DEF Obj0
  <2>6. Living(Main)' /\ Living(Globals)' /\ Living(running)' /\ Living(arg)'
    <3>1. Live(colour', currentwhite', Main) /\ Live(colour', currentwhite', Globals)
          /\ Live(colour', currentwhite', running) /\ Live(colour', currentwhite', arg)
      BY <2>1, <2>3, <2>4 DEF Living
    <3>2. QED
      BY <1>1, <3>1 DEF Living, Main, Globals
  <2>7. \A o \in Range(tmudata)' : Living(o)'
    BY <1>1, <1>11, <2>1, <2>5 DEF Obj0
  <2>8. \A o \in Obj : Living(o)' => RefsLive(o)'
    BY <2>1, <2>2 DEF Obj0
  <2>9. QED
    BY <1>2, <2>6, <2>7, <2>8 DEF LivingRefs, RefsLive
<1> QED
  BY <1>5, <1>6, <1>7, <1>8, <1>9, <1>10, <1>12, <1>13, <1>14 DEF IInv

-----------------------------------------------------------------------------
(* Sweeping strings, and finalizers.                                       *)
\* Strings and userdata are recoloured, dead strings freed.
Repainted ==
  \A o \in Obj : \/ colour'[o] = colour[o]
                 \/ /\ Is(o, "string") \/ Is(o, "udata")
                    /\ \/ colour'[o] = currentwhite /\ colour[o] # "free" /\ ~IsDead(o)
                       \/ colour'[o] = "free" /\ IsDead(o) /\ Is(o, "string")
\* Strings and userdata repainted: the parts about the heap.
LEMMA RepaintKeeps ==
  ASSUME IInv, UNCHANGED <<shape, ref, at, stack, running, currentwhite>>, colour' \in [Obj -> Colours], Repainted,
         arg' = 0 \/ (arg' \in Obj /\ Is(arg', "udata") /\ Living(arg')),
         Range(tmudata') \subseteq Range(tmudata)
  PROVE  FieldsFit' /\ SlotsFit' /\ OpenFit' /\ Coloured' /\ LivingRefs'
<1>0. /\ shape' = shape /\ ref' = ref /\ at' = at /\ stack' = stack /\ running' = running /\ currentwhite' = currentwhite
      /\ Obj' = Obj /\ Plain' = Plain /\ (\A k : OfKind(k)' = OfKind(k)) /\ (\A th : Slots(th)' = Slots(th))
      /\ (\A o : \A k : Is(o, k)' = Is(o, k)) /\ (\A u : ValueOf(u)' = ValueOf(u)) /\ \A u : Open(u)' = Open(u)
  BY ShapeSame DEF Slots, Is, ValueOf, Open
<1>1. currentwhite \notin {"free", "gray", "black"} /\ Other(currentwhite) # currentwhite
      /\ Other(currentwhite) \notin {"free", "gray", "black"}
  BY DEF IInv, TypeOK, Whites, Other
<1>2. \A o \in Obj : /\ Live(colour', currentwhite, o) <=> Living(o)
                     /\ ~Is(o, "string") => (colour'[o] = "free" <=> colour[o] = "free")
                     /\ colour[o] = "free" => colour'[o] = "free"
                     /\ ~Is(o, "string") /\ ~Is(o, "udata") => colour'[o] = colour[o]
                     /\ colour'[o] = "gray" => colour[o] = "gray"
                     /\ colour'[o] = "black" => colour[o] = "black"
  BY <1>1 DEF Repainted, Live, Living, IsDead
<1>3. \A r \in Obj0 : Living(r) => Live(colour', currentwhite, r)
  BY <1>2 DEF Obj0, Live, Living
<1>4. FieldsFit'
  <2> SUFFICES ASSUME NEW o \in Obj
               PROVE  \/ ref'[o] = ref[o] /\ at'[o] = at[o] /\ (colour'[o] = "free" <=> colour[o] = "free")
                      \/ ObjFits(o)'
    BY <1>0, FieldsOp
  <2>1. CASE ~Is(o, "string")
    BY <1>0, <1>2, <2>1
  <2>2. CASE Is(o, "string")
    <3>1. ref[o].key = 0 /\ ref[o].val = 0 /\ ref[o].meta = 0 /\ 0 \in Plain /\ ~Is(o, "lclosure")
      BY <2>2, ShapeIs DEF IInv, FieldsFit, Is, Plain, Obj0, OfKind
    <3>2. ref[o] = Nothing
      <4>1. ref[o] = Fields(0, 0, 0)
        BY <3>1, FieldsNow DEF IInv
      <4>2. QED
        BY <4>1 DEF Fields, Nothing
    <3>3. ObjFits(o)'
      BY <1>0, <2>2, <3>1, <3>2 DEF ObjFits
    <3>4. QED
      BY <3>3
  <2>3. QED
    BY <2>1, <2>2
<1>5. SlotsFit'
  <2>1. \A th \in OfKind("thread") : th \in Obj /\ ~Is(th, "string")
    BY DEF OfKind, Is
  <2>2. \A th \in OfKind("thread") : \A s \in Slots(th) :
          stack[th][s] \in Plain /\ (colour'[th] = "free" => stack[th][s] = 0)
    BY <1>2, <2>1 DEF IInv, SlotsFit
  <2>3. QED
    BY <1>0, <2>2 DEF SlotsFit
<1>6. OpenFit'
  <2>1. \A u \in Obj : at[u] # <<>> => /\ ~Is(u, "string") /\ ~Is(u, "udata") /\ colour[u] \notin {"free", "black"}
                                       /\ at[u][1] \in Obj /\ ~Is(at[u][1], "string") /\ colour[at[u][1]] # "free"
    <3>1. \A u \in Obj : at[u] # <<>> => \E th \in OfKind("thread") : \E l \in Slots(th) : at[u] = <<th, l>>
      BY DEF IInv, TypeOK
    <3>2. \A u \in Obj : at[u] # <<>> => at[u][1] \in Obj /\ ~Is(at[u][1], "string")
      BY <3>1 DEF OfKind, Is
    <3>3. QED
      BY <3>2 DEF IInv, OpenFit, Open, Is
  <2>2. \A u \in Obj : at'[u] \in {at[u], <<>>} \/ Opened(u)
    BY <1>0
  <2>3. \A u \in Obj : at'[u] # <<>> => colour'[u] \notin {"free", "black"}
    BY <1>0, <1>2, <2>1
  <2>4. \A u \in Obj : at'[u] # <<>> /\ at'[u] = at[u] => colour'[at[u][1]] # "free"
    BY <1>0, <1>2, <2>1
  <2>5. QED
    BY <1>0, <2>2, <2>3, <2>4, OpenOp
<1>7. Coloured'
  BY <1>0, <1>2 DEF IInv, Coloured
<1>8. LivingRefs'
  <2>1. ASSUME NEW o \in Obj, Live(colour', currentwhite, o) PROVE RefsLive(o)'
    <3>1. RefsLive(o)
      BY <1>2, <2>1 DEF IInv, LivingRefs, RefsLive
    <3>2. ref[o].meta \in Obj0 /\ ref[o].key \in Obj0 /\ ref[o].val \in Obj0
      BY RefIs DEF IInv
    <3>3. Is(o, "upval") => ValueOf(o) \in Obj0
      BY ValueIs DEF IInv
    <3>4. Is(o, "thread") => \A s \in Slots(o) : stack[o][s] \in Obj0
      BY StackIs DEF IInv, OfKind
    <3>5. QED
      BY <1>0, <1>3, <3>1, <3>2, <3>3, <3>4 DEF RefsLive, Living
  <2>2. Main \in Obj0 /\ Globals \in Obj0 /\ running \in Obj0
    BY ShapeIs, RunningIs DEF IInv, TypeOK, Obj0
  <2>3. Live(colour', currentwhite, Main) /\ Live(colour', currentwhite, Globals)
        /\ Live(colour', currentwhite, running)
    BY <1>3, <2>2 DEF IInv, LivingRefs
  <2>4. Live(colour', currentwhite, arg')
    BY <1>2 DEF Live
  <2>5. \A o \in Range(tmudata') : Live(colour', currentwhite, o)
    BY <1>3, RangeHas DEF IInv, LivingRefs, TypeOK, Obj0
  <2>6. QED
    BY <1>0, <2>1, <2>3, <2>4, <2>5 DEF LivingRefs, RefsLive, Living, Main, Globals
<1> QED
  BY <1>4, <1>5, <1>6, <1>7, <1>8

\* The end of a collection keeps the invariant.
LEMMA EndCollectionKeeps ==
  ASSUME IInv, EndCollection
  PROVE  IInv'
<1>1. /\ HeapSame /\ UNCHANGED <<running, arg>> /\ stage' = stage /\ gcstate = "finalize" /\ gcstate' = "pause"
      /\ arg = 0 /\ arg' = 0 /\ tmudata = <<>> /\ full' = "no" /\ running' = running
      /\ UNCHANGED <<gray, grayagain, weak, sweepstrgc, sweepgc, finalized, called>>
  BY DEF EndCollection, Collecting, HeapSame, program, lists, sweeping
<1>2. FieldsFit' /\ SlotsFit' /\ OpenFit' /\ Linked' /\ Coloured' /\ LivingRefs'
  BY <1>1, HeapKeeps
<1>3. TypeOK'
  <2>1. gcstate' \in States /\ full' \in {"no", "sweep", "mark"}
    BY <1>1 DEF States
  <2>2. TypeOK
    BY DEF IInv
  <2>3. QED
    BY <1>1, <2>1, <2>2, HeapIs DEF TypeOK
<1>4. Phases'
  <2>1. \A o \in Obj : IsClean(o) /\ ~IsDead(o)
    BY <1>1, EmptyRange DEF IInv, Phases
  <2>2. stage = 0
    BY <1>1 DEF IInv, Phases
  <2>3. QED
    BY <1>1, <2>1, <2>2, HeapIs, EmptyRange DEF Phases, IsDead, IsClean
<1>5. SweepString' /\ Sweep' /\ Marked' /\ FinalizedOK'
  BY <1>1, HeapIs DEF SweepString, Sweep, Marked, IInv, FinalizedOK
<1> QED
  BY <1>2, <1>3, <1>4, <1>5 DEF IInv

\* The main thread is in rootgc.
LEMMA MainLinked ==
  ASSUME IInv
  PROVE  Main \in Range(rootgc)
<1>1. Main \in Obj /\ Is(Main, "thread") /\ colour[Main] # "free"
  BY MainIs, ShapeIs DEF IInv
<1>2. ~Is(Main, "string") /\ ~Is(Main, "udata") /\ ~Is(Main, "upval")
  BY <1>1 DEF Is
<1> QED
  BY <1>1, <1>2 DEF IInv, Linked, OpenFit

\* A finalizer that is called keeps the invariant.
LEMMA GCTMKeeps ==
  ASSUME IInv, GCTM
  PROVE  IInv'
<1>1. PICK u : u = Head(tmudata)
  OBVIOUS
<1>2. /\ arg = 0 /\ gcstate = "finalize" /\ tmudata # <<>>
      /\ tmudata' = Tail(tmudata) /\ rootgc' = After(rootgc, Main, u)
      /\ colour' = [colour EXCEPT ![u] = currentwhite]
      /\ arg' = (IF HasGC(u) THEN u ELSE 0) /\ called' \in {called, called \cup {u}}
      /\ UNCHANGED <<shape, ref, at, stack, running, gray, grayagain, weak, sweepstrgc, sweepgc, currentwhite, gcstate,
                     stage, finalized, full>>
  BY <1>1 DEF GCTM, Collecting, lists
<1>3. /\ tmudata \in Seq(Obj) /\ IsInjective(tmudata) /\ rootgc \in Seq(Obj) /\ IsInjective(rootgc)
      /\ colour \in [Obj -> Colours] /\ currentwhite \in Colours /\ currentwhite # "free"
  BY DEF IInv, TypeOK, Linked, Colours, Whites
<1>4. /\ Tail(tmudata) \in Seq(Obj) /\ u \in Obj
      /\ Range(tmudata) = {u} \cup Range(Tail(tmudata))
      /\ IsInjective(Tail(tmudata)) /\ u \notin Range(Tail(tmudata))
  BY <1>1, <1>2, <1>3, TailIs
<1>5. u \in Range(tmudata) /\ Is(u, "udata") /\ colour[u] # "free" /\ ~IsDead(u) /\ Living(u)
      /\ u \notin Range(rootgc)
  BY <1>4 DEF IInv, Linked, Phases, LivingRefs
<1>6. /\ rootgc' \in Seq(Obj) /\ Range(rootgc') = {u} \cup Range(rootgc) /\ IsInjective(rootgc')
  <2>1. Main \in Range(rootgc)
    BY MainLinked
  <2>2. /\ After(rootgc, Main, u) \in Seq(Obj)
        /\ Range(After(rootgc, Main, u)) = {u} \cup Range(rootgc)
        /\ IsInjective(rootgc) /\ u \notin Range(rootgc) => IsInjective(After(rootgc, Main, u))
    BY <1>3, <1>4, <2>1, AfterHas
  <2>3. QED
    BY <1>2, <1>3, <1>5, <2>2
<1>7. colour' \in [Obj -> Colours] /\ colour'[u] = currentwhite /\ \A o \in Obj : o # u => colour'[o] = colour[o]
  BY <1>2, <1>3, <1>4
<1>8. FieldsFit' /\ SlotsFit' /\ OpenFit' /\ Coloured' /\ LivingRefs'
  <2>1. Repainted
    BY <1>5, <1>7 DEF Repainted
  <2>2. arg' = 0 \/ (arg' \in Obj /\ Is(arg', "udata") /\ Living(arg'))
    BY <1>2, <1>4, <1>5
  <2>3. Range(tmudata') \subseteq Range(tmudata)
    BY <1>2, <1>4
  <2>4. QED
    BY <1>2, <1>7, <2>1, <2>2, <2>3, RepaintKeeps
<1>9. TypeOK'
  <2>1. TypeOK
    BY DEF IInv
  <2>2. Obj' = Obj /\ Obj0' = Obj0 /\ (\A k : OfKind(k)' = OfKind(k)) /\ (\A th : Slots(th)' = Slots(th))
    BY <1>2, ShapeSame DEF Slots
  <2>3. arg' \in Obj0 /\ called' \subseteq Obj /\ tmudata' \in Seq(Obj)
    BY <1>2, <1>4, <2>1 DEF Obj0, TypeOK
  <2>4. QED
    BY <1>2, <1>6, <1>7, <2>1, <2>2, <2>3 DEF TypeOK
<1>10. Linked'
  <2>1. IsInjective(rootgc') /\ IsInjective(tmudata')
    BY <1>2, <1>4, <1>6
  <2>2. \A o \in Range(rootgc) : o \in Obj /\ colour[o] # "free" /\ ~Is(o, "string") /\ at[o] = <<>> /\ o \notin Range(tmudata)
    BY <1>3, RangeHas DEF IInv, Linked, Open
  <2>3. at[u] = <<>> /\ ~Is(u, "string")
    BY <1>4, <1>5 DEF IInv, OpenFit, Open, Is
  <2>4. \A o \in Range(rootgc') : colour'[o] # "free" /\ ~Is(o, "string") /\ at[o] = <<>> /\ o \notin Range(tmudata')
    BY <1>2, <1>3, <1>4, <1>5, <1>6, <1>7, <2>2, <2>3
  <2>5. \A o \in Range(tmudata') : colour'[o] # "free" /\ Is(o, "udata")
    <3>1. \A o \in Range(tmudata) : o \in Obj /\ colour[o] # "free" /\ Is(o, "udata")
      BY <1>3, RangeHas DEF IInv, Linked
    <3>2. QED
      BY <1>2, <1>3, <1>4, <1>7, <3>1
  <2>6. \A o \in Obj : colour'[o] # "free" =>
          Is(o, "string") \/ at[o] # <<>> \/ o \in Range(rootgc') \/ o \in Range(tmudata')
    BY <1>2, <1>4, <1>5, <1>6, <1>7 DEF IInv, Linked, Open
  <2>7. Obj' = Obj /\ at' = at /\ \A p : \A k : Is(p, k)' = Is(p, k)
    BY <1>2, ShapeSame DEF Is
  <2>8. QED
    BY <2>1, <2>4, <2>5, <2>6, <2>7 DEF Linked, Open
<1>11. Phases'
  <2>1. \A o \in Obj : ~IsDead(o) /\ (o \in Range(tmudata) \/ IsClean(o))
    BY <1>2 DEF IInv, Phases
  <2>2. currentwhite # Other(currentwhite)
    BY DEF Other
  <2>3. \A o \in Obj : colour'[o] # Other(currentwhite) /\ (o \in Range(tmudata') \/ colour'[o] \in {"free", currentwhite})
    BY <1>2, <1>4, <1>7, <2>1, <2>2 DEF IsDead, IsClean
  <2>4. stage = 0 /\ Range(tmudata') \subseteq Obj
    BY <1>2, <1>4, RangeHas DEF IInv, Phases
  <2>5. Obj' = Obj
    BY <1>2, ShapeSame
  <2>6. QED
    BY <1>2, <2>3, <2>4, <2>5 DEF Phases, IsDead, IsClean
<1>12. SweepString' /\ Sweep' /\ Marked'
  BY <1>2 DEF SweepString, Sweep, Marked
<1>13. FinalizedOK'
  <2>1. called \subseteq finalized /\ Range(tmudata) \subseteq finalized /\ called \cap Range(tmudata) = {}
    BY DEF IInv, FinalizedOK
  <2>2. QED
    BY <1>2, <1>4, <2>1 DEF FinalizedOK
<1> QED
  BY <1>8, <1>9, <1>10, <1>11, <1>12, <1>13 DEF IInv

\* Sweeping a string keeps the invariant.
LEMMA SweepStringKeeps ==
  ASSUME IInv, sweepstring
  PROVE  IInv'
<1>1. /\ arg = 0 /\ gcstate = "sweepstring"
      /\ colour' = IF Strings = <<>> THEN colour
                   ELSE [colour EXCEPT ![Strings[sweepstrgc + 1]] = Swept(Strings[sweepstrgc + 1])]
      /\ sweepstrgc' = sweepstrgc + 1
      /\ gcstate' = (IF sweepstrgc + 1 >= Len(Strings) THEN "sweep" ELSE gcstate)
      /\ UNCHANGED <<shape, ref, at, stack, running, arg, gray, grayagain, weak, rootgc, sweepgc, currentwhite, stage, tmudata,
                     finalized, full, called>>
  BY DEF sweepstring, Collecting, lists, program
<1>2. /\ colour \in [Obj -> Colours] /\ currentwhite \in Colours /\ sweepstrgc \in Nat /\ sweepgc = 0
      /\ Strings # <<>> => sweepstrgc < Len(Strings)
      /\ \A i \in 1..Len(Strings) : i <= sweepstrgc => IsClean(Strings[i])
      /\ currentwhite # "free" /\ currentwhite # Other(currentwhite)
  BY <1>1 DEF IInv, TypeOK, SweepString, Colours, Whites, Other
<1>3. /\ Strings \in Seq(Obj) /\ Len(Strings) \in Nat /\ Range(Strings) = OfKind("string")
      /\ \A x : x \in Range(Strings) <=> \E i \in 1..Len(Strings) : Strings[i] = x
  BY StringsAre, RangeHas
\* One string at most changes, and is clean then.
<1>4. /\ colour' \in [Obj -> Colours] /\ Repainted
      /\ \A o \in Obj : IsClean(o) => colour'[o] \in {"free", currentwhite}
      /\ \A i \in 1..Len(Strings) : i <= sweepstrgc + 1 => colour'[Strings[i]] \in {"free", currentwhite}
  <2>1. CASE Strings = <<>>
    <3>1. colour' = colour /\ Len(Strings) = 0
      BY <1>1, <2>1
    <3>2. QED
      BY <1>2, <3>1 DEF Repainted, IsClean
  <2>2. CASE Strings # <<>>
    <3>1. sweepstrgc + 1 \in 1..Len(Strings)
      BY <1>2, <1>3, <2>2
    <3>2. PICK s : s = Strings[sweepstrgc + 1]
      OBVIOUS
    <3>3. s \in Obj /\ Is(s, "string") /\ s \in Range(Strings)
      <4>1. s \in Range(Strings)
        BY <1>3, <3>1, <3>2
      <4>2. QED
        BY <1>3, <4>1 DEF OfKind
    <3>4. PICK c : c = Swept(s)
      OBVIOUS
    <3>5. /\ c \in {"free", currentwhite}
          /\ c = currentwhite => colour[s] # "free" /\ ~IsDead(s)
          /\ c = "free" => colour[s] = "free" \/ IsDead(s)
      BY <1>2, <3>4 DEF Swept
    <3>6. colour' = [colour EXCEPT ![s] = c]
      BY <1>1, <2>2, <3>2, <3>4
    <3>7. colour' \in [Obj -> Colours] /\ colour'[s] = c /\ \A o \in Obj : o # s => colour'[o] = colour[o]
      <4>1. c \in Colours
        BY <1>2, <3>5 DEF Colours
      <4>2. QED
        BY <1>2, <3>3, <3>6, <4>1
    <3>8. Repainted
      BY <3>3, <3>5, <3>7 DEF Repainted
    <3>9. \A o \in Obj : IsClean(o) => colour'[o] \in {"free", currentwhite}
      BY <3>5, <3>7 DEF IsClean
    <3>10. ASSUME NEW i \in 1..Len(Strings), i <= sweepstrgc + 1
           PROVE  colour'[Strings[i]] \in {"free", currentwhite}
      <4>1. Strings[i] \in Obj
        BY <1>3
      <4>2. i = sweepstrgc + 1 \/ i <= sweepstrgc
        BY <1>2, <3>10
      <4>3. QED
        BY <1>2, <3>2, <3>5, <3>7, <3>9, <4>1, <4>2
    <3>11. QED
      BY <3>7, <3>8, <3>9, <3>10
  <2>3. QED
    BY <2>1, <2>2
<1>5. FieldsFit' /\ SlotsFit' /\ OpenFit' /\ Coloured' /\ LivingRefs'
  BY <1>1, <1>4, RepaintKeeps
<1>6. /\ Obj' = Obj /\ Obj0' = Obj0 /\ (\A k : OfKind(k)' = OfKind(k)) /\ (\A th : Slots(th)' = Slots(th))
      /\ Strings' = Strings /\ (\A p : \A k : Is(p, k)' = Is(p, k)) /\ \A u : Open(u)' = Open(u)
  BY <1>1, ShapeSame DEF Slots, Is, Open
<1>7. TypeOK'
  <2>1. TypeOK
    BY DEF IInv
  <2>2. gcstate' \in States /\ sweepstrgc' \in Nat
    BY <1>1, <1>2 DEF States
  <2>3. QED
    BY <1>1, <1>4, <1>6, <2>1, <2>2 DEF TypeOK
<1>8. Linked'
  <2>1. \A o \in Obj : ~Is(o, "string") => (colour'[o] = "free" <=> colour[o] = "free")
    BY <1>2, <1>4 DEF Repainted
  <2>2. \A o \in Range(rootgc) : o \in Obj /\ ~Is(o, "string") /\ colour[o] # "free"
    BY RangeHas DEF IInv, TypeOK, Linked
  <2>3. \A o \in Range(tmudata) : o \in Obj /\ Is(o, "udata") /\ colour[o] # "free"
    BY RangeHas DEF IInv, TypeOK, Linked
  <2>4. \A o \in Range(tmudata) : ~Is(o, "string")
    BY <2>3 DEF Is
  <2>5. QED
    BY <1>1, <1>6, <2>1, <2>2, <2>3, <2>4 DEF IInv, Linked
<1>9. Phases'
  <2>1. \A o \in Range(tmudata) : o \in Obj /\ ~IsDead(o)
    BY RangeHas DEF IInv, TypeOK, Phases
  <2>2. \A o \in Obj : ~IsDead(o) => colour'[o] # Other(currentwhite)
    BY <1>2, <1>4 DEF Repainted, IsDead
  <2>3. stage = 0 /\ gcstate' \in {"sweepstring", "sweep"}
    BY <1>1 DEF IInv, Phases
  <2>4. QED
    BY <1>1, <2>1, <2>2, <2>3 DEF Phases, IsDead
<1>10. SweepString'
  <2>1. ASSUME gcstate' = "sweepstring" PROVE sweepstrgc + 1 < Len(Strings)
    BY <1>1, <1>2, <1>3, <2>1
  <2>2. \A i \in 1..Len(Strings) : i <= sweepstrgc + 1 => IsClean(Strings[i])'
    BY <1>1, <1>4, <1>6 DEF IsClean
  <2>3. QED
    BY <1>1, <1>2, <1>6, <2>1, <2>2 DEF SweepString
<1>11. Sweep'
  <2>1. ASSUME gcstate' = "sweep" PROVE \A o \in Obj : Is(o, "string") => colour'[o] \in {"free", currentwhite}
    <3>1. sweepstrgc + 1 >= Len(Strings)
      BY <1>1, <2>1
    <3>2. SUFFICES ASSUME NEW o \in Obj, Is(o, "string") PROVE colour'[o] \in {"free", currentwhite}
      OBVIOUS
    <3>3. PICK i \in 1..Len(Strings) : Strings[i] = o
      BY <1>3, <3>2 DEF OfKind
    <3>4. i <= sweepstrgc + 1
      BY <1>2, <1>3, <3>1
    <3>5. QED
      BY <1>4, <3>3, <3>4
  <2>2. \A o : ~Before(rootgc, 0, o)
    BY RangeHas, ShapeIs DEF Before, IInv, TypeOK
  <2>3. rootgc' = rootgc /\ sweepgc' = 0
    BY <1>1, <1>2
  <2>4. QED
    BY <1>1, <1>6, <2>1, <2>2, <2>3 DEF Sweep, IsClean
<1>12. Marked' /\ FinalizedOK'
  BY <1>1 DEF Marked, IInv, FinalizedOK
<1> QED
  BY <1>5, <1>7, <1>8, <1>9, <1>10, <1>11, <1>12 DEF IInv

-----------------------------------------------------------------------------
(* Sweeping an object of rootgc: o, with the open upvalues us if it is a   *)
(* thread; the dead ones are freed, upvalues of a dead thread that are not *)
(* dead are closed.                                                        *)
SwObj    == rootgc[Position]
SwUpvals == IF Is(SwObj, "thread") THEN OpenUpvals(SwObj) ELSE <<>>
SwDead   == {x \in {SwObj} \cup Range(SwUpvals) : IsDead(x)}
SwClosed == IF SwObj \in SwDead THEN Range(SwUpvals) \ SwDead ELSE {}

\* Where the sweep is.
LEMMA SweepPosition ==
  ASSUME IInv, gcstate = "sweep"
  PROVE  /\ Position \in 1..Len(rootgc) /\ Len(rootgc) \in Nat
         /\ SwObj \in Obj /\ SwObj \in Range(rootgc) /\ sweepgc # SwObj
         /\ ~Is(SwObj, "string") /\ at[SwObj] = <<>> /\ colour[SwObj] # "free" /\ SwObj \notin Range(tmudata)
         /\ \A i \in 1..Len(rootgc) : i < Position => sweepgc # 0 /\ Before(rootgc, sweepgc, rootgc[i])
<1>1. rootgc \in Seq(Obj) /\ IsInjective(rootgc) /\ Len(rootgc) \in Nat /\ DOMAIN rootgc = 1..Len(rootgc)
  BY RangeHas DEF IInv, TypeOK, Linked
<1>2. 1 \in 1..Len(rootgc)
  <2>1. PICK i \in 1..Len(rootgc) : rootgc[i] = Main
    BY <1>1, MainLinked, RangeHas
  <2>2. QED
    BY <1>1
<1>3. CASE sweepgc = 0
  <2>1. Position = 1
    BY <1>3 DEF Position
  <2>2. Position \in 1..Len(rootgc) /\ \A i \in 1..Len(rootgc) : ~(i < Position)
    BY <1>1, <1>2, <2>1
  <2>3. SwObj \in Range(rootgc) /\ SwObj \in Obj
    BY <1>1, <2>2, RangeHas DEF SwObj
  <2>4. sweepgc # SwObj
    BY <1>3, <2>3, ShapeIs DEF IInv
  <2>5. QED
    BY <1>1, <2>2, <2>3, <2>4 DEF IInv, Linked, Open
<1>4. CASE sweepgc # 0
  <2>1. sweepgc \in Range(rootgc) /\ sweepgc # rootgc[Len(rootgc)]
    BY <1>4 DEF IInv, Sweep
  <2>2. PICK n : n = IndexOf(rootgc, sweepgc)
    OBVIOUS
  <2>3. n \in 1..Len(rootgc) /\ rootgc[n] = sweepgc
    BY <1>1, <2>1, <2>2, IndexIs
  <2>4. Position = n + 1
    BY <1>4, <2>2 DEF Position
  <2>5. n # Len(rootgc)
    BY <2>1, <2>3
  <2>6. Position \in 1..Len(rootgc)
    <3>1. PICK N \in Nat : N = Len(rootgc)
      BY <1>1
    <3>2. n \in 1..N /\ n # N
      BY <2>3, <2>5, <3>1
    <3>3. n + 1 \in 1..N
      BY <3>1, <3>2
    <3>4. QED
      BY <2>4, <3>1, <3>3
  <2>7. SwObj \in Range(rootgc) /\ SwObj \in Obj
    BY <1>1, <2>6, RangeHas DEF SwObj
  <2>8. sweepgc # SwObj
    <3>1. n # Position
      BY <1>1, <2>3, <2>4
    <3>2. QED
      BY <1>1, <2>3, <2>6, <3>1 DEF SwObj, IsInjective
  <2>9. ASSUME NEW i \in 1..Len(rootgc), i < Position PROVE Before(rootgc, sweepgc, rootgc[i])
    <3>1. i <= n
      BY <1>1, <2>3, <2>4, <2>9
    <3>2. QED
      BY <2>3, <3>1 DEF Before
  <2>10. QED
    BY <1>1, <1>4, <2>6, <2>7, <2>8, <2>9 DEF IInv, Linked, Open
<1> QED
  BY <1>3, <1>4

\* The upvalues that are swept with a thread.
LEMMA SweptAre ==
  ASSUME IInv, gcstate = "sweep"
  PROVE  /\ SwUpvals \in Seq(OfKind("upval")) /\ IsInjective(SwUpvals)
         /\ \A u \in Obj : u \in Range(SwUpvals) <=> Is(SwObj, "thread") /\ at[u] # <<>> /\ at[u][1] = SwObj
         /\ \A u \in Range(SwUpvals) : /\ u \in Obj /\ Is(u, "upval") /\ colour[u] # "free" /\ u # SwObj
                                       /\ at[u] # <<>> /\ u \notin Range(rootgc) /\ u \notin Range(tmudata)
<1>1. SwObj \in Obj /\ at[SwObj] = <<>>
  BY SweepPosition
<1>2. CASE Is(SwObj, "thread")
  <2>1. SwUpvals = OpenUpvals(SwObj) /\ SwObj \in OfKind("thread")
    BY <1>1, <1>2 DEF SwUpvals, OfKind
  <2>2. /\ SwUpvals \in Seq(OfKind("upval")) /\ IsInjective(SwUpvals)
        /\ \A u \in Obj : u \in Range(SwUpvals) <=> at[u] # <<>> /\ at[u][1] = SwObj
    BY <2>1, OpenUpvalsAre
  <2>3. ASSUME NEW u \in Range(SwUpvals)
        PROVE  /\ u \in Obj /\ Is(u, "upval") /\ colour[u] # "free" /\ u # SwObj
               /\ at[u] # <<>> /\ u \notin Range(rootgc) /\ u \notin Range(tmudata)
    <3>1. u \in Obj /\ Is(u, "upval") /\ at[u] # <<>>
      BY <2>2, RangeHas DEF OfKind
    <3>2. ~Is(u, "udata")
      BY <3>1 DEF Is
    <3>3. QED
      BY <1>1, <3>1, <3>2 DEF IInv, OpenFit, Linked, Open
  <2>4. QED
    BY <1>2, <2>2, <2>3
<1>3. CASE ~Is(SwObj, "thread")
  <2>1. SwUpvals = <<>>
    BY <1>3 DEF SwUpvals
  <2>2. <<>> \in Seq(OfKind("upval"))
    OBVIOUS
  <2>3. QED
    BY <1>3, <2>1, <2>2, EmptyRange
<1> QED
  BY <1>2, <1>3

\* What the step does.
LEMMA SweepParts ==
  ASSUME IInv, gcstate = "sweep"
  PROVE  /\ SwDead \subseteq Obj /\ SwClosed \subseteq Obj /\ SwDead \cap SwClosed = {}
         /\ \A x \in SwDead : IsDead(x) /\ (x = SwObj \/ (Is(x, "upval") /\ x \notin Range(rootgc)))
                              /\ x \notin Range(tmudata) /\ ~Is(x, "string")
         /\ \A x \in SwClosed : /\ Is(x, "upval") /\ at[x] # <<>> /\ at[x][1] = SwObj /\ ~IsDead(x)
                                /\ colour[x] # "free" /\ x \notin Range(rootgc) /\ x \notin Range(tmudata)
         /\ SwClosed # {} => SwObj \in SwDead
         /\ SwObj \in SwDead <=> IsDead(SwObj)
         /\ \A u \in Obj : Is(SwObj, "thread") /\ at[u] # <<>> /\ at[u][1] = SwObj =>
              u \in Range(SwUpvals) /\ (SwObj \in SwDead => u \in SwDead \/ u \in SwClosed)
<1>1. SwObj \in Obj /\ ~Is(SwObj, "string") /\ SwObj \notin Range(tmudata)
  BY SweepPosition
<1>2. /\ \A u \in Obj : u \in Range(SwUpvals) <=> Is(SwObj, "thread") /\ at[u] # <<>> /\ at[u][1] = SwObj
      /\ \A u \in Range(SwUpvals) : /\ u \in Obj /\ Is(u, "upval") /\ colour[u] # "free" /\ u # SwObj
                                    /\ at[u] # <<>> /\ u \notin Range(rootgc) /\ u \notin Range(tmudata)
  BY SweptAre
<1>3. \A u \in Range(SwUpvals) : ~Is(u, "string")
  BY <1>2 DEF Is
<1>4. \A x \in SwDead : x \in Obj /\ IsDead(x) /\ (x = SwObj \/ x \in Range(SwUpvals))
  BY <1>1, <1>2 DEF SwDead
<1>5. \A x \in SwClosed : x \in Range(SwUpvals) /\ x \notin SwDead /\ SwObj \in SwDead
  BY DEF SwClosed
<1>6. \A x \in SwClosed : ~IsDead(x)
  BY <1>5 DEF SwDead
<1>7. SwObj \in SwDead <=> IsDead(SwObj)
  BY DEF SwDead
<1>8. \A u \in Obj : Is(SwObj, "thread") /\ at[u] # <<>> /\ at[u][1] = SwObj =>
              u \in Range(SwUpvals) /\ (SwObj \in SwDead => u \in SwDead \/ u \in SwClosed)
  BY <1>2 DEF SwClosed
<1>9. \A x \in SwDead : IsDead(x) /\ (x = SwObj \/ (Is(x, "upval") /\ x \notin Range(rootgc)))
                              /\ x \notin Range(tmudata) /\ ~Is(x, "string")
  BY <1>1, <1>2, <1>3, <1>4
<1>10. \A x \in SwClosed : /\ Is(x, "upval") /\ at[x] # <<>> /\ at[x][1] = SwObj /\ ~IsDead(x)
                           /\ colour[x] # "free" /\ x \notin Range(rootgc) /\ x \notin Range(tmudata) /\ x \in Obj
  BY <1>2, <1>5, <1>6
<1>11. SwDead \subseteq Obj /\ SwClosed \subseteq Obj /\ SwDead \cap SwClosed = {} /\ (SwClosed # {} => SwObj \in SwDead)
  BY <1>4, <1>5, <1>10
<1> QED
  BY <1>7, <1>8, <1>9, <1>10, <1>11

SwAll   == {SwObj} \cup Range(SwUpvals)
SwClose == IF SwObj \in SwDead THEN Those(SwUpvals, Obj \ SwDead) ELSE <<>>
SwColours == [x \in Obj |-> IF x \in SwDead THEN "free"
                            ELSE IF x \in SwAll THEN currentwhite ELSE colour[x]]
SwMarks(m) == m = [colour |-> SwColours, gray |-> gray]

\* The upvalues to close.
LEMMA SwCloseIs ==
  ASSUME IInv, gcstate = "sweep"
  PROVE  SwClose \in Seq(Obj) /\ IsInjective(SwClose) /\ Range(SwClose) = SwClosed
<1>1. SwUpvals \in Seq(OfKind("upval")) /\ IsInjective(SwUpvals) /\ OfKind("upval") \subseteq Obj
      /\ \A u \in Range(SwUpvals) : u \in Obj
  BY SweptAre DEF OfKind
<1>2. CASE SwObj \in SwDead
  <2>1. PICK S : S = Obj \ SwDead
    OBVIOUS
  <2>2. SwClose = Those(SwUpvals, S)
    BY <1>2, <2>1 DEF SwClose
  <2>3. SwClose \in Seq(OfKind("upval")) /\ IsInjective(SwClose) /\ Range(SwClose) = Range(SwUpvals) \cap S
    BY <1>1, <2>2, ThoseAre
  <2>4. SwClosed = Range(SwUpvals) \ SwDead
    BY <1>2 DEF SwClosed
  <2>5. SwClose \in Seq(Obj)
    BY <1>1, <2>3
  <2>6. Range(SwClose) = SwClosed
    BY <1>1, <2>1, <2>3, <2>4
  <2>7. QED
    BY <2>3, <2>5, <2>6
<1>3. CASE SwObj \notin SwDead
  <2>1. SwClose = <<>> /\ SwClosed = {} /\ <<>> \in Seq(Obj)
    BY <1>3 DEF SwClose, SwClosed
  <2>2. QED
    BY <2>1, EmptyRange
<1> QED
  BY <1>2, <1>3

\* luaF_close, when all of us are white already.
LEMMA CloseWhite ==
  ASSUME IInv, gcstate = "sweep", NEW m, m \in MarksType, NEW us \in Seq(Obj), IsInjective(us),
         \A u \in Range(us) : m.colour[u] = currentwhite,
         NEW c, c = luaF_close(m, us)
  PROVE  /\ \A x \in Obj : c.colour[x] = m.colour[x]
         /\ \A x \in Obj : c.ref[x] = IF x \in Range(us) THEN Fields(0, ValueOf(x), 0) ELSE ref[x]
         /\ \A x \in Obj : c.at[x] = IF x \in Range(us) THEN <<>> ELSE at[x]
         /\ c.new \in Seq(Obj) /\ IsInjective(c.new) /\ Range(c.new) = Range(us)
<1>1. PICK living : living = Those(us, {u \in Obj : m.colour[u] # Other(currentwhite)})
  OBVIOUS
<1>2. PICK S : S = {u \in Obj : m.colour[u] # Other(currentwhite)}
  OBVIOUS
<1>3. living \in Seq(Obj) /\ IsInjective(living) /\ Range(living) = Range(us) \cap S
  BY <1>1, <1>2, ThoseAre
<1>4. currentwhite # Other(currentwhite) /\ currentwhite # "gray"
  BY DEF IInv, TypeOK, Whites, Other
<1>5. Range(us) \subseteq Obj
  BY RangeHas
<1>6. Range(living) = Range(us)
  BY <1>2, <1>3, <1>4, <1>5
<1>7. PICK m1 : m1 = CloseAll(m, living)
  OBVIOUS
<1>8. m1 \in MarksType /\ \A o \in Obj : m1.colour[o] = IF o \in Range(living) /\ m.colour[o] = "gray" THEN currentwhite ELSE m.colour[o]
  BY <1>3, <1>7, CloseAllSweeps
<1>9. \A o \in Obj : m1.colour[o] = m.colour[o]
  BY <1>4, <1>6, <1>8
<1>10. (\A o : Contains(us, o) <=> o \in Range(us)) /\ (\A o : Contains(living, o) <=> o \in Range(us))
  BY <1>3, <1>6, ContainsIs
<1>11. PICK cc : cc = [o \in Obj |-> IF Contains(us, o) /\ ~Contains(living, o) THEN "free" ELSE m1.colour[o]]
  OBVIOUS
<1>12. PICK cr : cr = [o \in Obj |-> IF Contains(living, o) THEN [Nothing EXCEPT !.val = ValueOf(o)] ELSE ref[o]]
  OBVIOUS
<1>13. PICK ca : ca = [o \in Obj |-> IF Contains(us, o) THEN <<>> ELSE at[o]]
  OBVIOUS
<1>14. c = [colour |-> cc, gray |-> m1.gray, ref |-> cr, at |-> ca, new |-> Reverse(living)]
  BY <1>1, <1>7, <1>11, <1>12, <1>13 DEF luaF_close
<1>15. c.colour = cc /\ c.ref = cr /\ c.at = ca /\ c.new = Reverse(living)
  BY <1>14
<1>16. \A x \in Obj : c.colour[x] = m.colour[x]
  BY <1>9, <1>10, <1>11, <1>15
<1>17. \A x \in Obj : c.ref[x] = IF x \in Range(us) THEN Fields(0, ValueOf(x), 0) ELSE ref[x]
  <2>1. \A v : [Nothing EXCEPT !.val = v] = Fields(0, v, 0)
    BY DEF Nothing, Fields
  <2>2. QED
    BY <1>10, <1>12, <1>15, <2>1
<1>18. \A x \in Obj : c.at[x] = IF x \in Range(us) THEN <<>> ELSE at[x]
  BY <1>10, <1>13, <1>15
<1>19. c.new \in Seq(Obj) /\ IsInjective(c.new) /\ Range(c.new) = Range(us)
  BY <1>3, <1>6, <1>15, ReverseIs
<1> QED
  BY <1>16, <1>17, <1>18, <1>19

SweepFrame ==
  /\ arg = 0 /\ gcstate = "sweep"
  /\ UNCHANGED <<shape, running, arg, gray, grayagain, weak, sweepstrgc, currentwhite, stage, tmudata, finalized, full,
                 called>>
  /\ gcstate' = IF Last(rootgc') = sweepgc' THEN "finalize" ELSE gcstate
  /\ sweepgc' = IF SwObj \in SwDead THEN sweepgc ELSE SwObj
SweepHeap ==
  /\ colour' = [x \in Obj |-> IF x \in SwDead THEN "free" ELSE IF x \in SwAll THEN currentwhite ELSE colour[x]]
  /\ ref' = [x \in Obj |-> IF x \in SwDead THEN Nothing
                           ELSE IF x \in SwClosed THEN Fields(0, ValueOf(x), 0) ELSE ref[x]]
  /\ at' = [x \in Obj |-> IF x \in SwDead \cup SwClosed THEN <<>> ELSE at[x]]
  /\ stack' = [th \in OfKind("thread") |-> IF th \in SwDead THEN [s \in Slots(th) |-> 0] ELSE stack[th]]
SweepRoot ==
  \E q \in Seq(Obj) : /\ IsInjective(q) /\ Range(q) = SwClosed
                      /\ rootgc' = q \o (IF SwObj \in SwDead THEN RemoveAt(rootgc, Position) ELSE rootgc)
\* The step, in these terms.
LEMMA SweepDoes ==
  ASSUME IInv, sweeplist
  PROVE  SweepFrame /\ SweepHeap /\ SweepRoot
<1>1. PICK m : SwMarks(m)
  BY DEF SwMarks
<1>2. [Marks EXCEPT !.colour = [x \in Obj |-> IF x \in SwDead THEN "free"
                              ELSE IF x \in SwAll THEN currentwhite ELSE colour[x]]] = m
  <2>1. Marks = [colour |-> colour, gray |-> gray]
    BY DEF Marks
  <2>2. PICK k : k = [x \in Obj |-> IF x \in SwDead THEN "free"
                              ELSE IF x \in SwAll THEN currentwhite ELSE colour[x]]
    OBVIOUS
  <2>3. [Marks EXCEPT !.colour = k] = [colour |-> k, gray |-> gray]
    BY <2>1
  <2>4. QED
    BY <1>1, <2>2, <2>3 DEF SwMarks, SwColours
<1>3. PICK c : c = luaF_close(m, SwClose)
  OBVIOUS
<1>4. /\ colour' = c.colour
      /\ ref' = [x \in Obj |-> IF x \in SwDead THEN Nothing ELSE c.ref[x]]
      /\ at' = [x \in Obj |-> IF x \in SwDead THEN <<>> ELSE c.at[x]]
      /\ rootgc' = c.new \o (IF SwObj \in SwDead THEN RemoveAt(rootgc, Position) ELSE rootgc)
      /\ stack' = [th \in DOMAIN stack |-> IF th \in SwDead THEN [s \in Slots(th) |-> 0] ELSE stack[th]]
      /\ sweepgc' = IF SwObj \in SwDead THEN sweepgc ELSE SwObj
  <2>1. c = luaF_close([Marks EXCEPT !.colour = [x \in Obj |-> IF x \in SwDead THEN "free"
                              ELSE IF x \in SwAll THEN currentwhite ELSE colour[x]]],
                       IF SwObj \in SwDead THEN Those(SwUpvals, Obj \ SwDead) ELSE <<>>)
    BY <1>2, <1>3 DEF SwClose
  <2>2. QED
    BY <2>1 DEF sweeplist, SwAll, SwDead, SwUpvals, SwObj
<1>5. SweepFrame
  <2>1. /\ arg = 0 /\ gcstate = "sweep"
        /\ UNCHANGED <<shape, running, arg, gray, grayagain, weak, sweepstrgc, currentwhite, stage, tmudata, finalized,
                       full, called>>
        /\ gcstate' = IF Last(rootgc') = sweepgc' THEN "finalize" ELSE gcstate
    BY DEF sweeplist, Collecting, lists
  <2>2. QED
    BY <1>4, <2>1 DEF SweepFrame
<1>6. gcstate = "sweep"
  BY <1>5 DEF SweepFrame
<1>7. /\ SwClose \in Seq(Obj) /\ IsInjective(SwClose) /\ Range(SwClose) = SwClosed
      /\ SwDead \subseteq Obj /\ SwClosed \subseteq Obj /\ SwDead \cap SwClosed = {}
  BY <1>6, SwCloseIs, SweepParts
<1>8. colour \in [Obj -> Colours] /\ gray \in Seq(Obj) /\ currentwhite \in Colours
  BY DEF IInv, TypeOK, Colours
<1>9. m.colour = SwColours /\ m \in MarksType
  <2>1. SwColours \in [Obj -> Colours]
    BY <1>8 DEF SwColours, Colours
  <2>2. QED
    BY <1>1, <1>8, <2>1 DEF SwMarks, MarksType
<1>10. \A x \in Obj : m.colour[x] = IF x \in SwDead THEN "free" ELSE IF x \in SwAll THEN currentwhite ELSE colour[x]
  BY <1>9 DEF SwColours
<1>11. \A u \in Range(SwClose) : m.colour[u] = currentwhite
  <2>1. \A u \in SwClosed : u \in SwAll
    BY DEF SwClosed, SwAll
  <2>2. QED
    BY <1>7, <1>10, <2>1
<1>12. /\ \A x \in Obj : c.colour[x] = m.colour[x]
       /\ \A x \in Obj : c.ref[x] = IF x \in Range(SwClose) THEN Fields(0, ValueOf(x), 0) ELSE ref[x]
       /\ \A x \in Obj : c.at[x] = IF x \in Range(SwClose) THEN <<>> ELSE at[x]
       /\ c.new \in Seq(Obj) /\ IsInjective(c.new) /\ Range(c.new) = Range(SwClose)
  BY <1>3, <1>6, <1>7, <1>9, <1>11, CloseWhite
<1>13. colour' = [x \in Obj |-> c.colour[x]]
  <2>1. DOMAIN c.colour = Obj
    BY <1>3 DEF luaF_close
  <2>2. \E k : c.colour = [x \in Obj |-> k[x]]
    BY <1>3 DEF luaF_close
  <2>3. QED
    BY <1>4, <2>1, <2>2
<1>14. SweepHeap
  <2>1. colour' = [x \in Obj |-> IF x \in SwDead THEN "free" ELSE IF x \in SwAll THEN currentwhite ELSE colour[x]]
    BY <1>10, <1>12, <1>13
  <2>2. ref' = [x \in Obj |-> IF x \in SwDead THEN Nothing
                              ELSE IF x \in SwClosed THEN Fields(0, ValueOf(x), 0) ELSE ref[x]]
    BY <1>4, <1>7, <1>12
  <2>3. at' = [x \in Obj |-> IF x \in SwDead \cup SwClosed THEN <<>> ELSE at[x]]
    BY <1>4, <1>7, <1>12
  <2>4. stack' = [th \in OfKind("thread") |-> IF th \in SwDead THEN [s \in Slots(th) |-> 0] ELSE stack[th]]
    BY <1>4 DEF IInv, TypeOK
  <2>5. QED
    BY <2>1, <2>2, <2>3, <2>4 DEF SweepHeap
<1>15. SweepRoot
  BY <1>4, <1>7, <1>12 DEF SweepRoot
<1> QED
  BY <1>5, <1>14, <1>15

\* The objects before and after the step.
SweptHeap ==
  \A x \in Obj :
    /\ x \in SwDead => colour'[x] = "free" /\ ref'[x] = Nothing /\ at'[x] = <<>> /\ colour[x] = Other(currentwhite)
    /\ x \in SwClosed => /\ colour'[x] = currentwhite /\ ref'[x] = Fields(0, ValueOf(x), 0) /\ at'[x] = <<>>
                         /\ colour[x] # Other(currentwhite)
    /\ x \notin SwDead => /\ colour'[x] \in {colour[x], currentwhite}
                          /\ colour'[x] # colour[x] => colour[x] # Other(currentwhite) /\ colour[x] # "free"
    /\ x \notin SwDead /\ x \notin SwClosed => ref'[x] = ref[x] /\ at'[x] = at[x]
    /\ x \in SwAll /\ x \notin SwDead => colour'[x] = currentwhite
\* The step does that.
LEMMA SweptHeapIs ==
  ASSUME IInv, sweeplist
  PROVE  SweptHeap
<1>1. SweepHeap /\ gcstate = "sweep"
  BY SweepDoes DEF SweepFrame
<1>2. /\ SwDead \subseteq Obj /\ SwClosed \subseteq Obj /\ SwDead \cap SwClosed = {}
      /\ \A x \in SwDead : IsDead(x)
      /\ \A x \in SwClosed : ~IsDead(x)
  BY <1>1, SweepParts
<1>3. \A x \in Obj : colour'[x] = IF x \in SwDead THEN "free" ELSE IF x \in SwAll THEN currentwhite ELSE colour[x]
  BY <1>1 DEF SweepHeap
<1>4. \A x \in Obj : ref'[x] = IF x \in SwDead THEN Nothing
                               ELSE IF x \in SwClosed THEN Fields(0, ValueOf(x), 0) ELSE ref[x]
  BY <1>1 DEF SweepHeap
<1>5. \A x \in Obj : at'[x] = IF x \in SwDead \cup SwClosed THEN <<>> ELSE at[x]
  BY <1>1 DEF SweepHeap
<1>6. \A x \in SwClosed : x \in SwAll
  BY DEF SwClosed, SwAll
<1>7. \A x \in SwAll : x \notin SwDead => ~IsDead(x) /\ colour[x] # "free"
  <2>1. colour[SwObj] # "free" /\ \A u \in Range(SwUpvals) : colour[u] # "free"
    BY <1>1, SweepPosition, SweptAre
  <2>2. \A x \in SwAll : colour[x] # "free"
    BY <2>1 DEF SwAll
  <2>3. \A x \in SwAll : x \notin SwDead => ~IsDead(x)
    BY DEF SwAll, SwDead
  <2>4. QED
    BY <2>2, <2>3
<1> QED
  BY <1>2, <1>3, <1>4, <1>5, <1>6, <1>7 DEF SweptHeap, IsDead

\* What lives goes on living, what is clean stays clean.
LEMMA SweptColours ==
  ASSUME IInv, sweeplist, NEW x \in Obj
  PROVE  /\ colour'[x] \in Colours
         /\ Live(colour', currentwhite, x) <=> Living(x)
         /\ colour'[x] = "free" <=> colour[x] = "free" \/ x \in SwDead
         /\ IsClean(x) => colour'[x] \in {"free", currentwhite}
         /\ ~IsDead(x) => x \notin SwDead /\ colour'[x] # Other(currentwhite)
         /\ colour'[x] \in {"gray", "black"} => colour[x] = colour'[x]
<1>1. SweptHeap
  BY SweptHeapIs
<1>2. /\ currentwhite \in Colours /\ currentwhite # Other(currentwhite) /\ Other(currentwhite) # "free"
      /\ currentwhite \notin {"free", "gray", "black"} /\ colour[x] \in Colours /\ "free" \in Colours
      /\ Other(currentwhite) \notin {"gray", "black"} /\ 0 \notin Obj
  BY ShapeIs DEF IInv, TypeOK, Colours, Whites, Other
<1>3. CASE x \in SwDead
  <2>1. colour'[x] = "free" /\ colour[x] = Other(currentwhite)
    BY <1>1, <1>3 DEF SweptHeap
  <2>2. QED
    BY <1>2, <1>3, <2>1 DEF Live, Living, IsClean, IsDead
<1>4. CASE x \notin SwDead
  <2>1. /\ colour'[x] \in {colour[x], currentwhite}
        /\ colour'[x] # colour[x] => colour[x] # Other(currentwhite) /\ colour[x] # "free"
    BY <1>1, <1>4 DEF SweptHeap
  <2>2. QED
    BY <1>2, <1>4, <2>1 DEF Live, Living, IsClean, IsDead
<1> QED
  BY <1>3, <1>4

\* The frame, and what it keeps.
LEMMA SweptFrame ==
  ASSUME IInv, sweeplist
  PROVE  /\ shape' = shape /\ running' = running /\ arg' = arg /\ arg = 0 /\ gray' = gray /\ grayagain' = grayagain
         /\ weak' = weak /\ sweepstrgc' = sweepstrgc /\ currentwhite' = currentwhite /\ stage' = stage
         /\ tmudata' = tmudata /\ finalized' = finalized /\ full' = full /\ called' = called
         /\ gcstate = "sweep" /\ gcstate' = (IF Last(rootgc') = sweepgc' THEN "finalize" ELSE "sweep")
         /\ sweepgc' = (IF SwObj \in SwDead THEN sweepgc ELSE SwObj)
         /\ Obj' = Obj /\ Obj0' = Obj0 /\ Plain' = Plain /\ (\A k : OfKind(k)' = OfKind(k))
         /\ (\A th : Slots(th)' = Slots(th)) /\ (\A o : \A k : Is(o, k)' = Is(o, k)) /\ stage = 0
<1>1. SweepFrame
  BY SweepDoes
<1>2. /\ shape' = shape /\ running' = running /\ arg' = arg /\ arg = 0 /\ gray' = gray /\ grayagain' = grayagain
      /\ weak' = weak /\ sweepstrgc' = sweepstrgc /\ currentwhite' = currentwhite /\ stage' = stage
      /\ tmudata' = tmudata /\ finalized' = finalized /\ full' = full /\ called' = called
      /\ gcstate = "sweep" /\ gcstate' = (IF Last(rootgc') = sweepgc' THEN "finalize" ELSE "sweep")
      /\ sweepgc' = (IF SwObj \in SwDead THEN sweepgc ELSE SwObj)
  BY <1>1 DEF SweepFrame
<1>3. Obj' = Obj /\ Obj0' = Obj0 /\ Plain' = Plain /\ (\A k : OfKind(k)' = OfKind(k))
  BY <1>2, ShapeSame
<1>4. (\A th : Slots(th)' = Slots(th)) /\ (\A o : \A k : Is(o, k)' = Is(o, k))
  BY <1>2 DEF Slots, Is
<1>5. stage = 0
  BY <1>2 DEF IInv, Phases
<1> QED
  BY <1>2, <1>3, <1>4, <1>5

\* The stacks: that of a dead thread is cleared.
LEMMA SweptStack ==
  ASSUME IInv, sweeplist
  PROVE  /\ DOMAIN stack' = OfKind("thread")
         /\ \A th \in OfKind("thread") :
              /\ stack'[th] \in [Slots(th) -> Obj0]
              /\ th \notin SwDead => stack'[th] = stack[th]
              /\ th \in SwDead => \A s \in Slots(th) : stack'[th][s] = 0
<1>1. stack' = [th \in OfKind("thread") |-> IF th \in SwDead THEN [s \in Slots(th) |-> 0] ELSE stack[th]]
  BY SweepDoes DEF SweepHeap
<1>2. \A th \in OfKind("thread") : stack[th] \in [Slots(th) -> Obj0] /\ 0 \in Obj0
  BY DEF IInv, TypeOK, Obj0
<1> QED
  BY <1>1, <1>2

\* The list.
LEMMA SweptRoot ==
  ASSUME IInv, sweeplist
  PROVE  /\ rootgc' \in Seq(Obj) /\ IsInjective(rootgc')
         /\ Range(rootgc') = SwClosed \cup (IF SwObj \in SwDead THEN Range(rootgc) \ {SwObj} ELSE Range(rootgc))
         /\ SwObj \notin SwDead => rootgc' = rootgc
<1>1. PICK q \in Seq(Obj) : /\ IsInjective(q) /\ Range(q) = SwClosed
                            /\ rootgc' = q \o (IF SwObj \in SwDead THEN RemoveAt(rootgc, Position) ELSE rootgc)
  BY SweepDoes DEF SweepRoot
<1>2. gcstate = "sweep"
  BY SweptFrame
<1>3. rootgc \in Seq(Obj) /\ IsInjective(rootgc) /\ Position \in 1..Len(rootgc)
  BY <1>2, SweepPosition DEF IInv, TypeOK, Linked
<1>4. \A x \in SwClosed : x \notin Range(rootgc)
  BY <1>2, SweepParts
<1>5. CASE SwObj \in SwDead
  <2>1. PICK r : r = RemoveAt(rootgc, Position)
    OBVIOUS
  <2>2. r \in Seq(Obj) /\ IsInjective(r) /\ Range(r) = Range(rootgc) \ {SwObj}
    BY <1>3, <2>1, RemoveHas DEF SwObj
  <2>3. rootgc' = q \o r
    BY <1>1, <1>5, <2>1
  <2>4. Range(q) \cap Range(r) = {}
    BY <1>1, <1>4, <2>2
  <2>5. q \o r \in Seq(Obj) /\ Range(q \o r) = Range(q) \cup Range(r) /\ IsInjective(q \o r)
    BY <1>1, <2>2, <2>4, JoinIs
  <2>6. QED
    BY <1>1, <1>5, <2>2, <2>3, <2>5
<1>6. CASE SwObj \notin SwDead
  <2>1. SwClosed = {}
    BY <1>6 DEF SwClosed
  <2>2. q = <<>>
    <3>1. \A i \in 1..Len(q) : q[i] \in Range(q)
      BY <1>1, RangeHas
    <3>2. Len(q) \in Nat /\ ~(1 \in 1..Len(q))
      BY <1>1, <2>1, <3>1
    <3>3. Len(q) = 0
      BY <3>2
    <3>4. QED
      BY <1>1, <3>3
  <2>3. rootgc' = rootgc
    BY <1>1, <1>3, <1>6, <2>2
  <2>4. QED
    BY <1>3, <1>6, <2>1, <2>3
<1> QED
  BY <1>5, <1>6

\* Upvalues: those of a thread that is freed are freed or closed.
LEMMA SweptOpen ==
  ASSUME IInv, sweeplist, NEW u \in Obj, at'[u] # <<>>
  PROVE  /\ at'[u] = at[u] /\ at[u] # <<>> /\ u \notin SwDead /\ u \notin SwClosed /\ Is(u, "upval")
         /\ at[u][1] \in OfKind("thread") /\ at[u][1] \in Obj /\ at[u][1] \notin SwDead /\ at[u][2] \in Slots(at[u][1])
         /\ colour[u] \notin {"free", "black"} /\ colour[at[u][1]] # "free"
<1>1. SweptHeap /\ gcstate = "sweep"
  BY SweptHeapIs, SweptFrame
<1>2. u \notin SwDead /\ u \notin SwClosed /\ at'[u] = at[u] /\ at[u] # <<>>
  BY <1>1 DEF SweptHeap
<1>3. Is(u, "upval") /\ colour[u] \notin {"free", "black"} /\ colour[at[u][1]] # "free"
  BY <1>2 DEF IInv, OpenFit, Open
<1>4. PICK th \in OfKind("thread") : \E l \in Slots(th) : at[u] = <<th, l>>
  BY <1>2 DEF IInv, TypeOK
<1>5. at[u][1] = th /\ at[u][2] \in Slots(th) /\ th \in Obj /\ Is(th, "thread") /\ ~Is(th, "upval")
  BY <1>4 DEF OfKind, Is
<1>6. th \notin SwDead
  <2>1. SUFFICES ASSUME th \in SwDead PROVE FALSE
    OBVIOUS
  <2>2. th = SwObj
    BY <1>1, <1>5, <2>1, SweepParts
  <2>3. u \in SwDead \/ u \in SwClosed
    BY <1>1, <1>2, <1>5, <2>1, <2>2, SweepParts
  <2>4. QED
    BY <1>2, <2>3
<1> QED
  BY <1>2, <1>3, <1>5, <1>6

\* Fields, slots, open upvalues and colours fit.
LEMMA SweptHeapFits ==
  ASSUME IInv, sweeplist
  PROVE  FieldsFit' /\ SlotsFit' /\ OpenFit' /\ Coloured'
<1>1. SweptHeap /\ gcstate = "sweep" /\ shape' = shape /\ Obj' = Obj /\ Obj0' = Obj0 /\ Plain' = Plain
      /\ (\A k : OfKind(k)' = OfKind(k)) /\ arg' = 0
      /\ (\A th : Slots(th)' = Slots(th)) /\ (\A o : \A k : Is(o, k)' = Is(o, k))
  BY SweptHeapIs, SweptFrame
<1>2. 0 \in Plain /\ 0 \in OfKind("table") \cup {0} /\ 0 \notin Obj
  BY ShapeIs DEF IInv, Plain, Obj0, OfKind
<1>3. FieldsFit'
  <2> SUFFICES ASSUME NEW o \in Obj
               PROVE  \/ ref'[o] = ref[o] /\ at'[o] = at[o] /\ (colour'[o] = "free" <=> colour[o] = "free")
                      \/ ObjFits(o)'
    BY <1>1, FieldsOp
  <2>1. CASE o \in SwDead
    <3>1. colour'[o] = "free" /\ ref'[o] = Nothing /\ at'[o] = <<>>
      BY <1>1, <2>1 DEF SweptHeap
    <3>2. ref'[o].key = 0 /\ ref'[o].val = 0 /\ ref'[o].meta = 0
      BY <3>1 DEF Nothing
    <3>3. ObjFits(o)'
      BY <1>1, <1>2, <3>1, <3>2 DEF ObjFits, Nothing
    <3>4. QED
      BY <3>3
  <2>2. CASE o \in SwClosed
    <3>1. colour'[o] = currentwhite /\ ref'[o] = Fields(0, ValueOf(o), 0) /\ at'[o] = <<>>
      BY <1>1, <2>2 DEF SweptHeap
    <3>2. ref'[o].key = 0 /\ ref'[o].val = ValueOf(o) /\ ref'[o].meta = 0
      BY <3>1 DEF Fields
    <3>3. Is(o, "upval") /\ currentwhite # "free"
      BY <1>1, <2>2, SweepParts DEF IInv, TypeOK, Whites
    <3>4. ~Is(o, "lclosure") /\ ~Is(o, "udata") /\ ~Is(o, "thread") /\ ~Is(o, "string") /\ ~Is(o, "table")
      BY <3>3 DEF Is
    <3>5. ValueOf(o) \in Plain
      BY <3>3, ValueIs DEF IInv
    <3>6. ObjFits(o)'
      BY <1>1, <1>2, <3>1, <3>2, <3>3, <3>4, <3>5 DEF ObjFits, Open
    <3>7. QED
      BY <3>6
  <2>3. CASE o \notin SwDead /\ o \notin SwClosed
    <3>1. ref'[o] = ref[o] /\ at'[o] = at[o]
      BY <1>1, <2>3 DEF SweptHeap
    <3>2. colour'[o] = "free" <=> colour[o] = "free"
      BY <2>3, SweptColours
    <3>3. QED
      BY <3>1, <3>2
  <2>4. QED
    BY <2>1, <2>2, <2>3
<1>4. SlotsFit'
  <2>1. ASSUME NEW th \in OfKind("thread"), NEW s \in Slots(th)
        PROVE  stack'[th][s] \in Plain /\ (colour'[th] = "free" => stack'[th][s] = 0)
    <3>1. CASE th \in SwDead
      BY <1>2, <3>1, SweptStack
    <3>2. CASE th \notin SwDead
      <4>1. stack'[th] = stack[th] /\ th \in Obj
        BY <3>2, SweptStack DEF OfKind
      <4>2. colour'[th] = "free" => colour[th] = "free"
        BY <3>2, <4>1, SweptColours
      <4>3. stack[th][s] \in Plain /\ (colour[th] = "free" => stack[th][s] = 0)
        BY DEF IInv, SlotsFit
      <4>4. QED
        BY <4>1, <4>2, <4>3
    <3>3. QED
      BY <3>1, <3>2
  <2>2. QED
    BY <1>1, <2>1 DEF SlotsFit
<1>5. OpenFit'
  <2>1. \A u \in Obj : at'[u] \in {at[u], <<>>} \/ Opened(u)
    BY SweptOpen
  <2>2. ASSUME NEW u \in Obj, at'[u] # <<>>
        PROVE  colour'[u] \notin {"free", "black"} /\ colour'[at[u][1]] # "free"
    <3>1. /\ u \notin SwDead /\ at[u][1] \in Obj /\ at[u][1] \notin SwDead
          /\ colour[u] \notin {"free", "black"} /\ colour[at[u][1]] # "free"
      BY <2>2, SweptOpen
    <3>2. colour'[u] \notin {"free", "black"}
      BY <3>1, SweptColours
    <3>3. colour'[at[u][1]] # "free"
      BY <3>1, SweptColours
    <3>4. QED
      BY <3>2, <3>3
  <2>3. QED
    BY <1>1, <2>1, <2>2, OpenOp
<1>6. Coloured'
  <2> SUFFICES ASSUME NEW o \in Obj
               PROVE  /\ Is(o, "thread") => colour'[o] # "black"
                      /\ Is(o, "udata") => colour'[o] # "gray"
                      /\ Is(o, "upval") /\ colour'[o] = "gray" => at'[o] # <<>>
    BY <1>1 DEF Coloured, Open
  <2>1. colour'[o] \in {"gray", "black"} => colour[o] = colour'[o]
    BY SweptColours
  <2>2. /\ Is(o, "thread") => colour[o] # "black"
        /\ Is(o, "udata") => colour[o] # "gray"
        /\ Is(o, "upval") /\ colour[o] = "gray" => at[o] # <<>>
    BY DEF IInv, Coloured, Open
  <2>3. colour'[o] = "gray" => at'[o] = at[o]
    <3>1. currentwhite # "gray"
      BY DEF IInv, TypeOK, Whites
    <3>2. QED
      BY <1>1, <3>1 DEF SweptHeap
  <2>4. QED
    BY <2>1, <2>2, <2>3
<1> QED
  BY <1>3, <1>4, <1>5, <1>6

\* Types.
LEMMA SweptType ==
  ASSUME IInv, sweeplist
  PROVE  TypeOK'
<1>1. SweptHeap /\ SweepHeap
  BY SweptHeapIs, SweepDoes
<1>2. colour' \in [Obj -> Colours]
  <2>1. \A x \in Obj : colour'[x] \in Colours
    BY SweptColours
  <2>2. colour' = [x \in Obj |-> colour'[x]]
    BY <1>1 DEF SweepHeap
  <2>3. QED
    BY <2>1, <2>2
<1>3. ref' \in [Obj -> [key : Obj0, val : Obj0, meta : Obj0]]
  <2>1. ASSUME NEW x \in Obj PROVE ref'[x] \in [key : Obj0, val : Obj0, meta : Obj0]
    <3>1. CASE x \in SwDead
      <4>1. ref'[x] = Nothing
        BY <1>1, <3>1 DEF SweptHeap
      <4>2. QED
        BY <4>1 DEF Nothing, Obj0
    <3>2. CASE x \in SwClosed
      <4>1. ref'[x] = Fields(0, ValueOf(x), 0)
        BY <1>1, <3>2 DEF SweptHeap
      <4>2. Is(x, "upval")
        BY <3>2, SweptFrame, SweepParts
      <4>3. ValueOf(x) \in Obj0
        BY <4>2, ValueIs DEF IInv
      <4>4. QED
        BY <4>1, <4>3 DEF Fields, Obj0
    <3>3. CASE x \notin SwDead /\ x \notin SwClosed
      BY <1>1, <3>3, RefIs DEF SweptHeap, IInv
    <3>4. QED
      BY <3>1, <3>2, <3>3
  <2>2. ref' = [x \in Obj |-> ref'[x]]
    BY <1>1 DEF SweepHeap
  <2>3. QED
    BY <2>1, <2>2
<1>4. DOMAIN at' = Obj
  BY <1>1 DEF SweepHeap
<1>5. \A o \in Obj : at'[o] = <<>> \/ \E th \in OfKind("thread") : \E l \in Slots(th) : at'[o] = <<th, l>>
  <2>1. \A o \in Obj : at'[o] # <<>> => at'[o] = at[o]
    BY SweptOpen
  <2>2. \A o \in Obj : at[o] = <<>> \/ \E th \in OfKind("thread") : \E l \in Slots(th) : at[o] = <<th, l>>
    BY DEF IInv, TypeOK
  <2>3. QED
    BY <2>1, <2>2
<1>6. DOMAIN stack' = OfKind("thread") /\ \A th \in OfKind("thread") : stack'[th] \in [Slots(th) -> Obj0]
  BY SweptStack
<1>7. rootgc' \in Seq(Obj)
  BY SweptRoot
<1>8. gcstate' \in States /\ sweepgc' \in Obj0 /\ arg' \in Obj0
  <2>1. SwObj \in Obj
    BY SweptFrame, SweepPosition
  <2>2. QED
    BY <2>1, SweptFrame DEF States, Obj0, IInv, TypeOK
<1>9. TypeOK
  BY DEF IInv
<1>10. /\ shape' = shape /\ running' = running /\ gray' = gray /\ grayagain' = grayagain
       /\ weak' = weak /\ sweepstrgc' = sweepstrgc /\ currentwhite' = currentwhite /\ stage' = stage
       /\ tmudata' = tmudata /\ finalized' = finalized /\ full' = full /\ called' = called
       /\ Obj' = Obj /\ Obj0' = Obj0 /\ (\A k : OfKind(k)' = OfKind(k)) /\ (\A th : Slots(th)' = Slots(th))
  BY SweptFrame
<1> QED
  BY <1>2, <1>3, <1>4, <1>5, <1>6, <1>7, <1>8, <1>9, <1>10 DEF TypeOK

\* Every object is linked where it should be.
LEMMA SweptLinked ==
  ASSUME IInv, sweeplist
  PROVE  Linked'
<1>1. SweptHeap /\ gcstate = "sweep" /\ tmudata' = tmudata /\ Obj' = Obj /\ (\A o : \A k : Is(o, k)' = Is(o, k))
  BY SweptHeapIs, SweptFrame
<1>2. /\ rootgc' \in Seq(Obj) /\ IsInjective(rootgc')
      /\ Range(rootgc') = SwClosed \cup (IF SwObj \in SwDead THEN Range(rootgc) \ {SwObj} ELSE Range(rootgc))
  BY SweptRoot
<1>3. /\ IsInjective(tmudata)
      /\ \A o \in Range(rootgc) : colour[o] # "free" /\ ~Is(o, "string") /\ at[o] = <<>> /\ o \notin Range(tmudata)
      /\ \A o \in Range(tmudata) : colour[o] # "free" /\ Is(o, "udata")
      /\ \A o \in Obj : colour[o] # "free" =>
           Is(o, "string") \/ at[o] # <<>> \/ o \in Range(rootgc) \/ o \in Range(tmudata)
      /\ Range(rootgc) \subseteq Obj /\ Range(tmudata) \subseteq Obj
  BY RangeHas DEF IInv, Linked, Open, TypeOK
<1>4. /\ \A x \in SwDead : (x = SwObj \/ (Is(x, "upval") /\ x \notin Range(rootgc))) /\ x \notin Range(tmudata)
      /\ \A x \in SwClosed : Is(x, "upval") /\ colour[x] # "free" /\ x \notin Range(tmudata) /\ x \in Obj
      /\ SwClosed \cap SwDead = {}
  BY <1>1, SweepParts
<1>5. ASSUME NEW o \in Range(rootgc')
      PROVE  colour'[o] # "free" /\ ~Is(o, "string") /\ at'[o] = <<>> /\ o \notin Range(tmudata)
  <2>1. CASE o \in SwClosed
    <3>1. colour'[o] = currentwhite /\ at'[o] = <<>>
      BY <1>1, <1>4, <2>1 DEF SweptHeap
    <3>2. currentwhite # "free" /\ ~Is(o, "string")
      BY <1>4, <2>1 DEF Is, IInv, TypeOK, Whites
    <3>3. QED
      BY <1>4, <2>1, <3>1, <3>2
  <2>2. CASE o \notin SwClosed
    <3>1. o \in Range(rootgc) /\ (SwObj \in SwDead => o # SwObj)
      BY <1>2, <2>2
    <3>2. o \notin SwDead
      BY <1>4, <3>1
    <3>3. o \in Obj /\ at[o] = <<>>
      BY <1>3, <3>1
    <3>4. at'[o] = <<>>
      BY <3>3, SweptOpen
    <3>5. colour'[o] # "free"
      BY <1>3, <3>1, <3>2, <3>3, SweptColours
    <3>6. QED
      BY <1>3, <3>1, <3>4, <3>5
  <2>3. QED
    BY <2>1, <2>2
<1>6. \A o \in Range(tmudata) : colour'[o] # "free"
  <2> TAKE o \in Range(tmudata)
  <2>1. o \notin SwDead /\ colour[o] # "free" /\ o \in Obj
    BY <1>3, <1>4
  <2>2. QED
    BY <2>1, SweptColours
<1>7. ASSUME NEW o \in Obj, colour'[o] # "free"
      PROVE  Is(o, "string") \/ at'[o] # <<>> \/ o \in Range(rootgc') \/ o \in Range(tmudata)
  <2>1. colour[o] # "free" /\ o \notin SwDead
    BY <1>7, SweptColours
  <2>2. CASE o \in SwClosed
    BY <1>2, <2>2
  <2>3. CASE o \notin SwClosed
    <3>1. at'[o] = at[o]
      BY <1>1, <2>1, <2>3 DEF SweptHeap
    <3>2. o \in Range(rootgc) => o \in Range(rootgc')
      BY <1>2, <2>1
    <3>3. QED
      BY <1>3, <2>1, <3>1, <3>2
  <2>4. QED
    BY <2>2, <2>3
<1> QED
  BY <1>1, <1>2, <1>3, <1>5, <1>6, <1>7 DEF Linked, Open

\* What is still alive refers to nothing that is dead or has been freed.
LEMMA SweptLiving ==
  ASSUME IInv, sweeplist
  PROVE  LivingRefs'
<1>1. /\ SweptHeap /\ gcstate = "sweep" /\ tmudata' = tmudata /\ Obj' = Obj /\ (\A o : \A k : Is(o, k)' = Is(o, k))
      /\ (\A th : Slots(th)' = Slots(th)) /\ currentwhite' = currentwhite /\ running' = running /\ arg' = arg
  BY SweptHeapIs, SweptFrame
<1>2. \A r \in Obj0 : Living(r) => Live(colour', currentwhite, r)
  <2>1. \A r \in Obj : Living(r) => Live(colour', currentwhite, r)
    BY SweptColours
  <2>2. QED
    BY <2>1 DEF Obj0, Live
<1>3. ASSUME NEW o \in Obj, Live(colour', currentwhite, o) PROVE RefsLive(o)'
  <2>1. Living(o)
    BY <1>3, SweptColours
  <2>2. RefsLive(o)
    BY <2>1 DEF IInv, LivingRefs, RefsLive
  <2>3. ref[o].meta \in Obj0 /\ ref[o].key \in Obj0 /\ ref[o].val \in Obj0
    BY RefIs DEF IInv
  <2>4. o \notin SwDead
    <3>1. colour[o] # Other(currentwhite)
      BY <2>1, ShapeIs DEF Living, Live, IInv
    <3>2. QED
      BY <1>1, <3>1 DEF SweptHeap
  <2>5. CASE o \in SwClosed
    <3>1. ref'[o] = Fields(0, ValueOf(o), 0) /\ at'[o] = <<>>
      BY <1>1, <2>5 DEF SweptHeap
    <3>2. ref'[o].key = 0 /\ ref'[o].val = ValueOf(o) /\ ref'[o].meta = 0
      BY <3>1 DEF Fields
    <3>3. Is(o, "upval")
      BY <1>1, <2>5, SweepParts
    <3>4. ~Is(o, "thread") /\ ~Is(o, "table")
      BY <3>3 DEF Is
    <3>5. Living(ValueOf(o)) /\ ValueOf(o) \in Obj0
      BY <2>2, <3>3, ValueIs DEF IInv, RefsLive
    <3>6. Live(colour', currentwhite, ValueOf(o))
      BY <1>2, <3>5
    <3>7. Live(colour', currentwhite, 0)
      BY DEF Live
    <3>8. ValueOf(o)' = ValueOf(o)
      <4>1. ValueOf(o)' = ref'[o].val
        BY <3>1 DEF ValueOf, Open
      <4>2. QED
        BY <3>2, <4>1
    <3>9. QED
      BY <1>1, <3>2, <3>3, <3>4, <3>6, <3>7, <3>8 DEF RefsLive, Living
  <2>6. CASE o \notin SwClosed
    <3>1. ref'[o] = ref[o] /\ at'[o] = at[o]
      BY <1>1, <2>4, <2>6 DEF SweptHeap
    <3>2. Live(colour', currentwhite, ref[o].meta)
      BY <1>2, <2>2, <2>3 DEF RefsLive
    <3>3. ~Is(o, "upval") /\ ~(Is(o, "table") /\ ref[o].val = 0) =>
            Live(colour', currentwhite, ref[o].key) /\ Live(colour', currentwhite, ref[o].val)
      BY <1>2, <2>2, <2>3 DEF RefsLive
    <3>4. Is(o, "upval") => Live(colour', currentwhite, ValueOf(o)')
      <4>1. SUFFICES ASSUME Is(o, "upval") PROVE Live(colour', currentwhite, ValueOf(o)')
        OBVIOUS
      <4>2. Living(ValueOf(o)) /\ ValueOf(o) \in Obj0
        BY <2>2, <4>1, ValueIs DEF IInv, RefsLive
      <4>3. ValueOf(o)' = ValueOf(o)
        <5>1. CASE at[o] = <<>>
          BY <3>1, <5>1 DEF ValueOf, Open
        <5>2. CASE at[o] # <<>>
          <6>1. at'[o] # <<>>
            BY <3>1, <5>2
          <6>2. at[o][1] \in OfKind("thread") /\ at[o][1] \notin SwDead
            BY <6>1, SweptOpen
          <6>3. stack'[at[o][1]] = stack[at[o][1]]
            BY <6>2, SweptStack
          <6>4. QED
            BY <3>1, <5>2, <6>3 DEF ValueOf, Open
        <5>3. QED
          BY <5>1, <5>2
      <4>4. QED
        BY <1>2, <4>2, <4>3
    <3>5. Is(o, "thread") => \A s \in Slots(o) : Live(colour', currentwhite, stack'[o][s])
      <4>1. SUFFICES ASSUME Is(o, "thread"), NEW s \in Slots(o) PROVE Live(colour', currentwhite, stack'[o][s])
        OBVIOUS
      <4>2. o \in OfKind("thread")
        BY <4>1 DEF OfKind
      <4>3. stack'[o] = stack[o] /\ stack[o][s] \in Obj0 /\ Living(stack[o][s])
        BY <2>2, <2>4, <4>1, <4>2, SweptStack, StackIs DEF IInv, RefsLive
      <4>4. QED
        BY <1>2, <4>3
    <3>6. QED
      BY <1>1, <3>1, <3>2, <3>3, <3>4, <3>5 DEF RefsLive, Living
  <2>7. QED
    BY <2>5, <2>6
<1>4. /\ Live(colour', currentwhite, Main) /\ Live(colour', currentwhite, Globals)
      /\ Live(colour', currentwhite, running) /\ Live(colour', currentwhite, arg)
  <2>1. Main \in Obj0 /\ Globals \in Obj0 /\ running \in Obj0 /\ arg \in Obj0
    BY ShapeIs, RunningIs DEF IInv, TypeOK, Obj0
  <2>2. QED
    BY <1>2, <2>1 DEF IInv, LivingRefs
<1>5. \A o \in Range(tmudata) : Live(colour', currentwhite, o)
  BY <1>2, RangeHas DEF IInv, LivingRefs, TypeOK, Obj0
<1> QED
  BY <1>1, <1>3, <1>4, <1>5 DEF LivingRefs, RefsLive, Living, Main, Globals

\* What lies before the sweep is clean.
CleanNow(x) ==
  /\ colour'[x] \in {"free", currentwhite}
  /\ Is(x, "thread") => \A u \in Obj : at'[u] # <<>> /\ at'[u][1] = x => colour'[u] \in {"free", currentwhite}
\* An object that is clean, with its upvalues.
LEMMA CleanStays ==
  ASSUME IInv, sweeplist, NEW x \in Obj, IsClean(x), Is(x, "thread") => SweptThread(x)
  PROVE  CleanNow(x)
<1>1. colour'[x] \in {"free", currentwhite}
  BY SweptColours
<1>2. ASSUME Is(x, "thread"), NEW u \in Obj, at'[u] # <<>>, at'[u][1] = x
      PROVE  colour'[u] \in {"free", currentwhite}
  <2>1. at[u] = at'[u]
    BY <1>2, SweptOpen
  <2>2. IsClean(u)
    BY <1>2, <2>1 DEF SweptThread, Open
  <2>3. QED
    BY <2>2, SweptColours
<1> QED
  BY <1>1, <1>2 DEF CleanNow

\* What has been removed leaves the order of the others.
LEMMA RemoveBefore ==
  ASSUME NEW T, NEW q \in Seq(T), NEW p \in 1..Len(q), NEW r, r = RemoveAt(q, p)
  PROVE  r \in Seq(T) /\ \A y, z : Before(r, y, z) => Before(q, y, z)
<1>1. /\ r \in Seq(T) /\ Len(r) = Len(q) - 1 /\ Len(q) \in Nat
      /\ \A i \in 1..(Len(q) - 1) : r[i] = IF i < p THEN q[i] ELSE q[i + 1]
  BY RemoveIs
<1>2. ASSUME NEW y, NEW z, Before(r, y, z) PROVE Before(q, y, z)
  <2>1. PICK i, j \in 1..Len(r) : i <= j /\ r[i] = z /\ r[j] = y
    BY <1>2 DEF Before
  <2>2. PICK k : k = IF i < p THEN i ELSE i + 1
    OBVIOUS
  <2>3. PICK l : l = IF j < p THEN j ELSE j + 1
    OBVIOUS
  <2>4. k \in 1..Len(q) /\ l \in 1..Len(q) /\ k <= l
    BY <1>1, <2>1, <2>2, <2>3
  <2>5. q[k] = z
    BY <1>1, <2>1, <2>2
  <2>6. q[l] = y
    BY <1>1, <2>1, <2>3
  <2>7. QED
    BY <2>4, <2>5, <2>6 DEF Before
<1> QED
  BY <1>1, <1>2

\* All that lies before the sweep is clean.
LEMMA SweptClean ==
  ASSUME IInv, sweeplist, NEW x \in Obj, Before(rootgc', sweepgc', x)
  PROVE  CleanNow(x)
<1>1. SweptHeap /\ gcstate = "sweep" /\ sweepgc' = (IF SwObj \in SwDead THEN sweepgc ELSE SwObj)
  BY SweptHeapIs, SweptFrame
<1>2. \A y \in Obj : Before(rootgc, sweepgc, y) => CleanNow(y)
  BY <1>1, CleanStays DEF IInv, Sweep
<1>3. rootgc \in Seq(Obj) /\ IsInjective(rootgc) /\ Position \in 1..Len(rootgc) /\ Len(rootgc) \in Nat
      /\ SwObj = rootgc[Position] /\ DOMAIN rootgc = 1..Len(rootgc)
  BY <1>1, SweepPosition, RangeHas DEF IInv, TypeOK, Linked, SwObj
<1>4. CASE SwObj \notin SwDead
  <2>1. rootgc' = rootgc /\ sweepgc' = SwObj
    BY <1>1, <1>4, SweptRoot
  <2>2. PICK i, j \in 1..Len(rootgc) : i <= j /\ rootgc[i] = x /\ rootgc[j] = SwObj
    BY <2>1 DEF Before
  <2>3. j = Position
    BY <1>3, <2>2 DEF IsInjective
  <2>4. CASE i = Position
    <3>1. x = SwObj /\ x \in SwAll
      BY <1>3, <2>2, <2>4 DEF SwAll
    <3>2. colour'[x] = currentwhite
      BY <1>1, <1>4, <3>1 DEF SweptHeap
    <3>3. ASSUME Is(x, "thread"), NEW u \in Obj, at'[u] # <<>>, at'[u][1] = x
          PROVE  colour'[u] = currentwhite
      <4>1. at[u] = at'[u] /\ u \notin SwDead
        BY <3>3, SweptOpen
      <4>2. u \in Range(SwUpvals)
        BY <1>1, <3>1, <3>3, <4>1, SweptAre
      <4>3. u \in SwAll
        BY <4>2 DEF SwAll
      <4>4. QED
        BY <1>1, <4>1, <4>3 DEF SweptHeap
    <3>4. QED
      BY <3>2, <3>3 DEF CleanNow
  <2>5. CASE i < Position
    <3>1. Before(rootgc, sweepgc, x)
      BY <1>1, <2>2, <2>5, SweepPosition
    <3>2. QED
      BY <1>2, <3>1
  <2>6. QED
    BY <1>3, <2>2, <2>3, <2>4, <2>5
<1>5. CASE SwObj \in SwDead
  <2>1. sweepgc' = sweepgc
    BY <1>1, <1>5
  <2>2. CASE x \in SwClosed
    <3>1. colour'[x] = currentwhite /\ ~Is(x, "thread")
      BY <1>1, <2>2, SweepParts DEF SweptHeap, Is
    <3>2. QED
      BY <3>1 DEF CleanNow
  <2>3. CASE x \notin SwClosed
    <3>1. PICK q \in Seq(Obj) : /\ IsInjective(q) /\ Range(q) = SwClosed
                                /\ rootgc' = q \o (IF SwObj \in SwDead THEN RemoveAt(rootgc, Position) ELSE rootgc)
      BY SweepDoes DEF SweepRoot
    <3>2. PICK r : r = RemoveAt(rootgc, Position)
      OBVIOUS
    <3>3. rootgc' = q \o r
      BY <1>5, <3>1, <3>2
    <3>4. r \in Seq(Obj) /\ \A y, z : Before(r, y, z) => Before(rootgc, y, z)
      BY <1>3, <3>2, RemoveBefore
    <3>5. /\ Len(q \o r) = Len(q) + Len(r) /\ Len(q) \in Nat /\ Len(r) \in Nat
          /\ \A i \in 1..Len(q) : (q \o r)[i] = q[i]
          /\ \A i \in 1..Len(r) : (q \o r)[Len(q) + i] = r[i]
          /\ \A i \in 1..Len(q \o r) : i \in 1..Len(q) \/ i - Len(q) \in 1..Len(r)
      BY <3>1, <3>4, JoinIs
    <3>6. PICK i, j \in 1..Len(q \o r) : i <= j /\ (q \o r)[i] = x /\ (q \o r)[j] = sweepgc
      BY <2>1, <3>3 DEF Before
    <3>7. \A k \in 1..Len(q) : q[k] \in SwClosed
      BY <3>1, RangeHas
    <3>8. i \notin 1..Len(q)
      BY <2>3, <3>5, <3>6, <3>7
    <3>9. j \notin 1..Len(q)
      BY <3>5, <3>6, <3>8
    <3>10. PICK a \in 1..Len(r) : a = i - Len(q)
      BY <3>5, <3>8
    <3>11. PICK b \in 1..Len(r) : b = j - Len(q)
      BY <3>5, <3>9
    <3>12. i = Len(q) + a /\ j = Len(q) + b /\ a <= b
      BY <3>5, <3>6, <3>10, <3>11
    <3>13. r[a] = x /\ r[b] = sweepgc
      BY <3>5, <3>6, <3>12
    <3>14. Before(rootgc, sweepgc, x)
      <4>1. Before(r, sweepgc, x)
        BY <3>12, <3>13 DEF Before
      <4>2. QED
        BY <3>4, <4>1
    <3>15. QED
      BY <1>2, <3>14
  <2>4. QED
    BY <2>2, <2>3
<1> QED
  BY <1>4, <1>5

\* Nothing of the list is left when the sweep has come to its end.
LEMMA SweptLast ==
  ASSUME IInv, sweeplist
  PROVE  /\ rootgc' \in Seq(Obj) /\ Len(rootgc') \in Nat /\ Len(rootgc') \in 1..Len(rootgc')
         /\ Last(rootgc') = rootgc'[Len(rootgc')]
         /\ sweepgc' # 0 => sweepgc' \in Range(rootgc')
         /\ Last(rootgc') = sweepgc' => \A x \in Range(rootgc') : Before(rootgc', sweepgc', x)
<1>1. PICK rn : rn = rootgc'
  OBVIOUS
<1>2. rn \in Seq(Obj) /\ IsInjective(rn)
      /\ Range(rn) = SwClosed \cup (IF SwObj \in SwDead THEN Range(rootgc) \ {SwObj} ELSE Range(rootgc))
  BY <1>1, SweptRoot
<1>3. gcstate = "sweep" /\ sweepgc' = (IF SwObj \in SwDead THEN sweepgc ELSE SwObj)
  BY SweptFrame
<1>4. Main \in Range(rn)
  <2>1. Main \in Range(rootgc)
    BY MainLinked
  <2>2. SwObj \in SwDead => SwObj # Main
    <3>1. Living(Main) /\ Main \in Obj /\ Main # 0
      BY ShapeIs, MainIs DEF IInv
    <3>2. ~IsDead(Main)
      BY <3>1 DEF Living, Live, IsDead
    <3>3. QED
      BY <1>3, <3>2, SweepParts
  <2>3. QED
    BY <1>2, <2>1, <2>2
<1>5. Len(rn) \in Nat /\ \A x : x \in Range(rn) <=> \E i \in 1..Len(rn) : rn[i] = x
  BY <1>2, RangeHas
<1>6. Len(rn) \in 1..Len(rn)
  BY <1>4, <1>5
<1>7. Last(rn) = rn[Len(rn)]
  BY DEF Last
<1>8. sweepgc' # 0 => sweepgc' \in Range(rn)
  <2>1. CASE SwObj \in SwDead
    <3>1. sweepgc # 0 => sweepgc \in Range(rootgc) /\ sweepgc # SwObj
      BY <1>3, SweepPosition DEF IInv, Sweep
    <3>2. QED
      BY <1>2, <1>3, <2>1, <3>1
  <2>2. CASE SwObj \notin SwDead
    BY <1>2, <1>3, <2>2, SweepPosition
  <2>3. QED
    BY <2>1, <2>2
<1>9. ASSUME Last(rn) = sweepgc', NEW x \in Range(rn) PROVE Before(rn, sweepgc', x)
  <2>1. PICK i \in 1..Len(rn) : rn[i] = x
    BY <1>5
  <2>2. i <= Len(rn)
    BY <1>5
  <2>3. QED
    BY <1>6, <1>7, <1>9, <2>1, <2>2 DEF Before
<1> QED
  BY <1>1, <1>2, <1>5, <1>6, <1>7, <1>8, <1>9

\* When the sweep ends, everything is clean.
LEMMA SweptPhases ==
  ASSUME IInv, sweeplist
  PROVE  Phases' /\ SweepString' /\ Sweep'
<1>1. /\ gcstate = "sweep" /\ tmudata' = tmudata /\ Obj' = Obj /\ (\A o : \A k : Is(o, k)' = Is(o, k))
      /\ currentwhite' = currentwhite /\ arg' = 0 /\ stage' = 0
      /\ gcstate' = (IF Last(rootgc') = sweepgc' THEN "finalize" ELSE "sweep")
  BY SweptFrame
<1>2. \A o \in Obj : Is(o, "string") => colour'[o] \in {"free", currentwhite}
  BY <1>1, SweptColours DEF IInv, Sweep
<1>3. \A o \in Range(tmudata) : o \in Obj /\ colour'[o] # Other(currentwhite)
  BY SweptColours, RangeHas DEF IInv, TypeOK, Phases
<1>4. ASSUME Last(rootgc') = sweepgc', NEW o \in Obj
      PROVE  o \in Range(tmudata) \/ colour'[o] \in {"free", currentwhite}
  <2>1. \A x \in Range(rootgc') : x \in Obj /\ CleanNow(x)
    <3> TAKE x \in Range(rootgc')
    <3>1. x \in Obj
      <4>1. PICK rn : rn = rootgc'
        OBVIOUS
      <4>2. rn \in Seq(Obj)
        BY <4>1, SweptLast
      <4>3. QED
        BY <4>1, <4>2, RangeHas
    <3>2. Before(rootgc', sweepgc', x)
      BY <1>4, SweptLast
    <3>3. QED
      BY <3>1, <3>2, SweptClean
  <2>2. CASE o \in Range(rootgc')
    BY <2>1, <2>2 DEF CleanNow
  <2>3. CASE Is(o, "string")
    BY <1>2, <2>3
  <2>4. CASE at'[o] # <<>>
    <3>1. PICK th : th = at[o][1]
      OBVIOUS
    <3>2. at'[o] = at[o] /\ th \in OfKind("thread") /\ th \in Obj /\ th \notin SwDead /\ colour[th] # "free"
      BY <2>4, <3>1, SweptOpen
    <3>3. Is(th, "thread") /\ ~Is(th, "string") /\ ~Is(th, "udata") /\ ~Is(th, "upval")
      BY <3>2 DEF OfKind, Is
    <3>4. colour'[th] # "free" /\ at'[th] = <<>>
      <4>1. colour'[th] # "free"
        BY <3>2, SweptColours
      <4>2. at'[th] = <<>>
        BY <3>2, <3>3, SweptOpen
      <4>3. QED
        BY <4>1, <4>2
    <3>5. th \in Range(rootgc')
      <4>1. Linked'
        BY SweptLinked
      <4>2. \A y \in Range(tmudata) : Is(y, "udata")
        BY DEF IInv, Linked
      <4>3. QED
        BY <1>1, <3>2, <3>3, <3>4, <4>1, <4>2 DEF Linked, Open
    <3>6. QED
      BY <2>1, <2>4, <3>1, <3>2, <3>3, <3>5 DEF CleanNow
  <2>5. CASE colour'[o] = "free"
    BY <2>5
  <2>6. QED
    <3>1. Linked'
      BY SweptLinked
    <3>2. colour'[o] # "free" => Is(o, "string") \/ at'[o] # <<>> \/ o \in Range(rootgc') \/ o \in Range(tmudata)
      BY <1>1, <3>1 DEF Linked, Open
    <3>3. QED
      BY <2>2, <2>3, <2>4, <2>5, <3>2
<1>5. Phases'
  <2>1. gcstate' = "finalize" => \A o \in Obj : colour'[o] # Other(currentwhite)
    <3>1. currentwhite # Other(currentwhite) /\ Other(currentwhite) # "free"
      BY DEF IInv, TypeOK, Whites, Other
    <3>2. QED
      BY <1>1, <1>3, <1>4, <3>1
  <2>2. QED
    BY <1>1, <1>3, <1>4, <2>1 DEF Phases, IsDead, IsClean
<1>6. SweepString'
  BY <1>1 DEF SweepString
<1>7. Sweep'
  <2>1. ASSUME gcstate' = "sweep", sweepgc' # 0
        PROVE  sweepgc' \in Range(rootgc') /\ sweepgc' # rootgc'[Len(rootgc')]
    BY <1>1, <2>1, SweptLast
  <2>2. ASSUME NEW o \in Obj, Before(rootgc', sweepgc', o)
        PROVE  IsClean(o)' /\ (Is(o, "thread") => SweptThread(o)')
    <3>1. CleanNow(o)
      BY <2>2, SweptClean
    <3>2. QED
      BY <1>1, <3>1 DEF CleanNow, IsClean, SweptThread, Open
  <2>3. \A o \in Obj : Is(o, "string") => IsClean(o)'
    BY <1>1, <1>2 DEF IsClean
  <2>4. \A o : Before(rootgc, sweepgc, o)' <=> Before(rootgc', sweepgc', o)
    BY DEF Before
  <2>5. QED
    BY <1>1, <2>1, <2>2, <2>3, <2>4 DEF Sweep
<1> QED
  BY <1>5, <1>6, <1>7

\* Sweeping an object of rootgc keeps the invariant.
LEMMA SweepListKeeps ==
  ASSUME IInv, sweeplist
  PROVE  IInv'
<1>1. TypeOK' /\ FieldsFit' /\ SlotsFit' /\ OpenFit' /\ Coloured' /\ Linked' /\ LivingRefs'
      /\ Phases' /\ SweepString' /\ Sweep'
  BY SweptType, SweptHeapFits, SweptLinked, SweptLiving, SweptPhases
<1>2. Marked'
  BY SweptFrame DEF Marked
<1>3. FinalizedOK'
  BY SweptFrame DEF IInv, FinalizedOK
<1> QED
  BY <1>1, <1>2, <1>3 DEF IInv

\* The invariant holds of the new state.
LEMMA InitOK ==
  ASSUME Init
  PROVE  IInv
<1>1. shape \in Shapes /\ colour = [o \in Obj |-> IF o \in {Main, Globals} THEN "white0" ELSE "free"]
      /\ ref = [o \in Obj |-> Nothing] /\ at = [o \in Obj |-> <<>>]
      /\ stack = [th \in OfKind("thread") |-> [s \in Slots(th) |-> 0]]
      /\ running = Main /\ arg = 0 /\ full = "no"
      /\ currentwhite = "white0" /\ gcstate = "pause" /\ stage = 0
      /\ gray = <<>> /\ grayagain = <<>> /\ weak = <<>> /\ tmudata = <<>>
      /\ rootgc = <<Globals, Main>> /\ sweepstrgc = 0 /\ sweepgc = 0
      /\ finalized = {} /\ called = {} /\ old = {}
  BY DEF Init
\* The shape, as ShapeIs has it.
<1>2. /\ Main \in Obj /\ Globals \in Obj /\ Main # Globals /\ Is(Main, "thread") /\ Is(Globals, "table") /\ 0 \notin Obj
  <2>1. /\ shape.kinds \in Seq(Kinds) /\ Len(shape.kinds) >= 2
        /\ shape.kinds[1] = "thread" /\ shape.kinds[2] = "table"
    BY <1>1, ShapesAssumption
  <2>2. Len(shape.kinds) \in Nat
    BY <2>1
  <2>3. 1 \in 1..Len(shape.kinds) /\ 2 \in 1..Len(shape.kinds) /\ 0 \notin 1..Len(shape.kinds)
    BY <2>1, <2>2
  <2>4. QED
    BY <2>1, <2>3 DEF Obj, Main, Globals, Is
<1>3. /\ \A o \in Obj : /\ colour[o] \in {"white0", "free"} /\ ref[o] = Nothing /\ at[o] = <<>>
                        /\ colour[o] = "white0" <=> o \in {Main, Globals}
      /\ \A th \in OfKind("thread") : \A s \in Slots(th) : stack[th][s] = 0
      /\ Nothing.key = 0 /\ Nothing.val = 0 /\ Nothing.meta = 0
  BY <1>1 DEF Nothing
<1>4. rootgc \in Seq(Obj) /\ IsInjective(rootgc) /\ Range(rootgc) = {Main, Globals}
  <2>1. PICK q : q = <<Globals, Main>>
    OBVIOUS
  <2>2. q \in Seq(Obj)
    BY <1>2, <2>1
  <2>3. Len(q) = 2 /\ q[1] = Globals /\ q[2] = Main /\ DOMAIN q = 1..2
    BY <2>1
  <2>4. Range(q) = {Main, Globals}
    BY <2>3 DEF Range
  <2>5. IsInjective(q)
    BY <1>2, <2>3 DEF IsInjective
  <2>6. QED
    BY <1>1, <2>1, <2>2, <2>4, <2>5
<1>5. TypeOK
  <2>1. colour \in [Obj -> Colours]
    BY <1>1 DEF Colours, Whites
  <2>2. ref \in [Obj -> [key : Obj0, val : Obj0, meta : Obj0]]
    BY <1>1 DEF Nothing, Obj0
  <2>3. \A th \in OfKind("thread") : stack[th] \in [Slots(th) -> Obj0]
    BY <1>1 DEF Obj0
  <2>4. DOMAIN at = Obj /\ DOMAIN stack = OfKind("thread")
    BY <1>1
  <2>5. <<>> \in Seq(Obj) /\ running \in OfKind("thread") /\ 0 \in Obj0
    BY <1>1, <1>2 DEF OfKind, Obj0
  <2>6. QED
    BY <1>1, <1>3, <1>4, <2>1, <2>2, <2>3, <2>4, <2>5 DEF TypeOK, Whites, States
<1>6. FieldsFit
  <2>1. 0 \in Plain
    BY <1>2 DEF Plain, Obj0, OfKind
  <2>2. \A o \in Obj : ~(Is(o, "lclosure") /\ colour[o] # "free")
    BY <1>2, <1>3 DEF Is
  <2>3. QED
    BY <1>3, <2>1, <2>2 DEF FieldsFit
<1>7. SlotsFit
  <2>1. 0 \in Plain
    BY <1>2 DEF Plain, Obj0, OfKind
  <2>2. QED
    BY <1>1, <1>3, <2>1 DEF SlotsFit
<1>8. OpenFit
  BY <1>3 DEF OpenFit, Open
<1>9. Linked
  <2>1. \A o \in {Main, Globals} : o \in Obj /\ ~Is(o, "string")
    BY <1>2 DEF Is
  <2>2. QED
    BY <1>1, <1>3, <1>4, <2>1, EmptyRange DEF Linked, Open
<1>10. Coloured
  BY <1>3 DEF Coloured
<1>11. Phases
  BY <1>1, <1>3, EmptyRange DEF Phases, IsDead, IsClean, Other
<1>12. SweepString /\ Sweep /\ Marked
  BY <1>1 DEF SweepString, Sweep, Marked
<1>13. Living(0) /\ Living(Main) /\ Living(Globals) /\ \A o \in Obj : Living(o) => o \in {Main, Globals}
  BY <1>1, <1>2, <1>3 DEF Living, Live, Other
<1>14. LivingRefs
  <2>1. \A o \in {Main, Globals} : o \in Obj /\ ~Is(o, "upval")
    BY <1>2 DEF Is
  <2>2. \A o \in Obj : Is(o, "thread") => o \in OfKind("thread")
    BY DEF OfKind
  <2>3. QED
    BY <1>1, <1>3, <1>13, <2>1, <2>2, EmptyRange DEF LivingRefs
<1>15. FinalizedOK
  BY <1>1, EmptyRange DEF FinalizedOK
<1> QED
  BY <1>5, <1>6, <1>7, <1>8, <1>9, <1>10, <1>11, <1>12, <1>14, <1>15 DEF IInv

\* Nothing has changed.
LEMMA StutterKeeps ==
  ASSUME IInv, UNCHANGED vars
  PROVE  IInv'
<1>1. /\ HeapSame /\ UNCHANGED <<running, arg>> /\ stage' = stage /\ gcstate' = gcstate /\ full' = full
      /\ running' = running /\ arg' = arg
      /\ UNCHANGED <<gray, grayagain, weak, sweepstrgc, sweepgc, finalized, called>>
  BY DEF vars, HeapSame, program, lists, sweeping
<1>2. FieldsFit' /\ SlotsFit' /\ OpenFit' /\ Linked' /\ Coloured' /\ LivingRefs'
  BY <1>1, HeapKeeps
<1>3. TypeOK'
  BY <1>1, HeapIs DEF IInv, TypeOK
<1>4. Phases'
  BY <1>1, HeapIs DEF IInv, Phases, IsDead, IsClean
<1>5. SweepString'
  BY <1>1, HeapIs DEF IInv, SweepString, IsClean
<1>6. Sweep'
  BY <1>1, HeapIs DEF IInv, Sweep, IsClean, Before, SweptThread, Open
<1>7. Marked'
  BY <1>1, HeapIs DEF IInv, Marked, Marking, NW, FieldsMarked, GrayObjects, Atomic, StrongMarked, Mode, Open
<1>8. FinalizedOK'
  BY <1>1, HeapIs DEF IInv, FinalizedOK
<1> QED
  BY <1>2, <1>3, <1>4, <1>5, <1>6, <1>7, <1>8 DEF IInv

\* Every step keeps the invariant.
LEMMA NextKeeps ==
  ASSUME IInv, [Next]_vars
  PROVE  IInv'
<1>1. CASE Program
  BY <1>1, OperationKeeps, FullGCKeeps DEF Program
<1>2. CASE Collector
  BY <1>2, MarkrootKeeps, PropagateKeeps, RemarkUpvalsKeeps, RemarkWeakKeeps, RemarkGrayKeeps, SeparateUdataKeeps,
     ClearKeeps, SweepStringKeeps, SweepListKeeps, GCTMKeeps, EndCollectionKeeps DEF Collector, singlestep
<1>3. CASE UNCHANGED vars
  BY <1>3, StutterKeeps
<1> QED
  BY <1>1, <1>2, <1>3 DEF Next

\* In every heap, whatever program runs in it and wherever the collector steps in,
\* the inductive invariant holds.
THEOREM CollectorInvariant == Spec => []IInv
<1>1. Init => IInv
  BY InitOK
<1>2. IInv /\ [Next]_vars => IInv'
  BY NextKeeps
<1> QED
  BY <1>1, <1>2, PTL DEF Spec

\* GCTM never calls the finalizer of a userdata twice: what waits in tmudata has
\* not been finalized.
THEOREM FinalizedOnceHolds == Spec => FinalizedOnce
<1>1. ASSUME IInv, Next, arg' \notin {0, arg} PROVE arg' \notin called
  <2>1. CASE Program
    <3>1. arg' \in {0, arg}
      <4>1. CASE FullGC
        BY <4>1 DEF FullGC, program
      <4>2. CASE Operation
        BY <4>2 DEF Operation, New, NewUdata, NewCclosure, luaS_newlstr, NewLclosure, Load, SetEntry, SetUpvalue, Xmove,
           SetMetatable, Leave, Resume, Yield, Finalized, program
      <4>3. QED
        BY <2>1, <4>1, <4>2 DEF Program
    <3>2. QED
      BY <1>1, <3>1
  <2>2. CASE GCTM
    <3>1. PICK u : u = Head(tmudata)
      OBVIOUS
    <3>2. tmudata # <<>> /\ arg' \in {u, 0}
      BY <2>2, <3>1 DEF GCTM
    <3>3. tmudata \in Seq(Obj)
      BY <1>1 DEF IInv, TypeOK
    <3>4. u \in Range(tmudata)
      BY <3>1, <3>2, <3>3, TailIs
    <3>5. u \notin called
      BY <1>1, <3>4 DEF IInv, FinalizedOK
    <3>6. QED
      BY <1>1, <3>2, <3>5
  <2>3. CASE markroot \/ propagatemark \/ remarkupvals \/ RemarkWeak \/ RemarkGray \/ SeparateUdata \/ cleartable
             \/ sweepstring \/ sweeplist \/ EndCollection
    <3>1. markroot \/ propagatemark \/ remarkupvals \/ RemarkWeak \/ RemarkGray => arg' = arg
      BY DEF markroot, propagatemark, remarkupvals, RemarkWeak, RemarkGray, NoFlip, program
    <3>2. SeparateUdata \/ cleartable \/ sweepstring \/ EndCollection => arg' = arg
      BY DEF SeparateUdata, cleartable, sweepstring, EndCollection, program
    <3>3. sweeplist => arg' = arg
      BY <1>1, SweptFrame
    <3>4. QED
      BY <1>1, <2>3, <3>1, <3>2, <3>3
  <2>4. QED
    BY <1>1, <2>1, <2>2, <2>3 DEF Next, Collector, singlestep
<1>2. IInv /\ [Next]_vars => (arg' \notin {0, arg} => arg' \notin called)
  BY <1>1 DEF vars, program
<1>3. [][IInv /\ [Next]_vars => (arg' \notin {0, arg} => arg' \notin called)]_vars
  BY <1>2, PTL
<1> QED
  BY <1>2, CollectorInvariant, PTL DEF Spec, FinalizedOnce

\* What can be reached is alive: the living objects are closed under references
\* and the roots are among them.
LEMMA ReachedLives ==
  ASSUME IInv, NEW o \in Reached
  PROVE  o \in Obj /\ Living(o)
<1>1. PICK S : S = {p \in Obj : Living(p)}
  OBVIOUS
<1>2. PICK os : os = Roots \cup Range(tmudata)
  OBVIOUS
<1>3. os \subseteq S
  <2>1. Range(tmudata) \subseteq Obj
    BY RangeHas DEF IInv, TypeOK
  <2>2. Main \in Obj /\ Globals \in Obj /\ running \in Obj /\ (arg # 0 => arg \in Obj)
    BY ShapeIs, RunningIs DEF IInv, TypeOK, Obj0
  <2>3. QED
    BY <1>1, <1>2, <2>1, <2>2 DEF IInv, LivingRefs, Roots
<1>4. ASSUME NEW p \in S PROVE Refs(p) \ {0} \subseteq S
  <2>1. p \in Obj /\ Living(p)
    BY <1>1
  <2>2. /\ Living(ref[p].meta)
        /\ ~Is(p, "upval") /\ ~(Is(p, "table") /\ ref[p].val = 0) => Living(ref[p].key) /\ Living(ref[p].val)
        /\ Is(p, "upval") => Living(ValueOf(p))
        /\ Is(p, "thread") => \A s \in Slots(p) : Living(stack[p][s])
    BY <2>1 DEF IInv, LivingRefs
  <2>3. ref[p].meta \in Obj0 /\ ref[p].key \in Obj0 /\ ref[p].val \in Obj0
    BY <2>1, RefIs DEF IInv
  <2>4. CASE Is(p, "thread")
    <3>1. Refs(p) = Range(stack[p])
      BY <2>4 DEF Refs, Is
    <3>2. p \in OfKind("thread")
      BY <2>1, <2>4 DEF OfKind
    <3>3. stack[p] \in [Slots(p) -> Obj0]
      BY <3>2 DEF IInv, TypeOK
    <3>4. \A v \in Range(stack[p]) : v \in Obj0 /\ Living(v)
      BY <2>2, <2>4, <3>3 DEF Range
    <3>5. QED
      BY <1>1, <3>1, <3>4 DEF Obj0
  <2>5. CASE Is(p, "upval")
    <3>1. Refs(p) = {ValueOf(p)}
      BY <2>5 DEF Refs, Is
    <3>2. ValueOf(p) \in Obj0
      BY <2>1, <2>5, ValueIs DEF IInv
    <3>3. QED
      BY <1>1, <2>2, <2>5, <3>1, <3>2 DEF Obj0
  <2>6. CASE Is(p, "table") /\ ref[p].val = 0
    <3>1. Refs(p) = {ref[p].meta}
      BY <2>6 DEF Refs, Is
    <3>2. QED
      BY <1>1, <2>2, <2>3, <3>1 DEF Obj0
  <2>7. CASE ~Is(p, "thread") /\ ~Is(p, "upval") /\ ~(Is(p, "table") /\ ref[p].val = 0)
    <3>1. Refs(p) = {ref[p].key, ref[p].val, ref[p].meta}
      BY <2>7 DEF Refs
    <3>2. QED
      BY <1>1, <2>2, <2>3, <2>7, <3>1 DEF Obj0
  <2>8. QED
    BY <2>4, <2>5, <2>6, <2>7
<1>5. PICK refs : refs = [p \in Obj |-> Refs(p) \ {0}]
  OBVIOUS
<1>6. AllRefs(Refs) = refs
  BY <1>5 DEF AllRefs
<1>7. o \in From(os, refs)
  BY <1>2, <1>6 DEF Reached
<1>8. /\ o \in Obj
      /\ \A s \in {s \in {os \cup more : more \in SUBSET (Obj \ os)} : \A p \in s : refs[p] \subseteq s} : o \in s
  BY <1>7 DEF From
<1>9. S \in {s \in {os \cup more : more \in SUBSET (Obj \ os)} : \A p \in s : refs[p] \subseteq s}
  <2>1. S = os \cup (S \ os) /\ S \ os \in SUBSET (Obj \ os) /\ S \subseteq Obj
    BY <1>1, <1>3
  <2>2. \A p \in S : refs[p] \subseteq S
    BY <1>4, <1>5, <2>1
  <2>3. S \in {os \cup more : more \in SUBSET (Obj \ os)}
    BY <2>1
  <2>4. QED
    BY <2>2, <2>3
<1>10. o \in S
  BY <1>8, <1>9
<1> QED
  BY <1>1, <1>10

\* No collection, whole or in steps, frees what the program can still reach, or the
\* thread an open upvalue leads into.
THEOREM NoDanglingHolds == Spec => []NoDangling
<1>1. ASSUME IInv PROVE NoDangling
  <2> SUFFICES ASSUME NEW o \in Reached
               PROVE  colour[o] # "free" /\ (Is(o, "upval") /\ Open(o) => colour[at[o][1]] # "free")
    BY DEF NoDangling
  <2>1. o \in Obj /\ Living(o)
    BY <1>1, ReachedLives
  <2>2. o # 0
    BY <1>1, <2>1, ShapeIs DEF IInv
  <2>3. colour[o] # "free"
    BY <2>1, <2>2 DEF Living, Live
  <2>4. Open(o) => colour[at[o][1]] # "free"
    BY <1>1, <2>1 DEF IInv, OpenFit
  <2>5. QED
    BY <2>3, <2>4
<1> QED
  BY <1>1, CollectorInvariant, PTL

\* The barriers keep black objects from referring to white ones.
THEOREM BlackNotToWhiteHolds == Spec => []BlackNotToWhite
<1>1. ASSUME IInv PROVE BlackNotToWhite
  <2> SUFFICES ASSUME gcstate = "propagate", NEW o \in Allocated \ Range(tmudata), colour[o] = "black",
                      NEW r \in StrongRefs(o) \ {0}
               PROVE  ~IsWhite(r)
    BY DEF BlackNotToWhite
  <2>1. o \in Obj
    BY DEF Allocated
  <2>2. NW(colour, ref[o].key) /\ NW(colour, ref[o].val) /\ NW(colour, ref[o].meta)
    BY <1>1, <2>1 DEF IInv, Marked, Marking, FieldsMarked
  <2>3. r \in {ref[o].key, ref[o].val, ref[o].meta}
    <3>1. CASE Is(o, "table")
      <4>1. r \in Range(Strong(o))
        BY <3>1 DEF StrongRefs
      <4>2. Strong(o) \in Seq({ref[o].key, ref[o].val, ref[o].meta})
        <5>1. PICK T : T = {ref[o].key, ref[o].val, ref[o].meta}
          OBVIOUS
        <5>2. PICK a : a = <<ref[o].meta>>
          OBVIOUS
        <5>3. PICK b : b = IF "v" \in Mode(o) THEN <<>> ELSE <<ref[o].val>>
          OBVIOUS
        <5>4. PICK c : c = IF "k" \in Mode(o) \/ ref[o].val = 0 THEN <<>> ELSE <<ref[o].key>>
          OBVIOUS
        <5>5. a \in Seq(T) /\ b \in Seq(T) /\ c \in Seq(T)
          <6>1. ref[o].meta \in T /\ ref[o].val \in T /\ ref[o].key \in T
            BY <5>1
          <6>2. a \in Seq(T)
            BY <5>2, <6>1
          <6>3. b \in Seq(T)
            BY <5>3, <6>1
          <6>4. c \in Seq(T)
            BY <5>4, <6>1
          <6>5. QED
            BY <6>2, <6>3, <6>4
        <5>6. a \o b \o c \in Seq(T)
          BY <5>5
        <5>7. Strong(o) = a \o b \o c
          BY <5>2, <5>3, <5>4 DEF Strong
        <5>8. QED
          BY <5>1, <5>6, <5>7
      <4>3. QED
        BY <4>1, <4>2, RangeHas
    <3>2. CASE Is(o, "upval")
      <4>1. ~Open(o)
        BY <1>1, <2>1 DEF IInv, OpenFit
      <4>2. StrongRefs(o) = {ref[o].val}
        BY <3>2, <4>1 DEF StrongRefs, Refs, ValueOf, Is
      <4>3. QED
        BY <4>2
    <3>3. CASE ~Is(o, "table") /\ ~Is(o, "upval")
      <4>1. ~Is(o, "thread")
        BY <1>1, <2>1 DEF IInv, Coloured
      <4>2. QED
        BY <3>3, <4>1 DEF StrongRefs, Refs
    <3>4. QED
      BY <3>1, <3>2, <3>3
  <2>4. QED
    BY <2>2, <2>3 DEF NW, IsWhite
<1> QED
  BY <1>1, CollectorInvariant, PTL

\* A list without duplicates is as long as the set of what it holds is large.
LEMMA InjectiveLength ==
  ASSUME NEW T, NEW q \in Seq(T), IsInjective(q)
  PROVE  Cardinality(Range(q)) = Len(q)
<1>1. Len(q) \in Nat /\ DOMAIN q = 1..Len(q)
  OBVIOUS
<1>2. IsFiniteSet(1..Len(q)) /\ Cardinality(1..Len(q)) = Len(q)
  BY <1>1, FS_Interval
<1>3. q \in [1..Len(q) -> Range(q)] /\ \A y \in Range(q) : \E i \in 1..Len(q) : q[i] = y
  BY <1>1 DEF Range
<1>4. q \in Bijection(1..Len(q), Range(q))
  BY <1>1, <1>3 DEF Bijection, Injection, Surjection, IsInjective
<1>5. ExistsBijection(1..Len(q), Range(q))
  BY <1>4 DEF ExistsBijection
<1> QED
  BY <1>2, <1>5, FS_Bijection

\* No gray object is lost or on two lists.
THEOREM OnOneListHolds == Spec => []OnOneList
<1>1. ASSUME IInv PROVE OnOneList
  <2> SUFFICES ASSUME gcstate = "propagate"
               PROVE  /\ Range(gray \o grayagain \o weak) = {o \in Obj : shape.kinds[o] \in Gathered /\ colour[o] = "gray"}
                      /\ Cardinality(Range(gray \o grayagain \o weak)) = Len(gray \o grayagain \o weak)
    BY DEF OnOneList
  <2>1. /\ IsInjective(gray) /\ IsInjective(grayagain) /\ IsInjective(weak)
        /\ Range(gray) \cap Range(grayagain) = {} /\ Range(gray) \cap Range(weak) = {}
        /\ Range(grayagain) \cap Range(weak) = {}
        /\ Range(gray) \cup Range(grayagain) \cup Range(weak) = GrayObjects(colour)
    BY <1>1 DEF IInv, Marked, Marking
  <2>2. gray \in Seq(Obj) /\ grayagain \in Seq(Obj) /\ weak \in Seq(Obj)
    BY <1>1 DEF IInv, TypeOK
  <2>3. PICK p : p = gray \o grayagain
    OBVIOUS
  <2>4. p \in Seq(Obj) /\ Range(p) = Range(gray) \cup Range(grayagain) /\ IsInjective(p)
    BY <2>1, <2>2, <2>3, JoinIs
  <2>5. PICK q : q = p \o weak
    OBVIOUS
  <2>6. q \in Seq(Obj) /\ Range(q) = Range(p) \cup Range(weak) /\ IsInjective(q)
    BY <2>1, <2>2, <2>4, <2>5, JoinIs
  <2>7. Cardinality(Range(q)) = Len(q)
    BY <2>6, InjectiveLength
  <2>8. Range(q) = GrayObjects(colour)
    BY <2>1, <2>4, <2>6
  <2>9. q = gray \o grayagain \o weak
    BY <2>3, <2>5
  <2>10. QED
    BY <2>7, <2>8, <2>9 DEF GrayObjects
<1> QED
  BY <1>1, CollectorInvariant, PTL
=============================================================================
