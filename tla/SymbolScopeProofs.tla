------------------------- MODULE SymbolScopeProofs -------------------------
(***************************************************************************)
(* Proofs about SymbolScope, for every source file and every bound: the    *)
(* chain of a name holds exactly the existing symbols with that name; and, *)
(* for files without a function in a function, no type of a symbol or of   *)
(* an open declaration leads to a symbol that was freed, and every         *)
(* parameter is on one list.  With the same invariants: SymbolScope        *)
(* implements ScopeRules, if the parameters of declarations are not on     *)
(* chains either: each step of the parser opens a scope, closes one,       *)
(* declares a name, or leaves the scopes as they are.                      *)
(***************************************************************************)
EXTENDS SymbolScope, SequenceTheorems, FiniteSetTheorems, WellFoundedInduction, TLAPS

-----------------------------------------------------------------------------
(* Stacks.                                                                 *)

\* A stack of symbols 1..n.
Stack(s, n) == s \in Seq(1..n) /\ Increasing(s)

\* Pushing a new symbol on a stack.
LEMMA StackPush ==
  ASSUME NEW n \in Nat, NEW s, Stack(s, n)
  PROVE  /\ Stack(Append(s, n + 1), n + 1)
         /\ Members(Append(s, n + 1)) = Members(s) \cup {n + 1}
         /\ Append(s, n + 1) # <<>>
<1> USE DEF Stack, Increasing, Members
<1>a. s \in Seq(1..n) OBVIOUS
<1>1. s \in Seq(1..(n + 1))
  BY <1>a, SeqMonotonic
<1>2. Append(s, n + 1) \in Seq(1..(n + 1)) /\ Len(Append(s, n + 1)) = Len(s) + 1
  BY <1>1, AppendProperties
<1>3. /\ \A i \in 1..Len(s) : Append(s, n + 1)[i] = s[i] /\ s[i] \in 1..n
      /\ Append(s, n + 1)[Len(s) + 1] = n + 1
      /\ Len(s) \in Nat
  BY <1>a, ElementOfSeq, AppendProperties, LenProperties
<1>4. Increasing(Append(s, n + 1))
  <2> SUFFICES ASSUME NEW i \in 1..(Len(s) + 1), NEW j \in 1..(Len(s) + 1), i < j
               PROVE  Append(s, n + 1)[i] < Append(s, n + 1)[j]
    BY <1>2
  <2>1. i \in 1..Len(s) BY <1>3
  <2>2. CASE j \in 1..Len(s)
    <3>1. s[i] < s[j] BY <2>1, <2>2
    <3>2. Append(s, n + 1)[i] = s[i] BY <2>1, <1>3
    <3>3. Append(s, n + 1)[j] = s[j] BY <2>2, <1>3
    <3> QED BY <3>1, <3>2, <3>3
  <2>3. CASE j = Len(s) + 1
    <3>1. s[i] < n + 1 BY <2>1, <1>3
    <3>2. Append(s, n + 1)[i] = s[i] BY <2>1, <1>3
    <3>3. Append(s, n + 1)[j] = n + 1 BY <2>3, <1>3
    <3> QED BY <3>1, <3>2, <3>3
  <2>4. j \in 1..Len(s) \/ j = Len(s) + 1 BY <1>3
  <2> QED BY <2>2, <2>3, <2>4
<1>5. Members(Append(s, n + 1)) = Members(s) \cup {n + 1}
  <2>1. ASSUME NEW x \in Members(Append(s, n + 1)) PROVE x \in Members(s) \cup {n + 1}
    <3>1. PICK i \in 1..(Len(s) + 1) : x = Append(s, n + 1)[i] BY <1>2
    <3>2. i \in 1..Len(s) \/ i = Len(s) + 1 BY <1>3
    <3> QED BY <1>3, <3>1, <3>2
  <2>2. ASSUME NEW x \in Members(s) PROVE x \in Members(Append(s, n + 1))
    <3>1. PICK i \in 1..Len(s) : x = s[i] OBVIOUS
    <3>2. i \in 1..(Len(s) + 1) BY <1>3
    <3> QED BY <1>2, <1>3, <3>1, <3>2
  <2>3. n + 1 \in Members(Append(s, n + 1))
    <3>1. Len(s) + 1 \in 1..(Len(s) + 1) BY <1>3
    <3> QED BY <1>2, <1>3, <3>1
  <2> HIDE DEF Stack, Increasing, Members
  <2> QED BY <2>1, <2>2, <2>3
<1>6. Append(s, n + 1) # <<>>
  <2>1. Len(Append(s, n + 1)) # 0 BY <1>2, <1>3
  <2> QED BY <2>1, EmptySeq
<1>7. Stack(Append(s, n + 1), n + 1) BY <1>2, <1>4
<1> HIDE DEF Stack, Increasing, Members
<1> QED BY <1>5, <1>6, <1>7

\* What is on a stack was there before the numbers went on.
LEMMA StackWider ==
  ASSUME NEW n \in Nat, NEW s, Stack(s, n)
  PROVE  Stack(s, n + 1)
<1>1. s \in Seq(1..n) BY DEF Stack
<1>2. s \in Seq(1..(n + 1)) BY <1>1, SeqMonotonic
<1> QED BY <1>2 DEF Stack

\* The top of a stack is its newest symbol, and popping removes it only.
LEMMA StackTop ==
  ASSUME NEW n \in Nat, NEW s, Stack(s, n), s # <<>>
  PROVE  /\ Last(s) \in Members(s) /\ Last(s) \in 1..n
         /\ \A x \in Members(s) : x <= Last(s)
<1> USE DEF Stack, Increasing, Members, Last
<1>1. s \in Seq(1..n) /\ Len(s) \in Nat \ {0}
  BY EmptySeq, LenProperties
<1>2. \A i \in 1..Len(s) : s[i] \in 1..n
  BY <1>1, ElementOfSeq
<1> QED BY <1>1, <1>2

LEMMA StackPop ==
  ASSUME NEW n \in Nat, NEW s, Stack(s, n), s # <<>>
  PROVE  /\ Stack(ButLast(s), n)
         /\ Members(ButLast(s)) = Members(s) \ {Last(s)}
<1>1. s \in Seq(1..n) /\ Len(s) \in Nat \ {0}
  BY EmptySeq, LenProperties DEF Stack
<1>2. \A i \in 1..Len(s) : s[i] \in 1..n
  BY <1>1, ElementOfSeq
<1>3. PICK k \in Nat : Len(s) = k + 1 /\ k = Len(s) - 1
  <2> WITNESS Len(s) - 1 \in Nat
  <2> QED BY <1>1
<1>4. PICK r : r = SubSeq(s, 1, k)
  OBVIOUS
<1>5. \A i \in 1..k : s[i] \in 1..n
  BY <1>2, <1>3
<1>6. /\ r \in Seq(1..n) /\ Len(r) = IF 1 <= k THEN k - 1 + 1 ELSE 0
      /\ \A i \in 1..(k - 1 + 1) : r[i] = s[1 + i - 1]
  BY <1>4, <1>5, SubSeqProperties
<1>7. Len(r) = k /\ \A i \in 1..k : r[i] = s[i]
  <2>1. Len(r) = k BY <1>6
  <2>2. ASSUME NEW i \in 1..k PROVE r[i] = s[i]
    <3>1. i \in 1..(k - 1 + 1) /\ 1 + i - 1 = i OBVIOUS
    <3> QED BY <3>1, <1>6
  <2> QED BY <2>1, <2>2
<1>8. \A i, j \in 1..(k + 1) : i < j => s[i] < s[j]
  BY <1>3 DEF Stack, Increasing
<1>9. \A i, j \in 1..k : i < j => r[i] < r[j]
  BY <1>7, <1>8
<1>10. {r[i] : i \in 1..k} = {s[i] : i \in 1..(k + 1)} \ {s[k + 1]}
  <2>1. ASSUME NEW i \in 1..k
        PROVE  r[i] \in {s[j] : j \in 1..(k + 1)} /\ r[i] # s[k + 1]
    <3>1. i \in 1..(k + 1) /\ k + 1 \in 1..(k + 1) /\ i < k + 1 OBVIOUS
    <3>2. s[i] < s[k + 1] /\ s[i] \in Int /\ s[k + 1] \in Int
      BY <3>1, <1>8, <1>2, <1>3
    <3> QED BY <3>1, <3>2, <1>7
  <2>2. ASSUME NEW x \in {s[j] : j \in 1..(k + 1)}, x # s[k + 1]
        PROVE  x \in {r[i] : i \in 1..k}
    <3>1. PICK j \in 1..(k + 1) : x = s[j] BY <2>2
    <3>2. j \in 1..k BY <3>1, <2>2
    <3> QED BY <3>1, <3>2, <1>7
  <2> QED BY <2>1, <2>2
<1>11. ButLast(s) = r
  BY <1>3, <1>4 DEF ButLast
<1>12. Increasing(r)
  BY <1>7, <1>9 DEF Increasing
<1>13. Members(r) = Members(s) \ {Last(s)}
  BY <1>3, <1>7, <1>10 DEF Members, Last
<1> QED BY <1>6, <1>11, <1>12, <1>13 DEF Stack

-----------------------------------------------------------------------------
(* The table: what TypeOK says of the symbols, without the frames.         *)

Table ==
  /\ sym \in Seq(Symbol) /\ Len(sym) >= 3
  /\ \A i \in 1..Len(sym) : /\ sym[i].next <= Len(sym)
                            /\ Resolved(sym[i].type, Len(sym))
  /\ Stack(global_sym_stack, Len(sym))
  /\ Stack(local_sym_stack, Len(sym))
  /\ Global \cap Local = {}
  /\ head \in [Names -> 0..Len(sym)]

Frames ==
  /\ parse \in Seq(Activation)
  /\ \A i \in 1..Len(parse) :
       /\ parse[i].s <= Len(sym) /\ parse[i].tail <= Len(sym)
       /\ Resolved(parse[i].type, Len(sym)) /\ Resolved(parse[i].base, Len(sym))

LEMMA TypeParts == TypeOK <=> Table /\ Frames
BY DEF TypeOK, Table, Frames, Stack

Word == [kind : {"ident", "tag", "member", "param", "anom"}, word : AllWords]

\* The table is threaded: the part of IInv about symbols.
Threaded == Table /\ ChainsThreaded /\ LocalsInFront

\* Symbols that exist keep their words and their places in the chains.
SameChains ==
  \A x \in 1..Len(sym) : sym'[x].v = sym[x].v /\ sym'[x].prev = sym[x].prev

\* References lead to symbols.
Linked ==
  \A i \in 1..Len(sym) : /\ sym[i].next <= Len(sym)
                         /\ Resolved(sym[i].type, Len(sym))

LEMMA NameTyped == ASSUME NEW v \in Word, OnChain(v) PROVE NameOf(v) \in Names
BY DEF Word, OnChain, NameOf, Names

LEMMA LiveTyped == Table => Live \subseteq 1..Len(sym) /\ Len(sym) \in Nat
<1> SUFFICES ASSUME Table PROVE Live \subseteq 1..Len(sym) /\ Len(sym) \in Nat
  OBVIOUS
<1>1. Len(sym) \in Nat BY LenProperties DEF Table
<1>2. Global \subseteq 1..Len(sym)
  BY ElementOfSeq DEF Table, Stack, Global, Members
<1>3. Local \subseteq 1..Len(sym)
  BY ElementOfSeq DEF Table, Stack, Local, Members
<1> QED BY <1>1, <1>2, <1>3 DEF Live

\* A step that creates no symbol and leaves stacks and heads alone, whatever it
\* writes to next, type and c.
LEMMA SameTable ==
  ASSUME Threaded, SameChains, Len(sym') = Len(sym), sym' \in Seq(Symbol), Linked',
         UNCHANGED <<global_sym_stack, local_sym_stack, head>>
  PROVE  Threaded'
<1>1. Live' = Live /\ Global' = Global /\ Local' = Local
  BY DEF Live, Global, Local, Members
<1>2. Live \subseteq 1..Len(sym) BY LiveTyped DEF Threaded
<1>3. Table'
  BY <1>1 DEF Threaded, Table, Linked
<1>4. \A n \in Names : Named(n)' = Named(n)
  BY <1>1, <1>2 DEF Named, SameChains
<1>5. ChainsThreaded'
  <2> SUFFICES ASSUME NEW n \in Names
               PROVE  /\ Newest(head[n], Named(n))
                      /\ \A x \in Named(n) : Newest(sym'[x].prev, {y \in Named(n) : y < x})
    BY <1>4 DEF ChainsThreaded, Newest
  <2>1. Named(n) \subseteq 1..Len(sym) BY <1>2 DEF Named
  <2> QED BY <2>1 DEF Threaded, ChainsThreaded, SameChains
<1>6. LocalsInFront'
  <2>1. Global \subseteq 1..Len(sym) /\ Local \subseteq 1..Len(sym)
    BY <1>2 DEF Live
  <2> QED BY <1>1, <2>1 DEF Threaded, LocalsInFront, SameChains
<1> QED BY <1>3, <1>5, <1>6 DEF Threaded

\* A step that pushes one new symbol with v, as sym_push and func_sym_push do.
PushesOn(v) ==
  \/ PushLocal
  \/ PushGlobal /\ local_sym_stack = <<>>
  \/ PushGlobal /\ OnChain(v) /\ head[NameOf(v)] = 0
Pushes(v) ==
  /\ SameChains
  /\ Len(sym') = Len(sym) + 1
  /\ sym'[Len(sym) + 1].v = v
  /\ OnChain(v) => sym'[Len(sym) + 1].prev = head[NameOf(v)]
  /\ PushesOn(v)
  /\ head' = IF OnChain(v) THEN [head EXCEPT ![NameOf(v)] = Len(sym) + 1] ELSE head

\* Where the new symbol goes.
LEMMA PushStacks ==
  ASSUME Table, NEW v, PushesOn(v), Len(sym') = Len(sym) + 1
  PROVE  /\ Stack(global_sym_stack', Len(sym')) /\ Stack(local_sym_stack', Len(sym'))
         /\ \/ Local' = Local \cup {Len(sym) + 1} /\ Global' = Global
            \/ /\ Global' = Global \cup {Len(sym) + 1} /\ Local' = Local
               /\ Local = {} \/ (OnChain(v) /\ head[NameOf(v)] = 0)
<1>1. Len(sym) \in Nat BY LiveTyped
<1>2. /\ Stack(global_sym_stack, Len(sym)) /\ Stack(local_sym_stack, Len(sym))
      /\ Stack(global_sym_stack, Len(sym) + 1) /\ Stack(local_sym_stack, Len(sym) + 1)
  BY <1>1, StackWider DEF Table
<1>3. CASE PushLocal
  <2>1. local_sym_stack' = Append(local_sym_stack, Len(sym) + 1)
        /\ global_sym_stack' = global_sym_stack
    BY <1>3 DEF PushLocal, Fresh
  <2> QED BY <1>1, <1>2, <2>1, StackPush DEF Local, Global
<1>4. CASE PushGlobal
  <2>1. global_sym_stack' = Append(global_sym_stack, Len(sym) + 1)
        /\ local_sym_stack' = local_sym_stack
    BY <1>4 DEF PushGlobal, Fresh
  <2>2. Global' = Global \cup {Len(sym) + 1} /\ Local' = Local
        /\ Stack(global_sym_stack', Len(sym) + 1)
    BY <1>1, <1>2, <2>1, StackPush DEF Local, Global
  <2>3. Local = {} \/ (OnChain(v) /\ head[NameOf(v)] = 0)
    <3>1. CASE local_sym_stack = <<>>
      BY <3>1, EmptySeq DEF Local, Members
    <3>2. CASE OnChain(v) /\ head[NameOf(v)] = 0
      BY <3>2
    <3>3. CASE PushLocal
      <4>1. Stack(global_sym_stack', Len(sym) + 1) /\ Local' = Local \cup {Len(sym) + 1}
        BY <3>3, <1>1, <1>2, StackPush DEF PushLocal, Fresh, Local
      <4>2. Len(sym) + 1 \notin Local
        BY <1>1, LiveTyped DEF Live
      <4> QED BY <4>1, <4>2, <2>2
    <3> QED BY <3>1, <3>2, <3>3 DEF PushesOn
  <2> QED BY <1>2, <2>1, <2>2, <2>3
<1> QED BY <1>3, <1>4 DEF PushesOn

\* A push keeps the table threaded.
LEMMA PushTable ==
  ASSUME Threaded, NEW v \in Word, Pushes(v), sym' \in Seq(Symbol), Linked'
  PROVE  Threaded' /\ Local \subseteq Local'
<1> DEFINE m == Len(sym) + 1
<1>0. Table /\ ChainsThreaded /\ LocalsInFront /\ PushesOn(v)
  BY DEF Threaded, Pushes
<1>1. Len(sym) \in Nat /\ Live \subseteq 1..Len(sym) /\ Len(sym') = m
  BY <1>0, LiveTyped DEF Pushes
<1>2. /\ Stack(global_sym_stack', m) /\ Stack(local_sym_stack', m)
      /\ \/ Local' = Local \cup {m} /\ Global' = Global
         \/ /\ Global' = Global \cup {m} /\ Local' = Local
            /\ Local = {} \/ (OnChain(v) /\ head[NameOf(v)] = 0)
  BY <1>0, <1>1, PushStacks
<1>3. Live' = Live \cup {m} /\ m \notin Live
  BY <1>1, <1>2 DEF Live
<1>4. \A x \in Live : sym'[x].v = sym[x].v /\ sym'[x].prev = sym[x].prev
  BY <1>1 DEF Pushes, SameChains
<1>5. sym'[m].v = v /\ (OnChain(v) => sym'[m].prev = head[NameOf(v)])
  BY DEF Pushes
<1>6. OnChain(v) => NameOf(v) \in Names
  BY NameTyped
<1>7. head \in [Names -> 0..Len(sym)]
  BY <1>0 DEF Table
<1>8. Table'
  <2>1. head' \in [Names -> 0..m]
    BY <1>1, <1>6, <1>7 DEF Pushes
  <2>2. Global' \cap Local' = {}
    BY <1>0, <1>2, <1>3 DEF Live, Table
  <2> QED BY <1>1, <1>2, <2>1, <2>2, <1>0 DEF Table, Linked
<1>9. \A n \in Names :
        Named(n)' = IF OnChain(v) /\ NameOf(v) = n THEN Named(n) \cup {m} ELSE Named(n)
  BY <1>3, <1>4, <1>5 DEF Named
<1>10. ChainsThreaded'
  <2> SUFFICES ASSUME NEW n \in Names
               PROVE  /\ Newest(head'[n], Named(n)')
                      /\ \A x \in Named(n)' :
                           Newest(sym'[x].prev, {y \in Named(n)' : y < x})
    BY DEF ChainsThreaded, Newest
  <2>1. /\ Newest(head[n], Named(n))
        /\ \A x \in Named(n) : Newest(sym[x].prev, {y \in Named(n) : y < x})
    BY <1>0 DEF ChainsThreaded
  <2>2. Named(n) \subseteq 1..Len(sym) /\ Named(n) \subseteq Live
    BY <1>1 DEF Named
  <2>3. CASE OnChain(v) /\ NameOf(v) = n
    <3>1. Named(n)' = Named(n) \cup {m} BY <2>3, <1>9
    <3>2. head'[n] = m /\ sym'[m].prev = head[n]
      BY <2>3, <1>5, <1>7 DEF Pushes
    <3>3. Newest(head'[n], Named(n)')
      BY <1>1, <2>2, <3>1, <3>2 DEF Newest
    <3>4. {y \in Named(n)' : y < m} = Named(n)
      BY <1>1, <2>2, <3>1
    <3>5. ASSUME NEW x \in Named(n)
          PROVE  Newest(sym'[x].prev, {y \in Named(n)' : y < x})
      <4>1. {y \in Named(n)' : y < x} = {y \in Named(n) : y < x}
        BY <1>1, <2>2, <3>1
      <4> QED BY <4>1, <2>1, <2>2, <1>4
    <3> QED BY <2>1, <3>1, <3>2, <3>3, <3>4, <3>5
  <2>4. CASE ~ (OnChain(v) /\ NameOf(v) = n)
    <3>1. Named(n)' = Named(n) BY <2>4, <1>9
    <3>2. head'[n] = head[n] BY <2>4, <1>7 DEF Pushes
    <3> QED BY <2>1, <2>2, <3>1, <3>2, <1>4
  <2> QED BY <2>3, <2>4
<1>11. LocalsInFront'
  <2> SUFFICES ASSUME NEW g \in Global', NEW l \in Local',
                      OnChain(sym'[g].v), OnChain(sym'[l].v),
                      NameOf(sym'[g].v) = NameOf(sym'[l].v)
               PROVE  g < l
    BY DEF LocalsInFront, OnChain
  <2>1. CASE g \in Global /\ l \in Local
    BY <2>1, <1>0, <1>4 DEF LocalsInFront, Live
  <2>2. CASE l = m /\ g \in Global
    BY <2>2, <1>1 DEF Live
  <2>3. CASE g = m /\ l \in Local /\ Local # {} /\ OnChain(v) /\ head[NameOf(v)] = 0
    <3>1. NameOf(v) \in Names /\ l \in Named(NameOf(v))
      BY <2>3, <1>4, <1>5, <1>6 DEF Named, Live
    <3>2. l <= 0
      BY <3>1, <2>3, <1>0 DEF ChainsThreaded, Newest
    <3> QED BY <3>2, <1>1, <2>3 DEF Live
  <2> QED BY <2>1, <2>2, <2>3, <1>2
<1> QED BY <1>2, <1>8, <1>10, <1>11 DEF Threaded

\* One turn of sym_pop keeps the table threaded: LocalsInFront says that the
\* symbol it frees is the head of its chain.
Pops ==
  LET n == Last(local_sym_stack)
  IN /\ local_sym_stack # <<>>
     /\ head' = IF OnChain(sym[n].v)
                THEN [head EXCEPT ![NameOf(sym[n].v)] = sym[n].prev]
                ELSE head
     /\ local_sym_stack' = ButLast(local_sym_stack)
     /\ UNCHANGED <<sym, global_sym_stack>>

LEMMA PopTable ==
  ASSUME Threaded, Pops
  PROVE  /\ Threaded'
         /\ Local' = Local \ {Last(local_sym_stack)}
         /\ Last(local_sym_stack) \in Local
         /\ \A x \in Local : x <= Last(local_sym_stack)
<1>0. Table /\ ChainsThreaded /\ LocalsInFront
  BY DEF Threaded
<1>1. Len(sym) \in Nat /\ Live \subseteq 1..Len(sym)
  BY <1>0, LiveTyped
<1>2. Stack(local_sym_stack, Len(sym)) /\ local_sym_stack # <<>>
  BY <1>0 DEF Pops, Table
<1>3. PICK n : n = Last(local_sym_stack)
  OBVIOUS
<1>4. n \in Local /\ \A x \in Local : x <= n
  BY <1>1, <1>2, <1>3, StackTop DEF Local
<1>5. Stack(local_sym_stack', Len(sym)) /\ Local' = Local \ {n}
  BY <1>1, <1>2, <1>3, StackPop DEF Pops, Local
<1>6. UNCHANGED <<sym, global_sym_stack, Global>>
  BY DEF Pops, Global
<1>7. Live' = Live \ {n} /\ n \in Live
  BY <1>0, <1>4, <1>5, <1>6 DEF Live, Table
<1>8. head' = IF OnChain(sym[n].v)
              THEN [head EXCEPT ![NameOf(sym[n].v)] = sym[n].prev] ELSE head
  BY <1>3 DEF Pops
<1>9. sym[n] \in Symbol /\ (OnChain(sym[n].v) => NameOf(sym[n].v) \in Names)
  <2>1. sym[n] \in Symbol
    BY <1>0, <1>1, <1>7, ElementOfSeq DEF Table
  <2> QED BY <2>1, NameTyped DEF Symbol, Word
<1>10. OnChain(sym[n].v) =>
         /\ n \in Named(NameOf(sym[n].v))
         /\ \A x \in Named(NameOf(sym[n].v)) : x <= n
  <2> SUFFICES ASSUME OnChain(sym[n].v), NEW x \in Named(NameOf(sym[n].v))
               PROVE  n \in Named(NameOf(sym[n].v)) /\ x <= n
    BY <1>7 DEF Named
  <2>1. CASE x \in Local
    BY <2>1, <1>4, <1>7 DEF Named
  <2>2. CASE x \in Global
    <3>1. x < n BY <2>2, <1>0, <1>4 DEF LocalsInFront, Named
    <3> QED BY <3>1, <1>1, <1>7 DEF Named
  <2> QED BY <2>1, <2>2 DEF Named, Live
<1>11. \A k \in Names :
         Named(k)' = IF OnChain(sym[n].v) /\ NameOf(sym[n].v) = k
                     THEN Named(k) \ {n} ELSE Named(k)
  BY <1>6, <1>7 DEF Named
<1>12. Table'
  <2>1. CASE OnChain(sym[n].v)
    <3>1. Newest(sym[n].prev, {y \in Named(NameOf(sym[n].v)) : y < n})
      BY <2>1, <1>0, <1>9, <1>10 DEF ChainsThreaded
    <3>2. sym[n].prev \in 0..Len(sym)
      <4>1. sym[n].prev \in {y \in Named(NameOf(sym[n].v)) : y < n} \cup {0}
        BY <3>1 DEF Newest
      <4>2. \A k : Named(k) \subseteq Live
        BY DEF Named
      <4>3. Live \subseteq 0..Len(sym) /\ 0 \in 0..Len(sym)
        BY <1>1
      <4> QED BY <4>1, <4>2, <4>3
    <3>3. head' \in [Names -> 0..Len(sym)]
      BY <2>1, <3>2, <1>0, <1>8 DEF Table
    <3> QED BY <3>3, <1>0, <1>5, <1>6 DEF Table
  <2>2. CASE ~ OnChain(sym[n].v)
    BY <2>2, <1>0, <1>5, <1>6, <1>8 DEF Table
  <2> QED BY <2>1, <2>2
<1>13. ChainsThreaded'
  <2> SUFFICES ASSUME NEW k \in Names
               PROVE  /\ Newest(head'[k], Named(k)')
                      /\ \A x \in Named(k)' :
                           Newest(sym[x].prev, {y \in Named(k)' : y < x})
    BY <1>6 DEF ChainsThreaded, Newest
  <2>1. /\ Newest(head[k], Named(k))
        /\ \A x \in Named(k) : Newest(sym[x].prev, {y \in Named(k) : y < x})
    BY <1>0 DEF ChainsThreaded
  <2>2. Named(k) \subseteq 1..Len(sym) /\ n \in 1..Len(sym)
    BY <1>1, <1>7 DEF Named
  <2>3. head \in [Names -> 0..Len(sym)]
    BY <1>0 DEF Table
  <2>4. CASE OnChain(sym[n].v) /\ NameOf(sym[n].v) = k
    <3>1. Named(k)' = Named(k) \ {n} /\ n \in Named(k) /\ \A x \in Named(k) : x <= n
      BY <2>4, <1>10, <1>11
    <3>2. head'[k] = sym[n].prev
      BY <2>3, <2>4, <1>8
    <3>3. {y \in Named(k) : y < n} = Named(k) \ {n}
      BY <3>1, <2>2
    <3>4. ASSUME NEW x \in Named(k) \ {n}
          PROVE  {y \in Named(k) \ {n} : y < x} = {y \in Named(k) : y < x}
      <4>1. x < n BY <3>1, <2>2
      <4> QED BY <4>1, <2>2
    <3> QED BY <3>1, <3>2, <3>3, <3>4, <2>1
  <2>5. CASE ~ (OnChain(sym[n].v) /\ NameOf(sym[n].v) = k)
    <3>1. Named(k)' = Named(k) /\ head'[k] = head[k]
      BY <2>3, <2>5, <1>8, <1>11
    <3> QED BY <3>1, <2>1
  <2> QED BY <2>4, <2>5
<1>14. LocalsInFront'
  BY <1>0, <1>5, <1>6 DEF LocalsInFront
<1> QED BY <1>3, <1>4, <1>5, <1>12, <1>13, <1>14 DEF Threaded

-----------------------------------------------------------------------------
(* What sym_push and func_sym_push make of sym.                            *)

\* A new symbol at the end.
Extended(q, f) ==
  /\ q \in Seq(Symbol) /\ Len(q) = Len(sym) + 1
  /\ q[Len(sym) + 1] = f
  /\ \A i \in 1..Len(sym) : q[i] = sym[i]
  /\ \A i \in 1..Len(q) : q[i].next <= Len(q) /\ Resolved(q[i].type, Len(q))

LEMMA NewLast ==
  ASSUME Table, NEW v \in Word, NEW type \in Types, Resolved(type, Len(sym) + 1),
         NEW c \in {-1, 0}, NEW next \in Nat, next <= Len(sym) + 1
  PROVE  Extended(Append(sym, NewSymbol(v, type, c, next)), NewSymbol(v, type, c, next))
<1>0. PICK q : q = Append(sym, NewSymbol(v, type, c, next)) OBVIOUS
<1>1. Len(sym) \in Nat /\ sym \in Seq(Symbol)
  BY LiveTyped DEF Table
<1>2. NewSymbol(v, type, c, next) \in Symbol
  <2>1. OnChain(v) => head[NameOf(v)] \in Nat
    BY <1>1, NameTyped DEF Table
  <2> QED BY <2>1 DEF NewSymbol, Symbol, Word
<1>3. /\ q \in Seq(Symbol) /\ Len(q) = Len(sym) + 1
      /\ q[Len(sym) + 1] = NewSymbol(v, type, c, next)
      /\ \A i \in 1..Len(sym) : q[i] = sym[i]
  BY <1>0, <1>1, <1>2, AppendProperties
<1>4. ASSUME NEW i \in 1..Len(q)
      PROVE  q[i].next <= Len(q) /\ Resolved(q[i].type, Len(q))
  <2>1. CASE i \in 1..Len(sym)
    <3>1. sym[i] \in Symbol BY <2>1, <1>1, ElementOfSeq
    <3>2. sym[i].next <= Len(sym) /\ sym[i].next \in Nat /\ sym[i].type.ref \in Nat
          /\ sym[i].type.ref <= Len(sym)
          /\ (sym[i].type.t = "func" => sym[i].type.ref # 0)
      BY <2>1, <3>1 DEF Table, Symbol, Types, Resolved
    <3>3. q[i] = sym[i] BY <2>1, <1>3
    <3> QED BY <1>1, <1>3, <3>2, <3>3 DEF Resolved
  <2>2. CASE i = Len(sym) + 1
    <3>1. q[i].next = next /\ q[i].type = type
      BY <2>2, <1>3 DEF NewSymbol
    <3> QED BY <3>1, <1>3
  <2>3. i \in 1..Len(sym) \/ i = Len(sym) + 1
    BY <1>1, <1>3
  <2> QED BY <2>1, <2>2, <2>3
<1> QED BY <1>0, <1>3, <1>4 DEF Extended

\* Writes to one field of a symbol.
LEMMA NextWritten ==
  ASSUME NEW g \in Symbol, NEW n \in Nat
  PROVE  /\ [g EXCEPT !.next = n] \in Symbol
         /\ [g EXCEPT !.next = n].v = g.v /\ [g EXCEPT !.next = n].prev = g.prev
         /\ [g EXCEPT !.next = n].type = g.type /\ [g EXCEPT !.next = n].next = n
BY DEF Symbol

LEMMA SizeWritten ==
  ASSUME NEW g \in Symbol
  PROVE  /\ [g EXCEPT !.c = 0] \in Symbol
         /\ [g EXCEPT !.c = 0].v = g.v /\ [g EXCEPT !.c = 0].prev = g.prev
         /\ [g EXCEPT !.c = 0].type = g.type /\ [g EXCEPT !.c = 0].next = g.next
BY DEF Symbol

LEMMA TypeWritten ==
  ASSUME NEW g \in Symbol, NEW type \in Types
  PROVE  /\ [g EXCEPT !.type = type] \in Symbol
         /\ [g EXCEPT !.type = type].v = g.v /\ [g EXCEPT !.type = type].prev = g.prev
         /\ [g EXCEPT !.type = type].type = type
         /\ [g EXCEPT !.type = type].next = g.next
BY DEF Symbol

\* Symbols that refer to each other only.
Within(q) == \A i \in 1..Len(q) : q[i].next <= Len(q) /\ Resolved(q[i].type, Len(q))

\* The new symbol is also the next of an older one.
NextMade(r, q, t, n) ==
  /\ r \in Seq(Symbol) /\ r = [q EXCEPT ![t].next = n + 1] /\ Len(r) = n + 1
  /\ \A i \in 1..(n + 1) : r[i].v = q[i].v /\ r[i].prev = q[i].prev
  /\ Within(r)

LEMMA NewNext ==
  ASSUME NEW n \in Nat, NEW q \in Seq(Symbol), Len(q) = n + 1, NEW t \in 1..(n + 1),
         Within(q)
  PROVE  \E r : NextMade(r, q, t, n)
<1>0. PICK r : r = [q EXCEPT ![t].next = n + 1] OBVIOUS
<1>1. \A i \in 1..(n + 1) : q[i] \in Symbol
  BY ElementOfSeq
<1>2. PICK g : g = q[t]
  OBVIOUS
<1>3. g \in Symbol BY <1>1, <1>2
<1>4. PICK f : f = [g EXCEPT !.next = n + 1]
  OBVIOUS
<1>5. f \in Symbol /\ f.next = n + 1 /\ f.v = g.v /\ f.prev = g.prev /\ f.type = g.type
  <2>1. n + 1 \in Nat OBVIOUS
  <2> QED BY <2>1, <1>3, <1>4, NextWritten
<1>6. r = [q EXCEPT ![t] = f]
  BY <1>0, <1>2, <1>4
<1>7. t \in 1..Len(q) OBVIOUS
<1>8. r \in Seq(Symbol) /\ Len(r) = n + 1
  BY <1>5, <1>6, <1>7, ExceptSeq
<1>9. \A i \in 1..(n + 1) : r[i] = IF i = t THEN f ELSE q[i]
  BY <1>5, <1>6, <1>7, ExceptSeq
<1>10. ASSUME NEW i \in 1..(n + 1)
       PROVE  /\ r[i].v = q[i].v /\ r[i].prev = q[i].prev /\ r[i].type = q[i].type
              /\ r[i].next = q[i].next \/ r[i].next = n + 1
  BY <1>2, <1>5, <1>9
<1>11. ASSUME NEW i \in 1..(n + 1)
       PROVE  r[i].next <= n + 1 /\ Resolved(r[i].type, n + 1)
  <2>1. q[i].next <= n + 1 /\ Resolved(q[i].type, n + 1)
    BY DEF Within
  <2> QED BY <2>1, <1>10
<1>12. Within(r) BY <1>8, <1>11 DEF Within
<1>13. NextMade(r, q, t, n) BY <1>0, <1>8, <1>10, <1>12 DEF NextMade
<1> QED BY <1>13

-----------------------------------------------------------------------------
(* The parser's frames.                                                    *)

LEMMA Shorter ==
  ASSUME NEW S, NEW p \in Seq(S), p # <<>>
  PROVE  /\ ButLast(p) \in Seq(S)
         /\ Len(p) \in Nat \ {0} /\ Len(ButLast(p)) = Len(p) - 1
         /\ \A i \in 1..(Len(p) - 1) : ButLast(p)[i] = p[i]
         /\ Last(p) = p[Len(p)] /\ Last(p) \in S
<1>1. Len(p) \in Nat \ {0} /\ \A i \in 1..Len(p) : p[i] \in S
  BY EmptySeq, LenProperties, ElementOfSeq
<1>2. PICK k \in Nat : Len(p) = k + 1 /\ k = Len(p) - 1
  <2> WITNESS Len(p) - 1 \in Nat
  <2> QED BY <1>1
<1>3. PICK r : r = SubSeq(p, 1, k)
  OBVIOUS
<1>4. \A i \in 1..k : p[i] \in S
  BY <1>1, <1>2
<1>5. /\ r \in Seq(S) /\ Len(r) = IF 1 <= k THEN k - 1 + 1 ELSE 0
      /\ \A i \in 1..(k - 1 + 1) : r[i] = p[1 + i - 1]
  BY <1>3, <1>4, SubSeqProperties
<1>6. Len(r) = k
  BY <1>5
<1>7. ASSUME NEW i \in 1..k PROVE r[i] = p[i]
  <2>1. i \in 1..(k - 1 + 1) /\ 1 + i - 1 = i OBVIOUS
  <2> QED BY <2>1, <1>5
<1>8. ButLast(p) = r
  BY <1>2, <1>3 DEF ButLast
<1> QED BY <1>1, <1>2, <1>5, <1>6, <1>7, <1>8 DEF Last

\* The first m elements of q are those of p.
Agree(p, q, m) ==
  m <= Len(p) /\ m <= Len(q) /\ \A i \in 1..m : q[i] = p[i]

\* The forms of a step on the frames.
LEMMA Longer ==
  ASSUME NEW S, NEW p \in Seq(S), NEW f \in S
  PROVE  /\ Append(p, f) \in Seq(S) /\ Len(Append(p, f)) = Len(p) + 1
         /\ Append(p, f)[Len(p) + 1] = f
         /\ Agree(p, Append(p, f), Len(p))
<1>1. Len(p) \in Nat
  BY LenProperties
<1> QED BY <1>1, AppendProperties DEF Agree

LEMMA Replaced ==
  ASSUME NEW S, NEW p \in Seq(S), p # <<>>, NEW f \in S
  PROVE  /\ Append(ButLast(p), f) \in Seq(S)
         /\ Len(Append(ButLast(p), f)) = Len(p)
         /\ Append(ButLast(p), f)[Len(p)] = f
         /\ Agree(p, Append(ButLast(p), f), Len(p) - 1)
<1>1. PICK b : b = ButLast(p) OBVIOUS
<1>2. /\ b \in Seq(S) /\ Len(p) \in Nat \ {0} /\ Len(b) = Len(p) - 1
      /\ \A i \in 1..(Len(p) - 1) : b[i] = p[i]
  BY <1>1, Shorter
<1>3. PICK q : q = Append(b, f) OBVIOUS
<1>4. /\ q \in Seq(S) /\ Len(q) = Len(b) + 1 /\ q[Len(b) + 1] = f
      /\ Agree(b, q, Len(b))
  BY <1>2, <1>3, Longer
<1>5. Append(ButLast(p), f) = q
  BY <1>1, <1>3
<1> QED BY <1>2, <1>4, <1>5 DEF Agree

\* The last two frames become one.
LEMMA TwoReplaced ==
  ASSUME NEW S, NEW p \in Seq(S), Len(p) > 1, NEW f \in S
  PROVE  /\ Append(ButLast(ButLast(p)), f) \in Seq(S)
         /\ Len(Append(ButLast(ButLast(p)), f)) = Len(p) - 1
         /\ Append(ButLast(ButLast(p)), f)[Len(p) - 1] = f
         /\ Agree(p, Append(ButLast(ButLast(p)), f), Len(p) - 2)
<1>1. PICK b : b = ButLast(p) OBVIOUS
<1>2. p # <<>> BY EmptySeq
<1>3. /\ b \in Seq(S) /\ Len(p) \in Nat \ {0} /\ Len(b) = Len(p) - 1
      /\ \A i \in 1..(Len(p) - 1) : b[i] = p[i]
  BY <1>1, <1>2, Shorter
<1>4. b # <<>> BY <1>3, EmptySeq
<1>5. PICK q : q = Append(ButLast(b), f) OBVIOUS
<1>6. /\ q \in Seq(S) /\ Len(q) = Len(b) /\ q[Len(b)] = f
      /\ Agree(b, q, Len(b) - 1)
  BY <1>3, <1>4, <1>5, Replaced
<1>7. q = Append(ButLast(ButLast(p)), f)
  BY <1>1, <1>5
<1>8. Agree(p, q, Len(p) - 2)
  BY <1>3, <1>6 DEF Agree
<1> QED BY <1>3, <1>6, <1>7, <1>8

-----------------------------------------------------------------------------
(* The pushes of the actions.                                              *)

LEMMA SymPushed ==
  ASSUME Threaded, NEW v \in Word, NEW type \in Types, Resolved(type, Len(sym) + 1),
         NEW c \in {-1, 0}, NEW next \in Nat, next <= Len(sym) + 1,
         PushesOn(v), sym' = Append(sym, NewSymbol(v, type, c, next)),
         head' = IF OnChain(v) THEN [head EXCEPT ![NameOf(v)] = Fresh] ELSE head
  PROVE  Threaded' /\ Local \subseteq Local' /\ Len(sym') = Len(sym) + 1
<1>1. Table BY DEF Threaded
<1>2. PICK q : q = Append(sym, NewSymbol(v, type, c, next)) OBVIOUS
<1>3. Extended(q, NewSymbol(v, type, c, next))
  BY <1>1, <1>2, NewLast
<1>4. sym' = q BY <1>2
<1>5. Linked' BY <1>3, <1>4 DEF Linked, Extended
<1>6. Pushes(v)
  BY <1>3, <1>4 DEF Extended, Pushes, SameChains, NewSymbol, Fresh
<1> QED BY <1>3, <1>4, <1>5, <1>6, PushTable DEF Extended

\* sym_push that also hooks the symbol behind symbol t, as a member or parameter.
LEMMA SymLinked ==
  ASSUME Threaded, NEW v \in Word, NEW type \in Types, Resolved(type, Len(sym) + 1),
         PushesOn(v), NEW t \in 1..(Len(sym) + 1),
         sym' = [Append(sym, NewSymbol(v, type, 0, 0)) EXCEPT ![t].next = Fresh],
         head' = IF OnChain(v) THEN [head EXCEPT ![NameOf(v)] = Fresh] ELSE head
  PROVE  Threaded' /\ Local \subseteq Local' /\ Len(sym') = Len(sym) + 1
<1>1. Table /\ Len(sym) \in Nat BY LiveTyped DEF Threaded
<1>2. PICK n : n = Len(sym) OBVIOUS
<1>3. PICK q : q = Append(sym, NewSymbol(v, type, 0, 0)) OBVIOUS
<1>4. Extended(q, NewSymbol(v, type, 0, 0))
  <2>1. 0 \in {-1, 0} /\ 0 \in Nat /\ 0 <= Len(sym) + 1
    BY <1>1
  <2> QED BY <1>1, <1>3, <2>1, NewLast
<1>5. /\ n \in Nat /\ q \in Seq(Symbol) /\ Len(q) = n + 1 /\ t \in 1..(n + 1)
      /\ Within(q)
  BY <1>1, <1>2, <1>4 DEF Extended, Within
<1>r. PICK r : NextMade(r, q, t, n) BY <1>5, NewNext
<1>6. /\ r \in Seq(Symbol) /\ r = [q EXCEPT ![t].next = n + 1] /\ Len(r) = n + 1
      /\ \A i \in 1..(n + 1) : r[i].v = q[i].v /\ r[i].prev = q[i].prev
  BY <1>r DEF NextMade
<1>7. sym' = r BY <1>2, <1>3, <1>6 DEF Fresh
<1>8. Linked' BY <1>r, <1>7 DEF Linked, NextMade, Within
<1>9. SameChains
  BY <1>1, <1>2, <1>4, <1>6, <1>7 DEF SameChains, Extended
<1>10. sym'[n + 1].v = v /\ (OnChain(v) => sym'[n + 1].prev = head[NameOf(v)])
  <2>1. sym'[n + 1].v = q[n + 1].v /\ sym'[n + 1].prev = q[n + 1].prev
    <3>1. n + 1 \in 1..(n + 1) BY <1>1, <1>2
    <3> QED BY <3>1, <1>6, <1>7
  <2> QED BY <2>1, <1>2, <1>4 DEF NewSymbol, Extended
<1>11. Pushes(v)
  BY <1>2, <1>6, <1>7, <1>9, <1>10 DEF Pushes, Fresh
<1> QED BY <1>2, <1>6, <1>7, <1>8, <1>11, PushTable

\* What sym_push and func_sym_push do to stacks and heads.
LEMMA SymPush ==
  ASSUME NEW v, sym_push(v)
  PROVE  /\ PushesOn(v)
         /\ head' = IF OnChain(v) THEN [head EXCEPT ![NameOf(v)] = Fresh] ELSE head
BY DEF sym_push, PushesOn

LEMMA FuncPush ==
  ASSUME NEW w, func_sym_push(w), head[<<"ident", w>>] = 0,
         NEW v, v = V("ident", w)
  PROVE  /\ PushesOn(v)
         /\ head' = IF OnChain(v) THEN [head EXCEPT ![NameOf(v)] = Fresh] ELSE head
<1>1. OnChain(v) /\ NameOf(v) = <<"ident", w>>
  BY DEF OnChain, NameOf, V
<1> QED BY <1>1 DEF func_sym_push, PushesOn

LEMMA Untouched ==
  ASSUME Threaded, NoSymbol
  PROVE  Threaded' /\ Local \subseteq Local' /\ Len(sym') = Len(sym)
<1>1. UNCHANGED <<global_sym_stack, local_sym_stack, head>> /\ sym' = sym
  BY DEF NoSymbol
<1>2. SameChains BY <1>1 DEF SameChains
<1>3. sym' \in Seq(Symbol) /\ Linked'
  BY <1>1 DEF Threaded, Table, Linked
<1>4. Local' = Local BY <1>1 DEF Local, Members
<1> QED BY <1>1, <1>2, <1>3, <1>4, SameTable

-----------------------------------------------------------------------------
(* The frames of IInv, one at a time.                                      *)

Bounded(f, n) == /\ f.s <= n /\ f.tail <= n
                 /\ Resolved(f.type, n) /\ Resolved(f.base, n)

\* Frame i is made from the right place.
Placed(p, i) ==
  /\ p[i].at = "decl" /\ p[i].where = "member" => i > 1 /\ p[i-1].at = "struct"
  /\ p[i].at = "decl" /\ p[i].where = "param"  => i > 1 /\ p[i-1].at = "params"
  /\ p[i].at = "params" => i > 1 /\ p[i-1].at = "decl"
  /\ p[i].at = "func" /\ i < Len(p) => p[i].stage = "body"
  /\ p[i].at = "pop" => i = Len(p)
  /\ ~ NestedFunctions => (Outermost(p[i]) => i = 1)

Running(f) ==
  /\ f.at = "func" /\ f.stage = "enter" => f.s # 0 /\ sym[f.s].type.t = "func"
  /\ f.at = "func" /\ f.stage = "prolog" => local_sym_stack # <<>>

Fine(i) == Bounded(parse[i], Len(sym)) /\ Placed(parse, i) /\ Running(parse[i])

Inv ==
  /\ Threaded
  /\ parse \in Seq(Activation)
  /\ \A i \in 1..Len(parse) : Fine(i)
  /\ ~ NestedFunctions => MarkersKept

LEMMA InvToIInv == Inv => IInv
<1> SUFFICES ASSUME Inv PROVE IInv
  OBVIOUS
<1>1. Frames
  BY DEF Inv, Frames, Fine, Bounded
<1>2. TypeOK
  BY <1>1, TypeParts DEF Inv, Threaded
<1>3. Nesting
  BY DEF Inv, Fine, Placed, Running, Nesting
<1>4. ~ NestedFunctions => NotNested
  BY DEF Inv, Fine, Placed, NotNested
<1> QED BY <1>2, <1>3, <1>4 DEF Inv, Threaded, IInv

LEMMA IInvToInv == IInv => Inv
<1> SUFFICES ASSUME IInv PROVE Inv
  OBVIOUS
<1>1. Table /\ Frames /\ Nesting /\ ChainsThreaded /\ LocalsInFront
      /\ (~ NestedFunctions => NotNested)
  BY TypeParts DEF IInv
<1>2. ASSUME NEW i \in 1..Len(parse) PROVE Fine(i)
  <2>1. Bounded(parse[i], Len(sym))
    BY <1>1 DEF Frames, Bounded
  <2>2. Placed(parse, i)
    <3>1. ~ NestedFunctions => (Outermost(parse[i]) => i = 1)
      BY <1>1 DEF NotNested
    <3> QED BY <1>1, <3>1 DEF Nesting, Placed
  <2>3. Running(parse[i])
    BY <1>1 DEF Nesting, Running
  <2> QED BY <2>1, <2>2, <2>3 DEF Fine
<1> QED BY <1>1, <1>2 DEF Inv, Threaded, Frames, IInv

\* The frames below the ones a step works on stay fine.
LEMMA FramesKept ==
  ASSUME Inv, parse' \in Seq(Activation), NEW m \in Nat, Agree(parse, parse', m),
         m = Len(parse) /\ m # 0 => parse[m].at \notin {"func", "pop"},
         Len(sym') \in Nat, Len(sym) <= Len(sym'), NEW i \in 1..m
  PROVE  Fine(i)'
<1>0. /\ Len(sym) \in Nat /\ Len(parse) \in Nat /\ Len(parse') \in Nat
      /\ i \in 1..Len(parse) /\ i \in 1..Len(parse')
      /\ \A k \in 1..m : parse'[k] = parse[k]
  BY LiveTyped, LenProperties DEF Inv, Threaded, Agree
<1>1. Fine(i) /\ parse'[i] = parse[i] /\ parse[i] \in Activation
  BY <1>0, ElementOfSeq DEF Inv
<1>2. Bounded(parse'[i], Len(sym'))
  <2>1. /\ parse[i].s \in Nat /\ parse[i].tail \in Nat
        /\ parse[i].type.ref \in Nat /\ parse[i].base.ref \in Nat
    BY <1>1 DEF Activation, Types
  <2>2. /\ parse[i].s <= Len(sym') /\ parse[i].tail <= Len(sym')
    BY <1>0, <1>1, <2>1 DEF Fine, Bounded
  <2>3. Resolved(parse[i].type, Len(sym')) /\ Resolved(parse[i].base, Len(sym'))
    BY <1>0, <1>1, <2>1 DEF Fine, Bounded, Resolved
  <2> QED BY <1>1, <2>2, <2>3 DEF Bounded
<1>3. (parse[i].at = "func" => parse[i].stage = "body") /\ parse[i].at # "pop"
  <2>1. CASE i = Len(parse)
    <3>1. m = Len(parse) /\ m # 0 /\ i = m BY <2>1, <1>0 DEF Agree
    <3> QED BY <3>1
  <2>2. CASE i < Len(parse)
    BY <2>2, <1>0, <1>1 DEF Fine, Placed
  <2> QED BY <1>0, <2>1, <2>2
<1>5. Placed(parse', i)
  <2>1. i > 1 => parse'[i - 1] = parse[i - 1]
    BY <1>0
  <2> QED BY <2>1, <1>0, <1>1, <1>3 DEF Fine, Placed, Outermost
<1>6. Running(parse[i])'
  BY <1>1, <1>3 DEF Running
<1> QED BY <1>2, <1>5, <1>6 DEF Fine

\* Markers a step keeps, and the marker of a new block.
LEMMA MarkersStay ==
  ASSUME MarkersKept, parse \in Seq(Activation), parse' \in Seq(Activation),
         Local \subseteq Local', Local \subseteq Nat,
         \A i \in 1..Len(parse') :
           HoldsMarker(parse'[i]) =>
             \/ /\ i \in 1..Len(parse) /\ HoldsMarker(parse[i])
                /\ parse'[i].s = parse[i].s
             \/ /\ i = Len(parse') /\ parse'[i].s \in Local
                /\ \A x \in Local : x <= parse'[i].s
  PROVE  MarkersKept'
<1>1. ASSUME NEW i \in 1..Len(parse'), HoldsMarker(parse'[i])
      PROVE  parse'[i].s \in Local
  BY <1>1 DEF MarkersKept
<1>2. ASSUME NEW i \in 1..Len(parse'), NEW j \in 1..Len(parse'), i < j,
             HoldsMarker(parse'[i]), HoldsMarker(parse'[j])
      PROVE  parse'[i].s <= parse'[j].s
  <2>1. Len(parse') \in Nat BY LenProperties
  <2>2. i \in 1..Len(parse) /\ HoldsMarker(parse[i]) /\ parse'[i].s = parse[i].s
    BY <1>2, <2>1
  <2>3. CASE j \in 1..Len(parse) /\ HoldsMarker(parse[j]) /\ parse'[j].s = parse[j].s
    BY <1>2, <2>2, <2>3 DEF MarkersKept
  <2>4. CASE \A x \in Local : x <= parse'[j].s
    BY <1>1, <1>2, <2>4
  <2> QED BY <1>2, <2>3, <2>4
<1>3. \A i \in 1..Len(parse') : HoldsMarker(parse'[i]) => parse'[i].s \in Local'
  BY <1>1
<1> QED BY <1>2, <1>3 DEF MarkersKept, HoldsMarker

\* A step that frees no symbol and leaves the first m frames alone.
LEMMA Step ==
  ASSUME Inv, Threaded', Local \subseteq Local', Len(sym) <= Len(sym'),
         parse' \in Seq(Activation), NEW m \in Nat, Agree(parse, parse', m),
         m = Len(parse) /\ m # 0 => parse[m].at \notin {"func", "pop"},
         \A i \in 1..Len(parse') : i > m => Fine(i)',
         \A i \in 1..Len(parse') :
           i > m /\ HoldsMarker(parse'[i]) =>
             \/ /\ i \in 1..Len(parse) /\ HoldsMarker(parse[i])
                /\ parse'[i].s = parse[i].s
             \/ /\ i = Len(parse') /\ parse'[i].s \in Local
                /\ \A x \in Local : x <= parse'[i].s
  PROVE  Inv'
<1>1. Len(sym') \in Nat
  BY LenProperties DEF Threaded, Table
<1>2. \A i \in 1..m : Fine(i)'
  BY <1>1, FramesKept
<1>3. Len(parse') \in Nat /\ Len(parse) \in Nat
  BY LenProperties DEF Inv
<1>4. \A i \in 1..Len(parse') : Fine(i)'
  <2> SUFFICES ASSUME NEW i \in 1..Len(parse') PROVE Fine(i)'
    OBVIOUS
  <2>1. CASE i > m BY <2>1
  <2>2. CASE ~ (i > m)
    <3>1. i \in 1..m BY <1>3, <2>2
    <3> QED BY <3>1, <1>2
  <2> QED BY <2>1, <2>2
<1>5. ~ NestedFunctions => MarkersKept'
  <2> SUFFICES ASSUME ~ NestedFunctions PROVE MarkersKept'
    OBVIOUS
  <2>1. MarkersKept /\ Local \subseteq Nat
    BY LiveTyped DEF Inv, Threaded, Live
  <2>2. \A i \in 1..Len(parse') :
           HoldsMarker(parse'[i]) =>
             \/ /\ i \in 1..Len(parse) /\ HoldsMarker(parse[i])
                /\ parse'[i].s = parse[i].s
             \/ /\ i = Len(parse') /\ parse'[i].s \in Local
                /\ \A x \in Local : x <= parse'[i].s
    <3> SUFFICES ASSUME NEW i \in 1..Len(parse'), HoldsMarker(parse'[i])
                 PROVE  \/ /\ i \in 1..Len(parse) /\ HoldsMarker(parse[i])
                           /\ parse'[i].s = parse[i].s
                        \/ /\ i = Len(parse') /\ parse'[i].s \in Local
                           /\ \A x \in Local : x <= parse'[i].s
      OBVIOUS
    <3>1. CASE i > m BY <3>1
    <3>2. CASE ~ (i > m)
      <4>1. i \in 1..m /\ i \in 1..Len(parse) /\ parse'[i] = parse[i]
        BY <1>3, <3>2 DEF Agree
      <4> QED BY <4>1
    <3> QED BY <3>1, <3>2
  <2> QED BY <2>1, <2>2, MarkersStay DEF Inv
<1> QED BY <1>4, <1>5 DEF Inv

LEMMA StepLeave ==
  ASSUME Inv, Threaded', Local \subseteq Local', Len(sym) <= Len(sym'),
         parse # <<>>, Leave
  PROVE  Inv'
<1>1. PICK b : b = ButLast(parse) OBVIOUS
<1>2. /\ b \in Seq(Activation) /\ Len(parse) \in Nat \ {0} /\ Len(b) = Len(parse) - 1
      /\ \A i \in 1..(Len(parse) - 1) : b[i] = parse[i]
  BY <1>1, Shorter DEF Inv
<1>3. parse' = b BY <1>1 DEF Leave
<1>4. Len(b) \in Nat /\ Agree(parse, parse', Len(b))
  BY <1>2, <1>3 DEF Agree
<1>5. \A i \in 1..Len(parse') : ~ (i > Len(b)) BY <1>2, <1>3
<1> QED BY <1>2, <1>3, <1>4, <1>5, Step

\* The last frame g becomes f, of the same kind or from an outermost to another.
Succeeds(f, g) ==
  /\ f \in Activation
  /\ f.at = "decl" => g.at = "decl" /\ f.where = g.where
  /\ f.at = "params" => g.at = "params"
  /\ ~ NestedFunctions => (Outermost(f) => Outermost(g))
  /\ HoldsMarker(f) => HoldsMarker(g) /\ f.s = g.s

LEMMA StepGoto ==
  ASSUME Inv, Threaded', Local \subseteq Local', Len(sym) <= Len(sym'),
         parse # <<>>, NEW f, Goto(f), Succeeds(f, top),
         Bounded(f, Len(sym')), Running(f)'
  PROVE  Inv'
<1>0. parse \in Seq(Activation) /\ f \in Activation /\ Len(parse) \in Nat \ {0}
      /\ top = parse[Len(parse)]
  BY Shorter DEF Inv, Succeeds, top
<1>1. /\ parse' \in Seq(Activation) /\ Len(parse') = Len(parse)
      /\ parse'[Len(parse)] = f /\ Agree(parse, parse', Len(parse) - 1)
  BY <1>0, Replaced DEF Goto
<1>2. PICK k : k = Len(parse) OBVIOUS
<1>3. Fine(k) BY <1>0, <1>2 DEF Inv
<1>4. k > 1 => parse'[k - 1] = parse[k - 1]
  BY <1>0, <1>1, <1>2 DEF Agree
<1>5. Placed(parse', k)
  BY <1>0, <1>1, <1>2, <1>3, <1>4 DEF Fine, Placed, Succeeds
<1>6. Fine(k)'
  BY <1>1, <1>2, <1>5 DEF Fine, Running
<1>7. HoldsMarker(f) => HoldsMarker(parse[k]) /\ f.s = parse[k].s
  BY <1>0, <1>2 DEF Succeeds
<1>8. \A i \in 1..Len(parse') : i > k - 1 => i = k
  BY <1>0, <1>1, <1>2
<1>9. k \in 1..Len(parse) /\ k - 1 \in Nat /\ Agree(parse, parse', k - 1)
      /\ k - 1 # Len(parse)
  BY <1>0, <1>1, <1>2
<1>10. \A i \in 1..Len(parse') : i > k - 1 => Fine(i)'
  BY <1>6, <1>8
<1>11. \A i \in 1..Len(parse') :
           i > k - 1 /\ HoldsMarker(parse'[i]) =>
                /\ i \in 1..Len(parse) /\ HoldsMarker(parse[i])
                /\ parse'[i].s = parse[i].s
  BY <1>1, <1>2, <1>7, <1>8, <1>9
<1> QED BY <1>1, <1>9, <1>10, <1>11, Step

\* A new frame f above frame g, or above nothing.
Above(f, g) ==
  /\ f \in Activation /\ f.at \notin {"func", "pop"}
  /\ f.at = "decl" /\ f.where = "member" => g.at = "struct"
  /\ f.at = "decl" /\ f.where = "param"  => g.at = "params"
  /\ f.at = "params" => g.at = "decl"

LEMMA StepEnter ==
  ASSUME Inv, Threaded', Local \subseteq Local', Len(sym) <= Len(sym'),
         NEW f, parse' = Append(parse, f), Above(f, top),
         f.at = "block" => FALSE,
         parse = <<>> => f.at = "decl" /\ f.where \notin {"member", "param"},
         parse # <<>> => top.at \notin {"func", "pop"} /\ ~ Outermost(f),
         Bounded(f, Len(sym'))
  PROVE  Inv'
<1>0. parse \in Seq(Activation) /\ f \in Activation /\ Len(parse) \in Nat
  BY LenProperties DEF Inv, Above
<1>1. /\ parse' \in Seq(Activation) /\ Len(parse') = Len(parse) + 1
      /\ parse'[Len(parse) + 1] = f /\ Agree(parse, parse', Len(parse))
  BY <1>0, Longer
<1>2. PICK k : k = Len(parse) OBVIOUS
<1>3. k # 0 => parse # <<>> /\ parse'[k] = top /\ parse[k] = top
  <2> SUFFICES ASSUME k # 0 PROVE parse # <<>> /\ parse'[k] = top /\ parse[k] = top
    OBVIOUS
  <2>1. parse # <<>> BY <1>2, EmptySeq
  <2>2. parse[k] = top BY <1>0, <1>2, <2>1, Shorter DEF top
  <2> QED BY <2>1, <2>2, <1>0, <1>1, <1>2 DEF Agree
<1>4. k = 0 => parse = <<>>
  BY <1>0, <1>2, EmptySeq
<1>5. Placed(parse', k + 1)
  <2>1. CASE k = 0
    BY <2>1, <1>0, <1>1, <1>2, <1>4 DEF Placed, Above
  <2>2. CASE k # 0
    BY <2>2, <1>0, <1>1, <1>2, <1>3 DEF Placed, Above
  <2> QED BY <2>1, <2>2
<1>6. Fine(k + 1)'
  BY <1>1, <1>2, <1>5 DEF Fine, Running, Above
<1>7. ~ HoldsMarker(f)
  BY DEF HoldsMarker, Above
<1>8. \A i \in 1..Len(parse') : i > k => i = k + 1
  BY <1>0, <1>1, <1>2
<1>9. \A i \in 1..Len(parse') : i > k => Fine(i)'
  BY <1>6, <1>8
<1>10. \A i \in 1..Len(parse') : ~ (i > k /\ HoldsMarker(parse'[i]))
  BY <1>1, <1>2, <1>7, <1>8
<1>11. k \in Nat /\ Agree(parse, parse', k)
       /\ (k = Len(parse) /\ k # 0 => parse[k].at \notin {"func", "pop"})
  BY <1>0, <1>1, <1>2, <1>3
<1> QED BY <1>1, <1>9, <1>10, <1>11, Step

LEMMA StepGotoEnter ==
  ASSUME Inv, Threaded', Local \subseteq Local', Len(sym) <= Len(sym'),
         parse # <<>>, NEW f, NEW g, parse' = Append(Append(ButLast(parse), f), g),
         Succeeds(f, top), f.at # "pop", f.at = "func" => f.stage = "body",
         Above(g, f), ~ Outermost(g),
         g.at = "block" => g.s \in Local /\ \A x \in Local : x <= g.s,
         Bounded(f, Len(sym')), Bounded(g, Len(sym'))
  PROVE  Inv'
<1>0. /\ parse \in Seq(Activation) /\ f \in Activation /\ g \in Activation
      /\ Len(parse) \in Nat \ {0} /\ top = parse[Len(parse)]
  BY Shorter DEF Inv, Succeeds, Above, top
<1>1. PICK k : k = Len(parse) OBVIOUS
<1>2. /\ parse' \in Seq(Activation) /\ Len(parse') = k + 1
      /\ parse'[k] = f /\ parse'[k + 1] = g
      /\ Agree(parse, parse', k - 1)
  <2>1. PICK r : r = Append(ButLast(parse), f) OBVIOUS
  <2>2. /\ r \in Seq(Activation) /\ Len(r) = Len(parse) /\ r[Len(parse)] = f
        /\ Agree(parse, r, Len(parse) - 1)
    BY <1>0, <2>1, Replaced
  <2>3. /\ Append(r, g) \in Seq(Activation) /\ Len(Append(r, g)) = Len(r) + 1
        /\ Append(r, g)[Len(r) + 1] = g /\ Agree(r, Append(r, g), Len(r))
    BY <1>0, <2>2, Longer
  <2>4. parse' = Append(r, g) BY <2>1
  <2> QED BY <1>0, <1>1, <2>2, <2>3, <2>4 DEF Agree
<1>3. Fine(k) BY <1>0, <1>1 DEF Inv
<1>4. k > 1 => parse'[k - 1] = parse[k - 1]
  BY <1>0, <1>1, <1>2 DEF Agree
<1>5. Placed(parse', k)
  BY <1>0, <1>1, <1>2, <1>3, <1>4 DEF Fine, Placed, Succeeds
<1>6. Placed(parse', k + 1)
  BY <1>0, <1>1, <1>2 DEF Placed, Above
<1>7. Fine(k)' /\ Fine(k + 1)'
  BY <1>2, <1>5, <1>6 DEF Fine, Running, Above
<1>8. HoldsMarker(f) => HoldsMarker(parse[k]) /\ f.s = parse[k].s
  BY <1>0, <1>1 DEF Succeeds
<1>9. HoldsMarker(g) => g.s \in Local /\ \A x \in Local : x <= g.s
  BY DEF HoldsMarker, Above
<1>10. \A i \in 1..Len(parse') : i > k - 1 => i = k \/ i = k + 1
  BY <1>0, <1>1, <1>2
<1>11. k \in 1..Len(parse) /\ k - 1 \in Nat /\ Agree(parse, parse', k - 1)
       /\ k - 1 # Len(parse)
  BY <1>0, <1>1, <1>2
<1>12. \A i \in 1..Len(parse') : i > k - 1 => Fine(i)'
  BY <1>7, <1>10
<1>13. \A i \in 1..Len(parse') :
           i > k - 1 /\ HoldsMarker(parse'[i]) =>
             \/ /\ i \in 1..Len(parse) /\ HoldsMarker(parse[i])
                /\ parse'[i].s = parse[i].s
             \/ /\ i = Len(parse') /\ parse'[i].s \in Local
                /\ \A x \in Local : x <= parse'[i].s
  BY <1>2, <1>8, <1>9, <1>10, <1>11
<1> QED BY <1>2, <1>11, <1>12, <1>13, Step

-----------------------------------------------------------------------------
(* The actions, those that push nothing first.                             *)

\* The innermost frame, and the ones it can go on as.
LEMMA TopFine ==
  ASSUME Inv, parse # <<>>
  PROVE  /\ top \in Activation /\ top = parse[Len(parse)] /\ Len(parse) \in Nat \ {0}
         /\ Bounded(top, Len(sym)) /\ Running(top)
         /\ top.at \in {"params"} => Len(parse) > 1 /\ parse[Len(parse) - 1].at = "decl"
         /\ top.at = "decl" /\ top.where = "member" =>
              Len(parse) > 1 /\ parse[Len(parse) - 1].at = "struct"
         /\ top.at = "decl" /\ top.where = "param" =>
              Len(parse) > 1 /\ parse[Len(parse) - 1].at = "params"
<1>1. /\ Len(parse) \in Nat \ {0} /\ top = parse[Len(parse)] /\ top \in Activation
  BY Shorter DEF Inv, top
<1>2. Fine(Len(parse))
  BY <1>1 DEF Inv
<1> QED BY <1>1, <1>2 DEF Fine, Placed

LEMMA Wider ==
  ASSUME NEW f \in Activation, NEW n \in Nat, NEW m \in Nat, n <= m, Bounded(f, n)
  PROVE  Bounded(f, m)
<1>1. f.s \in Nat /\ f.tail \in Nat /\ f.type.ref \in Nat /\ f.base.ref \in Nat
  BY DEF Activation, Types
<1> QED BY <1>1 DEF Bounded, Resolved

LEMMA WithStage ==
  ASSUME NEW f \in Activation, NEW stage \in {"specified", "pointer", "named", "complete",
                                              "done", "prolog", "body", "statements"}
  PROVE  /\ [f EXCEPT !.stage = stage] \in Activation
         /\ [f EXCEPT !.stage = stage].at = f.at
         /\ [f EXCEPT !.stage = stage].stage = stage
         /\ [f EXCEPT !.stage = stage].where = f.where
         /\ [f EXCEPT !.stage = stage].s = f.s
         /\ [f EXCEPT !.stage = stage].tail = f.tail
         /\ [f EXCEPT !.stage = stage].type = f.type
         /\ [f EXCEPT !.stage = stage].base = f.base
BY DEF Activation

LEMMA Expected ==
  ASSUME parse # <<>>, Expects # "nothing"
  PROVE  /\ top.at \in {"block", "struct", "params"}
         /\ Expects \in {"local", "member", "param"}
         /\ Expects = "member" => top.at = "struct"
         /\ Expects = "param" => top.at = "params"
BY DEF Expects, At, top

LEMMA Declaring ==
  ASSUME NEW where \in {"global", "local", "member", "param", "sizeof"},
         NEW stage \in {"tagged", "specified"}, NEW type \in Types,
         NEW n \in Nat, Resolved(type, n),
         NEW f, f = DeclFrame(where, stage, type)
  PROVE  /\ f \in Activation /\ Bounded(f, n)
         /\ f.at = "decl" /\ f.where = where
<1>1. /\ f.at = "decl" /\ f.where = where /\ f.type = type /\ f.base = type
      /\ f.s = 0 /\ f.tail = 0
  BY DEF DeclFrame
<1>2. f \in Activation
  BY DEF DeclFrame, Activation, AllWords
<1> QED BY <1>1, <1>2 DEF Bounded

LEMMA StatementFine ==
  ASSUME NEW f \in Activation, NEW n \in Nat, Bounded(f, n),
         f.at \notin {"func", "pop"}
  PROVE  /\ Statement(f) \in Activation /\ Bounded(Statement(f), n)
         /\ Statement(f).at = f.at /\ Succeeds(Statement(f), f)
<1>1. PICK g : g = [f EXCEPT !.stage = "statements"] OBVIOUS
<1>2. /\ g \in Activation /\ g.at = f.at /\ g.where = f.where /\ g.s = f.s
      /\ g.tail = f.tail /\ g.type = f.type /\ g.base = f.base
  BY <1>1, WithStage
<1>3. Statement(f) = g \/ Statement(f) = f
  BY <1>1 DEF Statement
<1>4. CASE Statement(f) = g
  BY <1>2, <1>4 DEF Bounded, Succeeds, Outermost, HoldsMarker
<1>5. CASE Statement(f) = f
  BY <1>5 DEF Succeeds
<1> QED BY <1>3, <1>4, <1>5

\* A declaration may begin: in a declaration list, or as the operand of sizeof.
Declares(stage, type) ==
  \/ /\ Expects # "nothing"
     /\ parse' = Append(parse, DeclFrame(Expects, stage, type))
  \/ /\ InExpression
     /\ parse' = Append(Append(ButLast(parse), Statement(top)),
                        DeclFrame("sizeof", stage, type))

LEMMA Declaration ==
  ASSUME Inv, Threaded', Local \subseteq Local', Len(sym) <= Len(sym'),
         NEW stage \in {"tagged", "specified"}, NEW type \in Types,
         Resolved(type, Len(sym')), Declares(stage, type)
  PROVE  Inv'
<1>0. Len(sym) \in Nat /\ Len(sym') \in Nat
  BY LenProperties DEF Inv, Threaded, Table
<1>1. CASE Expects # "nothing" /\ parse' = Append(parse, DeclFrame(Expects, stage, type))
  <2>1. Expects \in {"global", "local", "member", "param"}
    BY <1>1 DEF Expects
  <2>2. PICK f : f = DeclFrame(Expects, stage, type) OBVIOUS
  <2>3. /\ f \in Activation /\ Bounded(f, Len(sym'))
        /\ f.at = "decl" /\ f.where = Expects
    BY <1>0, <2>1, <2>2, Declaring
  <2>4. parse = <<>> => Expects = "global"
    BY DEF Expects
  <2>5. parse # <<>> => /\ top.at \in {"block", "struct", "params"} /\ Expects # "global"
                        /\ Expects = "member" => top.at = "struct"
                        /\ Expects = "param" => top.at = "params"
    BY <1>1, Expected
  <2>6. parse' = Append(parse, f)
    BY <1>1, <2>2
  <2>7. parse # <<>> => top.at \notin {"func", "pop"} /\ ~ Outermost(f)
    BY <2>3, <2>5 DEF Outermost
  <2>8. CASE parse = <<>>
    <3>1. f.where \notin {"member", "param"} BY <2>3, <2>4, <2>8
    <3>2. Above(f, top) BY <2>3, <3>1 DEF Above
    <3> QED BY <2>3, <2>6, <2>8, <3>1, <3>2, StepEnter
  <2>9. CASE parse # <<>>
    <3>1. Above(f, top) BY <2>3, <2>5, <2>9 DEF Above
    <3> QED BY <2>3, <2>6, <2>7, <2>9, <3>1, StepEnter
  <2> QED BY <2>8, <2>9
<1>2. CASE /\ InExpression
           /\ parse' = Append(Append(ButLast(parse), Statement(top)),
                              DeclFrame("sizeof", stage, type))
  <2>1. parse # <<>> /\ top.at \in {"block", "decl"}
    BY <1>2 DEF InExpression, Decl, At, top
  <2>2. top \in Activation /\ Bounded(top, Len(sym'))
    BY <1>0, <2>1, TopFine, Wider
  <2>3. PICK f : f = Statement(top) OBVIOUS
  <2>4. f \in Activation /\ Bounded(f, Len(sym')) /\ f.at = top.at /\ Succeeds(f, top)
    BY <1>0, <2>1, <2>2, <2>3, StatementFine
  <2>5. PICK g : g = DeclFrame("sizeof", stage, type) OBVIOUS
  <2>6. /\ g \in Activation /\ Bounded(g, Len(sym')) /\ g.at = "decl" /\ g.where = "sizeof"
    BY <1>0, <2>5, Declaring
  <2>7. Above(g, f) /\ ~ Outermost(g) BY <2>6 DEF Above, Outermost
  <2>8. parse' = Append(Append(ButLast(parse), f), g)
    BY <1>2, <2>3, <2>5
  <2> QED BY <2>1, <2>4, <2>6, <2>7, <2>8, StepGotoEnter
<1> QED BY <1>1, <1>2 DEF Declares

LEMMA BasicTypeKeeps ==
  ASSUME Inv, BasicType PROVE Inv'
<1>1. Threaded' /\ Local \subseteq Local' /\ Len(sym') = Len(sym) /\ Len(sym) \in Nat
  BY Untouched, LiveTyped DEF Inv, Threaded, BasicType
<1>2. int_type \in Types /\ Resolved(int_type, Len(sym'))
  BY <1>1 DEF int_type, Type, Types, Resolved
<1>3. Declares("specified", int_type)
  BY DEF BasicType, Declares, Enter, EnterExpr
<1> QED BY <1>1, <1>2, <1>3, Declaration

LEMMA StructNameKeeps ==
  ASSUME Inv, NEW w \in Words, StructName(w) PROVE Inv'
<1>1. Table /\ Threaded /\ Len(sym) \in Nat
  BY LiveTyped DEF Inv, Threaded
<1>2. PICK r : r = IF struct_search(w) # 0 THEN struct_search(w) ELSE Fresh
  OBVIOUS
<1>3. PICK type : type = Type("struct", r)
  OBVIOUS
<1>4. Declares("tagged", type)
  BY <1>2, <1>3 DEF StructName, Declares, Enter, EnterExpr
<1>5. <<"tag", w>> \in Names
  BY DEF Names, AllWords
<1>6. CASE struct_search(w) # 0
  <2>1. Threaded' /\ Local \subseteq Local' /\ Len(sym') = Len(sym)
    BY <1>1, <1>6, Untouched DEF StructName
  <2>2. r \in 0..Len(sym)
    BY <1>1, <1>2, <1>5, <1>6 DEF Table, struct_search
  <2>3. type \in Types /\ Resolved(type, Len(sym'))
    BY <1>1, <1>3, <2>1, <2>2 DEF Type, Types, Resolved
  <2> QED BY <1>1, <1>4, <2>1, <2>3, Declaration
<1>7. CASE struct_search(w) = 0
  <2>1. PICK v : v = V("tag", w) OBVIOUS
  <2>2. PICK t : t = Type("struct", 0) OBVIOUS
  <2>3. v \in Word /\ t \in Types /\ Resolved(t, Len(sym) + 1)
    BY <1>1, <2>1, <2>2 DEF V, Word, AllWords, Type, Types, Resolved
  <2>4. sym_push(v) /\ sym' = Append(sym, NewSymbol(v, t, -1, 0))
    BY <1>7, <2>1, <2>2 DEF StructName
  <2>5. /\ PushesOn(v)
        /\ head' = IF OnChain(v) THEN [head EXCEPT ![NameOf(v)] = Fresh] ELSE head
    BY <2>4, SymPush
  <2>6. Threaded' /\ Local \subseteq Local' /\ Len(sym') = Len(sym) + 1
    <3>1. -1 \in {-1, 0} /\ 0 \in Nat /\ 0 <= Len(sym) + 1
      BY <1>1
    <3> QED BY <1>1, <2>3, <2>4, <2>5, <3>1, SymPushed
  <2>7. type \in Types /\ Resolved(type, Len(sym'))
    BY <1>1, <1>2, <1>3, <1>7, <2>6 DEF Type, Types, Resolved, Fresh
  <2> QED BY <1>1, <1>4, <2>6, <2>7, Declaration
<1> QED BY <1>6, <1>7

LEMMA DeclTop ==
  ASSUME NEW S, Decl(S)
  PROVE  parse # <<>> /\ top.at = "decl" /\ top.stage \in S
BY DEF Decl, At, top

LEMMA IntTyped ==
  ASSUME NEW n \in Nat PROVE int_type \in Types /\ Resolved(int_type, n)
BY DEF int_type, Type, Types, Resolved

IsFrame(f, at, stage, m, t) ==
  f \in Activation /\ f.at = at /\ f.stage = stage /\ f.s = m /\ f.tail = t

LEMMA FrameFields ==
  ASSUME NEW at \in {"struct", "params", "func", "block", "pop"},
         NEW stage \in {"", "members", "params", "enter", "declarations"},
         NEW m \in Nat, NEW t \in Nat
  PROVE  IsFrame(Frame(at, stage, m, t), at, stage, m, t)
<1>1. int_type \in Types
  BY IntTyped
<1> QED BY <1>1 DEF IsFrame, Frame, Activation, AllWords

LEMMA FrameBounded ==
  ASSUME NEW at, NEW stage, NEW m \in Nat, NEW t \in Nat, NEW n \in Nat, m <= n, t <= n
  PROVE  Bounded(Frame(at, stage, m, t), n)
BY IntTyped DEF Bounded, Frame

LEMMA OpenStructKeeps ==
  ASSUME Inv, OpenStruct PROVE Inv'
<1>1. Threaded' /\ Local \subseteq Local' /\ Len(sym') = Len(sym) /\ Len(sym) \in Nat
  BY Untouched, LiveTyped DEF Inv, Threaded, OpenStruct
<1>2. parse # <<>> /\ top.at = "decl"
  BY DeclTop DEF OpenStruct
<1>3. top \in Activation /\ Bounded(top, Len(sym))
  BY <1>2, TopFine
<1>4. top.base.ref \in Nat /\ top.base.ref <= Len(sym)
  BY <1>3 DEF Bounded, Resolved, Activation, Types
<1>5. PICK f : f = [top EXCEPT !.stage = "specified"] OBVIOUS
<1>6. /\ f \in Activation /\ f.at = top.at /\ f.where = top.where /\ f.s = top.s
      /\ f.tail = top.tail /\ f.type = top.type /\ f.base = top.base
  BY <1>3, <1>5, WithStage
<1>7. Bounded(f, Len(sym')) /\ Succeeds(f, top)
  BY <1>1, <1>2, <1>3, <1>6 DEF Bounded, Succeeds, Outermost, HoldsMarker
<1>8. PICK g : g = Frame("struct", "members", top.base.ref, top.base.ref) OBVIOUS
<1>9. g \in Activation /\ Bounded(g, Len(sym')) /\ g.at = "struct"
  <2>1. IsFrame(g, "struct", "members", top.base.ref, top.base.ref)
    BY <1>4, <1>8, FrameFields
  <2>2. Bounded(g, Len(sym'))
    BY <1>1, <1>4, <1>8, FrameBounded
  <2> QED BY <2>1, <2>2 DEF IsFrame
<1>10. Above(g, f) /\ ~ Outermost(g) BY <1>9 DEF Above, Outermost
<1>11. parse' = Append(Append(ButLast(parse), f), g)
  BY <1>5, <1>8 DEF OpenStruct
<1> QED BY <1>1, <1>2, <1>6, <1>7, <1>9, <1>10, <1>11, StepGotoEnter

\* One field of one symbol is written.
LEMMA Rewritten ==
  ASSUME Threaded, NEW t \in 1..Len(sym), NEW f \in Symbol,
         f.v = sym[t].v, f.prev = sym[t].prev,
         f.next <= Len(sym), Resolved(f.type, Len(sym)),
         sym' = [sym EXCEPT ![t] = f],
         UNCHANGED <<global_sym_stack, local_sym_stack, head>>
  PROVE  Threaded' /\ Local \subseteq Local' /\ Len(sym') = Len(sym)
<1>1. sym \in Seq(Symbol) /\ Linked
  BY DEF Threaded, Table, Linked
<1>2. /\ sym' \in Seq(Symbol) /\ Len(sym') = Len(sym)
      /\ \A i \in 1..Len(sym) : sym'[i] = IF i = t THEN f ELSE sym[i]
  BY <1>1, ExceptSeq
<1>3. SameChains BY <1>2 DEF SameChains
<1>4. Linked' BY <1>1, <1>2 DEF Linked
<1>5. Local' = Local BY DEF Local, Members
<1> QED BY <1>2, <1>3, <1>4, <1>5, SameTable

LEMMA CloseStructKeeps ==
  ASSUME Inv, CloseStruct PROVE Inv'
<1>0. /\ Leave /\ UNCHANGED <<global_sym_stack, local_sym_stack, head>>
      /\ sym' = [sym EXCEPT ![top.s].c = 0] /\ parse # <<>> /\ Threaded
      /\ sym \in Seq(Symbol) /\ Len(sym) \in Nat
  BY LiveTyped DEF CloseStruct, At, Inv, Threaded, Table
<1>1. CASE top.s \in 1..Len(sym)
  <2>1. PICK t \in 1..Len(sym) : t = top.s BY <1>1
  <2>2. PICK g : g = sym[t] OBVIOUS
  <2>3. g \in Symbol BY <1>0, <2>1, <2>2, ElementOfSeq
  <2>4. PICK f : f = [g EXCEPT !.c = 0] OBVIOUS
  <2>5. f \in Symbol /\ f.v = g.v /\ f.prev = g.prev /\ f.type = g.type /\ f.next = g.next
    BY <2>3, <2>4, SizeWritten
  <2>6. sym' = [sym EXCEPT ![t] = f] BY <1>0, <2>1, <2>2, <2>4
  <2>7. g.next <= Len(sym) /\ Resolved(g.type, Len(sym))
    BY <1>0, <2>1, <2>2 DEF Threaded, Table
  <2>8. Threaded' /\ Local \subseteq Local' /\ Len(sym') = Len(sym)
    BY <1>0, <2>2, <2>5, <2>6, <2>7, Rewritten
  <2> QED BY <1>0, <2>8, StepLeave
<1>2. CASE top.s \notin 1..Len(sym)
  <2>1. sym \in [1..Len(sym) -> Symbol]
    BY <1>0, LenProperties
  <2>2. sym' = sym BY <1>0, <1>2, <2>1
  <2>3. NoSymbol BY <1>0, <2>2 DEF NoSymbol
  <2>4. Threaded' /\ Local \subseteq Local' /\ Len(sym') = Len(sym)
    BY <1>0, <2>3, Untouched
  <2> QED BY <1>0, <2>4, StepLeave
<1> QED BY <1>1, <1>2

\* A declaration goes on, with another stage, type or name.
LEMMA DeclGoesOn ==
  ASSUME Inv, Threaded', Local \subseteq Local', Len(sym) <= Len(sym'),
         parse # <<>>, top.at = "decl", NEW f \in Activation, Goto(f),
         f.at = "decl", f.where = top.where, f.s = top.s, f.tail = top.tail,
         f.base = top.base, Resolved(f.type, Len(sym'))
  PROVE  Inv'
<1>1. Len(sym) \in Nat /\ Len(sym') \in Nat
  BY LenProperties DEF Inv, Threaded, Table
<1>2. top \in Activation /\ Bounded(top, Len(sym'))
  BY <1>1, TopFine, Wider
<1>3. Bounded(f, Len(sym'))
  BY <1>2 DEF Bounded
<1>4. Succeeds(f, top)
  BY DEF Succeeds, Outermost, HoldsMarker
<1>5. Running(f)'
  BY DEF Running
<1> QED BY <1>3, <1>4, <1>5, StepGoto

LEMMA IdentifierKeeps ==
  ASSUME Inv, NEW w \in Words, Identifier(w) PROVE Inv'
<1>1. Threaded' /\ Local \subseteq Local' /\ Len(sym') = Len(sym) /\ Len(sym) \in Nat
  BY Untouched, LiveTyped DEF Inv, Threaded, Identifier
<1>2. parse # <<>> /\ top.at = "decl"
  BY DeclTop DEF Identifier
<1>3. top \in Activation /\ Bounded(top, Len(sym))
  BY <1>2, TopFine
<1>4. PICK f : f = [top EXCEPT !.stage = "named", !.word = w] OBVIOUS
<1>5. /\ f \in Activation /\ f.at = "decl" /\ f.where = top.where /\ f.s = top.s
      /\ f.tail = top.tail /\ f.type = top.type /\ f.base = top.base
  BY <1>2, <1>3, <1>4 DEF Activation, AllWords
<1>6. Goto(f) BY <1>4 DEF Identifier
<1>7. Resolved(f.type, Len(sym')) BY <1>1, <1>3, <1>5 DEF Bounded
<1> QED BY <1>1, <1>2, <1>5, <1>6, <1>7, DeclGoesOn

LEMMA CommaKeeps ==
  ASSUME Inv, Comma PROVE Inv'
<1>1. Threaded' /\ Local \subseteq Local' /\ Len(sym') = Len(sym) /\ Len(sym) \in Nat
  BY Untouched, LiveTyped DEF Inv, Threaded, Comma
<1>2. parse # <<>> /\ top.at = "decl"
  BY DeclTop DEF Comma
<1>3. top \in Activation /\ Bounded(top, Len(sym))
  BY <1>2, TopFine
<1>4. PICK f : f = [top EXCEPT !.stage = "pointer", !.type = top.base] OBVIOUS
<1>5. /\ f \in Activation /\ f.at = "decl" /\ f.where = top.where /\ f.s = top.s
      /\ f.tail = top.tail /\ f.type = top.base /\ f.base = top.base
  BY <1>2, <1>3, <1>4 DEF Activation
<1>6. Goto(f) BY <1>4 DEF Comma
<1>7. Resolved(f.type, Len(sym')) BY <1>1, <1>3, <1>5 DEF Bounded
<1> QED BY <1>1, <1>2, <1>5, <1>6, <1>7, DeclGoesOn

LEMMA EndDeclarationKeeps ==
  ASSUME Inv, EndDeclaration PROVE Inv'
<1>1. Threaded' /\ Local \subseteq Local' /\ Len(sym') = Len(sym) /\ Len(sym) \in Nat
  BY Untouched, LiveTyped DEF Inv, Threaded, EndDeclaration
<1>2. parse # <<>> /\ Leave
  BY DeclTop DEF EndDeclaration
<1> QED BY <1>1, <1>2, StepLeave

LEMMA OpenParamsKeeps ==
  ASSUME Inv, OpenParams PROVE Inv'
<1>1. Threaded' /\ Local \subseteq Local' /\ Len(sym') = Len(sym) /\ Len(sym) \in Nat
  BY Untouched, LiveTyped DEF Inv, Threaded, OpenParams
<1>2. parse # <<>> /\ top.at = "decl"
  BY DeclTop DEF OpenParams
<1>3. PICK f : f = Frame("params", "params", 0, 0) OBVIOUS
<1>4. IsFrame(f, "params", "params", 0, 0)
  BY <1>3, FrameFields
<1>5. Bounded(f, Len(sym'))
  BY <1>1, <1>3, FrameBounded
<1>6. Above(f, top) /\ ~ Outermost(f) /\ f.at # "block"
  BY <1>2, <1>4 DEF IsFrame, Above, Outermost
<1>7. parse' = Append(parse, f)
  BY <1>3 DEF OpenParams, Enter
<1> QED BY <1>1, <1>2, <1>5, <1>6, <1>7, StepEnter

\* The marker of a new block.
LEMMA NewBlock ==
  ASSUME Table, local_sym_stack # <<>>, NEW g, g = BlockFrame, NEW f
  PROVE  /\ Above(g, f) /\ ~ Outermost(g) /\ Bounded(g, Len(sym))
         /\ g.at = "block" /\ g.s \in Local /\ \A x \in Local : x <= g.s
<1>1. Len(sym) \in Nat /\ Stack(local_sym_stack, Len(sym))
  BY LiveTyped DEF Table
<1>2. PICK n : n = Last(local_sym_stack) OBVIOUS
<1>3. n \in Local /\ n \in 1..Len(sym) /\ \A x \in Local : x <= n
  BY <1>1, <1>2, StackTop DEF Local
<1>4. g = Frame("block", "declarations", n, 0)
  BY <1>2 DEF BlockFrame
<1>5. n \in Nat /\ n <= Len(sym) /\ 0 \in Nat /\ 0 <= Len(sym)
  BY <1>1, <1>3
<1>6. IsFrame(g, "block", "declarations", n, 0)
  BY <1>4, <1>5, FrameFields
<1>7. Bounded(g, Len(sym))
  BY <1>1, <1>4, <1>5, FrameBounded
<1> QED BY <1>3, <1>6, <1>7 DEF IsFrame, Above, Outermost

LEMMA FuncBlockKeeps ==
  ASSUME Inv, FuncBlock PROVE Inv'
<1>1. Threaded' /\ Local \subseteq Local' /\ Len(sym') = Len(sym) /\ Len(sym) \in Nat
      /\ Table
  BY Untouched, LiveTyped DEF Inv, Threaded, FuncBlock
<1>2. parse # <<>> /\ top.at = "func" /\ top.stage = "prolog"
  BY DEF FuncBlock, At, top
<1>3. top \in Activation /\ Bounded(top, Len(sym)) /\ Running(top)
  BY <1>2, TopFine
<1>4. local_sym_stack # <<>>
  BY <1>2, <1>3 DEF Running
<1>5. PICK f : f = [top EXCEPT !.stage = "body"] OBVIOUS
<1>6. /\ f \in Activation /\ f.at = top.at /\ f.where = top.where /\ f.s = top.s
      /\ f.tail = top.tail /\ f.type = top.type /\ f.base = top.base /\ f.stage = "body"
  BY <1>3, <1>5, WithStage
<1>7. Bounded(f, Len(sym')) /\ Succeeds(f, top)
  BY <1>1, <1>2, <1>3, <1>6 DEF Bounded, Succeeds, Outermost, HoldsMarker
<1>8. PICK g : g = BlockFrame OBVIOUS
<1>9. /\ Above(g, f) /\ ~ Outermost(g) /\ Bounded(g, Len(sym'))
      /\ g.at = "block" /\ g.s \in Local /\ \A x \in Local : x <= g.s
  BY <1>1, <1>4, <1>8, NewBlock
<1>10. parse' = Append(Append(ButLast(parse), f), g)
  BY <1>5, <1>8 DEF FuncBlock
<1> QED BY <1>1, <1>2, <1>6, <1>7, <1>9, <1>10, StepGotoEnter

LEMMA OpenBlockKeeps ==
  ASSUME Inv, OpenBlock PROVE Inv'
<1>1. Threaded' /\ Local \subseteq Local' /\ Len(sym') = Len(sym) /\ Len(sym) \in Nat
      /\ Table
  BY Untouched, LiveTyped DEF Inv, Threaded, OpenBlock
<1>2. parse # <<>> /\ top.at = "block" /\ local_sym_stack # <<>>
  BY DEF OpenBlock, At, top
<1>3. top \in Activation /\ Bounded(top, Len(sym))
  BY <1>2, TopFine
<1>4. PICK f : f = Statement(top) OBVIOUS
<1>5. f \in Activation /\ Bounded(f, Len(sym')) /\ f.at = "block" /\ Succeeds(f, top)
  BY <1>1, <1>2, <1>3, <1>4, StatementFine
<1>6. PICK g : g = BlockFrame OBVIOUS
<1>7. /\ Above(g, f) /\ ~ Outermost(g) /\ Bounded(g, Len(sym'))
      /\ g.at = "block" /\ g.s \in Local /\ \A x \in Local : x <= g.s
  BY <1>1, <1>2, <1>6, NewBlock
<1>8. parse' = Append(Append(ButLast(parse), f), g)
  BY <1>4, <1>6 DEF OpenBlock, EnterExpr
<1> QED BY <1>1, <1>2, <1>5, <1>7, <1>8, StepGotoEnter

\* sym_pop begins.
LEMMA PopBegins ==
  ASSUME Inv, parse # <<>>, NEW s \in Nat, s <= Len(sym), PopTo(s),
         s # 0 => HoldsMarker(top) /\ s = top.s,
         ~ NestedFunctions => (s = 0 => Outermost(top))
  PROVE  Inv'
<1>1. Threaded' /\ Local \subseteq Local' /\ Len(sym') = Len(sym) /\ Len(sym) \in Nat
  BY Untouched, LiveTyped DEF Inv, Threaded, PopTo
<1>2. PICK f : f = Frame("pop", "", s, 0) OBVIOUS
<1>3. IsFrame(f, "pop", "", s, 0)
  BY <1>2, FrameFields
<1>4. Bounded(f, Len(sym'))
  <2>1. s <= Len(sym') /\ 0 <= Len(sym') /\ Len(sym') \in Nat
    BY <1>1
  <2> QED BY <1>2, <2>1, FrameBounded
<1>5. Succeeds(f, top)
  BY <1>3 DEF IsFrame, Succeeds, Outermost, HoldsMarker
<1>6. Running(f)'
  BY <1>3 DEF IsFrame, Running
<1>7. Goto(f) BY <1>2 DEF PopTo
<1> QED BY <1>1, <1>4, <1>5, <1>6, <1>7, StepGoto

LEMMA CloseBlockKeeps ==
  ASSUME Inv, CloseBlock PROVE Inv'
<1>1. parse # <<>> /\ top.at = "block" /\ PopTo(top.s)
  BY DEF CloseBlock, At, top
<1>2. /\ top \in Activation /\ Bounded(top, Len(sym)) /\ top = parse[Len(parse)]
      /\ Len(parse) \in Nat \ {0}
  BY <1>1, TopFine
<1>3. top.s \in Nat /\ top.s <= Len(sym) /\ HoldsMarker(top)
  BY <1>1, <1>2 DEF Activation, Bounded, HoldsMarker
<1>4. ~ NestedFunctions => top.s # 0
  <2> SUFFICES ASSUME ~ NestedFunctions PROVE top.s # 0
    OBVIOUS
  <2>1. top.s \in Local
    BY <1>2, <1>3 DEF Inv, MarkersKept
  <2> QED BY <2>1, LiveTyped DEF Inv, Threaded, Live
<1> QED BY <1>1, <1>3, <1>4, PopBegins

LEMMA EndFunctionKeeps ==
  ASSUME Inv, EndFunction PROVE Inv'
<1>1. parse # <<>> /\ top.at = "func" /\ PopTo(0)
  BY DEF EndFunction, At, top
<1>2. Outermost(top) BY <1>1 DEF Outermost
<1>3. 0 \in Nat /\ 0 <= Len(sym)
  BY LiveTyped DEF Inv, Threaded
<1> QED BY <1>1, <1>2, <1>3, PopBegins

\* A turn of sym_pop frees the newest local symbol, which the markers are older
\* than: the marker of sym_pop itself is on the stack and is another symbol.
LEMMA PopKeepsMarkers ==
  ASSUME Inv, parse # <<>>, top.at = "pop", ~ NestedFunctions,
         NEW n \in Local, \A x \in Local : x <= n, n # top.s,
         NEW i \in 1..Len(parse), HoldsMarker(parse[i])
  PROVE  parse[i].s \in Local \ {n}
<1>1. /\ Len(parse) \in Nat \ {0} /\ top = parse[Len(parse)] /\ MarkersKept
      /\ Local \subseteq Nat \ {0} /\ Fine(Len(parse))
  BY TopFine, LiveTyped DEF Inv, Threaded, Live
<1>2. parse[i].s \in Local
  BY <1>1 DEF MarkersKept
<1>3. CASE i = Len(parse)
  BY <1>1, <1>2, <1>3
<1>4. CASE i < Len(parse)
  <2>1. top.s # 0
    <3>1. Outermost(top) => Len(parse) = 1
      BY <1>1 DEF Fine, Placed
    <3> QED BY <1>1, <1>4, <3>1 DEF Outermost
  <2>2. HoldsMarker(top)
    BY <2>1 DEF HoldsMarker
  <2>3. parse[i].s <= top.s /\ top.s \in Local
    BY <1>1, <1>4, <2>2 DEF MarkersKept
  <2>4. PICK t : t = top.s OBVIOUS
  <2>5. PICK a : a = parse[i].s OBVIOUS
  <2>6. \A x \in Local : x \in Nat BY <1>1
  <2>7. a \in Nat /\ t \in Nat /\ n \in Nat
    BY <1>2, <2>3, <2>4, <2>5, <2>6
  <2>8. a <= t /\ t <= n /\ n # t
    BY <2>3, <2>4, <2>5
  <2>9. a # n BY <2>7, <2>8
  <2> QED BY <1>2, <2>5, <2>9
<1> QED BY <1>1, <1>3, <1>4

LEMMA SymPopKeeps ==
  ASSUME Inv, sym_pop PROVE Inv'
<1>1. parse # <<>> /\ top.at = "pop" /\ local_sym_stack # <<>> /\ Threaded
      /\ Len(sym) \in Nat
  BY LiveTyped DEF sym_pop, At, top, Inv, Threaded
<1>2. PICK n : n = Last(local_sym_stack) OBVIOUS
<1>3. CASE Leave /\ NoSymbol
  <2>1. Threaded' /\ Local \subseteq Local' /\ Len(sym') = Len(sym)
    BY <1>1, <1>3, Untouched
  <2> QED BY <1>1, <1>3, <2>1, StepLeave
<1>4. CASE /\ n # top.s
           /\ head' = IF OnChain(sym[n].v)
                      THEN [head EXCEPT ![NameOf(sym[n].v)] = Unhooked(n)]
                      ELSE head
           /\ local_sym_stack' = ButLast(local_sym_stack)
           /\ IF Len(local_sym_stack) = 1 THEN Leave ELSE UNCHANGED parse
           /\ UNCHANGED <<sym, global_sym_stack>>
  <2>1. Pops
    BY <1>1, <1>2, <1>4 DEF Pops, Unhooked
  <2>2. /\ Threaded' /\ Local' = Local \ {n} /\ n \in Local
        /\ \A x \in Local : x <= n
    BY <1>1, <1>2, <2>1, PopTable
  <2>3. /\ Len(parse) \in Nat \ {0} /\ top = parse[Len(parse)]
        /\ \A i \in 1..Len(parse) : Fine(i)
    BY <1>1, TopFine DEF Inv
  <2>4. \/ parse' = parse
        \/ /\ parse' \in Seq(Activation) /\ Len(parse') = Len(parse) - 1
           /\ \A i \in 1..(Len(parse) - 1) : parse'[i] = parse[i]
    <3>1. CASE Leave
      <4>1. PICK b : b = ButLast(parse) OBVIOUS
      <4>2. /\ b \in Seq(Activation) /\ Len(b) = Len(parse) - 1
            /\ \A i \in 1..(Len(parse) - 1) : b[i] = parse[i]
        BY <1>1, <4>1, Shorter DEF Inv
      <4>3. parse' = b BY <3>1, <4>1 DEF Leave
      <4> QED BY <4>2, <4>3
    <3>2. CASE UNCHANGED parse
      BY <3>2
    <3> QED BY <1>4, <3>1, <3>2
  <2>5. /\ parse' \in Seq(Activation) /\ Len(parse') <= Len(parse)
        /\ Len(parse') \in Nat
        /\ \A i \in 1..Len(parse') : parse'[i] = parse[i]
    <3>1. CASE parse' = parse
      BY <2>3, <3>1 DEF Inv
    <3>2. CASE /\ parse' \in Seq(Activation) /\ Len(parse') = Len(parse) - 1
               /\ \A i \in 1..(Len(parse) - 1) : parse'[i] = parse[i]
      BY <2>3, <3>2
    <3> QED BY <2>4, <3>1, <3>2
  <2>6. ASSUME NEW i \in 1..Len(parse') PROVE Fine(i)'
    <3>1. i \in 1..Len(parse) /\ Fine(i) /\ parse'[i] = parse[i]
          /\ (i > 1 => parse'[i-1] = parse[i-1])
      BY <2>3, <2>5
    <3>2. sym' = sym BY <1>4
    <3>3. parse[i].at # "func" \/ (i < Len(parse) /\ parse[i].stage = "body")
      <4>1. CASE i = Len(parse)
        BY <1>1, <2>3, <4>1
      <4>2. CASE i < Len(parse)
        BY <3>1, <4>2 DEF Fine, Placed
      <4> QED BY <2>3, <3>1, <4>1, <4>2
    <3>4. Running(parse[i])'
      BY <3>1, <3>3 DEF Running
    <3>5. Bounded(parse'[i], Len(sym'))
      BY <3>1, <3>2 DEF Fine
    <3>6. parse[i].at = "pop" => i = Len(parse')
      BY <2>3, <2>5, <3>1 DEF Fine, Placed
    <3>7. Placed(parse', i)
      BY <3>1, <3>3, <3>6 DEF Fine, Placed
    <3> QED BY <3>4, <3>5, <3>7 DEF Fine
  <2>7. ~ NestedFunctions => MarkersKept'
    <3> SUFFICES ASSUME ~ NestedFunctions PROVE MarkersKept'
      OBVIOUS
    <3>1. ASSUME NEW i \in 1..Len(parse'), HoldsMarker(parse'[i])
          PROVE  parse'[i].s \in Local'
      <4>1. i \in 1..Len(parse) /\ HoldsMarker(parse[i]) /\ parse'[i] = parse[i]
        BY <2>3, <2>5, <3>1
      <4>2. parse[i].s \in Local \ {n}
        BY <1>1, <1>4, <2>2, <4>1, PopKeepsMarkers
      <4> QED BY <2>2, <4>1, <4>2
    <3>2. ASSUME NEW i \in 1..Len(parse'), NEW j \in 1..Len(parse'), i < j,
                 HoldsMarker(parse'[i]), HoldsMarker(parse'[j])
          PROVE  parse'[i].s <= parse'[j].s
      <4>1. /\ i \in 1..Len(parse) /\ j \in 1..Len(parse)
            /\ parse'[i] = parse[i] /\ parse'[j] = parse[j]
        BY <2>3, <2>5
      <4> QED BY <3>2, <4>1 DEF Inv, MarkersKept
    <3> QED BY <3>1, <3>2 DEF MarkersKept, HoldsMarker
  <2> QED BY <2>2, <2>5, <2>6, <2>7 DEF Inv
<1> QED BY <1>2, <1>3, <1>4 DEF sym_pop

-----------------------------------------------------------------------------
(* The actions that push.                                                  *)

LEMMA AnonymousTyped ==
  Anonymous \in Word /\ ~ OnChain(Anonymous)
BY DEF Anonymous, V, Word, AllWords, OnChain

LEMMA VTyped ==
  ASSUME NEW kind \in {"ident", "tag", "member", "param", "anom"}, NEW w \in AllWords
  PROVE  V(kind, w) \in Word
BY DEF V, Word

\* The push may hook the symbol behind symbol t; t = 0 is no symbol.
LEMMA SymHooked ==
  ASSUME Threaded, NEW v \in Word, NEW type \in Types, Resolved(type, Len(sym) + 1),
         PushesOn(v), NEW t \in Nat, t <= Len(sym),
         \/ sym' = [Append(sym, NewSymbol(v, type, 0, 0)) EXCEPT ![t].next = Fresh]
         \/ sym' = Append(sym, NewSymbol(v, type, 0, 0)),
         head' = IF OnChain(v) THEN [head EXCEPT ![NameOf(v)] = Fresh] ELSE head
  PROVE  Threaded' /\ Local \subseteq Local' /\ Len(sym') = Len(sym) + 1
<1>1. Table /\ Len(sym) \in Nat BY LiveTyped DEF Threaded
<1>2. 0 \in {-1, 0} /\ 0 \in Nat /\ 0 <= Len(sym) + 1
  BY <1>1
<1>3. PICK q : q = Append(sym, NewSymbol(v, type, 0, 0)) OBVIOUS
<1>4. CASE sym' = q
  BY <1>1, <1>2, <1>3, <1>4, SymPushed
<1>5. CASE t = 0 /\ sym' = [q EXCEPT ![t].next = Fresh]
  <2>1. Extended(q, NewSymbol(v, type, 0, 0))
    BY <1>1, <1>2, <1>3, NewLast
  <2>2. q \in [1..Len(q) -> Symbol]
    BY <2>1, LenProperties DEF Extended
  <2>3. t \notin 1..Len(q) BY <1>5
  <2>4. [q EXCEPT ![t].next = Fresh] = q
    BY <2>2, <2>3
  <2>5. sym' = q
    BY <1>5, <2>4
  <2> QED BY <1>4, <2>5
<1>6. CASE t # 0 /\ sym' = [q EXCEPT ![t].next = Fresh]
  <2>1. t \in 1..(Len(sym) + 1) BY <1>1, <1>6
  <2> QED BY <1>3, <1>6, <2>1, SymLinked
<1> QED BY <1>3, <1>4, <1>5, <1>6

\* A sym_push whose symbol has a type of the parser.
LEMMA Pushed ==
  ASSUME Inv, NEW v \in Word, NEW type \in Types, Resolved(type, Len(sym)),
         NEW c \in {-1, 0}, NEW next \in Nat, next <= Len(sym),
         sym_push(v), sym' = Append(sym, NewSymbol(v, type, c, next))
  PROVE  /\ Threaded' /\ Local \subseteq Local'
         /\ Len(sym') = Len(sym) + 1 /\ Len(sym) \in Nat
<1>1. Threaded /\ Len(sym) \in Nat
  BY LiveTyped DEF Inv, Threaded
<1>2. Resolved(type, Len(sym) + 1) /\ next <= Len(sym) + 1
  BY <1>1 DEF Resolved, Types
<1>3. /\ PushesOn(v)
      /\ head' = IF OnChain(v) THEN [head EXCEPT ![NameOf(v)] = Fresh] ELSE head
  BY SymPush
<1> QED BY <1>1, <1>2, <1>3, SymPushed

LEMMA PointerKeeps ==
  ASSUME Inv, Pointer PROVE Inv'
<1>1. parse # <<>> /\ top.at = "decl"
  BY DeclTop DEF Pointer
<1>2. top \in Activation /\ Bounded(top, Len(sym)) /\ top.type \in Types
  BY <1>1, TopFine DEF Activation
<1>3. PICK type : type = top.type OBVIOUS
<1>4. Threaded' /\ Local \subseteq Local' /\ Len(sym') = Len(sym) + 1 /\ Len(sym) \in Nat
  <2>1. Len(sym) \in Nat
    BY LiveTyped DEF Inv, Threaded
  <2>2. -1 \in {-1, 0} /\ 0 \in Nat /\ 0 <= Len(sym) BY <2>1
  <2>3. type \in Types /\ Resolved(type, Len(sym)) BY <1>2, <1>3 DEF Bounded
  <2>4. sym_push(Anonymous) /\ sym' = Append(sym, NewSymbol(Anonymous, type, -1, 0))
    BY <1>3 DEF Pointer
  <2> QED BY <2>2, <2>3, <2>4, AnonymousTyped, Pushed
<1>5. PICK f : f = [top EXCEPT !.stage = "pointer", !.type = Type("ptr", Fresh)] OBVIOUS
<1>6. Type("ptr", Fresh) \in Types /\ Resolved(Type("ptr", Fresh), Len(sym'))
  BY <1>4 DEF Type, Types, Resolved, Fresh
<1>7. /\ f \in Activation /\ f.at = "decl" /\ f.where = top.where /\ f.s = top.s
      /\ f.tail = top.tail /\ f.type = Type("ptr", Fresh) /\ f.base = top.base
  BY <1>1, <1>2, <1>5, <1>6 DEF Activation
<1>8. Goto(f) BY <1>5 DEF Pointer
<1> QED BY <1>1, <1>4, <1>6, <1>7, <1>8, DeclGoesOn

LEMMA ArrayKeeps ==
  ASSUME Inv, Array PROVE Inv'
<1>1. parse # <<>> /\ top.at = "decl"
  BY DeclTop DEF Array
<1>2. top \in Activation /\ Bounded(top, Len(sym)) /\ top.type \in Types
  BY <1>1, TopFine DEF Activation
<1>3. PICK type : type = top.type OBVIOUS
<1>4. Threaded' /\ Local \subseteq Local' /\ Len(sym') = Len(sym) + 1 /\ Len(sym) \in Nat
  <2>1. Len(sym) \in Nat
    BY LiveTyped DEF Inv, Threaded
  <2>2. 0 \in {-1, 0} /\ 0 \in Nat /\ 0 <= Len(sym) BY <2>1
  <2>3. type \in Types /\ Resolved(type, Len(sym)) BY <1>2, <1>3 DEF Bounded
  <2>4. sym_push(Anonymous) /\ sym' = Append(sym, NewSymbol(Anonymous, type, 0, 0))
    BY <1>3 DEF Array
  <2> QED BY <2>2, <2>3, <2>4, AnonymousTyped, Pushed
<1>5. PICK f : f = [top EXCEPT !.stage = "complete", !.type = Type("array", Fresh)] OBVIOUS
<1>6. Type("array", Fresh) \in Types /\ Resolved(Type("array", Fresh), Len(sym'))
  BY <1>4 DEF Type, Types, Resolved, Fresh
<1>7. /\ f \in Activation /\ f.at = "decl" /\ f.where = top.where /\ f.s = top.s
      /\ f.tail = top.tail /\ f.type = Type("array", Fresh) /\ f.base = top.base
  BY <1>1, <1>2, <1>5, <1>6 DEF Activation
<1>8. Goto(f) BY <1>5 DEF Array
<1> QED BY <1>1, <1>4, <1>6, <1>7, <1>8, DeclGoesOn

LEMMA DeclareNameKeeps ==
  ASSUME Inv, DeclareName PROVE Inv'
<1>1. parse # <<>> /\ top.at = "decl"
  BY DeclTop DEF DeclareName
<1>2. top \in Activation /\ Bounded(top, Len(sym)) /\ top.type \in Types
      /\ top.word \in AllWords /\ Threaded /\ Len(sym) \in Nat
  BY <1>1, TopFine, LiveTyped DEF Activation, Inv, Threaded
<1>3. Threaded' /\ Local \subseteq Local' /\ Len(sym) <= Len(sym') /\ Len(sym') \in Nat
  <2>1. CASE NoSymbol
    BY <2>1, <1>2, Untouched
  <2>2. CASE /\ sym_push(V("ident", top.word))
             /\ sym' = Append(sym, NewSymbol(V("ident", top.word), top.type, 0, 0))
    <3>1. PICK v : v = V("ident", top.word) OBVIOUS
    <3>2. PICK type : type = top.type OBVIOUS
    <3>3. v \in Word BY <1>2, <3>1, VTyped
    <3>4. 0 \in {-1, 0} /\ 0 \in Nat /\ 0 <= Len(sym) BY <1>2
    <3>5. type \in Types /\ Resolved(type, Len(sym)) BY <1>2, <3>2 DEF Bounded
    <3>6. sym_push(v) /\ sym' = Append(sym, NewSymbol(v, type, 0, 0))
      BY <2>2, <3>1, <3>2
    <3>7. Threaded' /\ Local \subseteq Local' /\ Len(sym') = Len(sym) + 1
      BY <3>3, <3>4, <3>5, <3>6, Pushed
    <3> QED BY <1>2, <3>7
  <2> QED BY <2>1, <2>2 DEF DeclareName
<1>4. PICK f : f = [top EXCEPT !.stage = "done"] OBVIOUS
<1>5. /\ f \in Activation /\ f.at = top.at /\ f.where = top.where /\ f.s = top.s
      /\ f.tail = top.tail /\ f.type = top.type /\ f.base = top.base
  BY <1>2, <1>4, WithStage
<1>6. Goto(f) BY <1>4 DEF DeclareName
<1>7. Resolved(f.type, Len(sym'))
  <2>1. Bounded(top, Len(sym')) BY <1>2, <1>3, Wider
  <2> QED BY <2>1, <1>5 DEF Bounded
<1> QED BY <1>1, <1>3, <1>5, <1>6, <1>7, DeclGoesOn

\* The two innermost frames, the inner one of which was made by the outer one.
LEMMA StepMerge ==
  ASSUME Inv, Threaded', Local \subseteq Local', Len(sym) <= Len(sym'),
         Len(parse) > 1, NEW f, parse' = Append(ButLast(ButLast(parse)), f),
         Succeeds(f, parse[Len(parse) - 1]), f.at \in {"decl", "params"},
         Bounded(f, Len(sym'))
  PROVE  Inv'
<1>1. PICK k : k = Len(parse) OBVIOUS
<1>2. parse \in Seq(Activation) /\ f \in Activation /\ k \in Nat /\ k > 1
  BY <1>1, LenProperties DEF Inv, Succeeds
<1>3. /\ parse' \in Seq(Activation) /\ Len(parse') = k - 1 /\ parse'[k - 1] = f
      /\ Agree(parse, parse', k - 2)
  BY <1>1, <1>2, TwoReplaced
<1>4. k - 1 \in 1..Len(parse) /\ k - 2 \in Nat /\ k - 2 # Len(parse)
  BY <1>1, <1>2
<1>5. Fine(k - 1) BY <1>4 DEF Inv
<1>6. k - 1 > 1 => parse'[k - 1 - 1] = parse[k - 1 - 1]
  BY <1>2, <1>3 DEF Agree
<1>7. Placed(parse', k - 1)
  BY <1>1, <1>3, <1>5, <1>6 DEF Fine, Placed, Succeeds
<1>8. Fine(k - 1)'
  BY <1>3, <1>7 DEF Fine, Running
<1>9. \A i \in 1..Len(parse') : i > k - 2 => i = k - 1
  BY <1>2, <1>3
<1>10. \A i \in 1..Len(parse') : i > k - 2 => Fine(i)'
  BY <1>8, <1>9
<1>11. \A i \in 1..Len(parse') : ~ (i > k - 2 /\ HoldsMarker(parse'[i]))
  BY <1>3, <1>9 DEF HoldsMarker
<1> QED BY <1>3, <1>4, <1>10, <1>11, Step

LEMMA StepMember ==
  ASSUME Inv, Threaded', Local \subseteq Local', Len(sym) <= Len(sym'),
         Len(parse) > 1, NEW f, NEW g,
         parse' = Append(Append(ButLast(ButLast(parse)), f), g),
         Succeeds(f, parse[Len(parse) - 1]), f.at = "struct",
         Above(g, f), ~ Outermost(g), g.at = "decl",
         Bounded(f, Len(sym')), Bounded(g, Len(sym'))
  PROVE  Inv'
<1>1. PICK k : k = Len(parse) OBVIOUS
<1>2. parse \in Seq(Activation) /\ f \in Activation /\ g \in Activation
      /\ k \in Nat /\ k > 1
  BY <1>1, LenProperties DEF Inv, Succeeds, Above
<1>3. PICK q : q = Append(ButLast(ButLast(parse)), f) OBVIOUS
<1>4. /\ q \in Seq(Activation) /\ Len(q) = k - 1 /\ q[k - 1] = f
      /\ Agree(parse, q, k - 2)
  BY <1>1, <1>2, <1>3, TwoReplaced
<1>5. /\ Append(q, g) \in Seq(Activation) /\ Len(Append(q, g)) = Len(q) + 1
      /\ Append(q, g)[Len(q) + 1] = g /\ Agree(q, Append(q, g), Len(q))
  BY <1>2, <1>4, Longer
<1>6. parse' = Append(q, g) BY <1>3
<1>7. /\ parse' \in Seq(Activation) /\ Len(parse') = k
      /\ parse'[k - 1] = f /\ parse'[k] = g /\ Agree(parse, parse', k - 2)
  BY <1>2, <1>4, <1>5, <1>6 DEF Agree
<1>8. k - 1 \in 1..Len(parse) /\ k - 2 \in Nat /\ k - 2 # Len(parse)
  BY <1>1, <1>2
<1>9. Fine(k - 1) BY <1>8 DEF Inv
<1>10. k - 1 > 1 => parse'[k - 1 - 1] = parse[k - 1 - 1]
  BY <1>2, <1>7 DEF Agree
<1>11. Placed(parse', k - 1)
  BY <1>1, <1>7, <1>9, <1>10 DEF Fine, Placed, Succeeds
<1>12. Placed(parse', k)
  BY <1>2, <1>7 DEF Placed, Above
<1>13. Fine(k - 1)' /\ Fine(k)'
  BY <1>7, <1>11, <1>12 DEF Fine, Running
<1>14. \A i \in 1..Len(parse') : i > k - 2 => i = k - 1 \/ i = k
  BY <1>2, <1>7
<1>15. \A i \in 1..Len(parse') : i > k - 2 => Fine(i)'
  BY <1>13, <1>14
<1>16. \A i \in 1..Len(parse') : ~ (i > k - 2 /\ HoldsMarker(parse'[i]))
  BY <1>7, <1>14 DEF HoldsMarker
<1> QED BY <1>7, <1>8, <1>15, <1>16, Step

\* The frame below the innermost one.
LEMMA BelowFine ==
  ASSUME Inv, Len(parse) > 1
  PROVE  /\ parse[Len(parse) - 1] \in Activation
         /\ Bounded(parse[Len(parse) - 1], Len(sym))
<1>1. Len(parse) \in Nat /\ Len(parse) - 1 \in 1..Len(parse)
  BY LenProperties DEF Inv
<1>2. parse[Len(parse) - 1] \in Activation
  BY <1>1, ElementOfSeq DEF Inv
<1>3. Fine(Len(parse) - 1)
  BY <1>1 DEF Inv
<1> QED BY <1>2, <1>3 DEF Fine

LEMMA MemberKeeps ==
  ASSUME Inv, Member PROVE Inv'
<1>1. parse # <<>> /\ top.at = "decl" /\ top.where = "member"
  BY DeclTop DEF Member
<1>2. /\ top \in Activation /\ Bounded(top, Len(sym)) /\ top.type \in Types
      /\ top.word \in AllWords /\ Threaded /\ Len(sym) \in Nat
      /\ Len(parse) > 1 /\ parse[Len(parse) - 1].at = "struct"
  BY <1>1, TopFine, LiveTyped DEF Activation, Inv, Threaded
<1>3. PICK list : list = parse[Len(parse) - 1] OBVIOUS
<1>4. list \in Activation /\ Bounded(list, Len(sym)) /\ list.at = "struct"
  BY <1>2, <1>3, BelowFine
<1>5. PICK v : v = V("member", top.word) OBVIOUS
<1>6. PICK type : type = top.type OBVIOUS
<1>7. PICK t : t = list.tail OBVIOUS
<1>8. Threaded' /\ Local \subseteq Local' /\ Len(sym') = Len(sym) + 1
  <2>1. v \in Word BY <1>2, <1>5, VTyped
  <2>2. type \in Types /\ Resolved(type, Len(sym) + 1)
    BY <1>2, <1>6 DEF Bounded, Resolved, Types
  <2>3. t \in Nat /\ t <= Len(sym) BY <1>4, <1>7 DEF Bounded, Activation
  <2>4. /\ sym_push(v)
        /\ sym' = [Append(sym, NewSymbol(v, type, 0, 0)) EXCEPT ![t].next = Fresh]
    BY <1>3, <1>5, <1>6, <1>7 DEF Member
  <2>5. /\ PushesOn(v)
        /\ head' = IF OnChain(v) THEN [head EXCEPT ![NameOf(v)] = Fresh] ELSE head
    BY <2>4, SymPush
  <2> QED BY <1>2, <2>1, <2>2, <2>3, <2>4, <2>5, SymHooked
<1>9. PICK f : f = [list EXCEPT !.tail = Fresh] OBVIOUS
<1>10. Fresh \in Nat /\ Fresh <= Len(sym')
  BY <1>2, <1>8 DEF Fresh
<1>11. /\ f \in Activation /\ f.at = "struct" /\ f.s = list.s /\ f.tail = Fresh
       /\ f.type = list.type /\ f.base = list.base
  BY <1>4, <1>9, <1>10 DEF Activation
<1>12. Bounded(f, Len(sym')) /\ Bounded(top, Len(sym'))
  <2>1. Bounded(list, Len(sym')) /\ Bounded(top, Len(sym'))
    BY <1>2, <1>4, <1>8, Wider
  <2> QED BY <2>1, <1>10, <1>11 DEF Bounded
<1>13. PICK g : g = [top EXCEPT !.stage = "done"] OBVIOUS
<1>14. /\ g \in Activation /\ g.at = top.at /\ g.where = top.where /\ g.s = top.s
       /\ g.tail = top.tail /\ g.type = top.type /\ g.base = top.base
  BY <1>2, <1>13, WithStage
<1>15. Bounded(g, Len(sym')) BY <1>12, <1>14 DEF Bounded
<1>16. Succeeds(f, list) BY <1>11 DEF Succeeds, Outermost, HoldsMarker
<1>17. Above(g, f) /\ ~ Outermost(g) /\ g.at = "decl"
  BY <1>1, <1>11, <1>14 DEF Above, Outermost
<1>18. parse' = Append(Append(ButLast(ButLast(parse)), f), g)
  BY <1>3, <1>9, <1>13 DEF Member
<1> QED BY <1>2, <1>3, <1>8, <1>11, <1>12, <1>15, <1>16, <1>17, <1>18, StepMember

LEMMA ParameterKeeps ==
  ASSUME Inv, Parameter PROVE Inv'
<1>1. parse # <<>> /\ top.at = "decl" /\ top.where = "param"
  BY DeclTop DEF Parameter
<1>2. /\ top \in Activation /\ Bounded(top, Len(sym)) /\ top.type \in Types
      /\ top.word \in AllWords /\ Threaded /\ Len(sym) \in Nat
      /\ Len(parse) > 1 /\ parse[Len(parse) - 1].at = "params"
  BY <1>1, TopFine, LiveTyped DEF Activation, Inv, Threaded
<1>3. PICK list : list = parse[Len(parse) - 1] OBVIOUS
<1>4. list \in Activation /\ Bounded(list, Len(sym)) /\ list.at = "params"
  BY <1>2, <1>3, BelowFine
<1>5. PICK v : v = V("param", top.word) OBVIOUS
<1>6. PICK type : type = top.type OBVIOUS
<1>7. PICK t : t = list.tail OBVIOUS
<1>8. Threaded' /\ Local \subseteq Local' /\ Len(sym') = Len(sym) + 1
  <2>1. v \in Word BY <1>2, <1>5, VTyped
  <2>2. type \in Types /\ Resolved(type, Len(sym) + 1)
    BY <1>2, <1>6 DEF Bounded, Resolved, Types
  <2>3. t \in Nat /\ t <= Len(sym) BY <1>4, <1>7 DEF Bounded, Activation
  <2>4. /\ sym_push(v)
        /\ \/ sym' = [Append(sym, NewSymbol(v, type, 0, 0)) EXCEPT ![t].next = Fresh]
           \/ sym' = Append(sym, NewSymbol(v, type, 0, 0))
    BY <1>3, <1>5, <1>6, <1>7 DEF Parameter
  <2>5. /\ PushesOn(v)
        /\ head' = IF OnChain(v) THEN [head EXCEPT ![NameOf(v)] = Fresh] ELSE head
    BY <2>4, SymPush
  <2> QED BY <1>2, <2>1, <2>2, <2>3, <2>4, <2>5, SymHooked
<1>9. PICK s : s = IF list.s = 0 THEN Fresh ELSE list.s OBVIOUS
<1>10. PICK f : f = [list EXCEPT !.s = s, !.tail = Fresh] OBVIOUS
<1>11. Bounded(list, Len(sym')) /\ Fresh \in Nat /\ Fresh <= Len(sym')
  BY <1>2, <1>4, <1>8, Wider DEF Fresh
<1>12. s \in Nat /\ s <= Len(sym')
  BY <1>4, <1>9, <1>11 DEF Bounded, Activation
<1>13. /\ f \in Activation /\ f.at = "params" /\ f.s = s /\ f.tail = Fresh
       /\ f.type = list.type /\ f.base = list.base
  BY <1>4, <1>10, <1>11, <1>12 DEF Activation
<1>14. Bounded(f, Len(sym')) BY <1>11, <1>12, <1>13 DEF Bounded
<1>15. Succeeds(f, list) BY <1>4, <1>13 DEF Succeeds, Outermost, HoldsMarker
<1>16. parse' = Append(ButLast(ButLast(parse)), f)
  BY <1>3, <1>9, <1>10 DEF Parameter
<1> QED BY <1>2, <1>3, <1>8, <1>13, <1>14, <1>15, <1>16, StepMerge

LEMMA CloseParamsKeeps ==
  ASSUME Inv, CloseParams PROVE Inv'
<1>1. parse # <<>> /\ top.at = "params"
  BY DEF CloseParams, At, top
<1>2. /\ top \in Activation /\ Bounded(top, Len(sym))
      /\ Threaded /\ Len(sym) \in Nat
      /\ Len(parse) > 1 /\ parse[Len(parse) - 1].at = "decl"
  BY <1>1, TopFine, LiveTyped DEF Inv, Threaded
<1>3. PICK decl : decl = parse[Len(parse) - 1] OBVIOUS
<1>4. decl \in Activation /\ Bounded(decl, Len(sym)) /\ decl.at = "decl"
  BY <1>2, <1>3, BelowFine
<1>5. PICK type : type = decl.type OBVIOUS
<1>6. PICK s : s = top.s OBVIOUS
<1>7. Threaded' /\ Local \subseteq Local' /\ Len(sym') = Len(sym) + 1
  <2>1. type \in Types /\ Resolved(type, Len(sym))
    BY <1>4, <1>5 DEF Bounded, Activation
  <2>2. s \in Nat /\ s <= Len(sym) /\ 0 \in {-1, 0}
    BY <1>2, <1>6 DEF Bounded, Activation
  <2>3. /\ sym_push(Anonymous)
        /\ sym' = Append(sym, NewSymbol(Anonymous, type, 0, s))
    BY <1>3, <1>5, <1>6 DEF CloseParams, FirstParameter
  <2> QED BY <2>1, <2>2, <2>3, AnonymousTyped, Pushed
<1>8. PICK type2 : type2 = Type("func", Fresh) OBVIOUS
<1>9. type2 \in Types /\ Resolved(type2, Len(sym'))
  BY <1>2, <1>7, <1>8 DEF Type, Types, Resolved, Fresh
<1>10. PICK f : f = [decl EXCEPT !.stage = "complete", !.type = type2] OBVIOUS
<1>11. /\ f \in Activation /\ f.at = "decl" /\ f.where = decl.where /\ f.s = decl.s
       /\ f.tail = decl.tail /\ f.type = type2 /\ f.base = decl.base
  BY <1>4, <1>9, <1>10 DEF Activation
<1>12. Bounded(decl, Len(sym')) BY <1>2, <1>4, <1>7, Wider
<1>13. Bounded(f, Len(sym')) BY <1>9, <1>11, <1>12 DEF Bounded
<1>14. Succeeds(f, decl) BY <1>4, <1>11 DEF Succeeds, Outermost, HoldsMarker
<1>15. parse' = Append(ButLast(ButLast(parse)), f)
  BY <1>3, <1>8, <1>10 DEF CloseParams
<1> QED BY <1>2, <1>3, <1>7, <1>11, <1>13, <1>14, <1>15, StepMerge

\* func_sym_push of a name that is not declared.
LEMMA FunctionPushed ==
  ASSUME Inv, NEW w \in AllWords, ~ Declared(w), NEW type \in Types,
         Resolved(type, Len(sym)), func_sym_push(w),
         NEW v, v = V("ident", w), sym' = Append(sym, NewSymbol(v, type, 0, 0))
  PROVE  /\ Threaded' /\ Local \subseteq Local'
         /\ Len(sym') = Len(sym) + 1 /\ Len(sym) \in Nat
<1>1. Threaded /\ Len(sym) \in Nat
  BY LiveTyped DEF Inv, Threaded
<1>2. Resolved(type, Len(sym) + 1) /\ 0 \in Nat /\ 0 <= Len(sym) + 1 /\ 0 \in {-1, 0}
  BY <1>1 DEF Resolved, Types
<1>3. head[<<"ident", w>>] = 0
  BY DEF Declared, sym_search
<1>4. /\ PushesOn(v)
      /\ head' = IF OnChain(v) THEN [head EXCEPT ![NameOf(v)] = Fresh] ELSE head
  BY <1>3, FuncPush
<1>5. v \in Word BY VTyped
<1> QED BY <1>1, <1>2, <1>4, <1>5, SymPushed

LEMMA DefineFunctionKeeps ==
  ASSUME Inv, DefineFunction PROVE Inv'
<1>1. parse # <<>> /\ top.at = "decl" /\ top.type.t = "func"
      /\ (~ NestedFunctions => top.where = "global")
  BY DeclTop DEF DefineFunction
<1>2. /\ top \in Activation /\ Bounded(top, Len(sym)) /\ top.type \in Types
      /\ top.word \in AllWords /\ Threaded /\ Len(sym) \in Nat
  BY <1>1, TopFine, LiveTyped DEF Activation, Inv, Threaded
<1>3. PICK w \in AllWords : w = top.word BY <1>2
<1>4. PICK type \in Types : type = top.type BY <1>2
<1>5. Resolved(type, Len(sym)) /\ type.t = "func"
  BY <1>1, <1>2, <1>4 DEF Bounded
<1>6. ASSUME NEW k \in 1..Len(sym'), Goto(Frame("func", "enter", k, 0)),
             Threaded', Local \subseteq Local', Len(sym) <= Len(sym'),
             sym'[k].type = type
      PROVE  Inv'
  <2>1. PICK f : f = Frame("func", "enter", k, 0) OBVIOUS
  <2>2. Len(sym') \in Nat BY <1>6, LenProperties DEF Threaded, Table
  <2>3. k \in Nat /\ k <= Len(sym') /\ k # 0 /\ 0 <= Len(sym') /\ 0 \in Nat
    BY <2>2
  <2>4. IsFrame(f, "func", "enter", k, 0) BY <2>1, <2>3, FrameFields
  <2>5. Bounded(f, Len(sym')) BY <2>1, <2>2, <2>3, FrameBounded
  <2>6. Succeeds(f, top)
    BY <1>1, <2>4 DEF IsFrame, Succeeds, Outermost, HoldsMarker
  <2>7. Running(f)'
    BY <1>5, <1>6, <2>3, <2>4 DEF IsFrame, Running
  <2>8. Goto(f) BY <1>6, <2>1
  <2> QED BY <1>1, <1>6, <2>5, <2>6, <2>7, <2>8, StepGoto
<1>7. CASE Declared(w)
  <2>1. PICK k : k = sym_search(w) OBVIOUS
  <2>2. k \in 1..Len(sym)
    <3>1. <<"ident", w>> \in Names BY DEF Names
    <3>2. head[<<"ident", w>>] \in 0..Len(sym)
      BY <1>2, <3>1 DEF Threaded, Table
    <3> QED BY <1>2, <1>7, <2>1, <3>2 DEF Declared, sym_search
  <2>3. /\ sym' = [sym EXCEPT ![k].type = type]
        /\ Goto(Frame("func", "enter", k, 0))
        /\ UNCHANGED <<global_sym_stack, local_sym_stack, head>>
    BY <1>3, <1>4, <1>7, <2>1 DEF DefineFunction
  <2>4. PICK g : g = sym[k] OBVIOUS
  <2>5. g \in Symbol /\ sym \in Seq(Symbol)
    BY <1>2, <2>2, <2>4, ElementOfSeq DEF Threaded, Table
  <2>6. PICK f : f = [g EXCEPT !.type = type] OBVIOUS
  <2>7. f \in Symbol /\ f.v = g.v /\ f.prev = g.prev /\ f.type = type /\ f.next = g.next
    BY <2>5, <2>6, TypeWritten
  <2>8. sym' = [sym EXCEPT ![k] = f] BY <2>3, <2>4, <2>6
  <2>9. g.next <= Len(sym)
    BY <1>2, <2>2, <2>4 DEF Threaded, Table
  <2>10. Threaded' /\ Local \subseteq Local' /\ Len(sym') = Len(sym)
    BY <1>2, <1>5, <2>2, <2>3, <2>4, <2>7, <2>8, <2>9, Rewritten
  <2>11. sym'[k] = f
    BY <2>2, <2>5, <2>7, <2>8, ExceptSeq
  <2> QED BY <1>2, <1>6, <2>2, <2>3, <2>7, <2>10, <2>11
<1>8. CASE ~ Declared(w)
  <2>1. PICK v : v = V("ident", w) OBVIOUS
  <2>2. /\ func_sym_push(w) /\ sym' = Append(sym, NewSymbol(v, type, 0, 0))
        /\ Goto(Frame("func", "enter", Len(sym) + 1, 0))
    BY <1>3, <1>4, <1>8, <2>1 DEF DefineFunction, Fresh
  <2>3. Threaded' /\ Local \subseteq Local' /\ Len(sym') = Len(sym) + 1
    BY <1>5, <1>8, <2>1, <2>2, FunctionPushed
  <2>4. sym'[Len(sym) + 1].type = type
    <3>1. v \in Word /\ Table BY <1>2, <2>1, VTyped DEF Threaded
    <3>2. Resolved(type, Len(sym) + 1) /\ 0 \in Nat /\ 0 <= Len(sym) + 1 /\ 0 \in {-1, 0}
      BY <1>2, <1>5 DEF Resolved, Types
    <3>3. Extended(sym', NewSymbol(v, type, 0, 0))
      BY <2>2, <3>1, <3>2, NewLast
    <3> QED BY <3>3 DEF Extended, NewSymbol
  <2>5. Len(sym) + 1 \in 1..Len(sym') BY <1>2, <2>3
  <2> QED BY <1>2, <1>6, <2>2, <2>3, <2>4, <2>5
<1> QED BY <1>7, <1>8

LEMMA EnterBodyKeeps ==
  ASSUME Inv, EnterBody PROVE Inv'
<1>1. parse # <<>> /\ top.at = "func" /\ top.stage = "enter"
  BY DEF EnterBody, At, top
<1>2. /\ top \in Activation /\ Bounded(top, Len(sym)) /\ Running(top)
      /\ Threaded /\ Len(sym) \in Nat /\ sym \in Seq(Symbol)
  BY <1>1, TopFine, LiveTyped DEF Inv, Threaded, Table
<1>3. Threaded' /\ Local \subseteq Local' /\ Len(sym') = Len(sym) + 1
  <2>1. int_type \in Types /\ Resolved(int_type, Len(sym) + 1)
    BY <1>2, IntTyped
  <2>2. 0 \in {-1, 0} /\ 0 \in Nat /\ 0 <= Len(sym) + 1 BY <1>2
  <2>3. PushesOn(Anonymous) /\ head' = head
        /\ sym' = Append(sym, NewSymbol(Anonymous, int_type, 0, 0))
    BY DEF EnterBody, PushesOn
  <2> QED BY <1>2, <2>1, <2>2, <2>3, AnonymousTyped, SymPushed
<1>4. PICK k : k = top.s OBVIOUS
<1>5. k \in 1..Len(sym) /\ sym[k].type.t = "func"
  <2>1. k \in Nat /\ k <= Len(sym)
    BY <1>2, <1>4 DEF Bounded, Activation
  <2>2. k # 0 /\ sym[k].type.t = "func"
    BY <1>1, <1>2, <1>4 DEF Running
  <2> QED BY <1>2, <2>1, <2>2
<1>6. PICK r : r = sym[k].type.ref OBVIOUS
<1>7. r \in 1..Len(sym)
  <2>1. sym[k] \in Symbol BY <1>2, <1>5, ElementOfSeq
  <2>2. Resolved(sym[k].type, Len(sym)) BY <1>2, <1>5 DEF Threaded, Table
  <2>3. r \in Nat BY <1>6, <2>1 DEF Symbol, Types
  <2> QED BY <1>2, <1>5, <1>6, <2>2, <2>3 DEF Resolved
<1>8. PICK t : t = sym[r].next OBVIOUS
<1>9. t \in Nat /\ t <= Len(sym)
  <2>1. sym[r] \in Symbol BY <1>2, <1>7, ElementOfSeq
  <2> QED BY <1>2, <1>7, <1>8, <2>1 DEF Threaded, Table, Symbol
<1>10. PICK f : f = [top EXCEPT !.stage = "prolog", !.tail = t] OBVIOUS
<1>11. /\ f \in Activation /\ f.at = "func" /\ f.s = top.s /\ f.tail = t
       /\ f.type = top.type /\ f.base = top.base
  BY <1>1, <1>2, <1>9, <1>10 DEF Activation
<1>12. Bounded(f, Len(sym'))
  <2>1. Bounded(top, Len(sym')) BY <1>2, <1>3, Wider
  <2> QED BY <1>2, <1>3, <1>9, <1>11, <2>1 DEF Bounded
<1>13. Succeeds(f, top) BY <1>1, <1>11 DEF Succeeds, Outermost, HoldsMarker
<1>14. f.stage = "prolog" BY <1>2, <1>10 DEF Activation
<1>15. Running(f)'
  <2>1. local_sym_stack' # <<>>
    <3>1. Stack(local_sym_stack, Len(sym)) BY <1>2 DEF Threaded, Table
    <3>2. local_sym_stack' = Append(local_sym_stack, Len(sym) + 1)
      BY DEF EnterBody, PushLocal, Fresh
    <3> QED BY <1>2, <3>1, <3>2, StackPush
  <2> QED BY <1>14, <2>1 DEF Running
<1>16. Goto(f) BY <1>4, <1>6, <1>8, <1>10 DEF EnterBody
<1> QED BY <1>1, <1>2, <1>3, <1>12, <1>13, <1>15, <1>16, StepGoto

LEMMA PrologKeeps ==
  ASSUME Inv, Prolog PROVE Inv'
<1>1. parse # <<>> /\ top.at = "func" /\ top.stage = "prolog" /\ top.tail # 0
  BY DEF Prolog, At, top
<1>2. /\ top \in Activation /\ Bounded(top, Len(sym)) /\ Running(top)
      /\ Threaded /\ Len(sym) \in Nat /\ sym \in Seq(Symbol)
  BY <1>1, TopFine, LiveTyped DEF Inv, Threaded, Table
<1>3. PICK k : k = top.tail OBVIOUS
<1>4. k \in 1..Len(sym)
  <2>1. k \in Nat /\ k <= Len(sym) /\ k # 0
    BY <1>1, <1>2, <1>3 DEF Bounded, Activation
  <2> QED BY <1>2, <2>1
<1>5. sym[k] \in Symbol BY <1>2, <1>4, ElementOfSeq
<1>6. PICK v : v = V("ident", sym[k].v.word) OBVIOUS
<1>7. PICK type : type = sym[k].type OBVIOUS
<1>8. v \in Word /\ type \in Types
  BY <1>5, <1>6, <1>7, VTyped DEF Symbol
<1>9. Threaded' /\ Local \subseteq Local' /\ Len(sym') = Len(sym) + 1
  <2>1. Resolved(type, Len(sym)) BY <1>2, <1>4, <1>7 DEF Threaded, Table
  <2>2. 0 \in {-1, 0} /\ 0 \in Nat /\ 0 <= Len(sym) BY <1>2
  <2>3. sym_push(v) /\ sym' = Append(sym, NewSymbol(v, type, 0, 0))
    BY <1>3, <1>6, <1>7 DEF Prolog
  <2> QED BY <1>8, <2>1, <2>2, <2>3, Pushed
<1>10. PICK t : t = sym[k].next OBVIOUS
<1>11. t \in Nat /\ t <= Len(sym)
  BY <1>2, <1>4, <1>5, <1>10 DEF Threaded, Table, Symbol
<1>12. PICK f : f = [top EXCEPT !.tail = t] OBVIOUS
<1>13. /\ f \in Activation /\ f.at = "func" /\ f.s = top.s /\ f.tail = t
       /\ f.type = top.type /\ f.base = top.base /\ f.stage = "prolog"
  BY <1>1, <1>2, <1>11, <1>12 DEF Activation
<1>14. Bounded(f, Len(sym'))
  <2>1. Bounded(top, Len(sym')) BY <1>2, <1>9, Wider
  <2> QED BY <1>2, <1>9, <1>11, <1>13, <2>1 DEF Bounded
<1>15. Succeeds(f, top) BY <1>1, <1>13 DEF Succeeds, Outermost, HoldsMarker
<1>16. Running(f)'
  <2>1. local_sym_stack # <<>> BY <1>1, <1>2 DEF Running
  <2>2. local_sym_stack' = Append(local_sym_stack, Len(sym) + 1)
    BY <2>1 DEF Prolog, sym_push, PushLocal, Fresh
  <2>3. Stack(local_sym_stack, Len(sym)) BY <1>2 DEF Threaded, Table
  <2>4. local_sym_stack' # <<>> BY <1>2, <2>2, <2>3, StackPush
  <2> QED BY <1>13, <2>4 DEF Running
<1>17. Goto(f) BY <1>3, <1>10, <1>12 DEF Prolog
<1> QED BY <1>1, <1>2, <1>9, <1>14, <1>15, <1>16, <1>17, StepGoto

\* A symbol is made in an expression.
LEMMA ExpressionGoesOn ==
  ASSUME Inv, InExpression, Threaded', Local \subseteq Local',
         Len(sym) <= Len(sym'), Goto(Statement(top))
  PROVE  Inv'
<1>1. parse # <<>> /\ top.at \in {"block", "decl"}
  BY DEF InExpression, Decl, At, top
<1>2. Len(sym) \in Nat /\ Len(sym') \in Nat
  BY LenProperties DEF Inv, Threaded, Table
<1>3. top \in Activation /\ Bounded(top, Len(sym'))
  BY <1>1, <1>2, TopFine, Wider
<1>4. PICK f : f = Statement(top) OBVIOUS
<1>5. f \in Activation /\ Bounded(f, Len(sym')) /\ f.at = top.at /\ Succeeds(f, top)
  BY <1>1, <1>2, <1>3, <1>4, StatementFine
<1>6. Running(f)' BY <1>1, <1>5 DEF Running
<1>7. Goto(f) BY <1>4
<1> QED BY <1>1, <1>5, <1>6, <1>7, StepGoto

LEMMA UndeclaredKeeps ==
  ASSUME Inv, NEW w \in Words, Undeclared(w) PROVE Inv'
<1>1. w \in AllWords /\ Len(sym) \in Nat /\ Len(sym) >= 3
  BY LiveTyped DEF AllWords, Inv, Threaded, Table
<1>2. PICK v : v = V("ident", w) OBVIOUS
<1>3. default_func_type \in Types /\ Resolved(default_func_type, Len(sym))
  BY <1>1 DEF default_func_type, Type, Types, Resolved
<1>4. /\ ~ Declared(w) /\ func_sym_push(w) /\ InExpression /\ Goto(Statement(top))
      /\ sym' = Append(sym, NewSymbol(v, default_func_type, 0, 0))
  BY <1>2 DEF Undeclared
<1>5. Threaded' /\ Local \subseteq Local' /\ Len(sym') = Len(sym) + 1
  BY <1>1, <1>2, <1>3, <1>4, FunctionPushed
<1> QED BY <1>1, <1>4, <1>5, ExpressionGoesOn

LEMMA PointerInExpressionKeeps ==
  ASSUME Inv, PointerInExpression PROVE Inv'
<1>1. Len(sym) \in Nat /\ -1 \in {-1, 0} /\ 0 \in Nat /\ 0 <= Len(sym)
  BY LiveTyped DEF Inv, Threaded
<1>2. int_type \in Types /\ Resolved(int_type, Len(sym))
  BY <1>1, IntTyped
<1>3. /\ sym_push(Anonymous) /\ InExpression /\ Goto(Statement(top))
      /\ sym' = Append(sym, NewSymbol(Anonymous, int_type, -1, 0))
  BY DEF PointerInExpression
<1>4. Threaded' /\ Local \subseteq Local' /\ Len(sym') = Len(sym) + 1
  BY <1>1, <1>2, <1>3, AnonymousTyped, Pushed
<1> QED BY <1>1, <1>3, <1>4, ExpressionGoesOn

-----------------------------------------------------------------------------
(* The theorems.                                                           *)

LEMMA InitInv == Init => Inv
<1> SUFFICES ASSUME Init PROVE Inv
  OBVIOUS
<1>1. PICK a : a = NewSymbolAt(Anonymous) OBVIOUS
<1>2. PICK r : r = NewSymbolAt(V("ident", Rdata)) OBVIOUS
<1>3. a \in Symbol /\ r \in Symbol
  <2>1. V("ident", Rdata) \in Word /\ Anonymous \in Word
    BY VTyped, AnonymousTyped DEF AllWords
  <2> QED BY <1>1, <1>2, <2>1, IntTyped DEF NewSymbolAt, Symbol, Word
<1>4. sym = <<a, a, r>> /\ global_sym_stack = <<1, 2, 3>> /\ local_sym_stack = <<>>
      /\ parse = <<>>
      /\ head = [n \in Names |-> IF n = <<"ident", Rdata>> THEN 3 ELSE 0]
  BY <1>1, <1>2 DEF Init
<1>5. sym \in Seq(Symbol) /\ Len(sym) = 3 /\ sym[1] = a /\ sym[2] = a /\ sym[3] = r
  BY <1>3, <1>4
<1>6. /\ a.v = Anonymous /\ a.type = int_type /\ a.next = 0 /\ a.prev = 0
      /\ r.v = V("ident", Rdata) /\ r.type = int_type /\ r.next = 0 /\ r.prev = 0
  BY <1>1, <1>2 DEF NewSymbolAt
<1>7. Global = {1, 2, 3} /\ Local = {} /\ Live = {1, 2, 3}
  BY <1>4 DEF Global, Local, Live, Members
<1>8. Stack(global_sym_stack, 3) /\ Stack(local_sym_stack, 3)
  <2>1. global_sym_stack \in Seq(1..3) /\ local_sym_stack \in Seq(1..3)
    BY <1>4
  <2>2. Increasing(global_sym_stack) /\ Increasing(local_sym_stack)
    BY <1>4 DEF Increasing
  <2> QED BY <2>1, <2>2 DEF Stack
<1>9. Table
  <2>1. Resolved(int_type, 3) BY IntTyped
  <2>2. \A i \in 1..Len(sym) : sym[i].next <= Len(sym) /\ Resolved(sym[i].type, Len(sym))
    BY <1>5, <1>6, <2>1
  <2>3. head \in [Names -> 0..3] BY <1>4
  <2> QED BY <1>5, <1>7, <1>8, <2>2, <2>3 DEF Table
<1>10. \A n \in Names : Named(n) = IF n = <<"ident", Rdata>> THEN {3} ELSE {}
  <2>1. ~ OnChain(sym[1].v) /\ ~ OnChain(sym[2].v)
    BY <1>5, <1>6, AnonymousTyped
  <2>2. OnChain(sym[3].v) /\ NameOf(sym[3].v) = <<"ident", Rdata>>
    BY <1>5, <1>6 DEF OnChain, NameOf, V
  <2> QED BY <1>7, <2>1, <2>2 DEF Named
<1>11. ChainsThreaded
  <2> SUFFICES ASSUME NEW n \in Names
               PROVE  /\ Newest(head[n], Named(n))
                      /\ \A x \in Named(n) : Newest(sym[x].prev, {y \in Named(n) : y < x})
    BY DEF ChainsThreaded
  <2>1. CASE n = <<"ident", Rdata>>
    <3>1. Named(n) = {3} /\ head[n] = 3 BY <1>4, <1>10, <2>1
    <3>2. sym[3].prev = 0 BY <1>5, <1>6
    <3> QED BY <3>1, <3>2 DEF Newest
  <2>2. CASE n # <<"ident", Rdata>>
    <3>1. Named(n) = {} /\ head[n] = 0 BY <1>4, <1>10, <2>2
    <3> QED BY <3>1 DEF Newest
  <2> QED BY <2>1, <2>2
<1>12. LocalsInFront BY <1>7 DEF LocalsInFront
<1>13. parse \in Seq(Activation) /\ Len(parse) = 0
  BY <1>4
<1>14. MarkersKept BY <1>13 DEF MarkersKept
<1> QED BY <1>9, <1>11, <1>12, <1>13, <1>14 DEF Inv, Threaded

LEMMA UnchangedKeeps ==
  ASSUME Inv, UNCHANGED vars PROVE Inv'
<1>1. NoSymbol /\ parse' = parse BY DEF vars, NoSymbol
<1>2. Threaded' /\ Local \subseteq Local' /\ sym' = sym
      /\ local_sym_stack' = local_sym_stack
  BY <1>1, Untouched DEF Inv, NoSymbol
<1>3. Local' = Local BY <1>2 DEF Local, Members
<1>4. \A i \in 1..Len(parse) : Fine(i)'
  BY <1>1, <1>2 DEF Inv, Fine, Placed, Running
<1>5. MarkersKept => MarkersKept'
  BY <1>1, <1>3 DEF MarkersKept
<1> QED BY <1>1, <1>2, <1>4, <1>5 DEF Inv

LEMMA NextKeeps == Inv /\ [Next]_vars => Inv'
<1> SUFFICES ASSUME Inv, [Next]_vars PROVE Inv'
  OBVIOUS
<1>1. CASE BasicType BY <1>1, BasicTypeKeeps
<1>2. CASE \E w \in Words : StructName(w) \/ Identifier(w) \/ Undeclared(w)
  BY <1>2, StructNameKeeps, IdentifierKeeps, UndeclaredKeeps
<1>3. CASE OpenStruct BY <1>3, OpenStructKeeps
<1>4. CASE Member BY <1>4, MemberKeeps
<1>5. CASE CloseStruct BY <1>5, CloseStructKeeps
<1>6. CASE Pointer BY <1>6, PointerKeeps
<1>7. CASE Array BY <1>7, ArrayKeeps
<1>8. CASE OpenParams BY <1>8, OpenParamsKeeps
<1>9. CASE Parameter BY <1>9, ParameterKeeps
<1>10. CASE CloseParams BY <1>10, CloseParamsKeeps
<1>11. CASE DeclareName BY <1>11, DeclareNameKeeps
<1>12. CASE Comma BY <1>12, CommaKeeps
<1>13. CASE EndDeclaration BY <1>13, EndDeclarationKeeps
<1>14. CASE DefineFunction BY <1>14, DefineFunctionKeeps
<1>15. CASE EnterBody BY <1>15, EnterBodyKeeps
<1>16. CASE Prolog BY <1>16, PrologKeeps
<1>17. CASE FuncBlock BY <1>17, FuncBlockKeeps
<1>18. CASE EndFunction BY <1>18, EndFunctionKeeps
<1>19. CASE OpenBlock BY <1>19, OpenBlockKeeps
<1>20. CASE CloseBlock BY <1>20, CloseBlockKeeps
<1>21. CASE sym_pop BY <1>21, SymPopKeeps
<1>22. CASE PointerInExpression BY <1>22, PointerInExpressionKeeps
<1>23. CASE UNCHANGED vars BY <1>23, UnchangedKeeps
<1> QED
  BY <1>1, <1>2, <1>3, <1>4, <1>5, <1>6, <1>7, <1>8, <1>9, <1>10, <1>11, <1>12,
     <1>13, <1>14, <1>15, <1>16, <1>17, <1>18, <1>19, <1>20, <1>21, <1>22, <1>23
  DEF Next

\* The inductive invariant holds of every parse of every source file.
THEOREM ScopeInductive == Spec => []IInv
<1>1. Init => Inv BY InitInv
<1>2. Inv /\ [Next]_vars => Inv' BY NextKeeps
<1>3. Inv => IInv BY InvToIInv
<1> QED BY <1>1, <1>2, <1>3, PTL DEF Spec

\* Stacks, heads, symbols and frames are well typed: what sym_push, sym_pop and
\* the declaration functions follow refers to a symbol that was created.
THEOREM ScopeTypeCorrect == Spec => []TypeOK
<1>1. IInv => TypeOK BY DEF IInv
<1> QED BY <1>1, ScopeInductive, PTL

\* A chain holds exactly the symbols of its name that exist, the newest first:
\* sym_search and struct_search find the innermost declaration, and sym_pop
\* unhooks the symbol it frees.  This needs no bound on nesting or length and
\* holds for nested functions and whatever v < SC_ANOM says.
THEOREM ChainsCorrect == Spec => []ChainsThreaded
<1>1. IInv => ChainsThreaded BY DEF IInv
<1> QED BY <1>1, ScopeInductive, PTL

\* A name declared in a function hides the one of the file, never the reverse.
THEOREM LocalsHideGlobals == Spec => []LocalsInFront
<1>1. IInv => LocalsInFront BY DEF IInv
<1> QED BY <1>1, ScopeInductive, PTL

\* When no function is defined in a function, every sym_pop finds the symbol it
\* pops to: it frees the symbols of its block and no others.
THEOREM MarkersFound ==
  ASSUME ~ NestedFunctions
  PROVE  Spec => []MarkersKept
<1>1. IInv => MarkersKept BY DEF IInv
<1> QED BY <1>1, ScopeInductive, PTL

-----------------------------------------------------------------------------
(* Types and lists of parameters.                                          *)

FrameOK(i) == FrameAlive(parse[i]) /\ BlockBelow(i)
TypesKept ==
  /\ SymbolsAlive
  /\ \A i \in 1..Len(parse) : FrameOK(i)
  /\ FunctionFirst

LEMMA TypesInvParts == ASSUME ~ NestedFunctions PROVE TypesInv <=> TypesKept
BY DEF TypesInv, TypesKept, FrameOK

LEMMA EmptyLocal ==
  ASSUME Table PROVE Local = {} <=> local_sym_stack = <<>>
<1>1. local_sym_stack \in Seq(1..Len(sym)) BY DEF Table, Stack
<1>2. CASE local_sym_stack = <<>>
  BY <1>2, EmptySeq DEF Local, Members
<1>3. CASE local_sym_stack # <<>>
  <2>1. Len(local_sym_stack) \in Nat \ {0}
    BY <1>1, <1>3, EmptySeq, LenProperties
  <2>2. local_sym_stack[1] \in Local BY <2>1 DEF Local, Members
  <2> QED BY <1>3, <2>2
<1> QED BY <1>2, <1>3

-----------------------------------------------------------------------------
(* Symbols.                                                                *)

\* A step that frees nothing: kinds and stacks stay, and the stack that
\* sym_push uses is the same.
Grown ==
  /\ Global \subseteq Global' /\ Local \subseteq Local'
  /\ Len(sym) <= Len(sym')
  /\ \A x \in 1..Len(sym) : sym'[x].v = sym[x].v
SameInnermost == Local = {} <=> Local' = {}

\* A step that creates no symbol, and writes neither the type of one nor where a
\* list of parameters goes on.
SymbolsSame ==
  /\ UNCHANGED <<global_sym_stack, local_sym_stack>>
  /\ Len(sym') = Len(sym)
  /\ \A x \in 1..Len(sym) : /\ sym'[x].v = sym[x].v /\ sym'[x].type = sym[x].type
                            /\ sym'[x].next = sym[x].next

LEMMA SymbolsStay ==
  ASSUME Table, SymbolsAlive, SymbolsSame
  PROVE  SymbolsAlive' /\ Grown /\ SameInnermost
<1>1. Global' = Global /\ Local' = Local /\ Live' = Live
  BY DEF SymbolsSame, Global, Local, Live, Members
<1>2. Live \subseteq 1..Len(sym) /\ Global \subseteq 1..Len(sym) /\ Len(sym) \in Nat
      /\ Len(sym') = Len(sym)
  BY LiveTyped DEF Live, SymbolsSame
<1>3. Grown /\ SameInnermost
  BY <1>1, <1>2 DEF Grown, SameInnermost, SymbolsSame
<1>4. \A x \in 1..Len(sym') : HasParamList(sym[x].type)'
  <2> SUFFICES ASSUME NEW x \in 1..Len(sym) PROVE HasParamList(sym[x].type)'
    BY <1>2
  <2>1. HasParamList(sym[x].type) /\ sym[x] \in Symbol /\ Resolved(sym[x].type, Len(sym))
    BY ElementOfSeq DEF SymbolsAlive, Table
  <2>2. sym[x].type.t = "func" => sym[x].type.ref \in 1..Len(sym)
    BY <1>2, <2>1 DEF Resolved, Symbol, Types
  <2> QED BY <2>1, <2>2 DEF HasParamList, SymbolsSame
<1>5. Parameters(Global)' = Parameters(Global)
  BY <1>1, <1>2 DEF Parameters, SymbolsSame
<1>6. 2 \in Global' /\ sym'[2].v.kind = "anom"
  BY <1>1, <1>2 DEF SymbolsAlive, SymbolsSame
<1>7. \A x \in Live' :
       sym'[x].type.ref \in {0} \cup Global' \cup {y \in Local' : x \in Local' /\ y < x}
  BY <1>1, <1>2 DEF SymbolsAlive, SymbolsSame
<1>8. \A x \in Global' : sym'[x].v.kind \in {"anom", "param"} =>
       sym'[x].next \in {0} \cup Parameters(Global)'
  BY <1>1, <1>2, <1>5 DEF SymbolsAlive, SymbolsSame
<1> QED BY <1>3, <1>4, <1>6, <1>7, <1>8 DEF SymbolsAlive

\* A step that creates a symbol and may hook it behind others.
MayHook(x, v) ==
  \/ sym[x].v.kind \notin {"anom", "param"}
  \/ v.kind = "param" /\ x \in Parameters(Innermost)
Creates(v, type, next) ==
  /\ Len(sym') = Len(sym) + 1
  /\ sym'[Len(sym) + 1].v = v /\ sym'[Len(sym) + 1].type = type
  /\ sym'[Len(sym) + 1].next = next
  /\ \A x \in 1..Len(sym) :
       /\ sym'[x].v = sym[x].v /\ sym'[x].type = sym[x].type
       /\ \/ sym'[x].next = sym[x].next
          \/ sym'[x].next = Len(sym) + 1 /\ MayHook(x, v)
GoesOnTop(v, type) ==
  \/ /\ Local # {} \/ v.kind = "anom"
     /\ Local' = Local \cup {Len(sym) + 1} /\ Global' = Global
  \/ /\ Local = {} \/ (v.kind = "ident" /\ type.ref \in {0} \cup Global)
     /\ Local' = Local /\ Global' = Global \cup {Len(sym) + 1}

LEMMA SymbolsPush ==
  ASSUME Table, SymbolsAlive, NEW v, NEW type, NEW next,
         Creates(v, type, next), GoesOnTop(v, type),
         Resolved(type, Len(sym)), type \in Types,
         Alive(type), HasParamList(type),
         v.kind \in {"anom", "param"} => next \in {0} \cup Parameters(Innermost)
  PROVE  SymbolsAlive' /\ Grown
<1> DEFINE m == Len(sym) + 1
<1>1. /\ Live \subseteq 1..Len(sym) /\ Global \subseteq 1..Len(sym)
      /\ Local \subseteq 1..Len(sym) /\ Len(sym) \in Nat
      /\ Len(sym') = m /\ Global \cap Local = {}
  BY LiveTyped DEF Live, Creates, Table
<1>2. /\ sym'[m].v = v /\ sym'[m].type = type /\ sym'[m].next = next
      /\ \A x \in 1..Len(sym) : sym'[x].v = sym[x].v /\ sym'[x].type = sym[x].type
  BY DEF Creates
<1>3. /\ Live' = Live \cup {m} /\ Global \subseteq Global' /\ Local \subseteq Local'
      /\ m \notin Live
  BY <1>1 DEF GoesOnTop, Live
<1>4. Grown
  <2>1. Len(sym) <= Len(sym') BY <1>1
  <2> QED BY <1>2, <1>3, <2>1 DEF Grown
<1>5. 2 \in Global' /\ sym'[2].v.kind = "anom"
  BY <1>1, <1>2, <1>3 DEF SymbolsAlive
<1>6. ASSUME NEW x \in 1..m PROVE HasParamList(sym[x].type)'
  <2>1. CASE x \in 1..Len(sym)
    <3>1. HasParamList(sym[x].type) /\ sym[x] \in Symbol
          /\ Resolved(sym[x].type, Len(sym))
      BY <2>1, ElementOfSeq DEF SymbolsAlive, Table
    <3>2. sym[x].type.t = "func" => sym[x].type.ref \in 1..Len(sym)
      BY <1>1, <3>1 DEF Resolved, Symbol, Types
    <3> QED BY <2>1, <1>2, <3>1, <3>2 DEF HasParamList
  <2>2. CASE x = m
    <3>1. type.t = "func" => type.ref \in 1..Len(sym)
      BY <1>1 DEF Resolved, Types
    <3> QED BY <2>2, <1>2, <3>1 DEF HasParamList
  <2> QED BY <1>1, <2>1, <2>2
<1>7. ASSUME NEW x \in Live'
      PROVE  sym'[x].type.ref \in
               {0} \cup Global' \cup {y \in Local' : x \in Local' /\ y < x}
  <2>1. CASE x \in Live
    <3>1. x \in 1..Len(sym) BY <2>1, <1>1
    <3>2. sym[x].type.ref \in {0} \cup Global \cup {y \in Local : x \in Local /\ y < x}
      BY <2>1 DEF SymbolsAlive
    <3> QED BY <3>1, <3>2, <1>2, <1>3
  <2>2. CASE x = m
    <3>1. sym'[x].type.ref = type.ref BY <2>2, <1>2
    <3>2. type.ref \in {0} \cup Global \cup Local BY DEF Alive, Live
    <3>3. CASE m \in Local'
      <4>1. \A y \in Local : y < m BY <1>1
      <4> QED BY <2>2, <3>1, <3>2, <3>3, <4>1, <1>3
    <3>4. CASE m \notin Local'
      <4>1. type.ref \in {0} \cup Global
        BY <3>2, <3>4, <1>3 DEF GoesOnTop
      <4> QED BY <3>1, <4>1, <1>3
    <3> QED BY <3>3, <3>4
  <2> QED BY <1>3, <2>1, <2>2
<1>8. Parameters(Global) \subseteq Parameters(Global)'
  BY <1>1, <1>2, <1>3 DEF Parameters
<1>9. ASSUME NEW x \in Global', sym'[x].v.kind \in {"anom", "param"}
      PROVE  sym'[x].next \in {0} \cup Parameters(Global)'
  <2>1. CASE x \in Global
    <3>1. x \in 1..Len(sym) /\ sym[x].v.kind \in {"anom", "param"}
      BY <2>1, <1>1, <1>2, <1>9
    <3>2. CASE sym'[x].next = sym[x].next
      BY <2>1, <3>1, <3>2, <1>8 DEF SymbolsAlive
    <3>3. CASE sym'[x].next = m /\ MayHook(x, v)
      <4>1. v.kind = "param" /\ x \in Innermost
        BY <3>1, <3>3 DEF MayHook, Parameters
      <4>2. Local = {} BY <2>1, <4>1, <1>1 DEF Innermost
      <4>3. m \in Global' BY <4>1, <4>2 DEF GoesOnTop
      <4> QED BY <3>3, <4>1, <4>3, <1>2 DEF Parameters
    <3> QED BY <3>1, <3>2, <3>3 DEF Creates
  <2>2. CASE x = m
    <3>1. v.kind \in {"anom", "param"} /\ sym'[x].next = next
      BY <2>2, <1>2, <1>9
    <3>2. Local = {} BY <2>2, <3>1, <1>1, <1>9 DEF GoesOnTop
    <3>3. next \in {0} \cup Parameters(Global)
      BY <3>1, <3>2 DEF Innermost
    <3> QED BY <3>1, <3>3, <1>8
  <2>3. Global' \subseteq Global \cup {m} BY DEF GoesOnTop
  <2> QED BY <2>1, <2>2, <2>3
<1> QED BY <1>1, <1>4, <1>5, <1>6, <1>7, <1>9 DEF SymbolsAlive

-----------------------------------------------------------------------------
(* Frames.                                                                 *)

\* What a step that frees nothing leaves of a frame.
LEMMA FrameGrows ==
  ASSUME Table, Grown, NEW f \in Activation, f.at = "params" => SameInnermost,
         Bounded(f, Len(sym)), FrameAlive(f)
  PROVE  FrameAlive(f)'
<1>1. /\ Live \subseteq 1..Len(sym) /\ Global \subseteq 1..Len(sym)
      /\ Local \subseteq 1..Len(sym) /\ Len(sym) \in Nat
      /\ f.s \in Nat /\ f.tail \in Nat /\ f.type \in Types /\ f.base \in Types
  BY LiveTyped DEF Live, Activation
<1>2. Live \subseteq Live' /\ Global \subseteq Global'
  BY DEF Grown, Live
<1>3. \A x \in 1..Len(sym) : sym'[x].v = sym[x].v
  BY DEF Grown
<1>4. ASSUME NEW type \in Types, Resolved(type, Len(sym)), Alive(type), HasParamList(type)
      PROVE  Alive(type)' /\ HasParamList(type)'
  <2>1. type.t = "func" => type.ref \in 1..Len(sym)
    BY <1>1, <1>4 DEF Resolved, Types
  <2>2. Alive(type)' BY <1>2, <1>4 DEF Alive
  <2>3. HasParamList(type)' BY <1>3, <1>4, <2>1 DEF HasParamList
  <2> QED BY <2>2, <2>3
<1>5. Alive(f.type)' /\ HasParamList(f.type)' /\ Alive(f.base)' /\ HasParamList(f.base)'
  <2>1. /\ Resolved(f.type, Len(sym)) /\ Resolved(f.base, Len(sym))
        /\ Alive(f.type) /\ HasParamList(f.type) /\ Alive(f.base) /\ HasParamList(f.base)
    BY DEF Bounded, FrameAlive
  <2> QED BY <1>1, <1>4, <2>1
<1>6. Parameters(Global) \subseteq Parameters(Global)'
  BY <1>1, <1>2, <1>3 DEF Parameters
<1>7. f.at = "params" => Parameters(Innermost) \subseteq Parameters(Innermost)'
  <2> SUFFICES ASSUME f.at = "params", NEW x \in Parameters(Innermost)
               PROVE  x \in Parameters(Innermost)'
    OBVIOUS
  <2>1. x \in Innermost /\ sym[x].v.kind = "param" /\ x \in 1..Len(sym)
    BY <1>1 DEF Parameters, Innermost
  <2>2. x \in Innermost'
    BY <2>1 DEF Innermost, SameInnermost, Grown
  <2> QED BY <2>1, <2>2, <1>3 DEF Parameters
<1>8. f.at = "decl" /\ f.stage = "tagged" =>
        f.base.ref # 0 /\ sym'[f.base.ref].v.kind = "tag"
  <2> SUFFICES ASSUME f.at = "decl", f.stage = "tagged"
               PROVE  f.base.ref # 0 /\ sym'[f.base.ref].v.kind = "tag"
    OBVIOUS
  <2>1. f.base.ref # 0 /\ sym[f.base.ref].v.kind = "tag" BY DEF FrameAlive
  <2>2. f.base.ref \in 1..Len(sym)
    BY <1>1, <2>1 DEF Bounded, Resolved, Types
  <2> QED BY <1>3, <2>1, <2>2
<1>9. f.at = "struct" => f.tail # 0 /\ sym'[f.tail].v.kind \in {"tag", "member"}
  <2> SUFFICES ASSUME f.at = "struct"
               PROVE  f.tail # 0 /\ sym'[f.tail].v.kind \in {"tag", "member"}
    OBVIOUS
  <2>1. f.tail # 0 /\ sym[f.tail].v.kind \in {"tag", "member"} BY DEF FrameAlive
  <2>2. f.tail \in 1..Len(sym)
    BY <1>1, <2>1 DEF Bounded
  <2> QED BY <1>3, <2>1, <2>2
<1>10. f.at = "params" => {f.s, f.tail} \subseteq {0} \cup Parameters(Innermost)'
  BY <1>7 DEF FrameAlive
<1>11. /\ f.at = "func" /\ f.stage = "enter" => f.s \in Global'
       /\ f.at = "func" /\ f.stage = "prolog" => f.tail \in {0} \cup Parameters(Global)'
  BY <1>2, <1>6 DEF FrameAlive
<1>12. f.at # "decl" => f.type = int_type /\ f.base = int_type
  BY DEF FrameAlive
<1> QED BY <1>5, <1>8, <1>9, <1>10, <1>11, <1>12 DEF FrameAlive

\* A step that frees nothing and leaves the first m frames alone.
LEMMA TypesStep ==
  ASSUME Inv, Inv', TypesKept, Grown, SameInnermost, SymbolsAlive',
         NEW m \in Nat, Agree(parse, parse', m),
         \A i \in 1..Len(parse') : i > m => FrameOK(i)',
         m = 0 => FunctionFirst'
  PROVE  TypesKept'
<1>1. Len(parse) \in Nat /\ Len(parse') \in Nat /\ m <= Len(parse) /\ m <= Len(parse')
      /\ \A i \in 1..m : parse'[i] = parse[i]
  BY LenProperties DEF Inv, Agree
<1>2. ASSUME NEW i \in 1..m PROVE FrameOK(i)'
  <2>1. i \in 1..Len(parse) /\ parse'[i] = parse[i]
        /\ \A j \in 1..Len(parse') : j < i => j \in 1..Len(parse) /\ parse'[j] = parse[j]
    BY <1>1
  <2>2. FrameOK(i) /\ Bounded(parse[i], Len(sym)) /\ parse[i] \in Activation
    BY <2>1, ElementOfSeq DEF TypesKept, Inv, Fine
  <2>3. PICK f : f = parse[i] OBVIOUS
  <2>4. FrameAlive(f) /\ f \in Activation /\ Bounded(f, Len(sym)) /\ f = parse'[i]
    BY <2>1, <2>2, <2>3 DEF FrameOK
  <2>5. Table BY DEF Inv, Threaded
  <2>6. FrameAlive(f)'
    BY <2>4, <2>5, FrameGrows
  <2>7. BlockBelow(i)'
    BY <2>1, <2>2 DEF FrameOK, BlockBelow
  <2> QED BY <2>4, <2>6, <2>7 DEF FrameOK
<1>3. ASSUME NEW i \in 1..Len(parse') PROVE FrameOK(i)'
  <2>1. i \in 1..m \/ i > m BY <1>1
  <2> QED BY <2>1, <1>2
<1>4. FunctionFirst'
  <2>1. CASE m = 0 BY <2>1
  <2>2. CASE m # 0
    <3>1. parse'[1] = parse[1] /\ 1 \in 1..Len(parse') BY <1>1, <2>2
    <3>2. parse' # <<>> BY <3>1, EmptySeq
    <3>3. Local' # {} => Local # {} BY DEF SameInnermost
    <3> QED BY <3>1, <3>2, <3>3 DEF FunctionFirst, TypesKept
  <2> QED BY <2>1, <2>2
<1> QED BY <1>3, <1>4 DEF TypesKept

\* The frame on top.
LEMMA TopOK ==
  ASSUME Inv, TypesKept, parse # <<>>
  PROVE  /\ FrameAlive(top) /\ BlockBelow(Len(parse)) /\ top = parse[Len(parse)]
         /\ Len(parse) \in Nat \ {0} /\ top \in Activation
<1>1. top = parse[Len(parse)] /\ Len(parse) \in Nat \ {0} /\ top \in Activation
  BY TopFine
<1>2. FrameOK(Len(parse)) BY <1>1 DEF TypesKept
<1> QED BY <1>1, <1>2 DEF FrameOK

LEMMA TypesLeave ==
  ASSUME Inv, Inv', TypesKept, Grown, SameInnermost, SymbolsAlive',
         parse # <<>>, top.at \notin {"func", "pop"}, Leave
  PROVE  TypesKept'
<1>1. PICK b : b = ButLast(parse) OBVIOUS
<1>2. /\ b \in Seq(Activation) /\ Len(parse) \in Nat \ {0} /\ Len(b) = Len(parse) - 1
      /\ \A i \in 1..(Len(parse) - 1) : b[i] = parse[i]
  BY <1>1, Shorter DEF Inv
<1>3. parse' = b BY <1>1 DEF Leave
<1>4. Len(b) \in Nat /\ Agree(parse, parse', Len(b))
  BY <1>2, <1>3 DEF Agree
<1>5. \A i \in 1..Len(parse') : ~ (i > Len(b)) BY <1>2, <1>3
<1>6. Len(b) = 0 => FunctionFirst'
  <2>1. top = parse[Len(parse)] BY TopOK
  <2>2. ASSUME Len(b) = 0 PROVE Local = {}
    <3>1. Len(parse) = 1 BY <1>2, <2>2
    <3>2. parse[1].at \notin {"func", "pop"} BY <2>1, <3>1
    <3> QED BY <3>2 DEF TypesKept, FunctionFirst
  <2>3. ASSUME Len(b) = 0 PROVE Local' = {}
    BY <2>2, <2>3 DEF SameInnermost
  <2> QED BY <2>3 DEF FunctionFirst
<1> QED BY <1>4, <1>5, <1>6, TypesStep

\* The last frame goes on.
LEMMA TypesGoto ==
  ASSUME Inv, Inv', TypesKept, Grown, SameInnermost, SymbolsAlive',
         parse # <<>>, NEW f \in Activation, Goto(f), f.at = top.at, f.at # "pop",
         FrameAlive(f)'
  PROVE  TypesKept'
<1>0. parse \in Seq(Activation) /\ Len(parse) \in Nat \ {0} /\ BlockBelow(Len(parse))
      /\ top = parse[Len(parse)]
  BY TopOK DEF Inv
<1>1. /\ parse' \in Seq(Activation) /\ Len(parse') = Len(parse)
      /\ parse'[Len(parse)] = f /\ Agree(parse, parse', Len(parse) - 1)
  BY <1>0, Replaced DEF Goto
<1>2. PICK k : k = Len(parse) OBVIOUS
<1>3. BlockBelow(k)'
  BY <1>0, <1>1, <1>2 DEF BlockBelow, Agree
<1>4. FrameOK(k)' BY <1>1, <1>2, <1>3 DEF FrameOK
<1>5. \A i \in 1..Len(parse') : i > k - 1 => FrameOK(i)'
  BY <1>0, <1>1, <1>2, <1>4
<1>6. k - 1 \in Nat /\ Agree(parse, parse', k - 1) BY <1>0, <1>1, <1>2
<1>7. k - 1 = 0 => FunctionFirst'
  <2> SUFFICES ASSUME k = 1, Local' # {} PROVE parse' # <<>> /\ parse'[1].at = "func"
    BY <1>0, <1>2 DEF FunctionFirst
  <2>1. parse' # <<>> BY <1>0, <1>1, EmptySeq
  <2>2. Local # {} BY DEF SameInnermost
  <2>3. top.at = "func" BY <1>0, <1>2, <2>2 DEF TypesKept, FunctionFirst
  <2> QED BY <1>1, <1>2, <2>1, <2>3
<1> QED BY <1>5, <1>6, <1>7, TypesStep

\* A declaration or a parameter list begins.
LEMMA TypesEnter ==
  ASSUME Inv, Inv', TypesKept, Grown, SameInnermost, SymbolsAlive',
         NEW f \in Activation, parse' = Append(parse, f), f.at \in {"decl", "params"},
         FrameAlive(f)'
  PROVE  TypesKept'
<1>0. parse \in Seq(Activation) /\ Len(parse) \in Nat
  BY LenProperties DEF Inv
<1>1. /\ parse' \in Seq(Activation) /\ Len(parse') = Len(parse) + 1
      /\ parse'[Len(parse) + 1] = f /\ Agree(parse, parse', Len(parse))
  BY <1>0, Longer
<1>2. PICK k : k = Len(parse) OBVIOUS
<1>3. BlockBelow(k + 1)' BY <1>1, <1>2 DEF BlockBelow
<1>4. FrameOK(k + 1)' BY <1>1, <1>2, <1>3 DEF FrameOK
<1>5. \A i \in 1..Len(parse') : i > k => FrameOK(i)'
  <2>1. \A i \in 1..Len(parse') : i > k => i = k + 1 BY <1>0, <1>1, <1>2
  <2> QED BY <1>4, <2>1
<1>6. k \in Nat /\ Agree(parse, parse', k) BY <1>0, <1>1, <1>2
<1>7. k = 0 => FunctionFirst'
  <2>1. k = 0 => parse = <<>> BY <1>0, <1>2, EmptySeq
  <2>2. k = 0 => Local = {} BY <2>1 DEF TypesKept, FunctionFirst
  <2> QED BY <2>2 DEF FunctionFirst, SameInnermost
<1> QED BY <1>5, <1>6, <1>7, TypesStep

\* The last frame goes on and makes another one: a struct, a sizeof or a block.
LEMMA TypesGotoEnter ==
  ASSUME Inv, Inv', TypesKept, Grown, SameInnermost, SymbolsAlive', ~ NestedFunctions,
         parse # <<>>, NEW f \in Activation, NEW g \in Activation,
         parse' = Append(Append(ButLast(parse), f), g),
         f.at = top.at, f.at # "pop", FrameAlive(f)', FrameAlive(g)',
         g.at \in {"decl", "struct", "block"},
         g.at = "block" => f.at \in {"func", "block"}
  PROVE  TypesKept'
<1>0. parse \in Seq(Activation) /\ Len(parse) \in Nat \ {0} /\ BlockBelow(Len(parse))
      /\ top = parse[Len(parse)]
  BY TopOK DEF Inv
<1>1. PICK k : k = Len(parse) OBVIOUS
<1>2. /\ parse' \in Seq(Activation) /\ Len(parse') = k + 1
      /\ parse'[k] = f /\ parse'[k + 1] = g
      /\ Agree(parse, parse', k - 1)
  <2>1. PICK r : r = Append(ButLast(parse), f) OBVIOUS
  <2>2. /\ r \in Seq(Activation) /\ Len(r) = Len(parse) /\ r[Len(parse)] = f
        /\ Agree(parse, r, Len(parse) - 1)
    BY <1>0, <2>1, Replaced
  <2>3. /\ Append(r, g) \in Seq(Activation) /\ Len(Append(r, g)) = Len(r) + 1
        /\ Append(r, g)[Len(r) + 1] = g /\ Agree(r, Append(r, g), Len(r))
    BY <2>2, Longer
  <2>4. parse' = Append(r, g) BY <2>1
  <2> QED BY <1>0, <1>1, <2>2, <2>3, <2>4 DEF Agree
<1>3. BlockBelow(k)'
  BY <1>0, <1>1, <1>2 DEF BlockBelow, Agree
<1>4. BlockBelow(k + 1)'
  <2>1. CASE g.at # "block"
    BY <2>1, <1>2 DEF BlockBelow
  <2>2. CASE g.at = "block"
    <3> SUFFICES ASSUME NEW j \in 1..Len(parse'), j < k + 1
                 PROVE  parse'[j].at \in {"func", "block"}
      BY DEF BlockBelow
    <3>1. CASE j = k BY <2>2, <3>1, <1>2
    <3>2. CASE j < k
      <4>1. j \in 1..Len(parse) /\ parse'[j] = parse[j]
        <5>1. j \in 1..(k - 1) /\ k \in Nat \ {0} /\ k = Len(parse)
          BY <3>2, <1>0, <1>1, <1>2
        <5> QED BY <5>1, <1>2 DEF Agree
      <4>2. CASE f.at = "block"
        BY <4>1, <4>2, <3>2, <1>0, <1>1 DEF BlockBelow
      <4>3. CASE f.at = "func"
        <5>1. Fine(k) BY <1>0, <1>1 DEF Inv
        <5>2. Outermost(top) BY <4>3 DEF Outermost
        <5>3. k = 1 BY <5>1, <5>2, <1>0, <1>1 DEF Fine, Placed
        <5> QED BY <3>2, <5>3, <1>2
      <4> QED BY <2>2, <4>2, <4>3
    <3> QED BY <3>1, <3>2, <1>0, <1>1, <1>2
  <2> QED BY <2>1, <2>2
<1>5. FrameOK(k)' /\ FrameOK(k + 1)'
  BY <1>2, <1>3, <1>4 DEF FrameOK
<1>6. \A i \in 1..Len(parse') : i > k - 1 => FrameOK(i)'
  <2>1. \A i \in 1..Len(parse') : i > k - 1 => i = k \/ i = k + 1
    BY <1>0, <1>1, <1>2
  <2> QED BY <1>5, <2>1
<1>7. k - 1 \in Nat /\ Agree(parse, parse', k - 1) BY <1>0, <1>1, <1>2
<1>8. k - 1 = 0 => FunctionFirst'
  <2> SUFFICES ASSUME k = 1, Local' # {} PROVE parse' # <<>> /\ parse'[1].at = "func"
    BY <1>0, <1>1 DEF FunctionFirst
  <2>1. parse' # <<>> BY <1>2, EmptySeq
  <2>2. Local # {} BY DEF SameInnermost
  <2>3. top.at = "func" BY <1>0, <1>1, <2>2 DEF TypesKept, FunctionFirst
  <2> QED BY <1>2, <2>1, <2>3
<1> QED BY <1>6, <1>7, <1>8, TypesStep

\* A declarator ends: the frame below the last one goes on, alone or with the
\* declaration g above it.
LEMMA TypesMerge ==
  ASSUME Inv, Inv', TypesKept, Grown, SameInnermost, SymbolsAlive',
         Len(parse) > 1, NEW f \in Activation,
         parse' = Append(ButLast(ButLast(parse)), f),
         f.at = parse[Len(parse) - 1].at, f.at \in {"decl", "params"}, FrameAlive(f)'
  PROVE  TypesKept'
<1>1. PICK k : k = Len(parse) OBVIOUS
<1>2. parse \in Seq(Activation) /\ k \in Nat /\ k > 1
  BY <1>1, LenProperties DEF Inv
<1>3. /\ parse' \in Seq(Activation) /\ Len(parse') = k - 1 /\ parse'[k - 1] = f
      /\ Agree(parse, parse', k - 2)
  BY <1>1, <1>2, TwoReplaced
<1>4. BlockBelow(k - 1)' BY <1>3 DEF BlockBelow
<1>5. FrameOK(k - 1)' BY <1>3, <1>4 DEF FrameOK
<1>6. \A i \in 1..Len(parse') : i > k - 2 => FrameOK(i)'
  <2>1. \A i \in 1..Len(parse') : i > k - 2 => i = k - 1 BY <1>2, <1>3
  <2> QED BY <1>5, <2>1
<1>7. k - 2 \in Nat BY <1>2
<1>8. k - 2 = 0 => FunctionFirst'
  <2>1. ASSUME k - 2 = 0 PROVE Local' = {}
    <3>0. k = 2 /\ k - 1 = 1 BY <1>2, <2>1
    <3>1. parse[1].at \in {"decl", "params"} BY <1>1, <3>0
    <3>2. parse[1].at \notin {"func", "pop"} BY <3>1
    <3>3. Local = {} BY <3>2 DEF TypesKept, FunctionFirst
    <3> QED BY <3>3 DEF SameInnermost
  <2> QED BY <2>1 DEF FunctionFirst
<1> QED BY <1>3, <1>6, <1>7, <1>8, TypesStep

LEMMA TypesMember ==
  ASSUME Inv, Inv', TypesKept, Grown, SameInnermost, SymbolsAlive',
         Len(parse) > 1, NEW f \in Activation, NEW g \in Activation,
         parse' = Append(Append(ButLast(ButLast(parse)), f), g),
         parse[Len(parse) - 1].at = "struct", f.at = "struct", g.at = "decl",
         FrameAlive(f)', FrameAlive(g)'
  PROVE  TypesKept'
<1>1. PICK k : k = Len(parse) OBVIOUS
<1>2. parse \in Seq(Activation) /\ k \in Nat /\ k > 1
  BY <1>1, LenProperties DEF Inv
<1>3. PICK q : q = Append(ButLast(ButLast(parse)), f) OBVIOUS
<1>4. /\ q \in Seq(Activation) /\ Len(q) = k - 1 /\ q[k - 1] = f
      /\ Agree(parse, q, k - 2)
  BY <1>1, <1>2, <1>3, TwoReplaced
<1>5. /\ Append(q, g) \in Seq(Activation) /\ Len(Append(q, g)) = Len(q) + 1
      /\ Append(q, g)[Len(q) + 1] = g /\ Agree(q, Append(q, g), Len(q))
  BY <1>4, Longer
<1>6. parse' = Append(q, g) BY <1>3
<1>7. /\ parse' \in Seq(Activation) /\ Len(parse') = k
      /\ parse'[k - 1] = f /\ parse'[k] = g /\ Agree(parse, parse', k - 2)
  BY <1>2, <1>4, <1>5, <1>6 DEF Agree
<1>8. BlockBelow(k - 1)' /\ BlockBelow(k)' BY <1>7 DEF BlockBelow
<1>9. FrameOK(k - 1)' /\ FrameOK(k)' BY <1>7, <1>8 DEF FrameOK
<1>10. \A i \in 1..Len(parse') : i > k - 2 => FrameOK(i)'
  <2>1. \A i \in 1..Len(parse') : i > k - 2 => i = k - 1 \/ i = k BY <1>2, <1>7
  <2> QED BY <1>9, <2>1
<1>11. k - 2 \in Nat BY <1>2
<1>12. k - 2 = 0 => FunctionFirst'
  <2>1. ASSUME k - 2 = 0 PROVE Local' = {}
    <3>0. k = 2 /\ k - 1 = 1 BY <1>2, <2>1
    <3>1. parse[1].at = "struct" BY <1>1, <3>0
    <3>2. parse[1].at \notin {"func", "pop"} BY <3>1
    <3>3. Local = {} BY <3>2 DEF TypesKept, FunctionFirst
    <3> QED BY <3>3 DEF SameInnermost
  <2> QED BY <2>1 DEF FunctionFirst
<1> QED BY <1>7, <1>10, <1>11, <1>12, TypesStep

-----------------------------------------------------------------------------
(* What the pushes of the actions do to types.                             *)

LEMMA NothingPushed ==
  ASSUME Inv, TypesKept, NoSymbol
  PROVE  SymbolsAlive' /\ Grown /\ SameInnermost
<1>1. SymbolsSame BY DEF NoSymbol, SymbolsSame
<1> QED BY <1>1, SymbolsStay DEF Inv, Threaded, TypesKept

\* Where sym_push puts the symbol.
LEMMA PushPlace ==
  ASSUME Table, NEW v, NEW type, sym_push(v), Len(sym') = Len(sym) + 1
  PROVE  /\ GoesOnTop(v, type) /\ SameInnermost
         /\ Len(sym) + 1 \in Innermost' /\ Len(sym) + 1 \in Live'
<1>1. Len(sym) \in Nat /\ Live \subseteq 1..Len(sym) BY LiveTyped
<1>2. Stack(local_sym_stack, Len(sym)) /\ Stack(global_sym_stack, Len(sym))
  BY DEF Table
<1>3. CASE local_sym_stack # <<>>
  <2>1. local_sym_stack' = Append(local_sym_stack, Len(sym) + 1) /\ Global' = Global
    BY <1>3 DEF sym_push, PushLocal, Fresh, Global, Members
  <2>2. Local' = Local \cup {Len(sym) + 1}
    BY <1>1, <1>2, <2>1, StackPush DEF Local
  <2>3. Local # {} BY <1>3, EmptyLocal
  <2>4. GoesOnTop(v, type) /\ SameInnermost
    BY <2>1, <2>2, <2>3 DEF GoesOnTop, SameInnermost
  <2> QED BY <2>2, <2>4 DEF Innermost, Live
<1>4. CASE local_sym_stack = <<>>
  <2>1. global_sym_stack' = Append(global_sym_stack, Len(sym) + 1) /\ Local' = Local
    BY <1>4 DEF sym_push, PushGlobal, Fresh, Local, Members
  <2>2. Global' = Global \cup {Len(sym) + 1}
    BY <1>1, <1>2, <2>1, StackPush DEF Global
  <2>3. Local = {} BY <1>4, EmptyLocal
  <2>4. GoesOnTop(v, type) /\ SameInnermost
    BY <2>1, <2>2, <2>3 DEF GoesOnTop, SameInnermost
  <2> QED BY <2>1, <2>2, <2>3, <2>4 DEF Innermost, Live
<1> QED BY <1>3, <1>4

\* The new symbol, and what is known of it.
NewIs(v) ==
  /\ SymbolsAlive' /\ Grown /\ SameInnermost
  /\ Len(sym') = Len(sym) + 1
  /\ sym'[Len(sym) + 1].v = v
  /\ Len(sym) + 1 \in Innermost' /\ Len(sym) + 1 \in Live'

Typed(type) ==
  type \in Types /\ Resolved(type, Len(sym)) /\ Alive(type) /\ HasParamList(type)

LEMMA Created ==
  ASSUME Table, NEW v \in Word, NEW type \in Types, Resolved(type, Len(sym)),
         NEW c \in {-1, 0}, NEW next \in Nat, next <= Len(sym),
         sym' = Append(sym, NewSymbol(v, type, c, next))
  PROVE  Creates(v, type, next)
<1>1. Len(sym) \in Nat BY LiveTyped
<1>2. Resolved(type, Len(sym) + 1) /\ next <= Len(sym) + 1
  BY <1>1 DEF Resolved, Types
<1>3. PICK f : f = NewSymbol(v, type, c, next) OBVIOUS
<1>4. Extended(sym', f)
  BY <1>2, <1>3, NewLast
<1>5. f.v = v /\ f.type = type /\ f.next = next BY <1>3 DEF NewSymbol
<1> QED BY <1>4, <1>5 DEF Extended, Creates

LEMMA PushAlive ==
  ASSUME Inv, TypesKept, NEW v \in Word, NEW type, Typed(type),
         NEW c \in {-1, 0}, NEW next \in Nat, next <= Len(sym),
         sym_push(v), sym' = Append(sym, NewSymbol(v, type, c, next)),
         v.kind \in {"anom", "param"} => next \in {0} \cup Parameters(Innermost)
  PROVE  NewIs(v)
<1>1. Table /\ type \in Types /\ Resolved(type, Len(sym)) /\ Alive(type)
      /\ HasParamList(type) /\ SymbolsAlive
  BY DEF Inv, Threaded, TypesKept, Typed
<1>2. Creates(v, type, next) BY <1>1, Created
<1>3. Len(sym') = Len(sym) + 1 /\ sym'[Len(sym) + 1].v = v BY <1>2 DEF Creates
<1>4. /\ GoesOnTop(v, type) /\ SameInnermost
      /\ Len(sym) + 1 \in Innermost' /\ Len(sym) + 1 \in Live'
  BY <1>1, <1>3, PushPlace
<1>5. SymbolsAlive' /\ Grown
  BY <1>1, <1>2, <1>4, SymbolsPush
<1> QED BY <1>3, <1>4, <1>5 DEF NewIs

\* A new symbol that is also hooked behind symbol t.
Hooks(v, type, t) ==
  /\ Len(sym') = Len(sym) + 1
  /\ sym'[Len(sym) + 1].v = v /\ sym'[Len(sym) + 1].type = type
  /\ sym'[Len(sym) + 1].next = 0
  /\ \A x \in 1..Len(sym) :
       /\ sym'[x].v = sym[x].v /\ sym'[x].type = sym[x].type
       /\ sym'[x].next = IF x = t THEN Len(sym) + 1 ELSE sym[x].next

LEMMA Hooked ==
  ASSUME Table, NEW v \in Word, NEW type \in Types, Resolved(type, Len(sym)),
         NEW t \in 1..Len(sym),
         sym' = [Append(sym, NewSymbol(v, type, 0, 0)) EXCEPT ![t].next = Fresh]
  PROVE  Hooks(v, type, t)
<1>1. Len(sym) \in Nat BY LiveTyped
<1>2. PICK q : q = Append(sym, NewSymbol(v, type, 0, 0)) OBVIOUS
<1>3. PICK f : f = NewSymbol(v, type, 0, 0) OBVIOUS
<1>4. Extended(q, f)
  <2>1. Resolved(type, Len(sym) + 1) /\ 0 <= Len(sym) + 1 /\ 0 \in Nat /\ 0 \in {-1, 0}
    BY <1>1 DEF Resolved, Types
  <2> QED BY <1>1, <1>2, <1>3, <2>1, NewLast
<1>5. f.v = v /\ f.type = type /\ f.next = 0 BY <1>3 DEF NewSymbol
<1>6. PICK n : n = Len(sym) + 1 OBVIOUS
<1>7. /\ q \in Seq(Symbol) /\ Len(q) = n /\ q[n] = f /\ n \in Nat /\ n \notin 1..Len(sym)
      /\ \A x \in 1..Len(sym) : q[x] = sym[x] /\ x \in 1..n
  BY <1>1, <1>4, <1>6 DEF Extended
<1>8. PICK g : g = q[t] OBVIOUS
<1>9. t \in 1..Len(q) /\ g \in Symbol /\ g = sym[t]
  BY <1>7, <1>8, ElementOfSeq
<1>10. PICK h : h = [g EXCEPT !.next = n] OBVIOUS
<1>11. h \in Symbol /\ h.v = g.v /\ h.type = g.type /\ h.next = n
  BY <1>7, <1>9, <1>10, NextWritten
<1>12. sym' = [q EXCEPT ![t] = h]
  BY <1>2, <1>6, <1>8, <1>10 DEF Fresh
<1>13. /\ Len(sym') = n
       /\ \A i \in 1..Len(q) : sym'[i] = IF i = t THEN h ELSE q[i]
  BY <1>7, <1>9, <1>11, <1>12, ExceptSeq
<1>14. n \in 1..Len(q) /\ n # t BY <1>1, <1>6, <1>7
<1>15. sym'[n].v = v /\ sym'[n].type = type /\ sym'[n].next = 0
  BY <1>5, <1>7, <1>13, <1>14
<1>16. ASSUME NEW x \in 1..Len(sym)
       PROVE  /\ sym'[x].v = sym[x].v /\ sym'[x].type = sym[x].type
              /\ sym'[x].next = IF x = t THEN n ELSE sym[x].next
  <2>1. CASE x = t
    BY <2>1, <1>7, <1>9, <1>11, <1>13
  <2>2. CASE x # t
    BY <2>2, <1>7, <1>13
  <2> QED BY <2>1, <2>2
<1> QED BY <1>6, <1>13, <1>15, <1>16 DEF Hooks

LEMMA HookAlive ==
  ASSUME Inv, TypesKept, NEW v \in Word, NEW type, Typed(type),
         NEW t \in 1..Len(sym), MayHook(t, v), sym_push(v),
         sym' = [Append(sym, NewSymbol(v, type, 0, 0)) EXCEPT ![t].next = Fresh]
  PROVE  NewIs(v)
<1>1. Table /\ type \in Types /\ Resolved(type, Len(sym)) /\ Alive(type)
      /\ HasParamList(type) /\ SymbolsAlive
  BY DEF Inv, Threaded, TypesKept, Typed
<1>2. Hooks(v, type, t) BY <1>1, Hooked
<1>3. Creates(v, type, 0) BY <1>2 DEF Creates, Hooks
<1>4. Len(sym') = Len(sym) + 1 /\ sym'[Len(sym) + 1].v = v BY <1>3 DEF Creates
<1>5. /\ GoesOnTop(v, type) /\ SameInnermost
      /\ Len(sym) + 1 \in Innermost' /\ Len(sym) + 1 \in Live'
  BY <1>1, <1>4, PushPlace
<1>6. 0 \in {0} \cup Parameters(Innermost) OBVIOUS
<1>7. SymbolsAlive' /\ Grown
  BY <1>1, <1>3, <1>5, <1>6, SymbolsPush
<1> QED BY <1>4, <1>5, <1>7 DEF NewIs

\* func_sym_push: a symbol of the file, with a type of the file.
LEMMA FunctionAlive ==
  ASSUME Inv, TypesKept, NEW w \in AllWords, NEW v, v = V("ident", w),
         NEW type, Typed(type), type.ref \in {0} \cup Global,
         func_sym_push(w), sym' = Append(sym, NewSymbol(v, type, 0, 0))
  PROVE  /\ SymbolsAlive' /\ Grown /\ SameInnermost
         /\ Len(sym) + 1 \in Global' /\ Global' = Global \cup {Len(sym) + 1}
<1>1. Table /\ type \in Types /\ Resolved(type, Len(sym)) /\ Alive(type)
      /\ HasParamList(type) /\ SymbolsAlive /\ Len(sym) \in Nat
  BY LiveTyped DEF Inv, Threaded, TypesKept, Typed
<1>2. v \in Word /\ v.kind = "ident" BY VTyped DEF V
<1>3. 0 \in {-1, 0} /\ 0 \in Nat /\ 0 <= Len(sym) BY <1>1
<1>4. Creates(v, type, 0) BY <1>1, <1>2, <1>3, Created
<1>5. global_sym_stack' = Append(global_sym_stack, Len(sym) + 1) /\ Local' = Local
  BY DEF func_sym_push, PushGlobal, Fresh, Local, Members
<1>6. Stack(global_sym_stack, Len(sym)) BY <1>1 DEF Table
<1>7. Global' = Global \cup {Len(sym) + 1}
  BY <1>1, <1>5, <1>6, StackPush DEF Global
<1>8. GoesOnTop(v, type) BY <1>2, <1>5, <1>7 DEF GoesOnTop
<1>9. v.kind \in {"anom", "param"} => 0 \in {0} \cup Parameters(Innermost) OBVIOUS
<1>10. SymbolsAlive' /\ Grown
  BY <1>1, <1>4, <1>8, <1>9, SymbolsPush
<1>11. SameInnermost BY <1>5 DEF SameInnermost
<1> QED BY <1>7, <1>10, <1>11

-----------------------------------------------------------------------------
(* The frames the actions make.                                            *)

\* The frame on top before and after a step that frees nothing.
LEMMA TopGrows ==
  ASSUME Inv, TypesKept, parse # <<>>, NEW t, t = top
  PROVE  /\ t \in Activation /\ Bounded(t, Len(sym)) /\ FrameAlive(t)
         /\ Typed(t.type) /\ Typed(t.base)
         /\ Grown /\ SameInnermost => FrameAlive(t)'
<1>1. t \in Activation /\ Bounded(t, Len(sym)) /\ FrameAlive(t)
  BY TopFine, TopOK
<1>2. Typed(t.type) /\ Typed(t.base)
  BY <1>1 DEF Typed, Activation, Bounded, FrameAlive
<1>3. Grown /\ SameInnermost => FrameAlive(t)'
  BY <1>1, FrameGrows DEF Inv, Threaded
<1> QED BY <1>1, <1>2, <1>3

\* The same for the frame below it.
LEMMA BelowGrows ==
  ASSUME Inv, TypesKept, Len(parse) > 1, NEW t, t = parse[Len(parse) - 1]
  PROVE  /\ t \in Activation /\ Bounded(t, Len(sym)) /\ FrameAlive(t)
         /\ Typed(t.type) /\ Typed(t.base)
         /\ Grown /\ SameInnermost => FrameAlive(t)'
<1>1. t \in Activation /\ Bounded(t, Len(sym))
  BY BelowFine
<1>2. FrameAlive(t)
  <2>1. Len(parse) - 1 \in 1..Len(parse) BY LenProperties DEF Inv
  <2> QED BY <2>1 DEF TypesKept, FrameOK
<1>3. Typed(t.type) /\ Typed(t.base)
  BY <1>1, <1>2 DEF Typed, Activation, Bounded, FrameAlive
<1>4. Grown /\ SameInnermost => FrameAlive(t)'
  BY <1>1, <1>2, FrameGrows DEF Inv, Threaded
<1> QED BY <1>1, <1>2, <1>3, <1>4

\* A declaration goes on with a type that is alive.
LEMMA DeclAlive ==
  ASSUME NEW t, FrameAlive(t)', t.at = "decl", NEW f, f.at = "decl",
         f.base = t.base, f.stage # "tagged", Alive(f.type)', HasParamList(f.type)'
  PROVE  FrameAlive(f)'
BY DEF FrameAlive

LEMMA StatementAlive ==
  ASSUME NEW t \in Activation, FrameAlive(t)'
  PROVE  FrameAlive(Statement(t))' /\ Statement(t).at = t.at
<1>1. CASE t.at = "block"
  <2>1. PICK g : g = [t EXCEPT !.stage = "statements"] OBVIOUS
  <2>2. /\ g.at = t.at /\ g.type = t.type /\ g.base = t.base
    BY <2>1, WithStage
  <2>3. FrameAlive(g)' BY <1>1, <2>2 DEF FrameAlive
  <2>4. Statement(t) = g BY <1>1, <2>1 DEF Statement
  <2> QED BY <2>2, <2>3, <2>4
<1>2. CASE t.at # "block"
  BY <1>2 DEF Statement
<1> QED BY <1>1, <1>2

LEMMA IntAlive == Alive(int_type)' /\ HasParamList(int_type)'
BY DEF Alive, HasParamList, int_type, Type

LEMMA IntTypedAlive == ASSUME Len(sym) \in Nat PROVE Typed(int_type)
BY IntTyped DEF Typed, Alive, HasParamList, int_type, Type

\* A frame that is not a declaration.
LEMMA FrameMade ==
  ASSUME NEW at \in {"struct", "params", "func", "block", "pop"}, NEW stage,
         NEW m, NEW t,
         at = "struct" => t # 0 /\ sym'[t].v.kind \in {"tag", "member"},
         at = "params" => m = 0 /\ t = 0,
         at = "func" => stage = "enter" /\ m \in Global'
  PROVE  FrameAlive(Frame(at, stage, m, t))'
<1>1. PICK f : f = Frame(at, stage, m, t) OBVIOUS
<1>2. /\ f.at = at /\ f.stage = stage /\ f.s = m /\ f.tail = t
      /\ f.type = int_type /\ f.base = int_type
  BY <1>1 DEF Frame
<1>3. FrameAlive(f)' BY <1>2, IntAlive DEF FrameAlive
<1> QED BY <1>1, <1>3

LEMMA DeclMade ==
  ASSUME NEW where, NEW stage, NEW type, Alive(type)', HasParamList(type)',
         stage = "tagged" => type.ref # 0 /\ sym'[type.ref].v.kind = "tag",
         NEW f, f = DeclFrame(where, stage, type)
  PROVE  FrameAlive(f)'
<1>1. f.at = "decl" /\ f.stage = stage /\ f.type = type /\ f.base = type
  BY DEF DeclFrame
<1> QED BY <1>1 DEF FrameAlive

-----------------------------------------------------------------------------
(* The actions.                                                            *)

\* A declaration begins: BasicType and StructName.
LEMMA DeclarationAlive ==
  ASSUME Inv, Inv', TypesKept, Grown, SameInnermost, SymbolsAlive', ~ NestedFunctions,
         NEW stage \in {"tagged", "specified"}, NEW type \in Types,
         Resolved(type, Len(sym')), Declares(stage, type),
         Alive(type)', HasParamList(type)',
         stage = "tagged" => type.ref # 0 /\ sym'[type.ref].v.kind = "tag"
  PROVE  TypesKept'
<1>0. Len(sym') \in Nat BY LiveTyped, LenProperties DEF Inv, Threaded, Table
<1>1. CASE Expects # "nothing" /\ parse' = Append(parse, DeclFrame(Expects, stage, type))
  <2>1. PICK where : where = Expects OBVIOUS
  <2>2. where \in {"global", "local", "member", "param"}
    BY <1>1, <2>1 DEF Expects
  <2>3. PICK f : f = DeclFrame(where, stage, type) OBVIOUS
  <2>4. f \in Activation /\ f.at = "decl" BY <1>0, <2>2, <2>3, Declaring
  <2>5. FrameAlive(f)' BY <2>3, DeclMade
  <2>6. parse' = Append(parse, f) BY <1>1, <2>1, <2>3
  <2> QED BY <2>4, <2>5, <2>6, TypesEnter
<1>2. CASE /\ InExpression
           /\ parse' = Append(Append(ButLast(parse), Statement(top)),
                              DeclFrame("sizeof", stage, type))
  <2>1. parse # <<>> /\ top.at \in {"block", "decl"}
    BY <1>2 DEF InExpression, Decl, At, top
  <2>2. PICK t : t = top OBVIOUS
  <2>3. t \in Activation /\ Bounded(t, Len(sym)) /\ FrameAlive(t)'
    BY <2>1, <2>2, TopGrows
  <2>4. PICK f : f = Statement(t) OBVIOUS
  <2>5. f \in Activation /\ f.at = t.at /\ FrameAlive(f)'
    <3>1. Len(sym) \in Nat BY LiveTyped DEF Inv, Threaded
    <3>2. f \in Activation BY <2>1, <2>2, <2>3, <2>4, <3>1, StatementFine
    <3>3. FrameAlive(Statement(t))' /\ Statement(t).at = t.at
      BY <2>3, StatementAlive
    <3> QED BY <2>4, <3>2, <3>3
  <2>6. PICK g : g = DeclFrame("sizeof", stage, type) OBVIOUS
  <2>7. g \in Activation /\ g.at = "decl" BY <1>0, <2>6, Declaring
  <2>8. FrameAlive(g)' BY <2>6, DeclMade
  <2>9. parse' = Append(Append(ButLast(parse), f), g)
    BY <1>2, <2>2, <2>4, <2>6
  <2> QED BY <2>1, <2>2, <2>5, <2>7, <2>8, <2>9, TypesGotoEnter
<1> QED BY <1>1, <1>2 DEF Declares

LEMMA BasicTypeAlive ==
  ASSUME Inv, Inv', TypesKept, ~ NestedFunctions, BasicType PROVE TypesKept'
<1>1. SymbolsAlive' /\ Grown /\ SameInnermost
  BY NothingPushed DEF BasicType
<1>2. Len(sym') \in Nat BY LenProperties DEF Inv, Threaded, Table
<1>3. int_type \in Types /\ Resolved(int_type, Len(sym')) BY <1>2, IntTyped
<1>4. Declares("specified", int_type)
  BY DEF BasicType, Declares, Enter, EnterExpr
<1> QED BY <1>1, <1>3, <1>4, IntAlive, DeclarationAlive

\* struct_search finds a tag that exists.
LEMMA StructFound ==
  ASSUME Threaded, NEW w \in Words, struct_search(w) # 0
  PROVE  struct_search(w) \in Live /\ sym[struct_search(w)].v.kind = "tag"
<1>1. PICK n : n = <<"tag", w>> OBVIOUS
<1>2. n \in Names BY <1>1 DEF Names, AllWords
<1>3. head[n] \in Named(n)
  BY <1>1, <1>2 DEF Threaded, ChainsThreaded, Newest, struct_search
<1>4. head[n] \in Live /\ NameOf(sym[head[n]].v) = n
  BY <1>3 DEF Named
<1>5. sym[head[n]].v.kind = "tag" BY <1>1, <1>4 DEF NameOf
<1> QED BY <1>1, <1>4, <1>5 DEF struct_search

LEMMA StructNameAlive ==
  ASSUME Inv, Inv', TypesKept, ~ NestedFunctions, NEW w \in Words, StructName(w)
  PROVE  TypesKept'
<1>1. Threaded /\ Table /\ Len(sym) \in Nat /\ Live \subseteq 1..Len(sym)
  BY LiveTyped DEF Inv, Threaded
<1>2. PICK r : r = IF struct_search(w) # 0 THEN struct_search(w) ELSE Fresh
  OBVIOUS
<1>3. PICK type : type = Type("struct", r) OBVIOUS
<1>4. Declares("tagged", type)
  BY <1>2, <1>3 DEF StructName, Declares, Enter, EnterExpr
<1>5. type.t = "struct" /\ type.ref = r BY <1>3 DEF Type
<1>6. CASE struct_search(w) # 0
  <2>1. SymbolsAlive' /\ Grown /\ SameInnermost /\ Len(sym') = Len(sym)
    BY <1>6, NothingPushed DEF StructName, NoSymbol
  <2>2. r \in Live /\ sym[r].v.kind = "tag" BY <1>1, <1>2, <1>6, StructFound
  <2>3. r \in 1..Len(sym) BY <1>1, <2>2
  <2>4. r \in Live' /\ sym'[r].v.kind = "tag" /\ r # 0
    BY <1>1, <2>1, <2>2, <2>3 DEF Grown, Live
  <2>5. type \in Types /\ Resolved(type, Len(sym'))
    BY <1>1, <1>3, <2>1, <2>3 DEF Type, Types, Resolved
  <2>6. Alive(type)' /\ HasParamList(type)'
    BY <1>5, <2>4 DEF Alive, HasParamList
  <2> QED BY <1>4, <1>5, <2>1, <2>4, <2>5, <2>6, DeclarationAlive
<1>7. CASE struct_search(w) = 0
  <2>1. PICK v : v = V("tag", w) OBVIOUS
  <2>2. PICK t : t = Type("struct", 0) OBVIOUS
  <2>3. v \in Word /\ v.kind = "tag" BY <2>1, VTyped DEF V, AllWords
  <2>4. Typed(t)
    BY <1>1, <2>2 DEF Typed, Type, Types, Resolved, Alive, HasParamList
  <2>5. sym_push(v) /\ sym' = Append(sym, NewSymbol(v, t, -1, 0))
    BY <1>7, <2>1, <2>2 DEF StructName
  <2>6. -1 \in {-1, 0} /\ 0 \in Nat /\ 0 <= Len(sym)
        /\ (v.kind \in {"anom", "param"} => 0 \in {0} \cup Parameters(Innermost))
    BY <1>1
  <2>7. NewIs(v) BY <2>3, <2>4, <2>5, <2>6, PushAlive
  <2>8. r = Len(sym) + 1 BY <1>2, <1>7 DEF Fresh
  <2>9. r \in Live' /\ sym'[r].v.kind = "tag" /\ r # 0 /\ Len(sym') = Len(sym) + 1
    BY <1>1, <2>3, <2>7, <2>8 DEF NewIs
  <2>10. type \in Types /\ Resolved(type, Len(sym'))
    BY <1>1, <1>3, <2>8, <2>9 DEF Type, Types, Resolved
  <2>11. Alive(type)' /\ HasParamList(type)'
    BY <1>5, <2>9 DEF Alive, HasParamList
  <2>12. SymbolsAlive' /\ Grown /\ SameInnermost BY <2>7 DEF NewIs
  <2> QED BY <1>4, <1>5, <2>9, <2>10, <2>11, <2>12, DeclarationAlive
<1> QED BY <1>6, <1>7

\* A declaration goes on.
LEMMA DeclContinues ==
  ASSUME Inv, Inv', TypesKept, Grown, SameInnermost, SymbolsAlive',
         parse # <<>>, top.at = "decl", NEW f \in Activation, Goto(f), f.at = "decl",
         f.base = top.base, f.stage # "tagged", Alive(f.type)', HasParamList(f.type)'
  PROVE  TypesKept'
<1>1. PICK t : t = top OBVIOUS
<1>2. FrameAlive(t)' BY <1>1, TopGrows
<1>3. FrameAlive(f)' BY <1>1, <1>2, DeclAlive
<1> QED BY <1>3, TypesGoto

LEMMA IdentifierAlive ==
  ASSUME Inv, Inv', TypesKept, NEW w \in Words, Identifier(w) PROVE TypesKept'
<1>1. SymbolsAlive' /\ Grown /\ SameInnermost
  BY NothingPushed DEF Identifier
<1>2. parse # <<>> /\ top.at = "decl" BY DeclTop DEF Identifier
<1>3. PICK t : t = top OBVIOUS
<1>4. t \in Activation /\ FrameAlive(t)' BY <1>1, <1>2, <1>3, TopGrows
<1>5. PICK f : f = [t EXCEPT !.stage = "named", !.word = w] OBVIOUS
<1>6. /\ f \in Activation /\ f.at = "decl" /\ f.type = t.type /\ f.base = t.base
      /\ f.stage = "named"
  BY <1>2, <1>3, <1>4, <1>5 DEF Activation, AllWords
<1>7. Goto(f) BY <1>3, <1>5 DEF Identifier
<1>8. Alive(f.type)' /\ HasParamList(f.type)' BY <1>4, <1>6 DEF FrameAlive
<1>9. f.base = top.base /\ f.stage # "tagged" BY <1>3, <1>6
<1> QED BY <1>1, <1>2, <1>6, <1>7, <1>8, <1>9, DeclContinues

LEMMA CommaAlive ==
  ASSUME Inv, Inv', TypesKept, Comma PROVE TypesKept'
<1>1. SymbolsAlive' /\ Grown /\ SameInnermost
  BY NothingPushed DEF Comma
<1>2. parse # <<>> /\ top.at = "decl" BY DeclTop DEF Comma
<1>3. PICK t : t = top OBVIOUS
<1>4. t \in Activation /\ FrameAlive(t)' BY <1>1, <1>2, <1>3, TopGrows
<1>5. PICK f : f = [t EXCEPT !.stage = "pointer", !.type = t.base] OBVIOUS
<1>6. /\ f \in Activation /\ f.at = "decl" /\ f.type = t.base /\ f.base = t.base
      /\ f.stage = "pointer"
  BY <1>2, <1>3, <1>4, <1>5 DEF Activation
<1>7. Goto(f) BY <1>3, <1>5 DEF Comma
<1>8. Alive(f.type)' /\ HasParamList(f.type)' BY <1>4, <1>6 DEF FrameAlive
<1>9. f.base = top.base /\ f.stage # "tagged" BY <1>3, <1>6
<1> QED BY <1>1, <1>2, <1>6, <1>7, <1>8, <1>9, DeclContinues

LEMMA EndDeclarationAlive ==
  ASSUME Inv, Inv', TypesKept, EndDeclaration PROVE TypesKept'
<1>1. SymbolsAlive' /\ Grown /\ SameInnermost
  BY NothingPushed DEF EndDeclaration
<1>2. parse # <<>> /\ top.at = "decl" /\ Leave BY DeclTop DEF EndDeclaration
<1> QED BY <1>1, <1>2, TypesLeave

LEMMA OpenStructAlive ==
  ASSUME Inv, Inv', TypesKept, ~ NestedFunctions, OpenStruct PROVE TypesKept'
<1>1. SymbolsAlive' /\ Grown /\ SameInnermost /\ Len(sym) \in Nat
  BY NothingPushed, LiveTyped DEF OpenStruct, Inv, Threaded
<1>2. parse # <<>> /\ top.at = "decl" /\ top.stage = "tagged"
  BY DeclTop DEF OpenStruct
<1>3. PICK t : t = top OBVIOUS
<1>4. t \in Activation /\ Bounded(t, Len(sym)) /\ FrameAlive(t)'
  BY <1>1, <1>2, <1>3, TopGrows
<1>5. PICK f : f = [t EXCEPT !.stage = "specified"] OBVIOUS
<1>6. /\ f \in Activation /\ f.at = "decl" /\ f.type = t.type /\ f.base = t.base
      /\ f.stage = "specified"
  BY <1>2, <1>3, <1>4, <1>5 DEF Activation
<1>7. Alive(f.type)' /\ HasParamList(f.type)' BY <1>4, <1>6 DEF FrameAlive
<1>8. f.stage # "tagged" /\ t.at = "decl" BY <1>2, <1>3, <1>6
<1>9. FrameAlive(f)' BY <1>4, <1>6, <1>7, <1>8, DeclAlive
<1>10. PICK r : r = t.base.ref OBVIOUS
<1>11. r \in Nat /\ r # 0 /\ sym'[r].v.kind = "tag"
  BY <1>2, <1>3, <1>4, <1>10 DEF FrameAlive, Activation, Types
<1>12. PICK g : g = Frame("struct", "members", r, r) OBVIOUS
<1>13. g \in Activation /\ g.at = "struct"
  <2>1. IsFrame(g, "struct", "members", r, r) BY <1>11, <1>12, FrameFields
  <2> QED BY <2>1 DEF IsFrame
<1>14. FrameAlive(g)'
  <2>1. sym'[r].v.kind \in {"tag", "member"} BY <1>11
  <2> QED BY <1>11, <1>12, <2>1, FrameMade
<1>15. parse' = Append(Append(ButLast(parse), f), g)
  BY <1>3, <1>5, <1>10, <1>12 DEF OpenStruct
<1>16. f.at = top.at BY <1>2, <1>6
<1> QED BY <1>1, <1>2, <1>6, <1>9, <1>13, <1>14, <1>15, <1>16, TypesGotoEnter

LEMMA CloseStructSame == ASSUME Inv, CloseStruct PROVE SymbolsSame
<1>1. /\ UNCHANGED <<global_sym_stack, local_sym_stack>> /\ sym \in Seq(Symbol)
      /\ sym' = [sym EXCEPT ![top.s].c = 0]
  BY DEF CloseStruct, Inv, Threaded, Table
<1>2. PICK k : k = top.s OBVIOUS
<1>3. sym' = [sym EXCEPT ![k] = [sym[k] EXCEPT !.c = 0]] BY <1>1, <1>2
<1>4. Len(sym') = Len(sym) /\ \A x \in 1..Len(sym) :
        sym'[x] = IF x = k THEN [sym[k] EXCEPT !.c = 0] ELSE sym[x]
  <2>1. sym \in [1..Len(sym) -> Symbol] BY <1>1, LenProperties
  <2>2. CASE k \in 1..Len(sym)
    <3>1. PICK g : g = sym[k] OBVIOUS
    <3>2. PICK h : h = [g EXCEPT !.c = 0] OBVIOUS
    <3>3. h \in Symbol BY <1>1, <2>2, <3>1, <3>2, ElementOfSeq, SizeWritten
    <3>4. sym' = [sym EXCEPT ![k] = h] BY <1>3, <3>1, <3>2
    <3>5. Len(sym') = Len(sym) /\ \A x \in 1..Len(sym) : sym'[x] = IF x = k THEN h ELSE sym[x]
      BY <1>1, <2>2, <3>3, <3>4, ExceptSeq
    <3> QED BY <3>1, <3>2, <3>5
  <2>3. CASE k \notin 1..Len(sym)
    <3>1. sym' = sym BY <1>3, <2>1, <2>3
    <3> QED BY <2>3, <3>1
  <2> QED BY <2>2, <2>3
<1>5. ASSUME NEW x \in 1..Len(sym)
      PROVE  /\ sym'[x].v = sym[x].v /\ sym'[x].type = sym[x].type
             /\ sym'[x].next = sym[x].next
  <2>1. PICK g : g = sym[x] OBVIOUS
  <2>2. g \in Symbol BY <1>1, <2>1, ElementOfSeq
  <2>3. PICK h : h = [g EXCEPT !.c = 0] OBVIOUS
  <2>4. h.v = g.v /\ h.type = g.type /\ h.next = g.next BY <2>2, <2>3, SizeWritten
  <2>5. sym'[x] = g \/ sym'[x] = h BY <1>4, <2>1, <2>3
  <2> QED BY <2>1, <2>4, <2>5
<1> QED BY <1>1, <1>4, <1>5 DEF SymbolsSame

LEMMA CloseStructAlive ==
  ASSUME Inv, Inv', TypesKept, CloseStruct PROVE TypesKept'
<1>1. /\ Leave /\ parse # <<>> /\ top.at \notin {"func", "pop"} /\ Table /\ SymbolsAlive
  BY DEF CloseStruct, At, top, Inv, Threaded, TypesKept
<1>2. SymbolsSame BY CloseStructSame
<1>3. SymbolsAlive' /\ Grown /\ SameInnermost BY <1>1, <1>2, SymbolsStay
<1> QED BY <1>1, <1>3, TypesLeave

LEMMA OpenParamsAlive ==
  ASSUME Inv, Inv', TypesKept, OpenParams PROVE TypesKept'
<1>1. SymbolsAlive' /\ Grown /\ SameInnermost
  BY NothingPushed DEF OpenParams
<1>2. PICK f : f = Frame("params", "params", 0, 0) OBVIOUS
<1>3. f \in Activation /\ f.at = "params"
  <2>1. IsFrame(f, "params", "params", 0, 0) BY <1>2, FrameFields
  <2> QED BY <2>1 DEF IsFrame
<1>4. FrameAlive(f)' BY <1>2, FrameMade
<1>5. parse' = Append(parse, f) BY <1>2 DEF OpenParams, Enter
<1> QED BY <1>1, <1>3, <1>4, <1>5, TypesEnter

\* mk_pointer and the array of a declarator: the new type is the new symbol.
LEMMA DerivedAlive ==
  ASSUME Inv, Inv', TypesKept, parse # <<>>, top.at = "decl", NEW c \in {-1, 0},
         sym_push(Anonymous), sym' = Append(sym, NewSymbol(Anonymous, top.type, c, 0)),
         NEW stage \in {"pointer", "complete"}, NEW kind \in {"ptr", "array"},
         Goto([top EXCEPT !.stage = stage, !.type = Type(kind, Fresh)])
  PROVE  TypesKept'
<1>1. PICK t : t = top OBVIOUS
<1>2. t \in Activation /\ Typed(t.type)
  BY <1>1, TopGrows
<1>3. PICK type : type = t.type OBVIOUS
<1>4. Len(sym) \in Nat /\ 0 \in Nat /\ 0 <= Len(sym)
  BY LiveTyped DEF Inv, Threaded
<1>5. NewIs(Anonymous)
  <2>1. sym' = Append(sym, NewSymbol(Anonymous, type, c, 0)) BY <1>1, <1>3
  <2>2. Typed(type) BY <1>2, <1>3
  <2>3. Anonymous.kind \in {"anom", "param"} => 0 \in {0} \cup Parameters(Innermost)
    OBVIOUS
  <2> QED BY <1>4, <2>1, <2>2, <2>3, AnonymousTyped, PushAlive
<1>6. SymbolsAlive' /\ Grown /\ SameInnermost BY <1>5 DEF NewIs
<1>7. PICK n : n = Fresh OBVIOUS
<1>8. PICK new : new = Type(kind, n) OBVIOUS
<1>9. new \in Types /\ new.ref = n /\ new.t = kind
  BY <1>4, <1>7, <1>8 DEF Type, Types, Fresh
<1>10. Alive(new)' /\ HasParamList(new)'
  BY <1>5, <1>7, <1>9 DEF NewIs, Alive, HasParamList, Fresh
<1>11. PICK f : f = [t EXCEPT !.stage = stage, !.type = new] OBVIOUS
<1>12. /\ f \in Activation /\ f.at = t.at /\ f.type = new /\ f.base = t.base
       /\ f.stage = stage
  BY <1>2, <1>9, <1>11 DEF Activation
<1>13. Goto(f) BY <1>1, <1>7, <1>8, <1>11
<1>14. f.at = "decl" /\ f.base = top.base /\ f.stage # "tagged" BY <1>1, <1>12
<1> QED BY <1>6, <1>10, <1>12, <1>13, <1>14, DeclContinues

LEMMA PointerAlive ==
  ASSUME Inv, Inv', TypesKept, Pointer PROVE TypesKept'
<1>1. parse # <<>> /\ top.at = "decl" BY DeclTop DEF Pointer
<1>2. /\ sym_push(Anonymous) /\ -1 \in {-1, 0}
      /\ sym' = Append(sym, NewSymbol(Anonymous, top.type, -1, 0))
      /\ Goto([top EXCEPT !.stage = "pointer", !.type = Type("ptr", Fresh)])
  BY DEF Pointer
<1> QED BY <1>1, <1>2, DerivedAlive

LEMMA ArrayAlive ==
  ASSUME Inv, Inv', TypesKept, Array PROVE TypesKept'
<1>1. parse # <<>> /\ top.at = "decl" BY DeclTop DEF Array
<1>2. /\ sym_push(Anonymous) /\ 0 \in {-1, 0}
      /\ sym' = Append(sym, NewSymbol(Anonymous, top.type, 0, 0))
      /\ Goto([top EXCEPT !.stage = "complete", !.type = Type("array", Fresh)])
  BY DEF Array
<1> QED BY <1>1, <1>2, DerivedAlive

LEMMA DeclareNameAlive ==
  ASSUME Inv, Inv', TypesKept, DeclareName PROVE TypesKept'
<1>1. parse # <<>> /\ top.at = "decl" BY DeclTop DEF DeclareName
<1>2. PICK t : t = top OBVIOUS
<1>3. t \in Activation /\ Typed(t.type) BY <1>1, <1>2, TopGrows
<1>4. SymbolsAlive' /\ Grown /\ SameInnermost
  <2>1. CASE NoSymbol BY <2>1, NothingPushed
  <2>2. CASE /\ sym_push(V("ident", top.word))
             /\ sym' = Append(sym, NewSymbol(V("ident", top.word), top.type, 0, 0))
    <3>1. PICK v : v = V("ident", t.word) OBVIOUS
    <3>2. PICK type : type = t.type OBVIOUS
    <3>3. v \in Word /\ v.kind = "ident" BY <1>3, <3>1, VTyped DEF V, Activation
    <3>4. 0 \in {-1, 0} /\ 0 \in Nat /\ 0 <= Len(sym) BY LiveTyped DEF Inv, Threaded
    <3>5. sym_push(v) /\ sym' = Append(sym, NewSymbol(v, type, 0, 0))
      BY <1>2, <2>2, <3>1, <3>2
    <3>6. v.kind \in {"anom", "param"} => 0 \in {0} \cup Parameters(Innermost) OBVIOUS
    <3>7. Typed(type) BY <1>3, <3>2
    <3>8. NewIs(v) BY <3>3, <3>4, <3>5, <3>6, <3>7, PushAlive
    <3> QED BY <3>8 DEF NewIs
  <2> QED BY <2>1, <2>2 DEF DeclareName
<1>5. PICK f : f = [t EXCEPT !.stage = "done"] OBVIOUS
<1>6. f \in Activation /\ f.at = t.at /\ f.type = t.type /\ f.base = t.base /\ f.stage = "done"
  BY <1>3, <1>5, WithStage
<1>7. Goto(f) BY <1>2, <1>5 DEF DeclareName
<1>8. FrameAlive(t)' BY <1>1, <1>2, <1>4, TopGrows
<1>9. Alive(f.type)' /\ HasParamList(f.type)' BY <1>6, <1>8 DEF FrameAlive
<1>10. f.at = "decl" /\ f.base = top.base /\ f.stage # "tagged" BY <1>1, <1>2, <1>6
<1> QED BY <1>1, <1>4, <1>6, <1>7, <1>9, <1>10, DeclContinues

LEMMA MemberAlive ==
  ASSUME Inv, Inv', TypesKept, Member PROVE TypesKept'
<1>1. parse # <<>> /\ top.at = "decl" /\ top.where = "member"
  BY DeclTop DEF Member
<1>2. Len(parse) > 1 /\ parse[Len(parse) - 1].at = "struct" /\ Len(sym) \in Nat
  BY <1>1, TopFine, LiveTyped DEF Inv, Threaded
<1>3. PICK t : t = top OBVIOUS
<1>4. PICK list : list = parse[Len(parse) - 1] OBVIOUS
<1>5. t \in Activation /\ Typed(t.type) BY <1>1, <1>3, TopGrows
<1>6. list \in Activation /\ Bounded(list, Len(sym)) /\ FrameAlive(list)
  BY <1>2, <1>4, BelowGrows
<1>7. PICK v : v = V("member", t.word) OBVIOUS
<1>8. PICK type : type = t.type OBVIOUS
<1>9. PICK k : k = list.tail OBVIOUS
<1>10. k \in 1..Len(sym) /\ MayHook(k, v)
  <2>1. k # 0 /\ sym[k].v.kind \in {"tag", "member"}
    BY <1>2, <1>4, <1>6, <1>9 DEF FrameAlive
  <2>2. k \in Nat /\ k <= Len(sym) BY <1>6, <1>9 DEF Activation, Bounded
  <2> QED BY <1>2, <2>1, <2>2 DEF MayHook
<1>11. v \in Word /\ Typed(type) BY <1>5, <1>7, <1>8, VTyped DEF Activation
<1>12. /\ sym_push(v)
       /\ sym' = [Append(sym, NewSymbol(v, type, 0, 0)) EXCEPT ![k].next = Fresh]
  BY <1>3, <1>4, <1>7, <1>8, <1>9 DEF Member
<1>13. NewIs(v) BY <1>10, <1>11, <1>12, HookAlive
<1>14. SymbolsAlive' /\ Grown /\ SameInnermost BY <1>13 DEF NewIs
<1>15. FrameAlive(list)' /\ FrameAlive(t)'
  BY <1>1, <1>2, <1>3, <1>4, <1>14, TopGrows, BelowGrows
<1>16. PICK n : n = Fresh OBVIOUS
<1>17. n \in Nat /\ n # 0 /\ sym'[n].v.kind = "member"
  BY <1>2, <1>7, <1>13, <1>16 DEF NewIs, Fresh, V
<1>18. PICK f : f = [list EXCEPT !.tail = n] OBVIOUS
<1>19. /\ f \in Activation /\ f.at = "struct" /\ f.tail = n
       /\ f.type = list.type /\ f.base = list.base
  BY <1>2, <1>4, <1>6, <1>17, <1>18 DEF Activation
<1>20. FrameAlive(f)' BY <1>2, <1>4, <1>15, <1>17, <1>19 DEF FrameAlive
<1>21. PICK g : g = [t EXCEPT !.stage = "done"] OBVIOUS
<1>22. /\ g \in Activation /\ g.at = "decl" /\ g.type = t.type /\ g.base = t.base
       /\ g.stage = "done"
  BY <1>1, <1>3, <1>5, <1>21 DEF Activation
<1>23. FrameAlive(g)'
  <2>1. Alive(g.type)' /\ HasParamList(g.type)' BY <1>15, <1>22 DEF FrameAlive
  <2>2. t.at = "decl" /\ g.stage # "tagged" BY <1>1, <1>3, <1>22
  <2> QED BY <1>15, <1>22, <2>1, <2>2, DeclAlive
<1>24. parse' = Append(Append(ButLast(ButLast(parse)), f), g)
  BY <1>3, <1>4, <1>16, <1>18, <1>21 DEF Member
<1>25. f.at = "struct" /\ g.at = "decl" BY <1>19, <1>22
<1> QED BY <1>2, <1>14, <1>19, <1>20, <1>22, <1>23, <1>24, <1>25, TypesMember

LEMMA ParameterAlive ==
  ASSUME Inv, Inv', TypesKept, Parameter PROVE TypesKept'
<1>1. parse # <<>> /\ top.at = "decl" /\ top.where = "param"
  BY DeclTop DEF Parameter
<1>2. Len(parse) > 1 /\ parse[Len(parse) - 1].at = "params" /\ Len(sym) \in Nat
  BY <1>1, TopFine, LiveTyped DEF Inv, Threaded
<1>3. PICK t : t = top OBVIOUS
<1>4. PICK list : list = parse[Len(parse) - 1] OBVIOUS
<1>5. t \in Activation /\ Typed(t.type) BY <1>1, <1>3, TopGrows
<1>6. list \in Activation /\ Bounded(list, Len(sym)) /\ FrameAlive(list)
      /\ list.at = "params"
  BY <1>2, <1>4, BelowGrows
<1>7. PICK v : v = V("param", t.word) OBVIOUS
<1>8. PICK type : type = t.type OBVIOUS
<1>9. PICK k : k = list.tail OBVIOUS
<1>10. v \in Word /\ Typed(type) /\ v.kind = "param"
  BY <1>5, <1>7, <1>8, VTyped DEF Activation, V
<1>11. NewIs(v)
  <2>1. CASE k = 0
    <3>1. sym_push(v) /\ sym' = Append(sym, NewSymbol(v, type, 0, 0))
      BY <1>3, <1>4, <1>7, <1>8, <1>9, <2>1 DEF Parameter
    <3>2. 0 \in {-1, 0} /\ 0 \in Nat /\ 0 <= Len(sym)
          /\ (v.kind \in {"anom", "param"} => 0 \in {0} \cup Parameters(Innermost))
      BY <1>2
    <3> QED BY <1>10, <3>1, <3>2, PushAlive
  <2>2. CASE k # 0
    <3>1. /\ sym_push(v)
          /\ sym' = [Append(sym, NewSymbol(v, type, 0, 0)) EXCEPT ![k].next = Fresh]
      BY <1>3, <1>4, <1>7, <1>8, <1>9, <2>2 DEF Parameter
    <3>2. k \in Nat /\ k <= Len(sym) /\ k \in Parameters(Innermost)
      BY <1>6, <1>9, <2>2 DEF FrameAlive, Activation, Bounded
    <3>3. k \in 1..Len(sym) /\ MayHook(k, v) BY <1>2, <1>10, <2>2, <3>2 DEF MayHook
    <3> QED BY <1>10, <3>1, <3>3, HookAlive
  <2> QED BY <2>1, <2>2
<1>12. SymbolsAlive' /\ Grown /\ SameInnermost BY <1>11 DEF NewIs
<1>13. FrameAlive(list)' BY <1>2, <1>4, <1>12, BelowGrows
<1>14. PICK n : n = Fresh OBVIOUS
<1>15. n \in Nat /\ n \in Parameters(Innermost)'
  BY <1>2, <1>10, <1>11, <1>14 DEF NewIs, Fresh, Parameters
<1>16. PICK s : s = IF list.s = 0 THEN n ELSE list.s OBVIOUS
<1>17. PICK f : f = [list EXCEPT !.s = s, !.tail = n] OBVIOUS
<1>18. s \in Nat /\ s \in {0} \cup Parameters(Innermost)'
  <2>1. list.s \in Nat /\ list.s \in {0} \cup Parameters(Innermost)'
    BY <1>6, <1>13 DEF Activation, FrameAlive
  <2> QED BY <1>15, <1>16, <2>1
<1>19. /\ f \in Activation /\ f.at = "params" /\ f.s = s /\ f.tail = n
       /\ f.type = list.type /\ f.base = list.base
  BY <1>6, <1>15, <1>17, <1>18 DEF Activation
<1>20. FrameAlive(f)' BY <1>6, <1>13, <1>15, <1>18, <1>19 DEF FrameAlive
<1>21. parse' = Append(ButLast(ButLast(parse)), f)
  BY <1>3, <1>4, <1>14, <1>16, <1>17 DEF Parameter
<1>22. f.at = parse[Len(parse) - 1].at /\ f.at \in {"decl", "params"} BY <1>2, <1>19
<1> QED BY <1>2, <1>12, <1>19, <1>20, <1>21, <1>22, TypesMerge

LEMMA CloseParamsAlive ==
  ASSUME Inv, Inv', TypesKept, CloseParams PROVE TypesKept'
<1>1. parse # <<>> /\ top.at = "params" BY DEF CloseParams, At, top
<1>2. Len(parse) > 1 /\ parse[Len(parse) - 1].at = "decl" /\ Len(sym) \in Nat
  BY <1>1, TopFine, LiveTyped DEF Inv, Threaded
<1>3. PICK t : t = top OBVIOUS
<1>4. PICK decl : decl = parse[Len(parse) - 1] OBVIOUS
<1>5. t \in Activation /\ Bounded(t, Len(sym)) /\ FrameAlive(t) /\ t.at = "params"
  BY <1>1, <1>3, TopGrows
<1>6. decl \in Activation /\ Typed(decl.type) /\ decl.at = "decl"
  BY <1>2, <1>4, BelowGrows
<1>7. PICK type : type = decl.type OBVIOUS
<1>8. PICK k : k = t.s OBVIOUS
<1>9. k \in Nat /\ k <= Len(sym) /\ k \in {0} \cup Parameters(Innermost)
  BY <1>5, <1>8 DEF Activation, Bounded, FrameAlive
<1>10. /\ sym_push(Anonymous) /\ sym' = Append(sym, NewSymbol(Anonymous, type, 0, k))
       /\ Typed(type) /\ 0 \in {-1, 0}
  BY <1>3, <1>4, <1>6, <1>7, <1>8 DEF CloseParams, FirstParameter
<1>11. NewIs(Anonymous)
  <2>1. Anonymous.kind \in {"anom", "param"} => k \in {0} \cup Parameters(Innermost)
    BY <1>9
  <2> QED BY <1>9, <1>10, <2>1, AnonymousTyped, PushAlive
<1>12. SymbolsAlive' /\ Grown /\ SameInnermost BY <1>11 DEF NewIs
<1>13. FrameAlive(decl)' BY <1>2, <1>4, <1>12, BelowGrows
<1>14. PICK n : n = Fresh OBVIOUS
<1>15. PICK new : new = Type("func", n) OBVIOUS
<1>16. new \in Types /\ new.ref = n /\ n = Len(sym) + 1
  BY <1>2, <1>14, <1>15 DEF Type, Types, Fresh
<1>17. Alive(new)' /\ HasParamList(new)'
  BY <1>11, <1>16 DEF NewIs, Alive, HasParamList, Anonymous, V
<1>18. PICK f : f = [decl EXCEPT !.stage = "complete", !.type = new] OBVIOUS
<1>19. /\ f \in Activation /\ f.at = "decl" /\ f.type = new /\ f.base = decl.base
       /\ f.stage = "complete"
  BY <1>6, <1>16, <1>18 DEF Activation
<1>20. FrameAlive(f)'
  <2>1. Alive(f.type)' /\ HasParamList(f.type)' BY <1>17, <1>19
  <2>2. f.stage # "tagged" BY <1>19
  <2> QED BY <1>6, <1>13, <1>19, <2>1, <2>2, DeclAlive
<1>21. parse' = Append(ButLast(ButLast(parse)), f)
  BY <1>4, <1>14, <1>15, <1>18 DEF CloseParams
<1>22. f.at = parse[Len(parse) - 1].at /\ f.at \in {"decl", "params"} BY <1>2, <1>19
<1> QED BY <1>2, <1>12, <1>19, <1>20, <1>21, <1>22, TypesMerge

\* What is made in an expression.
LEMMA ExpressionAlive ==
  ASSUME Inv, Inv', TypesKept, Grown, SameInnermost, SymbolsAlive',
         InExpression, Goto(Statement(top))
  PROVE  TypesKept'
<1>1. parse # <<>> /\ top.at \in {"block", "decl"}
  BY DEF InExpression, Decl, At, top
<1>2. PICK t : t = top OBVIOUS
<1>3. t \in Activation /\ Bounded(t, Len(sym)) /\ FrameAlive(t)' /\ Len(sym) \in Nat
  BY <1>1, <1>2, TopGrows, LiveTyped DEF Inv, Threaded
<1>4. PICK f : f = Statement(t) OBVIOUS
<1>5. f \in Activation BY <1>1, <1>2, <1>3, <1>4, StatementFine
<1>6. FrameAlive(Statement(t))' /\ Statement(t).at = t.at BY <1>3, StatementAlive
<1>7. FrameAlive(f)' /\ f.at = top.at /\ f.at # "pop" BY <1>1, <1>2, <1>4, <1>6
<1>8. Goto(f) BY <1>2, <1>4
<1> QED BY <1>1, <1>5, <1>7, <1>8, TypesGoto

LEMMA UndeclaredAlive ==
  ASSUME Inv, Inv', TypesKept, NEW w \in Words, Undeclared(w) PROVE TypesKept'
<1>1. w \in AllWords /\ Len(sym) \in Nat /\ Len(sym) >= 3
  BY LiveTyped DEF AllWords, Inv, Threaded, Table
<1>2. PICK v : v = V("ident", w) OBVIOUS
<1>3. PICK type : type = default_func_type OBVIOUS
<1>4. type \in Types /\ type.ref = 2 /\ type.t = "func"
  BY <1>3 DEF default_func_type, Type, Types
<1>5. Typed(type) /\ type.ref \in {0} \cup Global
  <2>1. 2 \in Global /\ sym[2].v.kind = "anom" BY DEF TypesKept, SymbolsAlive
  <2> QED BY <1>1, <1>4, <2>1 DEF Typed, Resolved, Alive, HasParamList, Live
<1>6. /\ func_sym_push(w) /\ InExpression /\ Goto(Statement(top))
      /\ sym' = Append(sym, NewSymbol(v, type, 0, 0))
  BY <1>2, <1>3 DEF Undeclared
<1>7. SymbolsAlive' /\ Grown /\ SameInnermost
  BY <1>1, <1>2, <1>5, <1>6, FunctionAlive
<1> QED BY <1>6, <1>7, ExpressionAlive

LEMMA PointerInExpressionAlive ==
  ASSUME Inv, Inv', TypesKept, PointerInExpression PROVE TypesKept'
<1>1. Len(sym) \in Nat /\ -1 \in {-1, 0} /\ 0 \in Nat /\ 0 <= Len(sym)
      /\ (Anonymous.kind \in {"anom", "param"} => 0 \in {0} \cup Parameters(Innermost))
  BY LiveTyped DEF Inv, Threaded
<1>2. Typed(int_type) BY <1>1, IntTypedAlive
<1>3. /\ sym_push(Anonymous) /\ InExpression /\ Goto(Statement(top))
      /\ sym' = Append(sym, NewSymbol(Anonymous, int_type, -1, 0))
  BY DEF PointerInExpression
<1>4. NewIs(Anonymous) BY <1>1, <1>2, <1>3, AnonymousTyped, PushAlive
<1>5. SymbolsAlive' /\ Grown /\ SameInnermost BY <1>4 DEF NewIs
<1> QED BY <1>3, <1>5, ExpressionAlive

-----------------------------------------------------------------------------
(* Functions, blocks and sym_pop.                                          *)

LEMMA BlockAlive ==
  ASSUME Table, local_sym_stack # <<>>, NEW g, g = BlockFrame
  PROVE  g \in Activation /\ g.at = "block" /\ FrameAlive(g)'
<1>1. g \in Activation /\ g.at = "block"
  BY NewBlock DEF Above
<1>2. g.type = int_type /\ g.base = int_type BY DEF BlockFrame, Frame
<1> QED BY <1>1, <1>2, IntAlive DEF FrameAlive

LEMMA FuncBlockAlive ==
  ASSUME Inv, Inv', TypesKept, ~ NestedFunctions, FuncBlock PROVE TypesKept'
<1>1. SymbolsAlive' /\ Grown /\ SameInnermost /\ Table
  BY NothingPushed DEF FuncBlock, Inv, Threaded
<1>2. parse # <<>> /\ top.at = "func" /\ top.stage = "prolog"
  BY DEF FuncBlock, At, top
<1>3. local_sym_stack # <<>>
  <2>1. Running(top) BY <1>2, TopFine
  <2> QED BY <1>2, <2>1 DEF Running
<1>4. PICK t : t = top OBVIOUS
<1>5. t \in Activation /\ FrameAlive(t)' BY <1>1, <1>2, <1>4, TopGrows
<1>6. PICK f : f = [t EXCEPT !.stage = "body"] OBVIOUS
<1>7. /\ f \in Activation /\ f.at = "func" /\ f.type = t.type /\ f.base = t.base
      /\ f.stage = "body"
  BY <1>2, <1>4, <1>5, <1>6 DEF Activation
<1>8. FrameAlive(f)'
  <2>1. t.at = "func" BY <1>2, <1>4
  <2> QED BY <1>5, <1>7, <2>1 DEF FrameAlive
<1>9. PICK g : g = BlockFrame OBVIOUS
<1>10. g \in Activation /\ g.at = "block" /\ FrameAlive(g)'
  BY <1>1, <1>3, <1>9, BlockAlive
<1>11. parse' = Append(Append(ButLast(parse), f), g)
  BY <1>4, <1>6, <1>9 DEF FuncBlock
<1>12. f.at = top.at /\ f.at # "pop" /\ f.at \in {"func", "block"}
       /\ g.at \in {"decl", "struct", "block"}
  BY <1>2, <1>7, <1>10
<1> QED BY <1>1, <1>2, <1>7, <1>8, <1>10, <1>11, <1>12, TypesGotoEnter

LEMMA OpenBlockAlive ==
  ASSUME Inv, Inv', TypesKept, ~ NestedFunctions, OpenBlock PROVE TypesKept'
<1>1. SymbolsAlive' /\ Grown /\ SameInnermost /\ Table /\ Len(sym) \in Nat
  BY NothingPushed, LiveTyped DEF OpenBlock, Inv, Threaded
<1>2. parse # <<>> /\ top.at = "block" /\ local_sym_stack # <<>>
  BY DEF OpenBlock, At, top
<1>3. PICK t : t = top OBVIOUS
<1>4. t \in Activation /\ Bounded(t, Len(sym)) /\ FrameAlive(t)'
  BY <1>1, <1>2, <1>3, TopGrows
<1>5. PICK f : f = Statement(t) OBVIOUS
<1>6. f \in Activation BY <1>1, <1>2, <1>3, <1>4, <1>5, StatementFine
<1>7. FrameAlive(Statement(t))' /\ Statement(t).at = t.at BY <1>4, StatementAlive
<1>8. PICK g : g = BlockFrame OBVIOUS
<1>9. g \in Activation /\ g.at = "block" /\ FrameAlive(g)'
  BY <1>1, <1>2, <1>8, BlockAlive
<1>10. parse' = Append(Append(ButLast(parse), f), g)
  BY <1>3, <1>5, <1>8 DEF OpenBlock, EnterExpr
<1>11. /\ f.at = top.at /\ f.at # "pop" /\ f.at \in {"func", "block"} /\ FrameAlive(f)'
       /\ g.at \in {"decl", "struct", "block"}
  BY <1>2, <1>3, <1>5, <1>7, <1>9
<1> QED BY <1>1, <1>2, <1>6, <1>9, <1>10, <1>11, TypesGotoEnter

LEMMA PopAlive ==
  ASSUME Inv, Inv', TypesKept, ~ NestedFunctions, parse # <<>>, NEW s \in Nat,
         top.at = "block" \/ (top.at = "func" /\ s = 0), PopTo(s)
  PROVE  TypesKept'
<1>1. SymbolsAlive' /\ Grown /\ SameInnermost BY NothingPushed DEF PopTo
<1>2. PICK f : f = Frame("pop", "", s, 0) OBVIOUS
<1>3. f \in Activation /\ f.at = "pop" /\ f.s = s
  <2>1. IsFrame(f, "pop", "", s, 0) BY <1>2, FrameFields
  <2> QED BY <2>1 DEF IsFrame
<1>4. FrameAlive(f)' BY <1>2, FrameMade
<1>5. PICK k : k = Len(parse) OBVIOUS
<1>6. /\ parse \in Seq(Activation) /\ k \in Nat \ {0} /\ BlockBelow(k)
      /\ top = parse[k]
  BY <1>5, TopOK DEF Inv
<1>7. /\ parse' \in Seq(Activation) /\ Len(parse') = k
      /\ parse'[k] = f /\ Agree(parse, parse', k - 1)
  BY <1>2, <1>3, <1>5, <1>6, Replaced DEF Goto, PopTo
<1>8. top.at = "func" => k = 1
  <2>1. Fine(k) BY <1>5, <1>6 DEF Inv
  <2> QED BY <1>6, <2>1 DEF Fine, Placed, Outermost
<1>9. BlockBelow(k)'
  <2> SUFFICES ASSUME NEW j \in 1..Len(parse'), j < k
               PROVE  parse'[j].at \in {"func", "block"}
    BY DEF BlockBelow
  <2>1. j \in 1..(k - 1) /\ j \in 1..Len(parse) /\ k # 1 BY <1>5, <1>6, <1>7
  <2>2. parse'[j] = parse[j] BY <1>7, <2>1 DEF Agree
  <2>3. top.at = "block" BY <1>8, <2>1
  <2> QED BY <1>6, <2>1, <2>2, <2>3 DEF BlockBelow
<1>10. FrameOK(k)' BY <1>4, <1>7, <1>9 DEF FrameOK
<1>11. \A i \in 1..Len(parse') : i > k - 1 => FrameOK(i)'
  <2>1. \A i \in 1..Len(parse') : i > k - 1 => i = k BY <1>6, <1>7
  <2> QED BY <1>10, <2>1
<1>12. k - 1 \in Nat BY <1>6
<1>13. k - 1 = 0 => FunctionFirst'
  <2> SUFFICES ASSUME k = 1, Local' # {}
               PROVE  parse' # <<>> /\ parse'[1].at = "pop" /\ parse'[1].s = 0
    BY <1>6 DEF FunctionFirst
  <2>1. parse' # <<>> BY <1>7, EmptySeq
  <2>2. Local # {} BY <1>1 DEF SameInnermost
  <2>3. top.at # "block" BY <1>6, <2>2 DEF TypesKept, FunctionFirst
  <2> QED BY <1>3, <1>7, <2>1, <2>3
<1> QED BY <1>1, <1>7, <1>11, <1>12, <1>13, TypesStep

LEMMA CloseBlockAlive ==
  ASSUME Inv, Inv', TypesKept, ~ NestedFunctions, CloseBlock PROVE TypesKept'
<1>1. parse # <<>> /\ top.at = "block" /\ PopTo(top.s)
  BY DEF CloseBlock, At, top
<1>2. top.s \in Nat BY <1>1, TopFine DEF Activation
<1> QED BY <1>1, <1>2, PopAlive

LEMMA EndFunctionAlive ==
  ASSUME Inv, Inv', TypesKept, ~ NestedFunctions, EndFunction PROVE TypesKept'
<1>1. parse # <<>> /\ top.at = "func" /\ PopTo(0)
  BY DEF EndFunction, At, top
<1> QED BY <1>1, PopAlive

LEMMA PrologAlive ==
  ASSUME Inv, Inv', TypesKept, Prolog PROVE TypesKept'
<1>1. parse # <<>> /\ top.at = "func" /\ top.stage = "prolog" /\ top.tail # 0
  BY DEF Prolog, At, top
<1>2. Table /\ Len(sym) \in Nat /\ Live \subseteq 1..Len(sym) /\ SymbolsAlive
      /\ sym \in Seq(Symbol)
  BY LiveTyped DEF Inv, Threaded, TypesKept, Table
<1>3. PICK t : t = top OBVIOUS
<1>4. t \in Activation /\ FrameAlive(t) BY <1>1, <1>3, TopGrows
<1>5. PICK k : k = t.tail OBVIOUS
<1>6. k \in Global /\ sym[k].v.kind = "param" /\ k \in 1..Len(sym) /\ k \in Live
  BY <1>1, <1>2, <1>3, <1>4, <1>5 DEF FrameAlive, Parameters, Live
<1>7. PICK v : v = V("ident", sym[k].v.word) OBVIOUS
<1>8. PICK type : type = sym[k].type OBVIOUS
<1>9. sym[k] \in Symbol BY <1>2, <1>6, ElementOfSeq
<1>10. v \in Word /\ v.kind = "ident" /\ type \in Types
  BY <1>7, <1>8, <1>9, VTyped DEF V, Symbol
<1>11. Typed(type)
  <2>1. Resolved(type, Len(sym)) BY <1>2, <1>6, <1>8 DEF Table
  <2>2. type.ref \in {0} \cup Live
    BY <1>2, <1>6, <1>8 DEF SymbolsAlive, Live
  <2>3. HasParamList(type) BY <1>2, <1>6, <1>8 DEF SymbolsAlive
  <2> QED BY <1>10, <2>1, <2>2, <2>3 DEF Typed, Alive
<1>12. sym_push(v) /\ sym' = Append(sym, NewSymbol(v, type, 0, 0))
  BY <1>3, <1>5, <1>7, <1>8 DEF Prolog
<1>13. 0 \in {-1, 0} /\ 0 \in Nat /\ 0 <= Len(sym)
       /\ (v.kind \in {"anom", "param"} => 0 \in {0} \cup Parameters(Innermost))
  BY <1>2
<1>14. NewIs(v) BY <1>10, <1>11, <1>12, <1>13, PushAlive
<1>15. SymbolsAlive' /\ Grown /\ SameInnermost BY <1>14 DEF NewIs
<1>16. FrameAlive(t)' BY <1>1, <1>3, <1>15, TopGrows
<1>17. PICK n : n = sym[k].next OBVIOUS
<1>18. n \in Nat /\ n \in {0} \cup Parameters(Global)
  <2>1. n \in Nat BY <1>9, <1>17 DEF Symbol
  <2> QED BY <1>2, <1>6, <1>17, <2>1 DEF SymbolsAlive
<1>19. n \in {0} \cup Parameters(Global)'
  <2>1. Global \subseteq 1..Len(sym) BY <1>2 DEF Live
  <2> QED BY <1>15, <1>18, <2>1 DEF Parameters, Grown
<1>20. PICK f : f = [t EXCEPT !.tail = n] OBVIOUS
<1>21. /\ f \in Activation /\ f.at = "func" /\ f.stage = "prolog" /\ f.tail = n
       /\ f.type = t.type /\ f.base = t.base
  BY <1>1, <1>3, <1>4, <1>18, <1>20 DEF Activation
<1>22. FrameAlive(f)'
  <2>1. t.at = "func" BY <1>1, <1>3
  <2> QED BY <1>16, <1>19, <1>21, <2>1 DEF FrameAlive
<1>23. Goto(f) BY <1>3, <1>5, <1>17, <1>20 DEF Prolog
<1>24. f.at = top.at /\ f.at # "pop" BY <1>1, <1>21
<1> QED BY <1>1, <1>15, <1>21, <1>22, <1>23, <1>24, TypesGoto

\* A function is defined at the outermost level, when no local symbol exists.
LEMMA DefinedOutermost ==
  ASSUME Inv, TypesKept, ~ NestedFunctions, DefineFunction
  PROVE  /\ parse # <<>> /\ Len(parse) = 1 /\ top.at = "decl" /\ top.type.t = "func"
         /\ Local = {} /\ Live = Global
<1>1. parse # <<>> /\ top.at = "decl" /\ top.where = "global" /\ top.type.t = "func"
  BY DeclTop DEF DefineFunction
<1>2. Len(parse) \in Nat \ {0} /\ top = parse[Len(parse)]
  BY <1>1, TopOK
<1>3. Fine(Len(parse)) BY <1>2 DEF Inv
<1>4. Outermost(parse[Len(parse)]) BY <1>1, <1>2 DEF Outermost
<1>5. Len(parse) = 1 BY <1>3, <1>4 DEF Fine, Placed
<1>6. parse[1].at = "decl" BY <1>1, <1>2, <1>5
<1>7. Local = {} BY <1>6 DEF TypesKept, FunctionFirst
<1> QED BY <1>1, <1>5, <1>7 DEF Live

\* sym_search finds a symbol that exists.
LEMMA NameFound ==
  ASSUME Threaded, NEW w \in AllWords, Declared(w) PROVE sym_search(w) \in Live
<1>1. PICK n : n = <<"ident", w>> OBVIOUS
<1>2. n \in Names BY <1>1 DEF Names
<1> QED
  BY <1>1, <1>2 DEF Declared, sym_search, Threaded, ChainsThreaded, Newest, Named

\* The definition of a function replaces the type of its symbol.
LEMMA TypeReplaced ==
  ASSUME Table, NEW k \in 1..Len(sym), NEW type \in Types,
         sym' = [sym EXCEPT ![k].type = type]
  PROVE  /\ Len(sym') = Len(sym)
         /\ \A x \in 1..Len(sym) :
              /\ sym'[x].v = sym[x].v /\ sym'[x].next = sym[x].next
              /\ sym'[x].type = IF x = k THEN type ELSE sym[x].type
<1>1. PICK g : g = sym[k] OBVIOUS
<1>2. g \in Symbol /\ sym \in Seq(Symbol) BY <1>1, ElementOfSeq DEF Table
<1>3. PICK f : f = [g EXCEPT !.type = type] OBVIOUS
<1>4. f \in Symbol /\ f.v = g.v /\ f.type = type /\ f.next = g.next
  BY <1>2, <1>3, TypeWritten
<1>5. sym' = [sym EXCEPT ![k] = f] BY <1>1, <1>3
<1>6. Len(sym') = Len(sym)
      /\ \A x \in 1..Len(sym) : sym'[x] = IF x = k THEN f ELSE sym[x]
  BY <1>2, <1>4, <1>5, ExceptSeq
<1> QED BY <1>1, <1>4, <1>6

LEMMA DefineFunctionSymbols ==
  ASSUME Inv, TypesKept, ~ NestedFunctions, DefineFunction
  PROVE  /\ SymbolsAlive' /\ Grown /\ SameInnermost
         /\ \E k \in Global' \cap Nat : Goto(Frame("func", "enter", k, 0))
<1>1. parse # <<>> /\ Local = {} /\ Live = Global /\ top.type.t = "func"
  BY DefinedOutermost
<1>2. Threaded /\ Table /\ Len(sym) \in Nat /\ Live \subseteq 1..Len(sym)
      /\ SymbolsAlive
  BY LiveTyped DEF Inv, Threaded, TypesKept
<1>3. PICK t : t = top OBVIOUS
<1>4. t \in Activation /\ Typed(t.type) BY <1>1, <1>3, TopGrows
<1>5. PICK w : w = t.word OBVIOUS
<1>6. PICK type : type = t.type OBVIOUS
<1>7. w \in AllWords /\ Typed(type) /\ type.ref \in {0} \cup Global
  BY <1>1, <1>4, <1>5, <1>6 DEF Activation, Typed, Alive
<1>8. CASE Declared(w)
  <2>1. PICK k : k = sym_search(w) OBVIOUS
  <2>4. k \in Live BY <1>2, <1>7, <1>8, <2>1, NameFound
  <2>5. k \in 1..Len(sym) /\ k \in Global BY <1>1, <1>2, <2>4
  <2>6. /\ sym' = [sym EXCEPT ![k].type = type]
        /\ Goto(Frame("func", "enter", k, 0))
        /\ UNCHANGED <<global_sym_stack, local_sym_stack, head>>
    BY <1>3, <1>5, <1>6, <1>8, <2>1 DEF DefineFunction
  <2>8. sym \in Seq(Symbol) BY <1>2 DEF Table
  <2>12. Len(sym') = Len(sym)
         /\ \A x \in 1..Len(sym) :
              /\ sym'[x].v = sym[x].v /\ sym'[x].next = sym[x].next
              /\ sym'[x].type = IF x = k THEN type ELSE sym[x].type
    BY <1>2, <1>7, <2>5, <2>6, TypeReplaced DEF Typed
  <2>13. \A x \in 1..Len(sym) :
           /\ sym'[x].v = sym[x].v /\ sym'[x].next = sym[x].next
           /\ sym'[x].type = IF x = k THEN type ELSE sym[x].type
    BY <2>12
  <2>14. Global' = Global /\ Local' = Local /\ Live' = Live
    BY <2>6 DEF Global, Local, Live, Members
  <2>15. Grown /\ SameInnermost
    BY <1>2, <2>12, <2>13, <2>14 DEF Grown, SameInnermost
  <2>16. ASSUME NEW x \in 1..Len(sym') PROVE HasParamList(sym[x].type)'
    <3>1. x \in 1..Len(sym) BY <2>12
    <3>2. PICK a : a = IF x = k THEN type ELSE sym[x].type OBVIOUS
    <3>3. HasParamList(a) /\ a \in Types /\ Resolved(a, Len(sym))
      <4>1. CASE x = k BY <4>1, <3>2, <1>7 DEF Typed
      <4>2. CASE x # k
        <5>1. sym[x] \in Symbol BY <3>1, <2>8, ElementOfSeq
        <5> QED BY <1>2, <3>1, <3>2, <4>2, <5>1 DEF SymbolsAlive, Table, Symbol
      <4> QED BY <4>1, <4>2
    <3>4. a.t = "func" => a.ref \in 1..Len(sym)
      BY <1>2, <3>3 DEF Resolved, Types
    <3>5. sym'[x].type = a BY <2>13, <3>1, <3>2
    <3> QED BY <2>13, <3>3, <3>4, <3>5 DEF HasParamList
  <2>17. Parameters(Global)' = Parameters(Global)
    BY <1>1, <1>2, <2>13, <2>14 DEF Parameters
  <2>18. ASSUME NEW x \in Live'
         PROVE  sym'[x].type.ref \in
                  {0} \cup Global' \cup {y \in Local' : x \in Local' /\ y < x}
    <3>1. x \in 1..Len(sym) /\ x \in Live BY <1>2, <2>14
    <3>2. sym[x].type.ref \in {0} \cup Global
      BY <1>1, <1>2, <3>1 DEF SymbolsAlive
    <3> QED BY <1>7, <2>13, <2>14, <3>1, <3>2
  <2>19. ASSUME NEW x \in Global', sym'[x].v.kind \in {"anom", "param"}
         PROVE  sym'[x].next \in {0} \cup Parameters(Global)'
    <3>1. x \in 1..Len(sym) /\ x \in Global BY <1>1, <1>2, <2>14
    <3> QED BY <1>2, <2>13, <2>17, <2>19, <3>1 DEF SymbolsAlive
  <2>20. 2 \in Global' /\ sym'[2].v.kind = "anom"
    <3>1. 2 \in Global /\ sym[2].v.kind = "anom" BY <1>2 DEF SymbolsAlive
    <3> QED BY <1>1, <1>2, <2>13, <2>14, <3>1
  <2>21. SymbolsAlive' BY <2>16, <2>18, <2>19, <2>20 DEF SymbolsAlive
  <2>22. k \in Global' \cap Nat BY <2>5, <2>14
  <2> QED BY <2>6, <2>15, <2>21, <2>22
<1>9. CASE ~ Declared(w)
  <2>1. PICK v : v = V("ident", w) OBVIOUS
  <2>2. PICK k : k = Fresh OBVIOUS
  <2>3. /\ func_sym_push(w) /\ sym' = Append(sym, NewSymbol(v, type, 0, 0))
        /\ Goto(Frame("func", "enter", k, 0))
    BY <1>3, <1>5, <1>6, <1>9, <2>1, <2>2 DEF DefineFunction
  <2>4. SymbolsAlive' /\ Grown /\ SameInnermost /\ Len(sym) + 1 \in Global'
    BY <1>7, <2>1, <2>3, FunctionAlive
  <2>5. k \in Global' \cap Nat BY <1>2, <2>2, <2>4 DEF Fresh
  <2> QED BY <2>3, <2>4, <2>5
<1> QED BY <1>8, <1>9

LEMMA DefineFunctionAlive ==
  ASSUME Inv, Inv', TypesKept, ~ NestedFunctions, DefineFunction PROVE TypesKept'
<1>1. parse # <<>> /\ Len(parse) = 1 /\ parse \in Seq(Activation)
  BY DefinedOutermost DEF Inv
<1>2. SymbolsAlive' /\ Grown /\ SameInnermost
  BY DefineFunctionSymbols
<1>3. PICK k \in Global' \cap Nat : Goto(Frame("func", "enter", k, 0))
  BY DefineFunctionSymbols
<1>4. PICK f : f = Frame("func", "enter", k, 0) OBVIOUS
<1>5. f \in Activation /\ f.at = "func"
  <2>1. k \in Nat /\ 0 \in Nat OBVIOUS
  <2>2. IsFrame(f, "func", "enter", k, 0) BY <1>4, <2>1, FrameFields
  <2> QED BY <2>2 DEF IsFrame
<1>6. FrameAlive(f)'
  <2>1. k \in Global' OBVIOUS
  <2> QED BY <1>4, <2>1, FrameMade
<1>7. Goto(f) BY <1>3, <1>4
<1>8. /\ parse' \in Seq(Activation) /\ Len(parse') = 1 /\ parse'[1] = f
      /\ Agree(parse, parse', Len(parse) - 1)
  BY <1>1, <1>5, <1>7, Replaced DEF Goto
<1>9. BlockBelow(1)' BY <1>5, <1>8 DEF BlockBelow
<1>10. FrameOK(1)' BY <1>6, <1>8, <1>9 DEF FrameOK
<1>11. \A i \in 1..Len(parse') : i > 0 => FrameOK(i)'
  <2>1. \A i \in 1..Len(parse') : i = 1 BY <1>8
  <2> QED BY <1>10, <2>1
<1>12. 0 \in Nat /\ Agree(parse, parse', 0)
  BY <1>1, <1>8 DEF Agree
<1>13. FunctionFirst'
  <2>1. parse' # <<>> BY <1>8, EmptySeq
  <2> QED BY <1>5, <1>8, <2>1 DEF FunctionFirst
<1> QED BY <1>2, <1>11, <1>12, <1>13, TypesStep

LEMMA EnterBodyAlive ==
  ASSUME Inv, Inv', TypesKept, ~ NestedFunctions, EnterBody PROVE TypesKept'
<1>1. parse # <<>> /\ top.at = "func" /\ top.stage = "enter"
  BY DEF EnterBody, At, top
<1>2. /\ Len(parse) \in Nat \ {0} /\ top = parse[Len(parse)] /\ Running(top)
      /\ parse \in Seq(Activation)
  BY <1>1, TopFine DEF Inv
<1>3. Len(parse) = 1
  <2>1. Fine(Len(parse)) BY <1>2 DEF Inv
  <2>2. Outermost(parse[Len(parse)]) BY <1>1, <1>2 DEF Outermost
  <2> QED BY <2>1, <2>2 DEF Fine, Placed
<1>4. Table /\ Len(sym) \in Nat /\ Live \subseteq 1..Len(sym) /\ SymbolsAlive
      /\ sym \in Seq(Symbol) /\ Global \cap Local = {}
  BY LiveTyped DEF Inv, Threaded, TypesKept, Table
<1>5. PICK v : v = Anonymous OBVIOUS
<1>6. v \in Word /\ v.kind = "anom" BY <1>5, AnonymousTyped DEF Anonymous, V
<1>7. Typed(int_type) BY <1>4, IntTypedAlive
<1>8. Creates(v, int_type, 0)
  <2>1. int_type \in Types /\ Resolved(int_type, Len(sym)) BY <1>7 DEF Typed
  <2>2. 0 \in {-1, 0} /\ 0 \in Nat /\ 0 <= Len(sym) BY <1>4
  <2>3. sym' = Append(sym, NewSymbol(v, int_type, 0, 0)) BY <1>5 DEF EnterBody
  <2> QED BY <1>4, <1>6, <2>1, <2>2, <2>3, Created
<1>9. Global' = Global /\ Local' = Local \cup {Len(sym) + 1}
  <2>1. local_sym_stack' = Append(local_sym_stack, Len(sym) + 1) /\ Global' = Global
    BY DEF EnterBody, PushLocal, Fresh, Global, Members
  <2>2. Stack(local_sym_stack, Len(sym)) BY <1>4 DEF Table
  <2> QED BY <1>4, <2>1, <2>2, StackPush DEF Local
<1>10. SymbolsAlive' /\ Grown
  <2>1. GoesOnTop(v, int_type) BY <1>6, <1>9 DEF GoesOnTop
  <2>2. int_type \in Types /\ Resolved(int_type, Len(sym)) /\ Alive(int_type)
        /\ HasParamList(int_type)
    BY <1>7 DEF Typed
  <2>3. v.kind \in {"anom", "param"} => 0 \in {0} \cup Parameters(Innermost) OBVIOUS
  <2> QED BY <1>4, <1>8, <2>1, <2>2, <2>3, SymbolsPush
<1>11. PICK t : t = top OBVIOUS
<1>12. t \in Activation /\ Bounded(t, Len(sym)) /\ FrameAlive(t)
       /\ t.at = "func" /\ t.stage = "enter"
  BY <1>1, <1>11, TopGrows
<1>13. FrameAlive(t)'
  BY <1>4, <1>10, <1>12, FrameGrows
<1>14. PICK k : k = t.s OBVIOUS
<1>15. k \in Global /\ k \in 1..Len(sym) /\ sym[k].type.t = "func" /\ k \notin Local
       /\ k \in Live
  <2>1. k \in Global BY <1>12, <1>14 DEF FrameAlive
  <2>2. sym[k].type.t = "func" BY <1>1, <1>2, <1>11, <1>14 DEF Running
  <2> QED BY <1>4, <2>1, <2>2 DEF Live
<1>16. PICK r : r = sym[k].type.ref OBVIOUS
<1>17. r \in Global /\ sym[r].v.kind = "anom" /\ r \in 1..Len(sym)
  <2>1. r \in {0} \cup Global BY <1>4, <1>15, <1>16 DEF SymbolsAlive
  <2>2. r # 0 BY <1>4, <1>15, <1>16 DEF Table, Resolved
  <2>3. sym[r].v.kind = "anom" BY <1>4, <1>15, <1>16 DEF SymbolsAlive, HasParamList
  <2> QED BY <1>4, <2>1, <2>2, <2>3 DEF Live
<1>18. PICK n : n = sym[r].next OBVIOUS
<1>19. n \in Nat /\ n \in {0} \cup Parameters(Global)
  <2>1. sym[r] \in Symbol BY <1>4, <1>17, ElementOfSeq
  <2>2. n \in Nat BY <1>18, <2>1 DEF Symbol
  <2> QED BY <1>4, <1>17, <1>18, <2>2 DEF SymbolsAlive
<1>20. n \in {0} \cup Parameters(Global)'
  <2>1. Global \subseteq 1..Len(sym) BY <1>4 DEF Live
  <2> QED BY <1>10, <1>19, <2>1 DEF Parameters, Grown
<1>21. PICK f : f = [t EXCEPT !.stage = "prolog", !.tail = n] OBVIOUS
<1>22. /\ f \in Activation /\ f.at = "func" /\ f.stage = "prolog" /\ f.tail = n
       /\ f.type = t.type /\ f.base = t.base
  BY <1>12, <1>19, <1>21 DEF Activation
<1>23. FrameAlive(f)' BY <1>12, <1>13, <1>20, <1>22 DEF FrameAlive
<1>24. Goto(f) BY <1>11, <1>14, <1>16, <1>18, <1>21 DEF EnterBody
<1>25. /\ parse' \in Seq(Activation) /\ Len(parse') = 1 /\ parse'[1] = f
  BY <1>1, <1>2, <1>3, <1>22, <1>24, Replaced DEF Goto
<1>26. BlockBelow(1)' BY <1>22, <1>25 DEF BlockBelow
<1>27. FrameOK(1)' BY <1>23, <1>25, <1>26 DEF FrameOK
<1>28. \A i \in 1..Len(parse') : FrameOK(i)'
  <2>1. \A i \in 1..Len(parse') : i = 1 BY <1>25
  <2> QED BY <1>27, <2>1
<1>29. FunctionFirst'
  <2>1. parse' # <<>> BY <1>25, EmptySeq
  <2> QED BY <1>22, <1>25, <2>1 DEF FunctionFirst
<1> QED BY <1>10, <1>28, <1>29 DEF TypesKept

\* While sym_pop runs, no declaration is open.
LEMMA PoppingFrames ==
  ASSUME Inv, TypesKept, parse # <<>>, top.at = "pop", NEW i \in 1..Len(parse)
  PROVE  /\ parse[i].at \in {"func", "block", "pop"}
         /\ parse[i].type = int_type /\ parse[i].base = int_type
         /\ parse[i].at = "func" => parse[i].stage = "body"
<1>1. BlockBelow(Len(parse)) /\ top = parse[Len(parse)] /\ Len(parse) \in Nat \ {0}
  BY TopOK
<1>2. parse[i].at \in {"func", "block", "pop"}
  <2>1. i = Len(parse) \/ i < Len(parse) BY <1>1
  <2> QED BY <1>1, <2>1 DEF BlockBelow
<1>3. FrameAlive(parse[i]) BY DEF TypesKept, FrameOK
<1>4. parse[i].type = int_type /\ parse[i].base = int_type
  BY <1>2, <1>3 DEF FrameAlive
<1>5. ASSUME parse[i].at = "func" PROVE parse[i].stage = "body"
  <2>1. i < Len(parse) BY <1>1, <1>5
  <2>2. Fine(i) BY DEF Inv
  <2> QED BY <1>5, <2>1, <2>2 DEF Fine, Placed
<1> QED BY <1>2, <1>4, <1>5

\* Freeing the newest local symbol: no type leads to a newer symbol.
LEMMA SymbolsPop ==
  ASSUME Table, SymbolsAlive, UNCHANGED <<sym, global_sym_stack>>,
         NEW n \in Local, \A x \in Local : x <= n, Local' = Local \ {n}
  PROVE  SymbolsAlive'
<1>1. Global' = Global /\ sym' = sym BY DEF Global, Members
<1>2. Live \subseteq 1..Len(sym) /\ Live' \subseteq Live /\ Live' = Global \cup (Local \ {n})
  BY <1>1, LiveTyped DEF Live
<1>3. \A x \in 1..Len(sym') : HasParamList(sym[x].type)'
  BY <1>1 DEF SymbolsAlive, HasParamList
<1>4. ASSUME NEW x \in Live'
      PROVE  sym'[x].type.ref \in {0} \cup Global' \cup {y \in Local' : x \in Local' /\ y < x}
  <2>1. PICK r : r = sym[x].type.ref OBVIOUS
  <2>2. r \in {0} \cup Global \cup {y \in Local : x \in Local /\ y < x}
    BY <1>2, <1>4, <2>1 DEF SymbolsAlive
  <2>3. CASE r \in {0} \cup Global BY <1>1, <2>1, <2>3
  <2>4. CASE r \in Local /\ x \in Local /\ r < x
    <3>1. x <= n /\ x \in Nat /\ n \in Nat /\ r \in Nat BY <1>2, <2>4 DEF Live
    <3>2. r # n BY <2>4, <3>1
    <3>3. x \in Local'
      <4>1. Global \cap Local = {} BY DEF Table
      <4> QED BY <1>2, <1>4, <2>4, <4>1
    <3> QED BY <1>1, <2>1, <2>4, <3>2, <3>3
  <2> QED BY <2>2, <2>3, <2>4
<1>5. \A x \in Global' : sym'[x].v.kind \in {"anom", "param"} =>
        sym'[x].next \in {0} \cup Parameters(Global)'
  BY <1>1 DEF SymbolsAlive, Parameters
<1>6. 2 \in Global' /\ sym'[2].v.kind = "anom"
  BY <1>1 DEF SymbolsAlive
<1> QED BY <1>3, <1>4, <1>5, <1>6 DEF SymbolsAlive

LEMMA SymPopAlive ==
  ASSUME Inv, Inv', TypesKept, ~ NestedFunctions, sym_pop PROVE TypesKept'
<1>1. parse # <<>> /\ top.at = "pop" /\ local_sym_stack # <<>> /\ Threaded /\ Table
      /\ Len(sym) \in Nat /\ Live \subseteq 1..Len(sym)
  BY LiveTyped DEF sym_pop, At, top, Inv, Threaded
<1>2. PICK n : n = Last(local_sym_stack) OBVIOUS
<1>3. PICK k : k = Len(parse) OBVIOUS
<1>4. /\ k \in Nat \ {0} /\ top = parse[k] /\ parse \in Seq(Activation)
      /\ BlockBelow(k) /\ SymbolsAlive
  BY <1>1, <1>3, TopOK DEF Inv, TypesKept
<1>5. n \in Local /\ Local # {}
  <2>1. Stack(local_sym_stack, Len(sym)) BY <1>1 DEF Table
  <2> QED BY <1>1, <1>2, <2>1, StackTop DEF Local
<1>6. CASE n = top.s /\ Leave /\ NoSymbol
  <2>1. SymbolsAlive' /\ Grown /\ SameInnermost BY <1>1, <1>4, <1>6, NothingPushed DEF Inv, TypesKept
  <2>2. n # 0 BY <1>1, <1>5 DEF Live
  <2>3. k # 1
    BY <1>1, <1>4, <1>5, <1>6, <2>2 DEF TypesKept, FunctionFirst
  <2>4. PICK b : b = ButLast(parse) OBVIOUS
  <2>5. /\ b \in Seq(Activation) /\ Len(b) = k - 1
        /\ \A i \in 1..(k - 1) : b[i] = parse[i]
    BY <1>1, <1>3, <1>4, <2>4, Shorter
  <2>6. parse' = b BY <1>6, <2>4 DEF Leave
  <2>7. Agree(parse, parse', k - 1) BY <1>3, <1>4, <2>5, <2>6 DEF Agree
  <2>8. \A i \in 1..Len(parse') : i > k - 1 => FrameOK(i)'
    BY <1>4, <2>5, <2>6
  <2>9. k - 1 \in Nat /\ k - 1 # 0 BY <1>4, <2>3
  <2> QED BY <2>1, <2>7, <2>8, <2>9, TypesStep
<1>7. CASE /\ n # top.s
           /\ head' = IF OnChain(sym[n].v)
                      THEN [head EXCEPT ![NameOf(sym[n].v)] = Unhooked(n)]
                      ELSE head
           /\ local_sym_stack' = ButLast(local_sym_stack)
           /\ IF Len(local_sym_stack) = 1 THEN Leave ELSE UNCHANGED parse
           /\ UNCHANGED <<sym, global_sym_stack>>
  <2>1. Pops
    BY <1>1, <1>2, <1>7 DEF Pops, Unhooked
  <2>2. /\ Local' = Local \ {n} /\ n \in Local /\ \A x \in Local : x <= n
    BY <1>1, <1>2, <2>1, PopTable
  <2>3. SymbolsAlive' BY <1>1, <1>4, <1>7, <2>2, SymbolsPop
  <2>4. /\ parse' \in Seq(Activation) /\ Len(parse') <= k
        /\ Len(parse') \in Nat
        /\ \A i \in 1..Len(parse') : parse'[i] = parse[i]
    <3>1. CASE UNCHANGED parse BY <1>3, <1>4, <3>1
    <3>2. CASE Leave
      <4>1. PICK b : b = ButLast(parse) OBVIOUS
      <4>2. /\ b \in Seq(Activation) /\ Len(b) = k - 1
            /\ \A i \in 1..(k - 1) : b[i] = parse[i]
        BY <1>1, <1>3, <1>4, <4>1, Shorter
      <4>3. parse' = b BY <3>2, <4>1 DEF Leave
      <4>4. k - 1 \in Nat /\ k - 1 <= k BY <1>4
      <4> QED BY <4>2, <4>3, <4>4
    <3> QED BY <1>7, <3>1, <3>2
  <2>5. ASSUME NEW i \in 1..Len(parse') PROVE FrameOK(i)'
    <3>1. i \in 1..k /\ parse'[i] = parse[i]
          /\ \A j \in 1..Len(parse') : j \in 1..Len(parse) /\ parse'[j] = parse[j]
      BY <1>3, <1>4, <2>4
    <3>2. PICK f : f = parse[i] OBVIOUS
    <3>3. /\ f.at \in {"func", "block", "pop"} /\ f.type = int_type /\ f.base = int_type
          /\ f.at = "func" => f.stage = "body"
      BY <1>1, <1>3, <3>1, <3>2, PoppingFrames
    <3>4. FrameAlive(f)' BY <3>3, IntAlive DEF FrameAlive
    <3>5. BlockBelow(i)' 
      <4>1. BlockBelow(i) BY <1>3, <3>1 DEF TypesKept, FrameOK
      <4> QED BY <3>1, <4>1 DEF BlockBelow
    <3> QED BY <3>1, <3>2, <3>4, <3>5 DEF FrameOK
  <2>6. FunctionFirst'
    <3>1. CASE Len(local_sym_stack) = 1
      <4>1. local_sym_stack' = <<>>
        BY <1>1, <1>7, <3>1 DEF ButLast, Table, Stack
      <4>2. Local' = {} BY <4>1, EmptySeq DEF Local, Members
      <4> QED BY <4>2 DEF FunctionFirst
    <3>2. CASE UNCHANGED parse
      <4>1. Local # {} BY <1>5
      <4> QED BY <3>2, <4>1 DEF FunctionFirst, TypesKept
    <3> QED BY <1>7, <3>1, <3>2
  <2> QED BY <2>3, <2>5, <2>6 DEF TypesKept
<1> QED BY <1>2, <1>6, <1>7 DEF sym_pop

-----------------------------------------------------------------------------
(* The theorems.                                                           *)

LEMMA UnchangedAlive ==
  ASSUME Inv, Inv', TypesKept, UNCHANGED vars PROVE TypesKept'
<1>1. NoSymbol /\ parse' = parse BY DEF vars, NoSymbol
<1>2. SymbolsAlive' /\ Grown /\ SameInnermost BY <1>1, NothingPushed
<1>3. PICK m : m = Len(parse) OBVIOUS
<1>4. m \in Nat /\ Agree(parse, parse', m) /\ Len(parse') = m
  BY <1>1, <1>3, LenProperties DEF Inv, Agree
<1>5. \A i \in 1..Len(parse') : i > m => FrameOK(i)' BY <1>4
<1>6. m = 0 => FunctionFirst'
  <2>1. Local' = Local BY <1>1 DEF NoSymbol, Local, Members
  <2> QED BY <1>1, <2>1 DEF TypesKept, FunctionFirst
<1> QED BY <1>2, <1>4, <1>5, <1>6, TypesStep

LEMMA InitTypes == Init => TypesKept
<1> SUFFICES ASSUME Init PROVE TypesKept
  OBVIOUS
<1>1. PICK a : a = NewSymbolAt(Anonymous) OBVIOUS
<1>2. PICK r : r = NewSymbolAt(V("ident", Rdata)) OBVIOUS
<1>3. sym = <<a, a, r>> /\ global_sym_stack = <<1, 2, 3>> /\ local_sym_stack = <<>>
      /\ parse = <<>>
  BY <1>1, <1>2 DEF Init
<1>4. Len(sym) = 3 /\ sym[1] = a /\ sym[2] = a /\ sym[3] = r /\ Len(parse) = 0
  BY <1>3
<1>5. /\ a.v.kind = "anom" /\ a.type = int_type /\ a.next = 0
      /\ r.v.kind = "ident" /\ r.type = int_type /\ r.next = 0
  BY <1>1, <1>2 DEF NewSymbolAt, Anonymous, V
<1>6. Global = {1, 2, 3} /\ Local = {} /\ Live = {1, 2, 3}
  BY <1>3 DEF Global, Local, Live, Members
<1>7. int_type.t = "int" /\ int_type.ref = 0 BY DEF int_type, Type
<1>8. \A x \in 1..3 : sym[x].type = int_type /\ sym[x].next = 0
  BY <1>4, <1>5
<1>9. SymbolsAlive
  <2>1. 2 \in Global /\ sym[2].v.kind = "anom" BY <1>4, <1>5, <1>6
  <2>2. \A x \in 1..Len(sym) : HasParamList(sym[x].type)
    BY <1>4, <1>7, <1>8 DEF HasParamList
  <2>3. \A x \in Live : sym[x].type.ref = 0 BY <1>6, <1>7, <1>8
  <2>4. \A x \in Global : sym[x].next = 0 BY <1>6, <1>8
  <2> QED BY <2>1, <2>2, <2>3, <2>4 DEF SymbolsAlive
<1>10. FunctionFirst BY <1>6 DEF FunctionFirst
<1> QED BY <1>4, <1>9, <1>10 DEF TypesKept

LEMMA NextTypes ==
  ASSUME ~ NestedFunctions PROVE Inv /\ TypesKept /\ [Next]_vars => TypesKept'
<1> SUFFICES ASSUME Inv, TypesKept, [Next]_vars PROVE TypesKept'
  OBVIOUS
<1>0. Inv' BY NextKeeps
<1>1. CASE BasicType BY <1>0, <1>1, BasicTypeAlive
<1>2. CASE \E w \in Words : StructName(w) \/ Identifier(w) \/ Undeclared(w)
  BY <1>0, <1>2, StructNameAlive, IdentifierAlive, UndeclaredAlive
<1>3. CASE OpenStruct BY <1>0, <1>3, OpenStructAlive
<1>4. CASE Member BY <1>0, <1>4, MemberAlive
<1>5. CASE CloseStruct BY <1>0, <1>5, CloseStructAlive
<1>6. CASE Pointer BY <1>0, <1>6, PointerAlive
<1>7. CASE Array BY <1>0, <1>7, ArrayAlive
<1>8. CASE OpenParams BY <1>0, <1>8, OpenParamsAlive
<1>9. CASE Parameter BY <1>0, <1>9, ParameterAlive
<1>10. CASE CloseParams BY <1>0, <1>10, CloseParamsAlive
<1>11. CASE DeclareName BY <1>0, <1>11, DeclareNameAlive
<1>12. CASE Comma BY <1>0, <1>12, CommaAlive
<1>13. CASE EndDeclaration BY <1>0, <1>13, EndDeclarationAlive
<1>14. CASE DefineFunction BY <1>0, <1>14, DefineFunctionAlive
<1>15. CASE EnterBody BY <1>0, <1>15, EnterBodyAlive
<1>16. CASE Prolog BY <1>0, <1>16, PrologAlive
<1>17. CASE FuncBlock BY <1>0, <1>17, FuncBlockAlive
<1>18. CASE EndFunction BY <1>0, <1>18, EndFunctionAlive
<1>19. CASE OpenBlock BY <1>0, <1>19, OpenBlockAlive
<1>20. CASE CloseBlock BY <1>0, <1>20, CloseBlockAlive
<1>21. CASE sym_pop BY <1>0, <1>21, SymPopAlive
<1>22. CASE PointerInExpression BY <1>0, <1>22, PointerInExpressionAlive
<1>23. CASE UNCHANGED vars BY <1>0, <1>23, UnchangedAlive
<1> QED
  BY <1>1, <1>2, <1>3, <1>4, <1>5, <1>6, <1>7, <1>8, <1>9, <1>10, <1>11, <1>12,
     <1>13, <1>14, <1>15, <1>16, <1>17, <1>18, <1>19, <1>20, <1>21, <1>22, <1>23
  DEF Next

LEMMA KeptAlive == TypesKept => TypesAlive
<1> SUFFICES ASSUME TypesKept PROVE TypesAlive
  OBVIOUS
<1>1. \A x \in Live : sym[x].type.ref \in Live \cup {0}
  BY DEF TypesKept, SymbolsAlive, Live
<1>2. ASSUME NEW i \in 1..Len(parse)
      PROVE  {parse[i].type.ref, parse[i].base.ref} \subseteq Live \cup {0}
  <2>1. FrameAlive(parse[i]) BY DEF TypesKept, FrameOK
  <2> QED BY <2>1 DEF FrameAlive, Alive
<1> QED BY <1>1, <1>2 DEF TypesAlive

\* What keeps types alive holds of every parse of a file without a function in a
\* function: file symbols refer to file symbols, local ones to older symbols, and
\* a parameter list of the file holds no local symbol.
THEOREM ScopeTypesInductive ==
  ASSUME ~ NestedFunctions
  PROVE  Spec => []TypesInv
<1>1. Init => Inv /\ TypesKept BY InitInv, InitTypes
<1>2. Inv /\ TypesKept /\ [Next]_vars => Inv' /\ TypesKept' BY NextKeeps, NextTypes
<1>3. TypesKept => TypesInv BY TypesInvParts
<1> QED BY <1>1, <1>2, <1>3, PTL DEF Spec

\* When no function is defined in a function, pointed_type, type_size and
\* gen_prolog, which follow the symbol of a type without a check, never meet a
\* symbol that sym_pop freed.
THEOREM TypesStayAlive ==
  ASSUME ~ NestedFunctions
  PROVE  Spec => []TypesAlive
<1>1. TypesInv => TypesKept BY TypesInvParts
<1>2. TypesKept => TypesAlive BY KeptAlive
<1> QED BY <1>1, <1>2, ScopeTypesInductive, PTL

-----------------------------------------------------------------------------
(* Lists of parameters.                                                    *)

ListsKept ==
  /\ OneBefore
  /\ \A i \in 1..Len(parse) : ListOpen(parse[i])
  /\ ListsApart
  /\ \A x \in Parameters(Live) : Stays(x) => Listed(x)

LEMMA ListsInvParts == ASSUME ~ NestedFunctions PROVE ListsInv <=> ListsKept
BY DEF ListsInv, ListsKept

\* A step that frees nothing, creates no parameter and hooks none.
NextsKept ==
  /\ Len(sym) \in Nat /\ Len(sym') \in Nat /\ Len(sym) <= Len(sym')
  /\ \A x \in 1..Len(sym) :
       /\ sym'[x].v = sym[x].v
       /\ \/ sym'[x].next = sym[x].next
          \/ sym[x].v.kind \notin {"anom", "param"} /\ sym'[x].next \notin Params'
  /\ \A x \in 1..Len(sym') :
       x > Len(sym) => sym'[x].v.kind # "param" /\ sym'[x].next \notin Params'
  /\ Global \subseteq Global' /\ Local \subseteq Local'
  /\ \A x \in Live' : x \in Live \/ x > Len(sym)

LEMMA NextsSame ==
  ASSUME NextsKept, OneBefore
  PROVE  /\ Params' = Params
         /\ \A x \in 1..Len(sym') : sym'[x].next \in Params =>
              x \in 1..Len(sym) /\ sym'[x].next = sym[x].next
         /\ \A x \in 1..Len(sym) : sym[x].next \in Params =>
              x \in 1..Len(sym') /\ sym'[x].next = sym[x].next
<1>1. Params' = Params BY DEF NextsKept, Params
<1>2. ASSUME NEW x \in 1..Len(sym'), sym'[x].next \in Params
      PROVE  x \in 1..Len(sym) /\ sym'[x].next = sym[x].next
  BY <1>1, <1>2 DEF NextsKept
<1>3. ASSUME NEW x \in 1..Len(sym), sym[x].next \in Params
      PROVE  x \in 1..Len(sym') /\ sym'[x].next = sym[x].next
  <2>1. sym[x].v.kind \in {"anom", "param"} BY <1>3 DEF OneBefore
  <2> QED BY <2>1 DEF NextsKept
<1> QED BY <1>1, <1>2, <1>3

\* A frame that is no list with parameters, and stops sym_pop where another does
\* or at the newest local symbol.
MarkerKnown(s) ==
  \/ \E j \in 1..Len(parse) : HoldsMarker(parse[j]) /\ parse[j].s = s
  \/ /\ \A x \in Local' : x <= s
     /\ \A j \in 1..Len(parse) : ~ OpenList(parse[j])
Plain(f) ==
  /\ f.at = "params" => f.s = 0 /\ f.tail = 0
  /\ HoldsMarker(f) => MarkerKnown(f.s)
PlainAbove(m) ==
  /\ \A i \in 1..Len(parse) : i > m => ~ OpenList(parse[i])
  /\ \A i \in 1..Len(parse') : i > m => Plain(parse'[i])

LEMMA LiveNext == ASSUME Inv' PROVE Live' \subseteq 1..Len(sym')
<1>1. Global' \subseteq 1..Len(sym')
  BY ElementOfSeq DEF Inv, Threaded, Table, Stack, Global, Members
<1>2. Local' \subseteq 1..Len(sym')
  BY ElementOfSeq DEF Inv, Threaded, Table, Stack, Local, Members
<1> QED BY <1>1, <1>2 DEF Live

LEMMA ListsStep ==
  ASSUME Inv, Inv', ListsKept, ~ Popping, NextsKept,
         NEW m \in Nat, Agree(parse, parse', m), PlainAbove(m)
  PROVE  ListsKept'
<1>0. Len(parse) \in Nat /\ Len(parse') \in Nat BY LenProperties DEF Inv
<1>1. /\ Params' = Params
      /\ \A x \in 1..Len(sym') : sym'[x].next \in Params =>
           x \in 1..Len(sym) /\ sym'[x].next = sym[x].next
      /\ \A x \in 1..Len(sym) : sym[x].next \in Params =>
           x \in 1..Len(sym') /\ sym'[x].next = sym[x].next
  BY NextsSame DEF ListsKept
<1>2. /\ Len(sym) \in Nat /\ \A x \in 1..Len(sym) : sym'[x].v = sym[x].v
      /\ Global \subseteq Global' /\ Local \subseteq Local' /\ Live \subseteq Live'
      /\ \A x \in Live' : x \in Live \/ x > Len(sym)
  BY DEF NextsKept, Live
<1>3. Live \subseteq 1..Len(sym) BY LiveTyped DEF Inv, Threaded
<1>4. ASSUME NEW i \in 1..Len(parse'), OpenList(parse'[i])
      PROVE  i <= m /\ i \in 1..Len(parse) /\ parse'[i] = parse[i]
  <2>1. i <= m BY <1>0, <1>4 DEF PlainAbove, Plain, OpenList
  <2> QED BY <1>0, <2>1 DEF Agree
<1>5. ASSUME NEW i \in 1..Len(parse), OpenList(parse[i])
      PROVE  i <= m /\ i \in 1..Len(parse') /\ parse'[i] = parse[i]
  <2>1. i <= m BY <1>0, <1>5 DEF PlainAbove
  <2> QED BY <1>0, <2>1 DEF Agree
<1>6. ASSUME NEW i \in 1..Len(parse'), HoldsMarker(parse'[i])
      PROVE  MarkerKnown(parse'[i].s)
  <2>1. CASE i > m BY <1>6, <2>1 DEF PlainAbove, Plain
  <2>2. CASE ~ (i > m)
    <3>1. i \in 1..Len(parse) /\ parse'[i] = parse[i] BY <1>0, <2>2 DEF Agree
    <3> QED BY <1>6, <3>1 DEF MarkerKnown
  <2> QED BY <2>1, <2>2
<1>7. OneBefore'
  <2> SUFFICES ASSUME NEW y \in 1..Len(sym'), sym'[y].next \in Params
               PROVE  /\ sym'[y].v.kind \in {"anom", "param"}
                      /\ \A z \in 1..Len(sym') : sym'[z].next = sym'[y].next => y = z
    BY <1>1 DEF OneBefore
  <2>1. y \in 1..Len(sym) /\ sym'[y].next = sym[y].next BY <1>1
  <2>2. sym[y].v.kind \in {"anom", "param"} BY <2>1 DEF ListsKept, OneBefore
  <2>3. ASSUME NEW z \in 1..Len(sym'), sym'[z].next = sym'[y].next PROVE y = z
    <3>1. z \in 1..Len(sym) /\ sym'[z].next = sym[z].next BY <1>1, <2>3
    <3> QED BY <2>1, <2>3, <3>1 DEF ListsKept, OneBefore
  <2> QED BY <1>2, <2>1, <2>2, <2>3
<1>8. ASSUME NEW i \in 1..Len(parse') PROVE ListOpen(parse[i])'
  <2>1. CASE ~ OpenList(parse'[i])
    <3>1. parse'[i].at = "params" => parse'[i].s = 0 /\ parse'[i].tail = 0
      <4>1. CASE i > m BY <4>1 DEF PlainAbove, Plain
      <4>2. CASE ~ (i > m)
        <5>1. i \in 1..Len(parse) /\ parse'[i] = parse[i] BY <1>0, <4>2 DEF Agree
        <5>2. ListOpen(parse[i]) BY <5>1 DEF ListsKept
        <5> QED BY <2>1, <5>1, <5>2 DEF ListOpen, OpenList
      <4> QED BY <4>1, <4>2
    <3> QED BY <2>1, <3>1 DEF ListOpen, OpenList
  <2>2. CASE OpenList(parse'[i])
    <3>1. i \in 1..Len(parse) /\ parse'[i] = parse[i] BY <1>4, <2>2
    <3>2. PICK f : f = parse[i] OBVIOUS
    <3>3. ListOpen(f) /\ OpenList(f) BY <2>2, <3>1, <3>2 DEF ListsKept
    <3>4. f.s \in Params /\ f.tail \in Params /\ sym[f.tail].next = 0
          /\ \A y \in 1..Len(sym) : sym[y].next # f.s
      BY <3>3 DEF ListOpen
    <3>5. \A y \in 1..Len(sym') : sym'[y].next # f.s BY <1>1, <3>4
    <3>6. sym'[f.tail].next = 0
      <4>1. f.tail \in 1..Len(sym) /\ sym[f.tail].v.kind = "param" BY <3>4 DEF Params
      <4> QED BY <3>4, <4>1 DEF NextsKept
    <3>7. ASSUME NEW j \in 1..Len(parse'), HoldsMarker(parse'[j])
          PROVE  parse'[j].s < f.s
      <4>1. MarkerKnown(parse'[j].s) BY <1>6, <3>7
      <4>2. PICK q \in 1..Len(parse) : HoldsMarker(parse[q]) /\ parse[q].s = parse'[j].s
        BY <3>1, <3>2, <3>3, <4>1 DEF MarkerKnown
      <4> QED BY <3>3, <4>2 DEF ListOpen
    <3>8. ListOpen(f)' BY <1>1, <3>3, <3>4, <3>5, <3>6, <3>7 DEF ListOpen, OpenList, HoldsMarker
    <3> QED BY <3>1, <3>2, <3>8
  <2> QED BY <2>1, <2>2
<1>9. ListsApart'
  <2> SUFFICES ASSUME NEW i \in 1..Len(parse'), NEW j \in 1..Len(parse'),
                      OpenList(parse'[i]), OpenList(parse'[j]),
                      parse'[i].s = parse'[j].s \/ parse'[i].tail = parse'[j].tail
               PROVE  i = j
    BY DEF ListsApart, OpenList
  <2>1. i \in 1..Len(parse) /\ parse'[i] = parse[i] BY <1>4
  <2>2. j \in 1..Len(parse) /\ parse'[j] = parse[j] BY <1>4
  <2> QED BY <2>1, <2>2 DEF ListsKept, ListsApart
<1>10. ASSUME NEW x \in Live', sym'[x].v.kind = "param" PROVE Listed(x)'
  <2>1. x \in Params' /\ x \in Live
    <3>1. Live' \subseteq 1..Len(sym') BY LiveNext
    <3>2. x \in Params' BY <1>10, <3>1 DEF Params
    <3> QED BY <1>1, <1>2, <3>2 DEF Params
  <2>2. Listed(x)
    BY <1>1, <2>1 DEF ListsKept, Parameters, Params, Stays
  <2>3. CASE Starts(x)
    <3>1. PICK i \in 1..Len(parse) : OpenList(parse[i]) /\ parse[i].s = x
      BY <2>3 DEF Starts
    <3>2. i \in 1..Len(parse') /\ parse'[i] = parse[i] BY <1>5, <3>1
    <3> QED BY <3>1, <3>2 DEF Listed, Starts, OpenList
  <2>4. ASSUME NEW y \in Live, Precedes(y, x) PROVE Listed(x)'
    <3>1. sym'[y].next = x BY <1>1, <1>3, <2>1, <2>4 DEF Precedes
    <3>2. CASE y \in Global
      BY <1>2, <3>1, <3>2 DEF Listed, Precedes
    <3>3. CASE y \notin Global
      <4>1. y \in Local /\ x \in Local BY <2>4, <3>3 DEF Live, Precedes
      <4>2. ASSUME NEW i \in 1..Len(parse'), HoldsMarker(parse'[i]), x <= parse'[i].s
            PROVE  y <= parse'[i].s
        <5>1. MarkerKnown(parse'[i].s) BY <1>6, <4>2
        <5> QED BY <1>2, <2>4, <3>3, <4>1, <4>2, <5>1 DEF MarkerKnown, Precedes
      <4>3. Precedes(y, x)' BY <1>2, <3>1, <4>1, <4>2 DEF Precedes, HoldsMarker
      <4> QED BY <1>2, <4>3 DEF Listed
    <3> QED BY <3>2, <3>3
  <2> QED BY <2>2, <2>3, <2>4 DEF Listed
<1> QED BY <1>7, <1>8, <1>9, <1>10 DEF ListsKept, Parameters

LEMMA AnySeq == ASSUME NEW S, NEW T, NEW p \in Seq(S) PROVE p \in Seq(S \cup T)
<1>1. Len(p) \in Nat /\ p \in [1..Len(p) -> S] BY LenProperties
<1>2. p \in [1..Len(p) -> S \cup T] BY <1>1
<1> QED BY <1>1, <1>2, IsASeq

\* What becomes of the frames, without their types.
LEMMA ListsLeave ==
  ASSUME Inv, Inv', ListsKept, NextsKept, parse # <<>>, Leave,
         top.at \notin {"params", "pop"}
  PROVE  ListsKept'
<1>1. PICK b : b = ButLast(parse) OBVIOUS
<1>2. /\ b \in Seq(Activation) /\ Len(parse) \in Nat \ {0} /\ Len(b) = Len(parse) - 1
      /\ (\A i \in 1..(Len(parse) - 1) : b[i] = parse[i]) /\ top = parse[Len(parse)]
  BY <1>1, Shorter DEF Inv, top
<1>3. parse' = b BY <1>1 DEF Leave
<1>4. Len(b) \in Nat /\ Agree(parse, parse', Len(b)) BY <1>2, <1>3 DEF Agree
<1>5. PlainAbove(Len(b))
  <2>1. \A i \in 1..Len(parse) : i > Len(b) => i = Len(parse) BY <1>2
  <2>2. \A i \in 1..Len(parse') : ~ (i > Len(b)) BY <1>2, <1>3
  <2> QED BY <1>2, <2>1, <2>2 DEF PlainAbove, OpenList
<1>6. ~ Popping BY DEF Popping, At, top
<1> QED BY <1>4, <1>5, <1>6, ListsStep

LEMMA ListsGoto ==
  ASSUME Inv, Inv', ListsKept, NextsKept, parse # <<>>,
         top.at \notin {"params", "pop"}, NEW f, Goto(f), Plain(f)
  PROVE  ListsKept'
<1>1. PICK S : S = Activation \cup {f} OBVIOUS
<1>2. parse \in Seq(S) /\ f \in S BY <1>1, AnySeq DEF Inv
<1>3. /\ Len(parse') = Len(parse) /\ parse'[Len(parse)] = f
      /\ Agree(parse, parse', Len(parse) - 1)
  BY <1>2, Replaced DEF Goto
<1>4. Len(parse) \in Nat \ {0} /\ top = parse[Len(parse)] BY TopFine
<1>5. PICK m : m = Len(parse) - 1 OBVIOUS
<1>6. PlainAbove(m)
  <2>1. /\ \A i \in 1..Len(parse) : i > m => i = Len(parse)
        /\ \A i \in 1..Len(parse') : i > m => i = Len(parse)
    BY <1>3, <1>4, <1>5
  <2> QED BY <1>3, <1>4, <2>1 DEF PlainAbove, OpenList
<1>7. ~ Popping BY DEF Popping, At, top
<1>8. m \in Nat /\ Agree(parse, parse', m) BY <1>3, <1>4, <1>5
<1> QED BY <1>6, <1>7, <1>8, ListsStep

LEMMA ListsEnter ==
  ASSUME Inv, Inv', ListsKept, NextsKept, ~ Popping,
         NEW f, parse' = Append(parse, f), Plain(f)
  PROVE  ListsKept'
<1>1. PICK S : S = Activation \cup {f} OBVIOUS
<1>2. parse \in Seq(S) /\ f \in S /\ Len(parse) \in Nat
  BY <1>1, AnySeq, LenProperties DEF Inv
<1>3. /\ Len(parse') = Len(parse) + 1 /\ parse'[Len(parse) + 1] = f
      /\ Agree(parse, parse', Len(parse))
  BY <1>2, Longer
<1>4. PICK m : m = Len(parse) OBVIOUS
<1>5. PlainAbove(m)
  <2>1. /\ \A i \in 1..Len(parse) : ~ (i > m)
        /\ \A i \in 1..Len(parse') : i > m => i = m + 1
    BY <1>2, <1>3, <1>4
  <2> QED BY <1>3, <1>4, <2>1 DEF PlainAbove
<1>6. m \in Nat /\ Agree(parse, parse', m) BY <1>2, <1>3, <1>4
<1> QED BY <1>5, <1>6, ListsStep

LEMMA ListsGotoEnter ==
  ASSUME Inv, Inv', ListsKept, NextsKept, parse # <<>>,
         top.at \notin {"params", "pop"}, NEW f, NEW g, Plain(f), Plain(g),
         parse' = Append(Append(ButLast(parse), f), g)
  PROVE  ListsKept'
<1>1. PICK S : S = Activation \cup {f, g} OBVIOUS
<1>2. parse \in Seq(S) /\ f \in S /\ g \in S BY <1>1, AnySeq DEF Inv
<1>3. PICK r : r = Append(ButLast(parse), f) OBVIOUS
<1>4. PICK k : k = Len(parse) OBVIOUS
<1>5. k \in Nat \ {0} /\ top = parse[k] BY <1>4, TopFine
<1>6. r \in Seq(S) /\ Len(r) = k /\ r[k] = f /\ Agree(parse, r, k - 1)
  BY <1>2, <1>3, <1>4, Replaced
<1>7. parse' = Append(r, g) BY <1>3
<1>8. Len(parse') = k + 1 /\ parse'[k + 1] = g /\ Agree(r, parse', k)
  BY <1>2, <1>6, <1>7, Longer
<1>9. parse'[k] = f BY <1>5, <1>6, <1>8 DEF Agree
<1>10. PICK m : m = k - 1 OBVIOUS
<1>11. m \in Nat /\ Agree(parse, parse', m)
  BY <1>5, <1>6, <1>8, <1>10 DEF Agree
<1>12. PlainAbove(m)
  <2>1. /\ \A i \in 1..Len(parse) : i > m => i = k
        /\ \A i \in 1..Len(parse') : i > m => i = k \/ i = k + 1
    BY <1>4, <1>5, <1>8, <1>10
  <2> QED BY <1>5, <1>8, <1>9, <2>1 DEF PlainAbove, OpenList
<1>13. ~ Popping BY DEF Popping, At, top
<1> QED BY <1>11, <1>12, <1>13, ListsStep

LEMMA ListsMember ==
  ASSUME Inv, Inv', ListsKept, NextsKept, Len(parse) > 1,
         top.at \notin {"params", "pop"}, parse[Len(parse) - 1].at = "struct",
         NEW f, NEW g, Plain(f), Plain(g),
         parse' = Append(Append(ButLast(ButLast(parse)), f), g)
  PROVE  ListsKept'
<1>0. parse # <<>> BY EmptySeq
<1>1. PICK S : S = Activation \cup {f, g} OBVIOUS
<1>2. parse \in Seq(S) /\ f \in S /\ g \in S BY <1>1, AnySeq DEF Inv
<1>3. PICK r : r = Append(ButLast(ButLast(parse)), f) OBVIOUS
<1>4. PICK k : k = Len(parse) OBVIOUS
<1>5. k \in Nat \ {0} /\ k > 1 /\ top = parse[k] /\ parse[k - 1].at = "struct"
  BY <1>0, <1>4, TopFine
<1>6. r \in Seq(S) /\ Len(r) = k - 1 /\ r[k - 1] = f /\ Agree(parse, r, k - 2)
  BY <1>2, <1>3, <1>4, TwoReplaced
<1>7. parse' = Append(r, g) BY <1>3
<1>8. Len(parse') = k - 1 + 1 /\ parse'[k - 1 + 1] = g /\ Agree(r, parse', k - 1)
  BY <1>2, <1>6, <1>7, Longer
<1>9. parse'[k - 1] = f BY <1>5, <1>6, <1>8 DEF Agree
<1>10. PICK m : m = k - 2 OBVIOUS
<1>11. m \in Nat /\ Agree(parse, parse', m)
  <2>1. m \in Nat /\ m =< k - 2 /\ m =< Len(parse') /\ k \in Nat /\ k > 1
    BY <1>5, <1>8, <1>10
  <2>2. \A i \in 1..m : parse'[i] = parse[i]
    BY <2>1, <1>6, <1>8 DEF Agree
  <2> QED BY <2>1, <2>2, <1>5, <1>6, <1>8 DEF Agree
<1>12. PlainAbove(m)
  <2>1. /\ \A i \in 1..Len(parse) : i > m => i = k \/ i = k - 1
        /\ \A i \in 1..Len(parse') : i > m => i = k - 1 + 1 \/ i = k - 1
    BY <1>4, <1>5, <1>8, <1>10
  <2> QED BY <1>5, <1>8, <1>9, <2>1 DEF PlainAbove, OpenList
<1>13. ~ Popping BY <1>0 DEF Popping, At, top
<1> QED BY <1>11, <1>12, <1>13, ListsStep

\* Symbols.
LEMMA SameNext == ASSUME Inv, SymbolsSame PROVE NextsKept
<1>1. Live \subseteq 1..Len(sym) /\ Len(sym) \in Nat BY LiveTyped DEF Inv, Threaded
<1>2. Global' = Global /\ Local' = Local /\ Live' = Live
  BY DEF SymbolsSame, Global, Local, Live, Members
<1> QED BY <1>1, <1>2 DEF SymbolsSame, NextsKept

LEMMA NothingNext == ASSUME Inv, NoSymbol PROVE NextsKept
<1>1. SymbolsSame BY DEF NoSymbol, SymbolsSame
<1> QED BY <1>1, SameNext

LEMMA PushNext ==
  ASSUME Inv, NEW v, v.kind # "param", NEW type, NEW next, next = 0,
         Creates(v, type, next), \A x \in 1..Len(sym) : sym'[x].next = sym[x].next,
         PushLocal \/ PushGlobal
  PROVE  NextsKept
<1>1. Live \subseteq 1..Len(sym) /\ Len(sym) \in Nat /\ Table
  BY LiveTyped DEF Inv, Threaded
<1>2. /\ Global \subseteq Global' /\ Local \subseteq Local'
      /\ \A x \in Live' : x \in Live \/ x = Len(sym) + 1
  <2>1. CASE PushLocal
    <3>1. Stack(local_sym_stack, Len(sym)) BY <1>1 DEF Table
    <3>2. Local' = Local \cup {Len(sym) + 1}
      BY <1>1, <2>1, <3>1, StackPush DEF Local, PushLocal, Fresh
    <3>3. Global' = Global BY <2>1 DEF PushLocal, Global, Members
    <3> QED BY <3>2, <3>3 DEF Live
  <2>2. CASE PushGlobal
    <3>1. Stack(global_sym_stack, Len(sym)) BY <1>1 DEF Table
    <3>2. Global' = Global \cup {Len(sym) + 1}
      BY <1>1, <2>2, <3>1, StackPush DEF Global, PushGlobal, Fresh
    <3>3. Local' = Local BY <2>2 DEF PushGlobal, Local, Members
    <3> QED BY <3>2, <3>3 DEF Live
  <2> QED BY <2>1, <2>2
<1>3. Len(sym') = Len(sym) + 1 BY DEF Creates
<1>4. \A x \in 1..Len(sym) : sym'[x].v = sym[x].v BY DEF Creates
<1>5. \A x \in 1..Len(sym') : x > Len(sym) =>
        sym'[x].v.kind # "param" /\ sym'[x].next \notin Params'
  <2>1. \A x \in 1..Len(sym') : x > Len(sym) => x = Len(sym) + 1 BY <1>1, <1>3
  <2>2. 0 \notin Params' BY DEF Params
  <2> QED BY <2>1, <2>2 DEF Creates
<1> QED BY <1>1, <1>2, <1>3, <1>4, <1>5 DEF NextsKept

\* A symbol that is not a parameter and starts no list.
LEMMA OtherPushed ==
  ASSUME Inv, NEW v \in Word, v.kind # "param", NEW type \in Types,
         Resolved(type, Len(sym)), NEW c \in {-1, 0}, PushLocal \/ PushGlobal,
         sym' = Append(sym, NewSymbol(v, type, c, 0))
  PROVE  NextsKept
<1>1. Table /\ Len(sym) \in Nat /\ 0 \in Nat /\ 0 <= Len(sym)
  BY LiveTyped DEF Inv, Threaded
<1>2. PICK z : z = 0 OBVIOUS
<1>3. Creates(v, type, 0) BY <1>1, Created
<1>4. \A x \in 1..Len(sym) : sym'[x].next = sym[x].next
  <2>1. PICK f : f = NewSymbol(v, type, c, 0) OBVIOUS
  <2>2. Resolved(type, Len(sym) + 1) /\ 0 <= Len(sym) + 1
    BY <1>1 DEF Resolved, Types
  <2>3. Extended(sym', f) BY <1>1, <2>1, <2>2, NewLast
  <2> QED BY <2>3 DEF Extended
<1> QED BY <1>2, <1>3, <1>4, PushNext

LEMMA SymPushPlace == ASSUME NEW v, sym_push(v) PROVE PushLocal \/ PushGlobal
BY DEF sym_push

\* The frames that are plain.
LEMMA PlainFrame ==
  ASSUME NEW f, f.at \notin {"params", "block", "pop"} PROVE Plain(f)
BY DEF Plain, HoldsMarker

LEMMA PlainTop ==
  ASSUME Inv, parse # <<>>, NEW f, f.at = top.at, f.s = top.s, top.at # "params"
  PROVE  Plain(f)
<1>1. top = parse[Len(parse)] /\ Len(parse) \in Nat \ {0} BY TopFine
<1>2. HoldsMarker(f) => HoldsMarker(top) BY DEF HoldsMarker
<1>3. HoldsMarker(top) => MarkerKnown(top.s)
  <2>1. Len(parse) \in 1..Len(parse) BY <1>1
  <2> QED BY <1>1, <2>1 DEF MarkerKnown
<1> QED BY <1>2, <1>3 DEF Plain

LEMMA PlainStatement ==
  ASSUME Inv, parse # <<>>, top.at \notin {"params", "func", "pop"}
  PROVE  Plain(Statement(top))
<1>1. PICK t : t = top OBVIOUS
<1>2. t \in Activation BY <1>1, TopFine
<1>3. PICK f : f = Statement(t) OBVIOUS
<1>4. f.at = t.at /\ f.s = t.s
  <2>1. CASE t.at = "block"
    <3>1. f = [t EXCEPT !.stage = "statements"] BY <1>3, <2>1 DEF Statement
    <3> QED BY <1>2, <3>1, WithStage
  <2>2. CASE t.at # "block" BY <1>3, <2>2 DEF Statement
  <2> QED BY <2>1, <2>2
<1>5. f.at = top.at /\ f.s = top.s /\ top.at # "params" BY <1>1, <1>4
<1>6. Plain(f) BY <1>5, PlainTop
<1> QED BY <1>1, <1>3, <1>6

LEMMA ExpressionTop ==
  ASSUME InExpression PROVE parse # <<>> /\ top.at \in {"block", "decl"}
BY DEF InExpression, Decl, At, top

\* A declaration begins.
LEMMA DeclarationLists ==
  ASSUME Inv, Inv', ListsKept, NextsKept, NEW stage, NEW type, Declares(stage, type)
  PROVE  ListsKept'
<1>1. CASE Expects # "nothing" /\ parse' = Append(parse, DeclFrame(Expects, stage, type))
  <2>1. PICK f : f = DeclFrame(Expects, stage, type) OBVIOUS
  <2>2. f.at = "decl" BY <2>1 DEF DeclFrame
  <2>3. Plain(f) BY <2>2, PlainFrame
  <2>4. ~ Popping BY <1>1 DEF Expects, Popping, At
  <2> QED BY <1>1, <2>1, <2>3, <2>4, ListsEnter
<1>2. CASE /\ InExpression
           /\ parse' = Append(Append(ButLast(parse), Statement(top)),
                              DeclFrame("sizeof", stage, type))
  <2>1. PICK f : f = Statement(top) OBVIOUS
  <2>2. PICK g : g = DeclFrame("sizeof", stage, type) OBVIOUS
  <2>3. parse # <<>> /\ top.at \in {"block", "decl"} BY <1>2, ExpressionTop
  <2>4. Plain(f) BY <2>1, <2>3, PlainStatement
  <2>5. g.at = "decl" BY <2>2 DEF DeclFrame
  <2>6. Plain(g) BY <2>5, PlainFrame
  <2>7. top.at \notin {"params", "pop"} BY <2>3
  <2>8. parse' = Append(Append(ButLast(parse), f), g) BY <1>2, <2>1, <2>2
  <2> QED BY <2>3, <2>4, <2>6, <2>7, <2>8, ListsGotoEnter
<1> QED BY <1>1, <1>2 DEF Declares

LEMMA BasicTypeLists ==
  ASSUME Inv, Inv', ListsKept, BasicType PROVE ListsKept'
<1>1. NextsKept BY NothingNext DEF BasicType
<1>2. Declares("specified", int_type)
  BY DEF BasicType, Declares, Enter, EnterExpr
<1> QED BY <1>1, <1>2, DeclarationLists

LEMMA StructNameLists ==
  ASSUME Inv, Inv', ListsKept, NEW w \in Words, StructName(w) PROVE ListsKept'
<1>1. PICK r : r = IF struct_search(w) # 0 THEN struct_search(w) ELSE Fresh
  OBVIOUS
<1>2. PICK type : type = Type("struct", r) OBVIOUS
<1>3. Declares("tagged", type)
  BY <1>1, <1>2 DEF StructName, Declares, Enter, EnterExpr
<1>4. NextsKept
  <2>1. CASE struct_search(w) # 0
    BY <2>1, NothingNext DEF StructName
  <2>2. CASE struct_search(w) = 0
    <3>1. PICK v : v = V("tag", w) OBVIOUS
    <3>2. PICK t : t = Type("struct", 0) OBVIOUS
    <3>3. v \in Word /\ v.kind # "param" BY <3>1, VTyped DEF V, AllWords
    <3>4. Len(sym) \in Nat BY LiveTyped DEF Inv, Threaded
    <3>5. t \in Types /\ Resolved(t, Len(sym))
      BY <3>2, <3>4 DEF Type, Types, Resolved
    <3>6. sym_push(v) /\ sym' = Append(sym, NewSymbol(v, t, -1, 0))
      BY <2>2, <3>1, <3>2 DEF StructName
    <3>7. PushLocal \/ PushGlobal BY <3>6, SymPushPlace
    <3>8. -1 \in {-1, 0} OBVIOUS
    <3> QED BY <3>3, <3>5, <3>6, <3>7, <3>8, OtherPushed
  <2> QED BY <2>1, <2>2
<1> QED BY <1>3, <1>4, DeclarationLists

\* A declaration goes on.
LEMMA DeclLists ==
  ASSUME Inv, Inv', ListsKept, NextsKept, parse # <<>>, top.at = "decl",
         NEW f, Goto(f), f.at = "decl"
  PROVE  ListsKept'
<1>1. Plain(f) BY PlainFrame
<1>2. top.at \notin {"params", "pop"} OBVIOUS
<1> QED BY <1>1, <1>2, ListsGoto

LEMMA IdentifierLists ==
  ASSUME Inv, Inv', ListsKept, NEW w \in Words, Identifier(w) PROVE ListsKept'
<1>1. NextsKept BY NothingNext DEF Identifier
<1>2. parse # <<>> /\ top.at = "decl" BY DeclTop DEF Identifier
<1>3. PICK f : f = [top EXCEPT !.stage = "named", !.word = w] OBVIOUS
<1>4. PICK t : t = top OBVIOUS
<1>5. t \in Activation BY <1>2, <1>4, TopFine
<1>6. f.at = "decl" BY <1>2, <1>3, <1>4, <1>5 DEF Activation
<1>7. Goto(f) BY <1>3 DEF Identifier
<1> QED BY <1>1, <1>2, <1>6, <1>7, DeclLists

LEMMA CommaLists ==
  ASSUME Inv, Inv', ListsKept, Comma PROVE ListsKept'
<1>1. NextsKept BY NothingNext DEF Comma
<1>2. parse # <<>> /\ top.at = "decl" BY DeclTop DEF Comma
<1>3. PICK t : t = top OBVIOUS
<1>4. t \in Activation BY <1>2, <1>3, TopFine
<1>5. PICK f : f = [t EXCEPT !.stage = "pointer", !.type = t.base] OBVIOUS
<1>6. f.at = "decl" BY <1>2, <1>3, <1>4, <1>5 DEF Activation
<1>7. Goto(f) BY <1>3, <1>5 DEF Comma
<1> QED BY <1>1, <1>2, <1>6, <1>7, DeclLists

LEMMA EndDeclarationLists ==
  ASSUME Inv, Inv', ListsKept, EndDeclaration PROVE ListsKept'
<1>1. NextsKept BY NothingNext DEF EndDeclaration
<1>2. parse # <<>> /\ top.at = "decl" /\ Leave BY DeclTop DEF EndDeclaration
<1> QED BY <1>1, <1>2, ListsLeave

LEMMA OpenStructLists ==
  ASSUME Inv, Inv', ListsKept, OpenStruct PROVE ListsKept'
<1>1. NextsKept BY NothingNext DEF OpenStruct
<1>2. parse # <<>> /\ top.at = "decl" BY DeclTop DEF OpenStruct
<1>3. PICK t : t = top OBVIOUS
<1>4. t \in Activation BY <1>2, <1>3, TopFine
<1>5. PICK f : f = [t EXCEPT !.stage = "specified"] OBVIOUS
<1>6. f.at = "decl" BY <1>2, <1>3, <1>4, <1>5 DEF Activation
<1>7. PICK g : g = Frame("struct", "members", t.base.ref, t.base.ref) OBVIOUS
<1>8. g.at = "struct" BY <1>7 DEF Frame
<1>9. Plain(f) /\ Plain(g) BY <1>6, <1>8, PlainFrame
<1>10. parse' = Append(Append(ButLast(parse), f), g)
  BY <1>3, <1>5, <1>7 DEF OpenStruct
<1>11. top.at \notin {"params", "pop"} BY <1>2
<1> QED BY <1>1, <1>2, <1>9, <1>10, <1>11, ListsGotoEnter

LEMMA CloseStructLists ==
  ASSUME Inv, Inv', ListsKept, CloseStruct PROVE ListsKept'
<1>1. /\ Leave /\ parse # <<>> /\ top.at \notin {"params", "pop"}
  BY DEF CloseStruct, At, top
<1>2. SymbolsSame BY CloseStructSame
<1>3. NextsKept BY <1>2, SameNext
<1> QED BY <1>1, <1>3, ListsLeave

LEMMA OpenParamsLists ==
  ASSUME Inv, Inv', ListsKept, OpenParams PROVE ListsKept'
<1>1. NextsKept BY NothingNext DEF OpenParams
<1>2. parse # <<>> /\ top.at = "decl" BY DeclTop DEF OpenParams
<1>3. PICK f : f = Frame("params", "params", 0, 0) OBVIOUS
<1>4. Plain(f)
  <2>1. f.at = "params" /\ f.s = 0 /\ f.tail = 0 BY <1>3 DEF Frame
  <2> QED BY <2>1 DEF Plain, HoldsMarker
<1>5. parse' = Append(parse, f) BY <1>3 DEF OpenParams, Enter
<1>6. ~ Popping BY <1>2 DEF Popping, At, top
<1> QED BY <1>1, <1>4, <1>5, <1>6, ListsEnter

LEMMA PointerLists ==
  ASSUME Inv, Inv', ListsKept, Pointer PROVE ListsKept'
<1>1. parse # <<>> /\ top.at = "decl" BY DeclTop DEF Pointer
<1>2. PICK t : t = top OBVIOUS
<1>3. t \in Activation /\ Bounded(t, Len(sym)) BY <1>1, <1>2, TopFine
<1>4. PICK type : type = t.type OBVIOUS
<1>5. type \in Types /\ Resolved(type, Len(sym)) /\ -1 \in {-1, 0}
  BY <1>3, <1>4 DEF Activation, Bounded
<1>6. PushLocal \/ PushGlobal BY SymPushPlace DEF Pointer
<1>7. sym' = Append(sym, NewSymbol(Anonymous, type, -1, 0))
  BY <1>2, <1>4 DEF Pointer
<1>8. Anonymous.kind # "param" BY DEF Anonymous, V
<1>9. NextsKept BY <1>5, <1>6, <1>7, <1>8, AnonymousTyped, OtherPushed
<1>10. PICK f : f = [t EXCEPT !.stage = "pointer", !.type = Type("ptr", Fresh)]
  OBVIOUS
<1>11. f.at = "decl" BY <1>1, <1>2, <1>3, <1>10 DEF Activation
<1>12. Goto(f) BY <1>2, <1>10 DEF Pointer
<1> QED BY <1>1, <1>9, <1>11, <1>12, DeclLists

LEMMA ArrayLists ==
  ASSUME Inv, Inv', ListsKept, Array PROVE ListsKept'
<1>1. parse # <<>> /\ top.at = "decl" BY DeclTop DEF Array
<1>2. PICK t : t = top OBVIOUS
<1>3. t \in Activation /\ Bounded(t, Len(sym)) BY <1>1, <1>2, TopFine
<1>4. PICK type : type = t.type OBVIOUS
<1>5. type \in Types /\ Resolved(type, Len(sym)) /\ 0 \in {-1, 0}
  BY <1>3, <1>4 DEF Activation, Bounded
<1>6. PushLocal \/ PushGlobal BY SymPushPlace DEF Array
<1>7. sym' = Append(sym, NewSymbol(Anonymous, type, 0, 0))
  BY <1>2, <1>4 DEF Array
<1>8. Anonymous.kind # "param" BY DEF Anonymous, V
<1>9. NextsKept BY <1>5, <1>6, <1>7, <1>8, AnonymousTyped, OtherPushed
<1>10. PICK f : f = [t EXCEPT !.stage = "complete", !.type = Type("array", Fresh)]
  OBVIOUS
<1>11. f.at = "decl" BY <1>1, <1>2, <1>3, <1>10 DEF Activation
<1>12. Goto(f) BY <1>2, <1>10 DEF Array
<1> QED BY <1>1, <1>9, <1>11, <1>12, DeclLists

LEMMA DeclareNameLists ==
  ASSUME Inv, Inv', ListsKept, DeclareName PROVE ListsKept'
<1>1. parse # <<>> /\ top.at = "decl" BY DeclTop DEF DeclareName
<1>2. PICK t : t = top OBVIOUS
<1>3. t \in Activation /\ Bounded(t, Len(sym)) BY <1>1, <1>2, TopFine
<1>4. NextsKept
  <2>1. CASE NoSymbol BY <2>1, NothingNext
  <2>2. CASE /\ sym_push(V("ident", top.word))
             /\ sym' = Append(sym, NewSymbol(V("ident", top.word), top.type, 0, 0))
    <3>1. PICK v : v = V("ident", t.word) OBVIOUS
    <3>2. PICK type : type = t.type OBVIOUS
    <3>3. v \in Word /\ v.kind # "param" BY <1>3, <3>1, VTyped DEF V, Activation
    <3>4. type \in Types /\ Resolved(type, Len(sym)) /\ 0 \in {-1, 0}
      BY <1>3, <3>2 DEF Activation, Bounded
    <3>5. sym_push(v) /\ sym' = Append(sym, NewSymbol(v, type, 0, 0))
      BY <1>2, <2>2, <3>1, <3>2
    <3>6. PushLocal \/ PushGlobal BY <3>5, SymPushPlace
    <3> QED BY <3>3, <3>4, <3>5, <3>6, OtherPushed
  <2> QED BY <2>1, <2>2 DEF DeclareName
<1>5. PICK f : f = [t EXCEPT !.stage = "done"] OBVIOUS
<1>6. f.at = "decl" BY <1>1, <1>2, <1>3, <1>5 DEF Activation
<1>7. Goto(f) BY <1>2, <1>5 DEF DeclareName
<1> QED BY <1>1, <1>4, <1>6, <1>7, DeclLists

\* sym_push puts the symbol on one stack.
LEMMA OnePushed ==
  ASSUME Table, NEW v, sym_push(v)
  PROVE  /\ Global \subseteq Global' /\ Local \subseteq Local'
         /\ \A x \in Live' : x \in Live \/ x = Len(sym) + 1
         /\ Innermost \cup {Len(sym) + 1} \subseteq Innermost'
         /\ Len(sym) + 1 \in Live'
<1>1. Live \subseteq 1..Len(sym) /\ Len(sym) \in Nat BY LiveTyped
<1>2. Stack(local_sym_stack, Len(sym)) /\ Stack(global_sym_stack, Len(sym))
  BY DEF Table
<1>3. CASE local_sym_stack # <<>>
  <2>1. local_sym_stack' = Append(local_sym_stack, Len(sym) + 1) /\ Global' = Global
    BY <1>3 DEF sym_push, PushLocal, Fresh, Global, Members
  <2>2. Local' = Local \cup {Len(sym) + 1}
    BY <1>1, <1>2, <2>1, StackPush DEF Local
  <2>3. Local # {} BY <1>3, EmptyLocal
  <2> QED BY <2>1, <2>2, <2>3 DEF Live, Innermost
<1>4. CASE local_sym_stack = <<>>
  <2>1. global_sym_stack' = Append(global_sym_stack, Len(sym) + 1) /\ Local' = Local
    BY <1>4 DEF sym_push, PushGlobal, Fresh, Local, Members
  <2>2. Global' = Global \cup {Len(sym) + 1}
    BY <1>1, <1>2, <2>1, StackPush DEF Global
  <2>3. Local = {} BY <1>4, EmptyLocal
  <2> QED BY <2>1, <2>2, <2>3 DEF Live, Innermost
<1> QED BY <1>3, <1>4

LEMMA MemberLists ==
  ASSUME Inv, Inv', TypesKept, ListsKept, Member PROVE ListsKept'
<1>1. parse # <<>> /\ top.at = "decl" /\ top.where = "member"
  BY DeclTop DEF Member
<1>2. /\ Len(parse) > 1 /\ parse[Len(parse) - 1].at = "struct" /\ Len(sym) \in Nat
      /\ Table
  BY <1>1, TopFine, LiveTyped DEF Inv, Threaded
<1>3. PICK t : t = top OBVIOUS
<1>4. PICK list : list = parse[Len(parse) - 1] OBVIOUS
<1>5. t \in Activation /\ Typed(t.type) BY <1>1, <1>3, TopGrows
<1>6. list \in Activation /\ Bounded(list, Len(sym)) /\ FrameAlive(list)
  BY <1>2, <1>4, BelowGrows
<1>7. PICK v : v = V("member", t.word) OBVIOUS
<1>8. PICK type : type = t.type OBVIOUS
<1>9. PICK k : k = list.tail OBVIOUS
<1>10. k \in 1..Len(sym) /\ sym[k].v.kind \in {"tag", "member"}
  <2>1. k # 0 /\ sym[k].v.kind \in {"tag", "member"}
    BY <1>2, <1>4, <1>6, <1>9 DEF FrameAlive
  <2>2. k \in Nat /\ k <= Len(sym) BY <1>6, <1>9 DEF Activation, Bounded
  <2> QED BY <1>2, <2>1, <2>2
<1>11. v \in Word /\ type \in Types /\ Resolved(type, Len(sym)) /\ v.kind = "member"
  BY <1>5, <1>7, <1>8, VTyped DEF Activation, Typed, V
<1>12. /\ sym_push(v)
       /\ sym' = [Append(sym, NewSymbol(v, type, 0, 0)) EXCEPT ![k].next = Fresh]
  BY <1>3, <1>4, <1>7, <1>8, <1>9 DEF Member
<1>13. Hooks(v, type, k) BY <1>2, <1>10, <1>11, <1>12, Hooked
<1>14. NextsKept
  <2>1. /\ Global \subseteq Global' /\ Local \subseteq Local'
        /\ \A x \in Live' : x \in Live \/ x = Len(sym) + 1
    BY <1>2, <1>12, OnePushed
  <2>2. Len(sym) + 1 \notin Params' /\ 0 \notin Params'
    BY <1>11, <1>13 DEF Hooks, Params
  <2>3. \A x \in 1..Len(sym') : x > Len(sym) => x = Len(sym) + 1
    BY <1>2, <1>13 DEF Hooks
  <2>4. Len(sym') = Len(sym) + 1 BY <1>13 DEF Hooks
  <2>5. \A x \in 1..Len(sym) :
          /\ sym'[x].v = sym[x].v
          /\ \/ sym'[x].next = sym[x].next
             \/ sym[x].v.kind \notin {"anom", "param"} /\ sym'[x].next \notin Params'
    BY <1>10, <1>13, <2>2 DEF Hooks
  <2>6. \A x \in 1..Len(sym') :
          x > Len(sym) => sym'[x].v.kind # "param" /\ sym'[x].next \notin Params'
    BY <1>11, <1>13, <2>2, <2>3 DEF Hooks
  <2> QED BY <1>2, <2>1, <2>4, <2>5, <2>6 DEF NextsKept
<1>15. PICK f : f = [list EXCEPT !.tail = Fresh] OBVIOUS
<1>16. PICK g : g = [t EXCEPT !.stage = "done"] OBVIOUS
<1>17. f.at = "struct" /\ g.at = "decl"
  BY <1>1, <1>2, <1>3, <1>4, <1>5, <1>6, <1>15, <1>16 DEF Activation
<1>18. Plain(f) /\ Plain(g) BY <1>17, PlainFrame
<1>19. parse' = Append(Append(ButLast(ButLast(parse)), f), g)
  BY <1>3, <1>4, <1>15, <1>16 DEF Member
<1>20. top.at \notin {"params", "pop"} BY <1>1
<1> QED BY <1>2, <1>14, <1>18, <1>19, <1>20, ListsMember

\* What is made in an expression.
LEMMA ExpressionLists ==
  ASSUME Inv, Inv', ListsKept, NextsKept, InExpression, Goto(Statement(top))
  PROVE  ListsKept'
<1>1. parse # <<>> /\ top.at \in {"block", "decl"} BY ExpressionTop
<1>2. PICK f : f = Statement(top) OBVIOUS
<1>3. top.at \notin {"params", "func", "pop"} BY <1>1
<1>4. Plain(Statement(top)) BY <1>1, <1>3, PlainStatement
<1>5. Plain(f) /\ Goto(f) BY <1>2, <1>4
<1>6. top.at \notin {"params", "pop"} BY <1>1
<1> QED BY <1>1, <1>5, <1>6, ListsGoto

LEMMA UndeclaredLists ==
  ASSUME Inv, Inv', ListsKept, NEW w \in Words, Undeclared(w) PROVE ListsKept'
<1>1. w \in AllWords /\ Len(sym) \in Nat /\ Len(sym) >= 3
  BY LiveTyped DEF AllWords, Inv, Threaded, Table
<1>2. PICK v : v = V("ident", w) OBVIOUS
<1>3. PICK type : type = default_func_type OBVIOUS
<1>4. type \in Types /\ type.ref = 2 /\ type.t = "func"
  BY <1>3 DEF default_func_type, Type, Types
<1>5. Resolved(type, Len(sym)) BY <1>1, <1>4 DEF Resolved
<1>6. v \in Word /\ v.kind # "param" /\ 0 \in {-1, 0} BY <1>1, <1>2, VTyped DEF V
<1>7. PushLocal \/ PushGlobal BY DEF Undeclared, func_sym_push
<1>8. sym' = Append(sym, NewSymbol(v, type, 0, 0)) BY <1>2, <1>3 DEF Undeclared
<1>9. NextsKept BY <1>4, <1>5, <1>6, <1>7, <1>8, OtherPushed
<1>10. InExpression /\ Goto(Statement(top)) BY DEF Undeclared
<1> QED BY <1>9, <1>10, ExpressionLists

LEMMA PointerInExpressionLists ==
  ASSUME Inv, Inv', ListsKept, PointerInExpression PROVE ListsKept'
<1>1. Len(sym) \in Nat /\ -1 \in {-1, 0} BY LiveTyped DEF Inv, Threaded
<1>2. int_type \in Types /\ Resolved(int_type, Len(sym))
  BY <1>1, IntTypedAlive DEF Typed
<1>3. PushLocal \/ PushGlobal BY SymPushPlace DEF PointerInExpression
<1>4. sym' = Append(sym, NewSymbol(Anonymous, int_type, -1, 0))
  BY DEF PointerInExpression
<1>5. Anonymous.kind # "param" BY DEF Anonymous, V
<1>6. NextsKept BY <1>1, <1>2, <1>3, <1>4, <1>5, AnonymousTyped, OtherPushed
<1>7. InExpression /\ Goto(Statement(top)) BY DEF PointerInExpression
<1> QED BY <1>6, <1>7, ExpressionLists

\* Functions and blocks.
LEMMA EnterBodyLists ==
  ASSUME Inv, Inv', ListsKept, EnterBody PROVE ListsKept'
<1>1. parse # <<>> /\ top.at = "func" BY DEF EnterBody, At, top
<1>2. Len(sym) \in Nat /\ 0 \in {-1, 0} BY LiveTyped DEF Inv, Threaded
<1>3. int_type \in Types /\ Resolved(int_type, Len(sym))
  BY <1>2, IntTypedAlive DEF Typed
<1>4. PushLocal \/ PushGlobal BY DEF EnterBody
<1>5. sym' = Append(sym, NewSymbol(Anonymous, int_type, 0, 0))
  BY DEF EnterBody
<1>6. Anonymous.kind # "param" BY DEF Anonymous, V
<1>7. NextsKept BY <1>2, <1>3, <1>4, <1>5, <1>6, AnonymousTyped, OtherPushed
<1>8. PICK t : t = top OBVIOUS
<1>9. PICK n : n = sym[sym[t.s].type.ref].next OBVIOUS
<1>10. PICK f : f = [t EXCEPT !.stage = "prolog", !.tail = n] OBVIOUS
<1>11. t \in Activation BY <1>1, <1>8, TopFine
<1>12. f.at = "func" BY <1>1, <1>8, <1>10, <1>11 DEF Activation
<1>13. Plain(f) BY <1>12, PlainFrame
<1>14. Goto(f) BY <1>8, <1>9, <1>10 DEF EnterBody
<1>15. top.at \notin {"params", "pop"} BY <1>1
<1> QED BY <1>1, <1>7, <1>13, <1>14, <1>15, ListsGoto

LEMMA PrologLists ==
  ASSUME Inv, Inv', TypesKept, ListsKept, Prolog PROVE ListsKept'
<1>1. parse # <<>> /\ top.at = "func" /\ top.stage = "prolog" /\ top.tail # 0
  BY DEF Prolog, At, top
<1>2. Table /\ Len(sym) \in Nat /\ Live \subseteq 1..Len(sym) /\ sym \in Seq(Symbol)
  BY LiveTyped DEF Inv, Threaded, Table
<1>3. PICK t : t = top OBVIOUS
<1>4. t \in Activation /\ FrameAlive(t) BY <1>1, <1>3, TopGrows
<1>5. PICK k : k = t.tail OBVIOUS
<1>6. k \in 1..Len(sym)
  BY <1>1, <1>2, <1>3, <1>4, <1>5 DEF FrameAlive, Parameters, Live
<1>7. PICK v : v = V("ident", sym[k].v.word) OBVIOUS
<1>8. PICK type : type = sym[k].type OBVIOUS
<1>9. sym[k] \in Symbol BY <1>2, <1>6, ElementOfSeq
<1>10. v \in Word /\ v.kind # "param" /\ type \in Types /\ 0 \in {-1, 0}
  BY <1>7, <1>8, <1>9, VTyped DEF V, Symbol
<1>11. Resolved(type, Len(sym)) BY <1>2, <1>6, <1>8 DEF Table
<1>12. sym_push(v) /\ sym' = Append(sym, NewSymbol(v, type, 0, 0))
  BY <1>3, <1>5, <1>7, <1>8 DEF Prolog
<1>13. PushLocal \/ PushGlobal BY <1>12, SymPushPlace
<1>14. NextsKept BY <1>10, <1>11, <1>12, <1>13, OtherPushed
<1>15. PICK n : n = sym[k].next OBVIOUS
<1>16. PICK f : f = [t EXCEPT !.tail = n] OBVIOUS
<1>17. f.at = "func" BY <1>1, <1>3, <1>4, <1>16 DEF Activation
<1>18. Plain(f) BY <1>17, PlainFrame
<1>19. Goto(f) BY <1>3, <1>5, <1>15, <1>16 DEF Prolog
<1>20. top.at \notin {"params", "pop"} BY <1>1
<1> QED BY <1>1, <1>14, <1>18, <1>19, <1>20, ListsGoto

LEMMA DefineFunctionLists ==
  ASSUME Inv, Inv', ListsKept, DefineFunction PROVE ListsKept'
<1>1. parse # <<>> /\ top.at = "decl" BY DeclTop DEF DefineFunction
<1>2. Threaded /\ Table /\ Len(sym) \in Nat /\ Live \subseteq 1..Len(sym)
  BY LiveTyped DEF Inv, Threaded
<1>3. PICK t : t = top OBVIOUS
<1>4. t \in Activation /\ Bounded(t, Len(sym)) BY <1>1, <1>3, TopFine
<1>5. PICK w : w = t.word OBVIOUS
<1>6. PICK type : type = t.type OBVIOUS
<1>7. w \in AllWords /\ type \in Types /\ Resolved(type, Len(sym)) /\ 0 \in {-1, 0}
  BY <1>4, <1>5, <1>6 DEF Activation, Bounded
<1>8. NextsKept /\ \E k : Goto(Frame("func", "enter", k, 0))
  <2>1. CASE Declared(w)
    <3>1. PICK k : k = sym_search(w) OBVIOUS
    <3>2. k \in Live BY <1>2, <1>7, <2>1, <3>1, NameFound
    <3>3. k \in 1..Len(sym) BY <1>2, <3>2
    <3>4. /\ sym' = [sym EXCEPT ![k].type = type]
          /\ Goto(Frame("func", "enter", k, 0))
          /\ UNCHANGED <<global_sym_stack, local_sym_stack, head>>
      BY <1>3, <1>5, <1>6, <2>1, <3>1 DEF DefineFunction
    <3>5. /\ Len(sym') = Len(sym)
          /\ \A x \in 1..Len(sym) :
               /\ sym'[x].v = sym[x].v /\ sym'[x].next = sym[x].next
               /\ sym'[x].type = IF x = k THEN type ELSE sym[x].type
      BY <1>2, <1>7, <3>3, <3>4, TypeReplaced
    <3>6. Global' = Global /\ Local' = Local /\ Live' = Live
      BY <3>4 DEF Global, Local, Live, Members
    <3>7. NextsKept BY <1>2, <3>5, <3>6 DEF NextsKept
    <3> QED BY <3>4, <3>7
  <2>2. CASE ~ Declared(w)
    <3>1. PICK v : v = V("ident", w) OBVIOUS
    <3>2. /\ func_sym_push(w) /\ sym' = Append(sym, NewSymbol(v, type, 0, 0))
          /\ Goto(Frame("func", "enter", Fresh, 0))
      BY <1>3, <1>5, <1>6, <2>2, <3>1 DEF DefineFunction
    <3>3. v \in Word /\ v.kind # "param" BY <1>7, <3>1, VTyped DEF V
    <3>4. PushLocal \/ PushGlobal BY <3>2 DEF func_sym_push
    <3>5. NextsKept BY <1>7, <3>2, <3>3, <3>4, OtherPushed
    <3> QED BY <3>2, <3>5
  <2> QED BY <2>1, <2>2
<1>9. PICK k : Goto(Frame("func", "enter", k, 0)) BY <1>8
<1>10. PICK f : f = Frame("func", "enter", k, 0) OBVIOUS
<1>11. f.at = "func" BY <1>10 DEF Frame
<1>12. Plain(f) /\ Goto(f) BY <1>9, <1>10, <1>11, PlainFrame
<1>13. top.at \notin {"params", "pop"} BY <1>1
<1> QED BY <1>1, <1>8, <1>12, <1>13, ListsGoto

LEMMA PopLists ==
  ASSUME Inv, Inv', ListsKept, parse # <<>>, NEW s,
         (top.at = "block" /\ s = top.s) \/ (top.at = "func" /\ s = 0), PopTo(s)
  PROVE  ListsKept'
<1>1. NextsKept BY NothingNext DEF PopTo
<1>2. PICK f : f = Frame("pop", "", s, 0) OBVIOUS
<1>3. f.at = "pop" /\ f.s = s BY <1>2 DEF Frame
<1>4. HoldsMarker(f) => MarkerKnown(f.s)
  <2>1. Len(parse) \in 1..Len(parse) /\ top = parse[Len(parse)] BY TopFine
  <2>2. CASE top.at = "block" /\ s = top.s
    BY <1>3, <2>1, <2>2 DEF MarkerKnown, HoldsMarker
  <2>3. CASE s = 0 BY <1>3, <2>3 DEF HoldsMarker
  <2> QED BY <2>2, <2>3
<1>5. Plain(f) BY <1>3, <1>4 DEF Plain
<1>6. Goto(f) BY <1>2 DEF PopTo
<1>7. top.at \notin {"params", "pop"} OBVIOUS
<1> QED BY <1>1, <1>5, <1>6, <1>7, ListsGoto

LEMMA CloseBlockLists ==
  ASSUME Inv, Inv', ListsKept, CloseBlock PROVE ListsKept'
<1>1. PICK s : s = top.s OBVIOUS
<1>2. parse # <<>> /\ top.at = "block" /\ PopTo(s)
  BY <1>1 DEF CloseBlock, At, top
<1> QED BY <1>1, <1>2, PopLists

LEMMA EndFunctionLists ==
  ASSUME Inv, Inv', ListsKept, EndFunction PROVE ListsKept'
<1>1. PICK s : s = 0 OBVIOUS
<1>2. parse # <<>> /\ top.at = "func" /\ PopTo(s)
  BY <1>1 DEF EndFunction, At, top
<1> QED BY <1>1, <1>2, PopLists

\* A block begins where the local stack ends, and outside of every list.
LEMMA PlainBlock ==
  ASSUME Table, local_sym_stack # <<>>, NoSymbol, NEW g, g = BlockFrame,
         \A j \in 1..Len(parse) : parse[j].at # "params"
  PROVE  Plain(g)
<1>1. g.at = "block" /\ \A x \in Local : x <= g.s BY NewBlock
<1>2. Local' = Local BY DEF NoSymbol, Local, Members
<1>3. MarkerKnown(g.s) BY <1>1, <1>2 DEF MarkerKnown, OpenList
<1> QED BY <1>1, <1>3 DEF Plain

LEMMA FuncBlockLists ==
  ASSUME Inv, Inv', ListsKept, ~ NestedFunctions, FuncBlock PROVE ListsKept'
<1>1. NextsKept /\ NoSymbol BY NothingNext DEF FuncBlock
<1>2. parse # <<>> /\ top.at = "func" /\ top.stage = "prolog"
  BY DEF FuncBlock, At, top
<1>3. /\ Len(parse) \in Nat \ {0} /\ top = parse[Len(parse)] /\ Running(top) /\ Table
  BY <1>2, TopFine DEF Inv, Threaded
<1>4. local_sym_stack # <<>> BY <1>2, <1>3 DEF Running
<1>5. \A j \in 1..Len(parse) : parse[j].at # "params"
  <2>1. Fine(Len(parse)) BY <1>3 DEF Inv
  <2>2. Outermost(parse[Len(parse)]) BY <1>2, <1>3 DEF Outermost
  <2>3. Len(parse) = 1 BY <2>1, <2>2 DEF Fine, Placed
  <2>4. \A j \in 1..Len(parse) : j = Len(parse) BY <2>3
  <2> QED BY <1>2, <1>3, <2>4
<1>6. PICK t : t = top OBVIOUS
<1>7. PICK f : f = [t EXCEPT !.stage = "body"] OBVIOUS
<1>8. t \in Activation BY <1>2, <1>6, TopFine
<1>9. f.at = "func" BY <1>2, <1>6, <1>7, <1>8 DEF Activation
<1>10. PICK g : g = BlockFrame OBVIOUS
<1>11. Plain(f) BY <1>9, PlainFrame
<1>12. Plain(g) BY <1>1, <1>3, <1>4, <1>5, <1>10, PlainBlock
<1>13. parse' = Append(Append(ButLast(parse), f), g)
  BY <1>6, <1>7, <1>10 DEF FuncBlock
<1>14. top.at \notin {"params", "pop"} BY <1>2
<1> QED BY <1>1, <1>2, <1>11, <1>12, <1>13, <1>14, ListsGotoEnter

LEMMA OpenBlockLists ==
  ASSUME Inv, Inv', TypesKept, ListsKept, OpenBlock PROVE ListsKept'
<1>1. NextsKept /\ NoSymbol BY NothingNext DEF OpenBlock
<1>2. parse # <<>> /\ top.at = "block" /\ local_sym_stack # <<>> /\ Table
  BY DEF OpenBlock, At, top, Inv, Threaded
<1>3. \A j \in 1..Len(parse) : parse[j].at # "params"
  <2>1. BlockBelow(Len(parse)) /\ top = parse[Len(parse)] /\ Len(parse) \in Nat \ {0}
    BY <1>2, TopOK
  <2>2. \A j \in 1..Len(parse) : j < Len(parse) \/ j = Len(parse) BY <2>1
  <2> QED BY <1>2, <2>1, <2>2 DEF BlockBelow
<1>4. PICK f : f = Statement(top) OBVIOUS
<1>5. top.at \notin {"params", "func", "pop"} BY <1>2
<1>6. Plain(f) BY <1>2, <1>4, <1>5, PlainStatement
<1>7. PICK g : g = BlockFrame OBVIOUS
<1>8. Plain(g) BY <1>1, <1>2, <1>3, <1>7, PlainBlock
<1>9. parse' = Append(Append(ButLast(parse), f), g)
  BY <1>4, <1>7 DEF OpenBlock, EnterExpr
<1>10. top.at \notin {"params", "pop"} BY <1>2
<1> QED BY <1>1, <1>2, <1>6, <1>8, <1>9, <1>10, ListsGotoEnter

\* What is known of every open list: it leads to symbols that exist already, and
\* markers are older than new symbols.
LEMMA FrameOlder ==
  ASSUME Inv, NEW i \in 1..Len(parse)
  PROVE  /\ parse[i].s \in 0..Len(sym) /\ parse[i].tail \in 0..Len(sym)
         /\ Len(sym) \in Nat
<1>1. Len(sym) \in Nat BY LiveTyped DEF Inv, Threaded
<1>2. PICK f : f = parse[i] OBVIOUS
<1>3. f \in Activation BY <1>2, ElementOfSeq DEF Inv
<1>4. Bounded(f, Len(sym)) BY <1>2 DEF Inv, Fine
<1>5. f.s \in Nat /\ f.tail \in Nat BY <1>3 DEF Activation
<1>6. f.s \in 0..Len(sym) /\ f.tail \in 0..Len(sym) BY <1>1, <1>4, <1>5 DEF Bounded
<1> QED BY <1>1, <1>2, <1>6

LEMMA NextOlder ==
  ASSUME Inv, NEW y \in 1..Len(sym) PROVE sym[y].next \in 0..Len(sym)
<1>1. Table /\ sym \in Seq(Symbol) /\ Len(sym) \in Nat
  BY LiveTyped DEF Inv, Threaded, Table
<1>2. sym[y] \in Symbol BY <1>1, ElementOfSeq
<1>3. sym[y].next <= Len(sym) BY <1>1 DEF Table
<1> QED BY <1>1, <1>2, <1>3 DEF Symbol

\* One more parameter on the innermost list.
LEMMA ListGrows ==
  ASSUME Inv, Inv', ListsKept,
         NEW k, k = Len(parse), k > 1, NEW list, list = parse[k - 1],
         list.at = "params", parse[k].at = "decl",
         NEW v, v.kind = "param", NEW type, Hooks(v, type, list.tail), sym_push(v),
         list.tail \in {0} \cup Parameters(Innermost),
         NEW n, n = Len(sym) + 1,
         NEW f, f.at = "params", f.s = IF list.s = 0 THEN n ELSE list.s, f.tail = n,
         Len(parse') = k - 1, parse'[k - 1] = f, Agree(parse, parse', k - 2)
  PROVE  ListsKept'
<1>0. k \in Nat /\ Len(sym) \in Nat /\ Table /\ Live \subseteq 1..Len(sym) /\ n \in Nat
  BY LenProperties, LiveTyped DEF Inv, Threaded
<1>1. k - 1 \in 1..Len(parse) /\ k - 1 \in 1..Len(parse') BY <1>0
<1>2. list.s \in 0..Len(sym) /\ list.tail \in 0..Len(sym) BY <1>1, FrameOlder
<1>3. ListOpen(list) BY <1>1 DEF ListsKept
<1>4. /\ Len(sym') = n /\ sym'[n].v = v /\ sym'[n].next = 0
      /\ \A x \in 1..Len(sym) :
           /\ sym'[x].v = sym[x].v
           /\ sym'[x].next = IF x = list.tail THEN n ELSE sym[x].next
  BY DEF Hooks
<1>5. \A x \in 1..Len(sym') : x \in 1..Len(sym) \/ x = n BY <1>0, <1>4
<1>6. /\ Global \subseteq Global' /\ Local \subseteq Local' /\ SameInnermost
      /\ \A x \in Live' : x \in Live \/ x = n
      /\ n \in Innermost' /\ n \in Live'
  <2>1. Global \subseteq Global' /\ Local \subseteq Local' /\ SameInnermost
    BY <1>0, <1>4, OnePushed, PushPlace
  <2>2. \A x \in Live' : x \in Live \/ x = n BY <1>0, <1>4, OnePushed, PushPlace
  <2>3. n \in Innermost' /\ n \in Live' BY <1>0, <1>4, OnePushed, PushPlace
  <2> QED BY <2>1, <2>2, <2>3
<1>7. Params' = Params \cup {n} /\ n \notin Params /\ 0 \notin Params /\ 0 # n
  <2>1. n \in 1..Len(sym') BY <1>0, <1>4
  <2>2. \A x \in 1..Len(sym) : x \in 1..Len(sym') BY <1>0, <1>4
  <2>3. Params \cup {n} \subseteq Params' BY <1>4, <2>1, <2>2 DEF Params
  <2>4. Params' \subseteq Params \cup {n} BY <1>4, <1>5 DEF Params
  <2> QED BY <1>0, <2>3, <2>4 DEF Params
<1>8. \A y \in 1..Len(sym) : sym[y].next # n BY <1>0, NextOlder
<1>9. list.tail # 0 => /\ list.s # 0 /\ OpenList(list) /\ sym[list.tail].next = 0
                       /\ list.tail \in Params /\ list.tail \in 1..Len(sym)
  BY <1>2, <1>3 DEF ListOpen, OpenList
<1>10. \A i \in 1..Len(parse') :
         i = k - 1 \/ (i \in 1..(k - 2) /\ i \in 1..Len(parse) /\ parse'[i] = parse[i])
  BY <1>0 DEF Agree
<1>11. \A i \in 1..Len(parse) :
         i = k \/ i = k - 1 \/ (i \in 1..(k - 2) /\ i \in 1..Len(parse')
                                  /\ parse'[i] = parse[i])
  BY <1>0 DEF Agree
<1>12. OpenList(f) /\ f.s # 0 /\ f.tail # 0 BY <1>0 DEF OpenList
<1>13. ASSUME NEW j \in 1..Len(parse'), HoldsMarker(parse'[j])
       PROVE  j \in 1..Len(parse) /\ HoldsMarker(parse[j]) /\ parse'[j] = parse[j]
              /\ parse[j].s < n
  <2>1. j # k - 1 BY <1>13 DEF HoldsMarker
  <2>2. j \in 1..Len(parse) /\ parse'[j] = parse[j] BY <1>10, <2>1
  <2>3. parse[j].s \in 0..Len(sym) BY <2>2, FrameOlder
  <2> QED BY <1>0, <1>13, <2>2, <2>3
<1>14. OneBefore'
  <2> SUFFICES ASSUME NEW y \in 1..Len(sym'), sym'[y].next \in Params'
               PROVE  /\ sym'[y].v.kind \in {"anom", "param"}
                      /\ \A z \in 1..Len(sym') : sym'[z].next = sym'[y].next => y = z
    BY DEF OneBefore
  <2>1. y \in 1..Len(sym) BY <1>4, <1>5, <1>7
  <2>2. CASE y = list.tail
    <3>1. sym'[y].next = n /\ sym[y].v.kind = "param"
      BY <1>4, <1>9, <2>1, <2>2, <1>0 DEF Params
    <3>2. ASSUME NEW z \in 1..Len(sym'), sym'[z].next = n PROVE y = z
      <4>1. z \in 1..Len(sym) BY <1>4, <1>5, <1>7, <3>2
      <4> QED BY <1>4, <1>8, <2>2, <3>2, <4>1
    <3> QED BY <1>4, <2>1, <3>1, <3>2
  <2>3. CASE y # list.tail
    <3>1. sym'[y].next = sym[y].next /\ sym[y].next \in Params
      BY <1>4, <1>7, <1>8, <2>1, <2>3
    <3>2. sym[y].v.kind \in {"anom", "param"} BY <2>1, <3>1 DEF ListsKept, OneBefore
    <3>3. ASSUME NEW z \in 1..Len(sym'), sym'[z].next = sym[y].next PROVE y = z
      <4>1. z \in 1..Len(sym) BY <1>4, <1>5, <1>7, <3>1, <3>3
      <4>2. sym'[z].next = sym[z].next BY <1>4, <1>7, <3>1, <3>3, <4>1
      <4> QED BY <2>1, <3>1, <3>3, <4>1, <4>2 DEF ListsKept, OneBefore
    <3> QED BY <1>4, <2>1, <3>1, <3>2, <3>3
  <2> QED BY <2>2, <2>3
<1>15. ASSUME NEW g, OpenList(g), ListOpen(g),
              list.tail # 0 => g.tail # list.tail
       PROVE  ListOpen(g)'
  <2>1. g.at = "params" /\ g.s # 0 /\ g.tail # 0 /\ g.s \in Params /\ g.tail \in Params
        /\ sym[g.tail].next = 0 /\ \A y \in 1..Len(sym) : sym[y].next # g.s
    BY <1>15 DEF ListOpen, OpenList
  <2>2. g.s \in Params' /\ g.tail \in Params' BY <1>7, <2>1
  <2>3. \A y \in 1..Len(sym') : sym'[y].next # g.s BY <1>4, <1>5, <1>7, <2>1
  <2>4. sym'[g.tail].next = 0
    <3>1. g.tail \in 1..Len(sym) BY <2>1 DEF Params
    <3> QED BY <1>4, <1>15, <2>1, <3>1
  <2>5. ASSUME NEW j \in 1..Len(parse'), HoldsMarker(parse'[j]) PROVE parse'[j].s < g.s
    BY <1>13, <1>15, <2>5 DEF ListOpen
  <2> QED BY <2>1, <2>2, <2>3, <2>4, <2>5 DEF ListOpen, OpenList, HoldsMarker
<1>16. ListOpen(f)'
  <2>1. f.tail \in Params' /\ sym'[f.tail].next = 0 BY <1>4, <1>7
  <2>2. f.s \in Params' /\ (\A y \in 1..Len(sym') : sym'[y].next # f.s)
        /\ \A j \in 1..Len(parse') : HoldsMarker(parse'[j]) => parse'[j].s < f.s
    <3>1. CASE list.s = 0
      <4>1. f.s = n /\ list.tail = 0 BY <1>9, <3>1
      <4>2. \A y \in 1..Len(sym') : sym'[y].next # n
        <5>1. \A y \in 1..Len(sym) : y # list.tail BY <4>1
        <5> QED BY <1>4, <1>5, <1>7, <1>8, <5>1
      <4> QED BY <1>7, <1>13, <4>1, <4>2
    <3>2. CASE list.s # 0
      <4>1. f.s = list.s /\ OpenList(list) BY <3>2 DEF OpenList
      <4>2. list.s \in Params /\ \A y \in 1..Len(sym) : sym[y].next # list.s
        BY <1>3, <4>1 DEF ListOpen
      <4>3. \A y \in 1..Len(sym') : sym'[y].next # list.s
        BY <1>4, <1>5, <1>7, <4>2
      <4>4. ASSUME NEW j \in 1..Len(parse'), HoldsMarker(parse'[j])
            PROVE  parse'[j].s < list.s
        BY <1>3, <1>13, <4>1, <4>4 DEF ListOpen
      <4> QED BY <1>7, <4>1, <4>2, <4>3, <4>4
    <3> QED BY <3>1, <3>2
  <2> QED BY <1>12, <2>1, <2>2 DEF ListOpen, OpenList, HoldsMarker
<1>17. ASSUME NEW i \in 1..Len(parse') PROVE ListOpen(parse[i])'
  <2>1. CASE i = k - 1 BY <1>16, <2>1
  <2>2. CASE i # k - 1
    <3>1. PICK g : g = parse[i] OBVIOUS
    <3>2. i \in 1..Len(parse) /\ i \in 1..(k - 2) /\ parse'[i] = g BY <1>10, <2>2, <3>1
    <3>3. ListOpen(g) BY <3>1, <3>2 DEF ListsKept
    <3>4. CASE OpenList(g)
      <4>1. list.tail # 0 => g.tail # list.tail
        BY <1>1, <1>9, <2>2, <3>1, <3>2, <3>4 DEF ListsKept, ListsApart
      <4> QED BY <1>15, <3>2, <3>3, <3>4, <4>1
    <3>5. CASE ~ OpenList(g)
      BY <3>2, <3>3, <3>5 DEF ListOpen, OpenList
    <3> QED BY <3>4, <3>5
  <2> QED BY <2>1, <2>2
<1>18. ASSUME NEW i \in 1..(k - 2), i \in 1..Len(parse), OpenList(parse[i])
       PROVE  parse[i].s # f.s /\ parse[i].tail # f.tail
  <2>1. parse[i].s \in 0..Len(sym) /\ parse[i].tail \in 0..Len(sym) BY <1>18, FrameOlder
  <2>2. parse[i].s # n /\ parse[i].tail # n BY <1>0, <2>1
  <2>3. i # k - 1 BY <1>0
  <2>4. list.s # 0 => parse[i].s # list.s
    BY <1>1, <1>18, <2>3 DEF ListsKept, ListsApart, OpenList
  <2> QED BY <2>2, <2>4
<1>19. ListsApart'
  <2> SUFFICES ASSUME NEW i \in 1..Len(parse'), NEW j \in 1..Len(parse'),
                      OpenList(parse'[i]), OpenList(parse'[j]),
                      parse'[i].s = parse'[j].s \/ parse'[i].tail = parse'[j].tail
               PROVE  i = j
    BY DEF ListsApart, OpenList
  <2>1. CASE i = k - 1
    <3>1. CASE j = k - 1 BY <2>1, <3>1
    <3>2. CASE j # k - 1 BY <1>10, <1>18, <2>1, <3>2
    <3> QED BY <3>1, <3>2
  <2>2. CASE i # k - 1
    <3>1. CASE j = k - 1 BY <1>10, <1>18, <2>2, <3>1
    <3>2. CASE j # k - 1
      BY <1>10, <2>2, <3>2 DEF ListsKept, ListsApart
    <3> QED BY <3>1, <3>2
  <2> QED BY <2>1, <2>2
<1>20. Listed(n)'
  <2>1. CASE list.tail = 0
    <3>1. list.s = 0 BY <1>3, <2>1 DEF ListOpen
    <3>2. f.s = n BY <3>1
    <3>3. Starts(n)' BY <1>1, <1>12, <3>2 DEF Starts, OpenList
    <3> QED BY <3>3 DEF Listed
  <2>2. CASE list.tail # 0
    <3>1. PICK y : y = list.tail OBVIOUS
    <3>2. y \in Innermost /\ y \in 1..Len(sym) /\ y \in Live /\ sym'[y].next = n
      BY <1>4, <1>9, <2>2, <3>1 DEF Parameters, Innermost, Live
    <3>3. y \in Global' \/ (y \in Local' /\ n \in Local')
      BY <1>6, <3>2 DEF Innermost, SameInnermost
    <3>4. \A i \in 1..Len(parse') :
            HoldsMarker(parse'[i]) /\ n <= parse'[i].s => y <= parse'[i].s
      <4> SUFFICES ASSUME NEW i \in 1..Len(parse'), HoldsMarker(parse'[i]),
                          n <= parse'[i].s
                   PROVE  FALSE
        OBVIOUS
      <4>1. i \in 1..Len(parse) /\ parse'[i] = parse[i] BY <1>13
      <4>2. parse[i].s \in 0..Len(sym) BY <4>1, FrameOlder
      <4> QED BY <1>0, <4>1, <4>2
    <3>5. Precedes(y, n)' BY <3>2, <3>3, <3>4 DEF Precedes, HoldsMarker
    <3>6. y \in Live' BY <3>3 DEF Live
    <3> QED BY <3>5, <3>6 DEF Listed
  <2> QED BY <2>1, <2>2
<1>21. ASSUME NEW x \in Live', sym'[x].v.kind = "param" PROVE Listed(x)'
  <2>1. CASE x = n BY <1>20, <2>1
  <2>2. CASE x # n
    <3>1. x \in Live /\ x \in 1..Len(sym) /\ sym[x].v.kind = "param"
      BY <1>0, <1>4, <1>6, <1>21, <2>2
    <3>2. ~ Popping BY <1>0 DEF Popping, At, Last
    <3>3. Listed(x) BY <3>1, <3>2 DEF ListsKept, Parameters, Stays
    <3>4. CASE Starts(x)
      <4>1. PICK i \in 1..Len(parse) : OpenList(parse[i]) /\ parse[i].s = x
        BY <3>4 DEF Starts
      <4>2. i # k BY <4>1 DEF OpenList
      <4>3. CASE i = k - 1
        <5>1. f.s = x BY <4>1, <4>3 DEF OpenList
        <5> QED BY <1>1, <1>12, <5>1 DEF Listed, Starts, OpenList
      <4>4. CASE i # k - 1
        <5>1. i \in 1..Len(parse') /\ parse'[i] = parse[i] BY <1>11, <4>2, <4>4
        <5> QED BY <4>1, <5>1 DEF Listed, Starts, OpenList
      <4> QED BY <4>3, <4>4
    <3>5. ASSUME NEW y \in Live, Precedes(y, x) PROVE Listed(x)'
      <4>1. y \in 1..Len(sym) /\ sym[y].next = x BY <1>0, <3>5 DEF Precedes
      <4>2. y # list.tail BY <1>9, <3>1, <4>1
      <4>3. sym'[y].next = x BY <1>4, <4>1, <4>2
      <4>4. \A i \in 1..Len(parse') : HoldsMarker(parse'[i]) =>
              i \in 1..Len(parse) /\ HoldsMarker(parse[i]) /\ parse'[i] = parse[i]
        BY <1>13
      <4>5. y \in Live' BY <1>6, <3>5 DEF Live
      <4>6. Precedes(y, x)'
        BY <1>6, <3>5, <4>3, <4>4 DEF Precedes, HoldsMarker
      <4> QED BY <4>5, <4>6 DEF Listed
    <3> QED BY <3>3, <3>4, <3>5 DEF Listed
  <2> QED BY <2>1, <2>2
<1> QED BY <1>14, <1>17, <1>19, <1>21 DEF ListsKept, Parameters

LEMMA ParameterLists ==
  ASSUME Inv, Inv', TypesKept, ListsKept, Parameter PROVE ListsKept'
<1>1. parse # <<>> /\ top.at = "decl" /\ top.where = "param"
  BY DeclTop DEF Parameter
<1>2. /\ Len(parse) > 1 /\ parse[Len(parse) - 1].at = "params" /\ Len(sym) \in Nat
      /\ Table /\ top = parse[Len(parse)] /\ Len(parse) \in Nat
  BY <1>1, TopFine, LiveTyped DEF Inv, Threaded
<1>3. PICK t : t = top OBVIOUS
<1>4. PICK list : list = parse[Len(parse) - 1] OBVIOUS
<1>5. t \in Activation /\ Typed(t.type) BY <1>1, <1>3, TopGrows
<1>6. list \in Activation /\ Bounded(list, Len(sym)) /\ FrameAlive(list)
      /\ list.at = "params"
  BY <1>2, <1>4, BelowGrows
<1>7. PICK v : v = V("param", t.word) OBVIOUS
<1>8. PICK type : type = t.type OBVIOUS
<1>9. PICK q : q = list.tail OBVIOUS
<1>10. v \in Word /\ type \in Types /\ Resolved(type, Len(sym)) /\ v.kind = "param"
  BY <1>5, <1>7, <1>8, VTyped DEF Activation, Typed, V
<1>11. q \in {0} \cup Parameters(Innermost) /\ q \in 0..Len(sym)
  <2>1. q \in Nat /\ q <= Len(sym) BY <1>6, <1>9 DEF Activation, Bounded
  <2> QED BY <1>2, <1>6, <1>9, <2>1 DEF FrameAlive
<1>12. sym_push(v) BY <1>3, <1>7 DEF Parameter
<1>13. Hooks(v, type, q)
  <2>1. CASE q = 0
    <3>1. sym' = Append(sym, NewSymbol(v, type, 0, 0))
      BY <1>3, <1>4, <1>7, <1>8, <1>9, <2>1 DEF Parameter
    <3>2. PICK f : f = NewSymbol(v, type, 0, 0) OBVIOUS
    <3>3. Resolved(type, Len(sym) + 1) /\ 0 <= Len(sym) + 1 /\ 0 \in {-1, 0} /\ 0 \in Nat
      BY <1>2, <1>10 DEF Resolved, Types
    <3>4. Extended(sym', f) BY <1>2, <1>10, <3>1, <3>2, <3>3, NewLast
    <3>5. f.v = v /\ f.type = type /\ f.next = 0 BY <3>2 DEF NewSymbol
    <3>6. \A x \in 1..Len(sym) : x # q BY <2>1
    <3> QED BY <3>4, <3>5, <3>6 DEF Extended, Hooks
  <2>2. CASE q # 0
    <3>1. sym' = [Append(sym, NewSymbol(v, type, 0, 0)) EXCEPT ![q].next = Fresh]
      BY <1>3, <1>4, <1>7, <1>8, <1>9, <2>2 DEF Parameter
    <3>2. q \in 1..Len(sym) BY <1>2, <1>11, <2>2
    <3> QED BY <1>2, <1>10, <3>1, <3>2, Hooked
  <2> QED BY <2>1, <2>2
<1>14. PICK n : n = Fresh OBVIOUS
<1>15. n = Len(sym) + 1 /\ n \in Nat BY <1>2, <1>14 DEF Fresh
<1>16. PICK s : s = IF list.s = 0 THEN n ELSE list.s OBVIOUS
<1>17. PICK f : f = [list EXCEPT !.s = s, !.tail = n] OBVIOUS
<1>18. f \in Activation /\ f.at = "params" /\ f.s = s /\ f.tail = n
  <2>1. s \in Nat BY <1>6, <1>15, <1>16 DEF Activation
  <2> QED BY <1>6, <1>15, <1>17, <2>1 DEF Activation
<1>19. f.s = IF list.s = 0 THEN n ELSE list.s BY <1>16, <1>18
<1>20. parse' = Append(ButLast(ButLast(parse)), f)
  BY <1>3, <1>4, <1>14, <1>16, <1>17 DEF Parameter
<1>21. PICK k : k = Len(parse) OBVIOUS
<1>22. Len(parse') = k - 1 /\ parse'[k - 1] = f /\ Agree(parse, parse', k - 2)
  BY <1>2, <1>18, <1>20, <1>21, TwoReplaced DEF Inv
<1>23. k > 1 /\ list = parse[k - 1] /\ parse[k].at = "decl" BY <1>1, <1>2, <1>4, <1>21
<1>24. Hooks(v, type, list.tail) /\ list.tail \in {0} \cup Parameters(Innermost)
  BY <1>9, <1>11, <1>13
<1> QED BY <1>6, <1>10, <1>12, <1>15, <1>18, <1>19, <1>21, <1>22, <1>23, <1>24, ListGrows

\* A list ends: the symbol of the function type leads to its first parameter.
LEMMA ListCloses ==
  ASSUME Inv, Inv', ListsKept,
         NEW k, k = Len(parse), k > 1, NEW list, list = parse[k], OpenList(list),
         NEW n, n = Len(sym) + 1, NEW v, v.kind = "anom", sym_push(v),
         Len(sym') = n, sym'[n].v = v, sym'[n].next = list.s,
         \A x \in 1..Len(sym) : sym'[x].v = sym[x].v /\ sym'[x].next = sym[x].next,
         list.s \in Parameters(Innermost),
         parse[k - 1].at = "decl", NEW f, f.at = "decl",
         Len(parse') = k - 1, parse'[k - 1] = f, Agree(parse, parse', k - 2)
  PROVE  ListsKept'
<1>0. k \in Nat /\ Len(sym) \in Nat /\ Table /\ Live \subseteq 1..Len(sym) /\ n \in Nat
  BY LenProperties, LiveTyped DEF Inv, Threaded
<1>1. k \in 1..Len(parse) /\ k - 1 \in 1..Len(parse) BY <1>0
<1>2. ListOpen(list) BY <1>1 DEF ListsKept
<1>3. /\ list.s \in Params /\ \A y \in 1..Len(sym) : sym[y].next # list.s
      /\ \A j \in 1..Len(parse) : HoldsMarker(parse[j]) => parse[j].s < list.s
  BY <1>2 DEF ListOpen
<1>4. \A x \in 1..Len(sym') : x \in 1..Len(sym) \/ x = n BY <1>0
<1>5. /\ Global \subseteq Global' /\ Local \subseteq Local' /\ SameInnermost
      /\ \A x \in Live' : x \in Live \/ x = n
      /\ n \in Innermost' /\ n \in Live'
  BY <1>0, OnePushed, PushPlace
<1>6. Params' = Params
  <2>1. \A x \in 1..Len(sym) : x \in 1..Len(sym') BY <1>0
  <2> QED BY <1>4, <2>1 DEF Params
<1>7. \A i \in 1..Len(parse') :
         i = k - 1 \/ (i \in 1..(k - 2) /\ i # k /\ i \in 1..Len(parse)
                         /\ parse'[i] = parse[i])
  BY <1>0 DEF Agree
<1>8. \A i \in 1..Len(parse) :
         i = k \/ i = k - 1 \/ (i \in 1..Len(parse') /\ parse'[i] = parse[i])
  BY <1>0 DEF Agree
<1>9. ASSUME NEW j \in 1..Len(parse'), HoldsMarker(parse'[j])
      PROVE  j \in 1..Len(parse) /\ HoldsMarker(parse[j]) /\ parse'[j] = parse[j]
  BY <1>7, <1>9 DEF HoldsMarker
<1>10. OneBefore'
  <2> SUFFICES ASSUME NEW y \in 1..Len(sym'), sym'[y].next \in Params
               PROVE  /\ sym'[y].v.kind \in {"anom", "param"}
                      /\ \A z \in 1..Len(sym') : sym'[z].next = sym'[y].next => y = z
    BY <1>6 DEF OneBefore
  <2>1. CASE y = n
    <3>1. \A z \in 1..Len(sym) : sym'[z].next # list.s BY <1>3
    <3> QED BY <1>4, <2>1, <3>1
  <2>2. CASE y # n
    <3>1. y \in 1..Len(sym) /\ sym[y].next \in Params /\ sym'[y].next = sym[y].next
          /\ sym[y].next # list.s
      BY <1>3, <1>4, <2>2
    <3>2. sym[y].v.kind \in {"anom", "param"} BY <3>1 DEF ListsKept, OneBefore
    <3>3. ASSUME NEW z \in 1..Len(sym'), sym'[z].next = sym[y].next PROVE y = z
      <4>1. z \in 1..Len(sym) /\ sym'[z].next = sym[z].next BY <1>4, <3>1, <3>3
      <4> QED BY <3>1, <3>3, <4>1 DEF ListsKept, OneBefore
    <3> QED BY <3>1, <3>2, <3>3
  <2> QED BY <2>1, <2>2
<1>11. ASSUME NEW i \in 1..Len(parse') PROVE ListOpen(parse[i])'
  <2>1. CASE i = k - 1 BY <2>1 DEF ListOpen, OpenList
  <2>2. CASE i # k - 1
    <3>1. PICK g : g = parse[i] OBVIOUS
    <3>2. i \in 1..Len(parse) /\ i # k /\ parse'[i] = g BY <1>7, <2>2, <3>1
    <3>3. ListOpen(g) BY <3>1, <3>2 DEF ListsKept
    <3>4. CASE OpenList(g)
      <4>1. g.at = "params" /\ g.s # 0 /\ g.tail # 0 /\ g.s \in Params
            /\ g.tail \in Params /\ sym[g.tail].next = 0
            /\ \A y \in 1..Len(sym) : sym[y].next # g.s
        BY <3>3, <3>4 DEF ListOpen, OpenList
      <4>2. g.s # list.s
        BY <1>1, <3>1, <3>2, <3>4 DEF ListsKept, ListsApart
      <4>3. \A y \in 1..Len(sym') : sym'[y].next # g.s BY <1>4, <4>1, <4>2
      <4>4. sym'[g.tail].next = 0
        <5>1. g.tail \in 1..Len(sym) BY <4>1 DEF Params
        <5> QED BY <4>1, <5>1
      <4>5. ASSUME NEW j \in 1..Len(parse'), HoldsMarker(parse'[j]) PROVE parse'[j].s < g.s
        BY <1>9, <3>3, <3>4, <4>5 DEF ListOpen
      <4>6. ListOpen(g)' BY <1>6, <4>1, <4>3, <4>4, <4>5 DEF ListOpen, OpenList, HoldsMarker
      <4> QED BY <3>2, <4>6
    <3>5. CASE ~ OpenList(g)
      BY <3>2, <3>3, <3>5 DEF ListOpen, OpenList
    <3> QED BY <3>4, <3>5
  <2> QED BY <2>1, <2>2
<1>12. ListsApart'
  <2> SUFFICES ASSUME NEW i \in 1..Len(parse'), NEW j \in 1..Len(parse'),
                      OpenList(parse'[i]), OpenList(parse'[j]),
                      parse'[i].s = parse'[j].s \/ parse'[i].tail = parse'[j].tail
               PROVE  i = j
    BY DEF ListsApart, OpenList
  <2>1. i # k - 1 /\ j # k - 1 BY DEF OpenList
  <2>2. i \in 1..Len(parse) /\ parse'[i] = parse[i] BY <1>7, <2>1
  <2>3. j \in 1..Len(parse) /\ parse'[j] = parse[j] BY <1>7, <2>1
  <2> QED BY <2>2, <2>3 DEF ListsKept, ListsApart
<1>13. Listed(list.s)'
  <2>1. PICK x : x = list.s OBVIOUS
  <2>2. x \in Innermost BY <2>1 DEF Parameters
  <2>3. n \in Global' \/ (n \in Local' /\ x \in Local')
    BY <1>5, <2>2 DEF Innermost, SameInnermost
  <2>4. \A i \in 1..Len(parse') :
          HoldsMarker(parse'[i]) /\ x <= parse'[i].s => n <= parse'[i].s
    <3> SUFFICES ASSUME NEW i \in 1..Len(parse'), HoldsMarker(parse'[i]),
                        x <= parse'[i].s
                 PROVE  FALSE
      OBVIOUS
    <3>1. i \in 1..Len(parse) /\ parse'[i] = parse[i] /\ HoldsMarker(parse[i]) BY <1>9
    <3>2. parse[i].s \in 0..Len(sym) /\ parse[k].s \in 0..Len(sym)
      BY <1>1, <3>1, FrameOlder
    <3>3. parse[i].s < x BY <1>3, <2>1, <3>1
    <3> QED BY <1>0, <2>1, <3>1, <3>2, <3>3
  <2>5. sym'[n].next = x BY <2>1
  <2>6. Precedes(n, x)' BY <2>3, <2>4, <2>5 DEF Precedes, HoldsMarker
  <2> QED BY <1>5, <2>1, <2>6 DEF Listed
<1>14. ASSUME NEW x \in Live', sym'[x].v.kind = "param" PROVE Listed(x)'
  <2>1. x \in Live /\ x \in 1..Len(sym) /\ sym[x].v.kind = "param"
    BY <1>0, <1>5, <1>14
  <2>2. ~ Popping BY <1>0 DEF Popping, At, Last, OpenList
  <2>3. Listed(x) BY <2>1, <2>2 DEF ListsKept, Parameters, Stays
  <2>4. CASE Starts(x)
    <3>1. PICK i \in 1..Len(parse) : OpenList(parse[i]) /\ parse[i].s = x
      BY <2>4 DEF Starts
    <3>2. i # k - 1 BY <3>1 DEF OpenList
    <3>3. CASE i = k
      <4>1. x = list.s BY <3>1, <3>3
      <4> QED BY <1>13, <4>1
    <3>4. CASE i # k
      <4>1. i \in 1..Len(parse') /\ parse'[i] = parse[i] BY <1>8, <3>2, <3>4
      <4> QED BY <3>1, <4>1 DEF Listed, Starts, OpenList
    <3> QED BY <3>3, <3>4
  <2>5. ASSUME NEW y \in Live, Precedes(y, x) PROVE Listed(x)'
    <3>1. y \in 1..Len(sym) /\ sym[y].next = x BY <1>0, <2>5 DEF Precedes
    <3>2. sym'[y].next = x BY <3>1
    <3>3. \A i \in 1..Len(parse') : HoldsMarker(parse'[i]) =>
            i \in 1..Len(parse) /\ HoldsMarker(parse[i]) /\ parse'[i] = parse[i]
      BY <1>9
    <3>4. y \in Live' BY <1>5, <2>5 DEF Live
    <3>5. Precedes(y, x)'
      BY <1>5, <2>5, <3>2, <3>3 DEF Precedes, HoldsMarker
    <3> QED BY <3>4, <3>5 DEF Listed
  <2> QED BY <2>3, <2>4, <2>5 DEF Listed
<1> QED BY <1>10, <1>11, <1>12, <1>14 DEF ListsKept, Parameters

LEMMA CloseParamsLists ==
  ASSUME Inv, Inv', TypesKept, ListsKept, CloseParams PROVE ListsKept'
<1>1. parse # <<>> /\ top.at = "params" BY DEF CloseParams, At, top
<1>2. /\ Len(parse) > 1 /\ parse[Len(parse) - 1].at = "decl" /\ Len(sym) \in Nat
      /\ Table /\ top = parse[Len(parse)] /\ Len(parse) \in Nat
  BY <1>1, TopFine, LiveTyped DEF Inv, Threaded
<1>3. PICK t : t = top OBVIOUS
<1>4. PICK decl : decl = parse[Len(parse) - 1] OBVIOUS
<1>5. t \in Activation /\ Bounded(t, Len(sym)) /\ FrameAlive(t) /\ t.at = "params"
  BY <1>1, <1>3, TopGrows
<1>6. decl \in Activation /\ Typed(decl.type) /\ decl.at = "decl"
  BY <1>2, <1>4, BelowGrows
<1>7. PICK type : type = decl.type OBVIOUS
<1>8. PICK s : s = t.s OBVIOUS
<1>9. s \in Nat /\ s <= Len(sym) /\ s \in {0} \cup Parameters(Innermost)
  BY <1>5, <1>8 DEF Activation, Bounded, FrameAlive
<1>10. PICK v : v = Anonymous OBVIOUS
<1>11. v \in Word /\ v.kind = "anom" /\ type \in Types /\ Resolved(type, Len(sym))
       /\ 0 \in {-1, 0}
  BY <1>6, <1>7, <1>10, AnonymousTyped DEF Anonymous, V, Typed
<1>12. sym_push(v) /\ sym' = Append(sym, NewSymbol(v, type, 0, s))
  BY <1>3, <1>4, <1>7, <1>8, <1>10 DEF CloseParams, FirstParameter
<1>13. PICK n : n = Len(sym) + 1 OBVIOUS
<1>14. PICK new : new = Type("func", n) OBVIOUS
<1>15. PICK f : f = [decl EXCEPT !.stage = "complete", !.type = new] OBVIOUS
<1>16. new \in Types BY <1>2, <1>13, <1>14 DEF Type, Types
<1>17. f \in Activation /\ f.at = "decl" BY <1>6, <1>15, <1>16 DEF Activation
<1>18. parse' = Append(ButLast(ButLast(parse)), f)
  BY <1>4, <1>13, <1>14, <1>15 DEF CloseParams, Fresh
<1>19. PICK k : k = Len(parse) OBVIOUS
<1>20. Len(parse') = k - 1 /\ parse'[k - 1] = f /\ Agree(parse, parse', k - 2)
  BY <1>2, <1>17, <1>18, <1>19, TwoReplaced DEF Inv
<1>21. /\ k > 1 /\ k \in Nat /\ t = parse[k] /\ parse[k - 1].at = "decl"
  BY <1>2, <1>3, <1>19
<1>22. CASE s = 0
  <2>1. PushLocal \/ PushGlobal BY <1>12, SymPushPlace
  <2>2. sym' = Append(sym, NewSymbol(v, type, 0, 0)) /\ v.kind # "param"
    BY <1>11, <1>12, <1>22
  <2>3. NextsKept BY <1>11, <2>1, <2>2, OtherPushed
  <2>4. PICK m : m = k - 2 OBVIOUS
  <2>5. PlainAbove(m)
    <3>1. /\ \A i \in 1..Len(parse) : i > m => i = k \/ i = k - 1
          /\ \A i \in 1..Len(parse') : i > m => i = k - 1
      BY <1>19, <1>20, <1>21, <2>4
    <3>2. ~ OpenList(parse[k]) /\ ~ OpenList(parse[k - 1])
      BY <1>8, <1>21, <1>22 DEF OpenList
    <3>3. Plain(parse'[k - 1]) BY <1>17, <1>20, PlainFrame
    <3> QED BY <3>1, <3>2, <3>3 DEF PlainAbove
  <2>6. ~ Popping BY <1>1 DEF Popping, At, top
  <2>7. m \in Nat /\ Agree(parse, parse', m) BY <1>20, <1>21, <2>4
  <2> QED BY <2>3, <2>5, <2>6, <2>7, ListsStep
<1>23. CASE s # 0
  <2>1. OpenList(t) BY <1>5, <1>8, <1>23 DEF OpenList
  <2>2. t.s \in Parameters(Innermost) BY <1>8, <1>9, <1>23
  <2>3. PICK g : g = NewSymbol(v, type, 0, s) OBVIOUS
  <2>4. Resolved(type, Len(sym) + 1) /\ s <= Len(sym) + 1
    BY <1>2, <1>9, <1>11 DEF Resolved, Types
  <2>5. Extended(sym', g) BY <1>2, <1>9, <1>11, <1>12, <2>3, <2>4, NewLast
  <2>6. g.v = v /\ g.next = t.s BY <1>8, <2>3 DEF NewSymbol
  <2>7. /\ Len(sym') = n /\ sym'[n].v = v /\ sym'[n].next = t.s
        /\ \A x \in 1..Len(sym) : sym'[x].v = sym[x].v /\ sym'[x].next = sym[x].next
    BY <1>13, <2>5, <2>6 DEF Extended
  <2> QED
    BY <1>11, <1>12, <1>13, <1>17, <1>19, <1>20, <1>21, <2>1, <2>2, <2>7, ListCloses
<1> QED BY <1>22, <1>23

\* While sym_pop runs, no list is open; it frees no symbol that leads to a
\* parameter that stays.
LEMMA SymPopLists ==
  ASSUME Inv, Inv', TypesKept, ListsKept, ~ NestedFunctions, sym_pop PROVE ListsKept'
<1>1. parse # <<>> /\ top.at = "pop" /\ local_sym_stack # <<>> /\ Threaded /\ Table
      /\ Len(sym) \in Nat /\ Live \subseteq 1..Len(sym) /\ Global \cap Local = {}
      /\ sym' = sym
  BY LiveTyped DEF sym_pop, At, top, Inv, Threaded, Table, NoSymbol
<1>2. PICK n : n = Last(local_sym_stack) OBVIOUS
<1>3. PICK k : k = Len(parse) OBVIOUS
<1>4. k \in Nat \ {0} /\ top = parse[k] /\ parse \in Seq(Activation) /\ k \in 1..Len(parse)
  BY <1>1, <1>3, TopFine DEF Inv
<1>5. n \in Local /\ n \in Nat /\ \A x \in Local : x <= n
  <2>1. Stack(local_sym_stack, Len(sym)) BY <1>1 DEF Table
  <2> QED BY <1>1, <1>2, <2>1, StackTop DEF Local
<1>6. \A i \in 1..Len(parse) : parse[i].at # "params"
  BY <1>1, PoppingFrames
<1>7. Popping BY <1>1 DEF Popping, At, top
<1>8. OneBefore' BY <1>1 DEF ListsKept, OneBefore, Params
<1>9. /\ Len(parse') \in Nat /\ Len(parse') <= k
      /\ \A i \in 1..Len(parse') : parse'[i] = parse[i]
  <2>1. CASE UNCHANGED parse BY <1>3, <1>4, <2>1
  <2>2. CASE Leave
    <3>1. PICK b : b = ButLast(parse) OBVIOUS
    <3>2. /\ Len(b) = k - 1 /\ \A i \in 1..(k - 1) : b[i] = parse[i]
      BY <1>1, <1>3, <1>4, <3>1, Shorter
    <3>3. parse' = b BY <2>2, <3>1 DEF Leave
    <3>4. k - 1 \in Nat /\ k - 1 <= k BY <1>4
    <3> QED BY <3>2, <3>3, <3>4
  <2> QED BY <2>1, <2>2 DEF sym_pop
<1>10. \A i \in 1..Len(parse') : i \in 1..Len(parse) /\ parse'[i] = parse[i]
  BY <1>3, <1>4, <1>9
<1>11. \A i \in 1..Len(parse') : ListOpen(parse[i])'
  BY <1>6, <1>10 DEF ListOpen, OpenList
<1>12. ListsApart' BY <1>6, <1>10 DEF ListsApart, OpenList
<1>13. ASSUME NEW x \in Live, sym[x].v.kind = "param", Stays(x)
       PROVE  \E y \in Live : Precedes(y, x)
  <2>1. Listed(x) BY <1>13 DEF ListsKept, Parameters
  <2>2. ~ Starts(x) BY <1>6 DEF Starts, OpenList
  <2> QED BY <2>1, <2>2 DEF Listed
<1>14. Global' = Global BY DEF sym_pop, NoSymbol, Global, Members
<1>15. ASSUME NEW y \in Live, NEW x, Precedes(y, x), x \in Local => x \in Local'
       PROVE  Precedes(y, x)'
  BY <1>1, <1>10, <1>14, <1>15 DEF Precedes, HoldsMarker
<1>16. CASE n = top.s /\ Leave /\ NoSymbol
  <2>1. Live' = Live /\ Local' = Local BY <1>16 DEF NoSymbol, Live, Global, Local, Members
  <2>2. ASSUME NEW x \in Live', sym'[x].v.kind = "param" PROVE Listed(x)'
    <3>1. x \in Live /\ sym[x].v.kind = "param" BY <1>1, <2>1, <2>2
    <3>2. Stays(x) BY <1>5, <1>16, <3>1 DEF Stays, Live
    <3>3. PICK y \in Live : Precedes(y, x) BY <1>13, <3>1, <3>2
    <3>4. Precedes(y, x)' BY <1>15, <2>1, <3>3
    <3> QED BY <2>1, <3>4 DEF Listed
  <2> QED BY <1>8, <1>11, <1>12, <2>2 DEF ListsKept, Parameters
<1>17. CASE /\ n # top.s
            /\ head' = IF OnChain(sym[n].v)
                       THEN [head EXCEPT ![NameOf(sym[n].v)] = Unhooked(n)]
                       ELSE head
            /\ local_sym_stack' = ButLast(local_sym_stack)
            /\ IF Len(local_sym_stack) = 1 THEN Leave ELSE UNCHANGED parse
            /\ UNCHANGED <<sym, global_sym_stack>>
  <2>1. Pops BY <1>1, <1>2, <1>17 DEF Pops, Unhooked
  <2>2. Local' = Local \ {n} BY <1>1, <1>2, <2>1, PopTable
  <2>3. Live' = Global \cup (Local \ {n}) BY <1>14, <2>2 DEF Live
  <2>4. ASSUME NEW x \in Live', sym'[x].v.kind = "param", Stays(x)' PROVE Listed(x)'
    <3>1. x \in Live /\ sym[x].v.kind = "param" BY <1>1, <2>3, <2>4 DEF Live
    <3>2. x \in Global \/ (x \in Local /\ x <= top.s)
      <4>1. CASE Len(local_sym_stack) = 1
        <5>1. local_sym_stack' = <<>>
          BY <1>1, <1>17, <4>1 DEF ButLast, Table, Stack
        <5>2. Local' = {} BY <5>1, EmptySeq DEF Local, Members
        <5> QED BY <1>14, <2>4, <5>2 DEF Live
      <4>2. CASE UNCHANGED parse
        <5>1. Popping' /\ top' = top BY <1>7, <4>2 DEF Popping, At, top
        <5>2. x \in Global' \/ x <= top'.s BY <2>4, <5>1 DEF Stays
        <5> QED BY <1>14, <3>1, <5>1, <5>2 DEF Live
      <4> QED BY <1>17, <4>1, <4>2
    <3>3. Stays(x) BY <3>2 DEF Stays
    <3>4. PICK y \in Live : Precedes(y, x) BY <1>13, <3>1, <3>3
    <3>5. y \in Live'
      <4>1. CASE y \in Global BY <2>3, <4>1
      <4>2. CASE y \notin Global
        <5>1. y \in Local /\ x \in Local /\ x \notin Global /\ x <= top.s
          BY <1>1, <3>2, <3>4, <4>2 DEF Live, Precedes
        <5>2. top.s # 0
          <6>1. x \in Nat /\ x # 0 BY <1>1, <3>1
          <6> QED BY <5>1, <6>1
        <5>3. HoldsMarker(parse[k]) BY <1>1, <1>4, <5>2 DEF HoldsMarker
        <5>4. y <= top.s BY <1>4, <3>4, <4>2, <5>1, <5>3 DEF Precedes
        <5>5. top.s \in Local BY <1>4, <5>3 DEF Inv, MarkersKept
        <5>6. top.s <= n /\ top.s # n /\ y \in Nat /\ top.s \in Nat
          BY <1>1, <1>5, <1>17, <5>5 DEF Live
        <5>7. y # n BY <1>5, <5>4, <5>6
        <5> QED BY <2>3, <5>1, <5>7
      <4> QED BY <4>1, <4>2
    <3>6. x \in Local => x \in Local'
      BY <1>1, <2>2, <2>3, <2>4
    <3>7. Precedes(y, x)' BY <1>15, <3>4, <3>6
    <3> QED BY <3>5, <3>7 DEF Listed
  <2> QED BY <1>8, <1>11, <1>12, <2>4 DEF ListsKept, Parameters
<1> QED BY <1>2, <1>16, <1>17 DEF sym_pop

LEMMA UnchangedLists ==
  ASSUME ListsKept, UNCHANGED vars PROVE ListsKept'
<1>1. sym' = sym /\ parse' = parse /\ Global' = Global /\ Local' = Local /\ Live' = Live
  BY DEF vars, Global, Local, Live, Members
<1>2. OneBefore' BY <1>1 DEF ListsKept, OneBefore, Params
<1>3. \A i \in 1..Len(parse') : ListOpen(parse[i])'
  BY <1>1 DEF ListsKept, ListOpen, OpenList, Params, HoldsMarker
<1>4. ListsApart' BY <1>1 DEF ListsKept, ListsApart, OpenList
<1>5. ASSUME NEW x \in Live', sym'[x].v.kind = "param", Stays(x)' PROVE Listed(x)'
  <2>1. Stays(x) BY <1>1, <1>5 DEF Stays, Popping, At, top
  <2>2. Listed(x) BY <1>1, <1>5, <2>1 DEF ListsKept, Parameters
  <2> QED BY <1>1, <2>2 DEF Listed, Starts, Precedes, OpenList, HoldsMarker
<1> QED BY <1>2, <1>3, <1>4, <1>5 DEF ListsKept, Parameters

LEMMA InitLists == Init => ListsKept
<1> SUFFICES ASSUME Init PROVE ListsKept
  OBVIOUS
<1>1. PICK a : a = NewSymbolAt(Anonymous) OBVIOUS
<1>2. PICK r : r = NewSymbolAt(V("ident", Rdata)) OBVIOUS
<1>3. sym = <<a, a, r>> /\ parse = <<>> /\ global_sym_stack = <<1, 2, 3>>
      /\ local_sym_stack = <<>>
  BY <1>1, <1>2 DEF Init
<1>4. Len(sym) = 3 /\ sym[1] = a /\ sym[2] = a /\ sym[3] = r /\ Len(parse) = 0
  BY <1>3
<1>5. a.v.kind = "anom" /\ r.v.kind = "ident" BY <1>1, <1>2 DEF NewSymbolAt, Anonymous, V
<1>6. \A x \in 1..3 : sym[x].v.kind # "param" BY <1>4, <1>5
<1>7. Params = {} BY <1>4, <1>6 DEF Params
<1>8. Global = {1, 2, 3} /\ Local = {} /\ Live = {1, 2, 3}
  BY <1>3 DEF Global, Local, Live, Members
<1>9. Parameters(Live) = {} BY <1>6, <1>8 DEF Parameters
<1> QED BY <1>4, <1>7, <1>9 DEF ListsKept, OneBefore, ListsApart

LEMMA NextLists ==
  ASSUME ~ NestedFunctions PROVE Inv /\ TypesKept /\ ListsKept /\ [Next]_vars => ListsKept'
<1> SUFFICES ASSUME Inv, TypesKept, ListsKept, [Next]_vars PROVE ListsKept'
  OBVIOUS
<1>0. Inv' BY NextKeeps
<1>1. CASE BasicType BY <1>0, <1>1, BasicTypeLists
<1>2. CASE \E w \in Words : StructName(w) \/ Identifier(w) \/ Undeclared(w)
  BY <1>0, <1>2, StructNameLists, IdentifierLists, UndeclaredLists
<1>3. CASE OpenStruct BY <1>0, <1>3, OpenStructLists
<1>4. CASE Member BY <1>0, <1>4, MemberLists
<1>5. CASE CloseStruct BY <1>0, <1>5, CloseStructLists
<1>6. CASE Pointer BY <1>0, <1>6, PointerLists
<1>7. CASE Array BY <1>0, <1>7, ArrayLists
<1>8. CASE OpenParams BY <1>0, <1>8, OpenParamsLists
<1>9. CASE Parameter BY <1>0, <1>9, ParameterLists
<1>10. CASE CloseParams BY <1>0, <1>10, CloseParamsLists
<1>11. CASE DeclareName BY <1>0, <1>11, DeclareNameLists
<1>12. CASE Comma BY <1>0, <1>12, CommaLists
<1>13. CASE EndDeclaration BY <1>0, <1>13, EndDeclarationLists
<1>14. CASE DefineFunction BY <1>0, <1>14, DefineFunctionLists
<1>15. CASE EnterBody BY <1>0, <1>15, EnterBodyLists
<1>16. CASE Prolog BY <1>0, <1>16, PrologLists
<1>17. CASE FuncBlock BY <1>0, <1>17, FuncBlockLists
<1>18. CASE EndFunction BY <1>0, <1>18, EndFunctionLists
<1>19. CASE OpenBlock BY <1>0, <1>19, OpenBlockLists
<1>20. CASE CloseBlock BY <1>0, <1>20, CloseBlockLists
<1>21. CASE sym_pop BY <1>0, <1>21, SymPopLists
<1>22. CASE PointerInExpression BY <1>0, <1>22, PointerInExpressionLists
<1>23. CASE UNCHANGED vars BY <1>23, UnchangedLists
<1> QED
  BY <1>1, <1>2, <1>3, <1>4, <1>5, <1>6, <1>7, <1>8, <1>9, <1>10, <1>11, <1>12,
     <1>13, <1>14, <1>15, <1>16, <1>17, <1>18, <1>19, <1>20, <1>21, <1>22, <1>23
  DEF Next

LEMMA KeptListed == Inv /\ ListsKept => ParamsListed
<1> SUFFICES ASSUME Inv, ListsKept, ~ Popping,
                    \A i \in 1..Len(parse) : parse[i].at # "params",
                    NEW x \in Live, sym[x].v.kind = "param"
             PROVE  /\ \E y \in Live : sym[y].next = x
                    /\ \A y, z \in Live : sym[y].next = x /\ sym[z].next = x => y = z
  BY DEF ParamsListed
<1>1. Live \subseteq 1..Len(sym) BY LiveTyped DEF Inv, Threaded
<1>2. Listed(x) BY DEF ListsKept, Parameters, Stays
<1>3. ~ Starts(x) BY DEF Starts, OpenList
<1>4. PICK y \in Live : Precedes(y, x) BY <1>2, <1>3 DEF Listed
<1>5. x \in Params BY <1>1 DEF Params
<1>6. ASSUME NEW p \in Live, NEW q \in Live, sym[p].next = x, sym[q].next = x PROVE p = q
  BY <1>1, <1>5, <1>6 DEF ListsKept, OneBefore
<1> QED BY <1>4, <1>6 DEF Precedes

\* What keeps the lists holds of every parse of a file without a function in a
\* function: next leads to a parameter from one place, an open list starts with
\* a parameter nothing leads to, and no block ends between a parameter and what
\* leads to it.
THEOREM ScopeListsInductive ==
  ASSUME ~ NestedFunctions
  PROVE  Spec => []ListsInv
<1>1. Init => Inv /\ TypesKept /\ ListsKept BY InitInv, InitTypes, InitLists
<1>2. Inv /\ TypesKept /\ ListsKept /\ [Next]_vars => Inv' /\ TypesKept' /\ ListsKept'
  BY NextKeeps, NextTypes, NextLists
<1>3. ListsKept => ListsInv BY ListsInvParts
<1> QED BY <1>1, <1>2, <1>3, PTL DEF Spec

\* When no function is defined in a function, gen_prolog finds every parameter of
\* the function on its list, and each once: outside of a parameter list and of
\* sym_pop, exactly one symbol leads to a parameter.
THEOREM ParametersListed ==
  ASSUME ~ NestedFunctions
  PROVE  Spec => []ParamsListed
<1>1. Init => Inv /\ TypesKept /\ ListsKept BY InitInv, InitTypes, InitLists
<1>2. Inv /\ TypesKept /\ ListsKept /\ [Next]_vars => Inv' /\ TypesKept' /\ ListsKept'
  BY NextKeeps, NextTypes, NextLists
<1>3. Inv /\ ListsKept => ParamsListed BY KeptListed
<1> QED BY <1>1, <1>2, <1>3, PTL DEF Spec

-----------------------------------------------------------------------------
(* The refinement of ScopeRules.                                           *)

\* The frames are where scopes are.
ScopedAt(i) == InScope(parse[i])
Scoped      == \A i \in 1..Len(parse) : ScopedAt(i)

LEMMA ScopesInvParts == ASSUME ~ NestedFunctions PROVE ScopesInv <=> Scoped
BY DEF ScopesInv, Scoped, ScopedAt

-----------------------------------------------------------------------------
(* The newest of a set of symbols.                                         *)

LEMMA NewestExists ==
  ASSUME NEW n \in Nat, NEW S, S \subseteq 1..n
  PROVE  \E x \in S \cup {0} : Newest(x, S)
<1>1. CASE S = {} BY <1>1 DEF Newest
<1>2. CASE S # {}
  <2>1. PICK N : N = 1..n OBVIOUS
  <2>2. IsFiniteSet(N) BY <2>1, FS_Interval
  <2>3. PICK R : R = StrictSubsetOrdering(N) OBVIOUS
  <2>4. IsWellFoundedOn(R, SUBSET N)
    BY <2>2, <2>3, FS_FiniteSubsetsOfFinite, FS_StrictSubsetOrderingWellFounded
  <2>5. PICK T : T = {{y \in S : y > x} : x \in S} OBVIOUS
  <2>6. T \subseteq SUBSET N /\ T # {} BY <1>2, <2>1, <2>5
  <2>7. PICK t \in T : \A u \in T : ~ (<<u, t>> \in R) BY <2>4, <2>6, WFMin
  <2>8. PICK x \in S : t = {y \in S : y > x} BY <2>5
  <2>9. ASSUME NEW y \in S, y > x PROVE FALSE
    <3>1. PICK u : u = {z \in S : z > y} OBVIOUS
    <3>2. u \in T BY <2>5, <3>1
    <3>3. u \in SUBSET N /\ t \in SUBSET N BY <2>6, <3>2
    <3>4. u \subseteq t
      <4>1. \A z \in S : z \in Int BY <2>1
      <4>2. \A z \in S : z > y => z > x BY <2>9, <4>1
      <4> QED BY <2>8, <3>1, <4>2
    <3>5. y \in t /\ y \notin u BY <2>8, <2>9, <3>1
    <3>6. <<u, t>> \in R BY <2>3, <3>3, <3>4, <3>5 DEF StrictSubsetOrdering
    <3> QED BY <2>7, <3>2, <3>6
  <2>10. \A y \in S : y \in Nat /\ x \in Nat OBVIOUS
  <2>11. \A y \in S : y <= x BY <2>9, <2>10
  <2> QED BY <2>11 DEF Newest
<1> QED BY <1>1, <1>2

LEMMA NewestOne ==
  ASSUME NEW n \in Nat, NEW S, S \subseteq 1..n, NEW x, NEW y, Newest(x, S), Newest(y, S)
  PROVE  x = y
<1>1. x \in S \cup {0} /\ y \in S \cup {0} /\ x \in Nat /\ y \in Nat BY DEF Newest
<1>2. x \in S => x <= y BY DEF Newest
<1>3. y \in S => y <= x BY DEF Newest
<1>4. x = 0 => y = 0
  <2> SUFFICES ASSUME x = 0, y # 0 PROVE FALSE OBVIOUS
  <2> QED BY <1>1, <1>3
<1>5. y = 0 => x = 0
  <2> SUFFICES ASSUME y = 0, x # 0 PROVE FALSE OBVIOUS
  <2> QED BY <1>1, <1>2
<1> QED BY <1>1, <1>2, <1>3, <1>4, <1>5

LEMMA NewestChosen ==
  ASSUME NEW n \in Nat, NEW S, S \subseteq 1..n
  PROVE  Newest(NewestOf(S), S)
<1>1. CASE S = {} BY <1>1 DEF Newest, NewestOf
<1>2. CASE S # {}
  <2>1. PICK x \in S \cup {0} : Newest(x, S) BY NewestExists
  <2>2. x \in S
    <3>1. PICK y \in S : TRUE BY <1>2
    <3> QED BY <2>1, <3>1 DEF Newest
  <2> QED BY <1>2, <2>1, <2>2 DEF NewestOf
<1> QED BY <1>1, <1>2

-----------------------------------------------------------------------------
(* The mapped state.                                                       *)

\* Blocks that began before a symbol
Inside(x) == {i \in Blocks : parse[i].s < x}

LEMMA ScopeIs == \A x : ScopeOf(x) = IF x \in Global THEN 1 ELSE 2 + Cardinality(Inside(x))
BY DEF ScopeOf, Inside

LEMMA BlocksFinite ==
  ASSUME Inv
  PROVE  /\ Blocks \subseteq 1..Len(parse) /\ IsFiniteSet(Blocks) /\ Cardinality(Blocks) \in Nat
         /\ \A T \in SUBSET Blocks :
              /\ IsFiniteSet(T) /\ Cardinality(T) \in Nat /\ Cardinality(T) <= Cardinality(Blocks)
              /\ Cardinality(T) = Cardinality(Blocks) => T = Blocks
<1>1. Len(parse) \in Nat BY LenProperties DEF Inv
<1>2. IsFiniteSet(1..Len(parse)) BY <1>1, FS_Interval
<1>3. Blocks \subseteq 1..Len(parse) BY DEF Blocks
<1>4. IsFiniteSet(Blocks) BY <1>2, <1>3, FS_Subset
<1>5. Cardinality(Blocks) \in Nat BY <1>4, FS_CardinalityType
<1>6. ASSUME NEW T \in SUBSET Blocks
      PROVE  /\ IsFiniteSet(T) /\ Cardinality(T) \in Nat
             /\ Cardinality(T) <= Cardinality(Blocks)
             /\ Cardinality(T) = Cardinality(Blocks) => T = Blocks
  <2>1. /\ IsFiniteSet(T) /\ Cardinality(T) <= Cardinality(Blocks)
        /\ Cardinality(Blocks) = Cardinality(T) => Blocks = T
    BY <1>4, FS_Subset
  <2>2. Cardinality(T) \in Nat BY <2>1, FS_CardinalityType
  <2> QED BY <2>1, <2>2
<1> QED BY <1>3, <1>4, <1>5, <1>6

\* Later symbols are as deep or deeper.
LEMMA ScopesGrow ==
  ASSUME Inv, NEW x, NEW y
  PROVE  /\ ScopeOf(x) \in Nat /\ ScopeOf(x) >= 1
         /\ x \notin Global /\ y \notin Global /\ x \in Nat /\ y \in Nat /\ x <= y =>
              ScopeOf(x) <= ScopeOf(y)
<1>1. Inside(x) \in SUBSET Blocks /\ Inside(y) \in SUBSET Blocks BY DEF Inside
<1>2. Cardinality(Inside(x)) \in Nat /\ Cardinality(Inside(y)) \in Nat /\ IsFiniteSet(Inside(y))
  BY <1>1, BlocksFinite
<1>3. ScopeOf(x) \in Nat /\ ScopeOf(x) >= 1 BY <1>2, ScopeIs
<1>4. ASSUME x \notin Global, y \notin Global, x \in Nat, y \in Nat, x <= y
      PROVE  ScopeOf(x) <= ScopeOf(y)
  <2>1. \A i \in Blocks : parse[i].s \in Nat
    <3> SUFFICES ASSUME NEW i \in Blocks PROVE parse[i].s \in Nat OBVIOUS
    <3>1. i \in 1..Len(parse) BY DEF Blocks
    <3>2. parse[i] \in Activation BY <3>1, ElementOfSeq DEF Inv
    <3> QED BY <3>2 DEF Activation
  <2>2. Inside(x) \in SUBSET Inside(y) BY <1>4, <2>1 DEF Inside
  <2>3. Cardinality(Inside(x)) <= Cardinality(Inside(y)) BY <1>2, <2>2, FS_Subset
  <2> QED BY <1>2, <1>4, <2>3, ScopeIs
<1> QED BY <1>3, <1>4

\* A symbol on a chain of a name of the source
SourceSym(v) == OnChain(v) /\ v.word \in Words

LEMMA StayingIs ==
  Staying = {x \in Live : SourceSym(sym[x].v) /\ Stays(x)}
BY DEF Staying, SourceSym

LEMMA ChainSyms ==
  ASSUME NEW v, NEW n \in SourceNames
  PROVE  OnChain(v) /\ NameOf(v) = n <=> SourceSym(v) /\ NameOf(v) = n
<1>1. n[2] \in Words BY DEF SourceNames
<1>2. NameOf(v)[2] = v.word BY DEF NameOf
<1> QED BY <1>1, <1>2 DEF SourceSym

\* Before the first declaration of a name its lookup finds nothing; afterwards
\* it finds the newest that stays.
LEMMA FoundNewest ==
  ASSUME Inv, NEW n \in SourceNames
  PROVE  Newest(Found[n], StayingAs(n)) /\ StayingAs(n) \subseteq 1..Len(sym)
<1>1. Live \subseteq 1..Len(sym) /\ Len(sym) \in Nat BY LiveTyped DEF Inv, Threaded
<1>2. StayingAs(n) \subseteq 1..Len(sym) BY <1>1 DEF StayingAs, Staying
<1>3. CASE Popping
  <2>1. Found[n] = NewestOf(StayingAs(n)) BY <1>3 DEF Found
  <2> QED BY <1>1, <1>2, <2>1, NewestChosen
<1>4. CASE ~ Popping
  <2>1. Found[n] = head[n] BY <1>4 DEF Found
  <2>2. n \in Names BY DEF SourceNames, Names, AllWords
  <2>3. Newest(head[n], Named(n)) BY <2>2 DEF Inv, Threaded, ChainsThreaded
  <2>4. ASSUME NEW x \in Live PROVE x \in Named(n) <=> x \in StayingAs(n)
    <3>1. OnChain(sym[x].v) /\ NameOf(sym[x].v) = n <=> SourceSym(sym[x].v) /\ NameOf(sym[x].v) = n
      BY ChainSyms
    <3>2. Stays(x) BY <1>4 DEF Stays
    <3> QED BY <3>1, <3>2, StayingIs DEF Named, StayingAs
  <2>5. Named(n) = StayingAs(n) BY <2>4 DEF Named, StayingAs, Staying
  <2> QED BY <1>2, <2>1, <2>3, <2>5
<1> QED BY <1>3, <1>4

\* The declarations of a name are ordered by their depth as by their numbers.
LEMMA DeclsOrdered ==
  ASSUME Inv, NEW n \in SourceNames,
         NEW x \in StayingAs(n), NEW y \in StayingAs(n), y < x
  PROVE  ScopeOf(y) <= ScopeOf(x)
<1>1. Live \subseteq 1..Len(sym) /\ Len(sym) \in Nat BY LiveTyped DEF Inv, Threaded
<1>2. /\ x \in Live /\ SourceSym(sym[x].v) /\ NameOf(sym[x].v) = n
      /\ y \in Live /\ SourceSym(sym[y].v) /\ NameOf(sym[y].v) = n
  BY StayingIs DEF StayingAs
<1>3. x \in Nat /\ y \in Nat BY <1>1, <1>2
<1>4. CASE y \in Global
  <2>1. ScopeOf(y) = 1 BY <1>4, ScopeIs
  <2>2. ScopeOf(x) >= 1 BY ScopesGrow
  <2> QED BY <2>1, <2>2
<1>5. CASE y \notin Global /\ x \in Global
  <2>1. y \in Local BY <1>2, <1>5 DEF Live
  <2>2. OnChain(sym[x].v) /\ OnChain(sym[y].v) BY <1>2, ChainSyms
  <2>3. x < y BY <1>2, <1>5, <2>1, <2>2 DEF Inv, Threaded, LocalsInFront
  <2> QED BY <1>3, <2>3
<1>6. CASE y \notin Global /\ x \notin Global
  <2>1. y <= x BY <1>3
  <2> QED BY <1>3, <1>6, <2>1, ScopesGrow
<1> QED BY <1>4, <1>5, <1>6

\* A lookup finds the declaration in the innermost scope.
LEMMA FoundLookup ==
  ASSUME Inv, NEW n \in SourceNames
  PROVE  Found[n] = Scopes!Lookup(Declarations, n)
<1>1. Newest(Found[n], StayingAs(n)) /\ StayingAs(n) \subseteq 1..Len(sym)
      /\ Len(sym) \in Nat
  BY FoundNewest, LiveTyped DEF Inv, Threaded
<1>2. PICK S : S = {d \in Declarations : d.name = n} OBVIOUS
<1>3. \A x \in StayingAs(n) : Scopes!Decl(n, ScopeOf(x), x) \in S
  BY <1>2 DEF StayingAs, Declarations, Scopes!Decl
<1>4. ASSUME NEW e \in S
      PROVE  \E x \in StayingAs(n) : e = Scopes!Decl(n, ScopeOf(x), x)
  BY <1>2 DEF StayingAs, Declarations, Scopes!Decl
<1>5. Scopes!Lookup(Declarations, n) =
        IF S = {} THEN 0
        ELSE (CHOOSE d \in S : \A e \in S : e = d \/ Scopes!Before(e, d)).symbol
  BY <1>2 DEF Scopes!Lookup
<1>6. CASE StayingAs(n) = {}
  <2>1. S = {} BY <1>4, <1>6
  <2>2. Found[n] = 0 BY <1>1, <1>6 DEF Newest
  <2> QED BY <1>5, <2>1, <2>2
<1>7. CASE StayingAs(n) # {}
  <2>1. PICK x : x = Found[n] OBVIOUS
  <2>2. x \in StayingAs(n)
    <3>1. PICK y \in StayingAs(n) : TRUE BY <1>7
    <3>2. y <= x /\ y \in 1..Len(sym) BY <1>1, <2>1, <3>1 DEF Newest
    <3>3. x # 0 BY <1>1, <3>2
    <3> QED BY <1>1, <2>1, <3>3 DEF Newest
  <2>3. PICK d : d = Scopes!Decl(n, ScopeOf(x), x) OBVIOUS
  <2>4. d \in S /\ d.depth = ScopeOf(x) /\ d.symbol = x /\ x \in Nat /\ ScopeOf(x) \in Nat
    BY <1>1, <1>3, <2>2, <2>3, ScopesGrow DEF Scopes!Decl
  <2>5. ASSUME NEW e \in S PROVE (e = d \/ Scopes!Before(e, d)) /\ e.depth \in Nat /\ e.symbol \in Nat
    <3>1. PICK y \in StayingAs(n) : e = Scopes!Decl(n, ScopeOf(y), y) BY <1>4
    <3>2. e.depth = ScopeOf(y) /\ e.symbol = y /\ y \in Nat /\ ScopeOf(y) \in Nat
      BY <1>1, <3>1, ScopesGrow DEF Scopes!Decl
    <3>3. CASE y = x BY <2>3, <3>1, <3>2, <3>3
    <3>4. CASE y # x
      <4>1. y <= x BY <1>1, <2>1 DEF Newest
      <4>2. y < x BY <2>4, <3>2, <3>4, <4>1
      <4>3. ScopeOf(y) <= ScopeOf(x) BY <2>2, <4>2, DeclsOrdered
      <4> QED BY <2>4, <3>2, <4>2, <4>3 DEF Scopes!Before
    <3> QED BY <3>3, <3>4
  <2>6. PICK c : c = CHOOSE z \in S : \A e \in S : e = z \/ Scopes!Before(e, z) OBVIOUS
  <2>7. c \in S /\ \A e \in S : e = c \/ Scopes!Before(e, c) BY <2>4, <2>5, <2>6
  <2>8. c = d
    <3>1. c = d \/ (Scopes!Before(c, d) /\ Scopes!Before(d, c)) BY <2>4, <2>5, <2>7
    <3>2. c.depth \in Nat /\ c.symbol \in Nat /\ d.depth \in Nat /\ d.symbol \in Nat
      BY <2>4, <2>5, <2>7
    <3> QED BY <3>1, <3>2 DEF Scopes!Before
  <2>9. S # {} BY <2>4
  <2>10. Scopes!Lookup(Declarations, n) = c.symbol BY <1>5, <2>6, <2>9
  <2> QED BY <2>1, <2>4, <2>8, <2>10
<1> QED BY <1>6, <1>7

LookupsRight == Found = [n \in SourceNames |-> Scopes!Lookup(Declarations, n)]

LEMMA FoundRight == Inv => LookupsRight
<1> SUFFICES ASSUME Inv PROVE LookupsRight OBVIOUS
<1>1. \A n \in SourceNames : Found[n] = Scopes!Lookup(Declarations, n) BY FoundLookup
<1>2. Found = [n \in SourceNames |-> Found[n]] BY DEF Found
<1> QED BY <1>1, <1>2 DEF LookupsRight

LEMMA FoundRightNext == Inv' => LookupsRight'
<1>1. Inv => LookupsRight BY FoundRight
<1> QED BY <1>1, PTL

-----------------------------------------------------------------------------
(* The depth.                                                              *)

LEMMA FrameTyped ==
  ASSUME Inv, NEW i \in 1..Len(parse)
  PROVE  /\ parse[i] \in Activation /\ Placed(parse, i) /\ Len(parse) \in Nat
         /\ ~ Popping => parse[i].at # "pop"
<1>1. Len(parse) \in Nat BY LenProperties DEF Inv
<1>2. parse[i] \in Activation BY ElementOfSeq DEF Inv
<1>3. Fine(i) BY DEF Inv
<1>4. Placed(parse, i) BY <1>3 DEF Fine
<1>5. ASSUME parse[i].at = "pop" PROVE Popping
  <2>1. i = Len(parse) BY <1>4, <1>5 DEF Placed
  <2>2. parse # <<>> BY <1>1, EmptySeq
  <2>3. top = parse[Len(parse)] BY <2>2, TopFine
  <2> QED BY <1>5, <2>1, <2>2, <2>3 DEF Popping, At, top
<1> QED BY <1>1, <1>2, <1>4, <1>5

\* Where there are local symbols there is a function; without them, no block.
LEMMA InsideFunction ==
  ASSUME Inv, TypesKept, Scoped, ~ NestedFunctions
  PROVE  /\ Local # {} => /\ parse # <<>> /\ 1 \in 1..Len(parse)
                          /\ ~ Popping => parse[1].at = "func" /\ InFunction
         /\ Local = {} => Blocks = {} /\ ~ InFunction
<1>1. Len(parse) \in Nat BY LenProperties DEF Inv
<1>2. ASSUME Local # {}
      PROVE  /\ parse # <<>> /\ 1 \in 1..Len(parse)
             /\ ~ Popping => parse[1].at = "func" /\ InFunction
  <2>1. parse # <<>> /\ (parse[1].at = "func" \/ parse[1].at = "pop")
    BY <1>2 DEF TypesKept, FunctionFirst
  <2>2. 1 \in 1..Len(parse) BY <1>1, <2>1, EmptySeq
  <2>3. ~ Popping => parse[1].at = "func" BY <2>1, <2>2, FrameTyped
  <2>4. InScope(parse[1]) BY <2>2 DEF Scoped, ScopedAt
  <2>5. parse[1].at = "func" => parse[1].stage # "enter"
    BY <1>2, <2>4 DEF InScope
  <2>6. ~ Popping => InFunction BY <2>2, <2>3, <2>5 DEF InFunction
  <2> QED BY <2>1, <2>2, <2>3, <2>6
<1>3. ASSUME Local = {} PROVE Blocks = {} /\ ~ InFunction
  <2>1. ASSUME NEW i \in Blocks PROVE FALSE
    <3>1. i \in 1..Len(parse) /\ HoldsMarker(parse[i]) BY DEF Blocks, HoldsMarker
    <3>2. parse[i].s \in Local BY <3>1 DEF Inv, MarkersKept
    <3> QED BY <1>3, <3>2
  <2>2. ASSUME NEW i \in 1..Len(parse), parse[i].at = "func", parse[i].stage # "enter"
        PROVE  FALSE
    <3>1. InScope(parse[i]) BY DEF Scoped, ScopedAt
    <3> QED BY <1>3, <2>2, <3>1 DEF InScope
  <2> QED BY <2>1, <2>2 DEF InFunction
<1> QED BY <1>2, <1>3

LEMMA DepthIs ==
  ASSUME Inv, TypesKept, Scoped, ~ NestedFunctions, ~ Popping
  PROVE  Depth = IF Local = {} THEN 1 ELSE 2 + Cardinality(Blocks)
<1>1. Cardinality(Blocks) \in Nat BY BlocksFinite
<1>2. CASE Local = {}
  <2>1. Blocks = {} /\ ~ InFunction BY <1>2, InsideFunction
  <2>2. Cardinality(Blocks) = 0 BY <2>1, FS_EmptySet
  <2> QED BY <1>2, <2>1, <2>2 DEF Depth
<1>3. CASE Local # {}
  <2>1. InFunction BY <1>3, InsideFunction
  <2> QED BY <1>1, <1>3, <2>1 DEF Depth
<1> QED BY <1>2, <1>3

DepthRight ==
  ~ Popping => Depth = IF Local = {} THEN 1 ELSE 2 + Cardinality(Blocks)
Sound == Inv /\ TypesKept /\ Scoped

LEMMA DepthRightNext == ASSUME ~ NestedFunctions PROVE Sound' => DepthRight'
<1>1. Sound => DepthRight BY DepthIs DEF Sound, DepthRight
<1> QED BY <1>1, PTL

-----------------------------------------------------------------------------
(* Steps that leave the blocks as they are.                                *)

SameBlocks ==
  /\ Blocks' = Blocks /\ \A i \in Blocks : parse'[i].s = parse[i].s
  /\ ~ Popping'

\* A frame that is neither a function, nor a block, nor sym_pop.
Quiet(f)   == f.at \in {"decl", "struct", "params"}
QuietIn(f) == Quiet(f) /\ InScope(f)
SameKind(f, g) ==
  /\ f.at = g.at /\ f.s = g.s /\ f.at # "pop" /\ f.where = g.where
  /\ f.at = "func" => (f.stage = "enter" <=> g.stage = "enter")

AlikeAbove(m) ==
  /\ \A i \in 1..Len(parse) :
       i > m => Quiet(parse[i]) \/ (i <= Len(parse') /\ SameKind(parse'[i], parse[i]))
  /\ \A i \in 1..Len(parse') :
       i > m => QuietIn(parse'[i]) \/ (i <= Len(parse) /\ SameKind(parse'[i], parse[i]))

LEMMA FramesAlike ==
  ASSUME Inv, Inv', Scoped, SameInnermost, ~ Popping,
         NEW m \in Nat, Agree(parse, parse', m), AlikeAbove(m)
  PROVE  SameBlocks /\ Scoped'
<1>0. Len(parse) \in Nat /\ Len(parse') \in Nat BY LenProperties DEF Inv
<1>1. ASSUME NEW i \in Blocks PROVE i \in Blocks' /\ parse'[i].s = parse[i].s
  <2>1. i \in 1..Len(parse) /\ parse[i].at = "block" BY DEF Blocks
  <2>2. CASE i <= m
    <3>1. parse'[i] = parse[i] /\ i \in 1..Len(parse') BY <1>0, <2>1, <2>2 DEF Agree
    <3> QED BY <2>1, <3>1 DEF Blocks
  <2>3. CASE i > m
    <3>1. ~ Quiet(parse[i]) BY <2>1 DEF Quiet
    <3>2. i <= Len(parse') /\ SameKind(parse'[i], parse[i])
      BY <2>1, <2>3, <3>1 DEF AlikeAbove
    <3>3. i \in 1..Len(parse') BY <1>0, <2>1, <3>2
    <3> QED BY <2>1, <3>2, <3>3 DEF Blocks, SameKind
  <2> QED BY <1>0, <2>1, <2>2, <2>3
<1>2. ASSUME NEW i \in Blocks' PROVE i \in Blocks
  <2>1. i \in 1..Len(parse') /\ parse'[i].at = "block" BY DEF Blocks
  <2>2. CASE i <= m
    <3>1. parse'[i] = parse[i] /\ i \in 1..Len(parse) BY <1>0, <2>1, <2>2 DEF Agree
    <3> QED BY <2>1, <3>1 DEF Blocks
  <2>3. CASE i > m
    <3>1. ~ QuietIn(parse'[i]) BY <2>1 DEF QuietIn, Quiet
    <3>2. i <= Len(parse) /\ SameKind(parse'[i], parse[i])
      BY <2>1, <2>3, <3>1 DEF AlikeAbove
    <3>3. i \in 1..Len(parse) BY <1>0, <2>1, <3>2
    <3> QED BY <2>1, <3>2, <3>3 DEF Blocks, SameKind
  <2> QED BY <1>0, <2>1, <2>2, <2>3
<1>3. ASSUME NEW i \in 1..Len(parse')
      PROVE  ScopedAt(i)' /\ parse'[i].at # "pop"
  <2>1. CASE i <= m
    <3>1. parse'[i] = parse[i] /\ i \in 1..Len(parse) BY <1>0, <2>1 DEF Agree
    <3>2. InScope(parse[i]) BY <3>1 DEF Scoped, ScopedAt
    <3>3. ScopedAt(i)' BY <3>1, <3>2 DEF ScopedAt, InScope, SameInnermost
    <3> QED BY <3>1, <3>3, FrameTyped
  <2>2. CASE i > m /\ QuietIn(parse'[i])
    BY <2>2 DEF QuietIn, Quiet, ScopedAt, InScope, SameInnermost
  <2>3. CASE i > m /\ i <= Len(parse) /\ SameKind(parse'[i], parse[i])
    <3>1. i \in 1..Len(parse) BY <1>0, <2>3
    <3>2. InScope(parse[i]) BY <3>1 DEF Scoped, ScopedAt
    <3> QED BY <2>3, <3>2 DEF SameKind, ScopedAt, InScope, SameInnermost
  <2> QED BY <1>0, <2>1, <2>2, <2>3 DEF AlikeAbove
<1>4. ~ Popping'
  <2> SUFFICES ASSUME Popping' PROVE FALSE OBVIOUS
  <2>1. parse' # <<>> /\ parse'[Len(parse')].at = "pop"
    BY DEF Popping, At, Last
  <2>2. Len(parse') \in 1..Len(parse')
    <3>1. parse' \in Seq(Activation) BY DEF Inv
    <3> QED BY <2>1, <3>1, EmptySeq, LenProperties
  <2> QED BY <1>3, <2>1, <2>2
<1>5. Scoped' BY <1>3 DEF Scoped
<1> QED BY <1>1, <1>2, <1>4, <1>5 DEF SameBlocks

\* The forms of such a step.
LEMMA AlikeLeave ==
  ASSUME Inv, Inv', Scoped, SameInnermost, parse # <<>>, Leave, Quiet(top)
  PROVE  SameBlocks /\ Scoped' /\ ~ Popping
<1>1. PICK b : b = ButLast(parse) OBVIOUS
<1>2. /\ b \in Seq(Activation) /\ Len(parse) \in Nat \ {0} /\ Len(b) = Len(parse) - 1
      /\ (\A i \in 1..(Len(parse) - 1) : b[i] = parse[i]) /\ top = parse[Len(parse)]
  BY <1>1, Shorter DEF Inv, top
<1>3. parse' = b BY <1>1 DEF Leave
<1>4. Len(b) \in Nat /\ Agree(parse, parse', Len(b)) BY <1>2, <1>3 DEF Agree
<1>5. AlikeAbove(Len(b))
  <2>1. \A i \in 1..Len(parse) : i > Len(b) => i = Len(parse) BY <1>2
  <2>2. \A i \in 1..Len(parse') : ~ (i > Len(b)) BY <1>2, <1>3
  <2> QED BY <1>2, <2>1, <2>2 DEF AlikeAbove
<1>6. ~ Popping BY DEF Popping, At, top, Quiet
<1> QED BY <1>4, <1>5, <1>6, FramesAlike

GoesOn(f, g) == (QuietIn(f) /\ Quiet(g)) \/ SameKind(f, g)

LEMMA AlikeGoto ==
  ASSUME Inv, Inv', Scoped, SameInnermost, parse # <<>>,
         NEW f, Goto(f), GoesOn(f, top)
  PROVE  SameBlocks /\ Scoped' /\ ~ Popping
<1>1. PICK S : S = Activation \cup {f} OBVIOUS
<1>2. parse \in Seq(S) /\ f \in S BY <1>1, AnySeq DEF Inv
<1>3. /\ Len(parse') = Len(parse) /\ parse'[Len(parse)] = f
      /\ Agree(parse, parse', Len(parse) - 1)
  BY <1>2, Replaced DEF Goto
<1>4. Len(parse) \in Nat \ {0} /\ top = parse[Len(parse)] BY TopFine
<1>5. PICK m : m = Len(parse) - 1 OBVIOUS
<1>6. AlikeAbove(m)
  <2>1. /\ \A i \in 1..Len(parse) : i > m => i = Len(parse) /\ i <= Len(parse')
        /\ \A i \in 1..Len(parse') : i > m => i = Len(parse) /\ i <= Len(parse)
    BY <1>3, <1>4, <1>5
  <2> QED BY <1>3, <1>4, <2>1 DEF AlikeAbove, GoesOn
<1>7. ~ Popping BY DEF Popping, At, top, Quiet, GoesOn, SameKind
<1>8. m \in Nat /\ Agree(parse, parse', m) BY <1>3, <1>4, <1>5
<1> QED BY <1>6, <1>7, <1>8, FramesAlike

LEMMA AlikeEnter ==
  ASSUME Inv, Inv', Scoped, SameInnermost, ~ Popping,
         NEW f, parse' = Append(parse, f), QuietIn(f)
  PROVE  SameBlocks /\ Scoped'
<1>1. PICK S : S = Activation \cup {f} OBVIOUS
<1>2. parse \in Seq(S) /\ f \in S /\ Len(parse) \in Nat
  BY <1>1, AnySeq, LenProperties DEF Inv
<1>3. /\ Len(parse') = Len(parse) + 1 /\ parse'[Len(parse) + 1] = f
      /\ Agree(parse, parse', Len(parse))
  BY <1>2, Longer
<1>4. PICK m : m = Len(parse) OBVIOUS
<1>5. AlikeAbove(m)
  <2>1. /\ \A i \in 1..Len(parse) : ~ (i > m)
        /\ \A i \in 1..Len(parse') : i > m => i = m + 1
    BY <1>2, <1>3, <1>4
  <2> QED BY <1>3, <1>4, <2>1 DEF AlikeAbove
<1>6. m \in Nat /\ Agree(parse, parse', m) BY <1>2, <1>3, <1>4
<1> QED BY <1>5, <1>6, FramesAlike

LEMMA AlikeGotoEnter ==
  ASSUME Inv, Inv', Scoped, SameInnermost, parse # <<>>,
         NEW f, NEW g, GoesOn(f, top), QuietIn(g),
         parse' = Append(Append(ButLast(parse), f), g)
  PROVE  SameBlocks /\ Scoped' /\ ~ Popping
<1>1. PICK S : S = Activation \cup {f, g} OBVIOUS
<1>2. parse \in Seq(S) /\ f \in S /\ g \in S BY <1>1, AnySeq DEF Inv
<1>3. PICK r : r = Append(ButLast(parse), f) OBVIOUS
<1>4. PICK k : k = Len(parse) OBVIOUS
<1>5. k \in Nat \ {0} /\ top = parse[k] BY <1>4, TopFine
<1>6. r \in Seq(S) /\ Len(r) = k /\ r[k] = f /\ Agree(parse, r, k - 1)
  BY <1>2, <1>3, <1>4, Replaced
<1>7. parse' = Append(r, g) BY <1>3
<1>8. Len(parse') = k + 1 /\ parse'[k + 1] = g /\ Agree(r, parse', k)
  BY <1>2, <1>6, <1>7, Longer
<1>9. parse'[k] = f BY <1>5, <1>6, <1>8 DEF Agree
<1>10. PICK m : m = k - 1 OBVIOUS
<1>11. m \in Nat /\ Agree(parse, parse', m)
  BY <1>5, <1>6, <1>8, <1>10 DEF Agree
<1>12. AlikeAbove(m)
  <2>1. /\ \A i \in 1..Len(parse) : i > m => i = k /\ i <= Len(parse')
        /\ \A i \in 1..Len(parse') : i > m => (i = k /\ i <= Len(parse)) \/ i = k + 1
    BY <1>4, <1>5, <1>8, <1>10
  <2> QED BY <1>5, <1>8, <1>9, <2>1 DEF AlikeAbove, GoesOn
<1>13. ~ Popping BY DEF Popping, At, top, Quiet, GoesOn, SameKind
<1> QED BY <1>11, <1>12, <1>13, FramesAlike

LEMMA AlikeMerge ==
  ASSUME Inv, Inv', Scoped, SameInnermost, Len(parse) > 1, Quiet(top),
         Quiet(parse[Len(parse) - 1]), NEW f, QuietIn(f),
         parse' = Append(ButLast(ButLast(parse)), f)
  PROVE  SameBlocks /\ Scoped' /\ ~ Popping
<1>0. parse # <<>> BY EmptySeq
<1>1. PICK S : S = Activation \cup {f} OBVIOUS
<1>2. parse \in Seq(S) /\ f \in S BY <1>1, AnySeq DEF Inv
<1>3. PICK k : k = Len(parse) OBVIOUS
<1>4. k \in Nat \ {0} /\ k > 1 /\ top = parse[k] /\ Quiet(parse[k - 1])
  BY <1>0, <1>3, TopFine
<1>5. Len(parse') = k - 1 /\ parse'[k - 1] = f /\ Agree(parse, parse', k - 2)
  BY <1>2, <1>3, TwoReplaced
<1>6. PICK m : m = k - 2 OBVIOUS
<1>7. AlikeAbove(m)
  <2>1. /\ \A i \in 1..Len(parse) : i > m => i = k \/ i = k - 1
        /\ \A i \in 1..Len(parse') : i > m => i = k - 1
    BY <1>3, <1>4, <1>5, <1>6
  <2> QED BY <1>4, <1>5, <2>1 DEF AlikeAbove
<1>8. m \in Nat /\ Agree(parse, parse', m) BY <1>4, <1>5, <1>6
<1>9. ~ Popping BY <1>0 DEF Popping, At, top, Quiet
<1> QED BY <1>7, <1>8, <1>9, FramesAlike

LEMMA AlikeMember ==
  ASSUME Inv, Inv', Scoped, SameInnermost, Len(parse) > 1, Quiet(top),
         Quiet(parse[Len(parse) - 1]), NEW f, NEW g, QuietIn(f), QuietIn(g),
         parse' = Append(Append(ButLast(ButLast(parse)), f), g)
  PROVE  SameBlocks /\ Scoped' /\ ~ Popping
<1>0. parse # <<>> BY EmptySeq
<1>1. PICK S : S = Activation \cup {f, g} OBVIOUS
<1>2. parse \in Seq(S) /\ f \in S /\ g \in S BY <1>1, AnySeq DEF Inv
<1>3. PICK r : r = Append(ButLast(ButLast(parse)), f) OBVIOUS
<1>4. PICK k : k = Len(parse) OBVIOUS
<1>5. k \in Nat \ {0} /\ k > 1 /\ top = parse[k] /\ Quiet(parse[k - 1])
  BY <1>0, <1>4, TopFine
<1>6. r \in Seq(S) /\ Len(r) = k - 1 /\ r[k - 1] = f /\ Agree(parse, r, k - 2)
  BY <1>2, <1>3, <1>4, TwoReplaced
<1>7. parse' = Append(r, g) BY <1>3
<1>8. Len(parse') = k - 1 + 1 /\ parse'[k - 1 + 1] = g /\ Agree(r, parse', k - 1)
  BY <1>2, <1>6, <1>7, Longer
<1>9. parse'[k - 1] = f BY <1>5, <1>6, <1>8 DEF Agree
<1>10. PICK m : m = k - 2 OBVIOUS
<1>11. m \in Nat /\ Agree(parse, parse', m)
  <2>1. m \in Nat /\ m =< k - 2 /\ m =< Len(parse') /\ k \in Nat /\ k > 1
    BY <1>5, <1>8, <1>10
  <2>2. ASSUME NEW i \in 1..m PROVE parse'[i] = parse[i]
    <3>1. i \in 1..(k - 2) /\ i \in 1..(k - 1) BY <2>1, <1>10
    <3>2. r[i] = parse[i] BY <1>6, <3>1 DEF Agree
    <3>3. parse'[i] = r[i] BY <1>8, <3>1 DEF Agree
    <3> QED BY <3>2, <3>3
  <2> QED BY <2>1, <2>2, <1>5, <1>6, <1>8 DEF Agree
<1>12. AlikeAbove(m)
  <2>1. /\ \A i \in 1..Len(parse) : i > m => i = k \/ i = k - 1
        /\ \A i \in 1..Len(parse') : i > m => i = k - 1 + 1 \/ i = k - 1
    BY <1>4, <1>5, <1>8, <1>10
  <2> QED BY <1>5, <1>8, <1>9, <2>1 DEF AlikeAbove
<1>13. ~ Popping BY <1>0 DEF Popping, At, top, Quiet
<1> QED BY <1>11, <1>12, <1>13, FramesAlike

-----------------------------------------------------------------------------
(* What becomes of the declarations.                                       *)

Simulated == [Scopes!Next]_(Scopes!vars)

DeclOf(x) == [name |-> NameOf(sym[x].v), depth |-> ScopeOf(x), symbol |-> x]

LEMMA OldDecl ==
  ASSUME SameBlocks, NEW x, x \in Global' <=> x \in Global, sym'[x].v = sym[x].v
  PROVE  DeclOf(x)' = DeclOf(x)
<1>1. Inside(x)' = Inside(x)
  <2>1. Blocks' = Blocks /\ \A i \in Blocks : parse'[i].s = parse[i].s
    BY DEF SameBlocks
  <2> QED BY <2>1 DEF Inside
<1>2. ScopeOf(x) = IF x \in Global THEN 1 ELSE 2 + Cardinality(Inside(x))
  BY DEF ScopeOf, Inside
<1>3. ScopeOf(x)' = IF x \in Global' THEN 1 ELSE 2 + Cardinality(Inside(x)')
  BY DEF ScopeOf, Inside
<1>4. ScopeOf(x)' = ScopeOf(x) BY <1>1, <1>2, <1>3
<1> QED BY <1>4 DEF DeclOf, NameOf

LEMMA DeclsMapped ==
  ASSUME NEW N, Staying' = Staying \cup N, \A x \in Staying : DeclOf(x)' = DeclOf(x)
  PROVE  Declarations' = Declarations \cup {DeclOf(x)' : x \in N}
<1>1. Declarations = {DeclOf(x) : x \in Staying} BY DEF Declarations, DeclOf
<1>2. Declarations' = {DeclOf(x)' : x \in Staying'} BY DEF Declarations, DeclOf
<1> QED BY <1>1, <1>2

\* Nothing that exists changes its name.
SameWords == \A x \in 1..Len(sym) : sym'[x].v = sym[x].v

LEMMA DeclsSame ==
  ASSUME Inv, SameBlocks, ~ Popping, SameWords, Global' = Global, Local' = Local
  PROVE  Declarations' = Declarations
<1>1. Live \subseteq 1..Len(sym) BY LiveTyped DEF Inv, Threaded
<1>2. Live' = Live BY DEF Live
<1>3. ASSUME NEW x \in Live
      PROVE  (x \in Staying' <=> x \in Staying) /\ DeclOf(x)' = DeclOf(x)
  <2>1. sym'[x].v = sym[x].v BY <1>1 DEF SameWords
  <2>2. Stays(x) /\ Stays(x)' BY DEF Stays, SameBlocks
  <2>3. DeclOf(x)' = DeclOf(x) BY <2>1, OldDecl
  <2> QED BY <1>2, <2>1, <2>2, <2>3 DEF Staying, OnChain
<1>4. Staying' = Staying \cup {}
  <2>1. Staying \subseteq Live /\ Staying' \subseteq Live' BY DEF Staying
  <2> QED BY <1>2, <1>3, <2>1
<1>5. \A x \in Staying : DeclOf(x)' = DeclOf(x) BY <1>3 DEF Staying
<1>6. PICK N : N = {} OBVIOUS
<1>7. Declarations' = Declarations \cup {DeclOf(x)' : x \in N}
  BY <1>4, <1>5, <1>6, DeclsMapped
<1> QED BY <1>6, <1>7

\* One symbol more, on one of the stacks.
Adds(v) ==
  /\ SameWords /\ Len(sym') = Len(sym) + 1 /\ sym'[Len(sym) + 1].v = v
  /\ \/ Local' = Local \cup {Len(sym) + 1} /\ Global' = Global
     \/ Global' = Global \cup {Len(sym) + 1} /\ Local' = Local

LEMMA DeclsAdded ==
  ASSUME Inv, SameBlocks, ~ Popping, NEW v, Adds(v), NEW new, new = Len(sym) + 1
  PROVE  /\ ~ SourceSym(v) => Declarations' = Declarations
         /\ SourceSym(v) => Declarations' = Declarations \cup {DeclOf(new)'}
<1>1. Live \subseteq 1..Len(sym) /\ Len(sym) \in Nat /\ new \notin Live
  BY LiveTyped DEF Inv, Threaded
<1>2. Live' = Live \cup {new} /\ sym'[new].v = v BY DEF Live, Adds
<1>3. ASSUME NEW x \in Live
      PROVE  (x \in Staying' <=> x \in Staying) /\ DeclOf(x)' = DeclOf(x)
  <2>1. sym'[x].v = sym[x].v BY <1>1 DEF Adds, SameWords
  <2>2. Stays(x) /\ Stays(x)' BY DEF Stays, SameBlocks
  <2>3. x \in Global' <=> x \in Global BY <1>1 DEF Adds, Live
  <2>4. DeclOf(x)' = DeclOf(x) BY <2>1, <2>3, OldDecl
  <2> QED BY <1>2, <2>1, <2>2, <2>4 DEF Staying, OnChain
<1>4. new \in Staying' <=> SourceSym(v)
  <2>1. Stays(new)' BY DEF Stays, SameBlocks
  <2> QED BY <1>2, <2>1 DEF Staying, SourceSym, OnChain
<1>5. PICK N : N = IF SourceSym(v) THEN {new} ELSE {} OBVIOUS
<1>6. Staying' = Staying \cup N
  <2>1. Staying \subseteq Live /\ Staying' \subseteq Live' BY DEF Staying
  <2>2. ASSUME NEW x \in Staying' PROVE x \in Staying \cup N
    BY <1>2, <1>3, <1>4, <1>5, <2>1
  <2>3. ASSUME NEW x \in Staying PROVE x \in Staying' BY <1>3, <2>1
  <2>4. ASSUME NEW x \in N PROVE x \in Staying' BY <1>4, <1>5
  <2> QED BY <2>2, <2>3, <2>4
<1>7. \A x \in Staying : DeclOf(x)' = DeclOf(x) BY <1>3 DEF Staying
<1>8. Declarations' = Declarations \cup {DeclOf(x)' : x \in N}
  BY <1>6, <1>7, DeclsMapped
<1>9. SourceSym(v) => {DeclOf(x)' : x \in N} = {DeclOf(new)'} BY <1>5
<1>10. ~ SourceSym(v) => {DeclOf(x)' : x \in N} = {} BY <1>5
<1> QED BY <1>8, <1>9, <1>10

LEMMA FoundSame ==
  ASSUME Inv, Inv', Declarations' = Declarations
  PROVE  Found' = Found
<1>1. LookupsRight BY FoundRight
<1>2. LookupsRight' BY FoundRightNext
<1> QED BY <1>1, <1>2 DEF LookupsRight

LEMMA DepthSame ==
  ASSUME ~ NestedFunctions, Sound, Sound', SameBlocks, ~ Popping, SameInnermost
  PROVE  Depth' = Depth
<1>1. Depth = IF Local = {} THEN 1 ELSE 2 + Cardinality(Blocks)
  BY DepthIs DEF Sound
<1>2. DepthRight' BY DepthRightNext
<1>3. Depth' = IF Local' = {} THEN 1 ELSE 2 + Cardinality(Blocks')
  BY <1>2 DEF DepthRight, SameBlocks
<1> QED BY <1>1, <1>3 DEF SameBlocks, SameInnermost

LEMMA Stutters ==
  ASSUME ~ NestedFunctions, Sound, Sound', SameBlocks, ~ Popping,
         SameInnermost, Declarations' = Declarations
  PROVE  Simulated
<1>1. Found' = Found BY FoundSame DEF Sound
<1>2. Depth' = Depth BY DepthSame
<1> QED BY <1>1, <1>2 DEF Simulated, Scopes!vars

\* The heads of a step that hooks a new symbol.
Heads(v) ==
  head' = IF OnChain(v) THEN [head EXCEPT ![NameOf(v)] = Len(sym) + 1] ELSE head

LEMMA FoundAdded ==
  ASSUME Inv, SameBlocks, ~ Popping, NEW v, SourceSym(v), Heads(v)
  PROVE  /\ Found' = [Found EXCEPT ![NameOf(v)] = Len(sym) + 1]
         /\ Found[NameOf(v)] = head[NameOf(v)]
         /\ NameOf(v) \in SourceNames
<1>1. PICK n : n = NameOf(v) OBVIOUS
<1>2. OnChain(v) BY DEF SourceSym, OnChain
<1>3. n \in SourceNames BY <1>1 DEF SourceSym, NameOf, SourceNames
<1>4. head \in [Names -> 0..Len(sym)] BY DEF Inv, Threaded, Table
<1>5. SourceNames \subseteq Names BY DEF SourceNames, Names, AllWords
<1>6. head' = [head EXCEPT ![n] = Len(sym) + 1] BY <1>1, <1>2 DEF Heads
<1>7. Found = [m \in SourceNames |-> head[m]] BY DEF Found
<1>8. Found' = [m \in SourceNames |-> head'[m]] BY DEF Found, SameBlocks
<1>9. \A m \in SourceNames : head'[m] = IF m = n THEN Len(sym) + 1 ELSE head[m]
  BY <1>4, <1>5, <1>6
<1>10. Found' = [m \in SourceNames |-> IF m = n THEN Len(sym) + 1 ELSE head[m]]
  BY <1>8, <1>9
<1>11. Found' = [Found EXCEPT ![n] = Len(sym) + 1] BY <1>7, <1>10
<1> QED BY <1>1, <1>3, <1>7, <1>11

\* Its number is new.
LEMMA NewNumber ==
  ASSUME Inv, Len(sym) < MaxSyms
  PROVE  Scopes!New(Len(sym) + 1) /\ Len(sym) + 1 \in 1..MaxSyms
<1>1. Live \subseteq 1..Len(sym) /\ Len(sym) \in Nat BY LiveTyped DEF Inv, Threaded
<1>2. ASSUME NEW e \in Declarations PROVE e.symbol < Len(sym) + 1
  <2>1. PICK x \in Staying : e.symbol = x BY DEF Declarations
  <2>2. x \in 1..Len(sym) BY <1>1 DEF Staying
  <2> QED BY <1>1, <2>1, <2>2
<1>3. Len(sym) + 1 \in 1..MaxSyms BY <1>1, SymbolScopeAssumption
<1> QED BY <1>2, <1>3 DEF Scopes!New

\* It is declared in the scope that is open.
LEMMA NewDepth ==
  ASSUME ~ NestedFunctions, Sound, SameBlocks, ~ Popping,
         NEW v, Adds(v), NEW new, new = Len(sym) + 1,
         Local = {} => Global' = Global \cup {new} /\ Local' = Local,
         Local # {} => Local' = Local \cup {new} /\ Global' = Global
  PROVE  DeclOf(new)' = Scopes!Decl(NameOf(v), Depth, new)
<1>1. Live \subseteq 1..Len(sym) /\ Len(sym) \in Nat
  BY LiveTyped DEF Sound, Inv, Threaded
<1>2. Depth = IF Local = {} THEN 1 ELSE 2 + Cardinality(Blocks)
  BY DepthIs DEF Sound
<1>3. ScopeOf(new)' = IF new \in Global' THEN 1 ELSE 2 + Cardinality(Inside(new)')
  BY DEF ScopeOf, Inside
<1>4. ScopeOf(new)' = Depth
  <2>1. CASE Local = {} BY <1>2, <1>3, <2>1
  <2>2. CASE Local # {}
    <3>1. new \notin Global' BY <1>1, <2>2 DEF Live
    <3>2. Inside(new)' = {i \in Blocks : parse[i].s < new}
      <4>1. Inside(new)' = {i \in Blocks' : parse'[i].s < new} BY DEF Inside
      <4> QED BY <4>1 DEF SameBlocks
    <3>3. ASSUME NEW i \in Blocks PROVE parse[i].s < new
      <4>1. i \in 1..Len(parse) /\ HoldsMarker(parse[i]) BY DEF Blocks, HoldsMarker
      <4>2. parse[i].s \in Local BY <4>1 DEF Sound, Inv, MarkersKept
      <4>3. parse[i].s \in 1..Len(sym) BY <1>1, <4>2 DEF Live
      <4> QED BY <1>1, <4>3
    <3>4. Inside(new)' = Blocks BY <3>2, <3>3
    <3> QED BY <1>2, <1>3, <2>2, <3>1, <3>4
  <2> QED BY <2>1, <2>2
<1>5. sym'[new].v = v BY DEF Adds
<1>6. NameOf(sym'[new].v) = NameOf(v) BY <1>5
<1>7. DeclOf(new)' = [name |-> NameOf(sym'[new].v), depth |-> ScopeOf(new)', symbol |-> new]
  BY DEF DeclOf, NameOf
<1> QED BY <1>4, <1>6, <1>7 DEF Scopes!Decl

\* sym_push of a name of the source is a declaration.
LEMMA DeclaresName ==
  ASSUME ~ NestedFunctions, Sound, Sound', SameBlocks, ~ Popping,
         SameInnermost, NEW v, Adds(v), Heads(v), Len(sym) < MaxSyms,
         Local = {} => Global' = Global \cup {Len(sym) + 1} /\ Local' = Local,
         Local # {} => Local' = Local \cup {Len(sym) + 1} /\ Global' = Global,
         SourceSym(v) /\ v.kind # "param" /\ (v.kind = "tag" \/ Local = {})
           => head[NameOf(v)] = 0
  PROVE  Simulated
<1>1. CASE ~ SourceSym(v)
  <2>1. Declarations' = Declarations BY <1>1, DeclsAdded DEF Sound
  <2> QED BY <2>1, Stutters
<1>2. CASE SourceSym(v)
  <2>1. PICK new : new = Len(sym) + 1 OBVIOUS
  <2>2. PICK n : n = NameOf(v) OBVIOUS
  <2>3. /\ Local = {} => Global' = Global \cup {new} /\ Local' = Local
        /\ Local # {} => Local' = Local \cup {new} /\ Global' = Global
    BY <2>1
  <2>4. DeclOf(new)' = Scopes!Decl(NameOf(v), Depth, new)
    BY <2>1, <2>3, NewDepth
  <2>5. Declarations' = Declarations \cup {Scopes!Decl(n, Depth, new)}
    BY <1>2, <2>1, <2>2, <2>4, DeclsAdded DEF Sound
  <2>6. Found' = [Found EXCEPT ![n] = new] /\ Found[n] = head[n] /\ n \in SourceNames
    BY <1>2, <2>1, <2>2, FoundAdded DEF Sound
  <2>7. Scopes!New(new) /\ new \in 1..MaxSyms BY <2>1, NewNumber DEF Sound
  <2>8. Depth' = Depth BY DepthSame
  <2>9. v.kind # "param" /\ (n[1] = "tag" \/ Depth = 1) => Found[n] = 0
    <3>1. n[1] = "tag" => v.kind = "tag" BY <1>2, <2>2 DEF NameOf, SourceSym
    <3>2. Depth = 1 => Local = {}
      <4>1. Depth = IF Local = {} THEN 1 ELSE 2 + Cardinality(Blocks)
        BY DepthIs DEF Sound
      <4>2. Cardinality(Blocks) \in Nat BY BlocksFinite DEF Sound
      <4> QED BY <4>1, <4>2
    <3> QED BY <1>2, <2>2, <2>6, <3>1, <3>2
  <2>10. CASE v.kind # "param"
    <3>1. Scopes!Declare(n, new)
      BY <2>5, <2>6, <2>7, <2>8, <2>9, <2>10 DEF Scopes!Declare
    <3> QED BY <2>6, <2>7, <3>1 DEF Scopes!Next, Simulated
  <2>11. CASE v.kind = "param"
    <3>1. ParamsChained /\ n[1] = "ident"
      BY <1>2, <2>2, <2>11 DEF SourceSym, OnChain, NameOf
    <3>2. Scopes!DeclareParameter(n, new)
      BY <2>5, <2>6, <2>7, <2>8, <3>1 DEF Scopes!DeclareParameter
    <3> QED BY <2>6, <2>7, <3>2 DEF Scopes!Next, Simulated
  <2> QED BY <2>10, <2>11
<1> QED BY <1>1, <1>2

\* func_sym_push of one that is not declared is a declaration for the file.
LEMMA DeclaresFunction ==
  ASSUME ~ NestedFunctions, Sound, Sound', SameBlocks, ~ Popping,
         SameInnermost, NEW w \in Words, NEW v, v = V("ident", w), Adds(v), Heads(v),
         Len(sym) < MaxSyms, Global' = Global \cup {Len(sym) + 1}, head[NameOf(v)] = 0
  PROVE  Simulated
<1>1. PICK new : new = Len(sym) + 1 OBVIOUS
<1>2. PICK n : n = NameOf(v) OBVIOUS
<1>3. SourceSym(v) /\ n[1] = "ident" BY <1>2 DEF SourceSym, OnChain, V, NameOf
<1>4. DeclOf(new)' = Scopes!Decl(n, 1, new)
  <2>1. new \in Global' BY <1>1
  <2>2. ScopeOf(new)' = 1 BY <2>1 DEF ScopeOf
  <2>3. sym'[new].v = v BY <1>1 DEF Adds
  <2>4. DeclOf(new)' = [name |-> NameOf(sym'[new].v), depth |-> ScopeOf(new)', symbol |-> new]
    BY DEF DeclOf, NameOf
  <2> QED BY <1>2, <2>2, <2>3, <2>4 DEF Scopes!Decl
<1>5. Declarations' = Declarations \cup {Scopes!Decl(n, 1, new)}
  BY <1>1, <1>3, <1>4, DeclsAdded DEF Sound
<1>6. Found' = [Found EXCEPT ![n] = new] /\ Found[n] = head[n] /\ n \in SourceNames
  BY <1>1, <1>2, <1>3, FoundAdded DEF Sound
<1>7. Scopes!New(new) /\ new \in 1..MaxSyms BY <1>1, NewNumber DEF Sound
<1>8. Depth' = Depth BY DepthSame
<1>9. Scopes!DeclareImplicitly(n, new)
  BY <1>2, <1>3, <1>5, <1>6, <1>7, <1>8 DEF Scopes!DeclareImplicitly
<1>10. Scopes!Next BY <1>6, <1>7, <1>9 DEF Scopes!Next
<1> QED BY <1>10 DEF Simulated

-----------------------------------------------------------------------------
(* The actions that leave the blocks as they are.                          *)

\* A step of the parser keeps the invariant and is one of the rules.
Follows == Sound' /\ Simulated

NewSym(v) ==
  SameWords /\ Len(sym') = Len(sym) + 1 /\ sym'[Len(sym) + 1].v = v

LEMMA AppendNew ==
  ASSUME Inv, NEW v, NEW type, NEW c, NEW next,
         sym' = Append(sym, NewSymbol(v, type, c, next))
  PROVE  NewSym(v)
<1>1. PICK f : f = NewSymbol(v, type, c, next) OBVIOUS
<1>2. PICK S : S = Symbol \cup {f} OBVIOUS
<1>3. sym \in Seq(S) /\ f \in S BY <1>2, AnySeq DEF Inv, Threaded, Table
<1>4. /\ Len(sym') = Len(sym) + 1 /\ sym'[Len(sym) + 1] = f
      /\ Agree(sym, sym', Len(sym))
  BY <1>1, <1>3, Longer
<1>5. f.v = v BY <1>1 DEF NewSymbol
<1> QED BY <1>4, <1>5 DEF NewSym, SameWords, Agree

LEMMA NothingNew ==
  ASSUME NoSymbol
  PROVE  SameWords /\ Global' = Global /\ Local' = Local /\ SameInnermost
BY DEF NoSymbol, SameWords, Global, Local, Members, SameInnermost

LEMMA PushAdds ==
  ASSUME Inv, NEW v, sym_push(v), NewSym(v)
  PROVE  /\ Adds(v) /\ Heads(v) /\ Len(sym) < MaxSyms /\ SameInnermost
         /\ Local = {} => Global' = Global \cup {Len(sym) + 1} /\ Local' = Local
         /\ Local # {} => Local' = Local \cup {Len(sym) + 1} /\ Global' = Global
<1>1. Table /\ Len(sym') = Len(sym) + 1 BY DEF Inv, Threaded, NewSym
<1>2. SameInnermost BY <1>1, PushPlace
<1>3. Live \subseteq 1..Len(sym) /\ Len(sym) \in Nat BY <1>1, LiveTyped
<1>4. Stack(local_sym_stack, Len(sym)) /\ Stack(global_sym_stack, Len(sym))
  BY <1>1 DEF Table
<1>5. Local = {} => Global' = Global \cup {Len(sym) + 1} /\ Local' = Local
  <2> SUFFICES ASSUME Local = {}
               PROVE  Global' = Global \cup {Len(sym) + 1} /\ Local' = Local
    OBVIOUS
  <2>1. local_sym_stack = <<>> BY <1>1, EmptyLocal
  <2>2. global_sym_stack' = Append(global_sym_stack, Len(sym) + 1) /\ Local' = Local
    BY <2>1 DEF sym_push, PushGlobal, Fresh, Local, Members
  <2> QED BY <1>3, <1>4, <2>2, StackPush DEF Global
<1>6. Local # {} => Local' = Local \cup {Len(sym) + 1} /\ Global' = Global
  <2> SUFFICES ASSUME Local # {}
               PROVE  Local' = Local \cup {Len(sym) + 1} /\ Global' = Global
    OBVIOUS
  <2>1. local_sym_stack # <<>> BY <1>1, EmptyLocal
  <2>2. local_sym_stack' = Append(local_sym_stack, Len(sym) + 1) /\ Global' = Global
    BY <2>1 DEF sym_push, PushLocal, Fresh, Global, Members
  <2> QED BY <1>3, <1>4, <2>2, StackPush DEF Local
<1>7. Adds(v) BY <1>5, <1>6 DEF Adds, NewSym
<1>8. Heads(v) /\ Len(sym) < MaxSyms BY DEF sym_push, Heads, Fresh
<1> QED BY <1>2, <1>5, <1>6, <1>7, <1>8

LEMMA StepStutters ==
  ASSUME ~ NestedFunctions, Sound, Inv', TypesKept', Scoped',
         SameBlocks, ~ Popping, SameWords, Global' = Global, Local' = Local
  PROVE  Follows
<1>1. Sound' BY DEF Sound
<1>2. SameInnermost BY DEF SameInnermost
<1>3. Declarations' = Declarations BY DeclsSame DEF Sound
<1>4. Simulated BY <1>1, <1>2, <1>3, Stutters
<1> QED BY <1>1, <1>4 DEF Follows

LEMMA StepPushes ==
  ASSUME ~ NestedFunctions, Sound, Inv', TypesKept', Scoped',
         SameBlocks, ~ Popping, NEW v, sym_push(v), NewSym(v),
         SourceSym(v) /\ v.kind # "param" /\ (v.kind = "tag" \/ Local = {})
           => head[NameOf(v)] = 0
  PROVE  Follows
<1>1. Sound' BY DEF Sound
<1>2. Inv BY DEF Sound
<1>3. /\ Adds(v) /\ Heads(v) /\ Len(sym) < MaxSyms /\ SameInnermost
      /\ Local = {} => Global' = Global \cup {Len(sym) + 1} /\ Local' = Local
      /\ Local # {} => Local' = Local \cup {Len(sym) + 1} /\ Global' = Global
  BY <1>2, PushAdds
<1>4. Simulated BY <1>1, <1>3, DeclaresName
<1> QED BY <1>1, <1>4 DEF Follows

\* What is no name of the source, or that of a parameter, can be pushed anywhere.
LEMMA AnonymousPushes ==
  ASSUME ~ NestedFunctions, Sound, Inv', TypesKept', Scoped',
         SameBlocks, ~ Popping, NEW v, sym_push(v), NewSym(v),
         v.kind \in {"anom", "member", "param"}
  PROVE  Follows
<1>1. ~ (SourceSym(v) /\ v.kind # "param") BY DEF SourceSym, OnChain
<1> QED BY <1>1, StepPushes

\* Frames.
LEMMA TopScoped ==
  ASSUME Inv, Scoped, parse # <<>>
  PROVE  /\ top \in Activation /\ InScope(top) /\ top = parse[Len(parse)]
         /\ Len(parse) \in Nat \ {0}
<1>1. top = parse[Len(parse)] /\ Len(parse) \in Nat \ {0} /\ top \in Activation
  BY TopFine
<1>2. ScopedAt(Len(parse)) BY <1>1 DEF Scoped
<1> QED BY <1>1, <1>2 DEF ScopedAt

LEMMA BlockLocals ==
  ASSUME Inv, ~ NestedFunctions, At("block") PROVE Local # {}
<1>1. parse # <<>> /\ top.at = "block" BY DEF At, top
<1>2. top = parse[Len(parse)] /\ Len(parse) \in Nat \ {0} BY <1>1, TopFine
<1>3. HoldsMarker(parse[Len(parse)]) BY <1>1, <1>2 DEF HoldsMarker
<1>4. Len(parse) \in 1..Len(parse) BY <1>2
<1>5. parse[Len(parse)].s \in Local BY <1>3, <1>4 DEF Inv, MarkersKept
<1> QED BY <1>5

LEMMA DeclGoes ==
  ASSUME Inv, Scoped, parse # <<>>, top.at = "decl",
         NEW f, f.at = "decl", f.where = top.where
  PROVE  GoesOn(f, top)
<1>1. InScope(top) BY TopScoped
<1>2. InScope(f) BY <1>1 DEF InScope
<1> QED BY <1>2 DEF GoesOn, QuietIn, Quiet

LEMMA StatementGoes ==
  ASSUME Inv, Scoped, parse # <<>>, top.at \in {"block", "decl"}
  PROVE  GoesOn(Statement(top), top)
<1>1. PICK t : t = top OBVIOUS
<1>2. t \in Activation BY <1>1, TopFine
<1>3. PICK f : f = Statement(t) OBVIOUS
<1>4. f.at = t.at /\ f.s = t.s /\ f.where = t.where
  <2>1. CASE t.at = "block"
    <3>1. f = [t EXCEPT !.stage = "statements"] BY <1>3, <2>1 DEF Statement
    <3> QED BY <1>2, <3>1, WithStage
  <2>2. CASE t.at # "block" BY <1>3, <2>2 DEF Statement
  <2> QED BY <2>1, <2>2
<1>5. t.at \in {"block", "decl"} BY <1>1
<1>6. SameKind(f, t) BY <1>4, <1>5 DEF SameKind
<1>7. GoesOn(f, t) BY <1>6 DEF GoesOn
<1> QED BY <1>1, <1>3, <1>7

LEMMA NewQuiet ==
  ASSUME NEW f, Quiet(f), f.at = "decl" => f.where # "local" PROVE QuietIn(f)
BY DEF QuietIn, Quiet, InScope

LEMMA DeclarationAlike ==
  ASSUME Inv, Inv', Scoped, SameInnermost, ~ NestedFunctions,
         NEW stage, NEW type, Declares(stage, type)
  PROVE  SameBlocks /\ Scoped' /\ ~ Popping
<1>1. CASE Expects # "nothing" /\ parse' = Append(parse, DeclFrame(Expects, stage, type))
  <2>1. PICK f : f = DeclFrame(Expects, stage, type) OBVIOUS
  <2>2. f.at = "decl" /\ f.where = Expects BY <2>1 DEF DeclFrame
  <2>3. Expects = "local" => At("block") BY DEF Expects
  <2>4. Expects = "local" => Local # {} BY <2>3, BlockLocals
  <2>5. QuietIn(f) BY <2>2, <2>4 DEF QuietIn, Quiet, InScope
  <2>6. ~ Popping BY <1>1 DEF Expects, Popping, At
  <2>7. parse' = Append(parse, f) BY <1>1, <2>1
  <2>8. SameBlocks /\ Scoped' BY <2>5, <2>6, <2>7, AlikeEnter
  <2> QED BY <2>6, <2>8
<1>2. CASE /\ InExpression
           /\ parse' = Append(Append(ButLast(parse), Statement(top)),
                              DeclFrame("sizeof", stage, type))
  <2>1. PICK f : f = Statement(top) OBVIOUS
  <2>2. PICK g : g = DeclFrame("sizeof", stage, type) OBVIOUS
  <2>3. parse # <<>> /\ top.at \in {"block", "decl"} BY <1>2, ExpressionTop
  <2>4. GoesOn(f, top) BY <2>1, <2>3, StatementGoes
  <2>5. g.at = "decl" /\ g.where = "sizeof" BY <2>2 DEF DeclFrame
  <2>6. QuietIn(g) BY <2>5, NewQuiet DEF Quiet
  <2>7. parse' = Append(Append(ButLast(parse), f), g) BY <1>2, <2>1, <2>2
  <2> QED BY <2>3, <2>4, <2>6, <2>7, AlikeGotoEnter
<1> QED BY <1>1, <1>2 DEF Declares

LEMMA BasicTypeFollows ==
  ASSUME ~ NestedFunctions, Sound, Inv', TypesKept',
         BasicType
  PROVE  Follows
<1>0. Inv /\ TypesKept /\ Scoped BY DEF Sound
<1>1. SameWords /\ Global' = Global /\ Local' = Local /\ SameInnermost
  BY NothingNew DEF BasicType

<1>2. Declares("specified", int_type)
  BY DEF BasicType, Declares, Enter, EnterExpr
<1>3. SameBlocks /\ Scoped' /\ ~ Popping BY <1>0, <1>1, <1>2, DeclarationAlike
<1> QED BY <1>1, <1>3, StepStutters

LEMMA StructNameFollows ==
  ASSUME ~ NestedFunctions, Sound, Inv', TypesKept',
         NEW w \in Words, StructName(w)
  PROVE  Follows
<1>0. Inv /\ TypesKept /\ Scoped BY DEF Sound
<1>1. PICK r : r = IF struct_search(w) # 0 THEN struct_search(w) ELSE Fresh
  OBVIOUS
<1>2. PICK type : type = Type("struct", r) OBVIOUS
<1>3. Declares("tagged", type)
  BY <1>1, <1>2 DEF StructName, Declares, Enter, EnterExpr
<1>4. CASE struct_search(w) # 0
  <2>1. SameWords /\ Global' = Global /\ Local' = Local /\ SameInnermost
    BY <1>4, NothingNew DEF StructName
  <2>2. SameBlocks /\ Scoped' /\ ~ Popping BY <1>0, <1>3, <2>1, DeclarationAlike
  <2> QED BY <2>1, <2>2, StepStutters
<1>5. CASE struct_search(w) = 0
  <2>1. PICK v : v = V("tag", w) OBVIOUS
  <2>2. PICK t : t = Type("struct", 0) OBVIOUS
  <2>3. sym_push(v) /\ sym' = Append(sym, NewSymbol(v, t, -1, 0))
    BY <1>5, <2>1, <2>2 DEF StructName
  <2>4. NewSym(v) BY <1>0, <2>3, AppendNew
  <2>5. SameInnermost BY <1>0, <2>3, <2>4, PushAdds
  <2>6. SameBlocks /\ Scoped' /\ ~ Popping BY <1>0, <1>3, <2>5, DeclarationAlike
  <2>7. head[NameOf(v)] = 0 BY <1>5, <2>1 DEF struct_search, NameOf, V
  <2> QED BY <2>3, <2>4, <2>6, <2>7, StepPushes
<1> QED BY <1>4, <1>5

LEMMA IdentifierFollows ==
  ASSUME ~ NestedFunctions, Sound, Inv', TypesKept',
         NEW w \in Words, Identifier(w)
  PROVE  Follows
<1>0. Inv /\ TypesKept /\ Scoped BY DEF Sound
<1>1. SameWords /\ Global' = Global /\ Local' = Local /\ SameInnermost
  BY NothingNew DEF Identifier

<1>2. parse # <<>> /\ top.at = "decl" BY DeclTop DEF Identifier
<1>3. PICK t : t = top OBVIOUS
<1>4. t \in Activation BY <1>0, <1>2, <1>3, TopScoped
<1>5. PICK f : f = [t EXCEPT !.stage = "named", !.word = w] OBVIOUS
<1>6. f.at = "decl" /\ f.where = t.where BY <1>2, <1>3, <1>4, <1>5 DEF Activation
<1>7. Goto(f) BY <1>3, <1>5 DEF Identifier
<1>8. GoesOn(f, top) BY <1>0, <1>2, <1>3, <1>6, DeclGoes
<1>9. SameBlocks /\ Scoped' /\ ~ Popping BY <1>0, <1>1, <1>2, <1>7, <1>8, AlikeGoto
<1> QED BY <1>1, <1>9, StepStutters

LEMMA CommaFollows ==
  ASSUME ~ NestedFunctions, Sound, Inv', TypesKept',
         Comma
  PROVE  Follows
<1>0. Inv /\ TypesKept /\ Scoped BY DEF Sound
<1>1. SameWords /\ Global' = Global /\ Local' = Local /\ SameInnermost
  BY NothingNew DEF Comma

<1>2. parse # <<>> /\ top.at = "decl" BY DeclTop DEF Comma
<1>3. PICK t : t = top OBVIOUS
<1>4. t \in Activation BY <1>0, <1>2, <1>3, TopScoped
<1>5. PICK f : f = [t EXCEPT !.stage = "pointer", !.type = t.base] OBVIOUS
<1>6. f.at = "decl" /\ f.where = t.where BY <1>2, <1>3, <1>4, <1>5 DEF Activation
<1>7. Goto(f) BY <1>3, <1>5 DEF Comma
<1>8. GoesOn(f, top) BY <1>0, <1>2, <1>3, <1>6, DeclGoes
<1>9. SameBlocks /\ Scoped' /\ ~ Popping BY <1>0, <1>1, <1>2, <1>7, <1>8, AlikeGoto
<1> QED BY <1>1, <1>9, StepStutters

LEMMA EndDeclarationFollows ==
  ASSUME ~ NestedFunctions, Sound, Inv', TypesKept',
         EndDeclaration
  PROVE  Follows
<1>0. Inv /\ TypesKept /\ Scoped BY DEF Sound
<1>1. SameWords /\ Global' = Global /\ Local' = Local /\ SameInnermost
  BY NothingNew DEF EndDeclaration

<1>2. parse # <<>> /\ top.at = "decl" /\ Leave BY DeclTop DEF EndDeclaration
<1>3. Quiet(top) BY <1>2 DEF Quiet
<1>4. SameBlocks /\ Scoped' /\ ~ Popping BY <1>0, <1>1, <1>2, <1>3, AlikeLeave
<1> QED BY <1>1, <1>4, StepStutters

LEMMA OpenStructFollows ==
  ASSUME ~ NestedFunctions, Sound, Inv', TypesKept',
         OpenStruct
  PROVE  Follows
<1>0. Inv /\ TypesKept /\ Scoped BY DEF Sound
<1>1. SameWords /\ Global' = Global /\ Local' = Local /\ SameInnermost
  BY NothingNew DEF OpenStruct

<1>2. parse # <<>> /\ top.at = "decl" BY DeclTop DEF OpenStruct
<1>3. PICK t : t = top OBVIOUS
<1>4. t \in Activation BY <1>0, <1>2, <1>3, TopScoped
<1>5. PICK f : f = [t EXCEPT !.stage = "specified"] OBVIOUS
<1>6. f.at = "decl" /\ f.where = t.where BY <1>2, <1>3, <1>4, <1>5 DEF Activation
<1>7. PICK g : g = Frame("struct", "members", t.base.ref, t.base.ref) OBVIOUS
<1>8. g.at = "struct" BY <1>7 DEF Frame
<1>9. QuietIn(g) BY <1>8, NewQuiet DEF Quiet
<1>10. GoesOn(f, top) BY <1>0, <1>2, <1>3, <1>6, DeclGoes
<1>11. parse' = Append(Append(ButLast(parse), f), g)
  BY <1>3, <1>5, <1>7 DEF OpenStruct
<1>12. SameBlocks /\ Scoped' /\ ~ Popping
  BY <1>0, <1>1, <1>2, <1>9, <1>10, <1>11, AlikeGotoEnter
<1> QED BY <1>1, <1>12, StepStutters

LEMMA CloseStructFollows ==
  ASSUME ~ NestedFunctions, Sound, Inv', TypesKept',
         CloseStruct
  PROVE  Follows
<1>0. Inv /\ TypesKept /\ Scoped BY DEF Sound
<1>1. /\ Leave /\ parse # <<>> /\ top.at = "struct" BY DEF CloseStruct, At, top
<1>2. SymbolsSame BY <1>0, CloseStructSame
<1>3. SameWords /\ Global' = Global /\ Local' = Local /\ SameInnermost
  BY <1>2 DEF SymbolsSame, SameWords, Global, Local, Members, SameInnermost
<1>4. Quiet(top) BY <1>1 DEF Quiet
<1>5. SameBlocks /\ Scoped' /\ ~ Popping BY <1>0, <1>1, <1>3, <1>4, AlikeLeave
<1> QED BY <1>3, <1>5, StepStutters

LEMMA OpenParamsFollows ==
  ASSUME ~ NestedFunctions, Sound, Inv', TypesKept',
         OpenParams
  PROVE  Follows
<1>0. Inv /\ TypesKept /\ Scoped BY DEF Sound
<1>1. SameWords /\ Global' = Global /\ Local' = Local /\ SameInnermost
  BY NothingNew DEF OpenParams

<1>2. parse # <<>> /\ top.at = "decl" BY DeclTop DEF OpenParams
<1>3. PICK f : f = Frame("params", "params", 0, 0) OBVIOUS
<1>4. f.at = "params" BY <1>3 DEF Frame
<1>5. QuietIn(f) BY <1>4, NewQuiet DEF Quiet
<1>6. parse' = Append(parse, f) BY <1>3 DEF OpenParams, Enter
<1>7. ~ Popping BY <1>2 DEF Popping, At, top
<1>8. SameBlocks /\ Scoped' BY <1>0, <1>1, <1>5, <1>6, <1>7, AlikeEnter
<1> QED BY <1>1, <1>7, <1>8, StepStutters

LEMMA PointerFollows ==
  ASSUME ~ NestedFunctions, Sound, Inv', TypesKept',
         Pointer
  PROVE  Follows
<1>0. Inv /\ TypesKept /\ Scoped BY DEF Sound
<1>1. parse # <<>> /\ top.at = "decl" BY DeclTop DEF Pointer
<1>2. PICK t : t = top OBVIOUS
<1>3. t \in Activation BY <1>0, <1>1, <1>2, TopScoped
<1>4. PICK type : type = t.type OBVIOUS
<1>5. sym_push(Anonymous) /\ sym' = Append(sym, NewSymbol(Anonymous, type, -1, 0))
  BY <1>2, <1>4 DEF Pointer
<1>6. NewSym(Anonymous) BY <1>0, <1>5, AppendNew
<1>7. SameInnermost BY <1>0, <1>5, <1>6, PushAdds
<1>8. PICK f : f = [t EXCEPT !.stage = "pointer", !.type = Type("ptr", Fresh)]
  OBVIOUS
<1>9. f.at = "decl" /\ f.where = t.where BY <1>1, <1>2, <1>3, <1>8 DEF Activation
<1>10. Goto(f) BY <1>2, <1>8 DEF Pointer
<1>11. GoesOn(f, top) BY <1>0, <1>1, <1>2, <1>9, DeclGoes
<1>12. SameBlocks /\ Scoped' /\ ~ Popping BY <1>0, <1>1, <1>7, <1>10, <1>11, AlikeGoto
<1>13. Anonymous.kind \in {"anom", "member", "param"} BY DEF Anonymous, V
<1> QED BY <1>5, <1>6, <1>12, <1>13, AnonymousPushes

LEMMA ArrayFollows ==
  ASSUME ~ NestedFunctions, Sound, Inv', TypesKept',
         Array
  PROVE  Follows
<1>0. Inv /\ TypesKept /\ Scoped BY DEF Sound
<1>1. parse # <<>> /\ top.at = "decl" BY DeclTop DEF Array
<1>2. PICK t : t = top OBVIOUS
<1>3. t \in Activation BY <1>0, <1>1, <1>2, TopScoped
<1>4. PICK type : type = t.type OBVIOUS
<1>5. sym_push(Anonymous) /\ sym' = Append(sym, NewSymbol(Anonymous, type, 0, 0))
  BY <1>2, <1>4 DEF Array
<1>6. NewSym(Anonymous) BY <1>0, <1>5, AppendNew
<1>7. SameInnermost BY <1>0, <1>5, <1>6, PushAdds
<1>8. PICK f : f = [t EXCEPT !.stage = "complete", !.type = Type("array", Fresh)]
  OBVIOUS
<1>9. f.at = "decl" /\ f.where = t.where BY <1>1, <1>2, <1>3, <1>8 DEF Activation
<1>10. Goto(f) BY <1>2, <1>8 DEF Array
<1>11. GoesOn(f, top) BY <1>0, <1>1, <1>2, <1>9, DeclGoes
<1>12. SameBlocks /\ Scoped' /\ ~ Popping BY <1>0, <1>1, <1>7, <1>10, <1>11, AlikeGoto
<1>13. Anonymous.kind \in {"anom", "member", "param"} BY DEF Anonymous, V
<1> QED BY <1>5, <1>6, <1>12, <1>13, AnonymousPushes

LEMMA DeclareNameFollows ==
  ASSUME ~ NestedFunctions, Sound, Inv', TypesKept',
         DeclareName
  PROVE  Follows
<1>0. Inv /\ TypesKept /\ Scoped BY DEF Sound
<1>1. parse # <<>> /\ top.at = "decl" /\ top.where \in {"global", "local"}
  BY DeclTop DEF DeclareName
<1>2. PICK t : t = top OBVIOUS
<1>3. t \in Activation /\ InScope(t) BY <1>0, <1>1, <1>2, TopScoped
<1>4. PICK f : f = [t EXCEPT !.stage = "done"] OBVIOUS
<1>5. f.at = "decl" /\ f.where = t.where BY <1>1, <1>2, <1>3, <1>4 DEF Activation
<1>6. Goto(f) BY <1>2, <1>4 DEF DeclareName
<1>7. GoesOn(f, top) BY <1>0, <1>1, <1>2, <1>5, DeclGoes
<1>8. CASE Declared(t.word) /\ (t.where = "global" \/ t.type.t = "func")
  <2>1. NoSymbol BY <1>2, <1>8 DEF DeclareName
  <2>2. SameWords /\ Global' = Global /\ Local' = Local /\ SameInnermost
    BY <2>1, NothingNew
  <2>3. SameBlocks /\ Scoped' /\ ~ Popping BY <1>0, <1>1, <1>6, <1>7, <2>2, AlikeGoto
  <2> QED BY <2>2, <2>3, StepStutters
<1>9. CASE ~ (Declared(t.word) /\ (t.where = "global" \/ t.type.t = "func"))
  <2>1. PICK v : v = V("ident", t.word) OBVIOUS
  <2>2. PICK type : type = t.type OBVIOUS
  <2>3. sym_push(v) /\ sym' = Append(sym, NewSymbol(v, type, 0, 0))
    BY <1>2, <1>9, <2>1, <2>2 DEF DeclareName
  <2>4. NewSym(v) BY <1>0, <2>3, AppendNew
  <2>5. SameInnermost BY <1>0, <2>3, <2>4, PushAdds
  <2>6. SameBlocks /\ Scoped' /\ ~ Popping BY <1>0, <1>1, <1>6, <1>7, <2>5, AlikeGoto
  <2>7. v.kind = "ident" BY <2>1 DEF V
  <2>8. Local = {} => head[NameOf(v)] = 0
    <3> SUFFICES ASSUME Local = {} PROVE head[NameOf(v)] = 0 OBVIOUS
    <3>1. t.where = "global" BY <1>1, <1>2, <1>3 DEF InScope
    <3>2. sym_search(t.word) = 0 BY <1>9, <3>1 DEF Declared
    <3> QED BY <2>1, <3>2 DEF sym_search, NameOf, V
  <2>9. SourceSym(v) /\ (v.kind = "tag" \/ Local = {}) => head[NameOf(v)] = 0
    BY <2>7, <2>8
  <2> QED BY <2>3, <2>4, <2>6, <2>9, StepPushes
<1> QED BY <1>8, <1>9

LEMMA MemberFollows ==
  ASSUME ~ NestedFunctions, Sound, Inv', TypesKept',
         Member
  PROVE  Follows
<1>0. Inv /\ TypesKept /\ Scoped BY DEF Sound
<1>1. parse # <<>> /\ top.at = "decl" /\ top.where = "member"
  BY DeclTop DEF Member
<1>2. /\ Len(parse) > 1 /\ parse[Len(parse) - 1].at = "struct" /\ Len(sym) \in Nat
      /\ Table
  BY <1>0, <1>1, TopFine, LiveTyped DEF Inv, Threaded
<1>3. PICK t : t = top OBVIOUS
<1>4. PICK list : list = parse[Len(parse) - 1] OBVIOUS
<1>5. t \in Activation /\ Typed(t.type) BY <1>0, <1>1, <1>3, TopGrows
<1>6. list \in Activation /\ Bounded(list, Len(sym)) /\ FrameAlive(list)
  BY <1>0, <1>2, <1>4, BelowGrows
<1>7. PICK v : v = V("member", t.word) OBVIOUS
<1>8. PICK type : type = t.type OBVIOUS
<1>9. PICK k : k = list.tail OBVIOUS
<1>10. k \in 1..Len(sym)
  <2>1. k # 0 BY <1>2, <1>4, <1>6, <1>9 DEF FrameAlive
  <2>2. k \in Nat /\ k <= Len(sym) BY <1>6, <1>9 DEF Activation, Bounded
  <2> QED BY <1>2, <2>1, <2>2
<1>11. v \in Word /\ type \in Types /\ Resolved(type, Len(sym)) /\ v.kind = "member"
  BY <1>5, <1>7, <1>8, VTyped DEF Activation, Typed, V
<1>12. /\ sym_push(v)
       /\ sym' = [Append(sym, NewSymbol(v, type, 0, 0)) EXCEPT ![k].next = Fresh]
  BY <1>3, <1>4, <1>7, <1>8, <1>9 DEF Member
<1>13. Hooks(v, type, k) BY <1>2, <1>10, <1>11, <1>12, Hooked
<1>14. NewSym(v) BY <1>13 DEF Hooks, NewSym, SameWords
<1>15. SameInnermost BY <1>0, <1>12, <1>14, PushAdds
<1>16. PICK f : f = [list EXCEPT !.tail = Fresh] OBVIOUS
<1>17. PICK g : g = [t EXCEPT !.stage = "done"] OBVIOUS
<1>18. f.at = "struct" /\ g.at = "decl" /\ g.where = "member"
  BY <1>1, <1>2, <1>3, <1>4, <1>5, <1>6, <1>16, <1>17 DEF Activation
<1>19. QuietIn(f) /\ QuietIn(g) BY <1>18, NewQuiet DEF Quiet
<1>20. parse' = Append(Append(ButLast(ButLast(parse)), f), g)
  BY <1>3, <1>4, <1>16, <1>17 DEF Member
<1>21. Quiet(top) /\ Quiet(parse[Len(parse) - 1]) BY <1>1, <1>2 DEF Quiet
<1>22. SameBlocks /\ Scoped' /\ ~ Popping
  BY <1>0, <1>2, <1>15, <1>19, <1>20, <1>21, AlikeMember
<1>23. v.kind \in {"anom", "member", "param"} BY <1>11
<1> QED BY <1>12, <1>14, <1>22, <1>23, AnonymousPushes

LEMMA ParameterFollows ==
  ASSUME ~ NestedFunctions, Sound, Inv', TypesKept',
         Parameter
  PROVE  Follows
<1>0. Inv /\ TypesKept /\ Scoped BY DEF Sound
<1>1. parse # <<>> /\ top.at = "decl" /\ top.where = "param"
  BY DeclTop DEF Parameter
<1>2. /\ Len(parse) > 1 /\ parse[Len(parse) - 1].at = "params" /\ Len(sym) \in Nat
      /\ Table
  BY <1>0, <1>1, TopFine, LiveTyped DEF Inv, Threaded
<1>3. PICK t : t = top OBVIOUS
<1>4. PICK list : list = parse[Len(parse) - 1] OBVIOUS
<1>5. t \in Activation /\ Typed(t.type) BY <1>0, <1>1, <1>3, TopGrows
<1>6. list \in Activation /\ Bounded(list, Len(sym)) BY <1>0, <1>2, <1>4, BelowGrows
<1>7. PICK v : v = V("param", t.word) OBVIOUS
<1>8. PICK type : type = t.type OBVIOUS
<1>9. PICK q : q = list.tail OBVIOUS
<1>10. v \in Word /\ type \in Types /\ Resolved(type, Len(sym)) /\ v.kind = "param"
  BY <1>5, <1>7, <1>8, VTyped DEF Activation, Typed, V
<1>11. q \in Nat /\ q <= Len(sym) BY <1>6, <1>9 DEF Activation, Bounded
<1>12. sym_push(v) BY <1>3, <1>7 DEF Parameter
<1>13. NewSym(v)
  <2>1. CASE q = 0
    <3>1. sym' = Append(sym, NewSymbol(v, type, 0, 0))
      BY <1>3, <1>4, <1>7, <1>8, <1>9, <2>1 DEF Parameter
    <3> QED BY <1>0, <3>1, AppendNew
  <2>2. CASE q # 0
    <3>1. sym' = [Append(sym, NewSymbol(v, type, 0, 0)) EXCEPT ![q].next = Fresh]
      BY <1>3, <1>4, <1>7, <1>8, <1>9, <2>2 DEF Parameter
    <3>2. q \in 1..Len(sym) BY <1>2, <1>11, <2>2
    <3>3. Hooks(v, type, q) BY <1>2, <1>10, <3>1, <3>2, Hooked
    <3> QED BY <3>3 DEF Hooks, NewSym, SameWords
  <2> QED BY <2>1, <2>2
<1>14. SameInnermost BY <1>0, <1>12, <1>13, PushAdds
<1>15. PICK n : n = Fresh OBVIOUS
<1>16. PICK s : s = IF list.s = 0 THEN n ELSE list.s OBVIOUS
<1>17. PICK f : f = [list EXCEPT !.s = s, !.tail = n] OBVIOUS
<1>18. f.at = "params" BY <1>2, <1>4, <1>6, <1>17 DEF Activation
<1>19. parse' = Append(ButLast(ButLast(parse)), f)
  BY <1>3, <1>4, <1>15, <1>16, <1>17 DEF Parameter
<1>20. QuietIn(f) BY <1>18, NewQuiet DEF Quiet
<1>21. Quiet(top) /\ Quiet(parse[Len(parse) - 1]) BY <1>1, <1>2 DEF Quiet
<1>22. SameBlocks /\ Scoped' /\ ~ Popping
  BY <1>0, <1>2, <1>14, <1>19, <1>20, <1>21, AlikeMerge
<1>23. v.kind \in {"anom", "member", "param"} BY <1>10
<1> QED BY <1>12, <1>13, <1>22, <1>23, AnonymousPushes

LEMMA CloseParamsFollows ==
  ASSUME ~ NestedFunctions, Sound, Inv', TypesKept',
         CloseParams
  PROVE  Follows
<1>0. Inv /\ TypesKept /\ Scoped BY DEF Sound
<1>1. parse # <<>> /\ top.at = "params" BY DEF CloseParams, At, top
<1>2. Len(parse) > 1 /\ parse[Len(parse) - 1].at = "decl" /\ Len(parse) \in Nat
  BY <1>0, <1>1, TopFine DEF Inv
<1>3. PICK t : t = top OBVIOUS
<1>4. PICK decl : decl = parse[Len(parse) - 1] OBVIOUS
<1>5. decl \in Activation /\ decl.at = "decl" BY <1>0, <1>2, <1>4, BelowGrows
<1>6. PICK type : type = decl.type OBVIOUS
<1>7. PICK s : s = t.s OBVIOUS
<1>8. sym_push(Anonymous) /\ sym' = Append(sym, NewSymbol(Anonymous, type, 0, s))
  BY <1>3, <1>4, <1>6, <1>7 DEF CloseParams, FirstParameter
<1>9. NewSym(Anonymous) BY <1>0, <1>8, AppendNew
<1>10. SameInnermost BY <1>0, <1>8, <1>9, PushAdds
<1>11. PICK f : f = [decl EXCEPT !.stage = "complete", !.type = Type("func", Fresh)]
  OBVIOUS
<1>12. f.at = "decl" /\ f.where = decl.where BY <1>5, <1>11 DEF Activation
<1>13. parse' = Append(ButLast(ButLast(parse)), f)
  BY <1>4, <1>11 DEF CloseParams
<1>14. QuietIn(f)
  <2>1. Len(parse) - 1 \in 1..Len(parse) BY <1>2
  <2>2. ScopedAt(Len(parse) - 1) BY <1>0, <2>1 DEF Scoped
  <2>3. InScope(decl) BY <1>4, <2>2 DEF ScopedAt
  <2> QED BY <1>5, <1>12, <2>3 DEF QuietIn, Quiet, InScope
<1>15. Quiet(top) /\ Quiet(parse[Len(parse) - 1]) BY <1>1, <1>2 DEF Quiet
<1>16. SameBlocks /\ Scoped' /\ ~ Popping
  BY <1>0, <1>2, <1>10, <1>13, <1>14, <1>15, AlikeMerge
<1>17. Anonymous.kind \in {"anom", "member", "param"} BY DEF Anonymous, V
<1> QED BY <1>8, <1>9, <1>16, <1>17, AnonymousPushes

LEMMA PointerInExpressionFollows ==
  ASSUME ~ NestedFunctions, Sound, Inv', TypesKept',
         PointerInExpression
  PROVE  Follows
<1>0. Inv /\ TypesKept /\ Scoped BY DEF Sound
<1>1. InExpression /\ Goto(Statement(top)) BY DEF PointerInExpression
<1>2. parse # <<>> /\ top.at \in {"block", "decl"} BY <1>1, ExpressionTop
<1>3. PICK f : f = Statement(top) OBVIOUS
<1>4. GoesOn(f, top) BY <1>0, <1>2, <1>3, StatementGoes
<1>5. Goto(f) BY <1>1, <1>3
<1>6. /\ sym_push(Anonymous)
      /\ sym' = Append(sym, NewSymbol(Anonymous, int_type, -1, 0))
  BY DEF PointerInExpression
<1>7. NewSym(Anonymous) BY <1>0, <1>6, AppendNew
<1>8. SameInnermost BY <1>0, <1>6, <1>7, PushAdds
<1>9. SameBlocks /\ Scoped' /\ ~ Popping BY <1>0, <1>2, <1>4, <1>5, <1>8, AlikeGoto
<1>10. Anonymous.kind \in {"anom", "member", "param"} BY DEF Anonymous, V
<1> QED BY <1>6, <1>7, <1>9, <1>10, AnonymousPushes

LEMMA PrologFollows ==
  ASSUME ~ NestedFunctions, Sound, Inv', TypesKept',
         Prolog
  PROVE  Follows
<1>0. Inv /\ TypesKept /\ Scoped BY DEF Sound
<1>1. parse # <<>> /\ top.at = "func" /\ top.stage = "prolog"
  BY DEF Prolog, At, top
<1>2. PICK t : t = top OBVIOUS
<1>3. t \in Activation /\ InScope(t) BY <1>0, <1>1, <1>2, TopScoped
<1>4. Local # {} BY <1>1, <1>2, <1>3 DEF InScope
<1>5. PICK v : v = V("ident", sym[t.tail].v.word) OBVIOUS
<1>6. PICK type : type = sym[t.tail].type OBVIOUS
<1>7. sym_push(v) /\ sym' = Append(sym, NewSymbol(v, type, 0, 0))
  BY <1>2, <1>5, <1>6 DEF Prolog
<1>8. NewSym(v) BY <1>0, <1>7, AppendNew
<1>9. SameInnermost BY <1>0, <1>7, <1>8, PushAdds
<1>10. PICK n : n = sym[t.tail].next OBVIOUS
<1>11. PICK f : f = [t EXCEPT !.tail = n] OBVIOUS
<1>12. /\ f.at = t.at /\ f.stage = t.stage /\ f.s = t.s /\ f.where = t.where
  BY <1>3, <1>11 DEF Activation
<1>13. Goto(f) BY <1>2, <1>10, <1>11 DEF Prolog
<1>14. GoesOn(f, top)
  <2>1. SameKind(f, t) BY <1>1, <1>2, <1>12 DEF SameKind
  <2> QED BY <1>2, <2>1 DEF GoesOn
<1>15. SameBlocks /\ Scoped' /\ ~ Popping BY <1>0, <1>1, <1>9, <1>13, <1>14, AlikeGoto
<1>16. v.kind # "tag" BY <1>5 DEF V
<1> QED BY <1>4, <1>7, <1>8, <1>15, <1>16, StepPushes

LEMMA FuncPushAdds ==
  ASSUME Inv, NEW w, func_sym_push(w), NEW v, v = V("ident", w), NewSym(v)
  PROVE  /\ Adds(v) /\ Heads(v) /\ Len(sym) < MaxSyms /\ SameInnermost
         /\ Global' = Global \cup {Len(sym) + 1} /\ Local' = Local
<1>1. Table /\ Len(sym) \in Nat BY LiveTyped DEF Inv, Threaded
<1>2. Stack(global_sym_stack, Len(sym)) BY <1>1 DEF Table
<1>3. global_sym_stack' = Append(global_sym_stack, Len(sym) + 1) /\ Local' = Local
  BY DEF func_sym_push, PushGlobal, Fresh, Local, Members
<1>4. Global' = Global \cup {Len(sym) + 1} BY <1>1, <1>2, <1>3, StackPush DEF Global
<1>5. OnChain(v) /\ NameOf(v) = <<"ident", w>> BY DEF OnChain, NameOf, V
<1>6. Heads(v) /\ Len(sym) < MaxSyms BY <1>5 DEF func_sym_push, Heads, Fresh
<1>7. Adds(v) BY <1>3, <1>4 DEF Adds, NewSym
<1> QED BY <1>3, <1>4, <1>6, <1>7 DEF SameInnermost

LEMMA UndeclaredFollows ==
  ASSUME ~ NestedFunctions, Sound, Inv', TypesKept',
         NEW w \in Words, Undeclared(w)
  PROVE  Follows
<1>0. Inv /\ TypesKept /\ Scoped BY DEF Sound
<1>1. InExpression /\ Goto(Statement(top)) /\ func_sym_push(w) BY DEF Undeclared
<1>2. parse # <<>> /\ top.at \in {"block", "decl"} BY <1>1, ExpressionTop
<1>3. PICK f : f = Statement(top) OBVIOUS
<1>4. GoesOn(f, top) BY <1>0, <1>2, <1>3, StatementGoes
<1>5. Goto(f) BY <1>1, <1>3
<1>6. PICK v : v = V("ident", w) OBVIOUS
<1>7. sym' = Append(sym, NewSymbol(v, default_func_type, 0, 0))
  BY <1>6 DEF Undeclared
<1>8. NewSym(v) BY <1>0, <1>7, AppendNew
<1>9. /\ Adds(v) /\ Heads(v) /\ Len(sym) < MaxSyms /\ SameInnermost
      /\ Global' = Global \cup {Len(sym) + 1}
  BY <1>0, <1>1, <1>6, <1>8, FuncPushAdds
<1>10. SameBlocks /\ Scoped' /\ ~ Popping BY <1>0, <1>2, <1>4, <1>5, <1>9, AlikeGoto
<1>11. head[NameOf(v)] = 0
  BY <1>6 DEF Undeclared, Declared, sym_search, NameOf, V
<1>12. Sound' BY <1>10 DEF Sound
<1>13. Simulated BY <1>6, <1>9, <1>10, <1>11, <1>12, DeclaresFunction
<1> QED BY <1>12, <1>13 DEF Follows

\* The frame of a function is the outermost one.
LEMMA FunctionFrame ==
  ASSUME Inv, parse # <<>>, Len(parse) = 1, top.at \in {"decl", "func"},
         NEW f, f.at = "func", Goto(f)
  PROVE  SameBlocks /\ ~ Popping /\ Len(parse') = 1 /\ parse'[1] = f /\ Blocks = {}
<1>1. PICK S : S = Activation \cup {f} OBVIOUS
<1>2. parse \in Seq(S) /\ f \in S BY <1>1, AnySeq DEF Inv
<1>3. Len(parse') = 1 /\ parse'[1] = f BY <1>2, Replaced DEF Goto
<1>4. top = parse[1] BY TopFine
<1>5. Blocks = {} /\ Blocks' = {} BY <1>3, <1>4 DEF Blocks
<1>6. ~ Popping /\ ~ Popping' BY <1>3 DEF Popping, At, top, Last
<1> QED BY <1>3, <1>5, <1>6 DEF SameBlocks

LEMMA DefineFunctionFollows ==
  ASSUME ~ NestedFunctions, Sound, Inv', TypesKept',
         DefineFunction
  PROVE  Follows
<1>0. Inv /\ TypesKept /\ Scoped BY DEF Sound
<1>1. parse # <<>> /\ Len(parse) = 1 /\ top.at = "decl" /\ Local = {} /\ Live = Global
  BY <1>0, DefinedOutermost
<1>2. PICK t : t = top OBVIOUS
<1>3. t \in Activation /\ Typed(t.type) BY <1>0, <1>1, <1>2, TopGrows
<1>4. PICK w : w = t.word OBVIOUS
<1>5. PICK type : type = t.type OBVIOUS
<1>6. w \in AllWords /\ type \in Types BY <1>3, <1>4, <1>5 DEF Activation, Typed
<1>7. Threaded /\ Table /\ Live \subseteq 1..Len(sym)
  BY <1>0, LiveTyped DEF Inv, Threaded
<1>8. PICK s : s = IF Declared(w) THEN sym_search(w) ELSE Fresh OBVIOUS
<1>9. PICK f : f = Frame("func", "enter", s, 0) OBVIOUS
<1>10. f.at = "func" /\ f.stage = "enter" BY <1>9 DEF Frame
<1>11. Goto(f) BY <1>2, <1>4, <1>8, <1>9 DEF DefineFunction
<1>12. SameBlocks /\ ~ Popping /\ Len(parse') = 1 /\ parse'[1] = f
  BY <1>0, <1>1, <1>10, <1>11, FunctionFrame
<1>13. Local' = {} => Scoped'
  <2> SUFFICES ASSUME Local' = {}, NEW i \in 1..Len(parse') PROVE ScopedAt(i)'
    BY DEF Scoped
  <2>1. i = 1 BY <1>12
  <2> QED BY <1>10, <1>12, <2>1 DEF ScopedAt, InScope
<1>14. CASE Declared(w)
  <2>1. PICK k : k = sym_search(w) OBVIOUS
  <2>2. k \in 1..Len(sym) BY <1>6, <1>7, <1>14, <2>1, NameFound
  <2>3. /\ sym' = [sym EXCEPT ![k].type = type]
        /\ UNCHANGED <<global_sym_stack, local_sym_stack>>
    BY <1>2, <1>4, <1>5, <1>14, <2>1 DEF DefineFunction
  <2>4. SameWords BY <1>6, <1>7, <2>2, <2>3, TypeReplaced DEF SameWords
  <2>5. Global' = Global /\ Local' = Local BY <2>3 DEF Global, Local, Members
  <2>6. Scoped' BY <1>1, <1>13, <2>5
  <2> QED BY <1>12, <2>4, <2>5, <2>6, StepStutters
<1>15. CASE ~ Declared(w)
  <2>1. PICK v : v = V("ident", w) OBVIOUS
  <2>2. func_sym_push(w) /\ sym' = Append(sym, NewSymbol(v, type, 0, 0))
    BY <1>2, <1>4, <1>5, <1>15, <2>1 DEF DefineFunction
  <2>3. NewSym(v) BY <1>0, <2>2, AppendNew
  <2>4. /\ Adds(v) /\ Heads(v) /\ Len(sym) < MaxSyms /\ SameInnermost
        /\ Global' = Global \cup {Len(sym) + 1} /\ Local' = Local
    BY <1>0, <2>1, <2>2, <2>3, FuncPushAdds
  <2>5. Scoped' BY <1>1, <1>13, <2>4
  <2>6. Sound' BY <2>5 DEF Sound
  <2>7. CASE w \in Words
    <3>1. head[NameOf(v)] = 0 BY <1>15, <2>1 DEF Declared, sym_search, NameOf, V
    <3>2. Simulated BY <1>12, <2>1, <2>4, <2>6, <2>7, <3>1, DeclaresFunction
    <3> QED BY <2>6, <3>2 DEF Follows
  <2>8. CASE w \notin Words
    <3>1. ~ SourceSym(v) BY <2>1, <2>8 DEF SourceSym, V
    <3>2. Declarations' = Declarations BY <1>0, <1>12, <2>4, <3>1, DeclsAdded
    <3>3. Simulated BY <1>12, <2>4, <2>6, <3>2, Stutters
    <3> QED BY <2>6, <3>3 DEF Follows
  <2> QED BY <2>7, <2>8
<1> QED BY <1>14, <1>15

LEMMA EnterBodyFollows ==
  ASSUME ~ NestedFunctions, Sound, Inv', TypesKept',
         EnterBody
  PROVE  Follows
<1>0. Inv /\ TypesKept /\ Scoped BY DEF Sound
<1>1. parse # <<>> /\ top.at = "func" /\ top.stage = "enter" BY DEF EnterBody, At, top
<1>2. PICK t : t = top OBVIOUS
<1>3. /\ t \in Activation /\ InScope(t) /\ t = parse[Len(parse)]
      /\ Len(parse) \in Nat \ {0}
  BY <1>0, <1>1, <1>2, TopScoped
<1>4. Local = {} BY <1>1, <1>2, <1>3 DEF InScope
<1>5. Len(parse) = 1
  <2>1. Len(parse) \in 1..Len(parse) BY <1>3
  <2>2. Placed(parse, Len(parse)) BY <1>0, <2>1, FrameTyped
  <2>3. Outermost(parse[Len(parse)]) BY <1>1, <1>2, <1>3 DEF Outermost
  <2> QED BY <2>2, <2>3 DEF Placed
<1>6. PICK n : n = sym[sym[t.s].type.ref].next OBVIOUS
<1>7. PICK f : f = [t EXCEPT !.stage = "prolog", !.tail = n] OBVIOUS
<1>8. f.at = "func" /\ f.stage = "prolog" BY <1>1, <1>2, <1>3, <1>7 DEF Activation
<1>9. Goto(f) BY <1>2, <1>6, <1>7 DEF EnterBody
<1>10. SameBlocks /\ ~ Popping /\ Len(parse') = 1 /\ parse'[1] = f /\ Blocks = {}
  BY <1>0, <1>1, <1>5, <1>8, <1>9, FunctionFrame
<1>11. NewSym(Anonymous)
  <2>1. sym' = Append(sym, NewSymbol(Anonymous, int_type, 0, 0)) BY DEF EnterBody
  <2> QED BY <1>0, <2>1, AppendNew
<1>12. Local' = Local \cup {Len(sym) + 1} /\ Global' = Global
  <2>1. Table /\ Len(sym) \in Nat BY <1>0, LiveTyped DEF Inv, Threaded
  <2>2. local_sym_stack' = Append(local_sym_stack, Len(sym) + 1) /\ Global' = Global
    BY DEF EnterBody, PushLocal, Fresh, Global, Members
  <2>3. Stack(local_sym_stack, Len(sym)) BY <2>1 DEF Table
  <2> QED BY <2>1, <2>2, <2>3, StackPush DEF Local
<1>13. Scoped'
  <2> SUFFICES ASSUME NEW i \in 1..Len(parse') PROVE ScopedAt(i)' BY DEF Scoped
  <2>1. i = 1 BY <1>10
  <2>2. Local' # {} BY <1>12
  <2> QED BY <1>8, <1>10, <2>1, <2>2 DEF ScopedAt, InScope
<1>14. Sound' BY <1>13 DEF Sound
<1>15. Declarations' = Declarations
  <2>1. Adds(Anonymous) BY <1>11, <1>12 DEF Adds, NewSym
  <2>2. ~ SourceSym(Anonymous) BY DEF SourceSym, OnChain, Anonymous, V
  <2> QED BY <1>0, <1>10, <2>1, <2>2, DeclsAdded
<1>16. Found' = Found BY <1>0, <1>15, FoundSame
<1>17. Depth' = Depth + 1
  <2>1. Depth = 1 BY <1>0, <1>4, <1>10, DepthIs
  <2>2. DepthRight' BY <1>14, DepthRightNext
  <2>3. Depth' = 2 + Cardinality(Blocks')
    BY <1>10, <1>12, <2>2 DEF DepthRight, SameBlocks
  <2>4. Blocks' = {} BY <1>10 DEF SameBlocks
  <2>5. Cardinality(Blocks') = 0 BY <2>4, FS_EmptySet
  <2> QED BY <2>1, <2>3, <2>5
<1>18. Scopes!EnterScope BY <1>15, <1>16, <1>17 DEF Scopes!EnterScope
<1>19. Simulated BY <1>18 DEF Simulated, Scopes!Next
<1> QED BY <1>14, <1>19 DEF Follows

-----------------------------------------------------------------------------
(* The actions that begin and end a scope, and sym_pop.                    *)

LEMMA DeclSame ==
  ASSUME NEW x, x \in Global' <=> x \in Global, Inside(x)' = Inside(x),
         sym'[x].v = sym[x].v
  PROVE  DeclOf(x)' = DeclOf(x)
<1>1. ScopeOf(x) = IF x \in Global THEN 1 ELSE 2 + Cardinality(Inside(x))
  BY DEF ScopeOf, Inside
<1>2. ScopeOf(x)' = IF x \in Global' THEN 1 ELSE 2 + Cardinality(Inside(x)')
  BY DEF ScopeOf, Inside
<1>3. ScopeOf(x)' = ScopeOf(x) BY <1>1, <1>2
<1> QED BY <1>3 DEF DeclOf, NameOf

LEMMA StayingSame ==
  ASSUME \A x : x \in Staying' <=> x \in Staying, \A x \in Staying : DeclOf(x)' = DeclOf(x)
  PROVE  Declarations' = Declarations
<1>1. PICK N : N = {} OBVIOUS
<1>2. Staying' = Staying \cup N BY <1>1
<1>3. Declarations' = Declarations \cup {DeclOf(x)' : x \in N} BY <1>2, DeclsMapped
<1> QED BY <1>1, <1>3

\* compound_statement begins: a block more, with the newest symbol as its marker.
LEMMA BlockBegins ==
  ASSUME ~ NestedFunctions, Sound, Inv', TypesKept', NoSymbol,
         parse # <<>>, local_sym_stack # <<>>,
         NEW f, f.at \in {"func", "block"}, SameKind(f, top),
         NEW g, g = BlockFrame, parse' = Append(Append(ButLast(parse), f), g)
  PROVE  Follows
<1>0. Inv /\ TypesKept /\ Scoped BY DEF Sound
<1>1. SameWords /\ Global' = Global /\ Local' = Local /\ sym' = sym
  BY NothingNew DEF NoSymbol
<1>2. Table /\ Live \subseteq 1..Len(sym) /\ Len(sym) \in Nat
  BY <1>0, LiveTyped DEF Inv, Threaded
<1>3. g.at = "block" /\ g.s \in Local /\ \A x \in Local : x <= g.s
  BY <1>2, NewBlock
<1>4. PICK k : k = Len(parse) OBVIOUS
<1>5. k \in Nat \ {0} /\ top = parse[k] BY <1>0, <1>4, TopFine
<1>6. PICK S : S = Activation \cup {f, g} OBVIOUS
<1>7. parse \in Seq(S) /\ f \in S /\ g \in S BY <1>0, <1>6, AnySeq DEF Inv
<1>8. PICK r : r = Append(ButLast(parse), f) OBVIOUS
<1>9. r \in Seq(S) /\ Len(r) = k /\ r[k] = f /\ Agree(parse, r, k - 1)
  BY <1>4, <1>7, <1>8, Replaced
<1>10. parse' = Append(r, g) BY <1>8
<1>11. Len(parse') = k + 1 /\ parse'[k + 1] = g /\ Agree(r, parse', k)
  BY <1>7, <1>9, <1>10, Longer
<1>12. parse'[k] = f /\ \A i \in 1..(k - 1) : parse'[i] = parse[i]
  BY <1>5, <1>9, <1>11 DEF Agree
<1>13. SameKind(f, parse[k]) BY <1>5
<1>14. ASSUME NEW i \in 1..k
       PROVE  parse'[i].at = parse[i].at /\ parse'[i].s = parse[i].s /\ ScopedAt(i)'
  <2>1. ScopedAt(i) BY <1>0, <1>4 DEF Scoped
  <2>2. CASE i = k
    BY <1>1, <1>12, <1>13, <2>1, <2>2 DEF SameKind, ScopedAt, InScope
  <2>3. CASE i # k
    <3>1. i \in 1..(k - 1) BY <1>5, <2>3
    <3> QED BY <1>1, <1>12, <2>1, <3>1 DEF ScopedAt, InScope
  <2> QED BY <2>2, <2>3
<1>15. Scoped'
  <2> SUFFICES ASSUME NEW i \in 1..Len(parse') PROVE ScopedAt(i)' BY DEF Scoped
  <2>1. CASE i = k + 1 BY <1>3, <1>11, <2>1 DEF ScopedAt, InScope
  <2>2. CASE i # k + 1
    <3>1. i \in 1..k BY <1>5, <1>11, <2>2
    <3> QED BY <1>14, <3>1
  <2> QED BY <2>1, <2>2
<1>16. Sound' BY <1>15 DEF Sound
<1>17. Blocks' = Blocks \cup {k + 1} /\ k + 1 \notin Blocks
       /\ \A i \in Blocks : parse'[i].s = parse[i].s
  <2>1. Blocks = {i \in 1..k : parse[i].at = "block"} BY <1>4 DEF Blocks
  <2>2. Blocks' = {i \in 1..(k + 1) : parse'[i].at = "block"} BY <1>11 DEF Blocks
  <2>3. \A i \in 1..(k + 1) : i \in 1..k \/ i = k + 1 BY <1>5
  <2>4. k + 1 \in 1..(k + 1) /\ k + 1 \notin 1..k /\ \A i \in 1..k : i \in 1..(k + 1)
    BY <1>5
  <2> QED BY <1>3, <1>11, <1>14, <2>1, <2>2, <2>3, <2>4
<1>18. top.at # "pop" BY DEF SameKind
<1>19. ~ Popping BY <1>18 DEF Popping, At, top
<1>20. ~ Popping'
  <2>1. Last(parse') = g BY <1>11 DEF Last
  <2> QED BY <1>3, <2>1 DEF Popping, At
<1>21. ASSUME NEW x \in Live PROVE DeclOf(x)' = DeclOf(x)
  <2>1. sym'[x].v = sym[x].v BY <1>1
  <2>2. CASE x \in Global
    <3>1. ScopeOf(x) = 1 BY <2>2 DEF ScopeOf
    <3>2. ScopeOf(x)' = 1 BY <1>1, <2>2 DEF ScopeOf
    <3> QED BY <2>1, <3>1, <3>2 DEF DeclOf, NameOf
  <2>3. CASE x \notin Global
    <3>1. x \in Local /\ x \in Nat /\ g.s \in Nat BY <1>2, <1>3, <2>3 DEF Live
    <3>2. ~ (parse'[k + 1].s < x) BY <1>3, <1>11, <3>1
    <3>3. Inside(x)' = {i \in Blocks' : parse'[i].s < x} BY DEF Inside
    <3>4. Inside(x)' = Inside(x) BY <1>17, <3>2, <3>3 DEF Inside
    <3> QED BY <1>1, <2>1, <3>4, DeclSame
  <2> QED BY <2>2, <2>3
<1>22. Declarations' = Declarations
  <2>1. \A x : x \in Staying' <=> x \in Staying
    BY <1>1, <1>19, <1>20 DEF Staying, Stays, Live, OnChain
  <2>2. \A x \in Staying : DeclOf(x)' = DeclOf(x) BY <1>21 DEF Staying
  <2> QED BY <2>1, <2>2, StayingSame
<1>23. Found' = Found BY <1>0, <1>22, FoundSame
<1>24. Depth' = Depth + 1
  <2>1. Depth = 2 + Cardinality(Blocks) BY <1>0, <1>3, <1>19, DepthIs
  <2>2. DepthRight' BY <1>16, DepthRightNext
  <2>3. Depth' = 2 + Cardinality(Blocks') BY <1>1, <1>3, <1>20, <2>2 DEF DepthRight
  <2>4. IsFiniteSet(Blocks) /\ Cardinality(Blocks) \in Nat BY <1>0, BlocksFinite
  <2>5. PICK B : B = Blocks OBVIOUS
  <2>6. Cardinality(B \cup {k + 1}) = Cardinality(B) + 1
    BY <1>17, <2>4, <2>5, FS_AddElement
  <2>7. Cardinality(Blocks') = Cardinality(Blocks) + 1 BY <1>17, <2>5, <2>6
  <2> QED BY <2>1, <2>3, <2>4, <2>7
<1>25. Scopes!EnterScope BY <1>22, <1>23, <1>24 DEF Scopes!EnterScope
<1>26. Simulated BY <1>25 DEF Simulated, Scopes!Next
<1> QED BY <1>16, <1>26 DEF Follows

LEMMA FuncBlockFollows ==
  ASSUME ~ NestedFunctions, Sound, Inv', TypesKept',
         FuncBlock
  PROVE  Follows
<1>0. Inv /\ TypesKept /\ Scoped BY DEF Sound
<1>1. NoSymbol /\ parse # <<>> /\ top.at = "func" /\ top.stage = "prolog"
  BY DEF FuncBlock, At, top
<1>2. PICK t : t = top OBVIOUS
<1>3. t \in Activation /\ Running(t) BY <1>0, <1>1, <1>2, TopFine
<1>4. local_sym_stack # <<>> BY <1>1, <1>2, <1>3 DEF Running
<1>5. PICK f : f = [t EXCEPT !.stage = "body"] OBVIOUS
<1>6. /\ f.at = "func" /\ f.s = t.s /\ f.where = t.where /\ f.stage = "body"
  BY <1>1, <1>2, <1>3, <1>5 DEF Activation
<1>7. SameKind(f, t) BY <1>1, <1>2, <1>6 DEF SameKind
<1>8. PICK g : g = BlockFrame OBVIOUS
<1>9. parse' = Append(Append(ButLast(parse), f), g)
  BY <1>2, <1>5, <1>8 DEF FuncBlock
<1>10. f.at \in {"func", "block"} /\ SameKind(f, top) BY <1>2, <1>6, <1>7
<1> QED BY <1>1, <1>4, <1>8, <1>9, <1>10, BlockBegins

LEMMA OpenBlockFollows ==
  ASSUME ~ NestedFunctions, Sound, Inv', TypesKept',
         OpenBlock
  PROVE  Follows
<1>0. Inv /\ TypesKept /\ Scoped BY DEF Sound
<1>1. NoSymbol /\ parse # <<>> /\ top.at = "block" /\ local_sym_stack # <<>>
  BY DEF OpenBlock, At, top
<1>2. PICK t : t = top OBVIOUS
<1>3. t \in Activation BY <1>0, <1>1, <1>2, TopFine
<1>4. PICK f : f = Statement(t) OBVIOUS
<1>5. f.at = "block" /\ f.s = t.s /\ f.where = t.where
  <2>1. f = [t EXCEPT !.stage = "statements"] BY <1>1, <1>2, <1>4 DEF Statement
  <2> QED BY <1>1, <1>2, <1>3, <2>1, WithStage
<1>6. SameKind(f, t) BY <1>1, <1>2, <1>5 DEF SameKind
<1>7. PICK g : g = BlockFrame OBVIOUS
<1>8. parse' = Append(Append(ButLast(parse), f), g)
  BY <1>2, <1>4, <1>7 DEF OpenBlock, EnterExpr
<1>9. f.at \in {"func", "block"} /\ SameKind(f, top) BY <1>2, <1>5, <1>6
<1> QED BY <1>1, <1>7, <1>8, <1>9, BlockBegins

\* What is above symbol s is gone when sym_pop to s begins.
LEMMA ScopeLeft ==
  ASSUME Inv, Inv', ~ Popping, NEW s,
         \A x : Stays(x)' <=> x \in Global \/ x <= s,
         sym' = sym, Global' = Global, Local' = Local,
         Depth \in Nat, Depth > 1, Depth' = Depth - 1,
         \A x \in Live : ScopeOf(x) < Depth <=> x \in Global \/ x <= s,
         \A x \in Live : x \in Global \/ x <= s => DeclOf(x)' = DeclOf(x)
  PROVE  Simulated
<1>1. Live' = Live BY DEF Live
<1>2. \A x : Stays(x) BY DEF Stays
<1>3. PICK T : T = {x \in Staying : ScopeOf(x) < Depth} OBVIOUS
<1>4. \A x \in Staying : x \in Live BY DEF Staying
<1>5. \A x : x \in Staying' <=> x \in T
  <2> SUFFICES ASSUME NEW x PROVE x \in Staying' <=> x \in T OBVIOUS
  <2>1. x \in Staying' <=> x \in Live /\ SourceSym(sym[x].v) /\ (x \in Global \/ x <= s)
    <3>1. Stays(x)' <=> x \in Global \/ x <= s OBVIOUS
    <3> QED BY <1>1, <3>1 DEF Staying, SourceSym, OnChain
  <2>2. x \in Staying <=> x \in Live /\ SourceSym(sym[x].v)
    BY <1>2, StayingIs
  <2> QED BY <1>3, <2>1, <2>2
<1>6. \A x \in T : DeclOf(x)' = DeclOf(x) BY <1>3, <1>4
<1>7. Declarations' = {d \in Declarations : d.depth < Depth}
  <2>1. Declarations = {DeclOf(x) : x \in Staying} BY DEF Declarations, DeclOf
  <2>2. Declarations' = {DeclOf(x)' : x \in Staying'} BY DEF Declarations, DeclOf
  <2>3. Declarations' = {DeclOf(x) : x \in T} BY <1>5, <1>6, <2>2
  <2>4. \A x : DeclOf(x).depth = ScopeOf(x) BY DEF DeclOf
  <2>5. ASSUME NEW d \in Declarations' PROVE d \in Declarations /\ d.depth < Depth
    <3>1. PICK x \in T : d = DeclOf(x) BY <2>3
    <3> QED BY <1>3, <2>1, <2>4, <3>1
  <2>6. ASSUME NEW d \in Declarations, d.depth < Depth PROVE d \in Declarations'
    <3>1. PICK x \in Staying : d = DeclOf(x) BY <2>1
    <3>2. x \in T BY <1>3, <2>4, <2>6, <3>1
    <3> QED BY <2>3, <3>1, <3>2
  <2> QED BY <2>5, <2>6
<1>8. LookupsRight' BY FoundRightNext
<1>9. Found' = [n \in SourceNames |-> Scopes!Lookup(Declarations', n)]
  BY <1>8 DEF LookupsRight
<1>10. Scopes!LeaveScope BY <1>7, <1>9 DEF Scopes!LeaveScope
<1> QED BY <1>10 DEF Simulated, Scopes!Next

\* The innermost block, or a function around its block, is being left.
LEMMA ScopeEnds ==
  ASSUME ~ NestedFunctions, Sound, Inv', TypesKept', parse # <<>>,
         NEW s \in Nat, PopTo(s),
         \/ top.at = "block" /\ top.s = s
         \/ top.at = "func" /\ top.stage = "body" /\ s = 0
  PROVE  Follows
<1>0. Inv /\ TypesKept /\ Scoped BY DEF Sound
<1>1. Global' = Global /\ Local' = Local /\ sym' = sym
  BY NothingNew DEF PopTo, NoSymbol
<1>2. Table /\ Live \subseteq 1..Len(sym) /\ Len(sym) \in Nat
  BY <1>0, LiveTyped DEF Inv, Threaded
<1>3. PICK k : k = Len(parse) OBVIOUS
<1>4. /\ k \in Nat \ {0} /\ top = parse[k] /\ k \in 1..Len(parse)
  BY <1>0, <1>3, TopFine
<1>5. PICK f : f = Frame("pop", "", s, 0) OBVIOUS
<1>6. f \in Activation /\ f.at = "pop" /\ f.s = s
  <2>1. IsFrame(f, "pop", "", s, 0) BY <1>5, FrameFields
  <2> QED BY <2>1 DEF IsFrame
<1>7. Len(parse') = k /\ parse'[k] = f /\ Agree(parse, parse', k - 1)
  BY <1>0, <1>3, <1>5, <1>6, Replaced DEF Inv, PopTo, Goto
<1>8. \A i \in 1..k : i # k => parse'[i] = parse[i]
  <2>1. \A i \in 1..k : i # k => i \in 1..(k - 1) BY <1>4
  <2> QED BY <1>7, <2>1 DEF Agree
<1>9. Scoped'
  <2> SUFFICES ASSUME NEW i \in 1..Len(parse') PROVE ScopedAt(i)' BY DEF Scoped
  <2>1. CASE i = k BY <1>6, <1>7, <2>1 DEF ScopedAt, InScope
  <2>2. CASE i # k
    <3>1. parse'[i] = parse[i] /\ i \in 1..Len(parse) BY <1>3, <1>7, <1>8, <2>2
    <3>2. ScopedAt(i) BY <1>0, <3>1 DEF Scoped
    <3> QED BY <1>1, <3>1, <3>2 DEF ScopedAt, InScope
  <2> QED BY <2>1, <2>2
<1>10. Sound' BY <1>9 DEF Sound
<1>11. ~ Popping BY DEF Popping, At, top
<1>12. \A x : Stays(x)' <=> x \in Global \/ x <= s
  <2>1. parse' # <<>> BY <1>4, <1>7, EmptySeq
  <2>2. top' = f BY <1>7 DEF top, Last
  <2>3. Popping' BY <1>6, <1>7, <2>1 DEF Popping, At, Last
  <2>4. top'.s = s BY <1>6, <2>2
  <2> QED BY <1>1, <2>3, <2>4 DEF Stays
<1>13. Blocks' = Blocks \ {k} /\ \A i \in Blocks \ {k} : parse'[i].s = parse[i].s
  <2>1. Blocks = {i \in 1..k : parse[i].at = "block"} BY <1>3 DEF Blocks
  <2>2. Blocks' = {i \in 1..k : parse'[i].at = "block"} BY <1>7 DEF Blocks
  <2> QED BY <1>6, <1>7, <1>8, <2>1, <2>2
<1>14. IsFiniteSet(Blocks) /\ Cardinality(Blocks) \in Nat BY <1>0, BlocksFinite
<1>15. ScopedAt(k) /\ Placed(parse, k)
  BY <1>0, <1>4, FrameTyped DEF Scoped
<1>16. Local # {}
  <2>1. CASE top.at = "block"
    <3>1. At("block") BY <2>1 DEF At, top
    <3> QED BY <1>0, <3>1, BlockLocals
  <2>2. CASE top.at = "func" /\ top.stage = "body"
    BY <1>4, <1>15, <2>2 DEF ScopedAt, InScope
  <2> QED BY <2>1, <2>2
<1>17. Depth = 2 + Cardinality(Blocks) BY <1>0, <1>11, <1>16, DepthIs
<1>18. Depth \in Nat /\ Depth > 1 BY <1>14, <1>17
<1>19. CASE top.at = "block" /\ top.s = s
  <2>1. k \in Blocks /\ parse[k].s = s BY <1>3, <1>4, <1>19 DEF Blocks
  <2>2. Depth' = Depth - 1
    <3>1. InFunction BY <1>0, <1>11, <1>16, InsideFunction
    <3>2. PICK i \in 1..Len(parse) : parse[i].at = "func" /\ parse[i].stage # "enter"
      BY <3>1 DEF InFunction
    <3>3. i # k BY <1>4, <1>19, <3>2
    <3>4. parse'[i] = parse[i] /\ i \in 1..Len(parse') BY <1>3, <1>7, <1>8, <3>3
    <3>5. InFunction' BY <3>2, <3>4 DEF InFunction
    <3>6. PICK B : B = Blocks OBVIOUS
    <3>7. Cardinality(B \ {k}) = Cardinality(B) - 1
      BY <1>14, <2>1, <3>6, FS_RemoveElement
    <3>8. Cardinality(Blocks') = Cardinality(Blocks) - 1 BY <1>13, <3>6, <3>7
    <3>9. Depth' = 1 + Cardinality(Blocks') + 1 BY <3>5 DEF Depth
    <3> QED BY <1>14, <1>17, <3>8, <3>9
  <2>3. ASSUME NEW i \in Blocks PROVE parse[i].s <= s /\ parse[i].s \in Nat
    <3>1. i \in 1..Len(parse) /\ HoldsMarker(parse[i]) /\ HoldsMarker(parse[k])
      BY <2>1 DEF Blocks, HoldsMarker
    <3>2. parse[i].s \in Local BY <1>0, <3>1 DEF Inv, MarkersKept
    <3>3. parse[i].s \in Nat BY <1>2, <3>2 DEF Live
    <3>4. CASE i = k BY <2>1, <3>3, <3>4
    <3>5. CASE i # k
      <4>1. i < k BY <1>3, <1>4, <3>1, <3>5
      <4> QED BY <1>0, <1>4, <2>1, <3>1, <3>3, <4>1 DEF Inv, MarkersKept
    <3> QED BY <3>4, <3>5
  <2>4. ASSUME NEW x \in Live PROVE ScopeOf(x) < Depth <=> x \in Global \/ x <= s
    <3>1. CASE x \in Global
      <4>1. ScopeOf(x) = 1 BY <3>1, ScopeIs
      <4> QED BY <1>18, <3>1, <4>1
    <3>2. CASE x \notin Global
      <4>1. x \in Nat BY <1>2
      <4>2. ScopeOf(x) = 2 + Cardinality(Inside(x)) BY <3>2, ScopeIs
      <4>3. Inside(x) \in SUBSET Blocks BY DEF Inside
      <4>4. /\ Cardinality(Inside(x)) \in Nat /\ Cardinality(Inside(x)) <= Cardinality(Blocks)
            /\ Cardinality(Inside(x)) = Cardinality(Blocks) => Inside(x) = Blocks
        BY <1>0, <4>3, BlocksFinite
      <4>5. CASE x <= s
        <5>1. k \notin Inside(x) BY <2>1, <4>1, <4>5 DEF Inside
        <5>2. Inside(x) # Blocks BY <2>1, <5>1
        <5>3. Cardinality(Inside(x)) < Cardinality(Blocks) BY <1>14, <4>4, <5>2
        <5> QED BY <1>14, <1>17, <4>2, <4>4, <4>5, <5>3
      <4>6. CASE ~ (x <= s)
        <5>1. \A i \in Blocks : parse[i].s < x BY <2>3, <4>1, <4>6
        <5>2. Inside(x) = Blocks BY <5>1 DEF Inside
        <5> QED BY <1>14, <1>17, <3>2, <4>2, <4>6, <5>2
      <4> QED BY <4>5, <4>6
    <3> QED BY <3>1, <3>2
  <2>5. ASSUME NEW x \in Live, x \in Global \/ x <= s PROVE DeclOf(x)' = DeclOf(x)
    <3>1. sym'[x].v = sym[x].v BY <1>1
    <3>2. CASE x \in Global
      <4>1. ScopeOf(x) = 1 BY <3>2 DEF ScopeOf
      <4>2. ScopeOf(x)' = 1 BY <1>1, <3>2 DEF ScopeOf
      <4> QED BY <3>1, <4>1, <4>2 DEF DeclOf, NameOf
    <3>3. CASE x \notin Global
      <4>1. x <= s /\ x \in Nat BY <1>2, <2>5, <3>3
      <4>2. ~ (parse[k].s < x) BY <2>1, <4>1
      <4>3. Inside(x)' = {i \in Blocks' : parse'[i].s < x} BY DEF Inside
      <4>4. Inside(x)' = Inside(x) BY <1>13, <4>2, <4>3 DEF Inside
      <4> QED BY <1>1, <3>1, <4>4, DeclSame
    <3> QED BY <3>2, <3>3
  <2>6. Simulated BY <1>0, <1>1, <1>11, <1>12, <1>18, <2>2, <2>4, <2>5, ScopeLeft
  <2> QED BY <1>10, <2>6 DEF Follows
<1>20. CASE top.at = "func" /\ top.stage = "body" /\ s = 0
  <2>1. k = 1
    <3>1. Outermost(parse[k]) BY <1>4, <1>20 DEF Outermost
    <3> QED BY <1>15, <3>1 DEF Placed
  <2>2. Blocks = {} /\ Blocks' = {}
    <3>1. 1 \notin Blocks BY <1>4, <1>20, <2>1 DEF Blocks
    <3>2. Blocks \subseteq {1} BY <1>3, <2>1 DEF Blocks
    <3> QED BY <1>13, <3>1, <3>2
  <2>3. Cardinality(Blocks) = 0 /\ Cardinality(Blocks') = 0 BY <2>2, FS_EmptySet
  <2>4. Depth' = Depth - 1
    <3>1. ~ InFunction'
      <4> SUFFICES ASSUME NEW i \in 1..Len(parse'), parse'[i].at = "func" PROVE FALSE
        BY DEF InFunction
      <4>1. i = k BY <1>7, <2>1
      <4> QED BY <1>6, <1>7, <4>1
    <3>2. Depth' = 1 BY <2>3, <3>1 DEF Depth
    <3> QED BY <1>17, <2>3, <3>2
  <2>5. \A x \in Live : ~ (x <= s) BY <1>2, <1>20
  <2>6. ASSUME NEW x \in Live PROVE ScopeOf(x) < Depth <=> x \in Global \/ x <= s
    <3>1. CASE x \in Global
      <4>1. ScopeOf(x) = 1 BY <3>1, ScopeIs
      <4> QED BY <1>18, <3>1, <4>1
    <3>2. CASE x \notin Global
      <4>1. Inside(x) = {} BY <2>2 DEF Inside
      <4>2. ScopeOf(x) = 2
        <5>1. Cardinality(Inside(x)) = 0 BY <4>1, FS_EmptySet
        <5> QED BY <3>2, <5>1, ScopeIs
      <4> QED BY <1>17, <2>3, <2>5, <3>2, <4>2
    <3> QED BY <3>1, <3>2
  <2>7. ASSUME NEW x \in Live, x \in Global \/ x <= s PROVE DeclOf(x)' = DeclOf(x)
    <3>1. x \in Global BY <2>5, <2>7
    <3>2. ScopeOf(x) = 1 BY <3>1 DEF ScopeOf
    <3>3. ScopeOf(x)' = 1 BY <1>1, <3>1 DEF ScopeOf
    <3> QED BY <1>1, <3>2, <3>3 DEF DeclOf, NameOf
  <2>8. Simulated BY <1>0, <1>1, <1>11, <1>12, <1>18, <2>4, <2>6, <2>7, ScopeLeft
  <2> QED BY <1>10, <2>8 DEF Follows
<1> QED BY <1>19, <1>20

LEMMA CloseBlockFollows ==
  ASSUME ~ NestedFunctions, Sound, Inv', TypesKept',
         CloseBlock
  PROVE  Follows
<1>0. Inv /\ TypesKept /\ Scoped BY DEF Sound
<1>1. parse # <<>> /\ top.at = "block" /\ PopTo(top.s)
  BY DEF CloseBlock, At, top
<1>2. PICK s : s = top.s OBVIOUS
<1>3. s \in Nat BY <1>0, <1>1, <1>2, TopFine DEF Activation
<1>4. PopTo(s) /\ top.at = "block" /\ top.s = s BY <1>1, <1>2
<1> QED BY <1>1, <1>3, <1>4, ScopeEnds

LEMMA EndFunctionFollows ==
  ASSUME ~ NestedFunctions, Sound, Inv', TypesKept',
         EndFunction
  PROVE  Follows
<1>1. parse # <<>> /\ top.at = "func" /\ top.stage = "body" /\ PopTo(0)
  BY DEF EndFunction, At, top
<1> QED BY <1>1, ScopeEnds

\* A step that leaves the scopes and the declarations that stay.
LEMMA ScopesStay ==
  ASSUME Inv, Inv', Blocks' = Blocks,
         \A i \in Blocks : parse'[i].s = parse[i].s, InFunction' <=> InFunction,
         sym' = sym, Global' = Global, \A x : x \in Staying' <=> x \in Staying
  PROVE  Simulated
<1>1. ASSUME NEW x \in Staying PROVE DeclOf(x)' = DeclOf(x)
  <2>1. Inside(x)' = {i \in Blocks' : parse'[i].s < x} BY DEF Inside
  <2>2. Inside(x)' = Inside(x) BY <2>1 DEF Inside
  <2> QED BY <2>2, DeclSame
<1>2. Declarations' = Declarations BY <1>1, StayingSame
<1>3. Found' = Found BY <1>2, FoundSame
<1>4. Depth' = Depth BY DEF Depth
<1> QED BY <1>2, <1>3, <1>4 DEF Simulated, Scopes!vars

LEMMA SymPopFollows ==
  ASSUME ~ NestedFunctions, Sound, Inv', TypesKept',
         sym_pop
  PROVE  Follows
<1>0. Inv /\ TypesKept /\ Scoped BY DEF Sound
<1>1. /\ parse # <<>> /\ top.at = "pop" /\ local_sym_stack # <<>> /\ Threaded /\ Table
      /\ Len(sym) \in Nat /\ Live \subseteq 1..Len(sym) /\ Global \cap Local = {}
      /\ sym' = sym /\ Global' = Global
  BY <1>0, LiveTyped
  DEF sym_pop, At, top, Inv, Threaded, Table, NoSymbol, Global, Members
<1>2. PICK n : n = Last(local_sym_stack) OBVIOUS
<1>3. n \in Local /\ n \in Nat \ {0} /\ \A x \in Local : x <= n
  <2>1. Stack(local_sym_stack, Len(sym)) BY <1>1 DEF Table
  <2> QED BY <1>1, <1>2, <2>1, StackTop DEF Local, Live
<1>4. PICK k : k = Len(parse) OBVIOUS
<1>5. /\ k \in Nat \ {0} /\ top = parse[k] /\ k \in 1..Len(parse) /\ top.s \in Nat
      /\ parse \in Seq(Activation)
  <2>1. parse # <<>> BY <1>1
  <2>2. top \in Activation /\ top = parse[k] /\ k \in Nat \ {0}
    BY <1>0, <1>4, <2>1, TopFine
  <2>3. top.s \in Nat BY <2>2 DEF Activation
  <2>4. parse \in Seq(Activation) BY <1>0 DEF Inv
  <2> QED BY <1>4, <2>2, <2>3, <2>4
<1>6. Popping BY <1>1 DEF Popping, At, top
<1>7. \A x : Stays(x) <=> x \in Global \/ x <= top.s BY <1>6 DEF Stays
<1>8. Placed(parse, k) BY <1>0, <1>4, <1>5, FrameTyped
<1>9. Leave => /\ Len(parse') = k - 1 /\ \A i \in 1..(k - 1) : parse'[i] = parse[i]
               /\ parse' = <<>> <=> k = 1
  <2> SUFFICES ASSUME Leave
               PROVE  /\ Len(parse') = k - 1 /\ \A i \in 1..(k - 1) : parse'[i] = parse[i]
                      /\ parse' = <<>> <=> k = 1
    OBVIOUS
  <2>1. PICK b : b = ButLast(parse) OBVIOUS
  <2>2. /\ b \in Seq(Activation) /\ Len(b) = k - 1 /\ \A i \in 1..(k - 1) : b[i] = parse[i]
    <3>1. parse # <<>> BY <1>1
    <3> QED BY <1>4, <1>5, <2>1, <3>1, Shorter
  <2>3. parse' = b BY <2>1 DEF Leave
  <2> QED BY <1>5, <2>2, <2>3, EmptySeq
<1>10. CASE n = top.s /\ Leave /\ NoSymbol
  <2>1. Local' = Local /\ Live' = Live BY <1>10 DEF NoSymbol, Local, Global, Live, Members
  <2>2. k # 1
    <3> SUFFICES ASSUME k = 1 PROVE FALSE OBVIOUS
    <3>1. parse[1].at = "func" \/ (parse[1].at = "pop" /\ parse[1].s = 0)
      BY <1>0, <1>3 DEF TypesKept, FunctionFirst
    <3> QED BY <1>1, <1>3, <1>5, <1>10, <3>1
  <2>3. /\ k - 1 \in 1..(k - 1) /\ k - 1 \in 1..Len(parse)
        /\ \A i \in 1..Len(parse) : i # k => i \in 1..(k - 1)
        /\ \A i \in 1..(k - 1) : i \in 1..Len(parse) /\ i # k
    BY <1>4, <1>5, <2>2
  <2>4. /\ Blocks' = Blocks /\ \A i \in Blocks : parse'[i].s = parse[i].s
        /\ InFunction' <=> InFunction
    <3>1. Len(parse') = k - 1 /\ \A i \in 1..(k - 1) : parse'[i] = parse[i]
      BY <1>9, <1>10
    <3>2. parse[k].at = "pop" BY <1>1, <1>5
    <3>3. Blocks' = Blocks /\ \A i \in Blocks : parse'[i].s = parse[i].s
      BY <2>3, <3>1, <3>2 DEF Blocks
    <3>4. InFunction' <=> InFunction BY <2>3, <3>1, <3>2 DEF InFunction
    <3> QED BY <3>3, <3>4
  <2>5. ~ Popping'
    <3>1. Placed(parse, k - 1) BY <1>0, <2>3, FrameTyped
    <3>2. parse[k - 1].at # "pop" BY <1>4, <1>5, <3>1 DEF Placed
    <3>3. parse'[Len(parse')].at # "pop" BY <1>9, <1>10, <2>3, <3>2
    <3> QED BY <3>3 DEF Popping, At, Last
  <2>6. \A x : x \in Staying' <=> x \in Staying
    <3>1. \A x \in Live : Stays(x) BY <1>3, <1>7, <1>10 DEF Live
    <3>2. \A x : Stays(x)' BY <2>5 DEF Stays
    <3> QED BY <1>1, <2>1, <3>1, <3>2 DEF Staying, OnChain
  <2>7. Scoped'
    <3> SUFFICES ASSUME NEW i \in 1..Len(parse') PROVE ScopedAt(i)' BY DEF Scoped
    <3>1. parse'[i] = parse[i] /\ i \in 1..Len(parse) BY <1>9, <1>10, <2>3
    <3>2. ScopedAt(i) BY <1>0, <3>1 DEF Scoped
    <3> QED BY <2>1, <3>1, <3>2 DEF ScopedAt, InScope
  <2>8. Simulated BY <1>0, <1>1, <2>4, <2>6, ScopesStay
  <2> QED BY <2>7, <2>8 DEF Follows, Sound
<1>11. CASE /\ n # top.s
            /\ head' = IF OnChain(sym[n].v)
                       THEN [head EXCEPT ![NameOf(sym[n].v)] = Unhooked(n)]
                       ELSE head
            /\ local_sym_stack' = ButLast(local_sym_stack)
            /\ IF Len(local_sym_stack) = 1 THEN Leave ELSE UNCHANGED parse
            /\ UNCHANGED <<sym, global_sym_stack>>
  <2>1. Pops BY <1>1, <1>2, <1>11 DEF Pops, Unhooked
  <2>2. Local' = Local \ {n} BY <1>1, <1>2, <2>1, PopTable
  <2>3. n \notin Global BY <1>1, <1>3
  <2>4. top.s # 0 => top.s \in Local' /\ top.s < n
    <3> SUFFICES ASSUME top.s # 0 PROVE top.s \in Local' /\ top.s < n OBVIOUS
    <3>1. HoldsMarker(parse[k]) BY <1>1, <1>5 DEF HoldsMarker
    <3>2. parse[k].s \in Local BY <1>0, <1>5, <3>1 DEF Inv, MarkersKept
    <3>3. top.s \in Local BY <1>5, <3>2
    <3> QED BY <1>3, <1>5, <1>11, <2>2, <3>3
  <2>5. CASE Len(local_sym_stack) = 1
    <3>1. Local' = {}
      <4>1. local_sym_stack' = <<>>
        BY <1>1, <1>11, <2>5 DEF ButLast, Table, Stack
      <4> QED BY <4>1, EmptySeq DEF Local, Members
    <3>2. top.s = 0 BY <2>4, <3>1
    <3>3. k = 1
      <4>1. Outermost(parse[k]) BY <1>1, <1>5, <3>2 DEF Outermost
      <4> QED BY <1>8, <4>1 DEF Placed
    <3>4. parse' = <<>> /\ Len(parse') = 0 BY <1>9, <1>11, <2>5, <3>3
    <3>5. \A i \in 1..Len(parse) : parse[i].at = "pop" BY <1>1, <1>4, <1>5, <3>3
    <3>6. Blocks = {} /\ Blocks' = {} BY <3>4, <3>5 DEF Blocks
    <3>7. ~ InFunction /\ ~ InFunction' BY <3>4, <3>5 DEF InFunction
    <3>8. ~ Popping' BY <3>4 DEF Popping, At
    <3>9. \A x : x \in Staying' <=> x \in Staying
      <4>1. \A x : Stays(x)' BY <3>8 DEF Stays
      <4>2. Live' = Global BY <1>1, <3>1 DEF Live
      <4>3. \A x \in Live : Stays(x) <=> x \in Global BY <1>1, <1>7, <3>2
      <4>4. Global \subseteq Live BY DEF Live
      <4> QED BY <1>1, <4>1, <4>2, <4>3, <4>4 DEF Staying, OnChain
    <3>10. Scoped' BY <3>4 DEF Scoped
    <3>11. Simulated BY <1>0, <1>1, <3>6, <3>7, <3>9, ScopesStay
    <3> QED BY <3>10, <3>11 DEF Follows, Sound
  <2>6. CASE UNCHANGED parse /\ Len(local_sym_stack) # 1
    <3>1. Blocks' = Blocks /\ (\A i \in Blocks : parse'[i].s = parse[i].s)
          /\ (InFunction' <=> InFunction)
      BY <2>6 DEF Blocks, InFunction
    <3>2. \A x : Stays(x)' <=> Stays(x)
      <4>1. Popping' /\ top' = top BY <1>6, <2>6 DEF Popping, At, top
      <4> QED BY <1>1, <1>7, <4>1 DEF Stays
    <3>3. n \notin Staying
      <4>1. ~ (n <= top.s) BY <1>3, <1>5, <2>4
      <4>2. ~ Stays(n) BY <1>7, <2>3, <4>1
      <4> QED BY <4>2 DEF Staying
    <3>4. Live' = Live \ {n} BY <1>1, <2>2, <2>3 DEF Live
    <3>5. \A x : x \in Staying' <=> x \in Staying
      BY <1>1, <3>2, <3>3, <3>4 DEF Staying, OnChain
    <3>6. Local' # {}
      <4>1. Stack(local_sym_stack, Len(sym)) BY <1>1 DEF Table
      <4>2. local_sym_stack \in Seq(1..Len(sym)) BY <4>1 DEF Stack
      <4>3. PICK b : b = ButLast(local_sym_stack) OBVIOUS
      <4>4. Len(b) = Len(local_sym_stack) - 1 /\ Len(local_sym_stack) \in Nat \ {0}
        BY <1>1, <4>2, <4>3, Shorter
      <4>5. 1 \in 1..Len(b) BY <2>6, <4>4
      <4>6. local_sym_stack' = b BY <1>11, <4>3
      <4>7. b[1] \in Local' BY <4>5, <4>6 DEF Local, Members
      <4> QED BY <4>7
    <3>7. Scoped'
      <4> SUFFICES ASSUME NEW i \in 1..Len(parse) PROVE ScopedAt(i)'
        BY <2>6 DEF Scoped
      <4>1. /\ parse[i].at \in {"func", "block", "pop"}
            /\ parse[i].at = "func" => parse[i].stage = "body"
        BY <1>0, <1>1, PoppingFrames
      <4> QED BY <2>6, <3>6, <4>1 DEF ScopedAt, InScope
    <3>8. Simulated BY <1>0, <1>1, <3>1, <3>5, ScopesStay
    <3> QED BY <3>7, <3>8 DEF Follows, Sound
  <2> QED BY <1>11, <2>5, <2>6
<1> QED BY <1>2, <1>10, <1>11 DEF sym_pop

-----------------------------------------------------------------------------
(* The specification.                                                      *)

LEMMA UnchangedFollows ==
  ASSUME Sound, Inv', TypesKept', UNCHANGED vars PROVE Follows
<1>1. sym' = sym /\ parse' = parse /\ Global' = Global /\ Local' = Local
  BY DEF vars, Global, Local, Members
<1>2. Scoped' BY <1>1 DEF Sound, Scoped, ScopedAt, InScope
<1>3. Sound' BY <1>2 DEF Sound
<1>4. /\ Blocks' = Blocks /\ \A i \in Blocks : parse'[i].s = parse[i].s
      /\ InFunction' <=> InFunction
  BY <1>1 DEF Blocks, InFunction
<1>5. \A x : Stays(x)' <=> Stays(x) BY <1>1 DEF Stays, Popping, At, top
<1>6. \A x : x \in Staying' <=> x \in Staying BY <1>1, <1>5 DEF Staying, Live, OnChain
<1>7. Simulated BY <1>1, <1>4, <1>6, ScopesStay DEF Sound
<1> QED BY <1>3, <1>7 DEF Follows

LEMMA InitScoped == Init => Scoped
<1> SUFFICES ASSUME Init PROVE Scoped OBVIOUS
<1>1. Len(parse) = 0 BY DEF Init
<1> QED BY <1>1 DEF Scoped

LEMMA InitScopes == Init => Scopes!Init
<1> SUFFICES ASSUME Init PROVE Scopes!Init OBVIOUS
<1>1. parse = <<>> /\ Len(parse) = 0 BY DEF Init
<1>2. Blocks = {} /\ ~ InFunction BY <1>1 DEF Blocks, InFunction
<1>3. Cardinality(Blocks) = 0 BY <1>2, FS_EmptySet
<1>4. Depth = 1 BY <1>2, <1>3 DEF Depth
<1>5. Global = {1, 2, 3} /\ Local = {} /\ Live = {1, 2, 3}
  BY DEF Init, Global, Local, Live, Members
<1>6. Staying = {}
  <2>1. PICK a : a = NewSymbolAt(Anonymous) OBVIOUS
  <2>2. PICK r : r = NewSymbolAt(V("ident", Rdata)) OBVIOUS
  <2>3. sym = <<a, a, r>> BY <2>1, <2>2 DEF Init
  <2>4. sym[1] = a /\ sym[2] = a /\ sym[3] = r BY <2>3
  <2>5. a.v.kind = "anom" BY <2>1 DEF NewSymbolAt, Anonymous, V
  <2>6. r.v.word = Rdata /\ Rdata \notin Words
    BY <2>2, SymbolScopeAssumption DEF NewSymbolAt, V
  <2> QED BY <1>5, <2>4, <2>5, <2>6 DEF Staying, OnChain
<1>7. Declarations = {} BY <1>6 DEF Declarations
<1>8. Found = [n \in SourceNames |-> 0]
  <2>1. ~ Popping BY <1>1 DEF Popping, At
  <2>2. ASSUME NEW n \in SourceNames PROVE head[n] = 0
    <3>1. n \in Names BY DEF SourceNames, Names, AllWords
    <3>2. n # <<"ident", Rdata>> BY SymbolScopeAssumption DEF SourceNames
    <3> QED BY <3>1, <3>2 DEF Init
  <2> QED BY <2>1, <2>2 DEF Found
<1> QED BY <1>4, <1>7, <1>8 DEF Scopes!Init

LEMMA NextFollows ==
  ASSUME ~ NestedFunctions PROVE Sound /\ [Next]_vars => Follows
<1> SUFFICES ASSUME Sound, [Next]_vars PROVE Follows
  OBVIOUS
<1>0. Inv' /\ TypesKept' BY NextKeeps, NextTypes DEF Sound
<1>1. CASE BasicType BY <1>0, <1>1, BasicTypeFollows
<1>2. CASE \E w \in Words : StructName(w) \/ Identifier(w) \/ Undeclared(w)
  BY <1>0, <1>2, StructNameFollows, IdentifierFollows, UndeclaredFollows
<1>3. CASE OpenStruct BY <1>0, <1>3, OpenStructFollows
<1>4. CASE Member BY <1>0, <1>4, MemberFollows
<1>5. CASE CloseStruct BY <1>0, <1>5, CloseStructFollows
<1>6. CASE Pointer BY <1>0, <1>6, PointerFollows
<1>7. CASE Array BY <1>0, <1>7, ArrayFollows
<1>8. CASE OpenParams BY <1>0, <1>8, OpenParamsFollows
<1>9. CASE Parameter BY <1>0, <1>9, ParameterFollows
<1>10. CASE CloseParams BY <1>0, <1>10, CloseParamsFollows
<1>11. CASE DeclareName BY <1>0, <1>11, DeclareNameFollows
<1>12. CASE Comma BY <1>0, <1>12, CommaFollows
<1>13. CASE EndDeclaration BY <1>0, <1>13, EndDeclarationFollows
<1>14. CASE DefineFunction BY <1>0, <1>14, DefineFunctionFollows
<1>15. CASE EnterBody BY <1>0, <1>15, EnterBodyFollows
<1>16. CASE Prolog BY <1>0, <1>16, PrologFollows
<1>17. CASE FuncBlock BY <1>0, <1>17, FuncBlockFollows
<1>18. CASE EndFunction BY <1>0, <1>18, EndFunctionFollows
<1>19. CASE OpenBlock BY <1>0, <1>19, OpenBlockFollows
<1>20. CASE CloseBlock BY <1>0, <1>20, CloseBlockFollows
<1>21. CASE sym_pop BY <1>0, <1>21, SymPopFollows
<1>22. CASE PointerInExpression BY <1>0, <1>22, PointerInExpressionFollows
<1>23. CASE UNCHANGED vars BY <1>0, <1>23, UnchangedFollows
<1> QED
  BY <1>1, <1>2, <1>3, <1>4, <1>5, <1>6, <1>7, <1>8, <1>9, <1>10, <1>11, <1>12,
     <1>13, <1>14, <1>15, <1>16, <1>17, <1>18, <1>19, <1>20, <1>21, <1>22, <1>23
  DEF Next

\* The symbol table is nested scopes, for every source file without a function in
\* a function, whether parameters are on chains or not: each step of sym_push, sym_pop
\* and the parser opens a scope, closes the innermost one with what was declared
\* in it, declares a name in it (or, for an undeclared name, in the file), or
\* changes no lookup.  Every lookup finds the declaration of the innermost scope.
THEOREM SymbolScopeImplementsScopes ==
  ASSUME ~ NestedFunctions
  PROVE  Spec => ImplementsScopes
<1>1. Init => Sound /\ Scopes!Init
  BY InitInv, InitTypes, InitScoped, InitScopes DEF Sound
<1>2. Sound /\ [Next]_vars => Sound' /\ [Scopes!Next]_(Scopes!vars)
  BY NextFollows DEF Follows, Simulated
<1> QED BY <1>1, <1>2, PTL DEF Spec, ImplementsScopes, Scopes!Spec
=============================================================================
