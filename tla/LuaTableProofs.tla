--------------------------- MODULE LuaTableProofs ---------------------------
(***************************************************************************)
(* Theorems about LuaTable: the chains of the nodes stay whole through     *)
(* assignments, rehashes and the collector, and the table is the map that  *)
(* the calls amount to.                                                    *)
(***************************************************************************)
EXTENDS LuaTable, WellFoundedInduction, TLAPS

-----------------------------------------------------------------------------
(* The least and the greatest of a set of numbers.                         *)
LEMMA LeastIs ==
  ASSUME NEW S \in SUBSET Nat, S # {}
  PROVE  Least(S) \in S /\ \A y \in S : Least(S) <= y
<1>1. PICK R : R = OpToRel(<, Nat) OBVIOUS
<1>2. IsWellFoundedOn(R, Nat) BY <1>1, NatLessThanWellFounded
<1>3. PICK x \in S : \A y \in S : <<y, x>> \notin R BY <1>2, WFMin
<1>4. \A y \in S : ~(y < x) BY <1>1, <1>3 DEF OpToRel
<1>5. \A y \in S : x <= y BY <1>4
<1> QED BY <1>5 DEF Least

LEMMA GreatestIs ==
  ASSUME NEW m \in Nat, NEW S \in SUBSET Nat, \A x \in S : x <= m, S # {}
  PROVE  Greatest(S) \in S
<1>1. PICK T : T = {m - x : x \in S} OBVIOUS
<1>2. \A x \in S : m - x \in Nat OBVIOUS
<1>21. T \in SUBSET Nat /\ T # {} BY <1>1, <1>2
<1>3. Least(T) \in T /\ \A y \in T : Least(T) <= y BY <1>21, LeastIs
<1>4. PICK x \in S : Least(T) = m - x BY <1>1, <1>3
<1>5. \A y \in S : m - x <= m - y BY <1>1, <1>3, <1>4
<1>6. \A y \in S : y <= x BY <1>5
<1> QED BY <1>6 DEF Greatest

-----------------------------------------------------------------------------
(* Node vectors as values: N is the set of nodes, f the vector, K the keys *)
(* and m their main positions, A the keys that belong into the array.      *)
Entry(K, V, N) == [key : K \cup {Nil}, dead : BOOLEAN, val : V, next : N \cup {Null}]
Ends(S, f) == \A p \in S : f[p].next \in S \cup {Null}
Reach(N, f, a) == {q \in N : \A S \in SUBSET N : a \in S /\ Ends(S, f) => q \in S}
Setting(K, V, O, N, m) ==
  /\ Nil \notin K /\ Nil \in V /\ Null \notin N /\ O \subseteq K
  /\ N # {} => m \in [K -> N]

WellNodes(O, N, f) ==
  \A p \in N : /\ f[p].key = Nil => f[p] = Unused
               /\ f[p].next # Null => f[f[p].next].key # Nil
               /\ f[p].dead => f[p].val = Nil /\ f[p].key \in O
OnceLinked(N, f) == \A p, q \in N : f[p].next = f[q].next /\ f[p].next # Null => p = q
FoundKeys(N, f, m) == \A p \in N : f[p].key # Nil => p \in Reach(N, f, m[f[p].key])
OnceKeys(A, N, f) ==
  \A p \in N : f[p].key # Nil /\ ~f[p].dead =>
    /\ f[p].key \notin A
    /\ \A q \in N : f[q].key = f[p].key /\ ~f[q].dead => q = p
AtHome(N, f, m) ==
  \A p \in N : f[p].key # Nil =>
    f[m[f[p].key]].key # Nil /\ m[f[m[f[p].key]].key] = m[f[p].key]
Well(K, V, O, A, N, f, m) ==
  /\ f \in [N -> Entry(K, V, N)]
  /\ WellNodes(O, N, f) /\ OnceLinked(N, f) /\ FoundKeys(N, f, m)
  /\ OnceKeys(A, N, f) /\ AtHome(N, f, m)

\* The node of a key, as a set, and its value.
Slots(N, f, k) == {p \in N : f[p].key = k /\ ~f[p].dead}
Val(N, f, k) == IF Slots(N, f, k) = {} THEN Nil
                ELSE f[CHOOSE p \in N : Slots(N, f, k) = {p}].val

\* A search stays within the nodes, comes to its start, and goes on.
LEMMA ReachGoesOn ==
  ASSUME NEW N, NEW f, NEW a \in N, Ends(N, f)
  PROVE  /\ a \in Reach(N, f, a) /\ Reach(N, f, a) \subseteq N
         /\ Ends(Reach(N, f, a), f)
<1>1. a \in Reach(N, f, a) /\ Reach(N, f, a) \subseteq N BY DEF Reach
<1>2. ASSUME NEW p \in Reach(N, f, a) PROVE f[p].next \in Reach(N, f, a) \cup {Null}
  <2>1. SUFFICES ASSUME f[p].next # Null PROVE f[p].next \in Reach(N, f, a) OBVIOUS
  <2>2. p \in N /\ f[p].next \in N BY <2>1, <1>1 DEF Ends
  <2>3. ASSUME NEW S \in SUBSET N, a \in S, Ends(S, f) PROVE f[p].next \in S
    <3>1. p \in S BY <2>3 DEF Reach
    <3> QED BY <3>1, <2>1, <2>3 DEF Ends
  <2> QED BY <2>2, <2>3 DEF Reach
<1> QED BY <1>1, <1>2 DEF Ends

\* What a search comes to after its start is behind another node of it.
LEMMA ReachBefore ==
  ASSUME NEW N, NEW f, NEW a \in N, Ends(N, f), NEW q \in Reach(N, f, a), q # a
  PROVE  \E p \in Reach(N, f, a) : p # q /\ f[p].next = q
<1>1. SUFFICES ASSUME \A p \in Reach(N, f, a) : p # q => f[p].next # q
               PROVE  FALSE
  OBVIOUS
<1>2. PICK S : S = Reach(N, f, a) \ {q} OBVIOUS
<1>3. a \in S /\ S \in SUBSET N BY <1>2, ReachGoesOn
<1>4. Ends(S, f) BY <1>1, <1>2, ReachGoesOn DEF Ends
<1>5. q \in S BY <1>3, <1>4 DEF Reach
<1> QED BY <1>2, <1>5

\* Searches depend on the links only.
LEMMA SameLinks ==
  ASSUME NEW N, NEW f, NEW g, \A p \in N : g[p].next = f[p].next
  PROVE  \A a : Reach(N, g, a) = Reach(N, f, a)
BY DEF Reach, Ends

LEMMA WellEnds ==
  ASSUME NEW K, NEW V, NEW N, NEW f \in [N -> Entry(K, V, N)]
  PROVE  Ends(N, f)
BY DEF Ends, Entry

\* The value of a key, from its node.
LEMMA ValIs ==
  ASSUME NEW N, NEW f, NEW k, NEW p, Slots(N, f, k) = {p}
  PROVE  Val(N, f, k) = f[p].val
<1>1. p \in N BY DEF Slots
<1>2. (CHOOSE q \in N : Slots(N, f, k) = {q}) = p BY <1>1
<1> QED BY <1>2 DEF Val

\* Values change and keys die: the chains stay.
LEMMA SameKeysWell ==
  ASSUME NEW K, NEW V, NEW O, NEW A, NEW N, NEW f, NEW m, Setting(K, V, O, N, m),
         Well(K, V, O, A, N, f, m), NEW g \in [N -> Entry(K, V, N)],
         \A p \in N : /\ g[p].key = f[p].key /\ g[p].next = f[p].next
                      /\ f[p].key = Nil => g[p] = f[p]
                      /\ f[p].dead => g[p].dead
                      /\ g[p].dead => g[p].val = Nil /\ g[p].key \in O
  PROVE  Well(K, V, O, A, N, g, m)
<1>1. WellNodes(O, N, g)
  <2>1. ASSUME NEW p \in N, g[p].next # Null PROVE g[g[p].next].key # Nil
    <3>1. f[p].next \in N BY <2>1 DEF Entry
    <3> QED BY <2>1, <3>1 DEF Well, WellNodes
  <2> QED BY <2>1 DEF Well, WellNodes
<1>2. OnceLinked(N, g) BY DEF Well, OnceLinked
<1>3. FoundKeys(N, g, m) BY SameLinks DEF Well, FoundKeys
<1>4. OnceKeys(A, N, g) BY DEF Well, OnceKeys
<1>5. AtHome(N, g, m)
  <2>1. ASSUME NEW p \in N, g[p].key # Nil
        PROVE  g[m[g[p].key]].key # Nil /\ m[g[m[g[p].key]].key] = m[g[p].key]
    <3>1. f[p].key \in K BY <2>1 DEF Entry, Well
    <3>2. m[f[p].key] \in N BY <3>1 DEF Setting
    <3> QED BY <2>1, <3>2 DEF Well, AtHome
  <2> QED BY <2>1 DEF AtHome
<1> QED BY <1>1, <1>2, <1>3, <1>4, <1>5 DEF Well

-----------------------------------------------------------------------------
(* A key gets a node, in the three ways of newkey.                         *)
Written(K, N, f, g, k, v) ==
  \A j \in K : Val(N, g, j) = IF j = k THEN v ELSE Val(N, f, j)

SameVal(N, f, g, j) ==
  \/ \E q : Slots(N, f, j) = {q} /\ \E r : Slots(N, g, j) = {r} /\ g[r].val = f[q].val
  \/ Slots(N, f, j) = {} /\ Slots(N, g, j) = {}
  \/ \E q : Slots(N, f, j) = {q} /\ f[q].val = Nil /\ Slots(N, g, j) = {}
WriteOver(f, g, mp, k, v) == g = [f EXCEPT ![mp] = Put(k, v, f[mp].next)]
WriteIn(f, g, mp, n, k, v) == g = [f EXCEPT ![n] = Put(k, v, f[mp].next), ![mp].next = n]
MoveAway(f, g, mp, n, prev, k, v) ==
  g = [f EXCEPT ![prev].next = n, ![n] = f[mp], ![mp] = Put(k, v, Null)]

LEMMA SameValMeans ==
  ASSUME NEW N, NEW f, NEW g, NEW j, SameVal(N, f, g, j)
  PROVE  Val(N, g, j) = Val(N, f, j)
<1>1. CASE \E q : Slots(N, f, j) = {q} /\ \E r : Slots(N, g, j) = {r} /\ g[r].val = f[q].val
  <2>1. PICK q : Slots(N, f, j) = {q} /\ \E r : Slots(N, g, j) = {r} /\ g[r].val = f[q].val
    BY <1>1
  <2>2. PICK r : Slots(N, g, j) = {r} /\ g[r].val = f[q].val BY <2>1
  <2>3. Val(N, f, j) = f[q].val BY <2>1, ValIs
  <2>4. Slots(N, g, j) = {r} BY <2>2
  <2>5. \A h, p : Slots(N, h, j) = {p} => Val(N, h, j) = h[p].val BY ValIs
  <2>6. Val(N, g, j) = g[r].val BY <2>4, <2>5
  <2> QED BY <2>2, <2>3, <2>6
<1>2. CASE Slots(N, f, j) = {} /\ Slots(N, g, j) = {} BY <1>2 DEF Val
<1>3. CASE \E q : Slots(N, f, j) = {q} /\ f[q].val = Nil /\ Slots(N, g, j) = {}
  <2>1. Val(N, f, j) = Nil BY <1>3, ValIs
  <2> QED BY <1>3, <2>1 DEF Val
<1> QED BY <1>1, <1>2, <1>3 DEF SameVal

LEMMA WrittenBySlots ==
  ASSUME NEW K, NEW N, NEW f, NEW g, NEW k, NEW v, NEW p,
         Slots(N, g, k) = {p}, g[p].val = v,
         \A j \in K \ {k} : SameVal(N, f, g, j)
  PROVE  Written(K, N, f, g, k, v)
<1>1. Val(N, g, k) = v BY ValIs
<1>2. \A j \in K \ {k} : Val(N, g, j) = Val(N, f, j) BY SameValMeans
<1> QED BY <1>1, <1>2 DEF Written

\* A key with a node has one.
LEMMA SlotsOnce ==
  ASSUME NEW A, NEW N, NEW f, OnceKeys(A, N, f), NEW j, j # Nil, NEW p \in Slots(N, f, j)
  PROVE  Slots(N, f, j) = {p}
BY DEF OnceKeys, Slots

\* The node at the main position has no value: it is overwritten.
LEMMA OverwrittenWell ==
  ASSUME NEW K, NEW V, NEW O, NEW A, NEW N, NEW f, NEW m, Setting(K, V, O, N, m),
         Well(K, V, O, A, N, f, m), NEW k \in K, NEW v \in V,
         k \notin A, Slots(N, f, k) = {}, N # {}, f[m[k]].val = Nil,
         NEW g, WriteOver(f, g, m[k], k, v)
  PROVE  Well(K, V, O, A, N, g, m) /\ Written(K, N, f, g, k, v)
<1>1. PICK mp \in N : mp = m[k] BY DEF Setting
<1>2. f \in [N -> Entry(K, V, N)] BY DEF Well
<1>3. /\ g[mp].key = k /\ g[mp].dead = FALSE /\ g[mp].val = v /\ g[mp].next = f[mp].next
      /\ \A p \in N \ {mp} : g[p] = f[p]
  BY <1>1, <1>2 DEF Put, WriteOver
<1>4. g \in [N -> Entry(K, V, N)]
  <2>1. f[mp] \in Entry(K, V, N) BY <1>2, <1>1
  <2>2. Put(k, v, f[mp].next) \in Entry(K, V, N) BY <2>1 DEF Entry, Put
  <2> QED BY <1>1, <1>2, <2>2 DEF WriteOver
<1>5. \A p \in N : g[p].next = f[p].next BY <1>3
<1>6. k # Nil BY DEF Setting
<1>7. WellNodes(O, N, g)
  <2>1. ASSUME NEW p \in N, g[p].next # Null PROVE g[g[p].next].key # Nil
    <3>1. f[p].next \in N BY <2>1, <1>2, <1>5 DEF Entry
    <3>2. f[f[p].next].key # Nil BY <2>1, <1>5 DEF Well, WellNodes
    <3> QED BY <2>1, <3>1, <3>2, <1>3, <1>5, <1>6
  <2>2. ASSUME NEW p \in N
        PROVE  (g[p].key = Nil => g[p] = Unused) /\ (g[p].dead => g[p].val = Nil /\ g[p].key \in O)
    <3>1. CASE p = mp BY <3>1, <1>3, <1>6
    <3>2. CASE p # mp BY <3>2, <1>3 DEF Well, WellNodes
    <3> QED BY <3>1, <3>2
  <2> QED BY <2>1, <2>2 DEF WellNodes
<1>8. OnceLinked(N, g) BY <1>5 DEF Well, OnceLinked
<1>9. FoundKeys(N, g, m)
  <2>1. ASSUME NEW p \in N, g[p].key # Nil PROVE p \in Reach(N, g, m[g[p].key])
    <3>1. CASE p = mp
      <4>1. Ends(N, g) BY <1>4, WellEnds
      <4> QED BY <3>1, <1>1, <1>3, <4>1, ReachGoesOn
    <3>2. CASE p # mp
      <4>1. p \in Reach(N, f, m[f[p].key]) BY <2>1, <3>2, <1>3 DEF Well, FoundKeys
      <4>2. g[p].key = f[p].key BY <3>2, <1>3
      <4>3. \A b : Reach(N, g, b) = Reach(N, f, b) BY <1>5, SameLinks
      <4> QED BY <4>1, <4>2, <4>3
    <3> QED BY <3>1, <3>2
  <2> QED BY <2>1 DEF FoundKeys
<1>10. \A p \in N \ {mp} : f[p].key = k => f[p].dead BY DEF Slots
<1>11. OnceKeys(A, N, g)
  <2>1. ASSUME NEW p \in N, g[p].key # Nil, ~g[p].dead
        PROVE  /\ g[p].key \notin A
               /\ \A q \in N : g[q].key = g[p].key /\ ~g[q].dead => q = p
    <3>1. CASE p = mp BY <3>1, <1>3, <1>10
    <3>2. CASE p # mp
      <4>1. f[p].key # Nil /\ ~f[p].dead /\ g[p].key = f[p].key BY <2>1, <3>2, <1>3
      <4>2. f[p].key \notin A /\ \A q \in N : f[q].key = f[p].key /\ ~f[q].dead => q = p
        BY <4>1 DEF Well, OnceKeys
      <4>3. f[p].key # k BY <4>1, <3>2, <1>10
      <4> QED BY <4>1, <4>2, <4>3, <1>3
    <3> QED BY <3>1, <3>2
  <2> QED BY <2>1 DEF OnceKeys
<1>12. AtHome(N, g, m)
  <2>1. ASSUME NEW p \in N, g[p].key # Nil
        PROVE  g[m[g[p].key]].key # Nil /\ m[g[m[g[p].key]].key] = m[g[p].key]
    <3>1. CASE p = mp BY <3>1, <1>1, <1>3, <1>6
    <3>2. CASE p # mp
      <4>1. g[p].key = f[p].key /\ f[p].key \in K BY <2>1, <3>2, <1>2, <1>3 DEF Entry
      <4>2. PICK h \in N : h = m[f[p].key] BY <4>1 DEF Setting
      <4>3. f[h].key # Nil /\ m[f[h].key] = h BY <2>1, <4>1, <4>2 DEF Well, AtHome
      <4>4. CASE h = mp BY <4>4, <4>1, <4>2, <1>1, <1>3, <1>6
      <4>5. CASE h # mp BY <4>5, <4>1, <4>2, <4>3, <1>3
      <4> QED BY <4>4, <4>5
    <3> QED BY <3>1, <3>2
  <2> QED BY <2>1 DEF AtHome
<1>13. Written(K, N, f, g, k, v)
  <2>1. Slots(N, g, k) = {mp} BY <1>3, <1>10 DEF Slots
  <2>2. ASSUME NEW j \in K \ {k}
        PROVE  SameVal(N, f, g, j)
    <3>1. Slots(N, g, j) = Slots(N, f, j) \ {mp} BY <1>3, <2>2 DEF Slots
    <3>2. CASE Slots(N, f, j) = {} BY <3>1, <3>2 DEF SameVal
    <3>3. CASE \E q : q \in Slots(N, f, j)
      <4>1. PICK q : q \in Slots(N, f, j) BY <3>3
      <4>2. Slots(N, f, j) = {q}
        <5>1. j # Nil BY DEF Setting
        <5> QED BY <4>1, <5>1, SlotsOnce DEF Well
      <4>3. q \in N BY <4>1 DEF Slots
      <4>4. CASE q = mp BY <4>2, <4>4, <3>1, <1>1 DEF SameVal
      <4>5. CASE q # mp
        <5>1. Slots(N, g, j) = {q} BY <4>2, <4>5, <3>1
        <5>2. g[q].val = f[q].val BY <4>3, <4>5, <1>3
        <5> QED BY <4>2, <5>1, <5>2 DEF SameVal
      <4> QED BY <4>4, <4>5
    <3> QED BY <3>2, <3>3
  <2> QED BY <2>1, <2>2, <1>3, WrittenBySlots
<1> QED BY <1>4, <1>7, <1>8, <1>9, <1>11, <1>12, <1>13 DEF Well

\* The node at the main position is in its own: the key is linked in behind it.
LEMMA LinkedInWell ==
  ASSUME NEW K, NEW V, NEW O, NEW A, NEW N, NEW f, NEW m, Setting(K, V, O, N, m),
         Well(K, V, O, A, N, f, m), NEW k \in K, NEW v \in V,
         k \notin A, Slots(N, f, k) = {}, NEW mp \in N, mp = m[k], f[mp].val # Nil,
         m[f[mp].key] = mp, NEW n \in N, f[n].key = Nil,
         NEW g, WriteIn(f, g, mp, n, k, v)
  PROVE  Well(K, V, O, A, N, g, m) /\ Written(K, N, f, g, k, v)
<1>1. f \in [N -> Entry(K, V, N)] BY DEF Well
<1>2. f[n] = Unused /\ f[mp].key # Nil /\ n # mp BY DEF Well, WellNodes, Unused
<1>3. /\ g[n].key = k /\ g[n].dead = FALSE /\ g[n].val = v /\ g[n].next = f[mp].next
      /\ g[mp].key = f[mp].key /\ g[mp].dead = f[mp].dead /\ g[mp].val = f[mp].val /\ g[mp].next = n
      /\ \A p \in N \ {n, mp} : g[p] = f[p]
  <2>1. f[mp] \in Entry(K, V, N) BY <1>1
  <2> QED BY <1>1, <1>2, <2>1 DEF Put, Entry, WriteIn
<1>4. g \in [N -> Entry(K, V, N)]
  <2>1. f[mp] \in Entry(K, V, N) BY <1>1
  <2>2. Put(k, v, f[mp].next) \in Entry(K, V, N) BY <2>1 DEF Entry, Put
  <2>3. [f[mp] EXCEPT !.next = n] \in Entry(K, V, N) BY <2>1 DEF Entry
  <2> QED BY <1>1, <1>2, <2>2, <2>3 DEF WriteIn
<1>5. \A p \in N : f[p].next # n
  BY <1>1, <1>2 DEF Well, WellNodes, Setting, Unused
<1>6. k # Nil /\ Null \notin N BY DEF Setting
<1>7. WellNodes(O, N, g)
  <2>1. ASSUME NEW p \in N, g[p].next # Null PROVE g[g[p].next].key # Nil
    <3>1. ASSUME NEW q \in N, f[q].next # Null PROVE f[q].next \in N \ {n} /\ g[f[q].next].key # Nil
      <4>1. f[q].next \in N \ {n} BY <3>1, <1>1, <1>5 DEF Entry
      <4>2. f[f[q].next].key # Nil BY <3>1 DEF Well, WellNodes
      <4> QED BY <4>1, <4>2, <1>3
    <3>2. CASE p = mp BY <3>2, <1>3, <1>6
    <3>3. CASE p = n BY <2>1, <3>1, <3>3, <1>3
    <3>4. CASE p \notin {n, mp} BY <2>1, <3>1, <3>4, <1>3
    <3> QED BY <3>2, <3>3, <3>4
  <2>2. ASSUME NEW p \in N
        PROVE  (g[p].key = Nil => g[p] = Unused) /\ (g[p].dead => g[p].val = Nil /\ g[p].key \in O)
    <3>1. CASE p = n BY <3>1, <1>3, <1>6
    <3>2. CASE p = mp BY <3>2, <1>2, <1>3 DEF Well, WellNodes
    <3>3. CASE p \notin {n, mp} BY <3>3, <1>3 DEF Well, WellNodes
    <3> QED BY <3>1, <3>2, <3>3
  <2> QED BY <2>1, <2>2 DEF WellNodes
<1>8. OnceLinked(N, g)
  <2>1. ASSUME NEW p \in N, NEW q \in N, g[p].next = g[q].next, g[p].next # Null PROVE p = q
    <3>1. \A i \in N, j \in N : f[i].next = f[j].next /\ f[i].next # Null => i = j
      BY DEF Well, OnceLinked
    <3> QED BY <2>1, <3>1, <1>2, <1>3, <1>5
  <2> QED BY <2>1 DEF OnceLinked
<1>9. Ends(N, g) BY <1>4, WellEnds
<1>10. ASSUME NEW a \in N, NEW q \in Reach(N, f, a) PROVE q \in Reach(N, g, a)
  <2>1. ASSUME NEW S \in SUBSET N, a \in S, Ends(S, g) PROVE q \in S
    <3>1. ASSUME NEW p \in S PROVE f[p].next \in S \cup {Null}
      <4>1. CASE p = n BY <4>1, <1>2 DEF Unused
      <4>2. CASE p = mp BY <4>2, <2>1, <1>3, <1>6 DEF Ends
      <4>3. CASE p \notin {n, mp} BY <4>3, <3>1, <2>1, <1>3 DEF Ends
      <4> QED BY <4>1, <4>2, <4>3
    <3>2. Ends(S, f) BY <3>1 DEF Ends
    <3> QED BY <2>1, <3>2 DEF Reach
  <2> QED BY <2>1 DEF Reach
<1>11. FoundKeys(N, g, m)
  <2>1. ASSUME NEW p \in N, g[p].key # Nil PROVE p \in Reach(N, g, m[g[p].key])
    <3>1. CASE p = n
      <4>1. mp \in Reach(N, g, mp) /\ Ends(Reach(N, g, mp), g) BY <1>9, ReachGoesOn
      <4>2. n \in Reach(N, g, mp) BY <4>1, <1>3, <1>6 DEF Ends
      <4> QED BY <3>1, <4>2, <1>3
    <3>2. CASE p # n
      <4>1. g[p].key = f[p].key /\ f[p].key \in K BY <2>1, <3>2, <1>1, <1>3 DEF Entry
      <4>2. m[f[p].key] \in N BY <4>1 DEF Setting
      <4>3. p \in Reach(N, f, m[f[p].key]) BY <2>1, <4>1 DEF Well, FoundKeys
      <4> QED BY <4>1, <4>2, <4>3, <1>10
    <3> QED BY <3>1, <3>2
  <2> QED BY <2>1 DEF FoundKeys
<1>12. \A p \in N : f[p].key = k => f[p].dead BY DEF Slots
<1>13. OnceKeys(A, N, g)
  <2>1. ASSUME NEW p \in N, g[p].key # Nil, ~g[p].dead
        PROVE  /\ g[p].key \notin A
               /\ \A q \in N : g[q].key = g[p].key /\ ~g[q].dead => q = p
    <3>1. CASE p = n BY <3>1, <1>3, <1>12
    <3>2. CASE p # n
      <4>1. f[p].key # Nil /\ ~f[p].dead /\ g[p].key = f[p].key BY <2>1, <3>2, <1>3
      <4>2. f[p].key \notin A /\ \A q \in N : f[q].key = f[p].key /\ ~f[q].dead => q = p
        BY <4>1 DEF Well, OnceKeys
      <4>3. f[p].key # k BY <4>1, <1>12
      <4> QED BY <4>1, <4>2, <4>3, <1>3
    <3> QED BY <3>1, <3>2
  <2> QED BY <2>1 DEF OnceKeys
<1>14. AtHome(N, g, m)
  <2>1. ASSUME NEW p \in N, g[p].key # Nil
        PROVE  g[m[g[p].key]].key # Nil /\ m[g[m[g[p].key]].key] = m[g[p].key]
    <3>1. CASE p = n BY <3>1, <1>2, <1>3
    <3>2. CASE p # n
      <4>1. g[p].key = f[p].key /\ f[p].key \in K BY <2>1, <3>2, <1>1, <1>3 DEF Entry
      <4>2. PICK h \in N : h = m[f[p].key] BY <4>1 DEF Setting
      <4>3. f[h].key # Nil /\ m[f[h].key] = h BY <2>1, <4>1, <4>2 DEF Well, AtHome
      <4>4. h # n BY <4>3
      <4> QED BY <4>1, <4>2, <4>3, <4>4, <1>3
    <3> QED BY <3>1, <3>2
  <2> QED BY <2>1 DEF AtHome
<1>15. Written(K, N, f, g, k, v)
  <2>1. Slots(N, g, k) = {n} BY <1>3, <1>12 DEF Slots
  <2>2. ASSUME NEW j \in K \ {k}
        PROVE  SameVal(N, f, g, j)
    <3>0. j # Nil BY DEF Setting
    <3>1. Slots(N, g, j) = Slots(N, f, j) BY <1>3, <2>2, <3>0 DEF Slots
    <3>2. CASE Slots(N, f, j) = {} BY <3>1, <3>2 DEF SameVal
    <3>3. CASE \E q : q \in Slots(N, f, j)
      <4>1. PICK q : q \in Slots(N, f, j) BY <3>3
      <4>2. Slots(N, f, j) = {q} BY <4>1, <3>0, SlotsOnce DEF Well
      <4>3. q \in N /\ q # n BY <4>1, <3>0 DEF Slots
      <4>4. g[q].val = f[q].val BY <4>3, <1>3
      <4> QED BY <4>2, <4>4, <3>1 DEF SameVal
    <3> QED BY <3>2, <3>3
  <2> QED BY <2>1, <2>2, <1>3, WrittenBySlots
<1> QED BY <1>4, <1>7, <1>8, <1>11, <1>13, <1>14, <1>15 DEF Well

\* The node at the main position is not in its own: it moves to the free one.
LEMMA MovedAwayWell ==
  ASSUME NEW K, NEW V, NEW O, NEW A, NEW N, NEW f, NEW m, Setting(K, V, O, N, m),
         Well(K, V, O, A, N, f, m), NEW k \in K, NEW v \in V,
         k \notin A, Slots(N, f, k) = {}, NEW mp \in N, mp = m[k], f[mp].val # Nil,
         m[f[mp].key] # mp, NEW n \in N, f[n].key = Nil,
         NEW prev \in Reach(N, f, m[f[mp].key]), f[prev].next = mp,
         NEW g, MoveAway(f, g, mp, n, prev, k, v)
  PROVE  Well(K, V, O, A, N, g, m) /\ Written(K, N, f, g, k, v)
<1>1. f \in [N -> Entry(K, V, N)] BY DEF Well
<1>2. k # Nil /\ Null \notin N BY DEF Setting
<1>3. f[n] = Unused /\ f[mp].key # Nil /\ ~f[mp].dead /\ n # mp
  BY DEF Well, WellNodes, Unused
<1>4. PICK c \in K : c = f[mp].key BY <1>1, <1>3 DEF Entry
<1>5. PICK other \in N : other = m[c] BY <1>4 DEF Setting
<1>6. Ends(N, f) BY <1>1, WellEnds
<1>7. \A i \in N, j \in N : f[i].next = f[j].next /\ f[i].next # Null => i = j
  BY DEF Well, OnceLinked
<1>8. prev \in N /\ prev # mp /\ prev # n
  <2>1. prev \in N BY DEF Reach
  <2>2. mp \in Reach(N, f, other) BY <1>3, <1>4, <1>5 DEF Well, FoundKeys
  <2>3. other # mp BY <1>4, <1>5
  <2>4. PICK p \in Reach(N, f, other) : p # mp /\ f[p].next = mp
    BY <1>6, <2>2, <2>3, ReachBefore
  <2>5. p \in N BY DEF Reach
  <2>6. p = prev BY <2>1, <2>4, <2>5, <1>2, <1>7
  <2>7. prev # n BY <1>2, <1>3 DEF Unused
  <2> QED BY <2>1, <2>4, <2>6, <2>7
<1>9. /\ g[mp].key = k /\ g[mp].dead = FALSE /\ g[mp].val = v /\ g[mp].next = Null
      /\ g[n] = f[mp]
      /\ g[prev].key = f[prev].key /\ g[prev].dead = f[prev].dead
      /\ g[prev].val = f[prev].val /\ g[prev].next = n
      /\ \A p \in N \ {n, mp, prev} : g[p] = f[p]
  <2>1. f[prev] \in Entry(K, V, N) BY <1>1, <1>8
  <2> QED BY <1>1, <1>3, <1>8, <2>1 DEF Put, Entry, MoveAway
<1>10. g \in [N -> Entry(K, V, N)]
  <2>1. f[mp] \in Entry(K, V, N) /\ f[prev] \in Entry(K, V, N) BY <1>1, <1>8
  <2>2. Put(k, v, Null) \in Entry(K, V, N) BY DEF Entry, Put
  <2>3. [f[prev] EXCEPT !.next = n] \in Entry(K, V, N) BY <2>1 DEF Entry
  <2> QED BY <1>1, <1>3, <1>8, <2>1, <2>2, <2>3 DEF MoveAway
<1>11. \A p \in N : f[p].next # n
  BY <1>1, <1>2, <1>3 DEF Well, WellNodes, Unused
<1>12. \A p \in N \ {prev} : f[p].next # mp BY <1>2, <1>7, <1>8
<1>13. ASSUME NEW p \in N, f[p].key # Nil
       PROVE  /\ f[p].key \in K /\ m[f[p].key] \in N \ {mp, n}
              /\ f[m[f[p].key]].key # Nil /\ m[f[m[f[p].key]].key] = m[f[p].key]
  <2>1. f[p].key \in K BY <1>1, <1>13 DEF Entry
  <2>2. PICK h \in N : h = m[f[p].key] BY <2>1 DEF Setting
  <2>3. f[h].key # Nil /\ m[f[h].key] = h BY <2>2, <1>13 DEF Well, AtHome
  <2>4. h # n /\ h # mp BY <2>3
  <2> QED BY <2>1, <2>2, <2>3, <2>4
<1>14. WellNodes(O, N, g)
  <2>1. ASSUME NEW p \in N, g[p].next # Null PROVE g[g[p].next].key # Nil
    <3>1. ASSUME NEW q \in N \ {prev}, f[q].next # Null PROVE g[f[q].next].key # Nil
      <4>1. PICK t \in N : t = f[q].next BY <3>1, <1>1 DEF Entry
      <4>2. t # n /\ t # mp BY <4>1, <3>1, <1>11, <1>12
      <4>3. f[t].key # Nil BY <3>1, <4>1 DEF Well, WellNodes
      <4>4. g[t].key = f[t].key BY <4>2, <1>9
      <4> QED BY <4>1, <4>3, <4>4
    <3>2. CASE p = mp BY <3>2, <2>1, <1>9
    <3>3. CASE p = n
      <4>1. g[p].next = f[mp].next BY <3>3, <1>9
      <4> QED BY <4>1, <2>1, <3>1, <1>8
    <3>4. CASE p = prev BY <3>4, <1>3, <1>9
    <3>5. CASE p \notin {n, mp, prev}
      <4>1. g[p] = f[p] BY <3>5, <1>9
      <4> QED BY <2>1, <3>1, <3>5, <4>1
    <3> QED BY <3>2, <3>3, <3>4, <3>5
  <2>2. ASSUME NEW p \in N
        PROVE  (g[p].key = Nil => g[p] = Unused) /\ (g[p].dead => g[p].val = Nil /\ g[p].key \in O)
    <3>1. CASE p = mp BY <3>1, <1>2, <1>9
    <3>2. CASE p = n BY <3>2, <1>3, <1>9
    <3>3. CASE p = prev
      <4>1. f[prev].key # Nil BY <1>2, <1>8 DEF Well, WellNodes, Unused
      <4> QED BY <3>3, <4>1, <1>8, <1>9 DEF Well, WellNodes
    <3>4. CASE p \notin {n, mp, prev} BY <3>4, <1>9 DEF Well, WellNodes
    <3> QED BY <3>1, <3>2, <3>3, <3>4
  <2> QED BY <2>1, <2>2 DEF WellNodes
<1>15. OnceLinked(N, g)
  <2>1. ASSUME NEW p \in N, NEW q \in N, g[p].next = g[q].next, g[p].next # Null PROVE p = q
    <3> DEFINE Old(x) == IF x = n THEN mp ELSE x
    <3>1. ASSUME NEW x \in N, x # prev, x # mp PROVE g[x].next = f[Old(x)].next
      BY <3>1, <1>9
    <3>2. p # mp /\ q # mp BY <2>1, <1>9
    <3>3. \A x \in N : x # prev => f[Old(x)].next # n BY <1>11
    <3>4. CASE p # prev /\ q # prev
      <4>1. f[Old(p)].next = f[Old(q)].next /\ f[Old(p)].next # Null
        BY <2>1, <3>1, <3>2, <3>4
      <4>2. Old(p) = Old(q) BY <4>1, <1>7
      <4> QED BY <4>2, <3>2
    <3>5. CASE p = prev /\ q # prev
      <4>1. g[q].next = n BY <2>1, <3>5, <1>9
      <4> QED BY <4>1, <3>1, <3>2, <3>3, <3>5
    <3>6. CASE p # prev /\ q = prev
      <4>1. g[p].next = n BY <2>1, <3>6, <1>9
      <4> QED BY <4>1, <3>1, <3>2, <3>3, <3>6
    <3> QED BY <3>4, <3>5, <3>6
  <2> QED BY <2>1 DEF OnceLinked
<1>16. Ends(N, g) BY <1>10, WellEnds
<1>17. ASSUME NEW a \in N \ {mp, n}, NEW q \in Reach(N, f, a)
       PROVE  (q # mp => q \in Reach(N, g, a)) /\ (q = mp => n \in Reach(N, g, a))
  <2>1. q \in N BY DEF Reach
  <2>2. ASSUME NEW S \in SUBSET N, a \in S, Ends(S, g) PROVE IF q = mp THEN n \in S ELSE q \in S
    <3>1. PICK T : T = (S \ {n, mp}) \cup (IF n \in S THEN {mp} ELSE {}) OBVIOUS
    <3>2. T \in SUBSET N /\ a \in T BY <3>1, <2>2
    <3>3. ASSUME NEW p \in T PROVE f[p].next \in T \cup {Null}
      <4>1. CASE p = mp
        <5>1. n \in S BY <3>1, <4>1
        <5>2. f[mp].next \in S \cup {Null} BY <5>1, <2>2, <1>9 DEF Ends
        <5>3. f[mp].next # n /\ f[mp].next # mp BY <1>8, <1>11, <1>12
        <5> QED BY <3>1, <4>1, <5>2, <5>3
      <4>2. CASE p = prev
        <5>1. prev \in S BY <3>1, <4>2, <1>8
        <5>2. n \in S BY <5>1, <2>2, <1>9, <1>2 DEF Ends
        <5> QED BY <3>1, <4>2, <5>2
      <4>3. CASE p \notin {mp, prev}
        <5>1. p \in S /\ p # n BY <3>1, <4>3
        <5>2. f[p].next \in S \cup {Null}
          <6>1. g[p] = f[p] BY <5>1, <4>3, <1>9
          <6>2. g[p].next \in S \cup {Null} BY <5>1, <2>2 DEF Ends
          <6> QED BY <6>1, <6>2
        <5>3. f[p].next # n /\ f[p].next # mp BY <5>1, <4>3, <1>11, <1>12
        <5> QED BY <3>1, <5>2, <5>3
      <4> QED BY <4>1, <4>2, <4>3
    <3>4. Ends(T, f) BY <3>3 DEF Ends
    <3>5. q \in T BY <3>2, <3>4 DEF Reach
    <3> QED BY <3>1, <3>5
  <2> QED BY <2>1, <2>2 DEF Reach
<1>18. FoundKeys(N, g, m)
  <2>1. ASSUME NEW p \in N, g[p].key # Nil PROVE p \in Reach(N, g, m[g[p].key])
    <3>1. CASE p = mp
      <4>1. mp \in Reach(N, g, mp) BY <1>16, ReachGoesOn
      <4> QED BY <3>1, <4>1, <1>9
    <3>2. CASE p = n
      <4>1. mp \in Reach(N, f, m[f[mp].key]) BY <1>3 DEF Well, FoundKeys
      <4>2. m[f[mp].key] \in N \ {mp, n} BY <1>3, <1>13
      <4>3. n \in Reach(N, g, m[f[mp].key]) BY <4>1, <4>2, <1>17
      <4> QED BY <3>2, <4>3, <1>9
    <3>3. CASE p \notin {mp, n}
      <4>1. g[p].key = f[p].key BY <3>3, <1>9
      <4>2. p \in Reach(N, f, m[f[p].key]) BY <2>1, <4>1 DEF Well, FoundKeys
      <4>3. m[f[p].key] \in N \ {mp, n} BY <2>1, <4>1, <1>13
      <4>4. p \in Reach(N, g, m[f[p].key]) BY <3>3, <4>2, <4>3, <1>17
      <4> QED BY <4>1, <4>4
    <3> QED BY <3>1, <3>2, <3>3
  <2> QED BY <2>1 DEF FoundKeys
<1>19. \A p \in N : f[p].key = k => f[p].dead BY DEF Slots
<1>20. OnceKeys(A, N, g)
  <2> DEFINE Old(x) == IF x = n THEN mp ELSE x
  <2>1. ASSUME NEW x \in N, x # mp PROVE g[x].key = f[Old(x)].key /\ g[x].dead = f[Old(x)].dead
    BY <2>1, <1>9
  <2>2. \A x \in N \ {mp}, y \in N \ {mp} : Old(x) = Old(y) => x = y OBVIOUS
  <2>3. \A x \in N : Old(x) \in N OBVIOUS
  <2> HIDE DEF Old
  <2>4. ASSUME NEW p \in N, g[p].key # Nil, ~g[p].dead
        PROVE  /\ g[p].key \notin A
               /\ \A q \in N : g[q].key = g[p].key /\ ~g[q].dead => q = p
    <3>1. CASE p = mp
      <4>1. ASSUME NEW q \in N, g[q].key = k, ~g[q].dead PROVE q = mp
        BY <4>1, <2>1, <2>3, <1>19
      <4> QED BY <3>1, <4>1, <1>9
    <3>2. CASE p # mp
      <4>1. f[Old(p)].key # Nil /\ ~f[Old(p)].dead /\ g[p].key = f[Old(p)].key /\ Old(p) \in N
        BY <2>1, <2>3, <2>4, <3>2
      <4>2. f[Old(p)].key \notin A /\ \A q \in N : f[q].key = f[Old(p)].key /\ ~f[q].dead => q = Old(p)
        BY <4>1 DEF Well, OnceKeys
      <4>3. f[Old(p)].key # k BY <4>1, <1>19
      <4>4. ASSUME NEW q \in N, g[q].key = g[p].key, ~g[q].dead PROVE q = p
        <5>1. q # mp BY <4>1, <4>3, <4>4, <1>9
        <5>2. f[Old(q)].key = f[Old(p)].key /\ ~f[Old(q)].dead BY <2>1, <4>1, <4>4, <5>1
        <5>3. Old(q) = Old(p) BY <4>2, <5>2, <2>3
        <5> QED BY <2>2, <3>2, <5>1, <5>3
      <4> QED BY <4>1, <4>2, <4>4
    <3> QED BY <3>1, <3>2
  <2> QED BY <2>4 DEF OnceKeys
<1>21. AtHome(N, g, m)
  <2>1. ASSUME NEW x \in N, f[x].key # Nil
        PROVE  g[m[f[x].key]].key # Nil /\ m[g[m[f[x].key]].key] = m[f[x].key]
    <3>1. PICK h \in N : h = m[f[x].key] BY <2>1, <1>13
    <3>2. h \notin {mp, n} /\ f[h].key # Nil /\ m[f[h].key] = h BY <2>1, <3>1, <1>13
    <3>3. g[h].key = f[h].key BY <3>2, <1>9
    <3> QED BY <3>1, <3>2, <3>3
  <2>2. ASSUME NEW p \in N, g[p].key # Nil
        PROVE  g[m[g[p].key]].key # Nil /\ m[g[m[g[p].key]].key] = m[g[p].key]
    <3>1. CASE p = mp
      <4>1. m[g[p].key] = mp BY <3>1, <1>9
      <4> QED BY <4>1, <1>2, <1>9
    <3>2. CASE p = n
      <4>1. g[p].key = f[mp].key BY <3>2, <1>9
      <4> QED BY <4>1, <2>1, <1>3
    <3>3. CASE p \notin {mp, n}
      <4>1. g[p].key = f[p].key BY <3>3, <1>9
      <4> QED BY <4>1, <2>1, <2>2
    <3> QED BY <3>1, <3>2, <3>3
  <2> QED BY <2>2 DEF AtHome
<1>22. Written(K, N, f, g, k, v)
  <2>1. Slots(N, g, k) = {mp}
    <3>1. ASSUME NEW p \in N, p # mp, g[p].key = k, ~g[p].dead PROVE FALSE
      <4>1. CASE p = n BY <4>1, <3>1, <1>9, <1>19
      <4>2. CASE p # n BY <4>2, <3>1, <1>9, <1>19
      <4> QED BY <4>1, <4>2
    <3> QED BY <3>1, <1>9 DEF Slots
  <2>2. ASSUME NEW j \in K \ {k} PROVE SameVal(N, f, g, j)
    <3>0. j # Nil BY DEF Setting
    <3>1. CASE j = c
      <4>1. Slots(N, f, j) = {mp}
        <5>1. mp \in Slots(N, f, j) BY <3>1, <1>3, <1>4 DEF Slots
        <5> QED BY <3>0, <5>1, SlotsOnce DEF Well
      <4>2. \A p \in N : f[p].key = j /\ ~f[p].dead => p = mp BY <4>1 DEF Slots
      <4>3. ASSUME NEW p \in N, g[p].key = j, ~g[p].dead PROVE p = n
        <5>1. p # mp BY <4>3, <2>2, <1>9
        <5>2. CASE p # n BY <5>1, <5>2, <4>2, <4>3, <1>9
        <5> QED BY <5>2
      <4>4. g[n].key = j /\ ~g[n].dead BY <3>1, <1>3, <1>4, <1>9
      <4>5. Slots(N, g, j) = {n} BY <4>3, <4>4 DEF Slots
      <4>6. g[n].val = f[mp].val BY <1>9
      <4> QED BY <4>1, <4>5, <4>6 DEF SameVal
    <3>2. CASE j # c
      <4>1. ASSUME NEW p \in N PROVE (f[p].key = j /\ ~f[p].dead) <=> (g[p].key = j /\ ~g[p].dead)
        <5>1. CASE p = mp BY <5>1, <3>2, <2>2, <1>4, <1>9
        <5>2. CASE p = n BY <5>2, <3>0, <3>2, <1>4, <1>9
        <5>3. CASE p \notin {mp, n} BY <5>3, <1>9
        <5> QED BY <5>1, <5>2, <5>3
      <4>2. Slots(N, g, j) = Slots(N, f, j) BY <4>1 DEF Slots
      <4>3. CASE Slots(N, f, j) = {} BY <4>2, <4>3 DEF SameVal
      <4>4. CASE \E q : q \in Slots(N, f, j)
        <5>1. PICK q : q \in Slots(N, f, j) BY <4>4
        <5>2. Slots(N, f, j) = {q} BY <5>1, <3>0, SlotsOnce DEF Well
        <5>3. q \in N /\ q # n /\ q # mp BY <5>1, <3>0, <3>2, <1>4 DEF Slots
        <5>4. g[q].val = f[q].val BY <5>3, <1>9
        <5> QED BY <5>2, <5>4, <4>2 DEF SameVal
      <4> QED BY <4>3, <4>4
    <3> QED BY <3>1, <3>2
  <2> QED BY <2>1, <2>2, <1>9, WrittenBySlots
<1> QED BY <1>10, <1>14, <1>15, <1>18, <1>20, <1>21, <1>22 DEF Well

-----------------------------------------------------------------------------
(* The table.                                                              *)
MainOf == [k \in Keys |-> mainposition(k)]
Arr == 1..Len(array)
TableWell == ArrayWell /\ Well(Keys, Values, use.objects, Arr, Nodes, node, MainOf)
TableSetting == Setting(Keys, Values, use.objects, Nodes, MainOf)
Get(k) == IF InArray(k) THEN array[k] ELSE Val(Nodes, node, k)

LEMMA ValHere == \A k, p : Slots(Nodes, node, k) = {p} => Val(Nodes, node, k) = node[p].val
BY ValIs

LEMMA UseTyped ==
  ASSUME PartsOK
  PROVE  /\ use.last \in 0..MaxInt /\ use.names \cap Int = {} /\ use.last \in Nat
         /\ Nil \notin use.names \cup use.values
         /\ use.objects \subseteq use.names /\ Nil \notin Int /\ Nil \notin Keys
         /\ \A k \in Keys : use.hash[k] \in Nat
<1>1. use \in Uses BY DEF PartsOK
<1>2. /\ use.last \in 0..MaxInt /\ use.names \cap Int = {}
      /\ Nil \notin use.names \cup use.values
      /\ use.objects \subseteq use.names /\ Nil \notin Int
      /\ use.hash \in [(1..MaxInt + 1) \cup use.names -> Nat]
  BY <1>1, LuaTableAssumption
<1>3. MaxInt \in Nat BY LuaTableAssumption
<1>4. use.last \in Nat BY <1>2, <1>3
<1>5. Keys \subseteq (1..MaxInt + 1) \cup use.names BY <1>2, <1>3, <1>4 DEF Keys, Indices
<1>6. Nil \notin Keys BY <1>2, <1>4 DEF Keys, Indices
<1> QED BY <1>2, <1>4, <1>5, <1>6

\* A main position is a node.
LEMMA MainIsNode ==
  ASSUME PartsOK, NEW k \in Keys, sizenode # 0
  PROVE  mainposition(k) \in Nodes
<1>1. use.hash[k] \in Nat BY UseTyped
<1>2. sizenode \in Nat \ {0} BY DEF PartsOK
<1>3. \A h \in Nat, n \in Nat \ {0} : h % n \in 0..n - 1 OBVIOUS
<1>4. CASE k \in use.strings \/ sizenode = 1
  BY <1>1, <1>2, <1>3, <1>4 DEF mainposition, MainIn, Nodes
<1>5. CASE ~ (k \in use.strings \/ sizenode = 1)
  <2>1. sizenode - 1 \in Nat \ {0} BY <1>2, <1>5
  <2>2. use.hash[k] % (sizenode - 1) \in 0..sizenode - 1 - 1 BY <1>1, <1>3, <2>1
  <2> QED BY <1>2, <1>5, <2>2 DEF mainposition, MainIn, Nodes
<1> QED BY <1>4, <1>5

LEMMA NodesIndexed ==
  ASSUME PartsOK
  PROVE  /\ sizenode = 0 <=> Nodes = {}
         /\ Null \notin Nodes
BY DEF PartsOK, Nodes, Null

LEMMA SettingHolds == PartsOK => TableSetting
<1>1. SUFFICES ASSUME PartsOK PROVE TableSetting OBVIOUS
<1>2. Nil \notin Keys /\ use.objects \subseteq Keys BY <1>1, UseTyped DEF Keys
<1>3. Nodes # {} => MainOf \in [Keys -> Nodes] BY <1>1, MainIsNode, NodesIndexed DEF MainOf
<1> QED BY <1>1, <1>2, <1>3, NodesIndexed DEF TableSetting, Setting, Values

LEMMA FromIsReach == \A a : From(a) = Reach(Nodes, node, a)
BY DEF From, Reach, Closed, Ends

LEMMA TableInvIsWell == PartsOK => (TableInv <=> TableWell)
<1>1. SUFFICES ASSUME PartsOK PROVE TableInv <=> TableWell OBVIOUS
<1>2. node \in [Nodes -> Entry(Keys, Values, Nodes)] BY <1>1 DEF PartsOK, NodeType, Entry
<1>3. \A p \in Nodes : node[p].key # Nil => node[p].key \in Keys BY <1>2 DEF Entry
<1>4. \A k \in Keys : MainOf[k] = mainposition(k) /\ (Nodes # {} => MainOf[k] \in Nodes)
  BY <1>1, MainIsNode, NodesIndexed DEF MainOf
<1>5. NodesWell <=> WellNodes(use.objects, Nodes, node) BY DEF NodesWell, WellNodes
<1>6. LinkedOnce <=> OnceLinked(Nodes, node) BY DEF LinkedOnce, OnceLinked
<1>7. KeysFound <=> FoundKeys(Nodes, node, MainOf)
  BY <1>3, <1>4, FromIsReach DEF KeysFound, FoundKeys
<1>8. KeysOnce <=> OnceKeys(Arr, Nodes, node) BY DEF KeysOnce, OnceKeys, InArray, Arr
<1>9. CollidingAtHome <=> AtHome(Nodes, node, MainOf)
  <2>1. ASSUME NEW p \in Nodes, node[p].key # Nil
        PROVE  (LET mp == mainposition(node[p].key)
                IN  node[mp].key # Nil /\ mainposition(node[mp].key) = mp)
               <=> (node[MainOf[node[p].key]].key # Nil
                    /\ MainOf[node[MainOf[node[p].key]].key] = MainOf[node[p].key])
    <3>1. PICK mp \in Nodes : mp = MainOf[node[p].key] /\ mp = mainposition(node[p].key)
      BY <2>1, <1>3, <1>4
    <3>2. node[mp].key # Nil => MainOf[node[mp].key] = mainposition(node[mp].key)
      BY <1>3, <1>4
    <3> QED BY <3>1, <3>2
  <2> QED BY <2>1 DEF CollidingAtHome, AtHome
<1> QED BY <1>2, <1>5, <1>6, <1>7, <1>8, <1>9 DEF TableInv, TableWell, Well
LEMMA TableInvIsWellNext == PartsOK' => (TableInv' <=> TableWell') BY TableInvIsWell, PTL

\* luaH_get finds the node of a key.
Finds == \A k \in Keys : /\ luaH_get(k) = Get(k)
                         /\ Holding(k) = Slots(Nodes, node, k)
LEMMA Lookup == PartsOK /\ TableInv => Finds
<1>1. SUFFICES ASSUME PartsOK, TableInv, NEW k \in Keys
               PROVE  luaH_get(k) = Get(k) /\ Holding(k) = Slots(Nodes, node, k)
  BY DEF Finds
<1>2. k # Nil BY <1>1, UseTyped
<1>3. TableWell BY <1>1, TableInvIsWell
<1>4. Holding(k) = Slots(Nodes, node, k)
  <2>1. Holding(k) \subseteq Slots(Nodes, node, k) BY DEF Holding, Slots, Chain, From
  <2>2. ASSUME NEW p \in Slots(Nodes, node, k) PROVE p \in Holding(k)
    <3>1. p \in Nodes /\ node[p].key = k /\ ~node[p].dead BY <2>2 DEF Slots
    <3>2. p \in From(mainposition(node[p].key)) BY <1>1, <1>2, <3>1 DEF TableInv, KeysFound
    <3>3. sizenode # 0 BY <1>1, <3>1, NodesIndexed
    <3>4. p \in Chain(k) BY <3>1, <3>2, <3>3 DEF Chain
    <3> QED BY <3>1, <3>4 DEF Holding
  <2> QED BY <2>1, <2>2
<1>5. CASE Slots(Nodes, node, k) = {} BY <1>4, <1>5 DEF luaH_get, Get, Val
<1>6. CASE \E p : p \in Slots(Nodes, node, k)
  <2>1. PICK p : p \in Slots(Nodes, node, k) BY <1>6
  <2>2. Slots(Nodes, node, k) = {p} BY <1>2, <1>3, <2>1, SlotsOnce DEF TableWell, Well
  <2>3. p \in Nodes BY <2>1 DEF Slots
  <2>4. Ends(Nodes, node) BY <1>3, WellEnds DEF TableWell, Well
  <2>5. p \in From(p) BY <2>3, <2>4, ReachGoesOn, FromIsReach
  <2>6. First({p}) = p BY <2>5 DEF First
  <2>7. Val(Nodes, node, k) = node[p].val BY <2>2, ValIs
  <2> QED BY <1>4, <2>2, <2>6, <2>7 DEF luaH_get, Get
<1> QED BY <1>4, <1>5, <1>6
LEMMA LookupNext == PartsOK' /\ TableInv' => Finds' BY Lookup, PTL

-----------------------------------------------------------------------------
(* Steps that leave the sizes: the main positions stay.                    *)
SameSizes == use' = use /\ sizenode' = sizenode /\ Len(array') = Len(array)
GetsSet(k, v) == \A j \in Keys : luaH_get(j)' = IF j = k THEN v ELSE luaH_get(j)

LEMMA SizesStay ==
  ASSUME SameSizes
  PROVE  /\ Nodes' = Nodes /\ Keys' = Keys /\ Values' = Values /\ Indices' = Indices
         /\ MainOf' = MainOf /\ Arr' = Arr /\ use'.objects = use.objects
         /\ \A k : InArray(k)' <=> InArray(k)
<1>1. use' = use /\ sizenode' = sizenode /\ Len(array') = Len(array) BY DEF SameSizes
<1>2. Nodes' = Nodes /\ Keys' = Keys /\ Values' = Values /\ Indices' = Indices
  BY <1>1 DEF Nodes, Keys, Values, Indices
<1>3. MainOf' = MainOf BY <1>1, <1>2 DEF MainOf, mainposition, MainIn
<1>4. Arr' = Arr /\ \A k : InArray(k)' <=> InArray(k) BY <1>1 DEF Arr, InArray
<1> QED BY <1>1, <1>2, <1>3, <1>4

NodesKept == Well(Keys, Values, use.objects, Arr, Nodes, node', MainOf)

\* The invariant of a step, from what it does to the array and to the nodes.
LEMMA TableStep ==
  ASSUME PartsOK, TableInv, SameSizes, array' \in Seq(Values), lastfree' \in Nat,
         \A i \in Arr : array'[i] # array[i] => i \in Indices, NodesKept
  PROVE  /\ PartsOK' /\ TableInv'
         /\ \A j \in Keys : luaH_get(j)' = IF InArray(j) THEN array'[j] ELSE Val(Nodes, node', j)
<1>1. TableWell BY TableInvIsWell
<1>2. PartsOK'
  <2>1. node' \in [Nodes -> Entry(Keys, Values, Nodes)] BY DEF NodesKept, Well
  <2>2. node' \in [Nodes' -> NodeType'] BY <2>1, SizesStay DEF Entry, NodeType
  <2>3. use' = use /\ sizenode' = sizenode BY DEF SameSizes
  <2> QED BY <2>2, <2>3, SizesStay DEF PartsOK
<1>3. ArrayWell'
  <2>1. ASSUME NEW i \in Arr', array'[i] # Nil PROVE i \in Indices'
    <3>1. i \in Arr BY <2>1, SizesStay
    <3>2. CASE array'[i] # array[i] BY <3>1, <3>2, SizesStay
    <3>3. CASE array'[i] = array[i] BY <1>1, <2>1, <3>1, <3>3, SizesStay DEF TableWell, ArrayWell, Arr
    <3> QED BY <3>2, <3>3
  <2> QED BY <2>1 DEF ArrayWell, Arr
<1>4. TableWell' BY <1>3, SizesStay DEF TableWell, NodesKept
<1>5. TableInv' BY <1>2, <1>4, TableInvIsWellNext
<1>6. Finds' BY <1>2, <1>5, LookupNext
<1>7. ASSUME NEW j \in Keys
      PROVE  luaH_get(j)' = IF InArray(j) THEN array'[j] ELSE Val(Nodes, node', j)
  <2>1. luaH_get(j)' = Get(j)' BY <1>6, SizesStay DEF Finds
  <2> QED BY <2>1, SizesStay DEF Get
<1> QED BY <1>2, <1>5, <1>7

\* The array has a place for the key.
LEMMA AssignInArray ==
  ASSUME PartsOK, TableInv, use' = use, NEW k \in Keys, NEW v \in Values, InArray(k),
         array' = [array EXCEPT ![k] = v], UNCHANGED <<node, sizenode, lastfree>>
  PROVE  PartsOK' /\ TableInv' /\ SameSizes /\ GetsSet(k, v)
<1>1. k \in Arr /\ array \in Seq(Values) BY DEF InArray, PartsOK, Arr
<1>2. array' \in Seq(Values) /\ Len(array') = Len(array) BY <1>1 DEF Arr
<1>3. \A i \in Arr : array'[i] = IF i = k THEN v ELSE array[i] BY <1>1 DEF Arr
<1>4. k \in Indices
  <2>1. k \in Int BY <1>1 DEF Arr, PartsOK
  <2> QED BY <2>1, UseTyped DEF Keys
<1>5. SameSizes BY <1>2 DEF SameSizes
<1>6. NodesKept BY TableInvIsWell DEF NodesKept, TableWell
<1>7. lastfree' \in Nat BY DEF PartsOK
<1>8. \A i \in Arr : array'[i] # array[i] => i \in Indices BY <1>3, <1>4
<1>9. /\ PartsOK' /\ TableInv'
      /\ \A j \in Keys : luaH_get(j)' = IF InArray(j) THEN array'[j] ELSE Val(Nodes, node', j)
  BY <1>2, <1>5, <1>6, <1>7, <1>8, TableStep
<1>10. ASSUME NEW j \in Keys PROVE luaH_get(j)' = IF j = k THEN v ELSE luaH_get(j)
  <2>1. luaH_get(j) = IF InArray(j) THEN array[j] ELSE Val(Nodes, node, j)
    BY Lookup DEF Finds, Get
  <2>2. luaH_get(j)' = IF InArray(j) THEN array'[j] ELSE Val(Nodes, node, j) BY <1>9
  <2>3. InArray(j) => array'[j] = IF j = k THEN v ELSE array[j] BY <1>3 DEF InArray, Arr
  <2> QED BY <2>1, <2>2, <2>3
<1> QED BY <1>5, <1>9, <1>10 DEF GetsSet

\* From what a step does to the nodes: the array stays.
LEMMA NodesWritten ==
  ASSUME PartsOK, TableInv, use' = use, NEW k \in Keys, NEW v \in Values, ~InArray(k),
         UNCHANGED <<array, sizenode>>, lastfree' \in Nat, NodesKept,
         Written(Keys, Nodes, node, node', k, v)
  PROVE  PartsOK' /\ TableInv' /\ SameSizes /\ GetsSet(k, v)
<1>1. SameSizes BY DEF SameSizes
<1>2. array' \in Seq(Values) BY DEF PartsOK
<1>3. \A i \in Arr : array'[i] # array[i] => i \in Indices OBVIOUS
<1>4. /\ PartsOK' /\ TableInv'
      /\ \A j \in Keys : luaH_get(j)' = IF InArray(j) THEN array'[j] ELSE Val(Nodes, node', j)
  BY <1>1, <1>2, <1>3, TableStep
<1>5. ASSUME NEW j \in Keys PROVE luaH_get(j)' = IF j = k THEN v ELSE luaH_get(j)
  <2>1. luaH_get(j) = IF InArray(j) THEN array[j] ELSE Val(Nodes, node, j)
    BY Lookup DEF Finds, Get
  <2>2. luaH_get(j)' = IF InArray(j) THEN array[j] ELSE Val(Nodes, node', j) BY <1>4
  <2>3. Val(Nodes, node', j) = IF j = k THEN v ELSE Val(Nodes, node, j) BY DEF Written
  <2> QED BY <2>1, <2>2, <2>3
<1> QED BY <1>1, <1>4, <1>5 DEF GetsSet

\* The key has a node.
LEMMA FoundNode ==
  ASSUME PartsOK, TableInv, NEW k \in Keys, Holding(k) # {}
  PROVE  /\ First(Holding(k)) \in Nodes /\ node[First(Holding(k))].key = k
         /\ ~node[First(Holding(k))].dead /\ Slots(Nodes, node, k) = {First(Holding(k))}
<1>1. TableWell BY TableInvIsWell
<1>2. k # Nil BY UseTyped
<1>3. PICK p : p \in Holding(k) OBVIOUS
<1>4. Holding(k) = {p} /\ Slots(Nodes, node, k) = {p}
  <2>1. Holding(k) = Slots(Nodes, node, k) BY Lookup DEF Finds
  <2>2. p \in Slots(Nodes, node, k) BY <1>3, <2>1
  <2> QED BY <1>1, <1>2, <2>1, <2>2, SlotsOnce DEF TableWell, Well
<1>5. p \in Nodes /\ node[p].key = k /\ ~node[p].dead
  <2>1. p \in Slots(Nodes, node, k) BY <1>4
  <2> QED BY <2>1 DEF Slots
<1>6. First(Holding(k)) = p
  <2>1. Ends(Nodes, node) BY <1>1, WellEnds DEF TableWell, Well
  <2>2. p \in From(p) BY <1>5, <2>1, ReachGoesOn, FromIsReach
  <2> QED BY <1>4, <2>2 DEF First
<1> QED BY <1>4, <1>5, <1>6

\* Its node gets a value, or loses it and is dead.
LEMMA NodeChanged ==
  ASSUME PartsOK, TableInv, use' = use, NEW k \in Keys, NEW v \in Values, ~InArray(k),
         Holding(k) # {}, UNCHANGED <<array, sizenode, lastfree>>, NEW e \in NodeType,
         node' = [node EXCEPT ![First(Holding(k))] = e], e.key = k, e.val = v,
         e.next = node[First(Holding(k))].next, e.dead => v = Nil /\ k \in use.objects
  PROVE  PartsOK' /\ TableInv' /\ SameSizes /\ GetsSet(k, v)
<1>1. TableWell BY TableInvIsWell
<1>2. k # Nil BY UseTyped
<1>3. PICK p : p = First(Holding(k)) OBVIOUS
<1>4. Slots(Nodes, node, k) = {p} /\ p \in Nodes /\ node[p].key = k /\ ~node[p].dead
  BY <1>3, FoundNode
<1>7. PICK g : g = node' OBVIOUS
<1>8. node \in [Nodes -> Entry(Keys, Values, Nodes)] BY <1>1 DEF TableWell, Well
<1>9. (\A q \in Nodes \ {p} : g[q] = node[q]) /\ g[p] = e /\ e.next = node[p].next
  BY <1>3, <1>4, <1>7, <1>8
<1>10. g \in [Nodes -> Entry(Keys, Values, Nodes)]
  <2>1. e \in Entry(Keys, Values, Nodes) BY DEF Entry, NodeType
  <2> QED BY <2>1, <1>3, <1>4, <1>7, <1>8
<1>11. \A q \in Nodes : /\ g[q].key = node[q].key /\ g[q].next = node[q].next
                        /\ node[q].key = Nil => g[q] = node[q]
                        /\ node[q].dead => g[q].dead
                        /\ g[q].dead => g[q].val = Nil /\ g[q].key \in use.objects
  <2>1. \A q \in Nodes : node[q].dead => node[q].val = Nil /\ node[q].key \in use.objects
    BY <1>1 DEF TableWell, Well, WellNodes
  <2> QED BY <2>1, <1>2, <1>4, <1>9
<1>12. Well(Keys, Values, use.objects, Arr, Nodes, g, MainOf)
  <2>1. Setting(Keys, Values, use.objects, Nodes, MainOf) BY SettingHolds DEF TableSetting
  <2>2. Well(Keys, Values, use.objects, Arr, Nodes, node, MainOf) BY <1>1 DEF TableWell
  <2> QED BY <2>1, <2>2, <1>10, <1>11, SameKeysWell
<1>13. Written(Keys, Nodes, node, g, k, v)
  <2>1. Val(Nodes, g, k) = v
    <3>1. CASE e.dead
      <4>1. Slots(Nodes, g, k) = {} BY <1>4, <1>9, <3>1 DEF Slots
      <4> QED BY <4>1, <3>1 DEF Val
    <3>2. CASE ~e.dead
      <4>1. Slots(Nodes, g, k) = {p} BY <1>4, <1>9, <3>2 DEF Slots
      <4>2. Val(Nodes, g, k) = g[p].val BY <4>1, ValIs
      <4> QED BY <4>2, <1>9
    <3> QED BY <3>1, <3>2
  <2>2. ASSUME NEW j \in Keys \ {k} PROVE SameVal(Nodes, node, g, j)
    <3>1. Slots(Nodes, g, j) = Slots(Nodes, node, j) BY <1>4, <1>9 DEF Slots
    <3>2. CASE Slots(Nodes, node, j) = {} BY <3>1, <3>2 DEF SameVal
    <3>3. CASE \E q : q \in Slots(Nodes, node, j)
      <4>1. PICK q : q \in Slots(Nodes, node, j) BY <3>3
      <4>2. j # Nil BY UseTyped
      <4>3. Slots(Nodes, node, j) = {q} BY <4>1, <4>2, <1>1, SlotsOnce DEF TableWell, Well
      <4>4. q \in Nodes /\ q # p BY <4>1, <1>4, <2>2 DEF Slots
      <4>5. g[q].val = node[q].val BY <4>4, <1>9
      <4> QED BY <4>3, <4>5, <3>1 DEF SameVal
    <3> QED BY <3>2, <3>3
  <2>3. \A j \in Keys \ {k} : Val(Nodes, g, j) = Val(Nodes, node, j) BY <2>2, SameValMeans
  <2> QED BY <2>1, <2>3 DEF Written
<1>14. NodesKept /\ Written(Keys, Nodes, node, node', k, v) BY <1>7, <1>12, <1>13 DEF NodesKept
<1>15. lastfree' \in Nat BY DEF PartsOK
<1> QED BY <1>14, <1>15, NodesWritten

LEMMA AssignToNode ==
  ASSUME PartsOK, TableInv, use' = use, NEW k \in Keys, NEW v \in Values, ~InArray(k),
         Holding(k) # {}, node' = [node EXCEPT ![First(Holding(k))].val = v],
         UNCHANGED <<array, sizenode, lastfree>>
  PROVE  PartsOK' /\ TableInv' /\ SameSizes /\ GetsSet(k, v)
<1>1. PICK p : p = First(Holding(k)) OBVIOUS
<1>2. p \in Nodes /\ node[p].key = k /\ ~node[p].dead BY <1>1, FoundNode
<1>3. node \in [Nodes -> NodeType] BY DEF PartsOK
<1>4. PICK e : e = [node[p] EXCEPT !.val = v] OBVIOUS
<1>5. /\ e \in NodeType /\ e.key = k /\ e.val = v /\ e.next = node[p].next
      /\ ~e.dead
  BY <1>2, <1>3, <1>4 DEF NodeType
<1>6. node' = [node EXCEPT ![First(Holding(k))] = e] BY <1>1, <1>4
<1> QED BY <1>1, <1>5, <1>6, NodeChanged

\* The free node that is taken.
LEMMA FreeTaken ==
  ASSUME PartsOK, Free # {}
  PROVE  Greatest(Free) \in Nodes /\ node[Greatest(Free)].key = Nil /\ Greatest(Free) \in Nat
<1>1. sizenode \in Nat /\ Free \subseteq 0..sizenode - 1 BY DEF PartsOK, Free, Nodes
<1>2. Free \in SUBSET Nat /\ \A x \in Free : x <= sizenode BY <1>1
<1>3. Greatest(Free) \in Free BY <1>1, <1>2, GreatestIs
<1> QED BY <1>2, <1>3 DEF Free, Nodes

\* The key is new.
LEMMA AssignNewKey ==
  ASSUME PartsOK, TableInv, use' = use, NEW k \in Keys, NEW v \in Values, ~InArray(k),
         Holding(k) = {}, newkey(k, v)
  PROVE  PartsOK' /\ TableInv' /\ SameSizes /\ GetsSet(k, v)
<1>1. TableWell BY TableInvIsWell
<1>2. Setting(Keys, Values, use.objects, Nodes, MainOf) BY SettingHolds DEF TableSetting
<1>3. Well(Keys, Values, use.objects, Arr, Nodes, node, MainOf) BY <1>1 DEF TableWell
<1>4. Slots(Nodes, node, k) = {} BY Lookup DEF Finds
<1>5. k \notin Arr BY DEF InArray, Arr
<1>6. PICK g : g = node' OBVIOUS
<1>7. UNCHANGED <<array, sizenode>> BY DEF newkey
<1>8. \A j \in Keys : MainOf[j] = mainposition(j) BY DEF MainOf
<1>9. SUFFICES /\ Well(Keys, Values, use.objects, Arr, Nodes, g, MainOf)
               /\ Written(Keys, Nodes, node, g, k, v) /\ lastfree' \in Nat
  BY <1>6, <1>7, NodesWritten DEF NodesKept
<1>10. CASE AtMainPosition(k, v)
  <2>1. sizenode # 0 /\ node[mainposition(k)].val = Nil /\ lastfree' = lastfree
    BY <1>10 DEF AtMainPosition, Taking
  <2>2. Nodes # {} BY <2>1, NodesIndexed
  <2>3. WriteOver(node, g, MainOf[k], k, v)
    BY <1>6, <1>8, <1>10 DEF AtMainPosition, WriteOver
  <2>4. node[MainOf[k]].val = Nil BY <1>8, <2>1
  <2>5. lastfree' \in Nat BY <2>1 DEF PartsOK
  <2> QED BY <1>2, <1>3, <1>4, <1>5, <2>2, <2>3, <2>4, <2>5, OverwrittenWell
<1>11. ASSUME sizenode # 0, Taking(k)
       PROVE  /\ mainposition(k) \in Nodes /\ MainOf[k] = mainposition(k)
              /\ node[mainposition(k)].val # Nil /\ node[mainposition(k)].key \in Keys
  <2>1. mainposition(k) \in Nodes /\ MainOf[k] = mainposition(k) BY <1>8, <1>11, MainIsNode
  <2>2. node[mainposition(k)].val # Nil BY <1>11 DEF Taking
  <2>3. node[mainposition(k)].key # Nil BY <2>1, <2>2, <1>3 DEF Well, WellNodes, Unused
  <2>4. node \in [Nodes -> Entry(Keys, Values, Nodes)] BY <1>3 DEF Well
  <2> QED BY <2>1, <2>2, <2>3, <2>4 DEF Entry
<1>12. Free # {} => sizenode # 0
  BY NodesIndexed DEF Free
<1>13. CASE LinkIn(k, v)
  <2>1. Taking(k) /\ Free # {} /\ lastfree' = Greatest(Free) BY <1>13 DEF LinkIn
  <2>2. PICK mp : mp = mainposition(k) OBVIOUS
  <2>3. PICK n : n = Greatest(Free) OBVIOUS
  <2>4. /\ mp \in Nodes /\ mp = MainOf[k] /\ node[mp].val # Nil /\ node[mp].key \in Keys
    BY <1>11, <1>12, <2>1, <2>2
  <2>5. n \in Nodes /\ node[n].key = Nil /\ n \in Nat BY <2>1, <2>3, FreeTaken
  <2>6. mainposition(node[mp].key) = mp BY <1>13, <2>2 DEF LinkIn
  <2>7. MainOf[node[mp].key] = mp BY <1>8, <2>4, <2>6
  <2>8. WriteIn(node, g, mp, n, k, v) BY <1>6, <1>13, <2>2, <2>3 DEF LinkIn, WriteIn
  <2> QED BY <1>2, <1>3, <1>4, <1>5, <2>1, <2>3, <2>4, <2>5, <2>7, <2>8, LinkedInWell
<1>14. CASE Displace(k, v)
  <2>1. Taking(k) /\ Free # {} /\ lastfree' = Greatest(Free) BY <1>14 DEF Displace
  <2>2. PICK mp : mp = mainposition(k) OBVIOUS
  <2>3. PICK n : n = Greatest(Free) OBVIOUS
  <2>4. /\ mp \in Nodes /\ mp = MainOf[k] /\ node[mp].val # Nil /\ node[mp].key \in Keys
    BY <1>11, <1>12, <2>1, <2>2
  <2>5. n \in Nodes /\ node[n].key = Nil /\ n \in Nat BY <2>1, <2>3, FreeTaken
  <2>6. PICK other : other = mainposition(node[mp].key) OBVIOUS
  <2>7. PICK prev : prev = CHOOSE p \in From(other) : node[p].next = mp OBVIOUS
  <2>8. other # mp /\ MoveAway(node, g, mp, n, prev, k, v)
    BY <1>6, <1>14, <2>2, <2>3, <2>6, <2>7 DEF Displace, MoveAway
  <2>9. other = MainOf[node[mp].key] BY <1>8, <2>4, <2>6
  <2>10. prev \in Reach(Nodes, node, other) /\ node[prev].next = mp
    <3>1. Ends(Nodes, node) BY <1>3, WellEnds DEF Well
    <3>2. node[mp].key # Nil BY <2>4, UseTyped
    <3>3. mp \in Reach(Nodes, node, other) BY <2>4, <2>9, <3>2, <1>3 DEF Well, FoundKeys
    <3>4. other \in Nodes BY <2>4, <2>6, <1>12, <2>1, MainIsNode
    <3>5. \E p \in Reach(Nodes, node, other) : p # mp /\ node[p].next = mp
      BY <2>8, <3>1, <3>3, <3>4, ReachBefore
    <3> QED BY <2>7, <3>5, FromIsReach
  <2>11. prev \in Reach(Nodes, node, MainOf[node[mp].key]) BY <2>9, <2>10
  <2>12. MainOf[node[mp].key] # mp BY <2>8, <2>9
  <2> QED BY <1>2, <1>3, <1>4, <1>5, <2>1, <2>3, <2>4, <2>5, <2>8, <2>10, <2>11, <2>12, MovedAwayWell
<1> QED BY <1>10, <1>13, <1>14 DEF newkey

LEMMA AssignKeeps ==
  ASSUME PartsOK, TableInv, use' = use, NEW k \in Keys, NEW v \in Values, Assign(k, v)
  PROVE  PartsOK' /\ TableInv' /\ SameSizes /\ GetsSet(k, v)
<1>1. CASE /\ InArray(k)
           /\ array' = [array EXCEPT ![k] = v]
           /\ UNCHANGED <<node, sizenode, lastfree, walk>>
  BY <1>1, AssignInArray
<1>2. CASE /\ ~InArray(k) /\ Holding(k) # {}
           /\ node' = [node EXCEPT ![First(Holding(k))].val = v]
           /\ UNCHANGED <<array, sizenode, lastfree, walk>>
  BY <1>2, AssignToNode
<1>3. CASE ~InArray(k) /\ Holding(k) = {} /\ newkey(k, v)
  BY <1>3, AssignNewKey
<1> QED BY <1>1, <1>2, <1>3 DEF Assign

LEMMA GetTyped ==
  ASSUME PartsOK, TableInv, NEW k \in Keys
  PROVE  luaH_get(k) \in Values
<1>1. luaH_get(k) = Get(k) BY Lookup DEF Finds
<1>2. CASE InArray(k) BY <1>1, <1>2 DEF Get, InArray, PartsOK
<1>3. CASE ~InArray(k)
  <2>1. luaH_get(k) = Val(Nodes, node, k) BY <1>1, <1>3 DEF Get
  <2>2. CASE Slots(Nodes, node, k) = {} BY <2>1, <2>2 DEF Val, Values
  <2>3. CASE \E p : p \in Slots(Nodes, node, k)
    <3>1. PICK p : p \in Slots(Nodes, node, k) BY <2>3
    <3>2. k # Nil BY UseTyped
    <3>3. TableWell BY TableInvIsWell
    <3>4. Slots(Nodes, node, k) = {p} BY <3>1, <3>2, <3>3, SlotsOnce DEF TableWell, Well
    <3>5. Val(Nodes, node, k) = node[p].val BY <3>4, ValIs
    <3>6. p \in Nodes BY <3>1 DEF Slots
    <3>7. node[p].val \in Values BY <3>3, <3>6 DEF TableWell, Well, Entry
    <3> QED BY <2>1, <3>5, <3>7
  <2> QED BY <2>2, <2>3
<1> QED BY <1>2, <1>3

LEMMA PartsStay ==
  ASSUME PartsOK, TableInv, use' = use, UNCHANGED parts
  PROVE  PartsOK' /\ TableInv' /\ SameSizes /\ \A k \in Keys : luaH_get(k)' = luaH_get(k)
<1>1. UNCHANGED <<array, node, sizenode, lastfree>> BY DEF parts
<1>2. SameSizes BY <1>1 DEF SameSizes
<1>3. NodesKept BY <1>1, TableInvIsWell DEF NodesKept, TableWell
<1>4. array' \in Seq(Values) /\ lastfree' \in Nat BY <1>1 DEF PartsOK
<1>5. \A i \in Arr : array'[i] # array[i] => i \in Indices BY <1>1
<1>6. /\ PartsOK' /\ TableInv'
      /\ \A j \in Keys : luaH_get(j)' = IF InArray(j) THEN array'[j] ELSE Val(Nodes, node', j)
  BY <1>2, <1>3, <1>4, <1>5, TableStep
<1>7. \A j \in Keys : luaH_get(j) = IF InArray(j) THEN array[j] ELSE Val(Nodes, node, j)
  BY Lookup DEF Finds, Get
<1> QED BY <1>1, <1>2, <1>6, <1>7

-----------------------------------------------------------------------------
(* The assignments of a call, and those of resize before them.             *)
CurrentRight ==
  /\ \A i \in 1..Len(todo) : Moved(i) => Current[todo[i].key] = todo[i].val
  /\ \A k \in Keys : (\A i \in 1..Len(todo) : Moved(i) => todo[i].key # k) => Current[k] = Table[k]
MovedWell ==
  \A i \in 1..Len(todo) : Moved(i) =>
    /\ todo[i].key \in Keys /\ todo[i].from = Nil /\ Table[todo[i].key] = Nil
    /\ \A j \in 1..Len(todo) : Moved(j) /\ todo[j].key = todo[i].key => j = i
LEMMA MovingMeans ==
  MovingInv <=> MovedWell /\ \A i \in 1..Len(todo) : i > moving => todo[i].key \in Keys
BY DEF MovingInv, MovedWell
LEMMA CurrentIs == MovedWell => CurrentRight
<1>1. ASSUME MovedWell, NEW i \in 1..Len(todo), Moved(i)
      PROVE  Current[todo[i].key] = todo[i].val
  <2>1. \A j \in Back(todo[i].key) : j = i BY <1>1 DEF MovedWell, Back
  <2>2. i \in Back(todo[i].key) BY <1>1 DEF Back
  <2>3. (CHOOSE j \in Back(todo[i].key) : TRUE) = i BY <2>1, <2>2
  <2>4. todo[i].key \in Keys BY <1>1 DEF MovedWell
  <2> QED BY <2>2, <2>3, <2>4 DEF Current
<1>2. ASSUME NEW k \in Keys, \A i \in 1..Len(todo) : Moved(i) => todo[i].key # k
      PROVE  Current[k] = Table[k]
  <2>1. Back(k) = {} BY <1>2 DEF Back
  <2> QED BY <2>1 DEF Current
<1> QED BY <1>1, <1>2 DEF CurrentRight
LEMMA CurrentIsNext == MovedWell' => CurrentRight' BY CurrentIs, PTL

IsFunction == Current = [k \in Keys |-> Current[k]]
LEMMA CurrentFunction == IsFunction
BY DEF Current, IsFunction
LEMMA CurrentFunctionNext == IsFunction'
BY CurrentFunction, PTL

LEMMA SameCurrent ==
  ASSUME Keys' = Keys, Table' = Table, todo' = todo, \A k : Back(k)' = Back(k)
  PROVE  Current' = Current
<1>1. ASSUME NEW k \in Keys PROVE Current'[k] = Current[k]
  <2>1. Current[k] = IF Back(k) = {} THEN Table[k] ELSE todo[CHOOSE i \in Back(k) : TRUE].val
    BY DEF Current
  <2>2. Current'[k] = IF Back(k)' = {} THEN Table'[k] ELSE todo'[CHOOSE i \in Back(k)' : TRUE].val
    BY DEF Current
  <2>3. Back(k)' = Back(k) OBVIOUS
  <2> QED BY <2>1, <2>2, <2>3
<1>2. Current = [k \in Keys |-> Current[k]] BY CurrentFunction DEF IsFunction
<1>3. Current' = [k \in Keys |-> Current'[k]] BY CurrentFunctionNext DEF IsFunction
<1> QED BY <1>1, <1>2, <1>3

\* resize has nothing left to put back: only the table counts.
LEMMA NothingMoving ==
  ASSUME CallsOK, moving = 0
  PROVE  /\ \A i \in 1..Len(todo) : ~Moved(i)
         /\ \A k \in Keys : Current[k] = Table[k]
<1>1. \A i : ~Moved(i) BY DEF Moved
<1>2. \A k : Back(k) = {} BY <1>1 DEF Back
<1> QED BY <1>1, <1>2 DEF Current

CallsRight(calling, result) ==
  /\ \A i \in 1..Len(calling) : calling[i].key \in Keys /\ calling[i].from \in Keys \cup {Nil}
  /\ \A i, j \in 1..Len(calling) : i < j => /\ calling[i].key # calling[j].key
                                            /\ calling[i].key # calling[j].from
  /\ \A k \in Keys :
       /\ (\A i \in 1..Len(calling) : calling[i].key # k) => result[k] = Table[k]
       /\ \A i \in 1..Len(calling) : calling[i].key = k =>
            result[k] = IF calling[i].from = Nil THEN calling[i].val ELSE Table[calling[i].from]
CurrentStays == \A k \in Keys : Current'[k] = Table[k]

LEMMA CallsMade ==
  ASSUME PartsOK, use' = use, NEW T \in Seq(Assignment), NEW calling \in Seq(Assignment),
         todo' = T \o calling, moving' = Len(T), CurrentStays, CallsRight(calling, content')
  PROVE  /\ CallInv' /\ Promise'
         /\ \A i \in 1..Len(todo') : i > moving' => todo'[i].key \in Keys
<1>1. Keys' = Keys BY DEF Keys, Indices
<1>2. PICK m \in Nat : m = Len(T) OBVIOUS
<1>3. PICK n \in Nat : n = Len(calling) OBVIOUS
<1>4. Len(todo') = m + n /\ \A i \in 1..Len(todo') : i > m => i - m \in 1..n /\ todo'[i] = calling[i - m]
  BY <1>2, <1>3
<1>5. \A i \in 1..n : i + m \in 1..Len(todo') /\ i + m > m /\ todo'[i + m] = calling[i]
  BY <1>2, <1>3
<1>6. CallInv'
  <2>1. ASSUME NEW i \in 1..Len(todo'), NEW j \in 1..Len(todo'), m < i, i < j
        PROVE  todo'[i].key # todo'[j].key /\ todo'[i].key # todo'[j].from
    <3>1. i - m \in 1..n /\ j - m \in 1..n /\ todo'[i] = calling[i - m] /\ todo'[j] = calling[j - m]
      BY <2>1, <1>4
    <3>2. i - m < j - m BY <2>1
    <3> QED BY <3>1, <3>2, <1>3 DEF CallsRight
  <2> QED BY <2>1, <1>2 DEF CallInv
<1>7. Promise'
  <2>1. ASSUME NEW k \in Keys, Pending(k)' = {} PROVE content'[k] = Current'[k]
    <3>1. \A i \in 1..n : calling[i].key # k
      <4>1. ASSUME NEW i \in 1..n, calling[i].key = k PROVE FALSE
        <5>1. i + m \in Pending(k)' BY <1>2, <1>5, <4>1 DEF Pending
        <5> QED BY <5>1, <2>1
      <4> QED BY <4>1
    <3>2. content'[k] = Table[k] BY <3>1, <1>3 DEF CallsRight
    <3> QED BY <3>2 DEF CurrentStays
  <2>2. ASSUME NEW k \in Keys, NEW i \in Pending(k)'
        PROVE  content'[k] = IF todo'[i].from = Nil THEN todo'[i].val ELSE Current'[todo'[i].from]
    <3>1. i \in 1..Len(todo') /\ i > m /\ todo'[i].key = k BY <1>2, <2>2 DEF Pending
    <3>2. PICK j \in 1..n : todo'[i] = calling[j] BY <1>4, <3>1
    <3>3. /\ calling[j].from \in Keys \cup {Nil}
          /\ content'[k] = IF calling[j].from = Nil THEN calling[j].val ELSE Table[calling[j].from]
      BY <3>1, <3>2, <1>3 DEF CallsRight
    <3>4. PICK h : h = calling[j].from OBVIOUS
    <3>5. h # Nil => Current'[h] = Table[h] BY <3>3, <3>4 DEF CurrentStays
    <3> QED BY <3>2, <3>3, <3>4, <3>5
  <2> QED BY <2>1, <2>2, <1>1 DEF Promise
<1>8. ASSUME NEW i \in 1..Len(todo'), i > moving' PROVE todo'[i].key \in Keys
  BY <1>2, <1>3, <1>4, <1>8 DEF CallsRight
<1> QED BY <1>6, <1>7, <1>8

-----------------------------------------------------------------------------
(* Steps as changes of the map.                                            *)
LEMMA TableTyped ==
  ASSUME PartsOK, TableInv
  PROVE  Table \in [Keys -> Values]
BY GetTyped DEF Table

LEMMA AssignTable ==
  ASSUME PartsOK, TableInv, use' = use, NEW k \in Keys, NEW v \in Values, Assign(k, v)
  PROVE  PartsOK' /\ TableInv' /\ Table' = [Table EXCEPT ![k] = v]
<1>1. PartsOK' /\ TableInv' /\ SameSizes /\ GetsSet(k, v) BY AssignKeeps
<1>2. Keys' = Keys BY <1>1, SizesStay
<1>3. Table' = [j \in Keys |-> luaH_get(j)'] BY <1>2 DEF Table
<1>4. \A j \in Keys : luaH_get(j)' = IF j = k THEN v ELSE luaH_get(j) BY <1>1 DEF GetsSet
<1>5. Table' = [j \in Keys |-> IF j = k THEN v ELSE luaH_get(j)] BY <1>3, <1>4
<1> QED BY <1>1, <1>5 DEF Table

LEMMA PartsStayTable ==
  ASSUME PartsOK, TableInv, use' = use, UNCHANGED parts
  PROVE  PartsOK' /\ TableInv' /\ Table' = Table
<1>1. PartsOK' /\ TableInv' /\ SameSizes /\ \A k \in Keys : luaH_get(k)' = luaH_get(k)
  BY PartsStay
<1>2. Keys' = Keys BY <1>1, SizesStay
<1>3. Table' = [j \in Keys |-> luaH_get(j)'] BY <1>2 DEF Table
<1> QED BY <1>1, <1>3 DEF Table

\* What an assignment puts in is a value.
LEMMA ValueTyped ==
  ASSUME PartsOK, TableInv, NEW e \in Assignment
  PROVE  Value(e) \in Values /\ (e.from # Nil => e.from \in Keys /\ Value(e) = Table[e.from])
<1>1. e.val \in Values /\ e.from \in Keys \cup {Nil} BY DEF Assignment
<1> QED BY <1>1, GetTyped DEF Value, Table

LEMMA TailOf ==
  ASSUME NEW S, NEW q \in Seq(S), q # <<>>
  PROVE  /\ Len(q) \in Nat \ {0} /\ Head(q) = q[1] /\ q[1] \in S
         /\ Tail(q) \in Seq(S) /\ Len(Tail(q)) = Len(q) - 1
         /\ \A i \in 1..Len(q) - 1 : i + 1 \in 1..Len(q) /\ Tail(q)[i] = q[i + 1]
OBVIOUS

\* One of the elements that resize took out is put back, or skipped.
LEMMA PutBack ==
  ASSUME IInv, use' = use, content' = content, todo # <<>>, todo' = Tail(todo), moving > 0,
         moving' = moving - 1, PartsOK', TableInv',
         Table' = IF Moved(1) THEN [Table EXCEPT ![todo[1].key] = todo[1].val] ELSE Table
  PROVE  MovingInv' /\ CallInv' /\ Promise'
<1> DEFINE n == Len(todo)
<1>1. Keys' = Keys BY DEF Keys, Indices
<1>2. /\ PartsOK /\ CallsOK /\ TableInv /\ MovingInv /\ CallInv /\ Promise
      /\ todo \in Seq(Assignment) /\ moving \in 0..n
  BY DEF IInv, TypeOK, CallsOK
<1>3. /\ n \in Nat \ {0} /\ Len(todo') = n - 1 /\ n - 1 \in Nat
      /\ \A i \in 1..n - 1 : i + 1 \in 1..n /\ todo'[i] = todo[i + 1]
  BY <1>2, TailOf
<1>4. \A i \in 2..n : i - 1 \in 1..n - 1 /\ todo'[i - 1] = todo[i]
  <2>1. \A i \in 2..n : i - 1 \in 1..n - 1 /\ (i - 1) + 1 = i BY <1>3
  <2> QED BY <2>1, <1>3
<1> HIDE DEF n
<1>5. moving \in Nat /\ moving - 1 \in Nat BY <1>2, <1>3
<1>6. \A i \in 1..n - 1 : Moved(i)' <=> Moved(i + 1)
  <2>1. \A i \in 1..n - 1 : i \in 1..moving - 1 <=> i + 1 \in 1..moving BY <1>3, <1>5
  <2> QED BY <1>3, <2>1 DEF Moved
<1>7. \A i \in 1..n : Moved(i) => /\ todo[i].key \in Keys /\ todo[i].from = Nil
                                  /\ Table[todo[i].key] = Nil
                                  /\ \A j \in 1..n : Moved(j) /\ todo[j].key = todo[i].key => j = i
  BY <1>2 DEF MovingInv, n
<1>8. \A i \in 1..n : i > moving => todo[i].key \in Keys BY <1>2 DEF MovingInv, n
<1>9. 1 \in 1..n BY <1>3
<1>10. \A k \in Keys : Table'[k] = IF Moved(1) /\ todo[1].key = k THEN todo[1].val ELSE Table[k]
  <2>1. Table \in [Keys -> Values] BY <1>2, TableTyped
  <2> QED BY <2>1, <1>7, <1>9
<1>11. MovingInv'
  <2>1. ASSUME NEW i \in 1..n - 1, Moved(i)'
        PROVE  /\ todo'[i].key \in Keys /\ todo'[i].from = Nil
               /\ Table'[todo'[i].key] = Nil
               /\ \A j \in 1..n - 1 : Moved(j)' /\ todo'[j].key = todo'[i].key => j = i
    <3>1. Moved(i + 1) /\ todo'[i] = todo[i + 1] /\ i + 1 \in 1..n BY <2>1, <1>3, <1>6
    <3>2. /\ todo[i + 1].key \in Keys /\ todo[i + 1].from = Nil /\ Table[todo[i + 1].key] = Nil
          /\ \A j \in 1..n : Moved(j) /\ todo[j].key = todo[i + 1].key => j = i + 1
      BY <3>1, <1>7
    <3>3. ~(Moved(1) /\ todo[1].key = todo[i + 1].key)
      <4>1. 1 # i + 1 BY <2>1, <1>3
      <4> QED BY <4>1, <3>2, <1>9
    <3>4. Table'[todo[i + 1].key] = Nil BY <3>2, <3>3, <1>10
    <3>5. ASSUME NEW j \in 1..n - 1, Moved(j)', todo'[j].key = todo'[i].key PROVE j = i
      <4>1. Moved(j + 1) /\ todo'[j] = todo[j + 1] /\ j + 1 \in 1..n BY <3>5, <1>3, <1>6
      <4>2. j + 1 = i + 1 BY <3>1, <3>2, <3>5, <4>1
      <4> QED BY <4>2, <1>3
    <3> QED BY <3>1, <3>2, <3>4, <3>5
  <2>2. ASSUME NEW i \in 1..n - 1, i > moving' PROVE todo'[i].key \in Keys
    <3>1. i + 1 > moving /\ i + 1 \in 1..n /\ todo'[i] = todo[i + 1] BY <2>2, <1>3, <1>5
    <3> QED BY <3>1, <1>8
  <2>3. Len(todo') = n - 1 BY <1>3
  <2> QED BY <2>1, <2>2, <2>3, <1>1 DEF MovingInv
<1>12. Current' = Current
  <2>0. MovedWell /\ MovedWell' BY <1>2, <1>11 DEF MovingInv, MovedWell
  <2>1. CurrentRight /\ CurrentRight' BY <2>0, CurrentIs, CurrentIsNext
  <2>2. ASSUME NEW k \in Keys PROVE Current'[k] = Current[k]
    <3>1. CASE \E i \in 1..n - 1 : Moved(i)' /\ todo'[i].key = k
      <4>1. PICK i \in 1..n - 1 : Moved(i)' /\ todo'[i].key = k BY <3>1
      <4>2. Current'[k] = todo'[i].val BY <2>1, <4>1, <1>3 DEF CurrentRight
      <4>3. Moved(i + 1) /\ i + 1 \in 1..n /\ todo'[i] = todo[i + 1] BY <4>1, <1>3, <1>6
      <4>4. Current[todo[i + 1].key] = todo[i + 1].val BY <2>1, <4>3 DEF CurrentRight, n
      <4> QED BY <4>1, <4>2, <4>3, <4>4
    <3>2. CASE ~ \E i \in 1..n - 1 : Moved(i)' /\ todo'[i].key = k
      <4>1. Current'[k] = Table'[k] BY <2>1, <3>2, <1>1, <1>3 DEF CurrentRight
      <4>2. CASE Moved(1) /\ todo[1].key = k
        <5>1. Current[k] = todo[1].val BY <2>1, <4>2, <1>9 DEF CurrentRight, n
        <5> QED BY <4>1, <4>2, <5>1, <1>10
      <4>3. CASE ~(Moved(1) /\ todo[1].key = k)
        <5>1. ASSUME NEW i \in 1..n, Moved(i), todo[i].key = k PROVE FALSE
          <6>1. i # 1 BY <4>3, <5>1
          <6>2. i \in 2..n BY <6>1, <1>3
          <6>3. i - 1 \in 1..n - 1 /\ todo'[i - 1] = todo[i] /\ (i - 1) + 1 = i BY <6>2, <1>3, <1>4
          <6>4. Moved(i - 1)' BY <6>3, <5>1, <1>6
          <6> QED BY <6>3, <6>4, <5>1, <3>2
        <5>2. Current[k] = Table[k] BY <2>1, <5>1 DEF CurrentRight, n
        <5> QED BY <4>1, <4>3, <5>2, <1>10
      <4> QED BY <4>2, <4>3
    <3> QED BY <3>1, <3>2
  <2>3. Current = [k \in Keys |-> Current[k]] BY CurrentFunction DEF IsFunction
  <2>4. Current' = [k \in Keys |-> Current'[k]] BY <1>1, CurrentFunctionNext DEF IsFunction
  <2> QED BY <2>2, <2>3, <2>4
<1>13. CallInv'
  <2>1. ASSUME NEW i \in 1..n - 1, NEW j \in 1..n - 1, moving' < i, i < j
        PROVE  todo'[i].key # todo'[j].key /\ todo'[i].key # todo'[j].from
    <3>1. /\ i + 1 \in 1..n /\ j + 1 \in 1..n /\ todo'[i] = todo[i + 1] /\ todo'[j] = todo[j + 1]
          /\ moving < i + 1 /\ i + 1 < j + 1
      BY <2>1, <1>3, <1>5
    <3> QED BY <3>1, <1>2 DEF CallInv, n
  <2>2. Len(todo') = n - 1 BY <1>3
  <2> QED BY <2>1, <2>2 DEF CallInv
<1>14. Promise'
  <2>1. ASSUME NEW k \in Keys, Pending(k)' = {} PROVE content'[k] = Current'[k]
    <3>1. ASSUME NEW i \in Pending(k) PROVE FALSE
      <4>1. i \in 1..n /\ i > moving /\ todo[i].key = k BY DEF Pending, n
      <4>2. i \in 2..n BY <4>1, <1>3, <1>5
      <4>3. i - 1 \in 1..n - 1 /\ todo'[i - 1] = todo[i] BY <4>2, <1>4
      <4>5. i - 1 > moving' BY <4>1, <4>2, <1>3, <1>5
      <4>4. i - 1 \in Pending(k)' BY <4>1, <4>3, <4>5, <1>3 DEF Pending
      <4> QED BY <4>4, <2>1
    <3>2. content[k] = Current[k] BY <3>1, <1>2 DEF Promise
    <3> QED BY <3>2, <1>12
  <2>2. ASSUME NEW k \in Keys, NEW i \in Pending(k)'
        PROVE  content'[k] = IF todo'[i].from = Nil THEN todo'[i].val ELSE Current'[todo'[i].from]
    <3>1. i \in 1..n - 1 /\ i > moving' /\ todo'[i].key = k BY <2>2, <1>3 DEF Pending
    <3>2. i + 1 \in 1..n /\ todo'[i] = todo[i + 1] /\ i + 1 > moving BY <3>1, <1>3, <1>5
    <3>3. i + 1 \in Pending(k) BY <3>1, <3>2 DEF Pending, n
    <3>4. content[k] = IF todo[i + 1].from = Nil THEN todo[i + 1].val ELSE Current[todo[i + 1].from]
      BY <3>3, <1>2 DEF Promise
    <3> QED BY <3>2, <3>4, <1>12
  <2> QED BY <2>1, <2>2, <1>1 DEF Promise
<1> QED BY <1>11, <1>13, <1>14

\* The next assignment of the call is made.
LEMMA CallGoesOn ==
  ASSUME IInv, use' = use, content' = content, todo # <<>>, todo' = Tail(todo), moving = 0,
         moving' = 0, PartsOK', TableInv', NEW v,
         v = IF todo[1].from = Nil THEN todo[1].val ELSE Table[todo[1].from],
         Table' = [Table EXCEPT ![todo[1].key] = v]
  PROVE  MovingInv' /\ CallInv' /\ Promise'
<1> DEFINE n == Len(todo)
<1>1. Keys' = Keys BY DEF Keys, Indices
<1>2. /\ PartsOK /\ CallsOK /\ TableInv /\ MovingInv /\ CallInv /\ Promise
      /\ todo \in Seq(Assignment)
  BY DEF IInv, TypeOK, CallsOK
<1>3. /\ n \in Nat \ {0} /\ Len(todo') = n - 1 /\ n - 1 \in Nat
      /\ \A i \in 1..n - 1 : i + 1 \in 1..n /\ todo'[i] = todo[i + 1]
  BY <1>2, TailOf
<1>4. \A i \in 2..n : i - 1 \in 1..n - 1 /\ todo'[i - 1] = todo[i]
  <2>1. \A i \in 2..n : i - 1 \in 1..n - 1 /\ (i - 1) + 1 = i BY <1>3
  <2> QED BY <2>1, <1>3
<1> HIDE DEF n
<1>5. \A k \in Keys : Current[k] = Table[k] BY <1>2, NothingMoving
<1>6. \A i : ~Moved(i)' BY DEF Moved
<1>7. \A k \in Keys : Current'[k] = Table'[k]
  <2>1. \A k : Back(k)' = {} BY <1>6 DEF Back
  <2> QED BY <2>1, <1>1 DEF Current
<1>8. \A i \in 1..n : todo[i].key \in Keys
  <2>1. \A i \in 1..n : i > moving BY <1>3
  <2> QED BY <2>1, <1>2 DEF MovingInv, n
<1>9. 1 \in 1..n BY <1>3
<1>10. \A k \in Keys : Table'[k] = IF todo[1].key = k THEN v ELSE Table[k]
  <2>1. Table \in [Keys -> Values] BY <1>2, TableTyped
  <2> QED BY <2>1, <1>8, <1>9
<1>11. MovingInv'
  <2>1. \A i \in 1..n - 1 : todo'[i].key \in Keys BY <1>3, <1>8
  <2>2. Len(todo') = n - 1 BY <1>3
  <2> QED BY <2>1, <2>2, <1>1, <1>6 DEF MovingInv
<1>12. \A i, j \in 1..n : i < j => todo[i].key # todo[j].key /\ todo[i].key # todo[j].from
  <2>1. \A i \in 1..n : moving < i BY <1>3
  <2> QED BY <2>1, <1>2 DEF CallInv, n
<1>13. CallInv'
  <2>1. ASSUME NEW i \in 1..n - 1, NEW j \in 1..n - 1, i < j
        PROVE  todo'[i].key # todo'[j].key /\ todo'[i].key # todo'[j].from
    <3>1. /\ i + 1 \in 1..n /\ j + 1 \in 1..n /\ todo'[i] = todo[i + 1] /\ todo'[j] = todo[j + 1]
          /\ i + 1 < j + 1
      BY <2>1, <1>3
    <3> QED BY <3>1, <1>12
  <2>2. Len(todo') = n - 1 BY <1>3
  <2> QED BY <2>1, <2>2 DEF CallInv
<1>14. Promise'
  <2>1. ASSUME NEW k \in Keys, Pending(k)' = {} PROVE content'[k] = Current'[k]
    <3>1. ASSUME NEW i \in 2..n, todo[i].key = k PROVE FALSE
      <4>1. i - 1 \in 1..n - 1 /\ todo'[i - 1] = todo[i] BY <3>1, <1>4
      <4>3. i - 1 > moving' BY <3>1, <1>3
      <4>2. i - 1 \in Pending(k)' BY <3>1, <4>1, <4>3, <1>3 DEF Pending
      <4> QED BY <4>2, <2>1
    <3>2. CASE todo[1].key = k
      <4>1. 1 \in Pending(k) BY <3>2, <1>9 DEF Pending, n
      <4>2. content[k] = IF todo[1].from = Nil THEN todo[1].val ELSE Current[todo[1].from]
        BY <4>1, <1>2 DEF Promise
      <4>3. todo[1].from # Nil => todo[1].from \in Keys
        <5>1. todo[1] \in Assignment BY <1>2, <1>9 DEF n
        <5> QED BY <5>1 DEF Assignment
      <4>4. content[k] = v BY <4>2, <4>3, <1>5
      <4> QED BY <3>2, <4>4, <1>7, <1>10
    <3>3. CASE todo[1].key # k
      <4>1. ASSUME NEW i \in Pending(k) PROVE FALSE
        <5>1. i \in 1..n /\ todo[i].key = k BY DEF Pending, n
        <5>2. i \in 2..n BY <5>1, <3>3, <1>3
        <5> QED BY <5>1, <5>2, <3>1
      <4>2. content[k] = Current[k] BY <4>1, <1>2 DEF Promise
      <4> QED BY <3>3, <4>2, <1>5, <1>7, <1>10
    <3> QED BY <3>2, <3>3
  <2>2. ASSUME NEW k \in Keys, NEW i \in Pending(k)'
        PROVE  content'[k] = IF todo'[i].from = Nil THEN todo'[i].val ELSE Current'[todo'[i].from]
    <3>1. i \in 1..n - 1 /\ todo'[i].key = k BY <2>2, <1>3 DEF Pending
    <3>2. i + 1 \in 1..n /\ todo'[i] = todo[i + 1] /\ 1 < i + 1 BY <3>1, <1>3
    <3>3. i + 1 \in Pending(k) BY <3>1, <3>2 DEF Pending, n
    <3>4. content[k] = IF todo[i + 1].from = Nil THEN todo[i + 1].val ELSE Current[todo[i + 1].from]
      BY <3>3, <1>2 DEF Promise
    <3>5. todo[i + 1].from # Nil => todo[i + 1].from \in Keys
      <4>1. todo[i + 1] \in Assignment BY <1>2, <3>2 DEF n
      <4> QED BY <4>1 DEF Assignment
    <3>6. todo[1].key # todo[i + 1].from BY <3>2, <1>9, <1>12
    <3>7. todo[i + 1].from # Nil => Current'[todo[i + 1].from] = Current[todo[i + 1].from]
      BY <3>5, <3>6, <1>5, <1>7, <1>10
    <3> QED BY <3>2, <3>4, <3>7
  <2> QED BY <2>1, <2>2, <1>1 DEF Promise
<1> QED BY <1>11, <1>13, <1>14

LEMMA StepKeeps ==
  ASSUME IInv, Step
  PROVE  IInv'
<1>1. /\ PartsOK /\ CallsOK /\ TableInv /\ MovingInv /\ use' = use /\ content' = content
      /\ todo # <<>> /\ todo' = Tail(todo) /\ todo \in Seq(Assignment) /\ moving \in 0..Len(todo)
      /\ moving' = IF moving > 0 THEN moving - 1 ELSE 0
      /\ rehashing' = IF moving > 0 THEN rehashing ELSE "no"
  BY DEF IInv, TypeOK, CallsOK, Step
<1>2. /\ Len(todo) \in Nat \ {0} /\ Head(todo) = todo[1] /\ todo[1] \in Assignment
      /\ Tail(todo) \in Seq(Assignment) /\ Len(Tail(todo)) = Len(todo) - 1
  BY <1>1, TailOf
<1>3. moving \in Nat BY <1>1, <1>2
<1>4. CASE moving > 0
  <2>1. Moved(1) <=> todo[1].val # Nil BY <1>3, <1>4 DEF Moved
  <2>2. moving' = moving - 1 BY <1>1, <1>4
  <2>3. ASSUME PutsNothing, UNCHANGED <<parts, walk>>
        PROVE  PartsOK' /\ TableInv' /\ MovingInv' /\ CallInv' /\ Promise'
    <3>1. UNCHANGED parts /\ todo[1].val = Nil BY <1>2, <2>3 DEF PutsNothing
    <3>2. PartsOK' /\ TableInv' /\ Table' = Table BY <1>1, <3>1, PartsStayTable
    <3>3. Table' = IF Moved(1) THEN [Table EXCEPT ![todo[1].key] = todo[1].val] ELSE Table
      BY <2>1, <3>1, <3>2
    <3> QED BY <1>1, <1>4, <2>2, <3>2, <3>3, PutBack
  <2>4. ASSUME ~PutsNothing, Assign(Head(todo).key, Value(Head(todo)))
        PROVE  PartsOK' /\ TableInv' /\ MovingInv' /\ CallInv' /\ Promise'
    <3>1. todo[1].val # Nil BY <1>2, <1>4, <2>4 DEF PutsNothing
    <3>2. 1 \in 1..Len(todo) BY <1>2
    <3>3. todo[1].key \in Keys /\ todo[1].from = Nil BY <1>1, <2>1, <3>1, <3>2 DEF MovingInv
    <3>4. PICK k \in Keys : k = todo[1].key BY <3>3
    <3>5. PICK v : v = todo[1].val OBVIOUS
    <3>6. v \in Values BY <1>2, <3>5 DEF Assignment
    <3>7. Assign(k, v) BY <1>2, <2>4, <3>3, <3>4, <3>5 DEF Value
    <3>8. PartsOK' /\ TableInv' /\ Table' = [Table EXCEPT ![k] = v]
      BY <1>1, <3>6, <3>7, AssignTable
    <3>9. Table' = IF Moved(1) THEN [Table EXCEPT ![todo[1].key] = todo[1].val] ELSE Table
      BY <2>1, <3>1, <3>4, <3>5, <3>8
    <3> QED BY <1>1, <1>4, <2>2, <3>8, <3>9, PutBack
  <2>5. PartsOK' /\ TableInv' /\ MovingInv' /\ CallInv' /\ Promise'
    BY <2>3, <2>4 DEF Step
  <2>6. CASE TRUE
    <3>1. Keys' = Keys /\ Values' = Values /\ Assignment' = Assignment
      BY <1>1 DEF Keys, Values, Assignment, Indices
    <3>2. moving' \in 0..Len(todo') BY <1>1, <1>2, <1>3, <1>4
    <3>3. CallsOK' BY <1>1, <1>2, <1>4, <3>1, <3>2 DEF CallsOK
    <3> QED BY <2>5, <3>3 DEF IInv, TypeOK
  <2> QED BY <2>6
<1>5. CASE moving = 0
  <2>1. ~PutsNothing /\ Assign(Head(todo).key, Value(Head(todo)))
    BY <1>5 DEF Step, PutsNothing
  <2>2. 1 \in 1..Len(todo) /\ 1 > moving BY <1>2, <1>5
  <2>3. PICK k \in Keys : k = todo[1].key BY <1>1, <2>2 DEF MovingInv
  <2>4. PICK v : v = Value(todo[1]) OBVIOUS
  <2>5. v \in Values /\ v = IF todo[1].from = Nil THEN todo[1].val ELSE Table[todo[1].from]
    <3>1. Value(todo[1]) \in Values /\ (todo[1].from # Nil => Value(todo[1]) = Table[todo[1].from])
      BY <1>1, <1>2, ValueTyped
    <3> QED BY <2>4, <3>1 DEF Value
  <2>6. Assign(k, v) BY <1>2, <2>1, <2>3, <2>4
  <2>7. PartsOK' /\ TableInv' /\ Table' = [Table EXCEPT ![todo[1].key] = v]
    BY <1>1, <2>3, <2>5, <2>6, AssignTable
  <2>8. moving' = 0 BY <1>1, <1>5
  <2>9. MovingInv' /\ CallInv' /\ Promise' BY <1>1, <1>5, <2>5, <2>7, <2>8, CallGoesOn
  <2>10. Keys' = Keys /\ Values' = Values /\ Assignment' = Assignment
    BY <1>1 DEF Keys, Values, Assignment, Indices
  <2>11. CallsOK' BY <1>1, <1>2, <1>5, <2>8, <2>10 DEF CallsOK
  <2> QED BY <2>7, <2>9, <2>11 DEF IInv, TypeOK
<1> QED BY <1>3, <1>4, <1>5

-----------------------------------------------------------------------------
(* New sizes.                                                              *)
LEMMA VectorTyped ==
  ASSUME NEW n, n = 0 \/ \E z \in Sizes : z >= n
  PROVE  VectorFor(n) \in Nat
<1>1. CASE n = 0 BY <1>1 DEF VectorFor
<1>2. CASE n # 0
  <2>1. PICK S : S = {z \in Sizes : z >= n} OBVIOUS
  <2>0. Sizes \subseteq 1..MAXASIZE /\ 1..MAXASIZE \subseteq Nat BY LuaTableAssumption
  <2>2. S # {} /\ S \in SUBSET Nat BY <1>2, <2>0, <2>1
  <2>3. Least(S) \in Nat BY <2>2, LeastIs
  <2> QED BY <1>2, <2>1, <2>3 DEF VectorFor
<1> QED BY <1>1, <1>2

\* All that had a value is in the new array or has been taken out, once.
LEMMA ResizeKeeps ==
  ASSUME PartsOK, TableInv, use' = use, NEW nasize \in Nat, NEW nhsize,
         NEW calling \in Seq(Assignment), resize(nasize, nhsize, calling)
  PROVE  /\ PartsOK' /\ TableInv' /\ Taken(nasize) \in Seq(Assignment)
         /\ MovedWell' /\ CurrentStays
<1> DEFINE slice == IF nasize < Len(array) THEN Len(array) - nasize ELSE 0
           N == sizenode
<1>1. TableWell BY TableInvIsWell
<1>2. PICK len \in Nat : len = Len(array) BY DEF PartsOK
<1>3. N \in Nat /\ Nodes = 0..N - 1 /\ array \in [1..len -> Values] BY <1>2 DEF PartsOK, Nodes
<1>4. slice \in Nat /\ (slice # 0 => nasize + slice = len) /\ (slice = 0 => nasize >= len)
  BY <1>2
<1>5. PICK T : T = Taken(nasize) OBVIOUS
<1>6. /\ \A i \in 1..slice + N : i <= slice =>
           T[i] = [key |-> nasize + i, from |-> Nil, val |-> array[nasize + i]]
      /\ \A i \in 1..slice + N : i > slice =>
           T[i] = [key |-> node[N - (i - slice)].key, from |-> Nil, val |-> node[N - (i - slice)].val]
      /\ T = [i \in 1..slice + N |-> T[i]]
  BY <1>4, <1>5, <1>3 DEF Taken
<1>7. Len(T) = slice + N /\ slice + N \in Nat
  BY <1>3, <1>4, <1>6
<1> HIDE DEF slice, N
<1>8. \A i \in 1..slice + N : i <= slice => nasize + i \in 1..len /\ nasize + i > nasize
  BY <1>2, <1>4
<1>9. \A i \in 1..slice + N : i > slice => N - (i - slice) \in Nodes
  BY <1>2, <1>3, <1>4
<1>10. Keys' = Keys /\ Values' = Values /\ Indices' = Indices /\ use'.objects = use.objects
  BY DEF Keys, Values, Indices
<1>11. node \in [Nodes -> Entry(Keys, Values, Nodes)] BY <1>1 DEF TableWell, Well
<1>12. T \in Seq(Assignment)
  <2>1. ASSUME NEW i \in 1..slice + N PROVE T[i] \in Assignment
    <3>1. CASE i <= slice
      <4>1. T[i] = [key |-> nasize + i, from |-> Nil, val |-> array[nasize + i]] BY <3>1, <1>6
      <4>2. nasize + i \in Nat /\ array[nasize + i] \in Values BY <3>1, <1>3, <1>8
      <4> QED BY <4>1, <4>2 DEF Assignment
    <3>2. CASE i > slice
      <4>1. PICK p \in Nodes : p = N - (i - slice) BY <3>2, <1>9
      <4>2. T[i] = [key |-> node[p].key, from |-> Nil, val |-> node[p].val] BY <3>2, <4>1, <1>6
      <4>3. node[p].key \in Keys \cup {Nil} /\ node[p].val \in Values BY <1>11 DEF Entry
      <4> QED BY <4>2, <4>3 DEF Assignment
    <3> QED BY <3>1, <3>2, <1>4
  <2> QED BY <2>1, <1>6, <1>7
<1>13. /\ todo' = T \o calling /\ moving' = slice + N
       /\ array' = [i \in 1..nasize |-> IF i \in 1..len THEN array[i] ELSE Nil]
       /\ sizenode' = VectorFor(nhsize) /\ lastfree' = VectorFor(nhsize) /\ VectorFor(nhsize) \in Nat
       /\ node' = [p \in 0..VectorFor(nhsize) - 1 |-> Unused]
  BY <1>2, <1>5, <1>7, VectorTyped DEF resize, InArray
<1>14. Nodes' = 0..VectorFor(nhsize) - 1 BY <1>13 DEF Nodes
<1>15. Len(array') = nasize /\ array' \in Seq(Values)
  <2>1. \A i \in 1..nasize : array'[i] \in Values BY <1>3, <1>13 DEF Values
  <2> QED BY <2>1, <1>13
<1>16. PartsOK'
  <2>1. Unused \in [key : Keys \cup {Nil}, dead : BOOLEAN, val : Values, next : Nodes' \cup {Null}]
    BY DEF Unused, Values
  <2>2. node' \in [Nodes' -> NodeType'] BY <2>1, <1>10, <1>13, <1>14 DEF NodeType
  <2>3. use' \in Uses BY DEF PartsOK
  <2> QED BY <2>2, <2>3, <1>10, <1>13, <1>15 DEF PartsOK
<1>17. ArrayWell'
  <2>1. ASSUME NEW i \in 1..nasize, array'[i] # Nil PROVE i \in Indices
    <3>1. i \in 1..len /\ array[i] # Nil BY <2>1, <1>13
    <3> QED BY <3>1, <1>1, <1>2 DEF TableWell, ArrayWell
  <2> QED BY <2>1, <1>10, <1>15 DEF ArrayWell
<1>18. \A p \in Nodes' : node'[p] = Unused BY <1>13, <1>14
<1>19. TableInv'
  <2>1. \A p \in Nodes' : node'[p].key = Nil /\ node'[p].next = Null /\ ~node'[p].dead
    BY <1>18 DEF Unused
  <2>2. NodesWell' BY <1>18, <2>1 DEF NodesWell
  <2>3. LinkedOnce' BY <2>1 DEF LinkedOnce
  <2>4. KeysFound' BY <2>1 DEF KeysFound
  <2>5. KeysOnce' BY <2>1 DEF KeysOnce
  <2>6. CollidingAtHome' BY <2>1 DEF CollidingAtHome
  <2> QED BY <1>17, <2>2, <2>3, <2>4, <2>5, <2>6 DEF TableInv
<1>20. \A k \in Keys : Table'[k] = IF k \in 1..nasize /\ k \in 1..len THEN array[k] ELSE Nil
  <2>1. Finds' BY <1>16, <1>19, LookupNext
  <2>2. ASSUME NEW k \in Keys
        PROVE Table'[k] = IF k \in 1..nasize /\ k \in 1..len THEN array[k] ELSE Nil
    <3>1. Table'[k] = Get(k)' BY <2>1, <1>10 DEF Finds, Table
    <3>2. Slots(Nodes', node', k) = {}
      <4>1. k # Nil BY UseTyped
      <4> QED BY <4>1, <1>18 DEF Slots, Unused
    <3>3. Val(Nodes', node', k) = Nil BY <3>2 DEF Val
    <3>4. InArray(k)' <=> k \in 1..nasize BY <1>15 DEF InArray
    <3>5. Table'[k] = IF k \in 1..nasize THEN array'[k] ELSE Nil BY <3>1, <3>3, <3>4 DEF Get
    <3> QED BY <3>5, <1>13
  <2> QED BY <2>2
<1>21. \A k \in Keys : Table[k] = IF k \in 1..len THEN array[k] ELSE Val(Nodes, node, k)
  BY <1>2, Lookup DEF Finds, Get, Table, InArray
<1>22. /\ \A i \in 1..slice + N : i \in 1..Len(todo') /\ todo'[i] = T[i]
       /\ \A i \in 1..Len(todo') : Moved(i)' <=> i \in 1..slice + N /\ T[i].val # Nil
  <2>1. Len(todo') = Len(T) + Len(calling) /\ Len(calling) \in Nat BY <1>12, <1>13
  <2>2. \A i \in 1..slice + N : i \in 1..Len(todo') /\ todo'[i] = T[i]
    BY <2>1, <1>7, <1>12, <1>13
  <2>3. \A i \in 1..Len(todo') : Moved(i)' <=> i \in 1..slice + N /\ T[i].val # Nil
    BY <2>2, <1>13 DEF Moved
  <2> QED BY <2>2, <2>3
\* An element of the slice and an element of a node, from their places.
<1>23. ASSUME NEW i \in 1..slice + N, i <= slice, T[i].val # Nil
       PROVE  /\ T[i].key = nasize + i /\ T[i].key \in 1..len /\ T[i].key \notin 1..nasize
              /\ T[i].key \in Keys /\ T[i].val = array[T[i].key] /\ T[i].from = Nil
  <2>1. T[i] = [key |-> nasize + i, from |-> Nil, val |-> array[nasize + i]] BY <1>6, <1>23
  <2>2. nasize + i \in 1..len /\ nasize + i \notin 1..nasize BY <1>8, <1>23
  <2>3. nasize + i \in Indices BY <2>1, <2>2, <1>1, <1>2, <1>23 DEF TableWell, ArrayWell
  <2> QED BY <2>1, <2>2, <2>3 DEF Keys
<1>24. ASSUME NEW i \in 1..slice + N, i > slice, T[i].val # Nil
       PROVE  \E p \in Nodes : /\ p = N - (i - slice) /\ T[i].key = node[p].key
                               /\ T[i].val = node[p].val /\ T[i].from = Nil
                               /\ node[p].key \in Keys /\ node[p].key \notin 1..len
                               /\ Slots(Nodes, node, node[p].key) = {p}
  <2>1. PICK p \in Nodes : p = N - (i - slice) BY <1>9, <1>24
  <2>2. T[i] = [key |-> node[p].key, from |-> Nil, val |-> node[p].val] BY <2>1, <1>6, <1>24
  <2>3. node[p].key # Nil /\ ~node[p].dead
    BY <2>2, <1>1, <1>24 DEF TableWell, Well, WellNodes, Unused
  <2>4. node[p].key \in Keys BY <2>3, <1>11 DEF Entry
  <2>5. node[p].key \notin 1..len BY <2>3, <1>1, <1>2 DEF TableWell, Well, OnceKeys, Arr
  <2>6. p \in Slots(Nodes, node, node[p].key) BY <2>3 DEF Slots
  <2>7. Slots(Nodes, node, node[p].key) = {p}
    BY <2>3, <2>6, <1>1, SlotsOnce DEF TableWell, Well
  <2> QED BY <2>1, <2>2, <2>4, <2>5, <2>7
<1>25. MovedWell'
  <2>1. ASSUME NEW i \in 1..slice + N, T[i].val # Nil
        PROVE  /\ T[i].key \in Keys /\ T[i].from = Nil /\ Table'[T[i].key] = Nil
    <3>1. CASE i <= slice BY <2>1, <3>1, <1>20, <1>23
    <3>2. CASE i > slice
      <4>1. PICK p \in Nodes : /\ T[i].key = node[p].key /\ T[i].from = Nil
                               /\ node[p].key \in Keys /\ node[p].key \notin 1..len
        BY <2>1, <3>2, <1>24
      <4> QED BY <4>1, <1>20
    <3> QED BY <3>1, <3>2, <1>4
  <2>2. ASSUME NEW i \in 1..slice + N, T[i].val # Nil, NEW j \in 1..slice + N, T[j].val # Nil,
               T[i].key = T[j].key
        PROVE  i = j
    <3>1. CASE i <= slice /\ j <= slice
      <4>1. nasize + i = nasize + j BY <2>2, <3>1, <1>23
      <4> QED BY <4>1
    <3>2. CASE i <= slice /\ j > slice
      <4>1. T[i].key \in 1..len BY <2>2, <3>2, <1>23
      <4>2. T[j].key \notin 1..len BY <2>2, <3>2, <1>24
      <4> QED BY <2>2, <4>1, <4>2
    <3>3. CASE i > slice /\ j <= slice
      <4>1. T[j].key \in 1..len BY <2>2, <3>3, <1>23
      <4>2. T[i].key \notin 1..len BY <2>2, <3>3, <1>24
      <4> QED BY <2>2, <4>1, <4>2
    <3>4. CASE i > slice /\ j > slice
      <4>1. PICK p \in Nodes : p = N - (i - slice) /\ T[i].key = node[p].key
                               /\ Slots(Nodes, node, node[p].key) = {p}
        BY <2>2, <3>4, <1>24
      <4>2. PICK q \in Nodes : q = N - (j - slice) /\ T[j].key = node[q].key
                               /\ Slots(Nodes, node, node[q].key) = {q}
        BY <2>2, <3>4, <1>24
      <4>3. p = q BY <2>2, <4>1, <4>2
      <4>4. N - (i - slice) = N - (j - slice) BY <4>1, <4>2, <4>3
      <4> QED BY <4>4, <1>3, <1>4
    <3> QED BY <3>1, <3>2, <3>3, <3>4, <1>4
  <2> QED BY <2>1, <2>2, <1>10, <1>22 DEF MovedWell
<1>26. CurrentStays
  <2>1. CurrentRight' BY <1>25, CurrentIsNext
  <2>2. ASSUME NEW k \in Keys PROVE Current'[k] = Table[k]
    <3>1. CASE \E i \in 1..slice + N : T[i].val # Nil /\ T[i].key = k
      <4>1. PICK i \in 1..slice + N : T[i].val # Nil /\ T[i].key = k BY <3>1
      <4>2. i \in 1..Len(todo') /\ todo'[i] = T[i] /\ Moved(i)' BY <4>1, <1>22
      <4>3. Current'[todo'[i].key] = todo'[i].val BY <2>1, <4>2 DEF CurrentRight
      <4>4. Current'[k] = T[i].val BY <4>1, <4>2, <4>3
      <4>5. CASE i <= slice BY <4>1, <4>4, <4>5, <1>21, <1>23
      <4>6. CASE i > slice
        <5>1. PICK p \in Nodes : /\ T[i].key = node[p].key /\ T[i].val = node[p].val
                                 /\ node[p].key \notin 1..len /\ Slots(Nodes, node, node[p].key) = {p}
          BY <4>1, <4>6, <1>24
        <5>2. Val(Nodes, node, k) = node[p].val BY <4>1, <5>1, ValIs
        <5> QED BY <4>1, <4>4, <5>1, <5>2, <1>21
      <4> QED BY <4>5, <4>6, <1>4
    <3>2. CASE ~ \E i \in 1..slice + N : T[i].val # Nil /\ T[i].key = k
      <4>1. \A i \in 1..Len(todo') : Moved(i)' => todo'[i].key # k BY <3>2, <1>22
      <4>2. Current'[k] = Table'[k] BY <2>1, <4>1, <1>10 DEF CurrentRight
      <4>3. CASE k \in 1..len /\ k \in 1..nasize BY <4>2, <4>3, <1>20, <1>21
      <4>4. CASE k \in 1..len /\ k \notin 1..nasize
        <5>1. slice # 0 /\ nasize + slice = len BY <4>4, <1>2, <1>4
        <5>2. PICK i \in 1..slice : k = nasize + i
          <6>1. k - nasize \in 1..slice /\ k = nasize + (k - nasize) BY <4>4, <5>1, <1>2, <1>4
          <6> QED BY <6>1
        <5>3. i \in 1..slice + N /\ i <= slice BY <5>2, <1>3, <1>4
        <5>4. T[i] = [key |-> k, from |-> Nil, val |-> array[k]] BY <5>2, <5>3, <1>6
        <5>5. array[k] = Nil BY <3>2, <5>3, <5>4
        <5> QED BY <4>2, <4>4, <5>5, <1>20, <1>21
      <4>5. CASE k \notin 1..len
        <5>1. Current'[k] = Nil BY <4>2, <4>5, <1>20
        <5>2. Table[k] = Val(Nodes, node, k) BY <4>5, <1>21
        <5>3. CASE Slots(Nodes, node, k) = {} BY <5>1, <5>2, <5>3 DEF Val
        <5>4. CASE \E p : p \in Slots(Nodes, node, k)
          <6>1. PICK p : p \in Slots(Nodes, node, k) BY <5>4
          <6>2. k # Nil BY UseTyped
          <6>3. Slots(Nodes, node, k) = {p}
            BY <6>1, <6>2, <1>1, SlotsOnce DEF TableWell, Well
          <6>4. p \in Nodes /\ node[p].key = k BY <6>1 DEF Slots
          <6>5. PICK i \in 1..slice + N : i > slice /\ N - (i - slice) = p
            <7>1. slice + N - p \in 1..slice + N /\ slice + N - p > slice
                  /\ N - ((slice + N - p) - slice) = p
              BY <6>4, <1>3, <1>4
            <7> QED BY <7>1
          <6>6. T[i] = [key |-> k, from |-> Nil, val |-> node[p].val] BY <6>4, <6>5, <1>6
          <6>7. node[p].val = Nil BY <3>2, <6>6
          <6>8. Val(Nodes, node, k) = node[p].val BY <6>3, ValHere
          <6> QED BY <5>1, <5>2, <6>7, <6>8
        <5> QED BY <5>3, <5>4
      <4> QED BY <4>3, <4>4, <4>5
    <3> QED BY <3>1, <3>2
  <2> QED BY <2>2 DEF CurrentStays
<1> QED BY <1>5, <1>12, <1>16, <1>19, <1>25, <1>26

LEMMA ArraySizeTyped ==
  ASSUME NEW ints
  PROVE  ArraySize(ints) \in Nat
<1>1. PICK good : good = {s \in Sizes : Cardinality(ints \cap 1..s) > s \div 2} OBVIOUS
<1>2. MAXASIZE \in Nat /\ Sizes \subseteq 1..MAXASIZE BY LuaTableAssumption
<1>5. 1..MAXASIZE \subseteq Nat /\ \A z \in 1..MAXASIZE : z <= MAXASIZE BY <1>2
<1>3. good \in SUBSET Nat /\ \A z \in good : z <= MAXASIZE BY <1>1, <1>2, <1>5
<1>4. good # {} => Greatest(good) \in Nat BY <1>2, <1>3, GreatestIs
<1> QED BY <1>1, <1>4 DEF ArraySize

\* The assignments of the call in progress, once resize has been through.
LEMMA CallsOfTodo ==
  ASSUME IInv, moving = 0
  PROVE  CallsRight(todo, content)
<1>1. /\ PartsOK /\ CallsOK /\ TableInv /\ MovingInv /\ CallInv /\ Promise
      /\ todo \in Seq(Assignment)
  BY DEF IInv, TypeOK, CallsOK
<1>2. \A k \in Keys : Current[k] = Table[k] BY <1>1, NothingMoving
<1>3. \A i \in 1..Len(todo) : i > moving /\ moving < i /\ todo[i] \in Assignment BY <1>1
<1>4. \A i \in 1..Len(todo) : todo[i].key \in Keys /\ todo[i].from \in Keys \cup {Nil}
  BY <1>1, <1>3 DEF MovingInv, Assignment
<1>5. \A i, j \in 1..Len(todo) : i < j => todo[i].key # todo[j].key /\ todo[i].key # todo[j].from
  BY <1>1, <1>3 DEF CallInv
<1>6. ASSUME NEW k \in Keys, \A i \in 1..Len(todo) : todo[i].key # k
      PROVE  content[k] = Table[k]
  <2>1. Pending(k) = {} BY <1>6 DEF Pending
  <2> QED BY <2>1, <1>1, <1>2 DEF Promise
<1>7. ASSUME NEW k \in Keys, NEW i \in 1..Len(todo), todo[i].key = k
      PROVE  content[k] = IF todo[i].from = Nil THEN todo[i].val ELSE Table[todo[i].from]
  <2>1. i \in Pending(k) BY <1>3, <1>7 DEF Pending
  <2>2. content[k] = IF todo[i].from = Nil THEN todo[i].val ELSE Current[todo[i].from]
    BY <2>1, <1>1 DEF Promise
  <2> QED BY <2>2, <1>2, <1>4
<1> QED BY <1>4, <1>5, <1>6, <1>7 DEF CallsRight

LEMMA ResizeInv ==
  ASSUME PartsOK, TableInv, use' = use, NEW nasize \in Nat, NEW nhsize,
         NEW calling \in Seq(Assignment), resize(nasize, nhsize, calling),
         content' \in [Keys -> Values], CallsRight(calling, content')
  PROVE  IInv'
<1>1. PICK T : T = Taken(nasize) OBVIOUS
<1>2. /\ PartsOK' /\ TableInv' /\ T \in Seq(Assignment)
      /\ MovedWell' /\ CurrentStays
  BY <1>1, ResizeKeeps
<1>3. todo' = T \o calling /\ moving' = Len(T) /\ rehashing' = "yes"
  BY <1>1 DEF resize
<1>4. /\ CallInv' /\ Promise'
      /\ \A i \in 1..Len(todo') : i > moving' => todo'[i].key \in Keys
  BY <1>2, <1>3, CallsMade
<1>5. Keys' = Keys /\ Values' = Values /\ Assignment' = Assignment
  BY DEF Keys, Values, Assignment, Indices
<1>6. MovingInv' BY <1>2, <1>4, <1>5 DEF MovingInv, MovedWell
<1>7. todo' \in Seq(Assignment) /\ moving' \in 0..Len(todo') BY <1>2, <1>3
<1>8. CallsOK' BY <1>3, <1>5, <1>7 DEF CallsOK
<1> QED BY <1>2, <1>4, <1>6, <1>8 DEF IInv, TypeOK

LEMMA GrowKeeps ==
  ASSUME IInv, Grow
  PROVE  IInv'
<1>1. /\ PartsOK /\ CallsOK /\ TableInv /\ MovingInv /\ CallInv /\ Promise
      /\ use' = use /\ content' = content /\ todo \in Seq(Assignment)
      /\ content \in [Keys -> Values]
  BY DEF IInv, TypeOK, CallsOK, Grow
<1>2. CASE rehashing = "no" /\ rehash(Head(todo).key)
  <2>1. moving = 0 BY <1>1, <1>2 DEF CallsOK
  <2>2. CallsRight(todo, content') BY <1>1, <2>1, CallsOfTodo
  <2>3. PICK nasize, nhsize : resize(nasize, nhsize, todo) /\ nasize \in Nat
    BY <1>2, ArraySizeTyped DEF rehash
  <2> QED BY <1>1, <2>2, <2>3, ResizeInv
<1>3. CASE /\ rehashing = "yes" /\ rehashing' = "again"
           /\ UNCHANGED <<parts, todo, moving, walk>>
  <2>1. PartsOK' /\ TableInv' /\ Table' = Table BY <1>1, <1>3, PartsStayTable
  <2>2. Keys' = Keys /\ Values' = Values /\ Assignment' = Assignment
    BY <1>1 DEF Keys, Values, Assignment, Indices
  <2>3. CallsOK' BY <1>1, <1>3, <2>2 DEF CallsOK
  <2>4. \A i : Moved(i)' <=> Moved(i) BY <1>3 DEF Moved
  <2>5. MovingInv'
    <3>1. todo' = todo /\ moving' = moving BY <1>3
    <3> QED BY <1>1, <2>1, <2>2, <2>4, <3>1 DEF MovingInv
  <2>6. CallInv' BY <1>1, <1>3 DEF CallInv
  <2>7. Current' = Current
    <3>1. \A k : Back(k)' = Back(k) BY <1>3, <2>4 DEF Back
    <3>2. todo' = todo BY <1>3
    <3> QED BY <2>1, <2>2, <3>1, <3>2, SameCurrent
  <2>8. Promise'
    <3>1. \A k : Pending(k)' = Pending(k) BY <1>3 DEF Pending
    <3> QED BY <1>1, <1>3, <2>2, <2>7, <3>1 DEF Promise
  <2> QED BY <2>1, <2>3, <2>5, <2>6, <2>8 DEF IInv, TypeOK
<1> QED BY <1>2, <1>3 DEF Grow

-----------------------------------------------------------------------------
(* Calls of the program: what they put to do is what they amount to.       *)
LEMMA IdleState ==
  ASSUME IInv, Idle
  PROVE  /\ PartsOK /\ CallsOK /\ TableInv /\ todo = <<>> /\ moving = 0 /\ Table = content
         /\ content \in [Keys -> Values] /\ rehashing \in {"no", "yes"}
         /\ \A k \in Keys : Current[k] = Table[k]
<1>1. PartsOK /\ CallsOK /\ TableInv /\ Promise /\ todo = <<>> BY DEF IInv, TypeOK, Idle
<1>2. moving = 0 /\ content \in [Keys -> Values] /\ rehashing \in {"no", "yes"}
  BY <1>1 DEF CallsOK, Idle
<1>3. \A k \in Keys : Current[k] = Table[k] BY <1>1, <1>2, NothingMoving
<1>4. \A k \in Keys : content[k] = Table[k]
  <2>1. \A k : Pending(k) = {} BY <1>1 DEF Pending
  <2> QED BY <2>1, <1>1, <1>3 DEF Promise
<1>5. Table \in [Keys -> Values] BY <1>1, TableTyped
<1> QED BY <1>1, <1>2, <1>3, <1>4, <1>5

\* Table and content agree and nothing is to do: the invariant.
LEMMA IdleInv ==
  ASSUME PartsOK', TableInv', todo' = <<>>, moving' = 0, rehashing' \in {"no", "yes"},
         content' \in [Keys' -> Values'], Table' = content'
  PROVE  IInv'
<1>1. CallsOK' BY DEF CallsOK
<1>2. \A i : ~Moved(i)' BY DEF Moved
<1>3. MovingInv' BY DEF MovingInv
<1>4. CallInv' BY DEF CallInv
<1>5. \A k : Back(k)' = {} /\ Pending(k)' = {} BY <1>2 DEF Back, Pending
<1>6. \A k \in Keys' : Current'[k] = Table'[k] BY <1>5 DEF Current
<1>7. Promise' BY <1>5, <1>6 DEF Promise
<1> QED BY <1>1, <1>3, <1>4, <1>7 DEF IInv, TypeOK

LEMMA CallKeeps ==
  ASSUME IInv, Idle, NEW assignments \in Seq(Assignment), NEW result \in [Keys -> Values],
         Call(assignments, result), CallsRight(assignments, result)
  PROVE  IInv'
<1>1. /\ PartsOK /\ CallsOK /\ TableInv /\ todo = <<>> /\ moving = 0 /\ Table = content
      /\ rehashing \in {"no", "yes"}
      /\ \A k \in Keys : Current[k] = Table[k]
  BY IdleState
<1>2. /\ todo' = assignments /\ content' = result /\ use' = use /\ moving' = 0
      /\ rehashing' = rehashing /\ UNCHANGED parts
  BY <1>1 DEF Call
<1>3. PartsOK' /\ TableInv' /\ Table' = Table BY <1>1, <1>2, PartsStayTable
<1>4. Keys' = Keys /\ Values' = Values /\ Assignment' = Assignment
  BY <1>2 DEF Keys, Values, Assignment, Indices
<1>5. \A i : ~Moved(i)' BY <1>2 DEF Moved
<1>6. CurrentStays
  <2>1. \A k : Back(k)' = {} BY <1>5 DEF Back
  <2> QED BY <2>1, <1>3, <1>4 DEF Current, CurrentStays
<1>7. <<>> \in Seq(Assignment) /\ todo' = <<>> \o assignments /\ moving' = Len(<<>>)
  BY <1>2
<1>8. CallsRight(assignments, content') BY <1>2
<1>9. /\ CallInv' /\ Promise'
      /\ \A i \in 1..Len(todo') : i > moving' => todo'[i].key \in Keys
  BY <1>1, <1>2, <1>6, <1>7, <1>8, CallsMade
<1>10. MovingInv' BY <1>4, <1>5, <1>9 DEF MovingInv
<1>11. CallsOK' BY <1>1, <1>2, <1>4 DEF CallsOK
<1> QED BY <1>3, <1>9, <1>10, <1>11 DEF IInv, TypeOK

LEMMA ToHas == \A k, v : To(k, v).key = k /\ To(k, v).from = Nil /\ To(k, v).val = v
BY DEF To
LEMMA MoveHas == \A k, f : Move(k, f).key = k /\ Move(k, f).from = f
BY DEF Move

LEMMA SetKeeps ==
  ASSUME IInv, NEW k \in Keys, NEW v \in Values, Set(k, v)
  PROVE  IInv'
<1>1. Idle /\ Table = content /\ content \in [Keys -> Values] /\ PartsOK
  BY IdleState DEF Set, May
<1>2. PICK as : as = <<To(k, v)>> OBVIOUS
<1>3. PICK result : result = [content EXCEPT ![k] = v] OBVIOUS
<1>4. result \in [Keys -> Values] BY <1>1, <1>3
<1>5. To(k, v) \in Assignment BY DEF To, Assignment
<1>6. as \in Seq(Assignment) /\ Len(as) = 1 /\ as[1] = To(k, v) BY <1>2, <1>5
<1>7. \A i \in 1..Len(as) : as[i].key = k /\ as[i].from = Nil /\ as[i].val = v
  <2>1. \A i \in 1..Len(as) : i = 1 BY <1>6
  <2>2. as[1].key = k /\ as[1].from = Nil /\ as[1].val = v BY <1>6, ToHas
  <2> QED BY <2>1, <2>2
<1>8. \A j \in Keys : result[j] = IF j = k THEN v ELSE Table[j] BY <1>1, <1>3
<1>9. 1 \in 1..Len(as) /\ \A i, j \in 1..Len(as) : ~(i < j) BY <1>6
<1>10. CallsRight(as, result) BY <1>7, <1>8, <1>9 DEF CallsRight
<1>11. Call(as, result) BY <1>2, <1>3 DEF Set
<1> QED BY <1>1, <1>4, <1>6, <1>10, <1>11, CallKeeps

LEMMA IndexKeys ==
  ASSUME PartsOK
  PROVE  /\ Indices \subseteq Keys /\ Indices \subseteq Nat /\ Nil \notin Indices /\ Nil \notin Keys
         /\ \A i \in Indices : \A j \in 1..i : j \in Indices
BY UseTyped DEF Keys, Indices

LEMMA InsertKeeps ==
  ASSUME IInv, NEW pos \in Indices, NEW v \in use.values, tinsert(pos, v)
  PROVE  IInv'
<1>1. /\ Idle /\ Table = content /\ content \in [Keys -> Values] /\ PartsOK
  BY IdleState DEF tinsert, May
<1>2. PICK e \in Indices :
        /\ e = IF pos > luaH_getn + 1 THEN pos ELSE luaH_getn + 1
        /\ Call([i \in 1..e - pos |-> Move(e + 1 - i, e - i)] \o <<To(pos, v)>>,
                [k \in Keys |-> IF k = pos THEN v
                                ELSE IF k \in pos + 1..e THEN content[k - 1] ELSE content[k]])
  BY DEF tinsert
<1>3. /\ Indices \subseteq Keys /\ Indices \subseteq Nat /\ Nil \notin Indices /\ Nil \notin Keys
      /\ \A i \in Indices : \A j \in 1..i : j \in Indices
  BY <1>1, IndexKeys
<1>4. pos \in Nat /\ e \in Nat /\ pos <= e /\ pos >= 1
  <2>1. pos \in Nat /\ e \in Nat /\ pos >= 1 BY <1>3 DEF Indices
  <2>2. CASE pos > luaH_getn + 1 BY <2>1, <2>2, <1>2
  <2>3. CASE ~(pos > luaH_getn + 1)
    <3>1. e = luaH_getn + 1 BY <1>2, <2>3
    <3>2. ~(pos > e) BY <2>3, <3>1
    <3> QED BY <2>1, <3>2
  <2> QED BY <2>1, <2>2, <2>3
<1>5. PICK m \in Nat : m = e - pos BY <1>4
<1>6. PICK as : as = [i \in 1..m |-> Move(e + 1 - i, e - i)] \o <<To(pos, v)>> OBVIOUS
<1>7. \A i \in 1..m : /\ e + 1 - i \in Indices /\ e - i \in Indices
                      /\ e + 1 - i > pos /\ e + 1 - i <= e
  BY <1>3, <1>4, <1>5
<1>8. v \in Values /\ pos \in Keys BY <1>3 DEF Values
<1>9. Nil \in Values BY DEF Values
<1>10. \A i \in 1..m : Move(e + 1 - i, e - i) \in Assignment
  BY <1>3, <1>7, <1>9 DEF Move, Assignment
<1>11. To(pos, v) \in Assignment BY <1>8 DEF To, Assignment
<1>12. /\ as \in Seq(Assignment) /\ Len(as) = m + 1 /\ as[m + 1] = To(pos, v)
       /\ \A i \in 1..m : as[i] = Move(e + 1 - i, e - i)
  <2>1. [i \in 1..m |-> Move(e + 1 - i, e - i)] \in Seq(Assignment) BY <1>10
  <2>2. <<To(pos, v)>> \in Seq(Assignment) BY <1>11
  <2> QED BY <2>1, <2>2, <1>6
<1>13. /\ as[m + 1].key = pos /\ as[m + 1].from = Nil /\ as[m + 1].val = v
       /\ \A i \in 1..m : as[i].key = e + 1 - i /\ as[i].from = e - i
  <2>1. as[m + 1].key = pos /\ as[m + 1].from = Nil /\ as[m + 1].val = v BY <1>12, ToHas
  <2>2. ASSUME NEW i \in 1..m PROVE as[i].key = e + 1 - i /\ as[i].from = e - i
    <3>1. as[i] = Move(e + 1 - i, e - i) BY <1>12
    <3> QED BY <3>1, MoveHas
  <2> QED BY <2>1, <2>2
<1>14. PICK result : result = [k \in Keys |-> IF k = pos THEN v
                                ELSE IF k \in pos + 1..e THEN content[k - 1] ELSE content[k]]
  OBVIOUS
<1>15. result \in [Keys -> Values]
  <2>1. \A k \in pos + 1..e : k - 1 \in Keys BY <1>3, <1>4
  <2> QED BY <2>1, <1>1, <1>8, <1>14
<1>16. /\ m + 1 \in 1..Len(as) /\ Len(as) = m + 1
       /\ \A i \in 1..Len(as) : i \in 1..m \/ i = m + 1
  BY <1>12
<1>17. \A i \in 1..Len(as) : as[i].key \in Keys /\ as[i].from \in Keys \cup {Nil}
  <2>1. as[m + 1].key \in Keys /\ as[m + 1].from = Nil BY <1>8, <1>13
  <2>2. \A i \in 1..m : as[i].key \in Keys /\ as[i].from \in Keys BY <1>3, <1>7, <1>13
  <2> QED BY <2>1, <2>2, <1>16
<1>18. \A i, j \in 1..Len(as) : i < j => as[i].key # as[j].key /\ as[i].key # as[j].from
  <2>1. ASSUME NEW i \in 1..Len(as), NEW j \in 1..Len(as), i < j
        PROVE  as[i].key # as[j].key /\ as[i].key # as[j].from
    <3>1. i \in 1..m BY <2>1, <1>16
    <3>2. as[i].key = e + 1 - i /\ as[i].key \in Indices /\ as[i].key > pos BY <3>1, <1>7, <1>13
    <3>3. CASE j \in 1..m
      <4>1. as[j].key = e + 1 - j /\ as[j].from = e - j BY <3>3, <1>13
      <4> QED BY <2>1, <3>1, <3>2, <3>3, <4>1, <1>4
    <3>4. CASE j = m + 1
      <4>1. as[j].key = pos /\ as[j].from = Nil BY <3>4, <1>13
      <4>2. as[i].key # pos BY <3>2, <1>3, <1>4
      <4>3. as[i].key # Nil BY <3>2, <1>3
      <4> QED BY <4>1, <4>2, <4>3
    <3> QED BY <3>3, <3>4, <1>16
  <2> QED BY <2>1
<1>19. ASSUME NEW k \in Keys
       PROVE  /\ (\A i \in 1..Len(as) : as[i].key # k) => result[k] = Table[k]
              /\ \A i \in 1..Len(as) : as[i].key = k =>
                   result[k] = IF as[i].from = Nil THEN as[i].val ELSE Table[as[i].from]
  <2>1. ASSUME \A i \in 1..Len(as) : as[i].key # k PROVE result[k] = Table[k]
    <3>1. k # pos BY <2>1, <1>16, <1>13
    <3>2. k \notin pos + 1..e
      <4>1. ASSUME k \in pos + 1..e PROVE FALSE
        <5>1. e + 1 - k \in 1..m BY <4>1, <1>4, <1>5
        <5>2. as[e + 1 - k].key = e + 1 - (e + 1 - k) BY <5>1, <1>13
        <5>3. e + 1 - (e + 1 - k) = k BY <4>1, <1>4
        <5>4. e + 1 - k \in 1..Len(as) BY <5>1, <1>12
        <5> QED BY <2>1, <5>2, <5>3, <5>4
      <4> QED BY <4>1
    <3> QED BY <3>1, <3>2, <1>1, <1>14
  <2>2. ASSUME NEW i \in 1..Len(as), as[i].key = k
        PROVE  result[k] = IF as[i].from = Nil THEN as[i].val ELSE Table[as[i].from]
    <3>1. CASE i = m + 1 BY <2>2, <3>1, <1>13, <1>14
    <3>2. CASE i \in 1..m
      <4>1. k = e + 1 - i /\ as[i].from = e - i /\ e - i \in Indices /\ k > pos /\ k <= e
        BY <2>2, <3>2, <1>7, <1>13
      <4>2. k \in pos + 1..e /\ k # pos /\ k - 1 = e - i BY <4>1, <3>2, <1>4
      <4>3. result[k] = content[k - 1] BY <4>2, <1>14
      <4>4. as[i].from # Nil BY <4>1, <1>3
      <4> QED BY <4>1, <4>2, <4>3, <4>4, <1>1
    <3> QED BY <3>1, <3>2, <1>16
  <2> QED BY <2>1, <2>2
<1>20. CallsRight(as, result) BY <1>17, <1>18, <1>19 DEF CallsRight
<1>21. Call(as, result) BY <1>2, <1>5, <1>6, <1>14
<1> QED BY <1>1, <1>12, <1>15, <1>20, <1>21, CallKeeps

LEMMA RemoveKeeps ==
  ASSUME IInv, NEW pos \in Indices, tremove(pos)
  PROVE  IInv'
<1>1. /\ Idle /\ Table = content /\ content \in [Keys -> Values] /\ PartsOK
  BY IdleState DEF tremove, May
<1>2. PICK e \in Indices :
        /\ pos \in 1..e
        /\ Call([i \in 1..e - pos |-> Move(pos + i - 1, pos + i)] \o <<To(e, Nil)>>,
                [k \in Keys |-> IF k = e THEN Nil
                                ELSE IF k \in pos..e - 1 THEN content[k + 1] ELSE content[k]])
  BY DEF tremove
<1>3. /\ Indices \subseteq Keys /\ Indices \subseteq Nat /\ Nil \notin Indices /\ Nil \notin Keys
      /\ \A i \in Indices : \A j \in 1..i : j \in Indices
  BY <1>1, IndexKeys
<1>4. pos \in Nat /\ e \in Nat /\ pos <= e /\ pos >= 1 BY <1>2, <1>3
<1>5. PICK m \in Nat : m = e - pos BY <1>4
<1>6. PICK as : as = [i \in 1..m |-> Move(pos + i - 1, pos + i)] \o <<To(e, Nil)>> OBVIOUS
<1>7. \A i \in 1..m : /\ pos + i - 1 \in Indices /\ pos + i \in Indices
                      /\ pos + i - 1 >= pos /\ pos + i - 1 < e
  BY <1>3, <1>4, <1>5
<1>8. Nil \in Values /\ e \in Keys BY <1>3 DEF Values
<1>9. \A i \in 1..m : Move(pos + i - 1, pos + i) \in Assignment
  BY <1>3, <1>7, <1>8 DEF Move, Assignment
<1>10. To(e, Nil) \in Assignment BY <1>8 DEF To, Assignment
<1>12. /\ as \in Seq(Assignment) /\ Len(as) = m + 1 /\ as[m + 1] = To(e, Nil)
       /\ \A i \in 1..m : as[i] = Move(pos + i - 1, pos + i)
  <2>1. [i \in 1..m |-> Move(pos + i - 1, pos + i)] \in Seq(Assignment) BY <1>9
  <2>2. <<To(e, Nil)>> \in Seq(Assignment) BY <1>10
  <2> QED BY <2>1, <2>2, <1>6
<1>13. /\ as[m + 1].key = e /\ as[m + 1].from = Nil /\ as[m + 1].val = Nil
       /\ \A i \in 1..m : as[i].key = pos + i - 1 /\ as[i].from = pos + i
  <2>1. as[m + 1].key = e /\ as[m + 1].from = Nil /\ as[m + 1].val = Nil BY <1>12, ToHas
  <2>2. ASSUME NEW i \in 1..m PROVE as[i].key = pos + i - 1 /\ as[i].from = pos + i
    <3>1. as[i] = Move(pos + i - 1, pos + i) BY <1>12
    <3> QED BY <3>1, MoveHas
  <2> QED BY <2>1, <2>2
<1>14. PICK result : result = [k \in Keys |-> IF k = e THEN Nil
                                ELSE IF k \in pos..e - 1 THEN content[k + 1] ELSE content[k]]
  OBVIOUS
<1>15. result \in [Keys -> Values]
  <2>1. \A k \in pos..e - 1 : k + 1 \in Keys BY <1>3, <1>4
  <2> QED BY <2>1, <1>1, <1>8, <1>14
<1>16. /\ m + 1 \in 1..Len(as) /\ Len(as) = m + 1
       /\ \A i \in 1..Len(as) : i \in 1..m \/ i = m + 1
  BY <1>12
<1>17. \A i \in 1..Len(as) : as[i].key \in Keys /\ as[i].from \in Keys \cup {Nil}
  <2>1. as[m + 1].key \in Keys /\ as[m + 1].from = Nil BY <1>8, <1>13
  <2>2. \A i \in 1..m : as[i].key \in Keys /\ as[i].from \in Keys BY <1>3, <1>7, <1>13
  <2> QED BY <2>1, <2>2, <1>16
<1>18. \A i, j \in 1..Len(as) : i < j => as[i].key # as[j].key /\ as[i].key # as[j].from
  <2>1. ASSUME NEW i \in 1..Len(as), NEW j \in 1..Len(as), i < j
        PROVE  as[i].key # as[j].key /\ as[i].key # as[j].from
    <3>1. i \in 1..m BY <2>1, <1>16
    <3>2. as[i].key = pos + i - 1 /\ as[i].key \in Indices /\ as[i].key < e BY <3>1, <1>7, <1>13
    <3>3. CASE j \in 1..m
      <4>1. as[j].key = pos + j - 1 /\ as[j].from = pos + j BY <3>3, <1>13
      <4> QED BY <2>1, <3>1, <3>2, <3>3, <4>1, <1>4
    <3>4. CASE j = m + 1
      <4>1. as[j].key = e /\ as[j].from = Nil BY <3>4, <1>13
      <4>2. as[i].key # e BY <3>2, <1>3, <1>4
      <4>3. as[i].key # Nil BY <3>2, <1>3
      <4> QED BY <4>1, <4>2, <4>3
    <3> QED BY <3>3, <3>4, <1>16
  <2> QED BY <2>1
<1>19. ASSUME NEW k \in Keys
       PROVE  /\ (\A i \in 1..Len(as) : as[i].key # k) => result[k] = Table[k]
              /\ \A i \in 1..Len(as) : as[i].key = k =>
                   result[k] = IF as[i].from = Nil THEN as[i].val ELSE Table[as[i].from]
  <2>1. ASSUME \A i \in 1..Len(as) : as[i].key # k PROVE result[k] = Table[k]
    <3>1. k # e BY <2>1, <1>16, <1>13
    <3>2. k \notin pos..e - 1
      <4>1. ASSUME k \in pos..e - 1 PROVE FALSE
        <5>1. k + 1 - pos \in 1..m BY <4>1, <1>4, <1>5
        <5>2. as[k + 1 - pos].key = pos + (k + 1 - pos) - 1 BY <5>1, <1>13
        <5>3. pos + (k + 1 - pos) - 1 = k BY <4>1, <1>4
        <5>4. k + 1 - pos \in 1..Len(as) BY <5>1, <1>12
        <5> QED BY <2>1, <5>2, <5>3, <5>4
      <4> QED BY <4>1
    <3> QED BY <3>1, <3>2, <1>1, <1>14
  <2>2. ASSUME NEW i \in 1..Len(as), as[i].key = k
        PROVE  result[k] = IF as[i].from = Nil THEN as[i].val ELSE Table[as[i].from]
    <3>1. CASE i = m + 1 BY <2>2, <3>1, <1>13, <1>14
    <3>2. CASE i \in 1..m
      <4>1. k = pos + i - 1 /\ as[i].from = pos + i /\ pos + i \in Indices /\ k >= pos /\ k < e
        BY <2>2, <3>2, <1>7, <1>13
      <4>2. k \in pos..e - 1 /\ k # e /\ k + 1 = pos + i BY <4>1, <3>2, <1>4
      <4>3. result[k] = content[k + 1] BY <4>2, <1>14
      <4>4. as[i].from # Nil BY <4>1, <1>3
      <4> QED BY <4>1, <4>2, <4>3, <4>4, <1>1
    <3> QED BY <3>1, <3>2, <1>16
  <2> QED BY <2>1, <2>2
<1>20. CallsRight(as, result) BY <1>17, <1>18, <1>19 DEF CallsRight
<1>21. Call(as, result) BY <1>2, <1>5, <1>6, <1>14
<1> QED BY <1>1, <1>12, <1>15, <1>20, <1>21, CallKeeps

LEMMA SetListKeeps ==
  ASSUME IInv, NEW list \in Lists, SetList(list)
  PROVE  IInv'
<1>1. /\ Idle /\ Table = content /\ content \in [Keys -> Values] /\ PartsOK /\ TableInv
  BY IdleState DEF SetList, May
<1>2. PICK n \in use.lists : list \in [1..n -> use.values] BY DEF Lists
<1>3. n \in 0..use.last /\ use.last \in Nat
  <2>1. use \in Uses BY <1>1 DEF PartsOK
  <2>2. use.lists \subseteq 0..use.last BY <2>1, LuaTableAssumption
  <2> QED BY <2>2, <1>1, <1>2, UseTyped
<1>4. n \in Nat /\ Len(list) = n /\ \A i \in 1..n : i \in Indices BY <1>2, <1>3 DEF Indices
<1>5. /\ Indices \subseteq Keys /\ Nil \notin Keys BY <1>1, IndexKeys
<1>6. PICK as : as = [i \in 1..n |-> To(n + 1 - i, list[n + 1 - i])] OBVIOUS
<1>7. \A i \in 1..n : n + 1 - i \in 1..n /\ n + 1 - (n + 1 - i) = i BY <1>4
<1>8. \A i \in 1..n : list[i] \in Values BY <1>2 DEF Values
<1>9. \A i \in 1..n : To(n + 1 - i, list[n + 1 - i]) \in Assignment
  BY <1>4, <1>5, <1>7, <1>8 DEF To, Assignment
<1>10. as \in Seq(Assignment) /\ Len(as) = n BY <1>4, <1>6, <1>9
<1>11. \A i \in 1..n : as[i].key = n + 1 - i /\ as[i].from = Nil /\ as[i].val = list[n + 1 - i]
  BY <1>6, ToHas
<1>12. PICK result : result = [k \in Keys |-> IF k \in 1..n THEN list[k] ELSE content[k]] OBVIOUS
<1>13. result \in [Keys -> Values] BY <1>1, <1>8, <1>12
<1>14. \A i \in 1..Len(as) : as[i].key \in Keys /\ as[i].from \in Keys \cup {Nil}
  BY <1>4, <1>5, <1>7, <1>10, <1>11
<1>15. \A i, j \in 1..Len(as) : i < j => as[i].key # as[j].key /\ as[i].key # as[j].from
  <2>1. ASSUME NEW i \in 1..n, NEW j \in 1..n, i < j
        PROVE  as[i].key # as[j].key /\ as[i].key # as[j].from
    <3>1. as[i].key \in Keys BY <1>10, <1>14
    <3>2. as[i].key = n + 1 - i /\ as[j].key = n + 1 - j /\ as[j].from = Nil BY <1>11
    <3>3. n + 1 - i # n + 1 - j BY <2>1, <1>4
    <3> QED BY <3>1, <3>2, <3>3, <1>5
  <2> QED BY <2>1, <1>10
<1>16. ASSUME NEW k \in Keys
       PROVE  /\ (\A i \in 1..Len(as) : as[i].key # k) => result[k] = Table[k]
              /\ \A i \in 1..Len(as) : as[i].key = k =>
                   result[k] = IF as[i].from = Nil THEN as[i].val ELSE Table[as[i].from]
  <2>1. ASSUME \A i \in 1..Len(as) : as[i].key # k PROVE result[k] = Table[k]
    <3>1. ASSUME k \in 1..n PROVE FALSE
      <4>1. n + 1 - k \in 1..n /\ n + 1 - (n + 1 - k) = k BY <1>7, <3>1
      <4>2. as[n + 1 - k].key = k BY <4>1, <1>11
      <4> QED BY <4>1, <4>2, <2>1, <1>10
    <3> QED BY <3>1, <1>1, <1>12
  <2>2. ASSUME NEW i \in 1..Len(as), as[i].key = k
        PROVE  result[k] = IF as[i].from = Nil THEN as[i].val ELSE Table[as[i].from]
    <3>1. i \in 1..n BY <1>10
    <3>2. k = n + 1 - i /\ as[i].from = Nil /\ as[i].val = list[k] BY <2>2, <3>1, <1>11
    <3>3. k \in 1..n BY <3>1, <3>2, <1>7
    <3> QED BY <3>2, <3>3, <1>12
  <2> QED BY <2>1, <2>2
<1>17. CallsRight(as, result) BY <1>14, <1>15, <1>16 DEF CallsRight
<1>18. CASE n > Len(array)
  <2>1. resize(n, sizenode, as) /\ content' = result /\ use' = use
    BY <1>4, <1>6, <1>12, <1>18 DEF SetList
  <2>2. CallsRight(as, content') /\ content' \in [Keys -> Values] BY <2>1, <1>13, <1>17
  <2> QED BY <1>1, <1>4, <1>10, <2>1, <2>2, ResizeInv
<1>19. CASE ~(n > Len(array))
  <2>1. Call(as, result) BY <1>4, <1>6, <1>12, <1>19 DEF SetList
  <2> QED BY <1>1, <1>10, <1>13, <1>17, <2>1, CallKeeps
<1> QED BY <1>18, <1>19

-----------------------------------------------------------------------------
(* Traversals, the collector, the start.                                   *)
LEMMA WalkKeeps ==
  ASSUME IInv, Start \/ luaH_next
  PROVE  IInv'
<1>1. Idle /\ use' = use /\ UNCHANGED parts /\ UNCHANGED calls /\ content' = content
  BY DEF Start, luaH_next, May
<1>2. /\ PartsOK /\ TableInv /\ todo = <<>> /\ moving = 0 /\ Table = content
      /\ content \in [Keys -> Values] /\ rehashing \in {"no", "yes"}
  BY <1>1, IdleState
<1>3. todo' = <<>> /\ moving' = 0 /\ rehashing' \in {"no", "yes"} BY <1>1, <1>2 DEF calls
<1>4. PartsOK' /\ TableInv' /\ Table' = Table BY <1>1, <1>2, PartsStayTable
<1>5. Keys' = Keys /\ Values' = Values BY <1>1 DEF Keys, Values, Indices
<1> QED BY <1>1, <1>2, <1>3, <1>4, <1>5, IdleInv

LEMMA TraverseKeeps ==
  ASSUME IInv, traversetable
  PROVE  IInv'
<1>1. /\ Idle /\ use' = use /\ UNCHANGED <<array, sizenode, lastfree, calls, content>>
      /\ node' = [p \in Nodes |-> IF node[p].val = Nil THEN removeentry(p) ELSE node[p]]
  BY DEF traversetable, May
<1>2. /\ PartsOK /\ TableInv /\ todo = <<>> /\ moving = 0 /\ Table = content
      /\ content \in [Keys -> Values] /\ rehashing \in {"no", "yes"}
  BY <1>1, IdleState
<1>3. todo' = <<>> /\ moving' = 0 /\ rehashing' \in {"no", "yes"} BY <1>1, <1>2 DEF calls
<1>4. TableWell BY <1>2, TableInvIsWell
<1>5. PICK g : g = node' OBVIOUS
<1>6. node \in [Nodes -> Entry(Keys, Values, Nodes)] BY <1>4 DEF TableWell, Well
<1>7. Nil \notin use.objects /\ Nil \notin Keys BY <1>2, UseTyped
<1>8. ASSUME NEW p \in Nodes
      PROVE  \/ g[p] = node[p]
             \/ /\ g[p] = [node[p] EXCEPT !.dead = TRUE]
                /\ node[p].val = Nil /\ node[p].key \in use.objects
  BY <1>1, <1>5 DEF removeentry
<1>9. ASSUME NEW p \in Nodes
      PROVE  /\ g[p] \in Entry(Keys, Values, Nodes)
             /\ g[p].key = node[p].key /\ g[p].next = node[p].next /\ g[p].val = node[p].val
             /\ node[p].key = Nil => g[p] = node[p]
             /\ node[p].dead => g[p].dead
             /\ g[p].dead => node[p].dead \/ (node[p].val = Nil /\ node[p].key \in use.objects)
  <2>1. node[p] \in Entry(Keys, Values, Nodes) BY <1>6
  <2>2. CASE g[p] = node[p] BY <2>1, <2>2
  <2>3. CASE /\ g[p] = [node[p] EXCEPT !.dead = TRUE]
             /\ node[p].val = Nil /\ node[p].key \in use.objects
    <3>1. /\ g[p] \in Entry(Keys, Values, Nodes) /\ g[p].key = node[p].key
          /\ g[p].next = node[p].next /\ g[p].val = node[p].val /\ g[p].dead
      BY <2>1, <2>3 DEF Entry
    <3>2. node[p].key # Nil BY <2>3, <1>7
    <3> QED BY <2>3, <3>1, <3>2
  <2> QED BY <2>2, <2>3, <1>8
<1>10. g \in [Nodes -> Entry(Keys, Values, Nodes)] BY <1>1, <1>5, <1>9
<1>11. \A p \in Nodes : node[p].dead => node[p].val = Nil /\ node[p].key \in use.objects
  BY <1>4 DEF TableWell, Well, WellNodes
<1>12. NodesKept
  <2>1. Setting(Keys, Values, use.objects, Nodes, MainOf)
    BY <1>2, SettingHolds DEF TableSetting
  <2>2. Well(Keys, Values, use.objects, Arr, Nodes, node, MainOf) BY <1>4 DEF TableWell
  <2>3. \A p \in Nodes : /\ g[p].key = node[p].key /\ g[p].next = node[p].next
                         /\ node[p].key = Nil => g[p] = node[p]
                         /\ node[p].dead => g[p].dead
                         /\ g[p].dead => g[p].val = Nil /\ g[p].key \in use.objects
    BY <1>9, <1>11
  <2>4. Well(Keys, Values, use.objects, Arr, Nodes, g, MainOf)
    BY <2>1, <2>2, <2>3, <1>10, SameKeysWell
  <2> QED BY <2>4, <1>5 DEF NodesKept
<1>13. ASSUME NEW j \in Keys PROVE Val(Nodes, g, j) = Val(Nodes, node, j)
  <2>1. Slots(Nodes, g, j) \subseteq Slots(Nodes, node, j) BY <1>9 DEF Slots
  <2>2. CASE Slots(Nodes, node, j) = {} BY <2>1, <2>2 DEF Val
  <2>3. CASE \E q : q \in Slots(Nodes, node, j)
    <3>1. PICK q : q \in Slots(Nodes, node, j) BY <2>3
    <3>2. j # Nil BY <1>7
    <3>3. Slots(Nodes, node, j) = {q} BY <3>1, <3>2, <1>4, SlotsOnce DEF TableWell, Well
    <3>4. q \in Nodes /\ node[q].key = j /\ ~node[q].dead BY <3>1 DEF Slots
    <3>5. SameVal(Nodes, node, g, j)
      <4>1. CASE g[q].dead
        <5>1. Slots(Nodes, g, j) = {} BY <2>1, <3>3, <4>1 DEF Slots
        <5>2. node[q].val = Nil BY <1>9, <3>4, <4>1
        <5> QED BY <5>1, <5>2, <3>3 DEF SameVal
      <4>2. CASE ~g[q].dead
        <5>1. q \in Slots(Nodes, g, j) BY <1>9, <3>4, <4>2 DEF Slots
        <5>2. Slots(Nodes, g, j) = {q} BY <2>1, <3>3, <5>1
        <5> QED BY <5>2, <3>3, <3>4, <1>9 DEF SameVal
      <4> QED BY <4>1, <4>2
    <3> QED BY <3>5, SameValMeans
  <2> QED BY <2>2, <2>3
<1>14. SameSizes /\ array' \in Seq(Values) /\ lastfree' \in Nat /\ array' = array
  BY <1>1, <1>2 DEF SameSizes, PartsOK
<1>15. /\ PartsOK' /\ TableInv'
       /\ \A j \in Keys : luaH_get(j)' = IF InArray(j) THEN array'[j] ELSE Val(Nodes, node', j)
  <2>1. \A i \in Arr : array'[i] # array[i] => i \in Indices BY <1>14
  <2> QED BY <2>1, <1>2, <1>12, <1>14, TableStep
<1>16. \A j \in Keys : luaH_get(j)' = luaH_get(j)
  <2>1. \A j \in Keys : luaH_get(j) = IF InArray(j) THEN array[j] ELSE Val(Nodes, node, j)
    BY <1>2, Lookup DEF Finds, Get
  <2> QED BY <2>1, <1>5, <1>13, <1>14, <1>15
<1>17. Keys' = Keys /\ Values' = Values BY <1>14, SizesStay
<1>18. Table' = Table
  <2>1. Table' = [j \in Keys |-> luaH_get(j)'] BY <1>17 DEF Table
  <2> QED BY <2>1, <1>16 DEF Table
<1>19. content' = content BY <1>1
<1> QED BY <1>2, <1>3, <1>15, <1>17, <1>18, <1>19, IdleInv

LEMMA ClearKeeps ==
  ASSUME IInv, NEW k \in Keys, cleartable(k)
  PROVE  IInv'
<1>1. /\ Idle /\ use' = use /\ UNCHANGED <<sizenode, lastfree, calls>>
      /\ content' = [content EXCEPT ![k] = Nil] /\ content[k] # Nil
  BY DEF cleartable, May
<1>2. /\ PartsOK /\ TableInv /\ todo = <<>> /\ moving = 0 /\ Table = content
      /\ content \in [Keys -> Values] /\ rehashing \in {"no", "yes"}
  BY <1>1, IdleState
<1>3. todo' = <<>> /\ moving' = 0 /\ rehashing' \in {"no", "yes"} BY <1>1, <1>2 DEF calls
<1>4. PICK v \in Values : v = Nil BY DEF Values
<1>5. PartsOK' /\ TableInv' /\ SameSizes /\ GetsSet(k, v)
  <2>1. CASE InArray(k)
    <3>1. array' = [array EXCEPT ![k] = v] /\ UNCHANGED <<node, sizenode, lastfree>>
      BY <1>1, <1>4, <2>1 DEF cleartable
    <3> QED BY <1>1, <1>2, <2>1, <3>1, AssignInArray
  <2>2. CASE ~InArray(k)
    <3>1. luaH_get(k) # Nil BY <1>1, <1>2 DEF Table
    <3>2. Holding(k) # {} BY <2>2, <3>1 DEF luaH_get
    <3>3. PICK p : p = First(Holding(k)) OBVIOUS
    <3>4. p \in Nodes /\ node[p].key = k /\ ~node[p].dead BY <1>2, <3>2, <3>3, FoundNode
    <3>5. PICK e : e = [removeentry(p) EXCEPT !.val = Nil] OBVIOUS
    <3>6. node[p] \in NodeType BY <1>2, <3>4 DEF PartsOK
    <3>7. \/ removeentry(p) = node[p]
          \/ removeentry(p) = [node[p] EXCEPT !.dead = TRUE] /\ k \in use.objects
      BY <3>4 DEF removeentry
    <3>8. /\ e \in NodeType /\ e.key = k /\ e.val = v /\ e.next = node[p].next
          /\ e.dead => v = Nil /\ k \in use.objects
      <4>1. removeentry(p) \in NodeType /\ removeentry(p).key = k
            /\ removeentry(p).next = node[p].next /\ (removeentry(p).dead => k \in use.objects)
        BY <3>4, <3>6, <3>7 DEF NodeType
      <4> QED BY <4>1, <3>5, <1>4 DEF NodeType, Values
    <3>9. node' = [node EXCEPT ![First(Holding(k))] = e] /\ UNCHANGED <<array, sizenode, lastfree>>
      BY <1>1, <2>2, <3>3, <3>5 DEF cleartable
    <3> QED BY <1>1, <1>2, <2>2, <3>2, <3>3, <3>8, <3>9, NodeChanged
  <2> QED BY <2>1, <2>2
<1>6. Keys' = Keys /\ Values' = Values BY <1>5, SizesStay
<1>7. Table' = content'
  <2>1. Table' = [j \in Keys |-> luaH_get(j)'] BY <1>6 DEF Table
  <2>2. \A j \in Keys : luaH_get(j)' = IF j = k THEN Nil ELSE content[j]
    BY <1>2, <1>4, <1>5 DEF GetsSet, Table
  <2>3. content' = [j \in Keys |-> IF j = k THEN Nil ELSE content[j]] BY <1>1, <1>2
  <2> QED BY <2>1, <2>2, <2>3
<1>8. content' \in [Keys' -> Values'] BY <1>1, <1>2, <1>4, <1>6
<1> QED BY <1>3, <1>5, <1>7, <1>8, IdleInv

LEMMA InitHolds ==
  ASSUME Init
  PROVE  IInv
<1>1. /\ use \in Uses /\ todo = <<>> /\ moving = 0 /\ rehashing = "no"
      /\ content = [k \in Keys |-> Nil]
  BY DEF Init
<1>2. PICK narray \in 0..MaxStart, nhash \in 0..MaxStart : luaH_new(narray, nhash) BY DEF Init
<1>3. narray \in Nat BY <1>2, LuaTableAssumption
<1>4. VectorFor(nhash) \in Nat BY <1>2, VectorTyped DEF luaH_new
<1>5. /\ array = [i \in 1..narray |-> Nil] /\ sizenode \in Nat /\ lastfree \in Nat
      /\ node = [p \in Nodes |-> Unused]
  BY <1>2, <1>4 DEF luaH_new, Nodes
<1>6. Nil \in Values BY DEF Values
<1>7. Unused \in NodeType BY <1>6 DEF Unused, NodeType
<1>8. PartsOK
  <2>1. array \in Seq(Values) BY <1>3, <1>5, <1>6
  <2>2. node \in [Nodes -> NodeType] BY <1>5, <1>7
  <2> QED BY <1>1, <1>5, <2>1, <2>2 DEF PartsOK
<1>9. \A i \in 1..Len(array) : array[i] = Nil BY <1>3, <1>5
<1>10. \A p \in Nodes : node[p] = Unused /\ node[p].key = Nil /\ node[p].next = Null /\ ~node[p].dead
  BY <1>5 DEF Unused
<1>11. TableInv
  BY <1>9, <1>10 DEF TableInv, ArrayWell, NodesWell, LinkedOnce, KeysFound, KeysOnce,
                     CollidingAtHome
<1>12. CallsOK BY <1>1, <1>6 DEF CallsOK
<1>13. MovingInv /\ CallInv BY <1>1 DEF MovingInv, CallInv
<1>14. ASSUME NEW k \in Keys PROVE Table[k] = Nil
  <2>1. \A p \in Holding(k) : p \in Nodes BY DEF Holding, Chain, From
  <2>2. k # Nil BY <1>8, UseTyped
  <2>3. Holding(k) = {} BY <2>1, <2>2, <1>10 DEF Holding
  <2>4. InArray(k) => array[k] = Nil BY <1>9 DEF InArray
  <2> QED BY <2>3, <2>4 DEF Table, luaH_get
<1>15. \A k \in Keys : Current[k] = Table[k] BY <1>1, <1>12, NothingMoving
<1>16. Promise
  <2>1. \A k : Pending(k) = {} BY <1>1 DEF Pending
  <2> QED BY <2>1, <1>1, <1>14, <1>15 DEF Promise
<1> QED BY <1>8, <1>11, <1>12, <1>13, <1>16 DEF IInv, TypeOK

LEMMA StutterKeeps ==
  ASSUME IInv, UNCHANGED vars
  PROVE  IInv'
<1>1. /\ use' = use /\ UNCHANGED parts /\ content' = content
      /\ todo' = todo /\ moving' = moving /\ rehashing' = rehashing
  BY DEF vars, calls
<1>2. PartsOK /\ CallsOK /\ TableInv /\ MovingInv /\ CallInv /\ Promise BY DEF IInv, TypeOK
<1>3. PartsOK' /\ TableInv' /\ Table' = Table BY <1>1, <1>2, PartsStayTable
<1>4. Keys' = Keys /\ Values' = Values /\ Assignment' = Assignment
  BY <1>1 DEF Keys, Values, Assignment, Indices
<1>5. CallsOK' BY <1>1, <1>2, <1>4 DEF CallsOK
<1>6. \A i : Moved(i)' <=> Moved(i) BY <1>1 DEF Moved
<1>7. MovingInv' BY <1>1, <1>2, <1>3, <1>4, <1>6 DEF MovingInv
<1>8. CallInv' BY <1>1, <1>2 DEF CallInv
<1>10. Current' = Current
  <2>1. \A k : Back(k)' = Back(k) BY <1>1, <1>6 DEF Back
  <2> QED BY <2>1, <1>1, <1>3, <1>4, SameCurrent
<1>11. Promise'
  <2>1. \A k : Pending(k)' = Pending(k) BY <1>1 DEF Pending
  <2> QED BY <2>1, <1>1, <1>2, <1>4, <1>10 DEF Promise
<1> QED BY <1>3, <1>5, <1>7, <1>8, <1>11 DEF IInv, TypeOK

-----------------------------------------------------------------------------
\* The invariant: a key with a node is found by the search for it, no node is
\* behind two others and only the collector leaves dead keys; what resize took
\* out and the assignments still to be made are told apart by their keys, and
\* with the table they amount to what the calls of the program promise.
THEOREM TableInvariant == Spec => []IInv
<1>1. Init => IInv BY InitHolds
<1>2. IInv /\ [Next]_vars => IInv'
  <2>1. SUFFICES ASSUME IInv, [Next]_vars PROVE IInv' OBVIOUS
  <2>2. CASE Step BY <2>1, <2>2, StepKeeps
  <2>3. CASE Grow BY <2>1, <2>3, GrowKeeps
  <2>4. ASSUME NEW k \in Keys, NEW v \in Values, Set(k, v) PROVE IInv'
    BY <2>1, <2>4, SetKeeps
  <2>5. ASSUME NEW pos \in Indices, tremove(pos) PROVE IInv' BY <2>1, <2>5, RemoveKeeps
  <2>6. ASSUME NEW pos \in Indices, NEW v \in use.values, tinsert(pos, v) PROVE IInv'
    BY <2>1, <2>6, InsertKeeps
  <2>7. ASSUME NEW list \in Lists, SetList(list) PROVE IInv' BY <2>1, <2>7, SetListKeeps
  <2>8. CASE Start \/ luaH_next BY <2>1, <2>8, WalkKeeps
  <2>9. CASE traversetable BY <2>1, <2>9, TraverseKeeps
  <2>10. ASSUME NEW k \in Keys, cleartable(k) PROVE IInv' BY <2>1, <2>10, ClearKeeps
  <2>11. CASE UNCHANGED vars BY <2>1, <2>11, StutterKeeps
  <2> QED
    BY <2>1, <2>2, <2>3, <2>4, <2>5, <2>6, <2>7, <2>8, <2>9, <2>10, <2>11 DEF Next
<1> QED BY <1>1, <1>2, PTL DEF Spec

\* Whatever keys collide, whatever rehashes put back in whatever order and
\* wherever the collector leaves dead keys: between two calls of a program,
\* luaH_get returns for every key what the calls so far amount to.
THEOREM TableIsMapHolds == Spec => []TableIsMap
<1>1. IInv => TableIsMap
  <2>1. SUFFICES ASSUME IInv, Idle PROVE Table = content BY DEF TableIsMap
  <2> QED BY <2>1, IdleState
<1> QED BY <1>1, TableInvariant, PTL

\* "A main invariant of these tables": newkey moves the colliding element away
\* unless it is in its own main position.
THEOREM CollidingAtHomeHolds == Spec => []CollidingAtHome
<1>1. IInv => CollidingAtHome BY DEF IInv, TableInv
<1> QED BY <1>1, TableInvariant, PTL
=============================================================================
