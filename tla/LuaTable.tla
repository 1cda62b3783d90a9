------------------------------ MODULE LuaTable ------------------------------
(***************************************************************************)
(* A table of the Lua interpreter (ltable.c): an array part and a vector   *)
(* of nodes with the keys chained through it, and what programs            *)
(* (lapi.c, lvm.c, ltablib.c) and the collector (lgc.c) do to it.  An      *)
(* assignment that finds no free node starts a rehash: the elements are    *)
(* put back into the new parts one by one, before anything else happens.   *)
(***************************************************************************)
EXTENDS Integers, Sequences, FiniteSets, SequencesExt

CONSTANTS
  Nil,          \* nil: as a key, as a value
  Uses,         \* programs: their keys, values, hash values and operations
  Sizes,        \* sizes a part may be given: the powers of two up to
  MAXASIZE,     \* 2^MAXBITS
  MaxInt,       \* MAX_INT: the largest index
  MaxStart      \* bound: sizes given to a new table

\* Integer keys are numbers, from 1 to last; others (strings, objects, floats)
\* are names.  strings are hashed by hashpow2, objects are collectable.
ASSUME LuaTableAssumption ==
  /\ MAXASIZE \in Nat /\ Sizes \subseteq 1..MAXASIZE
  /\ MaxInt \in Nat /\ MaxStart \in Nat
  /\ Nil \notin Int
  /\ \A u \in Uses :
       /\ u.last \in 0..MaxInt /\ u.lists \subseteq 0..u.last
       /\ u.names \cap Int = {} /\ Nil \notin u.names \cup u.values
       /\ u.strings \subseteq u.names /\ u.objects \subseteq u.names
       /\ u.hash \in [(1..MaxInt + 1) \cup u.names -> Nat]

VARIABLES
  use,          \* the program, chosen at the start
  array,        \* the array part; its length is sizearray
  node,         \* the node vector; sizenode is 0 for dummynode
  sizenode,
  lastfree,     \* all nodes from this one on are taken
  todo,         \* assignments the call in progress has to make
  moving,       \* how many of them put back what resize took out
  rehashing,    \* "no", "yes" until the key that had no room is in, "again"
  trav,         \* a traversal by next: <<the key it has come to>>, or <<>>
  seen, due,    \* history: the keys it has returned, the keys it has to return
  content       \* history: what the calls of the program amount to

parts == <<array, node, sizenode, lastfree>>
calls == <<todo, moving, rehashing>>
walk  == <<trav, seen, due>>
vars  == <<use, parts, calls, walk, content>>

Indices == 1..use.last
Keys    == Indices \cup use.names
Values  == use.values \cup {Nil}
Null    == -1                       \* a next pointer
Nodes   == 0..sizenode - 1
Unused  == [key |-> Nil, dead |-> FALSE, val |-> Nil, next |-> Null]
Idle    == todo = <<>> /\ rehashing # "again"
Least(S)    == CHOOSE x \in S : \A y \in S : x <= y
Greatest(S) == CHOOSE x \in S : \A y \in S : y <= x

-----------------------------------------------------------------------------
(* Looking up.                                                             *)
\* hashpow2 for strings and booleans, hashmod for numbers and pointers.
MainIn(k, n) ==
  IF k \in use.strings \/ n = 1 THEN use.hash[k] % n ELSE use.hash[k] % (n - 1)
mainposition(k) == MainIn(k, sizenode)

\* The nodes that a search from p comes to, and the first of some of them.
Closed(S) == \A p \in S : node[p].next \in S \cup {Null}
From(p)   == {q \in Nodes : \A S \in SUBSET Nodes : p \in S /\ Closed(S) => q \in S}
First(ps) == CHOOSE p \in ps : ps \subseteq From(p)
Chain(k)  == IF sizenode = 0 THEN {} ELSE From(mainposition(k))

\* luaO_rawequalObj: a dead key is equal to none.
Holding(k) == {p \in Chain(k) : node[p].key = k /\ ~node[p].dead}
InArray(k) == k \in 1..Len(array)
luaH_get(k) == IF InArray(k) THEN array[k]
               ELSE IF Holding(k) = {} THEN Nil ELSE node[First(Holding(k))].val
Table == [k \in Keys |-> luaH_get(k)]

-----------------------------------------------------------------------------
(* The length: some index with a value and none behind it.                 *)
\* Both binary searches: i is 0 or has a value, j has none.
Between[i \in 0..MaxInt, j \in 0..MaxInt + 1] ==
  LET m == (i + j) \div 2
  IN  IF j - i <= 1 THEN i
      ELSE IF luaH_get(m) = Nil THEN Between[i, m] ELSE Between[m, j]
unbound_search(j) ==
  LET probes == {p \in {(j + 1) * 2^e : e \in 0..MaxInt} : p <= MaxInt \/ p = j + 1}
      empty  == {p \in probes : luaH_get(p) = Nil}
      p      == Least(empty)
  IN  IF empty # {} THEN Between[IF p = j + 1 THEN j ELSE p \div 2, p]
      ELSE Least({i \in 1..MaxInt + 1 : luaH_get(i) = Nil}) - 1     \* linear search
ArrayOnly ==                                    \* mutant: the nodes are not searched
  LET j == Len(array) IN IF j > 0 /\ array[j] = Nil THEN Between[0, j] ELSE j
luaH_getn ==
  LET j == Len(array)
  IN  IF j > 0 /\ array[j] = Nil THEN Between[0, j]
      ELSE IF sizenode = 0 THEN j ELSE unbound_search(j)

-----------------------------------------------------------------------------
(* Growing.                                                                *)
NotTheFirst == {p \in Nodes \ {0} : node[p].val # Nil}    \* mutant: while (--i)
Live == {p \in Nodes : node[p].val # Nil}
Filled == {i \in 1..Len(array) : array[i] # Nil}

\* computesizes: the largest size of which more than half is in use; ints are
\* the integer keys up to MAXASIZE.
ArraySize(ints) ==
  LET good == {s \in Sizes : Cardinality(ints \cap 1..s) > s \div 2}
  IN  IF good = {} THEN 0 ELSE Greatest(good)

\* The elements of the vanishing slice of the array, then those of the nodes.
Taken(nasize) ==
  LET slice == IF nasize < Len(array) THEN Len(array) - nasize ELSE 0
  IN  [i \in 1..slice + sizenode |->
         IF i <= slice THEN [key |-> nasize + i, from |-> Nil, val |-> array[nasize + i]]
         ELSE LET p == sizenode - (i - slice)
              IN  [key |-> node[p].key, from |-> Nil, val |-> node[p].val]]
\* ceillog2 (luaO_log2): "table overflow" if no size is large enough.
VectorFor(n) == IF n = 0 THEN 0 ELSE Least({s \in Sizes : s >= n})

resize(nasize, nhsize, calling) ==
  /\ nhsize = 0 \/ \E s \in Sizes : s >= nhsize
  /\ array' = [i \in 1..nasize |-> IF InArray(i) THEN array[i] ELSE Nil]
  /\ sizenode' = VectorFor(nhsize)
  /\ node' = [p \in 0..VectorFor(nhsize) - 1 |-> Unused]
  /\ lastfree' = VectorFor(nhsize)
  /\ todo' = Taken(nasize) \o calling
  /\ moving' = Len(Taken(nasize))
  /\ rehashing' = "yes"
  /\ trav' = <<>> /\ seen' = {} /\ due' = {}

rehash(ek) ==
  LET ints   == (Filled \cup {node[p].key : p \in Live} \cup {ek}) \cap 1..MAXASIZE
      nasize == ArraySize(ints)
      total  == Cardinality(Filled) + Cardinality(Live) + 1
  IN  resize(nasize, total - Cardinality(ints \cap 1..nasize), todo)

-----------------------------------------------------------------------------
(* An assignment: luaH_set, and the value.                                 *)
AnyBefore == {p \in Nodes : p < lastfree}       \* mutant: the key is not looked at
Free == {p \in Nodes : p < lastfree /\ node[p].key = Nil}
Taking(k) == sizenode # 0 => node[mainposition(k)].val # Nil
Put(k, v, next) == [key |-> k, dead |-> FALSE, val |-> v, next |-> next]

AtMainPosition(k, v) ==
  /\ ~Taking(k)
  /\ LET mp == mainposition(k)
     IN  node' = [node EXCEPT ![mp] = Put(k, v, node[mp].next)]
  /\ UNCHANGED lastfree
\* The node there is not in its main position: it moves to the free one.
Displace(k, v) ==
  /\ Taking(k) /\ Free # {}
  /\ LET mp    == mainposition(k)
         n     == Greatest(Free)
         other == mainposition(node[mp].key)
         prev  == CHOOSE p \in From(other) : node[p].next = mp
     IN  /\ other # mp
         /\ node' = [node EXCEPT ![prev].next = n, ![n] = node[mp], ![mp] = Put(k, v, Null)]
         /\ lastfree' = n
LinkIn(k, v) ==
  /\ Taking(k) /\ Free # {}
  /\ LET mp == mainposition(k)
         n  == Greatest(Free)
     IN  /\ mainposition(node[mp].key) = mp
         /\ node' = [node EXCEPT ![n] = Put(k, v, node[mp].next), ![mp].next = n]
         /\ lastfree' = n
newkey(k, v) ==
  /\ AtMainPosition(k, v) \/ Displace(k, v) \/ LinkIn(k, v)
  /\ UNCHANGED <<array, sizenode>>
  /\ trav' = <<>> /\ seen' = {} /\ due' = {}

Assign(k, v) ==
  \/ /\ InArray(k)
     /\ array' = [array EXCEPT ![k] = v]
     /\ UNCHANGED <<node, sizenode, lastfree, walk>>
  \/ /\ ~InArray(k) /\ Holding(k) # {}
     /\ node' = [node EXCEPT ![First(Holding(k))].val = v]
     /\ UNCHANGED <<array, sizenode, lastfree, walk>>
  \/ ~InArray(k) /\ Holding(k) = {} /\ newkey(k, v)

Value(e) == IF e.from = Nil THEN e.val ELSE luaH_get(e.from)
NoRoom(k) == ~InArray(k) /\ Holding(k) = {} /\ Taking(k) /\ Free = {}

PutsNothing == moving > 0 /\ Head(todo).val = Nil     \* resize skips nil

\* The next assignment of the call in progress, or of resize.
Step ==
  /\ todo # <<>> /\ rehashing # "again"
  /\ \/ PutsNothing /\ UNCHANGED <<parts, walk>>
     \/ ~PutsNothing /\ Assign(Head(todo).key, Value(Head(todo)))
  /\ todo' = Tail(todo)
  /\ moving' = IF moving > 0 THEN moving - 1 ELSE 0
  /\ rehashing' = IF moving > 0 THEN rehashing ELSE "no"
  /\ UNCHANGED <<use, content>>
\* No node is free: all keys are counted and the parts get new sizes.
Grow ==
  /\ todo # <<>> /\ ~PutsNothing /\ NoRoom(Head(todo).key)
  /\ \/ rehashing = "no" /\ rehash(Head(todo).key)
     \/ /\ rehashing = "yes" /\ rehashing' = "again"
        /\ UNCHANGED <<parts, todo, moving, walk>>
  /\ UNCHANGED <<use, content>>

-----------------------------------------------------------------------------
(* Calls of the program.                                                   *)
May(op) == Idle /\ op \in use.ops
To(k, v) == [key |-> k, from |-> Nil, val |-> v]
Move(k, from) == [key |-> k, from |-> from, val |-> Nil]
Call(assignments, result) ==
  /\ todo' = assignments /\ content' = result
  /\ due' = {k \in due : result[k] # Nil}
  /\ UNCHANGED <<use, parts, moving, rehashing, trav, seen>>

\* lua_rawset, lua_rawseti.
Set(k, v) == May("set") /\ Call(<<To(k, v)>>, [content EXCEPT ![k] = v])

tinsert(pos, v) ==
  /\ May("list")
  /\ LET e == IF pos > luaH_getn + 1 THEN pos ELSE luaH_getn + 1
     IN  /\ e \in Indices
         /\ Call([i \in 1..e - pos |-> Move(e + 1 - i, e - i)] \o <<To(pos, v)>>,
                 [k \in Keys |-> IF k = pos THEN v
                                 ELSE IF k \in pos + 1..e THEN content[k - 1] ELSE content[k]])
tremove(pos) ==
  /\ May("list")
  /\ LET e == luaH_getn
     IN  /\ e \in Indices /\ pos \in 1..e
         /\ Call([i \in 1..e - pos |-> Move(pos + i - 1, pos + i)] \o <<To(e, Nil)>>,
                 [k \in Keys |-> IF k = e THEN Nil
                                 ELSE IF k \in pos..e - 1 THEN content[k + 1] ELSE content[k]])

\* OP_SETLIST, the last element first.
SetList(list) ==
  /\ May("setlist")
  /\ LET n == Len(list)
         assignments == [i \in 1..n |-> To(n + 1 - i, list[n + 1 - i])]
         result == [k \in Keys |-> IF k \in 1..n THEN list[k] ELSE content[k]]
     IN  IF n > Len(array)
         THEN resize(n, sizenode, assignments) /\ content' = result /\ UNCHANGED use
         ELSE Call(assignments, result)

\* luaH_next: the index of a key, dead or not, and what comes behind it.
Found(k) == {p \in Chain(k) : node[p].key = k}
findindex(k) == IF k = Nil THEN 0 ELSE IF InArray(k) THEN k
                ELSE Len(array) + 1 + First(Found(k))
Behind(k) == {i \in 1..Len(array) + sizenode :
                /\ i > findindex(k)
                /\ IF i <= Len(array) THEN array[i] # Nil ELSE node[i - Len(array) - 1].val # Nil}
KeyAt(i) == IF i <= Len(array) THEN i ELSE node[i - Len(array) - 1].key
Invalid(k) == k # Nil /\ ~InArray(k) /\ Found(k) = {}     \* invalid key to 'next'

Start ==
  /\ May("next") /\ trav = <<>>
  /\ trav' = <<Nil>> /\ seen' = {} /\ due' = {k \in Keys : content[k] # Nil}
  /\ UNCHANGED <<use, parts, calls, content>>
luaH_next ==
  /\ May("next") /\ trav # <<>> /\ ~Invalid(trav[1])
  /\ IF Behind(trav[1]) = {} THEN trav' = <<>> /\ seen' = {} /\ due' = {}
     ELSE LET k == KeyAt(Least(Behind(trav[1])))
          IN  trav' = <<k>> /\ seen' = seen \cup {k} /\ UNCHANGED due
  /\ UNCHANGED <<use, parts, calls, content>>

-----------------------------------------------------------------------------
(* The collector, between two calls.                                       *)
\* traversetable: keys without a value are dead.
KeyGone(p) == [node[p] EXCEPT !.key = Nil]      \* mutant: the key is cleared
removeentry(p) == IF node[p].key \in use.objects THEN [node[p] EXCEPT !.dead = TRUE] ELSE node[p]
traversetable ==
  /\ May("gc")
  /\ node' = [p \in Nodes |-> IF node[p].val = Nil THEN removeentry(p) ELSE node[p]]
  /\ UNCHANGED <<use, array, sizenode, lastfree, calls, walk, content>>
\* cleartable, for one entry of a weak table.
cleartable(k) ==
  /\ May("weak") /\ content[k] # Nil
  /\ IF InArray(k) THEN array' = [array EXCEPT ![k] = Nil] /\ UNCHANGED node
     ELSE /\ node' = [node EXCEPT ![First(Holding(k))] = [removeentry(First(Holding(k))) EXCEPT !.val = Nil]]
          /\ UNCHANGED array
  /\ content' = [content EXCEPT ![k] = Nil] /\ due' = due \ {k}
  /\ UNCHANGED <<use, sizenode, lastfree, calls, trav, seen>>

-----------------------------------------------------------------------------
luaH_new(narray, nhash) ==
  /\ nhash = 0 \/ \E s \in Sizes : s >= nhash
  /\ array = [i \in 1..narray |-> Nil]
  /\ sizenode = VectorFor(nhash)
  /\ node = [p \in 0..VectorFor(nhash) - 1 |-> Unused]
  /\ lastfree = VectorFor(nhash)

Init ==
  /\ use \in Uses
  /\ \E narray, nhash \in 0..MaxStart : luaH_new(narray, nhash)
  /\ todo = <<>> /\ moving = 0 /\ rehashing = "no"
  /\ trav = <<>> /\ seen = {} /\ due = {}
  /\ content = [k \in Keys |-> Nil]

Lists == UNION {[1..n -> use.values] : n \in use.lists}
Next ==
  \/ Step \/ Grow
  \/ \E k \in Keys, v \in Values : Set(k, v)
  \/ \E pos \in Indices : tremove(pos) \/ \E v \in use.values : tinsert(pos, v)
  \/ \E list \in Lists : SetList(list)
  \/ Start \/ luaH_next \/ traversetable
  \/ \E k \in Keys : cleartable(k)

Spec == Init /\ [][Next]_vars

-----------------------------------------------------------------------------
(* Properties.                                                             *)
\* Between two calls the table is the map that the calls so far amount to:
\* assignments change one key, table.insert and table.remove shift a list, a
\* constructor sets its elements; no rehash and no key in the way changes more.
TableIsMap == Idle => Table = content

\* "A main invariant of these tables is that, if an element is not in its main
\* position, then the colliding element is in its own main position."
CollidingAtHome ==
  \A p \in Nodes : node[p].key # Nil =>
    LET mp == mainposition(node[p].key)
    IN  node[mp].key # Nil /\ mainposition(node[mp].key) = mp

\* A traversal during which no key is new returns every key that keeps a value,
\* and none twice, although values are assigned and cleared and keys die.
TraversalComplete ==
  Idle /\ trav # <<>> =>
    /\ ~Invalid(trav[1])
    /\ IF Behind(trav[1]) = {} THEN due \subseteq seen
       ELSE KeyAt(Least(Behind(trav[1]))) \notin seen

\* The length is a boundary, wherever the elements are.
LengthIsBorder ==
  Idle => /\ luaH_getn = 0 \/ content[luaH_getn] # Nil
          /\ luaH_getn + 1 \in Indices => content[luaH_getn + 1] = Nil

\* The sizes rehash computes leave room for all that is put back and for the
\* new key: no rehash starts another one.
RoomForAll == rehashing # "again"

-----------------------------------------------------------------------------
(* The inductive invariant behind TableIsMap and CollidingAtHome.          *)
NodeType == [key : Keys \cup {Nil}, dead : BOOLEAN, val : Values, next : Nodes \cup {Null}]
Assignment == [key : Keys \cup Nat \cup {Nil}, from : Keys \cup {Nil}, val : Values]
PartsOK ==
  /\ use \in Uses
  /\ array \in Seq(Values)
  /\ sizenode \in Nat /\ node \in [Nodes -> NodeType] /\ lastfree \in Nat
CallsOK ==
  /\ todo \in Seq(Assignment) /\ moving \in 0..Len(todo)
  /\ rehashing \in {"no", "yes", "again"} /\ (moving > 0 => rehashing # "no")
  /\ content \in [Keys -> Values]
TypeOK == PartsOK /\ CallsOK

\* A node without key is not linked; only objects are dead, without a value.
NodesWell ==
  \A p \in Nodes : /\ node[p].key = Nil => node[p] = Unused
                   /\ node[p].next # Null => node[node[p].next].key # Nil
                   /\ node[p].dead => node[p].val = Nil /\ node[p].key \in use.objects
\* No node is behind two others.
LinkedOnce ==
  \A p, q \in Nodes : node[p].next = node[q].next /\ node[p].next # Null => p = q
\* A search for a key, dead or not, comes to its node; a key that is not dead
\* has one node, and none if it belongs into the array.
KeysFound == \A p \in Nodes : node[p].key # Nil => p \in From(mainposition(node[p].key))
KeysOnce ==
  \A p \in Nodes : node[p].key # Nil /\ ~node[p].dead =>
    /\ ~InArray(node[p].key)
    /\ \A q \in Nodes : node[q].key = node[p].key /\ ~node[q].dead => q = p
ArrayWell == \A i \in 1..Len(array) : array[i] # Nil => i \in Indices
TableInv == ArrayWell /\ NodesWell /\ LinkedOnce /\ KeysFound /\ KeysOnce /\ CollidingAtHome

\* What resize took out is put back under keys that have no value now.
Moved(i) == i \in 1..moving /\ todo[i].val # Nil
MovingInv ==
  \A i \in 1..Len(todo) :
    /\ Moved(i) => /\ todo[i].key \in Keys /\ todo[i].from = Nil
                   /\ Table[todo[i].key] = Nil
                   /\ \A j \in 1..Len(todo) : Moved(j) /\ todo[j].key = todo[i].key => j = i
    /\ i > moving => todo[i].key \in Keys
\* The value of a key, that of what is still to be put back included.
Back(k) == {i \in 1..Len(todo) : Moved(i) /\ todo[i].key = k}
Current ==
  [k \in Keys |-> IF Back(k) = {} THEN Table[k] ELSE todo[CHOOSE i \in Back(k) : TRUE].val]
\* The assignments of a call go to different keys, and none reads what another
\* before it has written.
CallInv ==
  \A i, j \in 1..Len(todo) : moving < i /\ i < j => /\ todo[i].key # todo[j].key
                                                    /\ todo[i].key # todo[j].from
\* What the assignments to come and the table now amount to is the content.
Pending(k) == {i \in 1..Len(todo) : i > moving /\ todo[i].key = k}
Promise ==
  \A k \in Keys :
    /\ Pending(k) = {} => content[k] = Current[k]
    /\ \A i \in Pending(k) :
         content[k] = IF todo[i].from = Nil THEN todo[i].val ELSE Current[todo[i].from]
IInv == TypeOK /\ TableInv /\ MovingInv /\ CallInv /\ Promise
=============================================================================
