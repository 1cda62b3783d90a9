------------------------- MODULE LuaGCGarbageProofs -------------------------
(***************************************************************************)
(* Proofs about the garbage of LuaGC, for every heap: only what the        *)
(* program cannot use is queued for finalization or cleared from weak      *)
(* tables, and what was garbage when a collection began is gone when it    *)
(* ends.  The invariant is that of LuaGCProofs, and one that relates old   *)
(* garbage to the references of everything else and to its colours.        *)
(***************************************************************************)
EXTENDS LuaGCProofs

-----------------------------------------------------------------------------
(* What the mark phase has not reached at its end is garbage.              *)
\* The references of a table that are not weak.
LEMMA StrongIs ==
  ASSUME NEW t, NEW r
  PROVE  r \in Range(Strong(t)) <=> \/ r = ref[t].meta
                                    \/ "v" \notin Mode(t) /\ r = ref[t].val
                                    \/ "k" \notin Mode(t) /\ ref[t].val # 0 /\ r = ref[t].key
<1>1. PICK T : T = {ref[t].key, ref[t].val, ref[t].meta}
  OBVIOUS
<1>2. PICK a : a = <<ref[t].meta>>
  OBVIOUS
<1>3. PICK b : b = IF "v" \in Mode(t) THEN <<>> ELSE <<ref[t].val>>
  OBVIOUS
<1>4. PICK c : c = IF "k" \in Mode(t) \/ ref[t].val = 0 THEN <<>> ELSE <<ref[t].key>>
  OBVIOUS
<1>5. ref[t].meta \in T /\ ref[t].val \in T /\ ref[t].key \in T
  BY <1>1
<1>6. a \in Seq(T) /\ Range(a) = {ref[t].meta}
  BY <1>2, <1>5 DEF Range
<1>7. b \in Seq(T) /\ Range(b) = {x \in T : "v" \notin Mode(t) /\ x = ref[t].val}
  <2>1. CASE "v" \in Mode(t)
    <3>1. b = <<>>
      BY <1>3, <2>1
    <3>2. QED
      BY <2>1, <3>1, EmptyRange
  <2>2. CASE "v" \notin Mode(t)
    <3>1. b = <<ref[t].val>>
      BY <1>3, <2>2
    <3>2. b \in Seq(T) /\ Range(b) = {ref[t].val}
      BY <1>5, <3>1 DEF Range
    <3>3. QED
      BY <1>5, <2>2, <3>2
  <2>3. QED
    BY <2>1, <2>2
<1>8. c \in Seq(T) /\ Range(c) = {x \in T : "k" \notin Mode(t) /\ ref[t].val # 0 /\ x = ref[t].key}
  <2>1. CASE "k" \in Mode(t) \/ ref[t].val = 0
    <3>1. c = <<>>
      BY <1>4, <2>1
    <3>2. QED
      BY <2>1, <3>1, EmptyRange
  <2>2. CASE "k" \notin Mode(t) /\ ref[t].val # 0
    <3>1. c = <<ref[t].key>>
      BY <1>4, <2>2
    <3>2. c \in Seq(T) /\ Range(c) = {ref[t].key}
      BY <1>5, <3>1 DEF Range
    <3>3. QED
      BY <1>5, <2>2, <3>2
  <2>3. QED
    BY <2>1, <2>2
<1>9. PICK p : p = a \o b
  OBVIOUS
<1>10. p \in Seq(T) /\ Range(p) = Range(a) \cup Range(b)
  BY <1>6, <1>7, <1>9, JoinIs
<1>11. PICK q : q = p \o c
  OBVIOUS
<1>12. q \in Seq(T) /\ Range(q) = Range(p) \cup Range(c)
  BY <1>8, <1>10, <1>11, JoinIs
<1>13. Strong(t) = q
  BY <1>2, <1>3, <1>4, <1>9, <1>11 DEF Strong
<1> QED
  BY <1>5, <1>6, <1>7, <1>8, <1>10, <1>12, <1>13

\* The strong references of an object are among its fields.
LEMMA StrongFields ==
  ASSUME IInv, NEW o \in Obj, ~Is(o, "thread"), ~Open(o), NEW r \in StrongRefs(o)
  PROVE  r \in {ref[o].key, ref[o].val, ref[o].meta}
<1>1. CASE Is(o, "table")
  <2>1. r \in Range(Strong(o))
    BY <1>1 DEF StrongRefs
  <2>2. QED
    BY <2>1, StrongIs
<1>2. CASE Is(o, "upval")
  <2>1. StrongRefs(o) = {ref[o].val}
    BY <1>2 DEF StrongRefs, Refs, ValueOf, Is
  <2>2. QED
    BY <2>1
<1>3. CASE ~Is(o, "table") /\ ~Is(o, "upval")
  BY <1>3 DEF StrongRefs, Refs
<1> QED
  BY <1>1, <1>2, <1>3

\* At the end of the mark phase what is marked is closed under references, all
\* but those of userdata that wait for their finalizers.
LEMMA MarkedClosed ==
  ASSUME IInv, gcstate = "propagate", gray = <<>>, stage >= 3, NEW o \in Obj, NW(colour, o), o \notin Range(tmudata),
         NEW r \in StrongRefs(o)
  PROVE  NW(colour, r)
<1>1. colour[o] \in {"black", "gray", "free"} /\ o # 0
  BY ShapeIs DEF IInv, TypeOK, Colours, NW
<1>2. /\ ~Is(o, "table") => ref[o].key = 0
      /\ ~Is(o, "table") /\ ~Is(o, "udata") => ref[o].meta = 0
      /\ Is(o, "string") => ref[o].val = 0
  BY DEF IInv, FieldsFit
<1>3. NW(colour, 0)
  BY DEF NW
<1>4. CASE colour[o] = "black"
  <2>1. ~Is(o, "thread") /\ ~Open(o)
    BY <1>4 DEF IInv, OpenFit, Coloured
  <2>2. NW(colour, ref[o].key) /\ NW(colour, ref[o].val) /\ NW(colour, ref[o].meta)
    BY <1>4, MarkingIs DEF FM
  <2>3. QED
    BY <2>1, <2>2, StrongFields
<1>5. CASE colour[o] = "free"
  <2>1. ~Open(o) /\ ref[o] = Nothing
    BY <1>5 DEF IInv, OpenFit, FieldsFit
  <2>2. CASE Is(o, "thread")
    <3>1. o \in OfKind("thread") /\ StrongRefs(o) = Range(stack[o])
      BY <2>2 DEF OfKind, StrongRefs, Refs, Is
    <3>2. \A s \in Slots(o) : stack[o][s] = 0
      BY <1>5, <3>1 DEF IInv, SlotsFit
    <3>3. stack[o] \in [Slots(o) -> Obj0]
      BY <3>1 DEF IInv, TypeOK
    <3>4. r = 0
      BY <3>1, <3>2, <3>3 DEF Range
    <3>5. QED
      BY <1>3, <3>4
  <2>3. CASE ~Is(o, "thread")
    <3>1. r \in {ref[o].key, ref[o].val, ref[o].meta}
      BY <2>1, <2>3, StrongFields
    <3>2. QED
      BY <1>3, <2>1, <3>1 DEF Nothing
  <2>4. QED
    BY <2>2, <2>3
<1>6. CASE colour[o] = "gray"
  <2>1. ~Is(o, "udata")
    BY <1>6 DEF IInv, Coloured
  <2>2. CASE Is(o, "string")
    <3>1. ~Is(o, "thread") /\ ~Open(o)
      BY <2>2 DEF IInv, OpenFit, Is
    <3>2. r \in {ref[o].key, ref[o].val, ref[o].meta}
      BY <3>1, StrongFields
    <3>3. ~Is(o, "table") /\ ~Is(o, "udata")
      BY <2>2 DEF Is
    <3>4. QED
      BY <1>2, <1>3, <2>2, <3>2, <3>3
  <2>3. CASE Is(o, "upval")
    <3>1. StrongRefs(o) = {ValueOf(o)}
      BY <2>3 DEF StrongRefs, Refs, Is
    <3>2. Open(o)
      BY <1>6, <2>3 DEF IInv, Coloured
    <3>3. stage >= 1
      BY DEF IInv, TypeOK
    <3>4. NW(colour, ValueOf(o))
      BY <1>6, <3>2, <3>3 DEF IInv, Marked, Atomic
    <3>5. QED
      BY <3>1, <3>4
  <2>4. CASE shape.kinds[o] \in Gathered
    <3>1. o \in Range(gray) \cup Range(grayagain) \cup Range(weak)
      BY <1>6, <2>4, MarkingIs DEF ListsFit, GrayObjects
    <3>2. o \in Range(grayagain) \/ o \in Range(weak)
      BY <3>1, EmptyRange
    <3>3. CASE o \in Range(grayagain)
      <4>1. Is(o, "thread") /\ \A s \in Slots(o) : NW(colour, stack[o][s])
        BY <3>3 DEF IInv, Marked, Atomic
      <4>2. o \in OfKind("thread") /\ StrongRefs(o) = Range(stack[o])
        BY <4>1 DEF OfKind, StrongRefs, Refs, Is
      <4>3. stack[o] \in [Slots(o) -> Obj0]
        BY <4>2 DEF IInv, TypeOK
      <4>4. QED
        BY <4>1, <4>2, <4>3 DEF Range
    <3>4. CASE o \in Range(weak)
      <4>1. stage >= 2
        BY DEF IInv, TypeOK
      <4>2. StrongMarked(o)
        BY <3>4, <4>1 DEF IInv, Marked, Atomic
      <4>3. Is(o, "table")
        BY <3>4, MarkingIs
      <4>4. r \in Range(Strong(o))
        BY <4>3 DEF StrongRefs
      <4>5. QED
        BY <4>2, <4>4, StrongIs DEF StrongMarked
    <3>5. QED
      BY <3>2, <3>3, <3>4
  <2>5. shape.kinds[o] \in Kinds
    BY ShapeIs DEF IInv
  <2>6. QED
    BY <2>1, <2>2, <2>3, <2>4, <2>5 DEF Kinds, Gathered, Is
<1> QED
  BY <1>1, <1>4, <1>5, <1>6

\* References lead to objects.
LEMMA StrongObj ==
  ASSUME IInv, NEW o \in Obj, NEW r \in StrongRefs(o), r # 0
  PROVE  r \in Obj
<1>1. ref[o].meta \in Obj0 /\ ref[o].key \in Obj0 /\ ref[o].val \in Obj0
  BY RefIs DEF IInv
<1>2. CASE Is(o, "thread")
  <2>1. o \in OfKind("thread") /\ StrongRefs(o) = Range(stack[o])
    BY <1>2 DEF OfKind, StrongRefs, Refs, Is
  <2>2. stack[o] \in [Slots(o) -> Obj0]
    BY <2>1 DEF IInv, TypeOK
  <2>3. QED
    BY <2>1, <2>2 DEF Range, Obj0
<1>3. CASE Is(o, "upval")
  <2>1. StrongRefs(o) = {ValueOf(o)}
    BY <1>3 DEF StrongRefs, Refs, Is
  <2>2. ValueOf(o) \in Obj0
    BY <1>3, ValueIs DEF IInv
  <2>3. QED
    BY <2>1, <2>2 DEF Obj0
<1>4. CASE ~Is(o, "thread") /\ ~Is(o, "upval")
  <2>1. ~Open(o)
    BY <1>4 DEF IInv, OpenFit
  <2>2. QED
    BY <1>1, <1>4, <2>1, StrongFields DEF Obj0
<1> QED
  BY <1>2, <1>3, <1>4

\* What From gives is in every set that has the roots and is closed.
LEMMA FromLeast ==
  ASSUME NEW os, NEW refs, NEW S \in SUBSET Obj, os \subseteq S, \A p \in S : refs[p] \subseteq S
  PROVE  From(os, refs) \subseteq S
<1>1. S = os \cup (S \ os) /\ S \ os \in SUBSET (Obj \ os)
  OBVIOUS
<1>2. S \in {os \cup more : more \in SUBSET (Obj \ os)}
  BY <1>1
<1>3. S \in {s \in {os \cup more : more \in SUBSET (Obj \ os)} : \A p \in s : refs[p] \subseteq s}
  BY <1>2
<1> QED
  BY <1>3 DEF From

\* Nothing white is used then.
LEMMA WhiteUnused ==
  ASSUME IInv, gcstate = "propagate", gray = <<>>, stage >= 3, NEW o \in Obj, IsWhite(o)
  PROVE  o \notin Used
<1>1. PICK S : S = {p \in Obj : NW(colour, p)}
  OBVIOUS
<1>2. PICK os : os = Roots \ Range(tmudata)
  OBVIOUS
<1>3. os \subseteq S
  <2>1. arg = 0 /\ stage >= 2 /\ stage # 0
    BY DEF IInv, Phases, TypeOK
  <2>2. NW(colour, running) /\ NW(colour, Main) /\ NW(colour, Globals)
    BY <2>1, MarkingIs DEF IInv, Marked, Atomic
  <2>3. Main \in Obj /\ Globals \in Obj /\ running \in Obj
    BY ShapeIs, RunningIs DEF IInv
  <2>4. QED
    BY <1>1, <1>2, <2>1, <2>2, <2>3 DEF Roots
<1>4. PICK refs : refs = [p \in Obj |-> Unqueued(p) \ {0}]
  OBVIOUS
<1>5. ASSUME NEW p \in S PROVE refs[p] \subseteq S
  <2>1. p \in Obj /\ NW(colour, p)
    BY <1>1
  <2>2. CASE p \in Range(tmudata)
    <3>1. refs[p] = {}
      BY <1>4, <2>1, <2>2 DEF Unqueued
    <3>2. QED
      BY <3>1
  <2>3. CASE p \notin Range(tmudata)
    <3>1. refs[p] = StrongRefs(p) \ {0}
      BY <1>4, <2>1, <2>3 DEF Unqueued
    <3>2. ASSUME NEW r \in StrongRefs(p), r # 0 PROVE r \in S
      <4>1. NW(colour, r)
        BY <2>1, <2>3, <3>2, MarkedClosed
      <4>2. r \in Obj
        BY <2>1, <3>2, StrongObj
      <4>3. QED
        BY <1>1, <4>1, <4>2
    <3>3. QED
      BY <3>1, <3>2
  <2>4. QED
    BY <2>2, <2>3
<1>6. S \in SUBSET Obj
  BY <1>1
<1>7. From(os, refs) \subseteq S
  BY <1>3, <1>5, <1>6, FromLeast
<1>8. Used = From(os, refs)
  BY <1>2, <1>4 DEF Used, AllRefs
<1>9. o # 0 /\ ~NW(colour, o)
  BY ShapeIs DEF IInv, NW, IsWhite
<1> QED
  BY <1>1, <1>7, <1>8, <1>9

\* What may be cleared: the entry has a white key or value, or a value that has
\* been finalized.
LEMMA ClearedUnused ==
  ASSUME IInv, gcstate = "propagate", gray = <<>>, stage >= 3, NEW t \in Obj, Cleared(t)
  PROVE  \/ ref[t].key # 0 /\ ref[t].key \notin Used
         \/ ref[t].val \notin Used
         \/ ref[t].val \in finalized
<1>1. ref[t].key \in Obj0 /\ ref[t].val \in Obj0
  BY RefIs DEF IInv
<1>2. IsCleared(ref[t].key, TRUE) \/ IsCleared(ref[t].val, FALSE)
  BY DEF Cleared
<1>3. CASE IsCleared(ref[t].key, TRUE)
  <2>1. ref[t].key # 0 /\ IsWhite(ref[t].key)
    BY <1>3 DEF IsCleared
  <2>2. ref[t].key \in Obj
    BY <1>1, <2>1 DEF Obj0
  <2>3. QED
    BY <2>1, <2>2, WhiteUnused
<1>4. CASE IsCleared(ref[t].val, FALSE)
  <2>1. ref[t].val # 0 /\ (IsWhite(ref[t].val) \/ ref[t].val \in finalized)
    BY <1>4 DEF IsCleared
  <2>2. ref[t].val \in Obj
    BY <1>1, <2>1 DEF Obj0
  <2>3. QED
    BY <2>1, <2>2, WhiteUnused
<1> QED
  BY <1>2, <1>3, <1>4

\* Only cleartable removes entries while the whites change.
Queues == \A u \in Range(tmudata') \ Range(tmudata) : u \notin Used
Clears == stage = 4 => \A t \in Range(weak) :
            ref'[t].val # ref[t].val => \/ ref[t].key # 0 /\ ref[t].key \notin Used
                                        \/ ref[t].val \notin Used
                                        \/ ref[t].val \in finalized
\* Every step: what it queues for finalization, and what it clears, is not used.
LEMMA CollectsGarbage ==
  ASSUME IInv, Next
  PROVE  Queues /\ Clears
<1>1. stage = 4 => gcstate = "propagate" /\ arg = 0
  BY DEF IInv, Phases
<1>2. tmudata' = tmudata => Queues
  BY DEF Queues
<1>3. stage # 4 \/ ref' = ref => Clears
  BY DEF Clears
<1>4. CASE Program
  <2>1. CASE FullGC
    BY <1>2, <1>3, <2>1 DEF FullGC
  <2>2. CASE Operation
    <3>1. tmudata' = tmudata
      BY <2>2 DEF Operation
    <3>2. stage = 0 \/ ref' = ref
      BY <2>2 DEF Operation, New, NewUdata, NewCclosure, luaS_newlstr, NewLclosure, Load, SetEntry, SetUpvalue, Xmove,
           SetMetatable, Leave, Resume, Yield, Finalized, May
    <3>3. QED
      BY <1>2, <1>3, <3>1, <3>2
  <2>3. QED
    BY <1>4, <2>1, <2>2 DEF Program
<1>5. CASE SeparateUdata
  <2>1. gcstate = "propagate" /\ gray = <<>> /\ stage = 3 /\ tmudata' = tmudata \o Separated
    BY <1>5 DEF SeparateUdata, InAtomic
  <2>2. /\ Range(tmudata \o Separated) = Range(tmudata) \cup Range(Separated)
        /\ Range(Separated) \subseteq SeparatedSet
    BY SeparatedAre
  <2>3. ASSUME NEW u \in Range(tmudata'), u \notin Range(tmudata) PROVE u \notin Used
    <3>1. u \in SeparatedSet
      BY <2>1, <2>2, <2>3
    <3>2. u \in Obj /\ IsWhite(u)
      BY <3>1 DEF SeparatedSet, OfKind
    <3>3. QED
      BY <2>1, <3>2, WhiteUnused
  <2>4. QED
    BY <1>3, <2>1, <2>3 DEF Queues
<1>6. CASE cleartable
  <2>1. /\ gcstate = "propagate" /\ gray = <<>> /\ stage = 4 /\ tmudata' = tmudata
        /\ \A o \in Obj : ref'[o] = IF o \in Range(weak) /\ Cleared(o) THEN Fields(0, 0, ref[o].meta) ELSE ref[o]
    BY <1>6, ClearFrame
  <2>2. ASSUME NEW t \in Range(weak), ref'[t].val # ref[t].val
        PROVE  \/ ref[t].key # 0 /\ ref[t].key \notin Used
               \/ ref[t].val \notin Used
               \/ ref[t].val \in finalized
    <3>1. t \in Obj
      BY RangeHas DEF IInv, TypeOK
    <3>2. Cleared(t)
      BY <2>1, <2>2, <3>1
    <3>3. QED
      BY <2>1, <3>1, <3>2, ClearedUnused
  <2>3. QED
    BY <1>2, <2>1, <2>2 DEF Clears
<1>7. CASE GCTM
  <2>1. gcstate = "finalize" /\ tmudata # <<>> /\ tmudata' = Tail(tmudata)
    BY <1>7 DEF GCTM
  <2>2. tmudata \in Seq(Obj)
    BY DEF IInv, TypeOK
  <2>3. Range(tmudata) = {Head(tmudata)} \cup Range(Tail(tmudata))
    BY <2>1, <2>2, TailIs
  <2>4. Range(tmudata') \subseteq Range(tmudata)
    BY <2>1, <2>3
  <2>5. stage # 4
    BY <1>1, <2>1
  <2>6. QED
    BY <1>3, <2>4, <2>5 DEF Queues
<1>8. CASE propagatemark
  <2>1. /\ tmudata' = tmudata
        /\ ref' = IF Is(Head(gray), "table") /\ ref[Head(gray)].val = 0 /\ Mode(Head(gray)) # {"k", "v"}
                  THEN [ref EXCEPT ![Head(gray)].key = 0] ELSE ref
    BY <1>8 DEF propagatemark
  <2>2. ASSUME NEW t \in Obj PROVE ref'[t].val = ref[t].val
    <3>1. DOMAIN ref = Obj
      BY DEF IInv, TypeOK
    <3>2. ref[t] \in [key : Obj0, val : Obj0, meta : Obj0]
      BY RefIs DEF IInv
    <3>3. QED
      BY <2>1, <3>1, <3>2
  <2>3. Range(weak) \subseteq Obj
    BY RangeHas DEF IInv, TypeOK
  <2>4. QED
    BY <1>2, <2>1, <2>2, <2>3 DEF Clears
<1>9. CASE remarkupvals \/ RemarkWeak \/ RemarkGray
  <2>1. tmudata' = tmudata /\ ref' = ref
    BY <1>9 DEF remarkupvals, RemarkWeak, RemarkGray, NoFlip
  <2>2. QED
    BY <1>2, <1>3, <2>1
<1>10. CASE markroot \/ sweepstring \/ EndCollection
  <2>1. tmudata' = tmudata /\ ref' = ref
    BY <1>10 DEF markroot, sweepstring, EndCollection
  <2>2. QED
    BY <1>2, <1>3, <2>1
<1>11. CASE sweeplist
  <2>1. tmudata' = tmudata /\ stage = 0
    BY <1>11, SweptFrame
  <2>2. QED
    BY <1>2, <1>3, <2>1
<1> QED
  BY <1>4, <1>5, <1>6, <1>7, <1>8, <1>9, <1>10, <1>11 DEF Next, Collector, singlestep

\* Only what the program cannot use is queued for its finalizer or cleared from a weak
\* table: at the end of the mark phase all that is used is marked.
THEOREM OnlyGarbageHolds == Spec => OnlyGarbage
<1>1. IInv /\ [Next]_vars =>
        [/\ \A u \in Range(tmudata') \ Range(tmudata) : u \notin Used
         /\ stage = 4 => \A t \in Range(weak) :
              ref'[t].val # ref[t].val => \/ ref[t].key # 0 /\ ref[t].key \notin Used
                                          \/ ref[t].val \notin Used
                                          \/ ref[t].val \in finalized]_vars
  BY CollectsGarbage DEF Queues, Clears
<1> QED
  BY <1>1, CollectorInvariant, PTL DEF Spec, OnlyGarbage

-----------------------------------------------------------------------------
(* What was garbage when the collection began is freed: what is kept is    *)
(* closed under references, old garbage is referred to by old garbage      *)
(* only, and nothing of it is marked.                                      *)
Keeps == From(Roots \cup Range(tmudata), AllRefs(KeptRefs))

\* From has the roots and is closed.
LEMMA FromClosed ==
  ASSUME NEW os \in SUBSET Obj, NEW refs, \A p \in Obj : refs[p] \subseteq Obj
  PROVE  /\ os \subseteq From(os, refs) /\ From(os, refs) \subseteq Obj
         /\ \A p \in From(os, refs) : refs[p] \subseteq From(os, refs)
<1>1. PICK closed : closed = {s \in {os \cup more : more \in SUBSET (Obj \ os)} : \A p \in s : refs[p] \subseteq s}
  OBVIOUS
<1>2. From(os, refs) = {o \in Obj : \A s \in closed : o \in s}
  BY <1>1 DEF From
<1>3. \A s \in closed : os \subseteq s /\ \A p \in s : refs[p] \subseteq s
  BY <1>1
<1>4. os \subseteq From(os, refs) /\ From(os, refs) \subseteq Obj
  BY <1>2, <1>3
<1>5. ASSUME NEW p \in From(os, refs), NEW r \in refs[p] PROVE r \in From(os, refs)
  <2>1. p \in Obj /\ \A s \in closed : p \in s
    BY <1>2
  <2>2. r \in Obj
    BY <1>5, <2>1
  <2>3. \A s \in closed : r \in s
    BY <1>3, <1>5, <2>1
  <2>4. QED
    BY <1>2, <2>2, <2>3
<1> QED
  BY <1>4, <1>5

\* The references that are kept, kind by kind.
LEMMA KeptRefsAre ==
  ASSUME IInv, NEW o \in Obj, NEW r \in KeptRefs(o)
  PROVE  /\ r = 0 \/ r \in Obj
         /\ Is(o, "thread") => \E s \in Slots(o) : r = stack[o][s]
         /\ Is(o, "upval") => r = ValueOf(o)
         /\ ~Is(o, "thread") /\ ~Is(o, "upval") => r \in {ref[o].key, ref[o].val, ref[o].meta}
<1>1. ref[o].meta \in Obj0 /\ ref[o].key \in Obj0 /\ ref[o].val \in Obj0
  BY RefIs DEF IInv
<1>2. CASE Is(o, "thread")
  <2>1. o \in OfKind("thread") /\ StrongRefs(o) = Range(stack[o]) /\ Refs(o) = Range(stack[o])
    BY <1>2 DEF OfKind, StrongRefs, Refs, Is
  <2>2. r \in Range(stack[o])
    BY <2>1 DEF KeptRefs
  <2>3. stack[o] \in [Slots(o) -> Obj0]
    BY <2>1 DEF IInv, TypeOK
  <2>4. \E s \in Slots(o) : r = stack[o][s] /\ stack[o][s] \in Obj0
    BY <2>2, <2>3 DEF Range
  <2>5. ~Is(o, "upval")
    BY <1>2 DEF Is
  <2>6. QED
    BY <1>2, <2>4, <2>5 DEF Obj0
<1>3. CASE Is(o, "upval")
  <2>1. StrongRefs(o) = {ValueOf(o)} /\ Refs(o) = {ValueOf(o)}
    BY <1>3 DEF StrongRefs, Refs, Is
  <2>2. r = ValueOf(o)
    BY <2>1 DEF KeptRefs
  <2>3. ValueOf(o) \in Obj0
    BY <1>3, ValueIs DEF IInv
  <2>4. ~Is(o, "thread")
    BY <1>3 DEF Is
  <2>5. QED
    BY <1>3, <2>2, <2>3, <2>4 DEF Obj0
<1>4. CASE ~Is(o, "thread") /\ ~Is(o, "upval")
  <2>1. ~Open(o)
    BY <1>4 DEF IInv, OpenFit
  <2>2. Refs(o) \subseteq {ref[o].key, ref[o].val, ref[o].meta}
    <3>1. CASE Is(o, "table") /\ ref[o].val = 0
      <4>1. Refs(o) = {ref[o].meta}
        BY <1>4, <3>1 DEF Refs
      <4>2. QED
        BY <4>1
    <3>2. CASE ~(Is(o, "table") /\ ref[o].val = 0)
      BY <1>4, <3>2 DEF Refs
    <3>3. QED
      BY <3>1, <3>2
  <2>3. r \in {ref[o].key, ref[o].val, ref[o].meta}
    <3>1. CASE r \in StrongRefs(o)
      BY <1>4, <2>1, <3>1, StrongFields
    <3>2. CASE r \in Refs(o)
      BY <2>2, <3>2
    <3>3. QED
      BY <3>1, <3>2 DEF KeptRefs
  <2>4. QED
    BY <1>1, <1>4, <2>3 DEF Obj0
<1> QED
  BY <1>2, <1>3, <1>4

KeptClosed ==
  /\ Roots \cup Range(tmudata) \subseteq Keeps /\ Keeps \subseteq Obj /\ 0 \notin Keeps
  /\ \A p \in Keeps : \A r \in KeptRefs(p) : r = 0 \/ r \in Keeps
\* What is kept is closed under the references that keep.
LEMMA KeptClosedNow ==
  ASSUME IInv
  PROVE  KeptClosed
<1>1. PICK os : os = Roots \cup Range(tmudata)
  OBVIOUS
<1>2. os \in SUBSET Obj
  <2>1. Range(tmudata) \subseteq Obj
    BY RangeHas DEF IInv, TypeOK
  <2>2. Main \in Obj /\ Globals \in Obj /\ running \in Obj /\ (arg # 0 => arg \in Obj)
    BY ShapeIs, RunningIs DEF IInv, TypeOK, Obj0
  <2>3. QED
    BY <1>1, <2>1, <2>2 DEF Roots
<1>3. PICK refs : refs = [p \in Obj |-> KeptRefs(p) \ {0}]
  OBVIOUS
<1>4. \A p \in Obj : refs[p] \subseteq Obj
  BY <1>3, KeptRefsAre
<1>5. /\ os \subseteq From(os, refs) /\ From(os, refs) \subseteq Obj
      /\ \A p \in From(os, refs) : refs[p] \subseteq From(os, refs)
  BY <1>2, <1>4, FromClosed
<1>6. Keeps = From(os, refs)
  BY <1>1, <1>3 DEF Keeps, AllRefs
<1>7. \A p \in Keeps : refs[p] \subseteq Keeps /\ refs[p] = KeptRefs(p) \ {0}
  BY <1>3, <1>5, <1>6
<1>8. 0 \notin Keeps
  BY <1>5, <1>6, ShapeIs DEF IInv
<1> QED
  BY <1>1, <1>5, <1>6, <1>7, <1>8 DEF KeptClosed

\* The invariant.
OldClosed == \A y \in Allocated \ old : KeptRefs(y) \cap old = {}
OldColours ==
  full # "sweep" =>
    /\ gcstate = "propagate" => \A o \in old : IsWhite(o)
    /\ gcstate \in {"sweepstring", "sweep"} => \A o \in old : IsDead(o)
    /\ gcstate \in {"pause", "finalize"} => old = {}
OldInv == old \subseteq Garbage /\ OldClosed /\ OldColours

\* The facts about one state, for the next one.
LEMMA KeptClosedNext == IInv' => KeptClosed'
<1>1. IInv => KeptClosed
  BY KeptClosedNow
<1> QED
  BY <1>1, PTL

KeptFit ==
  \A o \in Obj : \A r \in KeptRefs(o) :
    /\ r = 0 \/ r \in Obj
    /\ Is(o, "thread") => \E s \in Slots(o) : r = stack[o][s]
    /\ Is(o, "upval") => r = ValueOf(o)
    /\ ~Is(o, "thread") /\ ~Is(o, "upval") => r \in {ref[o].key, ref[o].val, ref[o].meta}
\* The kept references, in the next state.
LEMMA KeptFitNext == IInv' => KeptFit'
<1>1. IInv => KeptFit
  BY KeptRefsAre DEF KeptFit
<1> QED
  BY <1>1, PTL
\* Threads.
LEMMA IsOfKind ==
  ASSUME IInv
  PROVE  OfKind("thread") \subseteq Obj /\ \A o \in Obj : o \in OfKind("thread") <=> Is(o, "thread")
BY DEF OfKind

\* Objects that stay as they are refer to what they have referred to.
LEMMA RefsSame ==
  ASSUME shape' = shape, NEW o \in Obj, ~Is(o, "thread"), ~Is(o, "upval"), ref'[o] = ref[o]
  PROVE  KeptRefs(o)' = KeptRefs(o)
<1>1. Is(o, "table")' = Is(o, "table") /\ Is(o, "thread")' = Is(o, "thread") /\ Is(o, "upval")' = Is(o, "upval")
      /\ OfKind("string")' = OfKind("string")
  BY DEF Is, OfKind, Obj
<1>2. Mode(o)' = Mode(o)
  BY DEF Mode
<1>3. Strong(o)' = Strong(o)
  BY <1>2 DEF Strong
<1>4. Refs(o)' = Refs(o)
  <2>1. CASE Is(o, "table") /\ ref[o].val = 0
    <3>1. Refs(o) = {ref[o].meta}
      BY <2>1 DEF Refs
    <3>2. Refs(o)' = {ref'[o].meta}
      BY <1>1, <2>1 DEF Refs
    <3>3. QED
      BY <3>1, <3>2
  <2>2. CASE ~(Is(o, "table") /\ ref[o].val = 0)
    <3>1. Refs(o) = {ref[o].key, ref[o].val, ref[o].meta}
      BY <2>2 DEF Refs
    <3>2. Refs(o)' = {ref'[o].key, ref'[o].val, ref'[o].meta}
      BY <1>1, <2>2 DEF Refs
    <3>3. QED
      BY <3>1, <3>2
  <2>3. QED
    BY <2>1, <2>2
<1>5. StrongRefs(o)' = StrongRefs(o)
  BY <1>1, <1>3, <1>4 DEF StrongRefs
<1> QED
  BY <1>1, <1>4, <1>5 DEF KeptRefs

\* What is on a stack is kept by its thread.
LEMMA StackRefs ==
  ASSUME IInv, NEW th \in OfKind("thread"), NEW s \in Slots(th)
  PROVE  stack[th][s] \in KeptRefs(th)
<1>1. th \in Obj /\ Is(th, "thread") /\ StrongRefs(th) = Range(stack[th])
  BY DEF OfKind, StrongRefs, Refs, Is
<1>2. stack[th] \in [Slots(th) -> Obj0]
  BY DEF IInv, TypeOK
<1>3. stack[th][s] \in Range(stack[th])
  BY <1>2 DEF Range
<1> QED
  BY <1>1, <1>3 DEF KeptRefs
\* An upvalue keeps its value.
LEMMA UpvalRefs ==
  ASSUME NEW u \in Obj, Is(u, "upval")
  PROVE  KeptRefs(u) = {ValueOf(u)}
<1>1. StrongRefs(u) = {ValueOf(u)} /\ Refs(u) = {ValueOf(u)}
  BY DEF StrongRefs, Refs, Is
<1> QED
  BY <1>1 DEF KeptRefs
UpvalsFit == \A u \in Obj : Is(u, "upval") => KeptRefs(u) = {ValueOf(u)}
\* Also in the next state.
LEMMA UpvalRefsNext == UpvalsFit'
<1>1. UpvalsFit
  BY UpvalRefs DEF UpvalsFit
<1> QED
  BY <1>1, PTL

\* What a step stores on the stacks is kept.
StackKept == \A th \in OfKind("thread") : \A s \in Slots(th) :
               stack'[th][s] = stack[th][s] \/ stack'[th][s] = 0 \/ stack'[th][s] \in Keeps'
\* An object that is not written refers to what it did, or to what is kept.
LEMMA HeapRefs ==
  ASSUME IInv, IInv', shape' = shape, StackKept, NEW y \in Obj,
         ref'[y] = ref[y] \/ Is(y, "thread"), at'[y] = at[y] \/ Is(y, "thread"), NEW r \in KeptRefs(y)'
  PROVE  r = 0 \/ r \in Keeps' \/ r \in KeptRefs(y)
<1>1. /\ Obj' = Obj /\ Slots(y)' = Slots(y) /\ Is(y, "thread")' = Is(y, "thread") /\ Is(y, "upval")' = Is(y, "upval")
  BY DEF Obj, Slots, Is
<1>2. CASE Is(y, "thread")
  <2>1. \E s \in Slots(y) : r = stack'[y][s]
    BY <1>1, <1>2, KeptFitNext DEF KeptFit
  <2>2. PICK s \in Slots(y) : r = stack'[y][s]
    BY <2>1
  <2>3. y \in OfKind("thread")
    BY <1>2 DEF OfKind
  <2>4. stack[y][s] \in KeptRefs(y)
    BY <2>3, StackRefs
  <2>5. QED
    BY <2>2, <2>3, <2>4 DEF StackKept
<1>3. CASE Is(y, "upval")
  <2>1. r = ValueOf(y)' /\ ~Is(y, "thread")
    BY <1>1, <1>3, KeptFitNext DEF KeptFit, Is
  <2>2. KeptRefs(y) = {ValueOf(y)}
    BY <1>3, UpvalRefs
  <2>3. CASE at[y] = <<>>
    <3>1. ValueOf(y)' = ref'[y].val /\ ValueOf(y) = ref[y].val
      BY <2>1, <2>3 DEF ValueOf, Open
    <3>2. QED
      BY <2>1, <2>2, <3>1
  <2>4. CASE at[y] # <<>>
    <3>1. PICK th \in OfKind("thread") : \E l \in Slots(th) : at[y] = <<th, l>>
      BY <2>4 DEF IInv, TypeOK
    <3>2. PICK l \in Slots(th) : at[y] = <<th, l>>
      BY <3>1
    <3>3. at'[y] = at[y] /\ at[y][1] = th /\ at[y][2] = l
      BY <2>1, <3>2
    <3>4. ValueOf(y) = stack[th][l]
      BY <2>4, <3>3 DEF ValueOf, Open
    <3>5. ValueOf(y)' = stack'[th][l]
      BY <2>4, <3>3 DEF ValueOf, Open
    <3>6. QED
      BY <2>1, <2>2, <3>4, <3>5 DEF StackKept
  <2>5. QED
    BY <2>3, <2>4
<1>4. CASE ~Is(y, "thread") /\ ~Is(y, "upval")
  BY <1>4, RefsSame
<1> QED
  BY <1>2, <1>3, <1>4

\* Old garbage stays garbage until it is freed.
OldKept  == old' = {} \/ old' = old \cap Garbage'
RefsKept == \A y \in Obj : colour'[y] # "free" =>
              \/ y \in Keeps'
              \/ colour[y] # "free" /\ \A r \in KeptRefs(y)' : r = 0 \/ r \in Keeps' \/ r \in KeptRefs(y)
\* A step after which unkept objects have no new references keeps old garbage closed.
LEMMA OldStep ==
  ASSUME IInv, IInv', OldInv, shape' = shape, OldKept, RefsKept
  PROVE  (old \subseteq Garbage)' /\ OldClosed'
<1>1. Obj' = Obj /\ 0 \notin Obj
  BY ShapeIs DEF IInv, Obj
<1>2. KeptClosed'
  BY KeptClosedNext
<1>3. Garbage' = {o \in Obj : colour'[o] # "free"} \ Keeps'
  BY <1>1 DEF Garbage, Keeps, Allocated
<1>4. Allocated' = {o \in Obj : colour'[o] # "free"}
  BY <1>1 DEF Allocated
<1>5. old' \subseteq Garbage'
  BY DEF OldKept
<1>6. ASSUME NEW y \in Allocated', y \notin old', NEW r \in KeptRefs(y)', r \in old' PROVE FALSE
  <2>1. y \in Obj /\ colour'[y] # "free"
    BY <1>4
  <2>2. r # 0 /\ r \notin Keeps'
    BY <1>1, <1>3, <1>5, <1>6
  <2>3. y \notin Keeps'
    BY <1>2, <1>6, <2>2 DEF KeptClosed
  <2>4. y \in Garbage'
    BY <1>3, <2>1, <2>3
  <2>5. old' = old \cap Garbage'
    BY <1>6 DEF OldKept
  <2>6. y \notin old
    BY <1>6, <2>4, <2>5
  <2>7. colour[y] # "free" /\ r \in KeptRefs(y)
    BY <1>6, <2>1, <2>2, <2>3 DEF RefsKept
  <2>8. KeptRefs(y) \cap old = {}
    BY <2>1, <2>6, <2>7 DEF OldInv, OldClosed, Allocated
  <2>9. QED
    BY <1>6, <2>5, <2>7, <2>8
<1> QED
  BY <1>5, <1>6 DEF OldClosed

-----------------------------------------------------------------------------
(* Marking colours nothing outside a set that has what is marked and is    *)
(* closed under what userdata and upvalues mark at once.                   *)
ClosedSet(S) ==
  /\ S \subseteq Obj
  /\ \A u \in S : /\ Is(u, "udata") => ref[u].meta \in S \cup {0}
                  /\ Is(u, "upval") => ValueOf(u) \in S \cup {0}
Inside(m, x, S) == x \in MarksType /\ \A o \in Obj \ S : x.colour[o] = m.colour[o]

\* An object of the set turns black.
LEMMA BlackenInside ==
  ASSUME NEW S, S \subseteq Obj, NEW m, NEW x, Inside(m, x, S), NEW o \in S
  PROVE  Inside(m, Blacken(x, o), S)
<1>1. x \in [colour : [Obj -> Colours], gray : Seq(Obj)] /\ \A p \in Obj \ S : x.colour[p] = m.colour[p]
  BY DEF Inside, MarksType
<1>2. PICK y : y = Blacken(x, o)
  OBVIOUS
<1>3. y.colour = [x.colour EXCEPT ![o] = "black"] /\ y.gray = x.gray
      /\ y = [colour |-> y.colour, gray |-> y.gray]
  BY <1>1, <1>2 DEF Blacken
<1>4. "black" \in Colours
  BY DEF Colours
<1>5. y.colour \in [Obj -> Colours] /\ \A p \in Obj : p # o => y.colour[p] = x.colour[p]
  BY <1>1, <1>3, <1>4
<1>6. y \in MarksType
  BY <1>1, <1>3, <1>5 DEF MarksType
<1> QED
  BY <1>1, <1>2, <1>5, <1>6 DEF Inside

\* An object of the set turns gray.
LEMMA ShadeInside ==
  ASSUME NEW S, S \subseteq Obj, 0 \notin Obj, NEW m, NEW x, Inside(m, x, S), NEW o \in S \cup {0}
  PROVE  Inside(m, Shade(x, o), S)
<1>1. CASE o = 0 \/ x.colour[o] \notin Whites
  <2>1. Shade(x, o) = x
    BY <1>1 DEF Shade
  <2>2. QED
    BY <2>1
<1>2. CASE o # 0 /\ x.colour[o] \in Whites
  <2>1. x \in [colour : [Obj -> Colours], gray : Seq(Obj)] /\ \A p \in Obj \ S : x.colour[p] = m.colour[p]
    BY DEF Inside, MarksType
  <2>2. o \in S /\ o \in Obj
    BY <1>2
  <2>3. PICK c : c = [x.colour EXCEPT ![o] = "gray"]
    OBVIOUS
  <2>4. PICK g : g = IF shape.kinds[o] \in Gathered THEN <<o>> \o x.gray ELSE x.gray
    OBVIOUS
  <2>5. Shade(x, o) = [colour |-> c, gray |-> g]
    BY <1>2, <2>3, <2>4 DEF Shade
  <2>6. "gray" \in Colours
    BY DEF Colours
  <2>7. c \in [Obj -> Colours] /\ \A p \in Obj : p # o => c[p] = x.colour[p]
    BY <2>1, <2>2, <2>3, <2>6
  <2>8. g \in Seq(Obj)
    BY <2>1, <2>2, <2>4, ConsIs
  <2>9. [colour |-> c, gray |-> g] \in MarksType
    BY <2>7, <2>8 DEF MarksType
  <2>10. \A p \in Obj \ S : [colour |-> c, gray |-> g].colour[p] = m.colour[p]
    BY <2>1, <2>2, <2>7
  <2>11. QED
    BY <2>5, <2>9, <2>10 DEF Inside
<1> QED
  BY <1>1, <1>2

\* A userdata marks its metatable.
LEMMA MarkValueInside ==
  ASSUME NEW S, ClosedSet(S), 0 \notin Obj, NEW m, NEW x, Inside(m, x, S), NEW o \in S \cup {0}
  PROVE  Inside(m, MarkValue(x, o), S)
<1>0. S \subseteq Obj
  BY DEF ClosedSet
<1>1. CASE o # 0 /\ Is(o, "udata") /\ x.colour[o] \in Whites
  <2>1. MarkValue(x, o) = Shade(Blacken(x, o), ref[o].meta)
    BY <1>1 DEF MarkValue
  <2>2. o \in S /\ ref[o].meta \in S \cup {0}
    BY <1>1 DEF ClosedSet
  <2>3. PICK y : y = Blacken(x, o)
    OBVIOUS
  <2>4. Inside(m, y, S)
    BY <1>0, <2>2, <2>3, BlackenInside
  <2>5. Inside(m, Shade(y, ref[o].meta), S)
    BY <1>0, <2>2, <2>4, ShadeInside
  <2>6. QED
    BY <2>1, <2>3, <2>5
<1>2. CASE ~(o # 0 /\ Is(o, "udata") /\ x.colour[o] \in Whites)
  <2>1. MarkValue(x, o) = Shade(x, o)
    BY <1>2 DEF MarkValue
  <2>2. QED
    BY <1>0, <2>1, ShadeInside
<1> QED
  BY <1>1, <1>2

\* An upvalue marks its value.
LEMMA MarkObjectInside ==
  ASSUME NEW S, ClosedSet(S), 0 \notin Obj, NEW m, NEW x, Inside(m, x, S), NEW o \in S \cup {0}
  PROVE  Inside(m, MarkObject(x, o), S)
<1>0. S \subseteq Obj
  BY DEF ClosedSet
<1>1. CASE o # 0 /\ Is(o, "upval") /\ x.colour[o] \in Whites
  <2>1. PICK y : y = IF Open(o) THEN Shade(x, o) ELSE Blacken(x, o)
    OBVIOUS
  <2>2. MarkObject(x, o) = MarkValue(y, ValueOf(o))
    BY <1>1, <2>1 DEF MarkObject
  <2>3. o \in S /\ ValueOf(o) \in S \cup {0}
    BY <1>1 DEF ClosedSet
  <2>4. Inside(m, Shade(x, o), S)
    BY <1>0, <2>3, ShadeInside
  <2>5. Inside(m, Blacken(x, o), S)
    BY <1>0, <2>3, BlackenInside
  <2>6. Inside(m, y, S)
    BY <2>1, <2>4, <2>5
  <2>7. QED
    BY <2>2, <2>3, <2>6, MarkValueInside
<1>2. CASE ~(o # 0 /\ Is(o, "upval") /\ x.colour[o] \in Whites)
  <2>1. MarkObject(x, o) = MarkValue(x, o)
    BY <1>2 DEF MarkObject
  <2>2. QED
    BY <2>1, MarkValueInside
<1> QED
  BY <1>1, <1>2

\* Marking objects of the set.
LEMMA MarkAllInside ==
  ASSUME NEW S, ClosedSet(S), 0 \notin Obj, NEW m \in MarksType, NEW os \in Seq(S \cup {0})
  PROVE  Inside(m, MarkAll(m, os), S)
<1>1. PICK I : I = {e \in Nat \X MarksType : Inside(m, e[2], S)}
  OBVIOUS
<1>2. Inside(m, m, S)
  BY DEF Inside
<1>3. <<0, m>> \in I
  BY <1>1, <1>2
<1>4. ASSUME NEW i \in 1..Len(os), NEW x, <<i - 1, x>> \in I PROVE <<i, MarkObject(x, os[i])>> \in I
  <2>1. Inside(m, x, S)
    BY <1>1, <1>4
  <2>2. os[i] \in S \cup {0}
    OBVIOUS
  <2>3. Inside(m, MarkObject(x, os[i]), S)
    BY <2>1, <2>2, MarkObjectInside
  <2>4. MarkObject(x, os[i]) \in MarksType /\ i \in Nat
    BY <2>3 DEF Inside
  <2>5. QED
    BY <1>1, <2>3, <2>4
<1>5. <<Len(os), MarkAll(m, os)>> \in I
  BY <1>3, <1>4, MarkAllInduct
<1> QED
  BY <1>1, <1>5

\* Closing upvalues, none of them gray outside the set.
LEMMA CloseAllInside ==
  ASSUME NEW S, ClosedSet(S), 0 \notin Obj, NEW m \in MarksType, NEW us \in Seq(OfKind("upval")),
         \A o \in Obj \ S : m.colour[o] # "gray", currentwhite \in Colours
  PROVE  Inside(m, CloseAll(m, us), S)
<1>1. PICK I : I = {e \in Nat \X MarksType : Inside(m, e[2], S)}
  OBVIOUS
<1>2. Inside(m, m, S)
  BY DEF Inside
<1>3. <<0, m>> \in I
  BY <1>1, <1>2
<1>4. ASSUME NEW i \in 1..Len(us), NEW x, <<i - 1, x>> \in I PROVE <<i, Closed(x, us[i])>> \in I
  <2>1. Inside(m, x, S)
    BY <1>1, <1>4
  <2>2. PICK u : u = us[i]
    OBVIOUS
  <2>3. u \in OfKind("upval")
    BY <2>2
  <2>4. u \in Obj /\ Is(u, "upval")
    BY <2>3 DEF OfKind
  <2>5. Inside(m, Closed(x, u), S)
    <3>1. CASE x.colour[u] # "gray"
      <4>1. Closed(x, u) = x
        BY <3>1 DEF Closed
      <4>2. QED
        BY <2>1, <4>1
    <3>2. CASE x.colour[u] = "gray"
      <4>1. u \in S
        BY <2>1, <2>4, <3>2 DEF Inside
      <4>2. ValueOf(u) \in S \cup {0} /\ S \subseteq Obj
        BY <2>4, <4>1 DEF ClosedSet
      <4>3. CASE gcstate = "propagate"
        <5>1. PICK y : y = Blacken(x, u)
          OBVIOUS
        <5>2. Inside(m, y, S)
          BY <2>1, <4>1, <4>2, <5>1, BlackenInside
        <5>3. Inside(m, MarkObject(y, ValueOf(u)), S)
          BY <4>2, <5>2, MarkObjectInside
        <5>4. Closed(x, u) = MarkObject(y, ValueOf(u))
          BY <3>2, <4>3, <5>1 DEF Closed
        <5>5. QED
          BY <5>3, <5>4
      <4>4. CASE gcstate # "propagate"
        <5>1. PICK y : y = [x EXCEPT !.colour[u] = currentwhite]
          OBVIOUS
        <5>2. x \in [colour : [Obj -> Colours], gray : Seq(Obj)] /\ \A p \in Obj \ S : x.colour[p] = m.colour[p]
          BY <2>1 DEF Inside, MarksType
        <5>3. y.colour = [x.colour EXCEPT ![u] = currentwhite] /\ y.gray = x.gray
              /\ y = [colour |-> y.colour, gray |-> y.gray]
          BY <5>1, <5>2
        <5>4. y.colour \in [Obj -> Colours] /\ \A p \in Obj : p # u => y.colour[p] = x.colour[p]
          BY <2>4, <5>2, <5>3
        <5>5. y \in MarksType
          BY <5>2, <5>3, <5>4 DEF MarksType
        <5>6. Inside(m, y, S)
          BY <4>1, <5>2, <5>4, <5>5 DEF Inside
        <5>7. Closed(x, u) = y
          BY <3>2, <4>4, <5>1 DEF Closed
        <5>8. QED
          BY <5>6, <5>7
      <4>5. QED
        BY <4>3, <4>4
    <3>3. QED
      BY <3>1, <3>2
  <2>6. Closed(x, u) \in MarksType /\ i \in Nat
    BY <2>5 DEF Inside
  <2>7. QED
    BY <1>1, <2>2, <2>5, <2>6
<1>5. <<Len(us), CloseAll(m, us)>> \in I
  BY <1>3, <1>4, CloseAllInduct
<1> QED
  BY <1>1, <1>5

\* Some references that are always kept.
RefsThere ==
  /\ \A th \in OfKind("thread") : \A s \in Slots(th) : stack[th][s] \in KeptRefs(th)
  /\ \A o \in Obj : Is(o, "udata") => ref[o].meta \in KeptRefs(o)
  /\ \A c \in Obj : Is(c, "lclosure") => ref[c].val \in KeptRefs(c)
  /\ \A u \in Obj : Is(u, "upval") => ValueOf(u) \in KeptRefs(u)
\* They are there in every state.
LEMMA RefsThereNow ==
  ASSUME IInv
  PROVE  RefsThere
<1>1. ASSUME NEW o \in Obj, Is(o, "udata") \/ Is(o, "lclosure") PROVE {ref[o].val, ref[o].meta} \subseteq KeptRefs(o)
  <2>1. ~Is(o, "thread") /\ ~Is(o, "table") /\ ~Is(o, "upval")
    BY <1>1 DEF Is
  <2>2. StrongRefs(o) = {ref[o].key, ref[o].val, ref[o].meta}
    BY <2>1 DEF StrongRefs, Refs
  <2>3. QED
    BY <2>2 DEF KeptRefs
<1> QED
  BY <1>1, StackRefs, UpvalRefs DEF RefsThere
\* In the next state too.
LEMMA RefsThereNext == IInv' => RefsThere'
<1>1. IInv => RefsThere
  BY RefsThereNow
<1> QED
  BY <1>1, PTL

\* What is kept, and what is not old garbage, are closed.
LEMMA KeepsClosedSet ==
  ASSUME IInv
  PROVE  ClosedSet(Keeps)
<1>1. KeptClosed /\ RefsThere
  BY KeptClosedNow, RefsThereNow
<1> QED
  BY <1>1 DEF KeptClosed, RefsThere, ClosedSet
\* So it is in the next state.
LEMMA KeepsSetNext == IInv' => ClosedSet(Keeps)'
<1>1. IInv => ClosedSet(Keeps)
  BY KeepsClosedSet
<1> QED
  BY <1>1, PTL
\* And by the references of this state, if the step does not write them.
LEMMA KeepsClosedNext ==
  ASSUME IInv', UNCHANGED <<shape, ref, at, stack>>
  PROVE  ClosedSet(Keeps')
<1>2. ClosedSet(Keeps)'
  BY KeepsSetNext
<1>3. Obj' = Obj /\ (\A u : Is(u, "udata")' = Is(u, "udata") /\ Is(u, "upval")' = Is(u, "upval"))
  BY DEF Obj, Is
<1>4. \A u : ValueOf(u)' = ValueOf(u)
  BY DEF ValueOf, Open
<1> QED
  BY <1>2, <1>3, <1>4 DEF ClosedSet
\* What is not old garbage refers to nothing of it.
LEMMA NotOldClosed ==
  ASSUME IInv, OldInv
  PROVE  ClosedSet(Obj \ old)
<1> SUFFICES ASSUME NEW u \in Obj \ old
             PROVE  /\ Is(u, "udata") => ref[u].meta \in (Obj \ old) \cup {0}
                    /\ Is(u, "upval") => ValueOf(u) \in (Obj \ old) \cup {0}
  BY DEF ClosedSet
<1>1. CASE colour[u] = "free"
  <2>1. ref[u] = Nothing /\ ~Open(u)
    BY <1>1 DEF IInv, FieldsFit, OpenFit
  <2>2. QED
    BY <2>1 DEF Nothing, ValueOf
<1>2. CASE colour[u] # "free"
  <2>1. KeptRefs(u) \cap old = {}
    BY <1>2 DEF OldInv, OldClosed, Allocated
  <2>2. \A r \in KeptRefs(u) : r = 0 \/ r \in Obj
    BY KeptRefsAre
  <2>3. QED
    BY <2>1, <2>2, RefsThereNow DEF RefsThere
<1> QED
  BY <1>1, <1>2

-----------------------------------------------------------------------------
(* The program.                                                            *)
ColoursKept == full # "sweep" => \A o \in old : colour'[o] = colour[o] \/ colour'[o] = "free" \/ o \in Keeps'
\* No old garbage is marked.
LEMMA OldColoursStep ==
  ASSUME IInv, IInv', OldInv, shape' = shape, currentwhite' = currentwhite, full' = full,
         gcstate' = gcstate \/ (gcstate = "sweepstring" /\ gcstate' = "sweep"),
         OldKept, ColoursKept
  PROVE  OldColours'
<1>1. Garbage' = {o \in Obj : colour'[o] # "free"} \ Keeps'
  BY DEF Garbage, Keeps, Allocated, Obj
<1>2. \A o \in old' : o \in old /\ colour'[o] # "free" /\ o \notin Keeps'
  BY <1>1 DEF OldKept
<1>3. full # "sweep" => \A o \in old' : o \in old /\ colour'[o] = colour[o]
  BY <1>2 DEF ColoursKept
<1>4. \A o : IsWhite(o)' <=> colour'[o] \in Whites
  BY DEF IsWhite, Whites
<1>5. \A o : IsDead(o)' <=> colour'[o] = Other(currentwhite)
  BY DEF IsDead, Other
<1>6. CASE full = "sweep"
  BY <1>6 DEF OldColours
<1>7. CASE full # "sweep"
  <2>1. /\ gcstate = "propagate" => \A o \in old : IsWhite(o)
        /\ gcstate \in {"sweepstring", "sweep"} => \A o \in old : IsDead(o)
        /\ gcstate \in {"pause", "finalize"} => old = {}
    BY <1>7 DEF OldInv, OldColours
  <2>2. gcstate' = "propagate" => \A o \in old' : IsWhite(o)'
    BY <1>3, <1>4, <1>7, <2>1 DEF IsWhite
  <2>3. gcstate' \in {"sweepstring", "sweep"} => \A o \in old' : IsDead(o)'
    BY <1>3, <1>5, <1>7, <2>1 DEF IsDead
  <2>4. gcstate' \in {"pause", "finalize"} => old' = {}
    BY <1>3, <1>7, <2>1
  <2>5. QED
    BY <2>2, <2>3, <2>4 DEF OldColours
<1> QED
  BY <1>6, <1>7

\* An upvalue that is closed keeps its value.
Same(y) == ref'[y] = ref[y] /\ at'[y] = at[y] /\ (colour'[y] # "free" => colour[y] # "free")
Shut(y) == Is(y, "upval") /\ at'[y] = <<>> /\ ref'[y].val = ValueOf(y) /\ colour[y] # "free"
\* Objects that are kept, freed, not written, or closed.
LEMMA HeapStep ==
  ASSUME IInv, IInv', shape' = shape, StackKept,
         \A y \in Obj : y \in Keeps' \/ colour'[y] = "free" \/ Same(y) \/ Shut(y)
  PROVE  RefsKept
<1> SUFFICES ASSUME NEW y \in Obj, colour'[y] # "free", y \notin Keeps'
             PROVE  colour[y] # "free" /\ \A r \in KeptRefs(y)' : r = 0 \/ r \in Keeps' \/ r \in KeptRefs(y)
  BY DEF RefsKept
<1>1. CASE Same(y)
  <2>1. ref'[y] = ref[y] /\ at'[y] = at[y] /\ colour[y] # "free"
    BY <1>1 DEF Same
  <2>2. QED
    BY <2>1, HeapRefs
<1>2. CASE Shut(y)
  <2>1. Is(y, "upval") /\ at'[y] = <<>> /\ ref'[y].val = ValueOf(y) /\ colour[y] # "free"
    BY <1>2 DEF Shut
  <2>2. KeptRefs(y) = {ValueOf(y)}
    BY <2>1, UpvalRefs
  <2>3. KeptRefs(y)' = {ValueOf(y)'}
    <3>1. Obj' = Obj /\ Is(y, "upval")'
      BY <2>1 DEF Obj, Is
    <3>2. QED
      BY <3>1, UpvalRefsNext DEF UpvalsFit
  <2>4. ValueOf(y)' = ref'[y].val
    BY <2>1 DEF ValueOf, Open
  <2>5. QED
    BY <2>1, <2>2, <2>3, <2>4
<1> QED
  BY <1>1, <1>2

\* Steps that do not start a collection.
LEMMA RememberKept ==
  ASSUME Remember, gcstate' = "propagate" => gcstate = "propagate"
  PROVE  OldKept
BY DEF Remember, OldKept
\* A step of the program that keeps the three parts.
LEMMA ProgramStep ==
  ASSUME IInv, IInv', OldInv, OpFrame, Remember, StackKept, ColoursKept,
         \A y \in Obj : y \in Keeps' \/ colour'[y] = "free" \/ Same(y) \/ Shut(y)
  PROVE  OldInv'
<1>1. shape' = shape /\ currentwhite' = currentwhite /\ full' = full /\ gcstate' = gcstate
  BY DEF OpFrame
<1>2. OldKept
  BY <1>1, RememberKept
<1>3. RefsKept
  BY <1>1, HeapStep
<1>4. (old \subseteq Garbage)' /\ OldClosed'
  BY <1>1, <1>2, <1>3, OldStep
<1>5. OldColours'
  BY <1>1, <1>2, OldColoursStep
<1> QED
  BY <1>4, <1>5 DEF OldInv

\* What is on the stack of the thread that runs, or of the main thread, is kept.
LEMMA OnStackKept ==
  ASSUME IInv', shape' = shape, NEW th \in OfKind("thread"), th \in {Main, running'}, NEW s \in Slots(th)
  PROVE  stack'[th][s] = 0 \/ stack'[th][s] \in Keeps'
<1>1. KeptClosed' /\ RefsThere'
  BY KeptClosedNext, RefsThereNext
<1>2. OfKind("thread")' = OfKind("thread") /\ Slots(th)' = Slots(th) /\ Main' = Main /\ 0 \notin OfKind("thread")
  BY <1>1 DEF OfKind, Is, Obj, Slots, Main, KeptClosed
<1>3. th \in Roots'
  BY <1>2 DEF Roots
<1>4. th \in Keeps'
  BY <1>1, <1>3 DEF KeptClosed
<1>5. stack'[th][s] \in KeptRefs(th)'
  BY <1>1, <1>2 DEF RefsThere
<1> QED
  BY <1>1, <1>4, <1>5 DEF KeptClosed

\* What the program holds before a step that does not drop it.
LEMMA HeldKept ==
  ASSUME IInv, IInv', shape' = shape, running' = running, arg' = arg, NEW v \in Held,
         \A s \in Slots(running) : stack[running][s] = v => stack'[running][s] = v
  PROVE  v = 0 \/ v \in Keeps'
<1>1. KeptClosed'
  BY KeptClosedNext
<1>2. CASE v \in {Globals, arg}
  <2>1. v = 0 \/ v \in Roots'
    BY <1>2 DEF Roots, Globals
  <2>2. QED
    BY <1>1, <2>1 DEF KeptClosed
<1>3. CASE v \in Range(stack[running])
  <2>1. running \in OfKind("thread") /\ stack[running] \in [Slots(running) -> Obj0]
    BY DEF IInv, TypeOK
  <2>2. PICK s \in Slots(running) : stack[running][s] = v
    BY <1>3, <2>1 DEF Range
  <2>3. stack'[running][s] = v
    BY <2>2
  <2>4. QED
    BY <2>1, <2>3, OnStackKept
<1> QED
  BY <1>2, <1>3 DEF Held
\* What the program holds is not old garbage.
LEMMA HeldNow ==
  ASSUME IInv, OldInv, NEW v \in Held
  PROVE  v = 0 \/ v \in Obj \ old
<1>1. KeptClosed /\ RefsThere
  BY KeptClosedNow, RefsThereNow
<1>2. running \in OfKind("thread") /\ stack[running] \in [Slots(running) -> Obj0] /\ running # 0
  BY RunningIs, ShapeIs DEF IInv, TypeOK
<1>3. v = 0 \/ v \in Keeps
  <2>1. CASE v \in {Globals, arg}
    BY <1>1, <2>1 DEF Roots, KeptClosed
  <2>2. CASE v \in Range(stack[running])
    <3>1. PICK s \in Slots(running) : stack[running][s] = v
      BY <1>2, <2>2 DEF Range
    <3>2. v \in KeptRefs(running)
      BY <1>1, <1>2, <3>1 DEF RefsThere
    <3>3. running \in Keeps
      BY <1>1, <1>2 DEF Roots, KeptClosed
    <3>4. QED
      BY <1>1, <3>2, <3>3 DEF KeptClosed
  <2>3. QED
    BY <2>1, <2>2 DEF Held
<1>4. \A o \in old : o \notin Keeps
  BY DEF OldInv, Garbage, Keeps
<1> QED
  BY <1>1, <1>3, <1>4 DEF KeptClosed

\* What is put on the stack that runs is kept.
LEMMA PutKept ==
  ASSUME IInv, IInv', shape' = shape, running' = running, NEW s \in Slots(running), NEW n, Put(s, n)
  PROVE  StackKept /\ (n = 0 \/ n \in Keeps')
<1>1. /\ DOMAIN stack = OfKind("thread") /\ running \in OfKind("thread")
      /\ \A th \in OfKind("thread") : stack[th] \in [Slots(th) -> Obj0]
  BY DEF IInv, TypeOK
<1>2. stack' = [stack EXCEPT ![running][s] = n]
  BY DEF Put
<1>3. /\ stack'[running][s] = n
      /\ \A l \in Slots(running) : l # s => stack'[running][l] = stack[running][l]
      /\ \A th \in OfKind("thread") : th # running => stack'[th] = stack[th]
  BY <1>1, <1>2
<1>4. n = 0 \/ n \in Keeps'
  BY <1>1, <1>3, OnStackKept
<1>5. ASSUME NEW th \in OfKind("thread"), NEW l \in Slots(th)
      PROVE  stack'[th][l] = stack[th][l] \/ stack'[th][l] = 0 \/ stack'[th][l] \in Keeps'
  BY <1>3, <1>4
<1> QED
  BY <1>4, <1>5 DEF StackKept

\* A step that puts something on the stack that runs.
LEMMA PutStep ==
  ASSUME IInv, IInv', OldInv, OpFrame, Remember, running' = running, NEW s \in Slots(running), NEW n, Put(s, n),
         \A y \in Obj : y \in Keeps' \/ (ref'[y] = ref[y] /\ at'[y] = at[y] /\ colour'[y] = colour[y])
  PROVE  OldInv'
<1>1. shape' = shape
  BY DEF OpFrame
<1>2. StackKept
  BY <1>1, PutKept
<1>3. old \subseteq Obj
  BY DEF OldInv, Garbage, Allocated
<1>4. ColoursKept
  BY <1>3 DEF ColoursKept
<1>5. \A y \in Obj : y \in Keeps' \/ colour'[y] = "free" \/ Same(y) \/ Shut(y)
  BY DEF Same
<1> QED
  BY <1>2, <1>4, <1>5, ProgramStep

\* One new object, put on the stack.
LEMMA FreshStep ==
  ASSUME IInv, IInv', OldInv, OpFrame, Remember, running' = running, NEW s \in Slots(running), NEW n \in Obj, Put(s, n),
         NEW r, LinkAs(n, r), at' = at
  PROVE  OldInv'
<1>1. shape' = shape /\ n # 0
  BY ShapeIs DEF OpFrame, IInv
<1>2. n \in Keeps'
  BY <1>1, PutKept
<1>3. DOMAIN colour = Obj /\ DOMAIN ref = Obj
  BY DEF IInv, TypeOK
<1>4. \A y \in Obj : y # n => colour'[y] = colour[y] /\ ref'[y] = ref[y]
  BY <1>3 DEF LinkAs
<1>5. \A y \in Obj : y \in Keeps' \/ (ref'[y] = ref[y] /\ at'[y] = at[y] /\ colour'[y] = colour[y])
  BY <1>2, <1>4
<1> QED
  BY <1>5, PutStep

\* A new table or thread.
LEMMA NewOld ==
  ASSUME IInv, IInv', OldInv, OpFrame, Remember, NEW s \in Slots(running), New(s)
  PROVE  OldInv'
<1>1. PICK k \in {"table", "thread"} : Fresh(k) # {} /\ luaC_link(NewOf(k), Nothing) /\ Put(s, NewOf(k))
  BY DEF New
<1>2. at' = at /\ running' = running
  BY DEF New
<1>3. PICK n : n = NewOf(k)
  OBVIOUS
<1>4. n \in Obj
  BY <1>1, <1>3, NewIs
<1>5. LinkAs(n, Nothing) /\ Put(s, n)
  BY <1>1, <1>3 DEF luaC_link
<1> QED
  BY <1>2, <1>4, <1>5, FreshStep

\* A new userdata.
LEMMA NewUdataOld ==
  ASSUME IInv, IInv', OldInv, OpFrame, Remember, NEW s \in Slots(running), NewUdata(s)
  PROVE  OldInv'
<1>1. PICK n : n = NewOf("udata")
  OBVIOUS
<1>2. n \in Obj
  BY <1>1, NewIs DEF NewUdata
<1>3. LinkAs(n, Nothing) /\ Put(s, n) /\ at' = at /\ running' = running
  BY <1>1 DEF NewUdata
<1> QED
  BY <1>2, <1>3, FreshStep

\* A new C closure.
LEMMA NewCclosureOld ==
  ASSUME IInv, IInv', OldInv, OpFrame, Remember, NEW s \in Slots(running), NEW v, NewCclosure(s, v)
  PROVE  OldInv'
<1>1. PICK n : n = NewOf("cclosure")
  OBVIOUS
<1>2. n \in Obj
  BY <1>1, NewIs DEF NewCclosure
<1>3. PICK r : r = [Nothing EXCEPT !.val = v]
  OBVIOUS
<1>4. LinkAs(n, r) /\ Put(s, n) /\ at' = at /\ running' = running
  BY <1>1, <1>3 DEF NewCclosure, luaC_link
<1> QED
  BY <1>2, <1>4, FreshStep

\* A string made, or found again.
LEMMA StringOld ==
  ASSUME IInv, IInv', OldInv, OpFrame, Remember, NEW s \in Slots(running), NEW o \in OfKind("string"), luaS_newlstr(s, o)
  PROVE  OldInv'
<1>1. shape' = shape /\ o # 0 /\ o \in Obj
  BY ShapeIs DEF OpFrame, IInv, OfKind
<1>2. ref' = ref /\ at' = at /\ running' = running /\ Put(s, o)
      /\ colour' = (IF colour[o] = "free" THEN [colour EXCEPT ![o] = currentwhite] ELSE Changewhite(o))
  BY DEF luaS_newlstr
<1>3. o \in Keeps'
  BY <1>1, <1>2, PutKept
<1>4. DOMAIN colour = Obj
  BY DEF IInv, TypeOK
<1>5. \A y \in Obj : y # o => colour'[y] = colour[y]
  BY <1>2, <1>4 DEF Changewhite
<1>6. \A y \in Obj : y \in Keeps' \/ (ref'[y] = ref[y] /\ at'[y] = at[y] /\ colour'[y] = colour[y])
  BY <1>2, <1>3, <1>5
<1> QED
  BY <1>2, <1>6, PutStep

\* A new Lua closure.
LEMMA NewLclosureOld ==
  ASSUME IInv, IInv', OldInv, OpFrame, Remember, NEW s \in Slots(running), NEW l \in Slots(running), NewLclosure(s, l)
  PROVE  OldInv'
<1> DEFINE us == UpvalsAt(running, l)
<1>1. PICK c \in {NewOf("lclosure")}, u \in IF us # {} THEN us ELSE Fresh("upval") :
       /\ us = {} => u = NewOf("upval")
       /\ colour' = IF us = {} THEN [colour EXCEPT ![c] = currentwhite, ![u] = currentwhite]
                    ELSE [Changewhite(u) EXCEPT ![c] = currentwhite]
       /\ ref' = [ref EXCEPT ![c] = [Nothing EXCEPT !.val = u]]
       /\ at' = [at EXCEPT ![u] = <<running, l>>]
       /\ rootgc' = <<c>> \o rootgc
       /\ Put(s, c)
  BY DEF NewLclosure
<1>2. running' = running /\ Fresh("lclosure") # {} /\ shape' = shape
  BY DEF NewLclosure, OpFrame
<1>3. c \in Obj /\ Is(c, "lclosure")
  BY <1>1, <1>2, NewIs
<1>4. us = {} => u \in Obj
  BY <1>1, NewIs
<1>5. us # {} => u \in Obj
  BY <1>1 DEF UpvalsAt, OfKind
<1>6. u \in Obj /\ u # 0 /\ c # 0
  BY <1>3, <1>4, <1>5, ShapeIs DEF IInv
<1>7. DOMAIN colour = Obj /\ DOMAIN at = Obj /\ ref \in [Obj -> [key : Obj0, val : Obj0, meta : Obj0]]
  BY DEF IInv, TypeOK
<1> HIDE DEF us
<1>8. \A y \in Obj : y # c /\ y # u => colour'[y] = colour[y] /\ at'[y] = at[y] /\ ref'[y] = ref[y]
  BY <1>1, <1>6, <1>7 DEF Changewhite
<1>9. c \in Keeps'
  BY <1>1, <1>2, <1>6, PutKept
<1>10. u \in Keeps'
  <2>1. ref'[c].val = u
    <3>1. PICK r : r = [Nothing EXCEPT !.val = u]
      OBVIOUS
    <3>2. r.val = u
      BY <3>1 DEF Nothing
    <3>3. ref'[c] = r
      BY <1>1, <1>3, <1>7, <3>1
    <3>4. QED
      BY <3>2, <3>3
  <2>2. Obj' = Obj /\ Is(c, "lclosure")'
    BY <1>2, <1>3 DEF Obj, Is
  <2>3. ref'[c].val \in KeptRefs(c)'
    BY <1>3, <2>2, RefsThereNext DEF RefsThere
  <2>4. KeptClosed'
    BY KeptClosedNext
  <2>5. QED
    BY <1>6, <1>9, <2>1, <2>3, <2>4 DEF KeptClosed
<1>11. \A y \in Obj : y \in Keeps' \/ (ref'[y] = ref[y] /\ at'[y] = at[y] /\ colour'[y] = colour[y])
  BY <1>8, <1>9, <1>10
<1> QED
  BY <1>1, <1>2, <1>11, PutStep

\* A read.
LEMMA LoadOld ==
  ASSUME IInv, IInv', OldInv, OpFrame, Remember, NEW s \in Slots(running), NEW o, NEW v, Load(s, o, v)
  PROVE  OldInv'
<1>1. ref' = ref /\ at' = at /\ colour' = colour /\ running' = running /\ Put(s, v)
  BY DEF Load
<1> QED
  BY <1>1, PutStep

-----------------------------------------------------------------------------
\* Steps that change only the stacks, and which thread runs.
LEMMA StackStep ==
  ASSUME IInv, IInv', OldInv, OpFrame, Remember, UNCHANGED <<colour, ref, at>>, StackKept
  PROVE  OldInv'
<1>1. \A y \in Obj : Same(y)
  BY DEF Same
<1>2. ColoursKept
  BY DEF ColoursKept
<1> QED
  BY <1>1, <1>2, ProgramStep
\* A value moved to another thread.
LEMMA XmoveOld ==
  ASSUME IInv, IInv', OldInv, OpFrame, Remember, NEW th, NEW v \in Values, Xmove(th, v)
  PROVE  OldInv'
<1>1. UNCHANGED <<colour, ref, at>> /\ running' = running /\ arg' = arg /\ th \in OfKind("thread") /\ th # running /\ v # 0
  BY DEF Xmove
<1>2. PICK s \in Slots(th) : stack' = [stack EXCEPT ![th][s] = v]
  BY DEF Xmove
<1>3. /\ DOMAIN stack = OfKind("thread") /\ running \in OfKind("thread")
      /\ \A h \in OfKind("thread") : stack[h] \in [Slots(h) -> Obj0]
  BY DEF IInv, TypeOK
<1>4. /\ stack'[th][s] = v /\ stack'[running] = stack[running]
      /\ \A l \in Slots(th) : l # s => stack'[th][l] = stack[th][l]
      /\ \A h \in OfKind("thread") : h # th => stack'[h] = stack[h]
  BY <1>1, <1>2, <1>3
<1>5. v \in Held /\ shape' = shape
  BY <1>1 DEF Values, OpFrame
<1>6. v \in Keeps'
  BY <1>1, <1>4, <1>5, HeldKept
<1>7. ASSUME NEW h \in OfKind("thread"), NEW l \in Slots(h)
      PROVE  stack'[h][l] = stack[h][l] \/ stack'[h][l] = 0 \/ stack'[h][l] \in Keeps'
  BY <1>4, <1>6
<1>8. StackKept
  BY <1>7 DEF StackKept
<1> QED
  BY <1>1, <1>8, StackStep
\* The stacks are not written.
LEMMA SameStack ==
  ASSUME stack' = stack
  PROVE  StackKept
BY DEF StackKept
\* A thread is resumed.
LEMMA ResumeOld ==
  ASSUME IInv, IInv', OldInv, OpFrame, Remember, NEW th, Resume(th)
  PROVE  OldInv'
<1>1. UNCHANGED <<colour, ref, at>> /\ stack' = stack
  BY DEF Resume
<1> QED
  BY <1>1, SameStack, StackStep
\* A finalizer returns.
LEMMA FinalizedOld ==
  ASSUME IInv, IInv', OldInv, OpFrame, Remember, Finalized
  PROVE  OldInv'
<1>1. UNCHANGED <<colour, ref, at>> /\ stack' = stack
  BY DEF Finalized
<1> QED
  BY <1>1, SameStack, StackStep
\* A thread yields.
LEMMA YieldOld ==
  ASSUME IInv, IInv', OldInv, OpFrame, Remember, Yield
  PROVE  OldInv'
<1>1. UNCHANGED <<colour, ref, at>>
  BY DEF Yield
<1>2. CASE stack' = stack
  BY <1>1, <1>2, SameStack, StackStep
<1>3. CASE stack' # stack
  <2>1. PICK v \in Values \ {0}, s \in Slots(Main) : stack' = [stack EXCEPT ![Main][s] = v]
    BY <1>3 DEF Yield
  <2>2. /\ DOMAIN stack = OfKind("thread") /\ Main \in OfKind("thread")
        /\ \A h \in OfKind("thread") : stack[h] \in [Slots(h) -> Obj0]
    BY MainIs DEF IInv, TypeOK
  <2>3. /\ \A l \in Slots(Main) : l # s => stack'[Main][l] = stack[Main][l]
        /\ \A h \in OfKind("thread") : h # Main => stack'[h] = stack[h]
    BY <2>1, <2>2
  <2>4. shape' = shape
    BY DEF OpFrame
  <2>5. \A l \in Slots(Main) : stack'[Main][l] = 0 \/ stack'[Main][l] \in Keeps'
    BY <2>2, <2>4, OnStackKept
  <2>6. StackKept
    BY <2>3, <2>5 DEF StackKept
  <2>7. QED
    BY <1>1, <2>6, StackStep
<1> QED
  BY <1>2, <1>3

-----------------------------------------------------------------------------
\* Stores.
LEMMA MarksTyped ==
  ASSUME IInv
  PROVE  Marks \in MarksType /\ Marks.colour = colour /\ 0 \notin Obj /\ currentwhite \in Colours
<1>1. colour \in [Obj -> Colours] /\ gray \in Seq(Obj) /\ 0 \notin Obj /\ currentwhite \in Colours
  BY ShapeIs DEF IInv, TypeOK, Colours
<1> QED
  BY <1>1 DEF Marks, MarksType
\* A barrier marks only what is not old garbage.
LEMMA BarrierOld ==
  ASSUME IInv, OldInv, NEW o \in Obj, o \in Keeps' \/ colour[o] # "black", NEW v \in (Obj \ old) \cup {0},
         luaC_barrier(o, v)
  PROVE  ColoursKept
<1>1. old \subseteq Obj
  BY DEF OldInv, Garbage, Allocated
<1> SUFFICES ASSUME NEW x \in old, x \notin Keeps' PROVE colour'[x] = colour[x]
  BY DEF ColoursKept
<1>2. CASE ~MustMark(o, v)
  BY <1>2 DEF luaC_barrier
<1>3. CASE MustMark(o, v) /\ gcstate = "propagate"
  <2>1. colour' = MarkObject(Marks, v).colour
    BY <1>3 DEF luaC_barrier, SetMarks
  <2>2. PICK S : S = Obj \ old
    OBVIOUS
  <2>3. ClosedSet(S)
    BY <2>2, NotOldClosed
  <2>4. Marks \in MarksType /\ Marks.colour = colour /\ 0 \notin Obj
    BY MarksTyped
  <2>5. Inside(Marks, Marks, S)
    BY <2>4 DEF Inside
  <2>6. v \in S \cup {0}
    BY <2>2
  <2>7. Inside(Marks, MarkObject(Marks, v), S)
    BY <2>3, <2>4, <2>5, <2>6, MarkObjectInside
  <2>8. x \in Obj \ S
    BY <1>1, <2>2
  <2>9. QED
    BY <2>1, <2>4, <2>7, <2>8 DEF Inside
<1>4. CASE MustMark(o, v) /\ gcstate # "propagate"
  <2>1. colour' = [colour EXCEPT ![o] = currentwhite] /\ o \in Keeps'
    BY <1>4 DEF luaC_barrier, MustMark
  <2>2. DOMAIN colour = Obj
    BY DEF IInv, TypeOK
  <2>3. QED
    BY <1>1, <2>1, <2>2
<1> QED
  BY <1>2, <1>3, <1>4

\* A store into an object that is held.
LEMMA StoreStep ==
  ASSUME IInv, IInv', OldInv, OpFrame, Remember, NEW o \in Obj, o \in Keeps', at' = at, stack' = stack,
         \A y \in Obj : y # o => ref'[y] = ref[y],
         \A y \in Obj : colour'[y] # "free" => colour[y] # "free", ColoursKept
  PROVE  OldInv'
<1>1. StackKept
  BY SameStack
<1>2. \A y \in Obj : y \in Keeps' \/ Same(y)
  BY DEF Same
<1> QED
  BY <1>1, <1>2, ProgramStep

\* A step keeps what is free free, when it may only colour.
LEMMA BarrierFree ==
  ASSUME IInv, NEW o \in Obj, NEW v \in Obj0, luaC_barrier(o, v), NEW y \in Obj, colour[y] = "free"
  PROVE  colour'[y] = "free"
<1>1. DOMAIN colour = Obj /\ "free" \notin Whites
  BY DEF IInv, TypeOK, Whites
<1>2. CASE ~MustMark(o, v)
  BY <1>2 DEF luaC_barrier
<1>3. CASE MustMark(o, v) /\ gcstate = "propagate"
  <2>1. SetMarks(MarkObject(Marks, v))
    BY <1>3 DEF luaC_barrier
  <2>2. Recoloured
    BY <1>3, <2>1, ForwardRecoloured
  <2>3. QED
    BY <2>2 DEF Recoloured
<1>4. CASE MustMark(o, v) /\ gcstate # "propagate"
  <2>1. colour' = [colour EXCEPT ![o] = currentwhite] /\ colour[o] = "black"
    BY <1>4 DEF luaC_barrier, MustMark
  <2>2. QED
    BY <1>1, <2>1
<1> QED
  BY <1>2, <1>3, <1>4

\* What the program holds it still holds.
LEMMA HeldStays ==
  ASSUME IInv, IInv', OpFrame, UNCHANGED <<stack, running, arg>>, NEW v \in Held
  PROVE  v = 0 \/ v \in Keeps'
<1>1. shape' = shape
  BY DEF OpFrame
<1> QED
  BY <1>1, HeldKept

\* An assignment to a table.
LEMMA SetEntryOld ==
  ASSUME IInv, IInv', OldInv, OpFrame, Remember, NEW t \in Held, NEW k, NEW v, SetEntry(t, k, v)
  PROVE  OldInv'
<1>1. /\ UNCHANGED <<stack, running, arg>> /\ at' = at /\ t \in Obj /\ t # 0
      /\ ref' = [ref EXCEPT ![t] = [key |-> k, val |-> v, meta |-> ref[t].meta]]
  BY ShapeIs DEF SetEntry, program, OfKind, IInv
<1>2. \E vs : luaC_barriert(t, vs)
  BY DEF SetEntry
<1>3. PICK vs : luaC_barriert(t, vs)
  BY <1>2
<1>4. DOMAIN colour = Obj /\ DOMAIN ref = Obj /\ old \subseteq Obj
  BY DEF IInv, TypeOK, OldInv, Garbage, Allocated
<1>5. t \in Keeps'
  BY <1>1, HeldStays
<1>6. colour' = colour \/ (colour' = [colour EXCEPT ![t] = "gray"] /\ colour[t] = "black")
  BY <1>3 DEF luaC_barriert, luaC_barrierback, MustMark
<1>7. \A y \in Obj : /\ y # t => colour'[y] = colour[y] /\ ref'[y] = ref[y]
                     /\ colour'[y] # "free" => colour[y] # "free"
  BY <1>1, <1>4, <1>6
<1>8. ColoursKept
  BY <1>4, <1>5, <1>7 DEF ColoursKept
<1> QED
  BY <1>1, <1>5, <1>7, <1>8, StoreStep

\* A metatable is set.
LEMMA SetMetatableOld ==
  ASSUME IInv, IInv', OldInv, OpFrame, Remember, NEW o \in Held, NEW mt \in Held, SetMetatable(o, mt)
  PROVE  OldInv'
<1>1. /\ UNCHANGED <<stack, running, arg>> /\ at' = at /\ o # 0
      /\ ref' = [ref EXCEPT ![o].meta = mt]
  BY DEF SetMetatable, program
<1>2. o \in Obj
  BY <1>1, HeldNow
<1>3. mt \in (Obj \ old) \cup {0}
  BY HeldNow
<1>4. DOMAIN colour = Obj /\ DOMAIN ref = Obj /\ old \subseteq Obj
  BY DEF IInv, TypeOK, OldInv, Garbage, Allocated
<1>5. o \in Keeps'
  BY <1>1, HeldStays
<1>6. \A y \in Obj : y # o => ref'[y] = ref[y]
  BY <1>1, <1>4
<1>7. CASE luaC_barriert(o, {mt})
  <2>1. colour' = colour \/ (colour' = [colour EXCEPT ![o] = "gray"] /\ colour[o] = "black")
    BY <1>7 DEF luaC_barriert, luaC_barrierback, MustMark
  <2>2. \A y \in Obj : /\ y # o => colour'[y] = colour[y]
                       /\ colour'[y] # "free" => colour[y] # "free"
    BY <1>4, <2>1
  <2>3. ColoursKept
    BY <1>4, <1>5, <2>2 DEF ColoursKept
  <2>4. QED
    BY <1>1, <1>2, <1>5, <1>6, <2>2, <2>3, StoreStep
<1>8. CASE luaC_barrier(o, mt)
  <2>1. ColoursKept
    BY <1>2, <1>3, <1>5, <1>8, BarrierOld
  <2>2. mt \in Obj0
    BY <1>3 DEF Obj0
  <2>3. \A y \in Obj : colour'[y] # "free" => colour[y] # "free"
    BY <1>2, <1>8, <2>2, BarrierFree
  <2>4. QED
    BY <1>1, <1>2, <1>5, <1>6, <2>1, <2>3, StoreStep
<1> QED
  BY <1>7, <1>8 DEF SetMetatable

\* An assignment to an upvalue.
LEMMA SetUpvalueOld ==
  ASSUME IInv, IInv', OldInv, OpFrame, Remember, NEW c \in Held, NEW v \in Values, SetUpvalue(c, v)
  PROVE  OldInv'
<1>1. running' = running /\ arg' = arg /\ at' = at /\ c # 0 /\ shape' = shape
  BY DEF SetUpvalue, OpFrame
<1>2. c \in Obj
  BY <1>1, HeldNow
<1>3. v \in (Obj \ old) \cup {0} /\ (v = 0 \/ v \in Held)
  BY HeldNow DEF Values
<1>4. v \in Obj0
  BY <1>3 DEF Obj0
<1>5. DOMAIN colour = Obj /\ DOMAIN ref = Obj /\ old \subseteq Obj
  BY DEF IInv, TypeOK, OldInv, Garbage, Allocated
<1>6. CASE Is(c, "cclosure")
  <2>1. ref' = [ref EXCEPT ![c].val = v] /\ luaC_barrier(c, v) /\ stack' = stack
    BY <1>6 DEF SetUpvalue, Is
  <2>2. c \in Keeps'
    BY <1>1, <2>1, HeldStays
  <2>3. ColoursKept
    BY <1>2, <1>3, <2>1, <2>2, BarrierOld
  <2>4. \A y \in Obj : colour'[y] # "free" => colour[y] # "free"
    BY <1>2, <1>4, <2>1, BarrierFree
  <2>5. \A y \in Obj : y # c => ref'[y] = ref[y]
    BY <1>5, <2>1
  <2>6. QED
    BY <1>1, <1>2, <2>1, <2>2, <2>3, <2>4, <2>5, StoreStep
<1>7. CASE Is(c, "lclosure")
  <2>1. PICK u : u = ref[c].val
    OBVIOUS
  <2>2. u \in KeptRefs(c)
    BY <1>2, <1>7, <2>1, RefsThereNow DEF RefsThere
  <2>3. u \in Obj /\ u # 0 /\ Is(u, "upval")
    <3>1. c = 0 \/ Living(c)
      BY HeldLives
    <3>2. colour[c] # "free"
      BY <1>1, <3>1 DEF Living, Live
    <3>3. Is(u, "upval") /\ u # 0
      BY <1>2, <1>7, <2>1, <3>2 DEF IInv, FieldsFit
    <3>4. u = 0 \/ u \in Obj
      BY <1>2, <2>2, KeptRefsAre
    <3>5. QED
      BY <3>3, <3>4
  <2>4. /\ IF Open(u) THEN /\ stack' = [stack EXCEPT ![at[u][1]][at[u][2]] = v]
                           /\ UNCHANGED ref
                      ELSE ref' = [ref EXCEPT ![u].val = v] /\ UNCHANGED stack
        /\ luaC_barrier(u, v)
    BY <1>7, <2>1 DEF SetUpvalue, Is
  <2>5. \A y \in Obj : colour'[y] # "free" => colour[y] # "free"
    BY <1>4, <2>3, <2>4, BarrierFree
  <2>6. CASE Open(u)
    <3>1. ref' = ref /\ stack' = [stack EXCEPT ![at[u][1]][at[u][2]] = v]
      BY <2>4, <2>6
    <3>2. PICK th \in OfKind("thread") : \E l \in Slots(th) : at[u] = <<th, l>>
      BY <2>3, <2>6 DEF IInv, TypeOK, Open
    <3>3. PICK l \in Slots(th) : at[u] = <<th, l>>
      BY <3>2
    <3>4. stack' = [stack EXCEPT ![th][l] = v]
      BY <3>1, <3>3
    <3>5. /\ DOMAIN stack = OfKind("thread") /\ running \in OfKind("thread")
          /\ \A h \in OfKind("thread") : stack[h] \in [Slots(h) -> Obj0]
      BY DEF IInv, TypeOK
    <3>6. /\ stack'[th][l] = v
          /\ \A i \in Slots(th) : i # l => stack'[th][i] = stack[th][i]
          /\ \A h \in OfKind("thread") : h # th => stack'[h] = stack[h]
      BY <3>4, <3>5
    <3>7. \A s \in Slots(running) : stack[running][s] = v => stack'[running][s] = v
      BY <3>5, <3>6
    <3>8. v = 0 \/ v \in Keeps'
      BY <1>1, <1>3, <3>7, HeldKept
    <3>9. StackKept
      BY <3>6, <3>8 DEF StackKept
    <3>10. colour[u] # "black"
      BY <2>3, <2>6 DEF IInv, OpenFit
    <3>11. ColoursKept
      BY <1>3, <2>3, <2>4, <3>10, BarrierOld
    <3>12. \A y \in Obj : Same(y)
      BY <1>1, <2>5, <3>1 DEF Same
    <3>13. QED
      BY <3>9, <3>11, <3>12, ProgramStep
  <2>7. CASE ~Open(u)
    <3>1. ref' = [ref EXCEPT ![u].val = v] /\ stack' = stack
      BY <2>4, <2>7
    <3>2. c \in Keeps'
      BY <1>1, <3>1, HeldStays
    <3>3. u \in Keeps'
      <4>1. u # c
        BY <1>7, <2>3 DEF Is
      <4>2. ref'[c].val = u
        BY <1>2, <1>5, <2>1, <3>1, <4>1
      <4>3. Obj' = Obj /\ Is(c, "lclosure")'
        BY <1>1, <1>7 DEF Obj, Is
      <4>4. ref'[c].val \in KeptRefs(c)'
        BY <1>2, <4>3, RefsThereNext DEF RefsThere
      <4>5. KeptClosed'
        BY KeptClosedNext
      <4>6. QED
        BY <2>3, <3>2, <4>2, <4>4, <4>5 DEF KeptClosed
    <3>4. ColoursKept
      BY <1>3, <2>3, <2>4, <3>3, BarrierOld
    <3>5. \A y \in Obj : y # u => ref'[y] = ref[y]
      BY <1>5, <3>1
    <3>6. QED
      BY <1>1, <2>3, <2>5, <3>1, <3>3, <3>4, <3>5, StoreStep
  <2>8. QED
    BY <2>6, <2>7
<1> QED
  BY <1>6, <1>7 DEF SetUpvalue

\* A block is left, its upvalues are closed.
LEMMA LeaveOld ==
  ASSUME IInv, IInv', OldInv, OpFrame, Remember, NEW l \in Slots(running), Leave(l)
  PROVE  OldInv'
<1> DEFINE Ends == {u \in OfKind("upval") : Open(u) /\ at[u][2] >= l}
           Lives == {u \in Obj : Marks.colour[u] # Other(currentwhite)}
<1> PICK us : us = Those(OpenUpvals(running), Ends)
  OBVIOUS
<1> PICK living : living = Those(us, Lives)
  OBVIOUS
<1>1. /\ OpenUpvals(running) \in Seq(OfKind("upval")) /\ IsInjective(OpenUpvals(running))
      /\ \A u \in Obj : u \in Range(OpenUpvals(running)) <=> at[u] # <<>> /\ at[u][1] = running
  BY RunningIs, OpenUpvalsAre
<1>2. us \in Seq(OfKind("upval")) /\ IsInjective(us) /\ Range(us) = Range(OpenUpvals(running)) \cap Ends
  BY <1>1, ThoseAre
<1>3. living \in Seq(OfKind("upval")) /\ IsInjective(living) /\ Range(living) = Range(us) \cap Lives
  BY <1>2, ThoseAre
<1> DEFINE U == Range(us)
           L == Range(living)
<1>4. U \subseteq Obj /\ L \subseteq U /\ \A u \in U : Is(u, "upval") /\ at[u] # <<>>
  BY <1>2, <1>3 DEF OfKind, Open
<1>5. Marks.colour = colour
  BY DEF Marks
<1>6. L = U \cap {u \in Obj : colour[u] # Other(currentwhite)}
  BY <1>3, <1>5
<1> DEFINE c == luaF_close(Marks, us)
<1>7. /\ c.colour = [o \in Obj |-> IF Contains(us, o) /\ ~Contains(living, o) THEN "free"
                                   ELSE CloseAll(Marks, living).colour[o]]
      /\ c.gray = CloseAll(Marks, living).gray
      /\ c.ref = [o \in Obj |-> IF Contains(living, o) THEN [Nothing EXCEPT !.val = ValueOf(o)] ELSE ref[o]]
      /\ c.at = [o \in Obj |-> IF Contains(us, o) THEN <<>> ELSE at[o]]
      /\ c.new = Reverse(living)
  BY DEF luaF_close
<1>8. /\ SetMarks(c) /\ ref' = c.ref /\ at' = c.at /\ rootgc' = c.new \o rootgc
      /\ stack' = [stack EXCEPT ![running] = [s \in Slots(running) |-> IF s >= l THEN 0 ELSE stack[running][s]]]
      /\ running' = running /\ arg' = arg /\ grayagain' = grayagain /\ weak' = weak /\ sweepstrgc' = sweepstrgc
      /\ sweepgc' = sweepgc /\ finalized' = finalized /\ called' = called /\ stage = 0
  BY DEF Leave, May
<1>9. \A o : (Contains(us, o) <=> o \in U) /\ (Contains(living, o) <=> o \in L)
  BY <1>2, <1>3, ContainsIs
<1>10. /\ colour' = [o \in Obj |-> IF o \in U /\ o \notin L THEN "free" ELSE CloseAll(Marks, living).colour[o]]
       /\ gray' = CloseAll(Marks, living).gray
       /\ ref' = [o \in Obj |-> IF o \in L THEN [Nothing EXCEPT !.val = ValueOf(o)] ELSE ref[o]]
       /\ at' = [o \in Obj |-> IF o \in U THEN <<>> ELSE at[o]]
       /\ rootgc' = Reverse(living) \o rootgc
  BY <1>7, <1>8, <1>9 DEF SetMarks
<1> HIDE DEF c
<1>11. /\ ClosedColours(U, L) /\ gray' \in Seq(Obj) /\ colour' \in [Obj -> Colours]
       /\ gcstate = "propagate" => ClosedMarks(L)
  BY <1>2, <1>3, <1>4, <1>6, <1>10, CloseColours
<1> HIDE DEF U, L
<1>12. \A u \in U : ref[u] = Nothing /\ colour[u] # "free" /\ colour[u] # "black"
  BY <1>4 DEF IInv, FieldsFit, OpenFit, Open
<1>13. shape' = shape /\ 0 \notin Obj /\ Marks \in MarksType /\ currentwhite \in Colours
  BY MarksTyped DEF OpFrame
<1>14. StackKept
  <2>1. /\ DOMAIN stack = OfKind("thread") /\ running \in OfKind("thread")
        /\ \A h \in OfKind("thread") : stack[h] \in [Slots(h) -> Obj0]
    BY DEF IInv, TypeOK
  <2>2. /\ \A h \in OfKind("thread") : h # running => stack'[h] = stack[h]
        /\ \A i \in Slots(running) : stack'[running][i] = IF i >= l THEN 0 ELSE stack[running][i]
    BY <1>8, <2>1
  <2>3. \A h \in OfKind("thread") : \A i \in Slots(h) : stack'[h][i] = stack[h][i] \/ stack'[h][i] = 0
    BY <2>2
  <2>4. QED
    BY <2>3 DEF StackKept
<1>15. ASSUME NEW y \in Obj PROVE colour'[y] = "free" \/ Same(y) \/ Shut(y)
  <2>1. CASE y \in U \ L
    <3>1. colour'[y] = "free"
      BY <1>11, <2>1 DEF ClosedColours
    <3>2. QED
      BY <3>1
  <2>2. CASE y \in L
    <3>1. y \in U /\ Is(y, "upval") /\ colour[y] # "free"
      BY <1>4, <1>12, <2>2
    <3>2. at'[y] = <<>>
      BY <1>10, <3>1
    <3>3. PICK r : r = [Nothing EXCEPT !.val = ValueOf(y)]
      OBVIOUS
    <3>4. r.val = ValueOf(y)
      BY <3>3 DEF Nothing
    <3>5. ref'[y] = r
      BY <1>10, <2>2, <3>3
    <3>6. ref'[y].val = ValueOf(y)
      BY <3>4, <3>5
    <3>7. QED
      BY <3>1, <3>2, <3>6 DEF Shut
  <2>3. CASE y \notin U
    <3>1. y \notin L
      BY <1>4, <2>3
    <3>2. ref'[y] = ref[y] /\ at'[y] = at[y]
      BY <1>10, <2>3, <3>1
    <3>3. colour'[y] = "free" <=> colour[y] = "free"
      BY <1>11, <2>3 DEF ClosedColours
    <3>4. QED
      BY <3>2, <3>3 DEF Same
  <2>4. QED
    BY <2>1, <2>2, <2>3
<1>16. ColoursKept
  <2> SUFFICES ASSUME full # "sweep", NEW x \in old PROVE colour'[x] = colour[x] \/ colour'[x] = "free"
    BY DEF ColoursKept
  <2>1. old \subseteq Obj
    BY DEF OldInv, Garbage, Allocated
  <2>2. \A o \in old : colour[o] # "gray"
    BY DEF OldInv, OldColours, IInv, TypeOK, States, IsWhite, IsDead, Whites, Other
  <2>3. PICK S : S = Obj \ old
    OBVIOUS
  <2>4. ClosedSet(S)
    BY <2>3, NotOldClosed
  <2>5. \A o \in Obj \ S : Marks.colour[o] # "gray"
    BY <1>5, <2>2, <2>3
  <2>6. Inside(Marks, CloseAll(Marks, living), S)
    BY <1>3, <1>13, <2>4, <2>5, CloseAllInside
  <2>7. x \in Obj \ S
    BY <2>1, <2>3
  <2>8. CloseAll(Marks, living).colour[x] = colour[x]
    BY <1>5, <2>6, <2>7 DEF Inside
  <2>9. QED
    BY <1>10, <2>1, <2>8
<1> QED
  BY <1>14, <1>15, <1>16, ProgramStep

\* Every operation of the program.
LEMMA OperationOld ==
  ASSUME IInv, IInv', OldInv, Operation, Remember
  PROVE  OldInv'
<1>1. OpFrame
  BY DEF Operation, OpFrame
<1>2. CASE \E s \in Slots(running) :
             \/ New(s) \/ NewUdata(s)
             \/ \E v \in Held : NewCclosure(s, v)
             \/ \E o \in OfKind("string") : luaS_newlstr(s, o)
             \/ \E l \in Slots(running) : NewLclosure(s, l)
             \/ \E o \in Held, v \in Obj : Load(s, o, v)
  BY <1>1, <1>2, NewOld, NewUdataOld, NewCclosureOld, StringOld, NewLclosureOld, LoadOld
<1>3. CASE \E o \in Held, v \in Values :
             \/ \E k \in Keys : SetEntry(o, k, v)
             \/ SetUpvalue(o, v) \/ Xmove(o, v)
  BY <1>1, <1>3, SetEntryOld, SetUpvalueOld, XmoveOld
<1>4. CASE \E o, mt \in Held : SetMetatable(o, mt)
  BY <1>1, <1>4, SetMetatableOld
<1>5. CASE \E l \in Slots(running) : Leave(l)
  BY <1>1, <1>5, LeaveOld
<1>6. CASE \E th \in OfKind("thread") : Resume(th)
  BY <1>1, <1>6, ResumeOld
<1>7. CASE Yield \/ Finalized
  BY <1>1, <1>7, YieldOld, FinalizedOld
<1> QED
  BY <1>2, <1>3, <1>4, <1>5, <1>6, <1>7 DEF Operation

-----------------------------------------------------------------------------
(* The collector.                                                          *)
LEMMA EmptyOld ==
  ASSUME old' = {}
  PROVE  OldInv'
<1>1. \A y : KeptRefs(y)' \cap old' = {}
  OBVIOUS
<1>2. OldColours'
  BY DEF OldColours
<1> QED
  BY <1>1, <1>2 DEF OldInv, OldClosed
\* Steps that write no reference.
LEMMA QuietRefs ==
  ASSUME IInv, IInv', UNCHANGED <<shape, ref, at, stack>>,
         \A y \in Obj : colour'[y] # "free" => colour[y] # "free"
  PROVE  RefsKept
<1>1. StackKept
  BY SameStack
<1>2. \A y \in Obj : Same(y)
  BY DEF Same
<1>3. shape' = shape
  OBVIOUS
<1> QED
  BY <1>1, <1>2, <1>3, HeapStep
\* Steps that only colour.
LEMMA ColourStep ==
  ASSUME IInv, IInv', OldInv, Remember, UNCHANGED <<shape, ref, at, stack, currentwhite, full>>,
         gcstate' = gcstate \/ (gcstate = "sweepstring" /\ gcstate' = "sweep"),
         \A y \in Obj : colour'[y] # "free" => colour[y] # "free", ColoursKept
  PROVE  OldInv'
<1>1. shape' = shape /\ currentwhite' = currentwhite /\ full' = full
  OBVIOUS
<1>2. OldKept
  BY RememberKept
<1>3. RefsKept
  BY QuietRefs
<1>4. (old \subseteq Garbage)' /\ OldClosed'
  BY <1>1, <1>2, <1>3, OldStep
<1>5. OldColours'
  BY <1>1, <1>2, OldColoursStep
<1> QED
  BY <1>4, <1>5 DEF OldInv
\* A full collection begins.
LEMMA FullGCOld ==
  ASSUME IInv, IInv', OldInv, Remember, FullGC
  PROVE  OldInv'
<1>1. UNCHANGED <<shape, ref, at, stack, colour>> /\ full' = "sweep"
      /\ (gcstate' = gcstate \/ gcstate' = "sweepstring")
  BY DEF FullGC, program
<1>2. OldKept
  BY <1>1, RememberKept
<1>3. RefsKept
  BY <1>1, QuietRefs
<1>4. (old \subseteq Garbage)' /\ OldClosed'
  BY <1>1, <1>2, <1>3, OldStep
<1>5. OldColours'
  BY <1>1 DEF OldColours
<1> QED
  BY <1>4, <1>5 DEF OldInv
\* When finalizers are called there is no old garbage.
LEMMA FinalizeOld ==
  ASSUME OldInv, Remember, GCTM \/ EndCollection
  PROVE  OldInv'
<1>1. gcstate = "finalize" /\ full # "sweep" /\ gcstate' # "propagate"
  BY DEF GCTM, EndCollection
<1>2. old = {}
  BY <1>1 DEF OldInv, OldColours
<1>3. old' = {}
  BY <1>1, <1>2 DEF Remember
<1> QED
  BY <1>3, EmptyOld

\* Sweeping a string frees it if it is dead.
LEMMA SweepStringOld ==
  ASSUME IInv, IInv', OldInv, Remember, sweepstring
  PROVE  OldInv'
<1>1. /\ gcstate = "sweepstring" /\ gcstate' \in {"sweep", gcstate}
      /\ colour' = IF Strings = <<>> THEN colour
                   ELSE [colour EXCEPT ![Strings[sweepstrgc + 1]] = Swept(Strings[sweepstrgc + 1])]
      /\ UNCHANGED <<shape, ref, at, stack, currentwhite, full>>
  BY DEF sweepstring, program
<1>2. \A o \in Obj : colour'[o] = colour[o] \/ colour'[o] = "free"
                     \/ (colour[o] # "free" /\ ~IsDead(o))
  <2>1. PICK s : s = Strings[sweepstrgc + 1]
    OBVIOUS
  <2>2. colour' = colour \/ colour' = [colour EXCEPT ![s] = Swept(s)]
    BY <1>1, <2>1
  <2>3. DOMAIN colour = Obj
    BY DEF IInv, TypeOK
  <2>4. Swept(s) = "free" \/ (colour[s] # "free" /\ ~IsDead(s))
    BY DEF Swept
  <2>5. QED
    BY <2>2, <2>3, <2>4
<1>3. \A o \in Obj : colour'[o] # "free" => colour[o] # "free"
  BY <1>2
<1>4. ColoursKept
  <2>1. full # "sweep" => \A o \in old : IsDead(o) /\ o \in Obj
    BY <1>1 DEF OldInv, OldColours, Garbage, Allocated
  <2>2. QED
    BY <1>2, <2>1 DEF ColoursKept
<1> QED
  BY <1>1, <1>3, <1>4, ColourStep

\* Marking from outside old garbage.
LEMMA MarkStep ==
  ASSUME IInv, IInv', OldInv, Remember, UNCHANGED <<shape, ref, at, stack, currentwhite, full>>,
         gcstate = "propagate", gcstate' = "propagate",
         NEW m, NEW x, full # "sweep" => Inside(m, x, Obj \ old), colour' = x.colour, m.colour = colour,
         \A y \in Obj : colour'[y] # "free" => colour[y] # "free"
  PROVE  OldInv'
<1>1. old \subseteq Obj
  BY DEF OldInv, Garbage, Allocated
<1>2. full # "sweep" => \A o \in old : x.colour[o] = colour[o]
  BY <1>1 DEF Inside
<1>3. ColoursKept
  BY <1>2 DEF ColoursKept
<1> QED
  BY <1>3, ColourStep

\* The start of a collection: what is garbage now is white and unreferenced.
LEMMA MarkrootOld ==
  ASSUME IInv, IInv', OldInv, Remember, markroot
  PROVE  OldInv'
<1> DEFINE m == [Marks EXCEPT !.gray = <<>>]
           os == <<Main, Globals>>
<1>1. PICK x : x = MarkAll(m, os)
  OBVIOUS
<1>2. /\ gcstate \in {"pause", "finalize"} /\ colour' = x.colour /\ gcstate' = "propagate"
      /\ UNCHANGED <<shape, ref, at, stack, currentwhite, tmudata>>
  BY <1>1 DEF markroot, SetMarks, program
<1>3. m.colour = colour /\ m \in MarksType
  <2>1. m = [colour |-> colour, gray |-> <<>>]
    BY DEF Marks
  <2>2. colour \in [Obj -> Colours] /\ <<>> \in Seq(Obj)
    BY DEF IInv, TypeOK
  <2>3. QED
    BY <2>1, <2>2 DEF MarksType
<1>4. KeptClosed' /\ Obj' = Obj /\ Main' = Main /\ Globals' = Globals /\ 0 \notin Obj
  BY <1>2, KeptClosedNext, ShapeIs DEF Obj, Main, Globals, IInv
<1>5. Main \in Keeps' /\ Globals \in Keeps' /\ Range(tmudata) \subseteq Keeps' /\ 0 \notin Keeps'
  <2>1. Main \in Obj /\ Globals \in Obj
    BY ShapeIs DEF IInv
  <2>2. Main \in Roots' /\ Globals \in Roots'
    BY <1>4, <2>1 DEF Roots
  <2>3. Roots' \cup Range(tmudata') \subseteq Keeps'
    BY <1>4 DEF KeptClosed
  <2>4. QED
    BY <1>2, <1>4, <2>2, <2>3 DEF KeptClosed
<1>6. Inside(m, x, Keeps')
  <2>1. os \in Seq(Keeps' \cup {0})
    BY <1>5
  <2>2. ClosedSet(Keeps')
    BY <1>2, KeepsClosedNext
  <2> HIDE DEF m, os
  <2>3. PICK S : S = Keeps'
    OBVIOUS
  <2>4. ClosedSet(S) /\ os \in Seq(S \cup {0})
    BY <2>1, <2>2, <2>3
  <2>5. Inside(m, x, S)
    BY <1>1, <1>3, <1>4, <2>4, MarkAllInside
  <2>6. QED
    BY <2>3, <2>5
<1> HIDE DEF m, os
<1>7. Garbage' = {o \in Obj : colour'[o] # "free"} \ Keeps'
  BY <1>4 DEF Garbage, Keeps, Allocated
<1>8. CASE old' = {}
  BY <1>8, EmptyOld
<1>9. CASE old' = Garbage'
  <2>1. OldClosed'
    <3>1. ASSUME NEW y \in Allocated', y \notin old', NEW r \in KeptRefs(y)', r \in old' PROVE FALSE
      <4>1. y \in Keeps'
        BY <1>4, <1>7, <1>9, <3>1 DEF Allocated
      <4>2. r = 0 \/ r \in Keeps'
        BY <1>4, <3>1, <4>1 DEF KeptClosed
      <4>3. QED
        BY <1>4, <1>7, <1>9, <3>1, <4>2
    <3>2. QED
      BY <3>1 DEF OldClosed
  <2>2. ASSUME NEW o \in old' PROVE colour'[o] = currentwhite /\ currentwhite \in Whites
    <3>1. o \in Obj /\ colour'[o] # "free" /\ o \notin Keeps'
      BY <1>7, <1>9, <2>2
    <3>2. colour'[o] = colour[o]
      BY <1>2, <1>3, <1>6, <3>1 DEF Inside
    <3>3. o \notin Range(tmudata)
      BY <1>5, <3>1
    <3>4. IsClean(o) /\ currentwhite \in Whites
      BY <1>2, <3>1, <3>3 DEF IInv, Phases, TypeOK
    <3>5. QED
      BY <3>1, <3>2, <3>4 DEF IsClean
  <2>3. \A o \in old' : IsWhite(o)'
    BY <2>2 DEF IsWhite, Whites
  <2>4. OldColours'
    BY <1>2, <2>3 DEF OldColours
  <2>5. QED
    BY <1>9, <2>1, <2>4 DEF OldInv
<1>10. gcstate # "propagate"
  BY <1>2
<1> QED
  BY <1>2, <1>8, <1>9, <1>10 DEF Remember

\* Before the end of the mark phase nothing of the old garbage is gray, and
\* what is not old garbage does not refer to it.
LEMMA NotOldRefs ==
  ASSUME IInv, OldInv, NEW o \in Obj, colour[o] # "free", o \notin old, NEW r \in KeptRefs(o)
  PROVE  r \in (Obj \ old) \cup {0}
<1>1. KeptRefs(o) \cap old = {}
  BY DEF OldInv, OldClosed, Allocated
<1> QED
  BY <1>1, KeptRefsAre
\* Nothing gray is old garbage.
LEMMA GrayNotOld ==
  ASSUME IInv, OldInv, full # "sweep", gcstate = "propagate", NEW o \in Obj, colour[o] = "gray"
  PROVE  o \notin old
<1>1. \A p \in old : IsWhite(p)
  BY DEF OldInv, OldColours
<1> QED
  BY <1>1 DEF IsWhite, Whites
\* The thread that runs is not.
LEMMA RunningNotOld ==
  ASSUME IInv, OldInv
  PROVE  running \in Obj \ old
<1>1. KeptClosed
  BY KeptClosedNow
<1>2. running \in Obj /\ running # 0
  BY RunningIs, ShapeIs DEF IInv
<1>3. running \in Keeps
  BY <1>1, <1>2 DEF KeptClosed, Roots
<1> QED
  BY <1>2, <1>3 DEF OldInv, Garbage, Keeps

\* Marking the values of open upvalues.
LEMMA RemarkUpvalsOld ==
  ASSUME IInv, IInv', OldInv, Remember, remarkupvals
  PROVE  OldInv'
<1>1. PICK x : x = MarkAll(Marks, GrayValues)
  OBVIOUS
<1>2. PICK m : m = Marks
  OBVIOUS
<1>3. PICK os : os = GrayValues
  OBVIOUS
<1>4. x = MarkAll(m, os)
  BY <1>1, <1>2, <1>3
<1>5. /\ gcstate = "propagate" /\ gcstate' = "propagate" /\ gray = <<>> /\ colour' = x.colour
      /\ UNCHANGED <<shape, ref, at, stack, currentwhite, full>>
  BY <1>1 DEF remarkupvals, InAtomic, SetMarks, NoFlip, program
<1>6. MarksBase(m) /\ m.colour = colour /\ m \in MarksType
  BY <1>2, <1>5, MarksAre, MarksTyped
<1>7. os \in Seq(Obj0)
  BY <1>3, GrayValuesAre
<1>8. \A y \in Obj : colour'[y] # "free" => colour[y] # "free"
  <2>1. Grown(m, x, {}, {})
    BY <1>4, <1>6, <1>7, MarkMore
  <2>2. QED
    BY <1>5, <1>6, <2>1, GrownColours DEF IInv
<1>9. ASSUME full # "sweep" PROVE Inside(m, x, Obj \ old)
  <2>1. os \in Seq((Obj \ old) \cup {0})
    <3>1. PICK us : us = Those(Objects, {u \in OfKind("upval") : Open(u) /\ colour[u] = "gray"})
      OBVIOUS
    <3>2. us \in Seq(Obj) /\ Range(us) \subseteq {u \in OfKind("upval") : Open(u) /\ colour[u] = "gray"}
      <4>1. PICK S : S = {u \in OfKind("upval") : Open(u) /\ colour[u] = "gray"}
        OBVIOUS
      <4>2. us \in Seq(Obj) /\ Range(us) = Range(Objects) \cap S
        BY <3>1, <4>1, ObjectsAre, ThoseAre
      <4>3. QED
        BY <4>1, <4>2
    <3>3. os = [i \in DOMAIN us |-> ValueOf(us[i])]
      BY <1>3, <3>1 DEF GrayValues
    <3>4. DOMAIN us = 1..Len(us) /\ Len(us) \in Nat /\ \A i \in 1..Len(us) : us[i] \in Range(us)
      BY <3>2, RangeHas
    <3>5. ASSUME NEW i \in 1..Len(us) PROVE ValueOf(us[i]) \in (Obj \ old) \cup {0}
      <4>1. us[i] \in Obj /\ Is(us[i], "upval") /\ colour[us[i]] = "gray"
        BY <3>2, <3>4 DEF OfKind
      <4>2. us[i] \notin old
        BY <1>5, <1>9, <4>1, GrayNotOld
      <4>3. ValueOf(us[i]) \in KeptRefs(us[i])
        BY <4>1, UpvalRefs
      <4>4. colour[us[i]] # "free"
        BY <4>1
      <4>5. QED
        BY <4>1, <4>2, <4>3, <4>4, NotOldRefs
    <3>6. os \in [1..Len(us) -> (Obj \ old) \cup {0}]
      BY <3>3, <3>4, <3>5
    <3>7. QED
      BY <3>4, <3>6
  <2>2. ClosedSet(Obj \ old) /\ 0 \notin Obj
    BY NotOldClosed, MarksTyped
  <2>3. PICK S : S = Obj \ old
    OBVIOUS
  <2>4. Inside(m, x, S)
    BY <1>4, <1>6, <2>1, <2>2, <2>3, MarkAllInside
  <2>5. QED
    BY <2>3, <2>4
<1> QED
  BY <1>5, <1>6, <1>8, <1>9, MarkStep

\* Traversing the weak tables again.
LEMMA RemarkWeakOld ==
  ASSUME IInv, IInv', OldInv, Remember, RemarkWeak
  PROVE  OldInv'
<1>1. PICK m : GrayList(m, weak)
  BY DEF GrayList
<1>2. [Marks EXCEPT !.gray = weak] = m
  <2>1. Marks = [colour |-> colour, gray |-> gray]
    BY DEF Marks
  <2>2. QED
    BY <1>1, <2>1 DEF GrayList
<1>3. PICK os : os = <<running>>
  OBVIOUS
<1>4. PICK x : x = MarkAll(m, os)
  OBVIOUS
<1>5. x = MarkObject(m, running)
  BY <1>3, <1>4, MarkOne
<1>6. /\ gcstate = "propagate" /\ gcstate' = "propagate" /\ gray = <<>> /\ colour' = x.colour
      /\ UNCHANGED <<shape, ref, at, stack, currentwhite, full>>
  BY <1>2, <1>5 DEF RemarkWeak, InAtomic, SetMarks, NoFlip, program
<1>7. ListsFit(colour, weak, grayagain, <<>>)
  <2>1. ListsFit(colour, <<>>, grayagain, weak)
    BY <1>6, MarkingIs
  <2>2. QED
    BY <2>1, EmptyRange DEF ListsFit
<1>8. MarksBase(m) /\ m.colour = colour
  BY <1>1, <1>7, GrayListBase DEF IInv, TypeOK
<1>9. running \in Obj \ old
  BY RunningNotOld
<1>10. os \in Seq(Obj0)
  BY <1>3, <1>9 DEF Obj0
<1>11. \A y \in Obj : colour'[y] # "free" => colour[y] # "free"
  <2>1. Grown(m, x, {}, {})
    BY <1>4, <1>8, <1>10, MarkMore
  <2>2. QED
    BY <1>6, <1>8, <2>1, GrownColours DEF IInv
<1>12. Inside(m, x, Obj \ old)
  <2>1. ClosedSet(Obj \ old) /\ 0 \notin Obj
    BY NotOldClosed, MarksTyped
  <2>2. PICK S : S = Obj \ old
    OBVIOUS
  <2>3. os \in Seq(S \cup {0}) /\ m \in MarksType
    BY <1>3, <1>8, <1>9, <2>2 DEF MarksBase
  <2>4. Inside(m, x, S)
    BY <1>4, <2>1, <2>2, <2>3, MarkAllInside
  <2>5. QED
    BY <2>2, <2>4
<1> QED
  BY <1>6, <1>8, <1>11, <1>12, MarkStep
\* Traversing grayagain.
LEMMA RemarkGrayOld ==
  ASSUME IInv, IInv', OldInv, Remember, RemarkGray
  PROVE  OldInv'
<1>1. gcstate' = gcstate /\ colour' = colour /\ UNCHANGED <<shape, ref, at, stack, currentwhite, full>>
  BY DEF RemarkGray, InAtomic, NoFlip, program
<1>2. ColoursKept
  BY <1>1 DEF ColoursKept
<1> QED
  BY <1>1, <1>2, ColourStep

\* What traversing an object marks are references that it keeps.
LEMMA TraversedKept ==
  ASSUME IInv, NEW o \in Obj, shape.kinds[o] \in Gathered, NEW r \in Range(Traversed(o))
  PROVE  r = Globals \/ r \in KeptRefs(o)
<1>1. CASE Is(o, "table")
  <2>1. Traversed(o) = Strong(o) /\ StrongRefs(o) = Range(Strong(o))
    BY <1>1 DEF Traversed, StrongRefs, Is
  <2>2. QED
    BY <2>1 DEF KeptRefs
<1>2. CASE Is(o, "thread")
  <2>1. Traversed(o) = <<Globals>> \o stack[o] /\ o \in OfKind("thread")
    BY <1>2 DEF Traversed, Is, OfKind
  <2>2. stack[o] \in [Slots(o) -> Obj0] /\ Slots(o) = 1..shape.slots[o] /\ shape.slots[o] \in Nat
    BY <2>1, ShapeIs DEF IInv, TypeOK, Slots
  <2>3. stack[o] \in Seq(Obj0)
    BY <2>2
  <2>4. PICK q : q = stack[o]
    OBVIOUS
  <2>5. q \in Seq(Obj0) /\ Len(q) \in Nat /\ DOMAIN q = 1..Len(q)
    BY <2>3, <2>4
  <2>6. PICK i \in DOMAIN (<<Globals>> \o q) : r = (<<Globals>> \o q)[i]
    BY <2>1, <2>4 DEF Range
  <2>7. r = Globals \/ \E j \in 1..Len(q) : r = q[j]
    <3>1. Len(<<Globals>>) = 1 /\ <<Globals>>[1] = Globals /\ <<Globals>> \in Seq({Globals})
      OBVIOUS
    <3>2. i \in 1..(1 + Len(q))
      BY <2>5, <2>6, <3>1
    <3>3. (<<Globals>> \o q)[i] = IF i <= 1 THEN Globals ELSE q[i - 1]
      BY <2>5, <3>1, <3>2
    <3>4. QED
      BY <2>5, <2>6, <3>2, <3>3
  <2>8. Slots(o) = 1..Len(q)
    BY <2>2, <2>4, <2>5
  <2>9. QED
    BY <2>1, <2>4, <2>7, <2>8, RefsThereNow DEF RefsThere
<1>3. CASE ~Is(o, "table") /\ ~Is(o, "thread")
  <2>1. Traversed(o) = <<Globals, ref[o].val>>
    BY <1>3 DEF Traversed
  <2>2. r \in {Globals, ref[o].val}
    BY <2>1 DEF Range
  <2>3. Refs(o) = {ref[o].key, ref[o].val, ref[o].meta} /\ StrongRefs(o) = Refs(o)
    BY <1>3 DEF Refs, StrongRefs, Is, Gathered
  <2>4. QED
    BY <2>2, <2>3 DEF KeptRefs
<1> QED
  BY <1>1, <1>2, <1>3

\* The globals are not garbage.
LEMMA GlobalsNotOld ==
  ASSUME IInv, OldInv
  PROVE  Globals \in Obj \ old
<1>1. KeptClosed
  BY KeptClosedNow
<1>2. Globals \in Obj /\ Globals # 0
  BY ShapeIs DEF IInv
<1>3. Globals \in Keeps
  BY <1>1, <1>2 DEF KeptClosed, Roots
<1> QED
  BY <1>2, <1>3 DEF OldInv, Garbage, Keeps

\* Entries that are removed leave no reference.
LEMMA RemovedRefs ==
  ASSUME IInv, IInv', UNCHANGED <<shape, at, stack>>, NEW o \in Obj, ~Is(o, "thread"), ~Is(o, "upval"),
         ref'[o].key = 0, ref'[o].val = 0, ref'[o].meta = ref[o].meta, Is(o, "table")
  PROVE  \A r \in KeptRefs(o)' : r = 0 \/ r \in KeptRefs(o)
<1>1. Obj' = Obj /\ \A k : Is(o, k)' = Is(o, k)
  BY DEF Obj, Is
<1>2. \A r \in KeptRefs(o)' : r \in {ref'[o].key, ref'[o].val, ref'[o].meta}
  BY <1>1, KeptFitNext DEF KeptFit
<1>3. ref[o].meta \in KeptRefs(o)
  BY StrongIs DEF KeptRefs, StrongRefs
<1> QED
  BY <1>2, <1>3

\* The traversal of a gray object.
LEMMA PropagateOld ==
  ASSUME IInv, IInv', OldInv, Remember, propagatemark
  PROVE  OldInv'
<1>1. PICK o : o = Head(gray)
  OBVIOUS
<1>2. PICK m : HeadMarks(o, m)
  BY DEF HeadMarks
<1>3. PICK x : x = MarkAll(m, Traversed(o))
  OBVIOUS
<1>4. [Blacken(Marks, o) EXCEPT !.gray = Tail(gray)] = m
  <2>1. Marks = [colour |-> colour, gray |-> gray]
    BY DEF Marks
  <2>2. Blacken(Marks, o) = [colour |-> [colour EXCEPT ![o] = "black"], gray |-> gray]
    BY <2>1 DEF Blacken
  <2>3. PICK b : b = [colour EXCEPT ![o] = "black"]
    OBVIOUS
  <2>4. PICK t : t = Tail(gray)
    OBVIOUS
  <2>5. Blacken(Marks, o) = [colour |-> b, gray |-> gray] /\ m = [colour |-> b, gray |-> t]
    BY <1>2, <2>2, <2>3, <2>4 DEF HeadMarks
  <2>6. [Blacken(Marks, o) EXCEPT !.gray = t] = [colour |-> b, gray |-> t]
    BY <2>5
  <2>7. QED
    BY <2>4, <2>5, <2>6
<1>5. /\ gcstate = "propagate" /\ gcstate' = "propagate" /\ gray # <<>>
      /\ colour' = IF Is(o, "thread") \/ IsWeak(o) THEN [x.colour EXCEPT ![o] = "gray"] ELSE x.colour
      /\ ref' = IF Is(o, "table") /\ ref[o].val = 0 /\ Mode(o) # {"k", "v"} THEN [ref EXCEPT ![o].key = 0] ELSE ref
      /\ UNCHANGED <<shape, at, stack, currentwhite, full>>
  BY <1>1, <1>3, <1>4 DEF propagatemark, program, IsWeak
<1>6. /\ o \in Obj /\ shape.kinds[o] \in Gathered /\ colour[o] = "gray"
      /\ MarksBase(m) /\ m.colour[o] = "black" /\ \A p \in Obj : p # o => m.colour[p] = colour[p]
  BY <1>1, <1>2, <1>5, HeadBlack
<1>7. Traversed(o) \in Seq(Obj0)
  BY <1>6, TraversedIs
<1>8. Grown(m, x, {}, {}) /\ x.colour \in [Obj -> Colours]
  BY <1>3, <1>6, <1>7, MarkMore
<1>9. \A p \in Obj : p # o => colour'[p] = x.colour[p]
  BY <1>5, <1>8
<1>10. \A y \in Obj : colour'[y] # "free" => colour[y] # "free"
  <2>1. \A p \in Obj : x.colour[p] = "free" => m.colour[p] = "free"
    BY <1>8, GrownColours DEF IInv
  <2>2. \A p \in Obj : m.colour[p] = "free" => x.colour[p] = "free"
    BY <1>8, GrownColours DEF IInv
  <2>3. QED
    BY <1>6, <1>9, <2>2
<1>11. ASSUME full # "sweep" PROVE o \notin old /\ Inside(m, x, Obj \ old)
  <2>1. o \notin old
    BY <1>5, <1>6, <1>11, GrayNotOld
  <2>2. \A r \in Range(Traversed(o)) : r \in (Obj \ old) \cup {0}
    <3>1. Globals \in Obj \ old /\ colour[o] # "free"
      BY <1>6, GlobalsNotOld
    <3>2. QED
      BY <1>6, <2>1, <3>1, TraversedKept, NotOldRefs
  <2>3. PICK S : S = Obj \ old
    OBVIOUS
  <2>4. PICK os : os = Traversed(o)
    OBVIOUS
  <2>5. os \in Seq(Obj0) /\ \A r \in Range(os) : r \in S \cup {0}
    BY <1>7, <2>2, <2>3, <2>4
  <2>6. os \in Seq(S \cup {0})
    <3>1. Len(os) \in Nat /\ os \in [1..Len(os) -> Obj0] /\ \A i \in 1..Len(os) : os[i] \in Range(os)
      BY <2>5 DEF Range
    <3>2. os \in [1..Len(os) -> S \cup {0}]
      BY <2>5, <3>1
    <3>3. QED
      BY <3>1, <3>2
  <2>7. ClosedSet(S) /\ 0 \notin Obj /\ m \in MarksType
    BY <1>6, <2>3, NotOldClosed, MarksTyped DEF MarksBase
  <2>8. Inside(m, x, S)
    BY <1>3, <2>4, <2>6, <2>7, MarkAllInside
  <2>9. QED
    BY <2>1, <2>3, <2>8
<1>12. old \subseteq Obj
  BY DEF OldInv, Garbage, Allocated
<1>13. ColoursKept
  <2>1. ASSUME full # "sweep", NEW p \in old PROVE colour'[p] = colour[p]
    <3>1. p \in Obj /\ p # o /\ Inside(m, x, Obj \ old)
      BY <1>11, <1>12, <2>1
    <3>2. x.colour[p] = m.colour[p]
      BY <2>1, <3>1 DEF Inside
    <3>3. QED
      BY <1>6, <1>9, <3>1, <3>2
  <2>2. QED
    BY <2>1 DEF ColoursKept
<1>14. RefsKept
  <2>1. ASSUME NEW y \in Obj, colour'[y] # "free" PROVE \A r \in KeptRefs(y)' : r = 0 \/ r \in Keeps' \/ r \in KeptRefs(y)
    <3>1. CASE ref'[y] = ref[y]
      BY <1>5, <3>1, SameStack, HeapRefs
    <3>2. CASE ref'[y] # ref[y]
      <4>1. DOMAIN ref = Obj
        BY DEF IInv, TypeOK
      <4>2. y = o /\ Is(o, "table") /\ ref[o].val = 0 /\ ref' = [ref EXCEPT ![o].key = 0]
        BY <1>5, <1>6, <3>2, <4>1
      <4>3. ref'[o].key = 0 /\ ref'[o].val = 0 /\ ref'[o].meta = ref[o].meta
        <5>1. ref[o] \in [key : Obj0, val : Obj0, meta : Obj0]
          BY <1>6, RefIs DEF IInv
        <5>2. QED
          BY <1>6, <4>1, <4>2, <5>1
      <4>4. ~Is(o, "thread") /\ ~Is(o, "upval")
        BY <4>2 DEF Is
      <4>5. UNCHANGED <<shape, at, stack>>
        BY <1>5
      <4>6. QED
        BY <1>6, <4>2, <4>3, <4>4, <4>5, RemovedRefs
    <3>3. QED
      BY <3>1, <3>2
  <2>2. QED
    BY <1>10, <2>1 DEF RefsKept
<1>15. OldKept
  BY <1>5, RememberKept
<1>16. shape' = shape /\ currentwhite' = currentwhite /\ full' = full /\ gcstate' = gcstate
  BY <1>5
<1>17. (old \subseteq Garbage)' /\ OldClosed'
  BY <1>14, <1>15, <1>16, OldStep
<1>18. OldColours'
  BY <1>13, <1>15, <1>16, OldColoursStep
<1> QED
  BY <1>17, <1>18 DEF OldInv

\* Userdata are queued for their finalizers, and are kept then.
LEMMA SeparateUdataOld ==
  ASSUME IInv, IInv', OldInv, Remember, SeparateUdata
  PROVE  OldInv'
<1>1. PICK us : us = tmudata \o Separated
  OBVIOUS
<1>2. PICK w : Whitened(us, w)
  BY DEF Whitened
<1>3. PICK x : x = MarkAll(w, us)
  OBVIOUS
<1>4. us \in Seq(Obj) /\ \A u \in Range(us) : u \in Obj /\ colour[u] # "free"
  BY <1>1, SeparatedAre
<1>5. [Marks EXCEPT !.colour = [o \in Obj |-> IF Contains(us, o) THEN currentwhite ELSE colour[o]]] = w
  <2>1. \A o : Contains(us, o) <=> o \in Range(us)
    BY <1>4, ContainsIs
  <2>2. PICK c : c = [o \in Obj |-> IF Contains(us, o) THEN currentwhite ELSE colour[o]]
    OBVIOUS
  <2>3. c = [o \in Obj |-> IF o \in Range(us) THEN currentwhite ELSE colour[o]]
    BY <2>1, <2>2
  <2>4. Marks = [colour |-> colour, gray |-> gray]
    BY DEF Marks
  <2>5. [Marks EXCEPT !.colour = c] = [colour |-> c, gray |-> gray]
    BY <2>4
  <2>6. w = [colour |-> c, gray |-> gray]
    BY <1>2, <2>3 DEF Whitened
  <2>7. QED
    BY <2>2, <2>5, <2>6
<1>6. /\ gcstate = "propagate" /\ gcstate' = gcstate /\ gray = <<>> /\ colour' = x.colour /\ tmudata' = us
      /\ UNCHANGED <<shape, ref, at, stack, currentwhite, full>>
  <2>1. SetMarks(MarkAll([Marks EXCEPT !.colour = [o \in Obj |-> IF Contains(us, o) THEN currentwhite ELSE colour[o]]], us))
    BY <1>1 DEF SeparateUdata
  <2>2. colour' = x.colour
    BY <1>3, <1>5, <2>1 DEF SetMarks
  <2>3. QED
    BY <1>1, <2>2 DEF SeparateUdata, InAtomic, program
<1>7. MarksBase(w) /\ w \in MarksType /\ \A o \in Obj : w.colour[o] = IF o \in Range(us) THEN currentwhite ELSE colour[o]
  BY <1>1, <1>2, <1>6, WhitenedIs DEF MarksBase
<1>8. us \in Seq(Obj0)
  BY <1>4, RangeHas DEF Obj0
<1>9. \A y \in Obj : colour'[y] # "free" => colour[y] # "free"
  <2>1. Grown(w, x, {}, {})
    BY <1>3, <1>7, <1>8, MarkMore
  <2>2. \A y \in Obj : w.colour[y] = "free" => x.colour[y] = "free"
    BY <2>1, GrownColours DEF IInv
  <2>3. QED
    BY <1>4, <1>6, <1>7, <2>2
<1>10. Range(us) \subseteq Keeps'
  <2>1. KeptClosed'
    BY KeptClosedNext
  <2>2. QED
    BY <1>6, <2>1 DEF KeptClosed
<1>11. Inside(w, x, Keeps')
  <2>1. PICK S : S = Keeps'
    OBVIOUS
  <2>2. ClosedSet(S) /\ 0 \notin Obj
    BY <1>6, <2>1, KeepsClosedNext, MarksTyped
  <2>3. us \in Seq(S \cup {0})
    <3>1. Len(us) \in Nat /\ us \in [1..Len(us) -> Obj0] /\ \A i \in 1..Len(us) : us[i] \in Range(us)
      BY <1>8 DEF Range
    <3>2. us \in [1..Len(us) -> S \cup {0}]
      BY <1>10, <2>1, <3>1
    <3>3. QED
      BY <3>1, <3>2
  <2>4. Inside(w, x, S)
    BY <1>3, <1>7, <2>2, <2>3, MarkAllInside
  <2>5. QED
    BY <2>1, <2>4
<1>12. old \subseteq Obj
  BY DEF OldInv, Garbage, Allocated
<1>13. ColoursKept
  <2>1. ASSUME NEW p \in old, p \notin Keeps' PROVE colour'[p] = colour[p]
    <3>1. p \in Obj /\ p \notin Range(us)
      BY <1>10, <1>12, <2>1
    <3>2. x.colour[p] = w.colour[p]
      BY <1>11, <2>1, <3>1 DEF Inside
    <3>3. QED
      BY <1>6, <1>7, <3>1, <3>2
  <2>2. QED
    BY <2>1 DEF ColoursKept
<1> QED
  BY <1>6, <1>9, <1>13, ColourStep

\* The whites change places: all old garbage is dead.
LEMMA ClearOld ==
  ASSUME IInv, IInv', OldInv, Remember, cleartable
  PROVE  OldInv'
<1>1. /\ gcstate = "propagate" /\ gray = <<>> /\ currentwhite' = Other(currentwhite) /\ gcstate' = "sweepstring"
      /\ UNCHANGED <<shape, at, stack, full>>
      /\ \A o \in Obj : ref'[o] = IF o \in Range(weak) /\ Cleared(o) THEN Fields(0, 0, ref[o].meta) ELSE ref[o]
      /\ \A o \in Obj : colour'[o] = IF o \in WeakStrings /\ IsWhite(o) THEN "gray" ELSE colour[o]
  BY ClearFrame
<1>2. \A t \in Range(weak) : t \in Obj /\ Is(t, "table") /\ colour[t] = "gray"
  BY <1>1, MarkingIs DEF ListsFit, GrayObjects
<1>3. OldKept
  BY <1>1, RememberKept
<1>4. \A y \in Obj : colour'[y] # "free" => colour[y] # "free"
  <2>1. \A y \in Obj : IsWhite(y) => colour[y] # "free"
    BY DEF IsWhite, Whites
  <2>2. QED
    BY <1>1, <2>1
<1>5. RefsKept
  <2>1. ASSUME NEW y \in Obj PROVE \A r \in KeptRefs(y)' : r = 0 \/ r \in Keeps' \/ r \in KeptRefs(y)
    <3>1. CASE y \in Range(weak) /\ Cleared(y)
      <4>1. ref'[y] = Fields(0, 0, ref[y].meta) /\ Is(y, "table")
        BY <1>1, <1>2, <3>1
      <4>2. ref'[y].key = 0 /\ ref'[y].val = 0 /\ ref'[y].meta = ref[y].meta
        BY <4>1 DEF Fields
      <4>3. ~Is(y, "thread") /\ ~Is(y, "upval") /\ UNCHANGED <<shape, at, stack>>
        BY <1>1, <4>1 DEF Is
      <4>4. QED
        BY <4>1, <4>2, <4>3, RemovedRefs
    <3>2. CASE ~(y \in Range(weak) /\ Cleared(y))
      <4>1. ref'[y] = ref[y]
        BY <1>1, <3>2
      <4>2. QED
        BY <1>1, <4>1, SameStack, HeapRefs
    <3>3. QED
      BY <3>1, <3>2
  <2>2. QED
    BY <1>4, <2>1 DEF RefsKept
<1>6. (old \subseteq Garbage)' /\ OldClosed'
  BY <1>1, <1>3, <1>5, OldStep
<1>7. ASSUME full # "sweep", NEW o \in old PROVE o \notin WeakStrings
  <2>1. SUFFICES ASSUME o \in WeakStrings PROVE FALSE
    OBVIOUS
  <2>2. PICK t \in Range(weak) : ref[t].val # 0 /\ (o = ref[t].key \/ o = ref[t].val)
    BY <2>1 DEF WeakStrings
  <2>3. t \in Obj /\ Is(t, "table") /\ colour[t] = "gray" /\ o \in OfKind("string")
    BY <1>2, <2>1, <2>2 DEF WeakStrings
  <2>4. Refs(t) = {ref[t].key, ref[t].val, ref[t].meta}
    BY <2>2, <2>3 DEF Refs, Is
  <2>5. o \in KeptRefs(t)
    BY <2>2, <2>3, <2>4 DEF KeptRefs
  <2>6. t \notin old /\ colour[t] # "free"
    BY <1>1, <1>7, <2>3, GrayNotOld
  <2>7. QED
    BY <1>7, <2>3, <2>5, <2>6 DEF OldInv, OldClosed, Allocated
<1>8. ASSUME full # "sweep", NEW o \in old' PROVE colour'[o] = Other(currentwhite')
  <2>1. o \in old
    BY <1>3, <1>8 DEF OldKept
  <2>2. o \in Obj /\ IsWhite(o)
    BY <1>1, <1>8, <2>1 DEF OldInv, OldColours, Garbage, Allocated
  <2>3. ~IsDead(o) /\ currentwhite \in Whites
    BY <1>1, <2>2 DEF IInv, Phases, TypeOK
  <2>4. colour[o] = Other(Other(currentwhite))
    BY <2>2, <2>3 DEF IsWhite, IsDead, Whites, Other
  <2>5. colour'[o] = colour[o]
    BY <1>1, <1>7, <1>8, <2>1, <2>2
  <2>6. QED
    BY <1>1, <2>4, <2>5
<1>9. OldColours'
  <2>1. full # "sweep" => \A o \in old' : IsDead(o)'
    BY <1>8 DEF IsDead, Other
  <2>2. QED
    BY <1>1, <2>1 DEF OldColours
<1> QED
  BY <1>6, <1>9 DEF OldInv

\* Sweeping an object of rootgc frees it if it is dead; at the end none is left.
LEMMA SweepListOld ==
  ASSUME IInv, IInv', OldInv, Remember, sweeplist
  PROVE  OldInv'
<1>1. /\ shape' = shape /\ currentwhite' = currentwhite /\ tmudata' = tmudata /\ full' = full /\ gcstate = "sweep"
      /\ gcstate' \in {"finalize", "sweep"} /\ Obj' = Obj
  BY SweptFrame
<1>2. SweptHeap
  BY SweptHeapIs
<1>3. OldKept
  BY <1>1, RememberKept
<1>4. StackKept
  <2>1. ASSUME NEW th \in OfKind("thread"), NEW s \in Slots(th) PROVE stack'[th][s] = stack[th][s] \/ stack'[th][s] = 0
    BY SweptStack
  <2>2. QED
    BY <2>1 DEF StackKept
<1>5. \A y \in Obj : y \in Keeps' \/ colour'[y] = "free" \/ Same(y) \/ Shut(y)
  <2>1. SUFFICES ASSUME NEW y \in Obj, y \notin SwDead PROVE Same(y) \/ Shut(y)
    BY <1>2 DEF SweptHeap
  <2>2. CASE y \in SwClosed
    <3>1. ref'[y] = Fields(0, ValueOf(y), 0) /\ at'[y] = <<>>
      BY <1>2, <2>2 DEF SweptHeap
    <3>2. Is(y, "upval") /\ colour[y] # "free"
      BY <1>1, <2>2, SweepParts
    <3>3. ref'[y].val = ValueOf(y)
      BY <3>1 DEF Fields
    <3>4. QED
      BY <3>1, <3>2, <3>3 DEF Shut
  <2>3. CASE y \notin SwClosed
    <3>1. ref'[y] = ref[y] /\ at'[y] = at[y]
      BY <1>2, <2>1, <2>3 DEF SweptHeap
    <3>2. colour'[y] # "free" => colour[y] # "free"
      BY SweptColours
    <3>3. QED
      BY <3>1, <3>2 DEF Same
  <2>4. QED
    BY <2>2, <2>3
<1>6. RefsKept
  BY <1>1, <1>4, <1>5, HeapStep
<1>7. (old \subseteq Garbage)' /\ OldClosed'
  BY <1>1, <1>3, <1>6, OldStep
<1>8. ASSUME full # "sweep", NEW o \in old PROVE o \in Obj /\ IsDead(o) /\ (colour'[o] = colour[o] \/ colour'[o] = "free")
  <2>1. o \in Obj /\ IsDead(o)
    BY <1>1, <1>8 DEF OldInv, OldColours, Garbage, Allocated
  <2>2. colour'[o] = colour[o] \/ colour'[o] = "free"
    <3>1. CASE o \in SwDead
      BY <1>2, <2>1, <3>1 DEF SweptHeap
    <3>2. CASE o \notin SwDead
      BY <1>2, <2>1, <3>2 DEF SweptHeap, IsDead
    <3>3. QED
      BY <3>1, <3>2
  <2>3. QED
    BY <2>1, <2>2
<1>9. ColoursKept
  BY <1>8 DEF ColoursKept
<1>10. OldColours'
  <2>1. CASE gcstate' = gcstate
    BY <1>1, <1>3, <1>9, <2>1, OldColoursStep
  <2>2. CASE gcstate' = "finalize"
    <3>1. ASSUME full # "sweep", NEW o \in old' PROVE FALSE
      <4>1. Garbage' = {p \in Obj : colour'[p] # "free"} \ Keeps'
        BY <1>1 DEF Garbage, Keeps, Allocated
      <4>2. o \in old /\ colour'[o] # "free" /\ o \notin Keeps'
        BY <1>3, <3>1, <4>1 DEF OldKept
      <4>3. o \in Obj /\ colour'[o] = Other(currentwhite)
        BY <1>8, <3>1, <4>2 DEF IsDead
      <4>4. o \in Range(tmudata') \/ IsClean(o)'
        BY <1>1, <2>2, <4>3 DEF IInv, Phases
      <4>5. Range(tmudata') \subseteq Keeps'
        BY KeptClosedNext DEF KeptClosed
      <4>6. colour'[o] \in {"free", currentwhite}
        BY <1>1, <4>2, <4>4, <4>5 DEF IsClean
      <4>7. currentwhite # Other(currentwhite)
        BY DEF Other
      <4>8. QED
        BY <4>2, <4>3, <4>6, <4>7
    <3>2. QED
      BY <1>1, <2>2, <3>1 DEF OldColours
  <2>3. QED
    BY <1>1, <2>1, <2>2
<1> QED
  BY <1>7, <1>10 DEF OldInv

\* Nothing has changed.
LEMMA StutterOld ==
  ASSUME IInv, IInv', OldInv, UNCHANGED vars
  PROVE  OldInv'
<1>1. /\ UNCHANGED <<shape, ref, at, stack, colour, currentwhite, full, running, arg, tmudata, gcstate, old>>
  BY DEF vars, program
<1>2. /\ Obj' = Obj /\ Main' = Main /\ Globals' = Globals /\ OfKind("string")' = OfKind("string")
      /\ \A o : \A k : Is(o, k)' = Is(o, k)
  BY <1>1 DEF Obj, OfKind, Is, Main, Globals
<1>3. \A o : Mode(o)' = Mode(o) /\ ValueOf(o)' = ValueOf(o)
  BY <1>1 DEF Mode, ValueOf, Open
<1>4. \A o : Strong(o)' = Strong(o)
  BY <1>1, <1>3 DEF Strong
<1>5. \A o : Refs(o)' = Refs(o)
  <2>1. \A o : Range(stack[o])' = Range(stack[o])
    BY <1>1
  <2>2. QED
    BY <1>1, <1>2, <1>3, <2>1 DEF Refs
<1>6. \A o : StrongRefs(o)' = StrongRefs(o)
  BY <1>2, <1>4, <1>5 DEF StrongRefs
<1>7. \A o : KeptRefs(o)' = KeptRefs(o)
  BY <1>2, <1>5, <1>6 DEF KeptRefs
<1>8. Keeps' = Keeps
  <2>1. PICK refs : refs = [o \in Obj |-> KeptRefs(o) \ {0}]
    OBVIOUS
  <2>2. PICK os : os = Roots \cup Range(tmudata)
    OBVIOUS
  <2>3. Keeps = From(os, refs)
    BY <2>1, <2>2 DEF Keeps, AllRefs
  <2>4. (Roots \cup Range(tmudata))' = os
    BY <1>1, <1>2, <2>2 DEF Roots
  <2>5. AllRefs(KeptRefs)' = refs
    BY <1>2, <1>7, <2>1 DEF AllRefs
  <2>6. Keeps' = From(os, refs)'
    BY <2>4, <2>5 DEF Keeps
  <2>7. From(os, refs)' = From(os, refs)
    BY <1>2 DEF From
  <2>8. QED
    BY <2>3, <2>6, <2>7
<1>9. Garbage' = Garbage /\ Allocated' = Allocated
  BY <1>1, <1>2, <1>8 DEF Garbage, Keeps, Allocated
<1>10. (old \subseteq Garbage)' /\ OldClosed'
  BY <1>1, <1>7, <1>9 DEF OldInv, OldClosed
<1>11. OldColours'
  BY <1>1 DEF OldInv, OldColours, IsWhite, IsDead, Whites, Other
<1> QED
  BY <1>10, <1>11 DEF OldInv

\* Every step keeps old garbage as it should be.
LEMMA NextOld ==
  ASSUME IInv, OldInv, [Next]_vars
  PROVE  OldInv'
<1>1. IInv'
  BY NextKeeps
<1>2. CASE Program
  BY <1>1, <1>2, OperationOld, FullGCOld DEF Program
<1>3. CASE Collector
  BY <1>1, <1>3, MarkrootOld, PropagateOld, RemarkUpvalsOld, RemarkWeakOld, RemarkGrayOld, SeparateUdataOld,
     ClearOld, SweepStringOld, SweepListOld, FinalizeOld DEF Collector, singlestep
<1>4. CASE UNCHANGED vars
  BY <1>1, <1>4, StutterOld
<1> QED
  BY <1>2, <1>3, <1>4 DEF Next

\* Old garbage stays garbage, nothing else refers to it, and no step marks it.
THEOREM OldInvariant == Spec => []OldInv
<1>1. Init => OldInv
  <2>1. Init => old = {}
    BY DEF Init
  <2>2. ASSUME Init PROVE OldInv
    BY <2>1, <2>2 DEF OldInv, OldClosed, OldColours
  <2>3. QED
    BY <2>2
<1>2. IInv /\ OldInv /\ [Next]_vars => OldInv'
  BY NextOld
<1> QED
  BY <1>1, <1>2, CollectorInvariant, PTL DEF Spec

\* What was garbage when a collection began is freed before it ends, whatever the
\* program has done meanwhile.
THEOREM GarbageCollectedHolds == Spec => []GarbageCollected
<1>1. OldInv => GarbageCollected
  BY DEF OldInv, OldColours, GarbageCollected
<1> QED
  BY <1>1, OldInvariant, PTL
=============================================================================
