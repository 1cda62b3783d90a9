------------------------------- MODULE LuaGC -------------------------------
(***************************************************************************)
(* The incremental collector of the Lua interpreter (lgc.c), with the      *)
(* barriers of the API and of the virtual machine, upvalues (lfunc.c), the *)
(* string table (lstring.c) and threads (lstate.c).  A program moves       *)
(* references between its stacks and the objects on them; between any two  *)
(* of its operations the collector may take a step.                        *)
(***************************************************************************)
EXTENDS Naturals, Sequences, FiniteSets, SequencesExt

CONSTANT Shapes   \* heaps: kinds of the objects, and what their programs do

Kinds == {"thread", "table", "cclosure", "lclosure", "upval", "udata", "string"}
ASSUME ShapesAssumption ==
  \A sh \in Shapes : /\ sh.kinds \in Seq(Kinds) /\ Len(sh.kinds) >= 2
                     /\ sh.kinds[1] = "thread" /\ sh.kinds[2] = "table"
                     /\ sh.slots \in [1..Len(sh.kinds) -> Nat]
                     /\ sh.keys \cup sh.vals \subseteq 1..Len(sh.kinds)
                     /\ sh.mode \in [1..Len(sh.kinds) -> SUBSET {"k", "v"}]
                     /\ sh.gc \subseteq 1..Len(sh.kinds)

VARIABLES
  shape,        \* the heap, chosen at the start
  colour,       \* marked: two whites, gray, black; "free" if not allocated
  ref,          \* the references an object holds, 0 for none
  stack,        \* thread -> slot -> object
  at,           \* open upvalue -> <<thread, slot>>; <<>> otherwise
  running,      \* L
  currentwhite, gcstate, gray, grayagain, weak, rootgc, tmudata, sweepstrgc,
  stage,        \* how far atomic has come
  sweepgc,      \* the object whose next field sweepgc points to, 0 for rootgc
  finalized,    \* userdata with FINALIZEDBIT
  arg,          \* the userdata whose finalizer runs, 0 for none
  full,         \* luaC_fullgc: "no", "sweep" (what was pending), "mark"
  called,       \* history: userdata whose finalizer has been called
  old           \* history: garbage since the start of the collection

program == <<stack, running, arg>>
lists   == <<gray, grayagain, weak>>
sweeping == <<rootgc, sweepstrgc, sweepgc>>
vars == <<shape, colour, ref, at, program, lists, sweeping, currentwhite, gcstate,
          stage, tmudata, finalized, full, called, old>>

Main    == 1
Globals == 2    \* the table of globals, never replaced; all environments
Obj     == 1..Len(shape.kinds)
Is(o, k) == shape.kinds[o] = k
OfKind(k) == {o \in Obj : Is(o, k)}
Slots(th) == 1..shape.slots[th]

Whites     == {"white0", "white1"}
Other(w)   == IF w = "white0" THEN "white1" ELSE "white0"
IsWhite(o) == colour[o] \in Whites
IsDead(o)  == colour[o] = Other(currentwhite)
Allocated  == {o \in Obj : colour[o] # "free"}
Nothing    == [key |-> 0, val |-> 0, meta |-> 0]

\* The members of S in q, in their order.
Those(q, S) ==
  LET those[i \in 0..Len(q)] ==
        IF i = 0 THEN <<>>
        ELSE IF q[i] \in S THEN Append(those[i - 1], q[i]) ELSE those[i - 1]
  IN  those[Len(q)]
IndexOf(q, x) == CHOOSE i \in DOMAIN q : q[i] = x

Open(u)    == at[u] # <<>>
ValueOf(u) == IF Open(u) THEN stack[at[u][1]][at[u][2]] ELSE ref[u].val
\* openupval of a thread, the highest slot first.
UpvalsAt(th, l) == {u \in OfKind("upval") : at[u] = <<th, l>>}
UpvalAt(th, l) == CHOOSE u \in UpvalsAt(th, l) : TRUE
OpenUpvals(th) ==
  LET down == [i \in Slots(th) |-> shape.slots[th] + 1 - i]
      ls   == Those(down, {l \in Slots(th) : UpvalsAt(th, l) # {}})
  IN  [i \in DOMAIN ls |-> UpvalAt(th, ls[i])]

\* fasttm: the weak mode of a table, and whether a userdata has __gc.
Mode(t)  == IF ref[t].meta = 0 THEN {} ELSE shape.mode[ref[t].meta]
HasGC(u) == ref[u].meta \in shape.gc

-----------------------------------------------------------------------------
(* Marking.  m has the colours and the gray list that marking changes.     *)
Marks == [colour |-> colour, gray |-> gray]

Gathered == {"thread", "table", "cclosure", "lclosure"}   \* have a gclist
Shade(m, o) ==
  IF o = 0 \/ m.colour[o] \notin Whites THEN m
  ELSE [colour |-> [m.colour EXCEPT ![o] = "gray"],
        gray   |-> IF shape.kinds[o] \in Gathered THEN <<o>> \o m.gray ELSE m.gray]

Blacken(m, o) == [m EXCEPT !.colour[o] = "black"]

\* reallymarkobject: a userdata marks its metatable (the environment is the
\* table of globals), an upvalue its value; only open upvalues stay gray.
MarkValue(m, o) ==
  IF o # 0 /\ Is(o, "udata") /\ m.colour[o] \in Whites
  THEN Shade(Blacken(m, o), ref[o].meta)
  ELSE Shade(m, o)
MarkObject(m, o) ==
  IF o # 0 /\ Is(o, "upval") /\ m.colour[o] \in Whites
  THEN MarkValue(IF Open(o) THEN Shade(m, o) ELSE Blacken(m, o), ValueOf(o))
  ELSE MarkValue(m, o)
MarkAll(m, os) ==
  LET marked[i \in 0..Len(os)] == IF i = 0 THEN m ELSE MarkObject(marked[i - 1], os[i])
  IN  marked[Len(os)]

SetMarks(m) == /\ colour' = m.colour /\ gray' = m.gray

\* What traversing a gray object marks: all that is not weak.
Strong(t) ==
  <<ref[t].meta>> \o (IF "v" \in Mode(t) THEN <<>> ELSE <<ref[t].val>>)
                  \o (IF "k" \in Mode(t) \/ ref[t].val = 0 THEN <<>> ELSE <<ref[t].key>>)
AllMarked(o) ==   \* mutant: no table is weak
  CASE Is(o, "table") -> <<ref[o].key, ref[o].val, ref[o].meta>>
    [] Is(o, "thread") -> <<Globals>> \o stack[o]
    [] OTHER -> <<Globals, ref[o].val>>
Traversed(o) == CASE Is(o, "table") -> Strong(o)
                  [] Is(o, "thread") -> <<Globals>> \o stack[o]
                  [] OTHER -> <<Globals, ref[o].val>>

-----------------------------------------------------------------------------
(* Barriers, from the colours that the operation before them left.         *)
MustMark(o, v) == v # 0 /\ IsWhite(v) /\ colour[o] = "black"

SweepOnly(o, v) ==   \* mutant: barrierf never marks
  IF ~MustMark(o, v) THEN UNCHANGED <<colour, gray>>
  ELSE colour' = [colour EXCEPT ![o] = currentwhite] /\ UNCHANGED gray
luaC_barrier(o, v) ==
  IF ~MustMark(o, v) THEN UNCHANGED <<colour, gray>>
  ELSE IF gcstate = "propagate" THEN SetMarks(MarkObject(Marks, v))
  ELSE colour' = [colour EXCEPT ![o] = currentwhite] /\ UNCHANGED gray

luaC_barrierback(t) ==
  /\ colour' = [colour EXCEPT ![t] = "gray"]
  /\ grayagain' = <<t>> \o grayagain
NotAgain(t, vs) ==   \* mutant: gray, but on no list
  /\ colour' = IF \E v \in vs : MustMark(t, v) THEN [colour EXCEPT ![t] = "gray"] ELSE colour
  /\ UNCHANGED grayagain
luaC_barriert(t, vs) ==
  IF \E v \in vs : MustMark(t, v)
  THEN luaC_barrierback(t)
  ELSE UNCHANGED <<colour, grayagain>>

-----------------------------------------------------------------------------
(* The program.  It reaches what is on the stack that runs, the globals    *)
(* and, in a finalizer, the argument.                                      *)
Held   == Range(stack[running]) \cup {Globals, arg}
Values == (Held \cap shape.vals) \cup {0}
May(op) == op \in shape.ops /\ (full = "no" \/ arg # 0) /\ stage = 0
Fresh(k) == {o \in OfKind(k) : colour[o] = "free"}
NewOf(k) == CHOOSE o \in Fresh(k) : \A x \in Fresh(k) : o <= x

Put(s, o)  == stack' = [stack EXCEPT ![running][s] = o]
FreeSlot(s) == stack[running][s] = 0
After(q, x, o) == LET n == IndexOf(q, x)
                  IN  [i \in 1..(Len(q) + 1) |-> IF i <= n THEN q[i]
                                                 ELSE IF i = n + 1 THEN o ELSE q[i - 1]]

\* luaC_link: new objects are white, at the head of rootgc.
LinkAs(o, r) ==
  /\ colour' = [colour EXCEPT ![o] = currentwhite]
  /\ ref' = [ref EXCEPT ![o] = r]
luaC_link(o, r) == LinkAs(o, r) /\ rootgc' = <<o>> \o rootgc

New(s) ==   \* lua_createtable, lua_newthread
  /\ May("new") /\ FreeSlot(s)
  /\ \E k \in {"table", "thread"} :
       /\ Fresh(k) # {}
       /\ luaC_link(NewOf(k), Nothing)
       /\ Put(s, NewOf(k))
  /\ UNCHANGED <<at, running, arg, lists, sweepstrgc, sweepgc, finalized, called>>

NewUdata(s) ==   \* luaS_newudata: after the main thread
  /\ May("udata") /\ FreeSlot(s) /\ Fresh("udata") # {}
  /\ LET u == NewOf("udata")
     IN  /\ LinkAs(u, Nothing)
         /\ rootgc' = After(rootgc, Main, u)
         /\ Put(s, u)
         /\ finalized' = finalized \ {u} /\ called' = called \ {u}
  /\ UNCHANGED <<at, running, arg, lists, sweepstrgc, sweepgc>>

NewCclosure(s, v) ==   \* lua_pushcclosure of one upvalue
  /\ May("cclosure") /\ FreeSlot(s) /\ Fresh("cclosure") # {}
  /\ luaC_link(NewOf("cclosure"), [Nothing EXCEPT !.val = v])
  /\ Put(s, NewOf("cclosure"))
  /\ UNCHANGED <<at, running, arg, lists, sweepstrgc, sweepgc, finalized, called>>

StayDead(o) == colour   \* mutant: no changewhite
\* A string that is in the table is used again, dead or not.
Changewhite(o) == IF IsDead(o) THEN [colour EXCEPT ![o] = currentwhite] ELSE colour
luaS_newlstr(s, o) ==
  /\ May("string") /\ FreeSlot(s) /\ Is(o, "string")
  /\ colour' = IF colour[o] = "free" THEN [colour EXCEPT ![o] = currentwhite]
               ELSE Changewhite(o)
  /\ Put(s, o)
  /\ UNCHANGED <<ref, at, running, arg, lists, sweeping, finalized, called>>

\* OP_CLOSURE over the local variable in slot l: luaF_findupval shares the
\* open upvalue of the slot.
NewLclosure(s, l) ==
  /\ May(IF running = Main THEN "lclosure" ELSE "inner")
  /\ FreeSlot(s) /\ Fresh("lclosure") # {} /\ l # s
  /\ \E c \in {NewOf("lclosure")}, u \in IF UpvalsAt(running, l) # {} THEN UpvalsAt(running, l) ELSE Fresh("upval") :
       /\ UpvalsAt(running, l) = {} => u = NewOf("upval")
       /\ colour' = IF UpvalsAt(running, l) = {} THEN [colour EXCEPT ![c] = currentwhite, ![u] = currentwhite]
                    ELSE [Changewhite(u) EXCEPT ![c] = currentwhite]
       /\ ref' = [ref EXCEPT ![c] = [Nothing EXCEPT !.val = u]]
       /\ at' = [at EXCEPT ![u] = <<running, l>>]
       /\ rootgc' = <<c>> \o rootgc
       /\ Put(s, c)
  /\ UNCHANGED <<running, arg, lists, sweepstrgc, sweepgc, finalized, called>>

\* Reads: fields, the metatable, upvalues, and copies.
Contents(o) ==
  CASE Is(o, "lclosure") -> {ValueOf(ref[o].val)}
    [] Is(o, "thread")   -> {}
    [] Is(o, "table") /\ ref[o].val = 0 -> {ref[o].meta}
    [] OTHER -> {ref[o].key, ref[o].val, ref[o].meta}
Load(s, o, v) ==
  /\ May("load") /\ FreeSlot(s) /\ o # 0 /\ v \in Contents(o)
  /\ Put(s, v)
  /\ UNCHANGED <<colour, ref, at, running, arg, lists, sweeping, finalized, called>>

\* luaV_settable, luaH_set: a table has one entry.  The key is a collectable
\* value or 0 for any other; a new key has the barrier of luaH_newkey.
Keys == (Held \cap shape.keys) \cup {0}
SetEntry(t, k, v) ==
  /\ May("set") /\ t \in OfKind("table")
  /\ k # ref[t].key => ref[t].val = 0
  /\ ref' = [ref EXCEPT ![t] = [key |-> k, val |-> v, meta |-> ref[t].meta]]
  /\ luaC_barriert(t, IF k = ref[t].key THEN {v} ELSE {k, v})
  /\ UNCHANGED <<at, program, gray, weak, sweeping, finalized, called>>

\* lua_setmetatable.
Metatables == {t \in OfKind("table") : shape.mode[t] # {} \/ t \in shape.gc}
SetMetatable(o, mt) ==
  /\ May("meta") /\ o \notin {0, Globals}
  /\ mt \in Metatables \cup {0}
  /\ ref' = [ref EXCEPT ![o].meta = mt]
  /\ \/ Is(o, "table") /\ luaC_barriert(o, {mt}) /\ UNCHANGED gray
     \/ Is(o, "udata") /\ luaC_barrier(o, mt) /\ UNCHANGED grayagain
  /\ UNCHANGED <<at, program, weak, sweeping, finalized, called>>

\* lua_replace of an upvalue of a C function; OP_SETUPVAL.
SetUpvalue(c, v) ==
  /\ May("setupval") /\ c # 0
  /\ \/ /\ Is(c, "cclosure")
        /\ ref' = [ref EXCEPT ![c].val = v]
        /\ luaC_barrier(c, v)
        /\ UNCHANGED stack
     \/ /\ Is(c, "lclosure")
        /\ LET u == ref[c].val
           IN  /\ IF Open(u) THEN /\ stack' = [stack EXCEPT ![at[u][1]][at[u][2]] = v]
                                  /\ UNCHANGED ref
                             ELSE ref' = [ref EXCEPT ![u].val = v] /\ UNCHANGED stack
               /\ luaC_barrier(u, v)
  /\ UNCHANGED <<at, running, arg, grayagain, weak, sweeping, finalized, called>>

\* luaC_linkupval, after luaF_close has given the upvalue its value: a gray one
\* is black while marking (with a barrier) and white while sweeping.
Closed(m, u) ==
  IF m.colour[u] # "gray" THEN m
  ELSE IF gcstate = "propagate" THEN MarkObject(Blacken(m, u), ValueOf(u))
  ELSE [m EXCEPT !.colour[u] = currentwhite]

CloseAll(m, us) ==
  LET closed[i \in 0..Len(us)] == IF i = 0 THEN m ELSE Closed(closed[i - 1], us[i])
  IN  closed[Len(us)]

\* luaF_close of the upvalues us, the highest first: dead ones are freed.
luaF_close(m, us) ==
  LET living == Those(us, {u \in Obj : m.colour[u] # Other(currentwhite)})
      m1     == CloseAll(m, living)
  IN  [colour |-> [o \in Obj |-> IF Contains(us, o) /\ ~Contains(living, o) THEN "free"
                                 ELSE m1.colour[o]],
       gray |-> m1.gray,
       ref  |-> [o \in Obj |-> IF Contains(living, o) THEN [Nothing EXCEPT !.val = ValueOf(o)]
                               ELSE ref[o]],
       at   |-> [o \in Obj |-> IF Contains(us, o) THEN <<>> ELSE at[o]],
       new  |-> Reverse(living)]

\* OP_RETURN, OP_CLOSE: the locals from slot l on end.
Leave(l) ==
  /\ May("leave") /\ \E s \in l..Len(stack[running]) : ~FreeSlot(s)
  /\ LET c == luaF_close(Marks, Those(OpenUpvals(running), {u \in OfKind("upval") : Open(u) /\ at[u][2] >= l}))
     IN  /\ SetMarks(c) /\ ref' = c.ref /\ at' = c.at /\ rootgc' = c.new \o rootgc
  /\ stack' = [stack EXCEPT ![running] = [s \in Slots(running) |-> IF s >= l THEN 0 ELSE stack[running][s]]]
  /\ UNCHANGED <<running, arg, grayagain, weak, sweepstrgc, sweepgc, finalized, called>>

\* Coroutines: lua_xmove to a thread, lua_resume, lua_yield.
Xmove(th, v) ==
  /\ May("xmove") /\ th \in OfKind("thread") \ {running}
  /\ v # 0 /\ \E s \in Slots(th) : stack[th][s] = 0 /\ stack' = [stack EXCEPT ![th][s] = v]
  /\ UNCHANGED <<colour, ref, at, running, arg, lists, sweeping, finalized, called>>
Resume(th) ==
  /\ May("thread") /\ running = Main /\ th \in (OfKind("thread") \cap Held) \ {Main}
  /\ running' = th
  /\ UNCHANGED <<colour, ref, at, stack, arg, lists, sweeping, finalized, called>>
Yield ==   \* with a value or none
  /\ May("thread") /\ running # Main
  /\ running' = Main
  /\ \/ UNCHANGED stack
     \/ \E v \in Values \ {0}, s \in Slots(Main) :
          stack[Main][s] = 0 /\ stack' = [stack EXCEPT ![Main][s] = v]
  /\ UNCHANGED <<colour, ref, at, arg, lists, sweeping, finalized, called>>

\* The finalizer returns.
Finalized ==
  /\ arg # 0
  /\ arg' = 0
  /\ UNCHANGED <<colour, ref, at, stack, running, lists, sweeping, finalized, called>>

\* luaC_fullgc (collectgarbage) drops a mark phase that has begun and finishes
\* the sweep; the program goes on when all is done.
FullGC ==
  /\ May("full") /\ full = "no" /\ arg = 0
  /\ full' = "sweep"
  /\ IF gcstate \in {"pause", "propagate"}
     THEN /\ gcstate' = "sweepstring" /\ sweepstrgc' = 0 /\ sweepgc' = 0
          /\ gray' = <<>> /\ grayagain' = <<>> /\ weak' = <<>>
     ELSE UNCHANGED <<gcstate, lists, sweepstrgc, sweepgc>>
  /\ UNCHANGED <<shape, colour, ref, at, program, rootgc, currentwhite, stage, tmudata,
                 finalized, called>>

Operation ==
  /\ \/ \E s \in Slots(running) :
          \/ New(s) \/ NewUdata(s)
          \/ \E v \in Held : NewCclosure(s, v)
          \/ \E o \in OfKind("string") : luaS_newlstr(s, o)
          \/ \E l \in Slots(running) : NewLclosure(s, l)
          \/ \E o \in Held, v \in Obj : Load(s, o, v)
     \/ \E o \in Held, v \in Values :
          \/ \E k \in Keys : SetEntry(o, k, v)
          \/ SetUpvalue(o, v) \/ Xmove(o, v)
     \/ \E o, mt \in Held : SetMetatable(o, mt)
     \/ \E l \in Slots(running) : Leave(l)
     \/ \E th \in OfKind("thread") : Resume(th)
     \/ Yield \/ Finalized
  /\ UNCHANGED <<shape, currentwhite, gcstate, stage, tmudata, full>>

-----------------------------------------------------------------------------
(* The collector: singlestep.  atomic is taken apart into the traversals   *)
(* of single objects; the program does not run meanwhile (stage # 0).      *)
Collecting == arg = 0

markroot ==
  /\ Collecting
  /\ \/ gcstate = "pause" /\ UNCHANGED full
     \/ gcstate = "finalize" /\ full = "sweep" /\ full' = "mark"
  /\ SetMarks(MarkAll([Marks EXCEPT !.gray = <<>>], <<Main, Globals>>))
  /\ grayagain' = <<>> /\ weak' = <<>> /\ gcstate' = "propagate"
  /\ UNCHANGED <<shape, ref, at, program, sweeping, currentwhite, stage, tmudata,
                 finalized, called>>

propagatemark ==
  /\ Collecting /\ gcstate = "propagate" /\ gray # <<>>
  /\ LET o == Head(gray)
         m == MarkAll([Blacken(Marks, o) EXCEPT !.gray = Tail(gray)], Traversed(o))
         isWeak == Is(o, "table") /\ Mode(o) # {}
     IN  /\ gray' = m.gray
         /\ colour' = IF Is(o, "thread") \/ isWeak THEN [m.colour EXCEPT ![o] = "gray"] ELSE m.colour
         /\ grayagain' = IF Is(o, "thread") THEN <<o>> \o grayagain ELSE grayagain
         /\ weak' = IF isWeak THEN <<o>> \o weak ELSE weak
         /\ ref' = IF Is(o, "table") /\ ref[o].val = 0 /\ Mode(o) # {"k", "v"}
                   THEN [ref EXCEPT ![o].key = 0] ELSE ref      \* removeentry
  /\ UNCHANGED <<shape, at, program, sweeping, currentwhite, gcstate, stage, tmudata,
                 finalized, full, called>>

\* The stages of atomic; each begins when the gray list is empty.
InAtomic(n) ==
  /\ Collecting /\ gcstate = "propagate" /\ gray = <<>> /\ stage = n
  /\ stage' = (n + 1) % 5
NoFlip == UNCHANGED <<shape, ref, at, program, sweeping, currentwhite, gcstate, full, called>>

Objects == [o \in Obj |-> o]
GrayValues == LET us == Those(Objects, {u \in OfKind("upval") : Open(u) /\ colour[u] = "gray"})
              IN  [i \in DOMAIN us |-> ValueOf(us[i])]
remarkupvals ==
  /\ InAtomic(0)
  /\ SetMarks(MarkAll(Marks, GrayValues))
  /\ NoFlip /\ UNCHANGED <<grayagain, weak, tmudata, finalized>>

RemarkWeak ==
  /\ InAtomic(1)
  /\ SetMarks(MarkObject([Marks EXCEPT !.gray = weak], running))
  /\ weak' = <<>>
  /\ NoFlip /\ UNCHANGED <<grayagain, tmudata, finalized>>

ForgetAgain ==   \* mutant: grayagain is not traversed
  /\ InAtomic(2)
  /\ grayagain' = <<>>
  /\ NoFlip /\ UNCHANGED <<colour, gray, weak, tmudata, finalized>>
RemarkGray ==
  /\ InAtomic(2)
  /\ gray' = grayagain /\ grayagain' = <<>>
  /\ NoFlip /\ UNCHANGED <<colour, weak, tmudata, finalized>>

SeparateAgain ==   \* mutant: the finalized bit is not looked at
  Those(rootgc, {u \in OfKind("udata") : IsWhite(u) /\ HasGC(u)})
\* luaC_separateudata and marktmu.
Separated == Those(rootgc, {u \in OfKind("udata") : /\ IsWhite(u) /\ u \notin finalized
                                                    /\ HasGC(u)})
SeparateUdata ==
  /\ InAtomic(3)
  /\ finalized' = finalized \cup {u \in OfKind("udata") : IsWhite(u)}
  /\ rootgc' = Those(rootgc, Obj \ Range(Separated))
  /\ tmudata' = tmudata \o Separated
  /\ LET us == tmudata \o Separated
         w  == [Marks EXCEPT !.colour = [o \in Obj |-> IF Contains(us, o) THEN currentwhite
                                                       ELSE colour[o]]]
     IN  SetMarks(MarkAll(w, us))
  /\ UNCHANGED <<shape, ref, at, program, sweepstrgc, sweepgc, grayagain, weak, currentwhite,
                 gcstate, full, called>>

\* cleartable, with iscleared: strings are values and never cleared, finalized
\* userdata are kept as keys.
IsCleared(o, iskey) ==
  o # 0 /\ ~Is(o, "string") /\ (IsWhite(o) \/ (Is(o, "udata") /\ ~iskey /\ o \in finalized))
Cleared(t) == ref[t].val # 0 /\ (IsCleared(ref[t].key, TRUE) \/ IsCleared(ref[t].val, FALSE))
WeakStrings == {o \in OfKind("string") : \E t \in Range(weak) :
                  ref[t].val # 0 /\ (o = ref[t].key \/ (o = ref[t].val /\ ~IsCleared(ref[t].key, TRUE)))}
cleartable ==
  /\ InAtomic(4)
  /\ ref' = [o \in Obj |-> IF Contains(weak, o) /\ Cleared(o)
                           THEN [Nothing EXCEPT !.meta = ref[o].meta] ELSE ref[o]]
  /\ colour' = [o \in Obj |-> IF o \in WeakStrings /\ IsWhite(o) THEN "gray" ELSE colour[o]]
  /\ currentwhite' = Other(currentwhite)
  /\ sweepstrgc' = 0 /\ sweepgc' = 0 /\ gcstate' = "sweepstring"
  /\ UNCHANGED <<shape, at, program, lists, rootgc, tmudata, finalized, full, called>>

\* A chain of the string table is one string.
Strings == Those(Objects, OfKind("string"))
Swept(o) == IF colour[o] = "free" THEN "free"
            ELSE IF IsDead(o) THEN "free" ELSE currentwhite
sweepstring ==
  /\ Collecting /\ gcstate = "sweepstring"
  /\ colour' = IF Strings = <<>> THEN colour
               ELSE [colour EXCEPT ![Strings[sweepstrgc + 1]] = Swept(Strings[sweepstrgc + 1])]
  /\ sweepstrgc' = sweepstrgc + 1
  /\ gcstate' = IF sweepstrgc + 1 >= Len(Strings) THEN "sweep" ELSE gcstate
  /\ UNCHANGED <<shape, ref, at, program, lists, rootgc, sweepgc, currentwhite, stage, tmudata,
                 finalized, full, called>>

\* sweeplist for one object of rootgc; a thread sweeps its open upvalues, and
\* luaE_freethread closes those that live on.
Position  == IF sweepgc = 0 THEN 1 ELSE IndexOf(rootgc, sweepgc) + 1
sweeplist ==
  /\ Collecting /\ gcstate = "sweep"
  /\ LET o  == rootgc[Position]
         us == IF Is(o, "thread") THEN OpenUpvals(o) ELSE <<>>
         swept == {o} \cup Range(us)
         dead  == {x \in swept : IsDead(x)}
         m  == [Marks EXCEPT !.colour = [x \in Obj |-> IF x \in dead THEN "free"
                              ELSE IF x \in swept THEN currentwhite ELSE colour[x]]]
         c  == luaF_close(m, IF o \in dead THEN Those(us, Obj \ dead) ELSE <<>>)
     IN  /\ colour' = c.colour
         /\ ref' = [x \in Obj |-> IF x \in dead THEN Nothing ELSE c.ref[x]]
         /\ at' = [x \in Obj |-> IF x \in dead THEN <<>> ELSE c.at[x]]
         /\ rootgc' = c.new \o (IF o \in dead THEN RemoveAt(rootgc, Position) ELSE rootgc)
         /\ stack' = [th \in DOMAIN stack |-> IF th \in dead THEN [s \in Slots(th) |-> 0] ELSE stack[th]]
         /\ sweepgc' = IF o \in dead THEN sweepgc ELSE o
  /\ gcstate' = IF Last(rootgc') = sweepgc' THEN "finalize" ELSE gcstate
  /\ UNCHANGED <<shape, running, arg, lists, sweepstrgc, currentwhite, stage, tmudata, finalized,
                 full, called>>

\* GCTM: the userdata goes back to rootgc and its finalizer is called.
GCTM ==
  /\ Collecting /\ gcstate = "finalize" /\ full # "sweep" /\ tmudata # <<>>
  /\ LET u == Head(tmudata)
     IN  /\ tmudata' = Tail(tmudata)
         /\ rootgc' = After(rootgc, Main, u)
         /\ colour' = [colour EXCEPT ![u] = currentwhite]
         /\ arg' = IF HasGC(u) THEN u ELSE 0
         /\ called' = IF HasGC(u) THEN called \cup {u} ELSE called
  /\ UNCHANGED <<shape, ref, at, stack, running, lists, sweepstrgc, sweepgc, currentwhite, gcstate,
                 stage, finalized, full>>

EndCollection ==
  /\ Collecting /\ gcstate = "finalize" /\ full # "sweep" /\ tmudata = <<>>
  /\ gcstate' = "pause" /\ full' = "no"
  /\ UNCHANGED <<shape, colour, ref, at, program, lists, sweeping, currentwhite, stage, tmudata,
                 finalized, called>>

singlestep == \/ markroot \/ propagatemark
              \/ remarkupvals \/ RemarkWeak \/ RemarkGray \/ SeparateUdata \/ cleartable
              \/ sweepstring \/ sweeplist \/ GCTM \/ EndCollection

Init ==
  /\ shape \in Shapes
  /\ colour = [o \in Obj |-> IF o \in {Main, Globals} THEN "white0" ELSE "free"]
  /\ ref = [o \in Obj |-> Nothing] /\ at = [o \in Obj |-> <<>>]
  /\ stack = [th \in OfKind("thread") |-> [s \in Slots(th) |-> 0]]
  /\ running = Main /\ arg = 0 /\ full = "no"
  /\ currentwhite = "white0" /\ gcstate = "pause" /\ stage = 0
  /\ gray = <<>> /\ grayagain = <<>> /\ weak = <<>> /\ tmudata = <<>>
  /\ rootgc = <<Globals, Main>> /\ sweepstrgc = 0 /\ sweepgc = 0
  /\ finalized = {} /\ called = {} /\ old = {}

-----------------------------------------------------------------------------
(* What can be reached, and the garbage.                                   *)
Refs(o) ==
  CASE Is(o, "thread") -> Range(stack[o])
    [] Is(o, "upval")  -> {ValueOf(o)}
    [] Is(o, "table") /\ ref[o].val = 0 -> {ref[o].meta}
    [] OTHER -> {ref[o].key, ref[o].val, ref[o].meta}
StrongRefs(o) == IF Is(o, "table") THEN Range(Strong(o)) ELSE Refs(o)
\* A weak table keeps its strings as well (iscleared: they are values).
KeptRefs(o) == StrongRefs(o) \cup (Refs(o) \cap OfKind("string"))

From(os, refs) ==
  LET closed == {s \in {os \cup more : more \in SUBSET (Obj \ os)} : \A o \in s : refs[o] \subseteq s}
  IN  {o \in Obj : \A s \in closed : o \in s}
AllRefs(f(_)) == [o \in Obj |-> f(o) \ {0}]
Roots   == {Main, Globals, running, arg} \ {0}
Reached == From(Roots \cup Range(tmudata), AllRefs(Refs))
\* Not through what waits for its finalizer: such userdata may be black from the
\* collection before and are traversed at the end of the mark phase only (marktmu).
Unqueued(o) == IF o \in Range(tmudata) THEN {} ELSE StrongRefs(o)
Used    == From(Roots \ Range(tmudata), AllRefs(Unqueued))
Garbage == Allocated \ From(Roots \cup Range(tmudata), AllRefs(KeptRefs))

\* old is what was garbage when the collection started and still is.
Remember ==
  old' = IF "old" \notin shape.ops THEN {}   \* not recorded in every heap
         ELSE IF gcstate' = "propagate" /\ gcstate # "propagate" THEN Garbage'
         ELSE IF old = {} THEN {} ELSE old \cap Garbage'
Collector == singlestep /\ Remember
Program   == (Operation \/ FullGC) /\ Remember
Next == Program \/ Collector

Spec == Init /\ [][Next]_vars

-----------------------------------------------------------------------------
(* Properties.                                                             *)
\* Nothing that can be reached is freed: not through a stack, a field, an entry
\* of a weak table, an upvalue (open ones lead into the stack of a thread that
\* exists), nor from a finalizer that is still to run.
NoDangling ==
  \A o \in Reached : /\ colour[o] # "free"
                     /\ Is(o, "upval") /\ Open(o) => colour[at[o][1]] # "free"

\* The invariant of lgc.c: while marking, no black object refers to a white one
\* (except weakly), whatever the program has stored meanwhile.  A userdata that
\* waits for its finalizer may be black from the collection before (marktmu).
BlackNotToWhite ==
  gcstate = "propagate" =>
    \A o \in Allocated \ Range(tmudata) : colour[o] = "black" => \A r \in StrongRefs(o) \ {0} : ~IsWhite(r)

\* Lists are threaded through one field, gclist: while marking, a gray object is
\* on exactly one list, once, and no other object is on a list.
OnOneList ==
  gcstate = "propagate" =>
    LET listed == gray \o grayagain \o weak
    IN  /\ Range(listed) = {o \in Obj : shape.kinds[o] \in Gathered /\ colour[o] = "gray"}
        /\ Cardinality(Range(listed)) = Len(listed)

\* What was garbage when a collection began is gone when it ends, except the
\* userdata whose finalizers will run and what these can reach.
GarbageCollected == gcstate = "finalize" /\ full # "sweep" => old = {}

\* A finalizer is called once in the life of its userdata.
FinalizedOnce == [][arg' \notin {0, arg} => arg' \notin called]_vars

\* Only what the program cannot reach, except through userdata that wait for
\* their finalizers, is queued for finalization, and an entry of a weak table is
\* removed only if its key or value is such (or a value that has been finalized).
OnlyGarbage ==
  [][/\ \A u \in Range(tmudata') \ Range(tmudata) : u \notin Used
     /\ stage = 4 => \A t \in Range(weak) :
          ref'[t].val # ref[t].val => \/ ref[t].key # 0 /\ ref[t].key \notin Used
                                      \/ ref[t].val \notin Used
                                      \/ ref[t].val \in finalized]_vars
=============================================================================
