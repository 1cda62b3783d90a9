------------------------------ MODULE MCLuaGC ------------------------------
(***************************************************************************)
(* Heaps for LuaGC: each has a few kinds of objects and the operations     *)
(* that concern them.  Objects 1 and 2 are the main thread and the globals.*)
(***************************************************************************)
EXTENDS LuaGC

Heap(kinds, slots, keys, vals, mode, gc, ops) ==
  LET all == <<"thread", "table">> \o kinds
  IN  [kinds |-> all, slots |-> [o \in DOMAIN all |-> IF o = 1 THEN slots ELSE 2],
       keys |-> keys, vals |-> vals, gc |-> gc, ops |-> ops,
       mode |-> [o \in DOMAIN all |-> IF o = 2 THEN mode ELSE {}]]

\* Tables and C functions: both barriers.
Barriers == Heap(<<"table", "cclosure">>, 2, {}, {3}, {}, {},
                 {"new", "cclosure", "load", "set", "setupval", "leave", "old"})
FullCollections == Heap(<<"table">>, 1, {}, {3}, {}, {},
                 {"new", "load", "set", "leave", "full", "old"})
\* A table that is weak when the table of globals is its metatable.
WeakKeys == Heap(<<"table", "thread">>, 2, {4}, {2}, {"k"}, {},
                 {"new", "set", "meta", "leave", "old"})
WeakValues == Heap(<<"table", "string">>, 2, {}, {4}, {"v"}, {},
                   {"new", "string", "load", "set", "meta", "leave"})
\* A userdata with a finalizer and a weak table.
Finalizers == Heap(<<"udata", "table">>, 2, {}, {3}, {"v"}, {2},
                   {"new", "udata", "load", "set", "meta", "leave"})
\* Functions that share a variable.
Upvalues == Heap(<<"lclosure", "upval", "string">>, 2, {}, {3, 5}, {}, {},
                 {"string", "lclosure", "load", "set", "setupval", "leave", "old"})
\* A coroutine with a function over one of its variables.
Coroutines == Heap(<<"thread", "lclosure", "upval", "string">>, 2, {}, {4, 6}, {}, {},
                   {"new", "string", "inner", "setupval", "thread", "leave"})
Moves == Heap(<<"thread", "string">>, 2, {}, {4}, {}, {},
              {"new", "string", "xmove", "thread", "leave"})

MCShapes == {Barriers, FullCollections, WeakKeys, WeakValues, Finalizers, Upvalues, Coroutines, Moves}
=============================================================================
