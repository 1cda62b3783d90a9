----------------------------- MODULE MCLuaTable -----------------------------
EXTENDS LuaTable
CONSTANTS x, y, z, s, a, b

Names == [names |-> {x, y, z, s}, strings |-> {s}, objects |-> {x, y, s}, last |-> 0,
          values |-> {a}, lists |-> {},
          hash |-> (x :> 0) @@ (y :> 3) @@ (z :> 1) @@ (s :> 3) @@ [i \in 1..5 |-> 0],
          ops |-> {"set", "next", "gc", "weak"}]
List == [names |-> {x}, strings |-> {}, objects |-> {}, last |-> 4,
          values |-> {a, b}, lists |-> {2},
          hash |-> (x :> 1) @@ [i \in 1..5 |-> IF i = 4 THEN 1 ELSE i],
          ops |-> {"set", "list", "setlist"}]
MCUses == {Names, List}
MCSizes == {1, 2, 4, 8}
=============================================================================
