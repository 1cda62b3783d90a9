# CLike in TLA+

A verification development for the repository: models of its program logic,
TLC runs that check them on small instances, and TLAPS proofs of what matters
most for every instance.

The repository holds **CLike** (`CLike/CLike`), a one-pass
compiler and linker for a subset of C that writes x86 code, COFF objects and PE
files; **Lua 5.1** (`LuaProject/Lua/lualib`), kept in source form, with a **class
library** (`lua/class.lua`) and a protobuf library for it; and a **red-black tree**
(`Algorithms/RBTree/RBTree.h`). All of them are sequential: there are no
threads, messages or restarts, except that Lua's collector takes its steps
between those of the program. What is hard in them is *order*: the compiler
keeps half-finished work (jumps without a target, declarations without a type,
scopes that are open, entries of tables that refer to each other by index)
through arbitrarily nested calls of a recursive-descent parser, and `error()`
prints and returns (`CL_Util.cpp:50-56` passes `LEVEL_WARNING`), so every
rejected input is compiled further.

## 1. Inventory

Paths are relative to `src/CLike/CLike` unless they say otherwise.

| Component | State | Operations | Works with | What makes it correct |
|---|---|---|---|---|
| **Control-flow code generation** (`CL_Syntax.cpp` statements, `CL_CodeGen.cpp` jumps) | `.text`, `ind`, `rsym`, `func_begin_ind`, `func_ret_sub`, the list heads `a`, `b`, `bsym`, `csym` in C++ frames, lists threaded through the code | `if_statement`, `for_statement`, `break_`, `continue_`, `return_statement`, `funcbody`, `gen_prolog`, `gen_epilog`, `makelist`, `gen_jmpforward`, `gen_jmpbackward`, `gen_jcc`, `backpatch` | expressions emit code between the jumps | every jump goes where its statement says; no list loses or shares a slot; no link is left as a displacement; prologue fits its gap |
| **Symbol table and declarations** (`CL_Syntax.cpp`) | `global_sym_stack`, `local_sym_stack`, `TKWord::sym_identifier` and `sym_struct` with `prev_tok` chains, references between symbols (`next`, `type.ref`) | `sym_push`, `func_sym_push`, `var_sym_put`, `sym_pop`, `sym_search`, `struct_search`, the declaration functions, `compound_statement` | expressions look names up and push symbols; sections and COFF symbols get entries for them | a lookup finds the innermost declaration; leaving a block restores what was visible; no reference leads to a deleted symbol |
| **Expressions, operand stack, registers** (`CL_CodeGen.*`, expression part of `CL_Syntax.cpp`) | `operand_stack`, `loc`, registers named by operands | `operand_push/pop/swap`, `load_1`, `load_2`, `store0_1`, `gen_op`, `gen_opi2`, `gen_invoke`, `gen_call`, `allocate_reg`, `spill_reg`, `indirection` | `.text`, relocations | a register holds at most one operand; a spilled operand is found again; the stack is balanced; no operand is used after its pop |
| **Storage and initializers** | `codegen.loc`, `data_offset` of `.data`, `.rdata`, `.bss` | `allocate_storage`, `init_variable`, `initializer`, `type_size`, `calc_align` | sections | objects do not overlap and are aligned; writes stay inside the section |
| **Object file** (`CL_Coff.*`) | sections (`data`, `data_offset`, `data_allocated`), symbol tables with a hash table of indexes, string tables, `.rel` | `InitCoff`, `section_new`, `section_ptr_add`, `coffsym_add`, `coffsym_add_update`, `coffsym_search`, `coffreloc_add`, `write_obj` | compiler writes it, linker reads it | one entry per name; a definition updates the entry a use has made; relocations refer to the entry of their symbol |
| **Linker** (`CL_Link.*`) | a `Coff` of its own, `array_dll`, import lists, PE headers | `load_obj_file`, `pe_load_lib_file`, `resolve_coffsyms`, `pe_add_import`, `pe_build_imports`, `relocate_syms`, `coffrelocs_fixup`, `pe_write` | `Coff`, `.slib` lists | indexes of an object are renumbered consistently; every undefined symbol is resolved or reported; sections do not overlap |
| **Lexer** (`CL_Lex.*`) | `code_buf`, `idx_buf`, `cur_ch`, `token`, `tkstr`, `tkvalue`, `linenum` | `get_token`, `preprocess`, `parse_comment`, `parse_num`, `parse_string`, `unget_char` | word table, parser | every character is in one token; every call ends and makes progress |
| **Word table** (`CL_Hash.h`) | `tk_hashtable`, `tk_wordtable` | `direct_insert`, `find`, `insert` | lexer, symbol table | one node per word, code = position |
| **Driver, diagnostics** (`main.cpp`, `CL_Util.cpp`) | options, list of files | `process_command`, `compile`, `main`, `error` | all of the above | what is compiled is what is written; state of one file does not leak into the next |
| **Import lists** (`lib/*.slib`) | data | | linker | |
| **Red-black tree** (`src/Algorithms/RBTree/RBTree.h`) | tree of coloured nodes | `insert_node`, `fixup_insert`, `left_rotate`, `right_rotate`, `find` | | order, colours, parent links, found after insert |
| **Class library** (`src/LuaProject/Lua/lua/class.lua`) | a meta table per class, built flags | `declare`, `define`, `create_*`, `_copy_attribute`, `method`, `field` | Lua tables | inherited and overriding methods; independent of the order in which classes are first used |
| **Lua collector** (`lualib/lgc.c`, `lfunc.c`, `lstring.c`) | colours of the objects, gray lists, sweep positions, finalizers, open upvalues | `singlestep`, `atomic`, barriers, `luaC_separateudata`, `GCTM`, `luaF_close`, and the operations of the API and machine that move references | the program it interrupts | nothing reachable is freed, garbage is, a finalizer runs once |
| **Lua tables** (`lualib/ltable.c`) | array part, node vector with chains, `lastfree` | `luaH_get`, `luaH_set`, `newkey`, `rehash`, `resize`, `luaH_next`, `luaH_getn` | API, machine, table library, collector | a table is a map; a traversal misses no key; the length is a boundary |
| **Lua compiler and machine** (`lparser.c`, `lcode.c`, `lvm.c`, `ldo.c`, ...) | function states, jump lists, registers; stack, frames, upvalues, tables | the grammar rules, `luaK_*`, `luaV_execute`, `luaD_precall`, `luaD_poscall` | scanner, libraries | a program does what it means; assertions hold |
| **protobuf, Lua libraries, project files** | vendored or generated | | | |

### Hard behaviours

* *Unfinished work through nested calls.* A jump list, a parameter list, a
  member list, a scope, all live in C++ locals while the calls inside them make
  more of the same kind.
* *Indexes and links as data.* A pending slot of `.text` holds the address of
  the next one; a symbol holds the next one of its name; COFF entries hold
  indexes. A stale or lost link is not detected anywhere.
* *Use after free.* Popping a block deletes symbols that types may refer to;
  popping an operand deletes an operand the caller may still hold.
* *Going on after an error.* Guards that are only messages.
* *Boundaries.* One byte or four for a displacement; `v < SC_ANOM` on values
  with the sign bit; `calc_align`; growing sections.
* *Several files.* Lexer, tables and sections that are initialised again, or are
  not.

* *Work that starts itself again.* `newkey` finds no node and rehashes; `resize`
  puts elements back through the same assignment that is waiting for a place.
* *A collector between any two operations.* Every store needs the barrier that
  fits the colours and the phase.

The hazards, each at its line, are in `PROJECT.json`; those without a property
say why.

## 2. What is modelled

| Module | Models |
|---|---|
| `JumpGen` | control-flow code generation, with its properties and inductive invariant |
| `JumpLabels` | its abstract specification: jumps to labels, without lists |
| `MCJumpGen` | instances for TLC |
| `JumpGenProofs` | theorems about `JumpGen`: lists, layout of the code, the refinement of `JumpLabels` |
| `SymbolScope` | symbol table and declarations, with its properties and inductive invariant |
| `ScopeRules` | its abstract specification: nested scopes |
| `MCSymbolScope` | symmetry for TLC |
| `SymbolScopeProofs` | theorems about `SymbolScope`: chains and markers, types and parameter lists; the refinement of `ScopeRules` |
| `ObjectFile` | symbol table and relocations of the object file, with its properties and inductive invariant |
| `MCObjectFile` | hash function and symmetry for TLC |
| `ObjectFileProofs` | theorems about `ObjectFile` |
| `Operands` | expressions: operand stack and registers, with its properties and inductive invariant |
| `MCOperands` | programs for TLC |
| `OperandsProofs` | theorems about `Operands` |
| `Lexer` | lexer and word table, with the tokens of a text as a definition |
| `MCLexer` | files and keywords for TLC |
| `LexerProofs` | theorems about the word table and the words of `Lexer` |
| `LuaTable` | a table of Lua: array part, nodes, rehash, traversal, length, and what programs and the collector do to it, with its properties and inductive invariant |
| `MCLuaTable` | two programs for TLC |
| `LuaTableProofs` | theorems about `LuaTable` |
| `LuaGC` | the collector of Lua and the program it interrupts |
| `MCLuaGC` | heaps for TLC |
| `LuaGCProofs` | theorems about `LuaGC`, with its inductive invariant: nothing in use is freed |
| `LuaGCGarbageProofs` | theorems about its garbage, with the invariant of old garbage |
| `LuaCode`, `LuaParser`, `LuaDebug` | the compiler of Lua: code generator, parser, checker of the code |
| `LuaVM` | the virtual machine of Lua, running what `LuaParser` makes of a program |
| `LuaMeaning` | the reference it is compared with: syntax trees, their text, an evaluator |
| `MCLuaVM` | programs for TLC, and the comparison |

### JumpGen

The state is the generator's: `ind`, the bytes written (`code`: where each
instruction starts, its opcode and length; `text`: what each displacement
holds), `rsym`, `func_begin_ind`, `func_ret_sub`. The C++ call stack is the
variable `stack`: a frame per active `if_statement` or `for_statement` with its
locals (`a`, `b`, `c`, `d`) and the position of the frame that `bsym` and `csym`
point into (0 for NULL). `patching` is the `backpatch` call that runs and those
the same statement will make after it.

A step is what the parser does between two statement boundaries, so an action
makes all the calls of its handler: `ForHead` emits the three expressions, the
conditional jump, the jump over the increment and the jump back behind it. Only
`backpatch` is taken apart, one iteration a step, because it overwrites the
list it walks. Lists are threaded through `text`, as in the code.

A source file that defines a function in a function is left out (`OpenFunc` starts
outside of functions; `SymbolScope` has the case). The compiler prints a warning and goes on
(`CL_Syntax.cpp:282`), and the inner function overwrites `rsym` and `func_begin_ind` of the
outer one.

Data left out: what expressions emit. An expression is a run of
`n \in ExprSizes` bytes, and the three ways `gen_jcc` can end (flags, constant,
value) are the constant `Conds`. Bytes of parameters are a number from
`ParamBytes`.

`funcs`, `stmts`, `want`, `bound`, `open`, `labels` and `backs` are history
variables: no action reads them to decide what the code does. They say what
each jump was *for*, which the code nowhere records.

`EndOfFile` stutters once all functions are closed (or the compiler has
crashed), so that the deadlock check stays on: a state where the parser can
neither read on, patch nor close a statement would be reported.

### SymbolScope

`sym` is every symbol ever created, in order; a symbol is its number. The two
stacks hold the numbers that exist; a number on neither is a deleted `Symbol`, so a
use after free is a reference to a number that is on no stack. `head` maps name
space ("ident", "tag") and word to the first symbol of the chain
(`sym_identifier`, `sym_struct`), and `prev` is `prev_tok`.

`parse` is the call stack of the parser: `decl` (`external_declatation`,
`struct_declaration`, a parameter, the type in `sizeof`), `struct`
(`struct_declaration_list`), `params` (`parameter_type_list`), `func`
(`funcbody` and `gen_prolog`), `block` (`compound_statement`) and `pop`
(`sym_pop`). The grammar is that of the source: which call can follow which
comes from its conditions, and where the source only warns (redefinition,
redefined struct, nested function, undeclared name) the model goes on as the
code does. Each step pushes or pops at most one symbol, so every intermediate
state of a member list, a parameter list or a running `sym_pop` is checked.

Two build or input assumptions are constants:

* `ParamsChained`. `sym_push` chains a symbol if `(v & SC_STRUCT) || v < SC_ANOM`
  (`CL_Syntax.cpp:141`); for a parameter `v` has the bit `SC_PARAMS`
  (0x80000000). Visual C++, the compiler of the project files, gives
  enumerators the type `int`: the comparison is signed and *true*, and the name
  is put on a chain (of its own word: the index wraps in a 32-bit build without
  checks, and is caught by the assertion of `std::vector` in a debug build).
  With unsigned enumerators it is false. Both are modelled: the runs have the
  first, the value of the repository's build, and the theorems hold for both.
  In `ScopeRules` the constant is `ParamsVisible`: whether the parameter list of a
  declaration declares its names in the scope the declaration stands in.
* `NestedFunctions`: whether the source file defines a function inside a
  function, which the compiler only warns about. Without nested functions
  `MarkersKept` is a theorem; with them it does not hold (section 5).

Data left out: storage class, calling convention, offsets and sizes, the value
of `c` other than "not defined" (-1), and what lies behind a declared name in
expressions. A parameter always has an identifier.

`Forms`, `MaxSyms` and `MaxFrames` bound the instance: the forms of declaration
the file uses, the symbols created and the depth of calls. A behaviour stops
where a bound is reached, hence `CHECK_DEADLOCK FALSE`; the proofs do
not depend on any bound.

### ObjectFile

`symtab`, `hashtab` and `rel` are the sections of `CL_Coff.cpp` as sequences of
entries; an entry is its index, and index 0, the entry of the empty name, ends the
chains. `global` and `local` are the symbols of the compiler with what the object
file needs of them: the index `c` and whether `r` has `SC_SYM`. The stacks are
those of `SymbolScope`, without types and structs.

An action is one declaration, definition or use of a name in the source file;
all of them end in `coffsym_search`, which is taken apart: one entry of the chain
per step (`Walk`), and then the new entry, the entry found or the relocation.
`work` is the search that runs, with what its caller does with the result.
`coffreloc_add` of a name without an entry searches twice, as the code does.
Addresses are computed with the `calc_align` of the source (it masks with
`align - 1`), so the entry is compared with what the program takes for the
address, not with what it should be.

Undefined behaviour: `func_sym_push` leaves `r` of the new `Symbol`
uninitialised, so a function that is defined without a declaration may or may
not have `SC_SYM` (`"sym"`, `"nosym"`); if it has not, uses of it record nothing.

Left out: types (a variable has one byte or four), what is allocated for a
section, the string table (an entry has its name), and the sections that only the
linker fills. An expression is a single operand, in a call or a load: five bytes of code.
Names other than the two stand for nothing: that of a local variable whose
initializer uses one of them does not matter, so a use may leave the block
where declarations are still read. Functions defined in functions are left to
`SymbolScope`.

### Operands

A step is one call the parser makes of the generator, in the order in which the
expression part of `CL_Syntax.cpp` makes them: a leaf is pushed, an operator
works on the top, a statement ends. The calls are operators from a state `s` to
a state, so `gen_op` is the composition of `gen_opi`, `load_2`, `allocate_reg`
and `spill_reg` that the source makes of it. An operand has the fields of
`Operand` that decide where its value is.

The code that is emitted runs on a symbolic machine: a register, the flags and
the one dword of the frame hold *tokens*, `<<i, d>>` for what operand number `i`
stands for, read through `d` pointers more. What an instruction reads is thus
compared with what the operand stands for, and `ValuesHeld` and `UsesRight` speak of
values without knowing numbers. Numbers are taken anew after each call
(`Write`), which keeps the state space finite and loses nothing.

`lost` is set when the current statement needs something the generator does not
do, and what follows in it is then not judged: two dwords of the frame at once
(`calc_align` gives both the same offset), flags over an instruction that
overwrites them, an lvalue in a spilled register, a value moved between registers (`load_1`
returns a register other than the one asked for, `REG_IRET` for a return,
division), an immediate of more than a byte, a quotient where the remainder goes,
pointers compared or subtracted, a second argument, a constant condition, the
initializer of a scalar local variable. What the generator does with the operands and
registers in these cases is in the model; only the judgement ends. A new statement starts with
`lost = FALSE`. `right` is history: every use so far had the right value.

`OperandStack::swap` assigns to the top operand twice and never to the one below
(`CL_CodeGen.h:72-77`): it changes nothing, and neither does `Swap`. The two callers
in the model differ in what comes of it. `store0_1` has written the value to its target when it calls
`operand_swap` and `operand_pop`: the operand that goes is the value, and the one that remains,
as the value of the assignment, is the target, still an lvalue; to read it again is
to read what was stored, so expressions come out right (`Stored`). `init_variable` pushes the variable
*above* the initializer and swaps to get the order `store0_1` wants: the variable is
loaded and stored to the place of the initializer. The statement is `lost` from there on, whatever
the initializer is (`Initialize`), so `UsesRight` says nothing in favour of `int v = e;`.

Left out: the bytes, types of one and two bytes, `int + pointer` (a guard of
`Binary`; section 5), and the initializer of an array.

### Lexer

A step reads at most one character; `text` is the file as far as it has been
read, so a behaviour chooses the next character when the lexer asks for it
(`get_char`). `mode` is where `get_token` stands. `AfterWhite` and `IsToken` are the definition of the tokens of a text,
written from the grammar of tokens and not from the code; `TokensOfText`
compares the two until the text contains something the lexer does not treat as
that grammar does (`strayed`): a slash that begins no comment (`unget_char` reads the
character `cur_ch` has already, `CL_Lex.cpp:148`), three dots, an escape in a
string, a character that begins no token, a line feed without a carriage return.
A number with a point is three tokens, as `parse_num` has it: its loop over the
fraction ends at once.

The word table is the sequence `words` with the links `next` and `head`; a
word's code is its position. `direct_insert` is the loop of `init_lex`, a keyword a step:
the static nodes exist from the start and get their links then, for every file anew.
What the word table promises holds for the first file (`file = 1`); the run
`files` shows what the second one does to it. Left out: character literals (they are read
like strings; `TK_CCHAR` never gets a value), layout and colours.

### LuaTable

The parts are those of `Table`: `array` (its length is `sizearray`), `node` with
the chains in `next`, `lastfree`. A key is an index or a name with a hash value
(`use.hash`); `mainposition` folds it as `hashpow2` and `hashmod` do. A search
is `From`, the nodes that are reached through the links: the least set that is
closed under `next`, so that it is defined for a chain with a ring too.

A call of the program (`lua_rawset`, `table.insert`, `table.remove`,
`OP_SETLIST`) puts its assignments into `todo`, and a step makes one of them.
When no node is free, `Grow` computes the sizes and `resize` puts what the old
parts held in front of `todo` (`moving` counts them): the reinsertion is made of
the same steps as any assignment, and the key that had no room comes behind. That `rehash`
is never entered again while it runs is a property (`RoomForAll`).

`content` is history: the map that the calls amount to, changed at once when a
call starts. A traversal (`Start`, `luaH_next`) may be interleaved with assignments to
existing keys, with `traversetable`, which makes keys without a value dead, and
with `cleartable`; a new key ends it, as the manual leaves that undefined.
`seen` and `due` are what it has returned and has to return.

A program (`use`) is its keys, values and the operations it uses; sizes of
parts come from `Sizes`, the powers of two up to `MAXASIZE`. Left out: memory errors
in the middle of `resize`, `luaH_free`, the cache of metamethods, floats that are
equal to indexes (they are the index), and `table.sort`.

### LuaGC

The state is that of `global_State`: `colour` of each object, the three gray
lists, the sweep positions, `rootgc` and the circular `tmudata` as sequences. An operation of the program moves a reference between the
slots of a thread and an object, and includes its barrier; a step of the collector is
`singlestep`, one object at a time, and may come between any two operations
(the threshold is not modelled). `atomic` is taken apart into its stages for
reading (`stage`), with no operation of the program in between. `luaC_fullgc`,
finalizers (`GCTM`), resurrection of strings, open and closed upvalues and
coroutines with their own stacks are included.

A *shape* (`MCLuaGC`) is a heap of three or four objects besides the main thread
and the globals, and the operations its program uses. Left out: `lua_close`, a
finalizer that runs the collector, the string table's resizing, prototypes,
environments other than the globals.

Recursion is written so that it can be proved about: a loop over a list is a
function on its positions (`MarkAll`, `CloseAll`, `Those`), and what can be reached is the least
set that is closed under references (`From`). A `userdata` that waits for its
finalizer can still be black from the collection before, as `luaC_fullgc` starts a
collection without the end of the last one (`marktmu`: "may be marked, if left from
previous GC"), so `BlackNotToWhite` is about the other objects, and `OnlyGarbage` says
what can be used without going through those that wait (`Used`).

### Lua compiler and machine

`LuaCode`, `LuaParser` and `LuaDebug` are pure: operators from a function state
to a function state, one for each function of `lcode.c` and `lparser.c`, with
expressions (`expdesc`), jump lists threaded through the instructions, register
allocation, blocks and upvalues. `LuaVM` runs the code they make, one action
per instruction; its stack is one array, with frames that overlap and values
above `top` that are stale. `lua_assert` is a flag (`ok`) checked by
`AssertionsHold`, as is `luaG_checkcode`. `LuaMeaning` evaluates the syntax tree
with one cell per variable and neither registers nor upvalues; `Meaning` compares the results of the
program, what it passed to the host and its error.

The constants `MaxIndexRK`, `MaxArgC` and `LFieldsPerFlush` are small, so that
constants that do not fit an operand, long constructors and the extra word of
`SETLIST` occur. Left out: division (numbers are integers), arithmetic and order
of strings, syntax errors, limits, the growth of the stack, user data, coroutines,
names in messages, `lua_rawset`.

## 3. Runs

Passing runs:

| Run | Checks | Instance | Shows |
|---|---|---|---|
| `lists` | `ListsThreaded`, `NoJumpForgotten`, `PatchedJumpsHit`, `ImplementsLabels` | 4 statements, depth 3, one function, 1.3 M states | lists stay exact for every nesting in which three loops and conditionals surround a break, continue or return; the generator implements jumps to labels |
| `far` | `CodeTiles`, `JumpsLandInFunction`, `BackwardJumpsHit`, `PatchedStays`, `BackpatchTerminates` | expressions of 126 and 127 bytes, functions without and with four bytes of parameters, 2 statements, two functions, 1.2 M states | both forms of a backward jump, on both sides of the limit; a jump never leaves its function; every `backpatch` ends |
| `forms` | `ChainsThreaded`, `MarkersKept`, `TypesAlive`, `ParamsListed` | structs, pointers, arrays, parameters, declarator lists, `sizeof`; one word, 8 symbols, 5 frames; parameters chained, 1.7 M states | chains hold exactly the existing symbols, newest first; `sym_pop` finds its marker; types never dangle; each parameter is on one list |
| `scopes` | `ImplementsScopes` | functions and declarations with parameters, local variables, nested blocks, names without a declaration; two words, 9 symbols, 4 frames; parameters chained, 95 000 states | the table is nested scopes |
| `tables` | `HashChains`, `SymbolsIndexed`, `RelocsNamed`, `EntriesCurrent`, `EntriesStay` | two identifiers that share a chain, empty at first, 5 declarations, definitions and uses, 2 blocks, 180 000 states | the table stays exact whatever order names are declared, used and defined in; no entry says where an earlier definition was |
| `values` | `OneOperandPerRegister`, `ValuesHeld`, `UsesRight` | every operator with two operands; three families with three and four; 371 000 states | operands are found again through all loads and spills, and every use has the right value, in the statements that are not `lost` |
| `tokens` | `TokensOfText`, `WordsCoded`, `ChainsExact`, `EndReached` | files of up to 7 characters of several alphabets, 1.0 M states | the tokens are those of the text, the word table is exact, the end of the file is reached |
| `assign` | `TableIsMap`, `CollidingAtHome`, `TraversalComplete`, `LengthIsBorder`, `RoomForAll` | four names that collide, with traversals, dead keys and weak entries; a list of up to four elements with a name; parts of up to eight, 294 000 states | a table is the map its calls amount to, through displacements and rehashes; traversals are complete; lengths are boundaries; no rehash in a rehash |
| `collect` | `NoDangling`, `BlackNotToWhite`, `OnOneList`, `GarbageCollected`, `FinalizedOnce`, `OnlyGarbage` | eight heaps, 666 000 states | the program cannot make the collector free what it can reach, nor keep what it cannot, at any point of a collection |
| `execute` | `Meaning`, `AssertionsHold`, `OpenUpvaluesAreLocals` | 2117 programs in seven families, 155 000 states | a compiled program does what its tree means |

The bounds are chosen so that each list can have two members of one statement
and one of another, a loop can stand in a loop behind a conditional, a name can
be declared in the file, as a parameter and in a block. With one word every
declaration collides with every other, which is the interesting case for the
chains; `scopes` takes two so that hiding one name leaves the other alone, and so that
a name can be used that is not declared. Three of the symbols are those of `init_syntax`. Of the
six others in `scopes`, four make a function with a parameter (the parameter, the return type, the
function, the symbol under its locals), the fifth is the variable `gen_prolog` makes of the
parameter, and the sixth a variable or a parameter of a declaration in a block: a name is hidden three times over,
by a parameter, by its variable and in a block, and found again when each is popped.
Structs are in `forms` only, where `ChainsThreaded` covers both name spaces; that tags follow the
rules of scopes is the theorem of section 4. In `tables`, five events are enough
for a name to be declared in a block, used, defined, defined again and used once
more, with the other name in between on the same chain. In `values`, two
operands meet under every operator, and four operands that each take a register
exhaust the four there are. In `tokens`, seven characters hold a comment with
its four marks and a word behind it, or three tokens. In `assign`, the four names
collide in vectors of one, two and four nodes, one of them hashed by `hashpow2`, so that a
node is displaced from the chain of another; the list grows from the
nodes into the array and back. In `collect`, an object
can be marked, swept and free while another of each kind refers to it, and two
collections overlap with the program. `execute` crosses the forms that meet in
one part of the compiler: two operators deep for conditions and logical values.

Runs that show a disagreement between the source and what it says (each with the
quoted line in `PROJECT.json`, `findings`):

| Run | Property | What happens |
|---|---|---|
| `increment` | `IncrementReturnsToTest` | the jump behind the third expression of a `for` goes to that expression (`CL_Syntax.cpp:925` uses `c`, the test is in `d`) |
| `files` | `FindEnds` | the second source file inserts the keyword nodes again, which closes a chain of the word table to a ring |

Every property of a passing run has a mutant in `PROJECT.json`: a change of a
mapped definition, as a plausible bug would make it, under which TLC finds the
property violated. The mutated definitions stand next to the originals.

**Fairness.** Safety runs use `Spec`. `BackpatchTerminates` uses `FairSpec`, weak
fairness of `Patch` alone: the compiler is one thread, and a loop it is in is
executed until it ends. Nothing is assumed about the source file: statements
may stop coming at any point. `EndReached` and `FindEnds` use weak fairness of `Next` in
`Lexer`: the parser asks for the next token until it gets `TK_EOF`. `LuaGC` has
safety properties only: `GarbageCollected` says what is left at the end of a
collection, and not that collections end.

**Refinement.** `ImplementsLabels` maps the frames to open statements and a slot
that has been patched to the address its displacement leads to; links vanish.
`ImplementsScopes` maps blocks (and the function around its block) to scopes;
while `sym_pop` runs, what it is going to delete is gone already, so the step
that starts it implements the end of the scope and its iterations stutter.

## 4. Proofs

All proofs are checked by tlapm 1.4.5. They hold for every value of the constants
that the named assumption of the module allows, and no bound of a run occurs in them.

`JumpGenProofs` assumes only
`JumpGenAssumption` (sizes and bounds are natural numbers). It proves
`Inductive` (`Spec => []IInv`) and from it `TypeCorrect`, `ListsCorrect`,
`NothingForgotten`, `ForwardJumpsCorrect`, `NoLinkInFinishedCode` and the action
property `DisplacementsStay`.

*Argument.* That a list is intact is not inductive alone. A new slot goes in
front of a list because it is the highest address (`CellsBelow`); it goes on the
right list because the frame `bsym` points into is the innermost loop
(`LoopsInnermost`); it disturbs no other list because labels of open statements
differ (`LabelsApart`); a running `backpatch` writes the right address because
its label is bound to its argument (`CallsBound`). `ThreadedIn` is stated for a
function and a set, so pushing a slot, removing the head and writing a slot of
another list are three lemmas without state.

The module goes on with the layout: `LayoutCorrect`
(`Spec => [](IInv /\ LayoutInv)`), and from it `FinishedCodeTiles`,
`BackwardJumpsCorrect` and `JumpsStayInFunction`.

*Argument.* The instructions tile `.text` except for the gap at the start of the
open function (`Layout`), which `gen_epilog` fills exactly, as the two forms of
prologue both have the size of the gap. Every emitter appends to a tiled section
(`Appends`, `AppendsTrans`), so an action is a chain of appends whose jumps are
counted. A destination is the start of an instruction or the end of the code
(`LabelsLand`), and belongs to the function it was made in, since functions are
separated by the addresses where they begin (`FuncsOrdered`, `JumpsLabelled`).
A backward jump needs the arithmetic of both forms: the byte when
`FitsChar`, with the sign extension of `AsChar`, and four bytes otherwise.

The module ends with the refinement, `JumpGenImplementsLabels`
(`Spec => ImplementsLabels`): initial states map to initial states, and each
action to the statement of `JumpLabels` it makes or to a stutter. Iterations of
`backpatch` before the last keep `Targets` except for the slot they
write, and by `PatchedJumpsHit`'s invariant that slot gets the label's address: a
label is bound slot by slot.

`SymbolScopeProofs` assumes only
`SymbolScopeAssumption`. It proves `ScopeInductive` (`Spec => []IInv`), and from
it `ScopeTypeCorrect`, `ChainsCorrect`, `LocalsHideGlobals` and, if functions are
not nested, `MarkersFound`.

*Argument.* The table (symbols, stacks, heads) and the frames are separated:
each step changes the table by one push or pop, or not at all, and the frames
one at a time. `PushTable` and `PopTable` say what a push and a pop do to
`Threaded` chains. Popping is where the invariant is needed: `*ps = s->prev_tok`
is right only if `s` is the first of its chain; it is the newest local symbol,
and `LocalsInFront` says that a global of the same name is older.
`LocalsInFront` in turn holds because while a local symbol exists only
`func_sym_push` pushes globals, and only under names without a symbol. For the
markers, `NotNested` says that functions and the `sym_pop(NULL)` at their end are
outermost, so that no open block lies around them.

The module goes on with references: `ScopeTypesInductive`
(`Spec => []TypesInv`) and `TypesStayAlive`, both for files without a function in a
function.

*Argument.* Types are followed without a check, so they must not outlive what they
lead to (`SymbolsAlive`). A symbol of the file could have a local type in two ways
only: it was pushed while a local symbol exists, or its type was replaced. The first is
`func_sym_push`, whose type leads to symbol 2 of `init_syntax`; the second is the
definition of a declared function, and a function is defined when there is no local
symbol (`FunctionFirst`). Local types lead to older symbols, and `sym_pop` frees
the newest. A declaration that is open keeps a type in a C++ local; none is open when
`sym_pop` runs, as blocks lie in functions and blocks only (`BlockBelow`).
`gen_prolog` copies types of parameters while it pushes, hence the clauses on
parameter lists.

It goes on with the lists of parameters: `ScopeListsInductive`
(`Spec => []ListsInv`) and `ParametersListed`, for the same files.

*Argument.* A parameter is linked behind the one before it through a pointer the
declarator keeps, so that it is on one list needs that next leads to it from one
place (`OneBefore`) and that the list being built ends where the pointer says. Its
first parameter has nothing before it and is newer than every marker (`ListOpen`), and
lists being built are apart (`ListsApart`): hence the list nested in a parameter does
not run into the one around it. `sym_pop` frees from the newest, and must not free
what leads to a parameter that stays: what precedes a parameter is a symbol of the
file or has no marker of a block between (`Precedes`), and while `sym_pop` runs the
statement is about what will stay (`Stays`).

The module ends with the refinement, `SymbolScopeImplementsScopes`
(`Spec => ImplementsScopes`), for files without a function in a function: `sym_pop` of an
inner function would end the scopes of the outer one. It holds whether parameters are
chained or not. If they are, the parameters of a declaration hide what has their name outside,
even at the level of the file, where nothing ever pops them: that is `DeclareParameter` of the rules, and
a defect of section 5.

*Argument.* `ScopesInv` (TLC checked it first) says
which frame is which scope: a function has local symbols exactly between the
start of its body and `sym_pop(NULL)`, and local declarations lie inside. The
depth of a symbol is then 1 for the file and 2 plus the number of blocks around it
for a local. The program finds the newest symbol of a name, the rules the deepest
one: the same, since symbols of a deeper scope are newer (`DeclsOrdered`) and
locals are in front of globals (`LocalsInFront`). A block starts with its marker as
the newest symbol, so no older symbol changes its scope; it ends when
the symbols above the marker go, and these are exactly the ones of the innermost
scope. What `sym_pop` is going to free is not in the mapping from its
call on, so its iterations stutter.

`ObjectFileProofs` assumes only `ObjectFileAssumption`: the
hash function maps names to chains, and identifiers are not named like sections.
It proves `ObjectInductive` (`Spec => []IInv`), and from it `ObjectTypeCorrect`,
`ChainsExact`, `IndexesCorrect`, `RelocsCorrect` and the action property
`EntriesNeverMove`.

*Argument.* `coffsym_add` makes a second entry of a name, and `coffreloc_add` a
relocation to nothing, if a search misses the entry that is there.
`WalkComplete` says why it cannot: an entry of the name is never above the
point the search has reached. That holds at the head of a chain, which is the
latest of its entries (`HashChains`), and of each link, which leads to the latest
before it; when the search arrives at 0 there is no entry, and the new one
keeps `HashChains`. That a relocation finds its name needs `SymbolsIndexed`
(the symbol would not have an index otherwise), and that the index goes into the
right local symbol needs that blocks are nested (`BlocksNested`). `NamesKept`
and `TableGrown` say what the two kinds of change do to the chains, and
`SourceStep` is the common part of all declarations, definitions and uses.

`DefinitionsFollowed` adds `SymbolsKnown` and `DefsInv` to the invariant, and
`EntriesAreCurrent` follows. *Argument.* An entry is brought up to date through
the index the symbol remembers; so a name with a definition has a symbol, and
that symbol an index, except while its first definition is still looking for its
entry (`Defining`). A defined entry therefore belongs to a name whose symbol remembers
it, and the next definition writes to that entry and no other (`HashChains`).

`OperandsProofs` assumes only `OperandsAssumption` (the operators are among those the
language has, the stack has some bound). It proves `OperandInductive`
(`Spec => []IInv`), and from it `OperandTypeCorrect`, `RegistersApart`, `OperandsHeld`
and `UsesCorrect`.

*Argument.* The generator's operators are from state to state, and so are the
lemmas: each takes a state that is `Good` to one that is, in the order of the
calls (`spill_reg`, `allocate_reg`, `load`, `load_1`, `load_2`, `gen_opi2`,
`gen_opi`, `gen_op`, `gen_invoke`, ...). `Good` says that registers are apart,
that the tokens of two operands differ, and that every operand is reachable
unless the statement is lost. A register `allocate_reg` returns is used by no
operand: it was free, or the one operand in it (`Apart`) has just been spilled; so
what is loaded into it destroys nothing. An assignment pops the value and keeps the target
(`StoredGood`, by `SwapSame`): the target is still reachable, and what is read there is what has been
stored. After an initializer the statement is lost, and what remains of `Good` is kept
(`InitGood`). Tokens must differ (`Numbered`)
because a value is recognised by its token. `Write` renumbers the
tokens after a call; `Renumbered` says that equal tokens stay equal and different ones different.

`LexerProofs` assumes only `LexerAssumption` (the characters and bounds of the files,
keywords are words and different). The hash function is any operator. It proves
`WordTableInductive` (`Spec => []IInv`), and from it `WordChainsExact` and
`WordsHaveCodes`, for texts of any length.

*Argument.* `insert` makes a second node of a word if `find` passes the first.
`FindComplete` says that no node behind which the search has come spells the word:
true at the head of a chain, which is the latest of its nodes, and at each
link, which leads to the latest before it (`ChainsExact` is its own
strengthening, together with the numbering of nodes and codes, `WordsNumbered`). What
is looked up must be what the text has: `WordRead` follows `tkstr` character by
character, and `CharRead` says where `cur_ch` comes from, which after
`unget_char` is not the character before `idx_buf`. Tokens that have been read stay
right as the text and the table only grow (`GrownPart`, `LexemesStay`).

The proofs changed the model where it could not be reasoned about or was not
what it seemed: the alternatives of `gen_op` were an overlapping `CASE`, which
TLA+ leaves open (TLC takes the first); and a value that stays reachable in
`IDiv` needed the case of a divisor that is spilled while EAX and EDX are cleared
(`a % f()`, `CL_CodeGen.cpp:396-415`), which the statement of `lost` had left out. The
keywords of the lexer were inserted in one step by a recursive definition; they are now
inserted one by one.

`LuaTableProofs` assumes only `LuaTableAssumption` (sizes are numbers up to
`MAXASIZE`, indexes and names differ, hash values are natural numbers): any
hash function, any set of keys, any sizes. It proves `TableInvariant`
(`Spec => []IInv`), and from it `TableIsMapHolds` and `CollidingAtHomeHolds`.

*Argument.* The nodes are treated as values first: `Well` is a property of a set
of nodes, a vector and a function from keys to main positions, and
`OverwrittenWell`, `LinkedInWell` and `MovedAwayWell` say that the three ways of
`newkey` keep it and write one key (`Written`). A chain is a least closed
set, so that it reaches a node is shown by giving the closed sets: what is reached
after a displacement is what was reached before with the free node in the place of
the moved one. This needs that no node is behind two others (`LinkedOnce`), and that
the colliding node is behind another one at all, which is `CollidingAtHome`:
the node that is not at home is not the first of its own chain.
A key has one node (`KeysOnce`) because an assignment looks it up first, and that
search is complete (`KeysFound`); dead keys stay linked, and so nodes
behind them are found.

During a rehash the table alone says nothing: `Current` is the table with what
is still to be put back, whose keys are different and without a value now
(`MovingInv`), and `resize` leaves it unchanged (`ResizeKeeps`). The assignments of a
call come after it in order; none reads what one before it has written
(`CallInv`), so with `Current` they amount to `content` (`Promise`), which
`PutBack` and `CallGoesOn` carry from step to step. The order in which
`table.insert` and `table.remove` shift is what makes `CallInv` true.
Whether `rehash` is entered again does not matter to the argument (`Grow` keeps
`IInv` in each case); that it is not needs the counting of elements.

`LuaGCProofs` assumes only `ShapesAssumption`: a heap has a main thread, a table of
globals, and any number of objects of any kinds. It proves `CollectorInvariant`
(`Spec => []IInv`), and from it `NoDanglingHolds`, `BlackNotToWhiteHolds`,
`OnOneListHolds` and `FinalizedOnceHolds`, for every program and every way the steps
of the collector come between its operations.

*Argument.* The invariant, which TLC checked on the heaps of `collect` first, has twelve parts.
The centre is `LivingRefs`: what is alive (neither free nor of
the dead white) refers to what is alive, and so does the program; `NoDangling` follows because
the living objects are a closed set with the roots in it. It is easy to keep except where
the whites change places. There `Marked` is needed:
while marking, the gray lists hold exactly the gray objects (`OnOneList`), and what is
black refers to nothing white (`BlackNotToWhite`); `Atomic` says what each stage of
`atomic` adds: open upvalues, the thread that runs and weak tables, then
the threads, then the userdata that will be finalized. When the gray lists are empty and
`cleartable` has cleared the weak tables, every object that is not white refers to
objects that are not white: the flip makes exactly the unmarked ones dead.
Marking is followed with `Grown`, a relation between two colourings with their gray lists that
says what has become gray or black and that black objects are done, except for a
set still to do; it is transitive, so the invariant of a loop over a list is one lemma
(`MarkAllGrown`). `Painted` and `Darker` are what the stages have in common.

The sweep is followed by position: `Sweep` says that every object at or before `sweepgc` is
clean, and a thread with its upvalues, since an open upvalue is in no list but its
thread's. `sweeplist` frees an object, whitens it, or frees a thread and closes those of its
upvalues that are alive, which then come to the head of `rootgc`
(`SweepDoes`); new objects come before the sweep and are clean. So nothing dead is left when the
sweep arrives at the end (`SweptPhases`), and the whites can change again.
A finalizer is called once because what waits in `tmudata` has `FINALIZEDBIT` and
`luaC_separateudata` takes only what has not (`FinalizedOK`).

Loops over lists need induction over the length of a list. The
induction theorems of the library take an operator as a parameter, which the
installed provers cannot instantiate; `NatInduct` states
induction for sets instead, and follows from the pigeonhole principle of
`FiniteSetTheorems`.

`LuaGCGarbageProofs` goes on from there, under the same assumption, with the other
direction: what the collector queues, clears or frees is garbage, and all garbage is.
It proves `OnlyGarbageHolds`, `OldInvariant` (`Spec => []OldInv`) and
`GarbageCollectedHolds`.

*Argument.* When `atomic` comes to separate userdata and to clear weak tables, the gray
lists are empty, so the objects that are not white, without those that wait in `tmudata`, are
closed under the references that keep (`MarkedClosed`). They contain the roots, and `Used` is the least
such set: what is white is not used (`WhiteUnused`), and only white objects are
queued or cleared.

`CollectorInvariant` says what is kept at least; that garbage goes needs the opposite
bound. `old` is what was garbage when the collection began and still is. `OldInv`
(TLC checked it on the heaps of `collect` first) says that it is garbage now, that nothing but old garbage
refers to it (`OldClosed`), and its colour (`OldColours`): white while marking, dead while
sweeping, and none of it is left when the sweep is over. An operation of the program moves
references to what it holds, which is not old, since the roots are in a closed set without
`old`; barriers mark what is stored or what stores, neither of them old. Marking starts at roots and
follows references of marked objects, so it stays in the complement of `old`, which
`OldClosed` makes closed (`NotOldClosed`, and the lemmas `...Inside` for the operators
that mark). The flip of the whites makes `old` dead, and the sweep frees what is dead.

**Only model-checked:** liveness (`BackpatchTerminates`, `EndReached`), which is out
of the prover's reach; the tokens of the lexer (`TokensOfText` compares with a
recursive definition of the text); of the tables of Lua, the length
(`LengthIsBorder`: the binary search is recursive), the sizes (`RoomForAll`: counting elements
in powers of two) and the traversals (`TraversalComplete`); and the Lua compiler
and machine (`Meaning`, `AssertionsHold`, `OpenUpvaluesAreLocals`), whose parser is
recursive and whose correctness is a statement about an evaluator.

## 5. Not modelled, and known defects

*Not modelled.* The linker does not run as it is: `load_obj_file` passes offset and
origin of `fseek` in the wrong order in every call, which the C library of the project
files rejects by ending the process, and with `.c` files alone `main` links a `Coff` that
was never initialised. The red-black tree does not compile and is not used.
The class library for Lua, the driver's command line, the growth of sections and
`write_obj` are left out for now; vendored and generated code (protobuf, the
libraries of Lua), data (`.slib`), project files, the layout `syntax_indent` prints and the
wording of messages are not planned.

*Known defects*, met while modelling, without a run of their own:

* `func_ret_sub` is assigned in the loop over the parameters only
  (`CL_Syntax.cpp:660`): a function without parameters returns with the operand
  of the one before.
* A function that is declared in a block, called there and defined later in the file
  keeps an undefined entry in the object file: `coffsym_add` (`CL_Coff.cpp:189-190`)
  returns the entry it finds without updating it, although `CL_Coff.h:83` says
  "add or update". `EntriesCurrent` says what remains true.
* `OperandStack::swap` (`CL_CodeGen.h:72-77`, "swap stack top two element") assigns to
  `stack_operand[size - 1]` twice and so changes nothing. `init_variable` (`CL_Syntax.cpp:793-796`) relies on it:
  `int v = e;` in a function loads `v` and stores it to the place of `e`, or to the address that is in its
  register, and leaves `v` as it was. The initializer of an array (`:764-784`) copies the array to itself for the same reason. After an
  assignment (`CL_CodeGen.cpp:264-266`) the target is left on the stack instead of the value: `a = b` is an lvalue, and
  `(a = b) = c` is accepted.
* `int + pointer` takes the size of what the `int` points to (`CL_CodeGen.cpp:344`), whose type has no
  symbol: `pointed_type` follows a null pointer.
* `gen_op` writes the type of its result to an operand that `gen_opi` has freed
  (`CL_CodeGen.cpp:351`), and `gen_jcc` takes any constant condition for false (`:550`).
* A function defined in a function pops the locals of the outer one
  (`CL_Syntax.cpp:282` only warns).
* A struct of the file that is defined in a function has its members on the local
  stack (`CL_Syntax.cpp:444`): they are deleted at the end of the block.
* The names of parameters are chained or not depending on the type the compiler
  gives its enumerators (`CL_Syntax.cpp:141`, `:574`). If they are, `int f(int x);` in the file leaves `x` declared
  as the parameter: a later `int x;` makes no symbol.
* The value of `return` is not moved to EAX when it is in another register: `load_1`
  (`CL_CodeGen.cpp:228-240`) ignores the register asked for if there is one already.
* A spilled operand overwrites another: `calc_align` (`CL_Util.cpp:116`) masks
  with `align - 1`.
* A division after a name is lost (`CL_Lex.cpp:148`), a slash at the end of the file
  is read for ever, and an unterminated string is read for ever (`CL_Lex.cpp:527`).
* A second source file is read from where the first one ended (`CL_Lex.cpp:103`).
* `process_command` returns right after `-c` (`main.cpp:56-59`), so the output file of
  the usage at `main.cpp:71` is never read.
* In Lua, `lua_rawset` (`lapi.c:671-681`) does not clear the cache of absent
  metamethods, although `lobject.h:340` says a set bit means that the method is absent.
* A full collection that starts while userdata wait in `tmudata` (`luaC_fullgc`,
  `lgc.c:635`, ends a collection before their finalizers are called) finds them black
  from the collection before and passes them. `marktmu` (`lgc.c:544`) marks them again, but only after
  `luaC_separateudata` (`:543`) has queued every white userdata with `__gc`. If the
  program has got one of the waiting userdata back (from a table with weak keys, or from
  another userdata that was finalized), a userdata that is reachable only through its
  metatable is finalized although the program can reach it. Found
  in the proof of `OnlyGarbage`, which now says what holds.

## 6. Plan

1. A model of `class.lua`: building classes by first use, with method resolution
   as the abstract specification.
