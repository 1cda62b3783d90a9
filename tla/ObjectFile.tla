----------------------------- MODULE ObjectFile -----------------------------
(***************************************************************************)
(* The object file the compiler builds in memory (CL_Coff.cpp): a symbol   *)
(* table with a hash table of chains through it, and relocations.  Names   *)
(* get an entry when they are first used or defined (CL_Syntax.cpp,        *)
(* CL_CodeGen.cpp), and a Symbol of the compiler remembers the index of    *)
(* its entry in c, 0 meaning that it has none.                             *)
(*                                                                         *)
(* A step is a declaration, a definition or a use of a name in the source  *)
(* file; the search through a chain, which all of them end in, is one step *)
(* per entry, and nothing else is enabled meanwhile.  Entry 0, which       *)
(* InitCoff adds for the name "", is not represented: its index ends the   *)
(* chains.                                                                 *)
(***************************************************************************)
EXTENDS Integers, Sequences

CONSTANTS
  Words,      \* the identifiers of the source file
  MAXKEY,     \* number of chains
  elf_hash,   \* name -> chain
  MaxEvents,  \* bound: declarations, definitions and uses
  MaxBlocks   \* bound: nesting of blocks

SectionNames == {".data", ".bss", ".rdata"}
Names == Words \cup SectionNames

ASSUME ObjectFileAssumption ==
  /\ Words \cap SectionNames = {}
  /\ MAXKEY \in Nat \ {0}
  /\ elf_hash \in [Names -> 0..MAXKEY - 1]
  /\ MaxEvents \in Nat /\ MaxBlocks \in Nat

VARIABLES
  symtab,       \* the entries of .symtab
  hashtab,      \* sec_symtab->hashtab: chain -> its first entry
  rel,          \* the entries of .rel
  data_offset,  \* section -> bytes used; for .text it is codegen.ind
  global,       \* name -> [kind, c], its symbol on global_sym_stack
  local,        \* local_sym_stack: [name, kind, c], innermost last
  blocks,       \* the open blocks of the function: [base, declaring]
  init,         \* <<address, size>> of the variable whose initializer is read
  work,         \* the search that is running
  meant,        \* history: the name each relocation was made for
  defs,         \* history: name -> [section, value] of its last definition
  events        \* history: declarations, definitions and uses read

vars == <<symtab, hashtab, rel, data_offset, global, local, blocks, init, work,
          meant, defs, events>>

-----------------------------------------------------------------------------
Sections == {"text", "data", "bss", "rdata", "undef"}

\* kind: "sym" if Symbol.r has SC_SYM, "nosym" if it has not (a function that
\* is defined without a declaration: func_sym_push leaves r unset, and a use of
\* it then records nothing), "stack" for a variable on the stack.
Symbol(kind, c) == [kind |-> kind, c |-> c]
NoSymbol == Symbol("none", 0)

Put(f, k, v) == [x \in DOMAIN f \cup {k} |-> IF x = k THEN v ELSE f[x]]
Last(s) == s[Len(s)]

\* Owners of an index: 0 is the global symbol of the name, i the i-th local.
Locals(n) == {i \in 1..Len(local) : local[i].name = n}

\* sym_search: the innermost symbol of the name.
sym_search(n) ==
  IF Locals(n) = {} THEN 0 ELSE CHOOSE i \in Locals(n) : \A j \in Locals(n) : j <= i
SymbolAt(n, o) == IF o = 0 THEN global[n]
                  ELSE Symbol(local[o].kind, local[o].c)

\* (n + align - 1) & (align - 1), align a power of two
calc_align(n, align) == (n + align - 1) % align

-----------------------------------------------------------------------------
(* coffsym_search, and what it is called for.                              *)

Idle == [kind |-> "idle", name |-> ".data", at |-> 0, owner |-> 0, value |-> 0,
         section |-> "undef", place |-> <<>>]
Busy == work.kind # "idle"

Bucket(n) == elf_hash[n]

\* coffsym_add(name, value, section) for the c of the owner.  place is the
\* section and offset of the relocation that follows, or <<>>.
coffsym_add(n, o, value, section, place) ==
  [kind |-> "add", name |-> n, at |-> hashtab[Bucket(n)], owner |-> o,
   value |-> value, section |-> section, place |-> place]

\* The second search of coffreloc_add, which gives the index of the relocation.
Lookup(n, h, place) ==
  [kind |-> "reloc", name |-> n, at |-> h[Bucket(n)], owner |-> 0, value |-> 0,
   section |-> "undef", place |-> place]

NoUpdate(n, c, value, section) ==   \* mutant: without cfsym->Value = val
  IF c = 0
  THEN /\ work' = coffsym_add(n, 0, value, section, <<>>)
       /\ UNCHANGED symtab
  ELSE /\ symtab' = [symtab EXCEPT ![c].SectionNumber = section]
       /\ UNCHANGED work

\* coffsym_add_update of a name whose symbol has the given c.
coffsym_add_update(n, c, value, section) ==
  IF c = 0
  THEN /\ work' = coffsym_add(n, 0, value, section, <<>>)
       /\ UNCHANGED symtab
  ELSE /\ symtab' = [symtab EXCEPT ![c].Value = value, ![c].SectionNumber = section]
       /\ UNCHANGED work

AlwaysUndefined(n, o, c, place) ==   \* mutant: without if (sym->c == NULL)
  IF c = 0
  THEN /\ work' = coffsym_add(n, o, 0, "undef", place)
       /\ UNCHANGED symtab
  ELSE /\ symtab' = [symtab EXCEPT ![c].Value = 0, ![c].SectionNumber = "undef"]
       /\ work' = Lookup(n, hashtab, place)
\* coffreloc_add: a name without an entry gets an undefined one.
coffreloc_add(n, o, c, place) ==
  /\ work' = IF c = 0 THEN coffsym_add(n, o, 0, "undef", place)
             ELSE Lookup(n, hashtab, place)
  /\ UNCHANGED symtab

AnyName(i) == TRUE   \* mutant: no strcmp
Matches(i) == symtab[i].Name = work.name

\* One turn of the loop of coffsym_search.
Walk ==
  /\ Busy /\ work.at # 0 /\ ~ Matches(work.at)
  /\ work' = [work EXCEPT !.at = symtab[work.at].Next]
  /\ UNCHANGED <<symtab, hashtab, rel, data_offset, global, local, blocks, init,
                 meant, defs, events>>

\* The index goes into Symbol.c of the owner.
SetC(c) ==
  IF work.owner = 0
  THEN /\ global' = [global EXCEPT ![work.name].c = c]
       /\ UNCHANGED local
  ELSE /\ local' = [local EXCEPT ![work.owner].c = c]
       /\ UNCHANGED global

\* What follows coffsym_add: nothing, or the second search of coffreloc_add.
After(h) == work' = IF work.place = <<>> THEN Idle
                    ELSE Lookup(work.name, h, work.place)

\* coffsym_add finds the name: the entry is returned as it is.
EntryFound ==
  /\ work.kind = "add" /\ work.at # 0 /\ Matches(work.at)
  /\ SetC(work.at)
  /\ After(hashtab)
  /\ UNCHANGED <<symtab, hashtab, rel, data_offset, blocks, init, meant, defs, events>>

ChainCut == 0   \* mutant: the new entry is not linked to the others
ChainHead == hashtab[Bucket(work.name)]
NewEntry ==
  [Name |-> work.name, Next |-> ChainHead,
   Value |-> work.value, SectionNumber |-> work.section]

BytesBefore == Len(symtab)   \* mutant: the index before section_ptr_add
NewIndex    == Len(symtab) + 1

\* coffsym_add does not: a new entry, in front of its chain.
EntryAdded ==
  /\ work.kind = "add" /\ work.at = 0
  /\ symtab' = Append(symtab, NewEntry)
  /\ hashtab' = [hashtab EXCEPT ![Bucket(work.name)] = NewIndex]
  /\ SetC(NewIndex)
  /\ After(hashtab')
  /\ UNCHANGED <<rel, data_offset, blocks, init, meant, defs, events>>

\* coffreloc_direct_add with the result of the search, 0 if there is none.
Relocated ==
  /\ work.kind = "reloc"
  /\ work.at = 0 \/ Matches(work.at)
  /\ rel' = Append(rel, [section |-> work.place[1], offset |-> work.place[2],
                         cfsym |-> work.at])
  /\ meant' = Append(meant, work.name)
  /\ work' = Idle
  /\ UNCHANGED <<symtab, hashtab, data_offset, global, local, blocks, init, defs, events>>

-----------------------------------------------------------------------------
(* The source file.                                                        *)

Event == ~ Busy /\ events < MaxEvents /\ events' = events + 1

InFile      == blocks = <<>> /\ init = <<>>
Declaring   == blocks # <<>> /\ Last(blocks).declaring
InStatement == blocks # <<>>

\* The declarations of a block end at its first statement.
Statements(b) == [b EXCEPT ![Len(b)].declaring = FALSE]

PushLocal(n, kind) == local' = Append(local, [name |-> n, kind |-> kind, c |-> 0])

\* external_declatation of a function without a body: known names stay.
DeclareFunction(w) ==
  /\ Event
  /\ InFile \/ Declaring
  /\ IF SymbolAt(w, sym_search(w)).kind # "none" THEN UNCHANGED <<global, local>>
     ELSE IF InFile
     THEN global' = [global EXCEPT ![w] = Symbol("sym", 0)] /\ UNCHANGED local
     ELSE PushLocal(w, "sym") /\ UNCHANGED global
  /\ UNCHANGED <<symtab, hashtab, rel, data_offset, blocks, init, work, meant, defs>>

\* A local variable, or a parameter (gen_prolog).
DeclareLocal(w) ==
  /\ Event
  /\ Declaring
  /\ PushLocal(w, "stack")
  /\ UNCHANGED <<symtab, hashtab, rel, data_offset, global, blocks, init, work,
                 meant, defs>>

\* external_declatation of a variable of the file; a second one, or one with
\* the name of a function, is reported and takes the symbol of the first.
NewAddress(sec, align) == calc_align(data_offset[sec], align)
DeclareVariable(w) ==
  /\ Event
  /\ InFile
  /\ \E sec \in {"data", "bss"}, size \in {1, 4} :
       LET addr == NewAddress(sec, size)
       IN /\ data_offset' = [data_offset EXCEPT ![sec] = addr + size]
          /\ coffsym_add_update(w, global[w].c, addr, sec)
          /\ defs' = Put(defs, w, [section |-> sec, value |-> addr])
          /\ init' = IF sec = "data" THEN <<addr, size>> ELSE <<>>
  /\ global' = IF global[w].kind # "none" THEN global
               ELSE [global EXCEPT ![w] = Symbol("sym", 0)]
  /\ UNCHANGED <<hashtab, rel, local, blocks, meant>>

\* The initializer is a constant.
InitConstant ==
  /\ ~ Busy /\ init # <<>>
  /\ init' = <<>>
  /\ UNCHANGED <<symtab, hashtab, rel, data_offset, global, local, blocks, work,
                 meant, defs, events>>

\* external_declatation at a '{' and funcbody up to its block.
FUNC_PROLOG_SIZE == 9
DefineFunction(w) ==
  /\ Event
  /\ InFile
  /\ coffsym_add_update(w, global[w].c, data_offset["text"], "text")
  /\ defs' = Put(defs, w, [section |-> "text", value |-> data_offset["text"]])
  /\ \E kind \in {"sym", "nosym"} :
       global' = IF global[w].kind # "none" THEN global
                 ELSE [global EXCEPT ![w] = Symbol(kind, 0)]
  /\ data_offset' = [data_offset EXCEPT !["text"] = @ + FUNC_PROLOG_SIZE]
  /\ blocks' = <<[base |-> 0, declaring |-> TRUE]>>
  /\ UNCHANGED <<hashtab, rel, local, init, meant>>

\* The code that names something in a block is a call or a load of an address:
\* an opcode and the dword that the relocation is for.  In an initializer it is
\* the variable, if that has room for an address; the statement list of the
\* block goes on, unless the code is the initializer of a local variable.
InStatementOrInitializer == InStatement \/ init # <<>>
Relocates == init = <<>> \/ init[2] = 4
Place == IF init = <<>> THEN <<"text", data_offset["text"] + 1>>
         ELSE <<"data", init[1]>>
EmitUse(offset) ==
  /\ init' = <<>>
  /\ IF init = <<>>
     THEN /\ data_offset' = [offset EXCEPT !["text"] = @ + 5]
          /\ blocks' \in {blocks, Statements(blocks)}
     ELSE /\ data_offset' = offset
          /\ UNCHANGED blocks

\* primary_expression of an identifier and what its operand is used for.  An
\* unknown one becomes a function of the file.
UseName(w) ==
  /\ Event
  /\ InStatementOrInitializer
  /\ LET o == sym_search(w)
         s == SymbolAt(w, o)
         known == s.kind # "none"
     IN /\ IF s.kind \in {"none", "sym"} /\ Relocates
           THEN coffreloc_add(w, o, s.c, Place)
           ELSE UNCHANGED <<symtab, work>>
        /\ global' = IF known THEN global
                     ELSE [global EXCEPT ![w] = Symbol("sym", 0)]
  /\ EmitUse(data_offset)
  /\ UNCHANGED <<hashtab, rel, local, meant, defs>>

\* primary_expression of a string: its bytes go to .rdata, and the relocation
\* is for the symbol of that section.
UseString ==
  /\ Event
  /\ InStatementOrInitializer
  /\ IF Relocates
     THEN coffreloc_add(".rdata", 0, global[".rdata"].c, Place)
     ELSE UNCHANGED <<symtab, work>>
  /\ EmitUse([data_offset EXCEPT !["rdata"] = NewAddress("rdata", 1) + 2])
  /\ UNCHANGED <<hashtab, rel, global, local, meant, defs>>

OpenBlock ==
  /\ ~ Busy /\ InStatement
  /\ Len(blocks) < MaxBlocks
  /\ blocks' = Append(Statements(blocks), [base |-> Len(local), declaring |-> TRUE])
  /\ UNCHANGED <<symtab, hashtab, rel, data_offset, global, local, init, work,
                 meant, defs, events>>

\* sym_pop at the end of a block; the end of the outermost one is the end of
\* the function, where gen_epilog emits four bytes (ret without an operand).
CloseBlock ==
  /\ ~ Busy /\ InStatement
  /\ local' = SubSeq(local, 1, Last(blocks).base)
  /\ blocks' = SubSeq(blocks, 1, Len(blocks) - 1)
  /\ data_offset' = IF Len(blocks) > 1 THEN data_offset
                    ELSE [data_offset EXCEPT !["text"] = @ + 4]
  /\ UNCHANGED <<symtab, hashtab, rel, global, init, work, meant, defs, events>>

-----------------------------------------------------------------------------
\* InitCoff for .symtab, and the section symbol of init_syntax.
FirstEntries == <<".data", ".bss", ".rdata">>
InChain(b)   == {i \in 1..3 : elf_hash[FirstEntries[i]] = b}
Highest(S)   == IF S = {} THEN 0 ELSE CHOOSE i \in S : \A j \in S : j <= i
Init ==
  /\ symtab = [i \in 1..3 |->
       [Name |-> FirstEntries[i], Value |-> 0,
        Next |-> Highest({j \in InChain(elf_hash[FirstEntries[i]]) : j < i}),
        SectionNumber |-> <<"data", "bss", "rdata">>[i]]]
  /\ hashtab = [b \in 0..MAXKEY - 1 |-> Highest(InChain(b))]
  /\ rel = <<>> /\ meant = <<>>
  /\ data_offset = [s \in Sections |-> 0]
  /\ global = [n \in Names |-> IF n = ".rdata" THEN Symbol("sym", 0) ELSE NoSymbol]
  /\ local = <<>> /\ blocks = <<>> /\ init = <<>>
  /\ work = Idle
  /\ defs = <<>> /\ events = 0

Source ==
  \/ \E w \in Words : \/ DeclareFunction(w) \/ DeclareLocal(w) \/ DeclareVariable(w)
                      \/ DefineFunction(w) \/ UseName(w)
  \/ InitConstant \/ UseString
  \/ OpenBlock \/ CloseBlock
Coff == Walk \/ EntryFound \/ EntryAdded \/ Relocated

\* translation_unit returns at the end of the file.
EndOfFile == ~ Busy /\ InFile /\ UNCHANGED vars

Next == Source \/ Coff \/ EndOfFile
Spec == Init /\ [][Next]_vars

-----------------------------------------------------------------------------
Entry == [Name : Names, Next : Nat, Value : Nat, SectionNumber : Sections]
Kinds == {"none", "sym", "nosym", "stack"}
TypeOK ==
  /\ symtab \in Seq(Entry)
  /\ hashtab \in [0..MAXKEY - 1 -> Nat]
  /\ rel \in Seq([section : Sections, offset : Nat, cfsym : Nat])
  /\ data_offset \in [Sections -> Nat]
  /\ global \in [Names -> [kind : Kinds, c : Nat]]
  /\ local \in Seq([name : Words, kind : Kinds \ {"none"}, c : Nat])
  /\ blocks \in Seq([base : Nat, declaring : BOOLEAN])
  /\ init \in {<<>>} \cup (Nat \X {1, 4})
  /\ work \in [kind : {"idle", "add", "reloc"}, name : Names, at : Nat, owner : Nat,
               value : Nat, section : Sections, place : {<<>>} \cup (Sections \X Nat)]
  /\ meant \in Seq(Names)
  /\ DOMAIN defs \subseteq Words
  /\ defs \in [DOMAIN defs -> [section : Sections, value : Nat]]
  /\ events \in Nat

Entries(b) == {i \in 1..Len(symtab) : elf_hash[symtab[i].Name] = b}

\* i is the highest of the entries of S, 0 if there is none.
HighestOf(i, S) == i \in S \cup {0} /\ \A j \in S : j <= i

\* Every chain, from hashtab through Next, is exactly the entries of its names,
\* the latest first, and a name has one entry: coffsym_search, which starts
\* in the middle of changes to the table, finds what is there.
HashChains ==
  /\ \A b \in 0..MAXKEY - 1 :
       /\ HighestOf(hashtab[b], Entries(b))
       /\ \A i \in Entries(b) : HighestOf(symtab[i].Next, {j \in Entries(b) : j < i})
  /\ \A i, j \in 1..Len(symtab) : symtab[i].Name = symtab[j].Name => i = j

\* A symbol that remembers an entry remembers the one of its name, however
\* many declarations, blocks and uses lie between.
SymbolsIndexed ==
  /\ \A n \in Names : global[n].c # 0 =>
       global[n].c \in 1..Len(symtab) /\ symtab[global[n].c].Name = n
  /\ \A i \in 1..Len(local) : local[i].c # 0 =>
       local[i].c \in 1..Len(symtab) /\ symtab[local[i].c].Name = local[i].name

\* The index in a relocation is that of the name the source used there.
RelocsNamed ==
  /\ Len(rel) = Len(meant)
  /\ \A k \in 1..Len(rel) :
       rel[k].cfsym \in 1..Len(symtab) /\ symtab[rel[k].cfsym].Name = meant[k]

EntryIs(i, w) ==
  /\ symtab[i].Name = w
  /\ symtab[i].SectionNumber = defs[w].section /\ symtab[i].Value = defs[w].value

\* A name with a definition has an entry, and this is undefined or says where
\* the last definition of the file put it (CL_Syntax.cpp:326, 610), never where
\* an earlier one did.
EntriesCurrent ==
  ~ Busy => \A w \in DOMAIN defs : \E i \in 1..Len(symtab) :
    EntryIs(i, w) \/ (symtab[i].Name = w /\ symtab[i].SectionNumber = "undef")

\* No step moves or renames an entry, or makes a defined one undefined: the
\* indexes in relocations and symbols stay good.
EntriesStay ==
  [][\A i \in 1..Len(symtab) :
       /\ i <= Len(symtab')
       /\ symtab'[i].Name = symtab[i].Name
       /\ symtab[i].SectionNumber # "undef" => symtab'[i].SectionNumber # "undef"]_vars

-----------------------------------------------------------------------------
(* The inductive invariant.                                                *)

\* A search has not passed the entry of its name, and what it is for is still
\* there: the symbol that gets the index, the entry a relocation refers to.
WalkComplete ==
  Busy =>
    /\ work.at \in Entries(Bucket(work.name)) \cup {0}
    /\ \A i \in Entries(Bucket(work.name)) :
         symtab[i].Name = work.name => i <= work.at
    /\ work.owner # 0 =>
         work.owner \in 1..Len(local) /\ local[work.owner].name = work.name
    /\ work.kind = "reloc" =>
         /\ work.place # <<>>
         /\ \E i \in 1..Len(symtab) : symtab[i].Name = work.name

\* An open block began above those around it, and the stack is not below it.
BlocksNested ==
  /\ \A i \in 1..Len(blocks) : blocks[i].base <= Len(local)
  /\ \A i, j \in 1..Len(blocks) : i <= j => blocks[i].base <= blocks[j].base

\* What keeps a search exact while the table, the symbols of the compiler and
\* the relocations change around it: all of the above, and that the search
\* (CL_Coff.cpp:219-242) and the blocks it runs in are consistent with them.
IInv ==
  /\ TypeOK
  /\ HashChains
  /\ SymbolsIndexed
  /\ RelocsNamed
  /\ WalkComplete
  /\ BlocksNested

\* A name without a symbol of the file has no index, and no search is for one;
\* the section of the strings has a symbol.
SymbolsKnown ==
  /\ \A n \in Names : global[n].kind = "none" =>
       global[n].c = 0 /\ ~ (work.kind = "add" /\ work.name = n /\ work.owner = 0)
  /\ global[".rdata"].kind # "none"

\* A definition is looking for the entry of w.
Defining(w) == work.kind = "add" /\ work.name = w /\ work.section # "undef"

\* A name with a definition has a symbol, which remembers an entry as soon as
\* the search of the first definition is done.  An entry that is defined says
\* what the last definition of its name said; while the first one is looking
\* for an entry there is none that is defined.
DefsInv ==
  /\ \A w \in DOMAIN defs : /\ global[w].kind # "none"
                            /\ global[w].c # 0 \/ Defining(w)
  /\ \A w \in Words : Defining(w) =>
       /\ w \in DOMAIN defs /\ work.owner = 0
       /\ work.section = defs[w].section /\ work.value = defs[w].value
  /\ \A i \in 1..Len(symtab), w \in Words :
       symtab[i].Name = w /\ symtab[i].SectionNumber # "undef" =>
         w \in DOMAIN defs /\ EntryIs(i, w) /\ ~ Defining(w)
=============
