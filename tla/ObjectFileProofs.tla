-------------------------- MODULE ObjectFileProofs --------------------------
(***************************************************************************)
(* Proofs about ObjectFile, for every hash function, every set of          *)
(* identifiers and every source file: a search of the symbol table finds   *)
(* the entry of its name.                                                  *)
(***************************************************************************)
EXTENDS ObjectFile, SequenceTheorems, WellFoundedInduction, TLAPS

-----------------------------------------------------------------------------
(* Numbers and sequences.                                                  *)

\* A set of the indexes of a sequence has a highest member.
LEMMA HighestExists ==
  ASSUME NEW n \in Nat, NEW S \in SUBSET (1..n), S # {}
  PROVE  \E i \in S : \A j \in S : j <= i
<1> DEFINE T == {k \in Nat : \E j \in S : k = n - j}
           R == OpToRel(<, Nat)
<1>1. T \subseteq Nat /\ T # {}
  <2>1. PICK j \in S : TRUE OBVIOUS
  <2>2. n - j \in Nat BY <2>1
  <2> QED BY <2>1, <2>2
<1>2. IsWellFoundedOn(R, Nat) BY NatLessThanWellFounded
<1>3. \A k, m \in Nat : k < m => <<k, m>> \in R BY DEF OpToRel
<1> HIDE DEF R
<1>4. \E k \in T : \A m \in T : ~ (<<m, k>> \in R)
  BY <1>1, <1>2, WFMin
<1>5. PICK k \in T : \A m \in T : ~ (m < k) BY <1>1, <1>3, <1>4
<1>6. PICK i \in S : k = n - i BY <1>5
<1>7. ASSUME NEW j \in S PROVE j <= i
  <2>1. n - j \in T /\ n - j \in Nat OBVIOUS
  <2>2. ~ (n - j < k) BY <1>5, <2>1
  <2> QED BY <2>2, <1>6
<1> QED BY <1>7

\* What is left of a sequence when its end is cut off.
LEMMA Cut ==
  ASSUME NEW X, NEW s \in Seq(X), NEW n \in Nat, n <= Len(s)
  PROVE  /\ SubSeq(s, 1, n) \in Seq(X) /\ Len(SubSeq(s, 1, n)) = n
         /\ \A i \in 1..n : SubSeq(s, 1, n)[i] = s[i]
<1>1. n \in 0..Len(s) BY LenProperties
<1>2. 1..n \subseteq 1..Len(s) BY <1>1, LenProperties
<1> QED BY <1>1, <1>2, SubSeqProperties, ElementOfSeq, Z3

\* calc_align gives a natural number.
LEMMA AlignTyped ==
  ASSUME NEW n \in Nat, NEW a \in {1, 4} PROVE calc_align(n, a) \in Nat
<1>1. CASE a = 1 BY <1>1 DEF calc_align
<1>2. CASE a = 4 BY <1>2 DEF calc_align
<1> QED BY <1>1, <1>2

-----------------------------------------------------------------------------
(* The table.                                                              *)

\* Entries may change what they say, and no name and no link.
SameNames ==
  /\ Len(symtab') = Len(symtab)
  /\ \A i \in 1..Len(symtab) : /\ symtab'[i].Name = symtab[i].Name
                               /\ symtab'[i].Next = symtab[i].Next
  /\ hashtab' = hashtab

LEMMA NamesKept ==
  ASSUME SameNames
  PROVE  /\ \A b : Entries(b)' = Entries(b)
         /\ HashChains => HashChains'
<1>1. ASSUME NEW b PROVE Entries(b)' = Entries(b)
  BY DEF SameNames, Entries
<1>2. ASSUME HashChains PROVE HashChains'
  <2>1. ASSUME NEW b \in 0..MAXKEY - 1
        PROVE  /\ HighestOf(hashtab'[b], Entries(b)')
               /\ \A i \in Entries(b)' :
                    HighestOf(symtab'[i].Next, {j \in Entries(b)' : j < i})
    <3>1. Entries(b)' = Entries(b) BY <1>1
    <3>2. \A i \in Entries(b) : symtab'[i].Next = symtab[i].Next
      BY DEF SameNames, Entries
    <3>3. HighestOf(hashtab[b], Entries(b)) BY <1>2 DEF HashChains
    <3>4. \A i \in Entries(b) : HighestOf(symtab[i].Next, {j \in Entries(b) : j < i})
      BY <1>2 DEF HashChains
    <3> QED BY <3>1, <3>2, <3>3, <3>4 DEF SameNames
  <2>2. ASSUME NEW i \in 1..Len(symtab'), NEW j \in 1..Len(symtab'),
               symtab'[i].Name = symtab'[j].Name
        PROVE  i = j
    BY <1>2, <2>2 DEF SameNames, HashChains
  <2> QED BY <2>1, <2>2 DEF HashChains, HighestOf
<1> QED BY <1>1, <1>2

\* A new entry in front of its chain, for a name that has none.
LEMMA TableGrown ==
  ASSUME TypeOK, HashChains, WalkComplete, ObjectFileAssumption, EntryAdded
  PROVE  /\ symtab' \in Seq(Entry) /\ Len(symtab') = Len(symtab) + 1
         /\ \A i \in 1..Len(symtab) : symtab'[i] = symtab[i]
         /\ symtab'[Len(symtab) + 1].Name = work.name
         /\ hashtab' \in [0..MAXKEY - 1 -> Nat]
         /\ HashChains'
<1>0. PICK h : h = elf_hash[work.name] OBVIOUS
<1>n. PICK n : n = Len(symtab) + 1 OBVIOUS
<1>1. /\ work.name \in Names /\ h \in 0..MAXKEY - 1 /\ hashtab[h] \in Nat
      /\ work.value \in Nat /\ work.section \in Sections
      /\ symtab \in Seq(Entry) /\ Len(symtab) \in Nat
  BY <1>0, LenProperties DEF TypeOK, ObjectFileAssumption
<1>2. NewEntry = [Name |-> work.name, Next |-> hashtab[h],
                  Value |-> work.value, SectionNumber |-> work.section]
  BY <1>0 DEF NewEntry, ChainHead, Bucket
<1>3. NewEntry \in Entry BY <1>1, <1>2 DEF Entry
<1>4. symtab' = Append(symtab, NewEntry) /\ hashtab' = [hashtab EXCEPT ![h] = n]
  BY <1>0, <1>n DEF EntryAdded, NewIndex, Bucket
<1>5. /\ symtab' \in Seq(Entry) /\ Len(symtab') = n
      /\ \A i \in 1..Len(symtab) : symtab'[i] = symtab[i]
      /\ symtab'[n] = NewEntry
  BY <1>1, <1>3, <1>4, <1>n, AppendProperties
<1>6. /\ symtab'[n].Name = work.name /\ symtab'[n].Next = hashtab[h]
  BY <1>5, <1>2
<1>7. hashtab' \in [0..MAXKEY - 1 -> Nat]
  <2>1. n \in Nat BY <1>1, <1>n
  <2>2. hashtab \in [0..MAXKEY - 1 -> Nat] BY DEF TypeOK
  <2> QED BY <1>4, <2>1, <2>2
<1>8. /\ hashtab'[h] = n
      /\ \A b \in 0..MAXKEY - 1 : b # h => hashtab'[b] = hashtab[b]
  BY <1>1, <1>4 DEF TypeOK
<1>18. n \in Nat /\ n \notin 1..Len(symtab)
      /\ 1..n = 1..Len(symtab) \cup {n}
  BY <1>1, <1>n
<1>9. Entries(h)' = Entries(h) \cup {n}
  BY <1>0, <1>5, <1>6, <1>18, <1>n DEF Entries
<1>10. \A b : b # h => Entries(b)' = Entries(b)
  BY <1>0, <1>5, <1>6, <1>18, <1>n DEF Entries
<1>11. \A i \in Entries(h) : symtab[i].Name # work.name
  <2>1. /\ Busy /\ work.at = 0 BY DEF EntryAdded, Busy
  <2>2. \A i \in Entries(h) : symtab[i].Name = work.name => i <= 0
    BY <2>1, <1>0 DEF WalkComplete, Bucket
  <2> QED BY <2>2, <1>1, <1>0 DEF Entries
<1>12. \A i \in 1..Len(symtab) : symtab[i].Name # work.name
  BY <1>11, <1>0 DEF Entries
<1>13. \A b : \A i \in Entries(b) : i \in 1..Len(symtab) /\ i < n
  BY <1>1, <1>18, <1>n DEF Entries
<1>14. ASSUME NEW b \in 0..MAXKEY - 1
       PROVE  HighestOf(hashtab'[b], Entries(b)')
  <2>1. CASE b = h
    <3>1. HighestOf(n, Entries(h) \cup {n}) BY <1>13, <1>18, <1>n DEF HighestOf
    <3> QED BY <2>1, <3>1, <1>8, <1>9
  <2>2. CASE b # h
    BY <2>2, <1>8, <1>10 DEF HashChains
  <2> QED BY <2>1, <2>2
<1>15. ASSUME NEW b \in 0..MAXKEY - 1, NEW i \in Entries(b)'
       PROVE  HighestOf(symtab'[i].Next, {j \in Entries(b)' : j < i})
  <2>1. CASE i \in Entries(b)
    <3>1. {j \in Entries(b)' : j < i} = {j \in Entries(b) : j < i}
      <4>1. i < n /\ i \in Nat BY <2>1, <1>1, <1>13
      <4>2. Entries(b) \subseteq Entries(b)' /\ Entries(b)' \subseteq Entries(b) \cup {n}
        BY <1>9, <1>10
      <4>3. ~ (n < i) BY <4>1, <1>18
      <4> QED BY <4>2, <4>3
    <3>2. symtab'[i] = symtab[i] BY <2>1, <1>5, <1>13
    <3>3. HighestOf(symtab[i].Next, {j \in Entries(b) : j < i})
      BY <2>1 DEF HashChains
    <3> QED BY <3>1, <3>2, <3>3
  <2>2. CASE i \notin Entries(b)
    <3>1. b = h /\ i = n BY <2>2, <1>9, <1>10
    <3>2. {j \in Entries(b)' : j < i} = Entries(h)
      BY <3>1, <1>9, <1>13, <1>18, <1>n
    <3>3. HighestOf(hashtab[h], Entries(h)) BY <1>1 DEF HashChains
    <3> QED BY <3>1, <3>2, <3>3, <1>6
  <2> QED BY <2>1, <2>2
<1>16. ASSUME NEW i \in 1..n, NEW j \in 1..n, symtab'[i].Name = symtab'[j].Name
       PROVE  i = j
  <2>1. CASE i \in 1..Len(symtab) /\ j \in 1..Len(symtab)
    BY <1>16, <2>1, <1>5 DEF HashChains
  <2>2. CASE i = n /\ j \in 1..Len(symtab)
    BY <1>16, <2>2, <1>5, <1>6, <1>12
  <2>3. CASE j = n /\ i \in 1..Len(symtab)
    BY <1>16, <2>3, <1>5, <1>6, <1>12
  <2> QED BY <2>1, <2>2, <2>3, <1>18, <1>n
<1>17. HashChains'
  BY <1>5, <1>14, <1>15, <1>16 DEF HashChains, HighestOf
<1> QED BY <1>5, <1>6, <1>7, <1>17, <1>18, <1>n

-----------------------------------------------------------------------------
(* Searches and the parts of the invariant that they rest on.              *)

\* A step of the source file leaves a search at the head of its chain.
Started ==
  work'.kind # "idle" =>
    /\ work'.at = hashtab[elf_hash[work'.name]]
    /\ work'.owner # 0 =>
         work'.owner \in 1..Len(local') /\ local'[work'.owner].name = work'.name
    /\ work'.kind = "reloc" =>
         /\ work'.place # <<>>
         /\ \E i \in 1..Len(symtab) : symtab[i].Name = work'.name

\* Symbols are pushed without an entry, popped, or left alone.
SymbolsFewer ==
  /\ \A n \in Names : global'[n].c \in {0, global[n].c}
  /\ \A i \in 1..Len(local') : \/ local'[i].c = 0
                               \/ i \in 1..Len(local) /\ local'[i] = local[i]

\* A step of the source file keeps the invariant if it keeps the names of the
\* table, starts its search properly and invents no index.
LEMMA SourceStep ==
  ASSUME IInv, ObjectFileAssumption, TypeOK', BlocksNested', SameNames,
         rel' = rel, meant' = meant, SymbolsFewer, Started
  PROVE  IInv'
<1>1. HashChains' /\ \A b : Entries(b)' = Entries(b) BY NamesKept DEF IInv
<1>2. SymbolsIndexed'
  <2>1. ASSUME NEW n \in Names, global'[n].c # 0
        PROVE  global'[n].c \in 1..Len(symtab') /\ symtab'[global'[n].c].Name = n
    <3>1. global'[n].c = global[n].c BY <2>1 DEF SymbolsFewer
    <3>2. global[n].c \in 1..Len(symtab) /\ symtab[global[n].c].Name = n
      BY <2>1, <3>1 DEF IInv, SymbolsIndexed
    <3> QED BY <3>1, <3>2 DEF SameNames
  <2>2. ASSUME NEW i \in 1..Len(local'), local'[i].c # 0
        PROVE  /\ local'[i].c \in 1..Len(symtab')
               /\ symtab'[local'[i].c].Name = local'[i].name
    <3>1. i \in 1..Len(local) /\ local'[i] = local[i]
      BY <2>2 DEF SymbolsFewer
    <3>2. local[i].c \in 1..Len(symtab) /\ symtab[local[i].c].Name = local[i].name
      BY <2>2, <3>1 DEF IInv, SymbolsIndexed
    <3> QED BY <3>1, <3>2 DEF SameNames
  <2> QED BY <2>1, <2>2 DEF SymbolsIndexed
<1>3. RelocsNamed' BY DEF IInv, RelocsNamed, SameNames
<1>4. WalkComplete'
  <2> SUFFICES ASSUME Busy' PROVE WalkComplete' BY DEF WalkComplete
  <2>1. PICK b : b = elf_hash[work'.name] OBVIOUS
  <2>2. b \in 0..MAXKEY - 1 BY <2>1 DEF TypeOK, ObjectFileAssumption
  <2>3. HighestOf(hashtab[b], Entries(b)) BY <2>2 DEF IInv, HashChains
  <2>4. work'.at = hashtab[b] BY <2>1 DEF Started, Busy
  <2>5. work'.at \in Entries(b) \cup {0} /\ \A i \in Entries(b) : i <= work'.at
    BY <2>3, <2>4 DEF HighestOf
  <2>6. Bucket(work.name)' = b BY <2>1 DEF Bucket
  <2>7. \A i \in 1..Len(symtab) : symtab'[i].Name = symtab[i].Name
    BY DEF SameNames
  <2>8. work'.kind = "reloc" => \E i \in 1..Len(symtab') : symtab'[i].Name = work'.name
    BY <2>7 DEF Started, Busy, SameNames
  <2>9. Entries(Bucket(work.name))' = Entries(b) BY <1>1, <2>6
  <2> QED BY <2>5, <2>8, <2>9 DEF WalkComplete, Started, Busy
<1> QED BY <1>1, <1>2, <1>3, <1>4 DEF IInv

\* What work may be.
Work == [kind : {"idle", "add", "reloc"}, name : Names, at : Nat, owner : Nat,
         value : Nat, section : Sections, place : {<<>>} \cup (Sections \X Nat)]

LEMMA HeadTyped ==
  ASSUME TypeOK, ObjectFileAssumption, NEW n \in Names
  PROVE  elf_hash[n] \in 0..MAXKEY - 1 /\ hashtab[elf_hash[n]] \in Nat
BY DEF TypeOK, ObjectFileAssumption

LEMMA IdleTyped == Idle \in Work
BY DEF Idle, Work, Names, SectionNames, Sections

\* coffsym_add_update of a name of the file.
LEMMA AddUpdate ==
  ASSUME IInv, ObjectFileAssumption, ~ Busy, NEW w \in Names, NEW value \in Nat,
         NEW section \in Sections \ {"undef"}, hashtab' = hashtab,
         coffsym_add_update(w, global[w].c, value, section)
  PROVE  /\ symtab' \in Seq(Entry) /\ SameNames
         /\ work' \in Work /\ Started
         /\ \A i \in 1..Len(symtab) :
              symtab[i].SectionNumber # "undef" => symtab'[i].SectionNumber # "undef"
<1>1. /\ symtab \in Seq(Entry) /\ work \in Work /\ global[w].c \in Nat
  BY DEF IInv, TypeOK, Work
<1>2. CASE global[w].c = 0
  <2>1. symtab' = symtab
    BY <1>2 DEF coffsym_add_update
  <2>2. work' = [kind |-> "add", name |-> w, at |-> hashtab[elf_hash[w]], owner |-> 0,
                 value |-> value, section |-> section, place |-> <<>>]
    BY <1>2 DEF coffsym_add_update, coffsym_add, Bucket
  <2>3. work' \in Work BY <2>2, HeadTyped DEF IInv, Work
  <2>4. Started BY <2>2 DEF Started
  <2> QED BY <1>1, <2>1, <2>3, <2>4 DEF SameNames
<1>3. CASE global[w].c # 0
  <2>1. PICK c : c = global[w].c OBVIOUS
  <2>2. c \in 1..Len(symtab) BY <1>3, <2>1 DEF IInv, SymbolsIndexed
  <2>3. work' = work
    BY <1>3 DEF coffsym_add_update
  <2>4. symtab' = [symtab EXCEPT ![c].Value = value, ![c].SectionNumber = section]
    BY <1>3, <2>1 DEF coffsym_add_update
  <2>5. \A i \in 1..Len(symtab) : symtab[i] \in Entry BY <1>1, ElementOfSeq
  <2>6. PICK e : e = [symtab[c] EXCEPT !.Value = value, !.SectionNumber = section]
    OBVIOUS
  <2>7. /\ e \in Entry /\ e.Name = symtab[c].Name /\ e.Next = symtab[c].Next
        /\ e.SectionNumber = section
    BY <2>2, <2>5, <2>6 DEF Entry
  <2>8. symtab' = [symtab EXCEPT ![c] = e] BY <2>4, <2>6
  <2>9. /\ symtab' \in Seq(Entry) /\ Len(symtab') = Len(symtab)
        /\ \A i \in 1..Len(symtab) : symtab'[i] = IF i = c THEN e ELSE symtab[i]
    BY <1>1, <2>2, <2>7, <2>8, ExceptSeq
  <2>10. SameNames BY <2>7, <2>9 DEF SameNames
  <2>11. Started BY <2>3 DEF Started, Busy
  <2> QED BY <1>1, <2>3, <2>7, <2>9, <2>10, <2>11
<1> QED BY <1>2, <1>3

\* coffreloc_add for the symbol at an owner.
LEMMA RelocAdd ==
  ASSUME IInv, ObjectFileAssumption, NEW n \in Names, NEW o \in Nat,
         o # 0 => o \in 1..Len(local) /\ local[o].name = n,
         NEW a \in Sections, NEW x \in Nat,
         hashtab' = hashtab, local' = local,
         coffreloc_add(n, o, SymbolAt(n, o).c, <<a, x>>)
  PROVE  symtab' = symtab /\ work' \in Work /\ Started
<1>1. PICK c : c = SymbolAt(n, o).c OBVIOUS
<1>2. symtab' = symtab BY DEF coffreloc_add
<1>3. <<a, x>> \in Sections \X Nat /\ <<a, x>> # <<>> OBVIOUS
<1>4. CASE c = 0
  <2>1. work' = [kind |-> "add", name |-> n, at |-> hashtab[elf_hash[n]], owner |-> o,
                 value |-> 0, section |-> "undef", place |-> <<a, x>>]
    BY <1>1, <1>4 DEF coffreloc_add, coffsym_add, Bucket
  <2>2. work' \in Work BY <2>1, <1>3, HeadTyped DEF IInv, Work, Sections
  <2>3. Started BY <2>1 DEF Started
  <2> QED BY <1>2, <2>2, <2>3
<1>5. CASE c # 0
  <2>1. work' = [kind |-> "reloc", name |-> n, at |-> hashtab[elf_hash[n]], owner |-> 0,
                 value |-> 0, section |-> "undef", place |-> <<a, x>>]
    BY <1>1, <1>5 DEF coffreloc_add, Lookup, Bucket
  <2>2. work' \in Work BY <2>1, <1>3, HeadTyped DEF IInv, Work, Sections
  <2>3. \E i \in 1..Len(symtab) : symtab[i].Name = n
    <3>1. CASE o = 0
      BY <3>1, <1>1, <1>5 DEF SymbolAt, IInv, SymbolsIndexed
    <3>2. CASE o # 0
      <4>1. c = local[o].c BY <3>2, <1>1 DEF SymbolAt, Symbol
      <4> QED BY <3>2, <4>1, <1>5 DEF IInv, SymbolsIndexed
    <3> QED BY <3>1, <3>2
  <2>4. Started BY <2>1, <2>3, <1>3 DEF Started
  <2> QED BY <1>2, <2>2, <2>4
<1> QED BY <1>4, <1>5

\* sym_search gives a symbol of the name.
LEMMA SearchFinds ==
  ASSUME TypeOK, NEW w
  PROVE  /\ sym_search(w) \in Nat
         /\ sym_search(w) # 0 =>
              sym_search(w) \in 1..Len(local) /\ local[sym_search(w)].name = w
<1>1. Len(local) \in Nat BY LenProperties DEF TypeOK
<1>2. Locals(w) \subseteq 1..Len(local) /\ \A i \in Locals(w) : local[i].name = w
  BY DEF Locals
<1>3. CASE Locals(w) = {} BY <1>3 DEF sym_search
<1>4. CASE Locals(w) # {}
  <2>1. \E i \in Locals(w) : \A j \in Locals(w) : j <= i
    BY <1>1, <1>2, <1>4, HighestExists
  <2>2. sym_search(w) \in Locals(w) BY <1>4, <2>1 DEF sym_search
  <2> QED BY <2>2, <1>1, <1>2
<1> QED BY <1>3, <1>4

-----------------------------------------------------------------------------
(* The stacks of the compiler.                                             *)

Local == [name : Words, kind : Kinds \ {"none"}, c : Nat]
Block == [base : Nat, declaring : BOOLEAN]

LEMMA Pushed ==
  ASSUME TypeOK, NEW w \in Words, NEW kind \in Kinds \ {"none"},
         PushLocal(w, kind)
  PROVE  /\ local' \in Seq(Local) /\ Len(local') = Len(local) + 1
         /\ \A i \in 1..Len(local') : \/ local'[i].c = 0
                                      \/ i \in 1..Len(local) /\ local'[i] = local[i]
<1>1. local \in Seq(Local) /\ Len(local) \in Nat
  BY LenProperties DEF TypeOK, Local
<1>2. PICK x : x = [name |-> w, kind |-> kind, c |-> 0] OBVIOUS
<1>3. x \in Local /\ x.c = 0 BY <1>2 DEF Local
<1>4. local' = Append(local, x) BY <1>2 DEF PushLocal
<1>5. /\ local' \in Seq(Local) /\ Len(local') = Len(local) + 1
      /\ \A i \in 1..Len(local) : local'[i] = local[i]
      /\ local'[Len(local) + 1] = x
  BY <1>1, <1>3, <1>4, AppendProperties
<1> QED BY <1>1, <1>3, <1>5

LEMMA StatementsKeep ==
  ASSUME NEW b \in Seq(Block), b # <<>>
  PROVE  /\ Statements(b) \in Seq(Block) /\ Len(Statements(b)) = Len(b)
         /\ \A i \in 1..Len(b) : Statements(b)[i].base = b[i].base
<1>1. Len(b) \in 1..Len(b) BY LenProperties, EmptySeq
<1>2. PICK n : n = Len(b) OBVIOUS
<1>3. \A i \in 1..Len(b) : b[i] \in Block BY ElementOfSeq
<1>4. PICK e : e = [b[n] EXCEPT !.declaring = FALSE] OBVIOUS
<1>5. e \in Block /\ e.base = b[n].base BY <1>1, <1>2, <1>3, <1>4 DEF Block
<1>6. Statements(b) = [b EXCEPT ![n] = e] BY <1>2, <1>4 DEF Statements
<1> QED BY <1>1, <1>2, <1>5, <1>6, ExceptSeq

LEMMA TypeParts ==
  TypeOK <=>
    /\ symtab \in Seq(Entry)
    /\ hashtab \in [0..MAXKEY - 1 -> Nat]
    /\ rel \in Seq([section : Sections, offset : Nat, cfsym : Nat])
    /\ data_offset \in [Sections -> Nat]
    /\ global \in [Names -> [kind : Kinds, c : Nat]]
    /\ local \in Seq(Local)
    /\ blocks \in Seq(Block)
    /\ init \in {<<>>} \cup (Nat \X {1, 4})
    /\ work \in Work
    /\ meant \in Seq(Names)
    /\ DOMAIN defs \subseteq Words
    /\ defs \in [DOMAIN defs -> [section : Sections, value : Nat]]
    /\ events \in Nat
BY DEF TypeOK, Local, Block, Work

LEMMA TypeNext ==
  ASSUME /\ symtab' \in Seq(Entry)
         /\ hashtab' \in [0..MAXKEY - 1 -> Nat]
         /\ rel' \in Seq([section : Sections, offset : Nat, cfsym : Nat])
         /\ data_offset' \in [Sections -> Nat]
         /\ global' \in [Names -> [kind : Kinds, c : Nat]]
         /\ local' \in Seq(Local)
         /\ blocks' \in Seq(Block)
         /\ init' \in {<<>>} \cup (Nat \X {1, 4})
         /\ work' \in Work
         /\ meant' \in Seq(Names)
         /\ DOMAIN defs' \subseteq Words
         /\ defs' \in [DOMAIN defs' -> [section : Sections, value : Nat]]
         /\ events' \in Nat
  PROVE  TypeOK'
BY DEF TypeOK, Local, Block, Work

\* A declaration, a definition or a use begins.
LEMMA Begins ==
  ASSUME IInv, Event
  PROVE  TypeOK /\ ~ Busy /\ events' \in Nat
<1>1. TypeOK BY DEF IInv
<1>2. events \in Nat BY <1>1, TypeParts
<1> QED BY <1>1, <1>2 DEF Event

\* Blocks stay nested while the stack of symbols does not get shorter.
LEMMA BlocksKept ==
  ASSUME TypeOK, BlocksNested, TypeOK', Len(blocks') = Len(blocks),
         \A i \in 1..Len(blocks) : blocks'[i].base = blocks[i].base,
         Len(local) <= Len(local')
  PROVE  BlocksNested'
<1>1. Len(local) \in Nat /\ Len(local') \in Nat
  BY LenProperties DEF TypeOK
<1>2. \A i \in 1..Len(blocks) : blocks[i].base \in Nat
  <2>1. blocks \in Seq(Block) BY TypeParts
  <2>2. \A i \in 1..Len(blocks) : blocks[i] \in Block BY <2>1, ElementOfSeq
  <2> QED BY <2>2 DEF Block
<1> QED BY <1>1, <1>2 DEF BlocksNested

LEMMA SymbolTyped ==
  ASSUME TypeOK, NEW n \in Names, NEW kind \in Kinds
  PROVE  [global EXCEPT ![n] = Symbol(kind, 0)] \in [Names -> [kind : Kinds, c : Nat]]
BY DEF TypeOK, Symbol

LEMMA PutTyped ==
  ASSUME TypeOK, NEW w \in Words, NEW v \in [section : Sections, value : Nat],
         defs' = Put(defs, w, v)
  PROVE  /\ DOMAIN defs' \subseteq Words
         /\ defs' \in [DOMAIN defs' -> [section : Sections, value : Nat]]
<1>1. /\ DOMAIN defs \subseteq Words
      /\ defs \in [DOMAIN defs -> [section : Sections, value : Nat]]
  BY DEF TypeOK
<1>2. DOMAIN defs' = DOMAIN defs \cup {w} BY DEF Put
<1> QED BY <1>1, <1>2 DEF Put

LEMMA NoSearch ==
  ASSUME ~ Busy, work' = work PROVE Started
BY DEF Busy, Started

-----------------------------------------------------------------------------
(* The source file.                                                        *)

LEMMA WordNames == Words \subseteq Names BY DEF Names

LEMMA DeclareFunctionStep ==
  ASSUME IInv, ObjectFileAssumption, NEW w \in Words, DeclareFunction(w)
  PROVE  IInv'
<1>1. /\ TypeOK /\ ~ Busy /\ events' \in Nat /\ w \in Names
      /\ UNCHANGED <<symtab, hashtab, rel, data_offset, blocks, init, work, meant, defs>>
  BY WordNames, Begins DEF DeclareFunction
<1>2. /\ global' \in [Names -> [kind : Kinds, c : Nat]]
      /\ local' \in Seq(Local) /\ Len(local) <= Len(local')
      /\ SymbolsFewer
  <2>0. /\ global \in [Names -> [kind : Kinds, c : Nat]]
        /\ local \in Seq(Local) /\ Len(local) \in Nat
    BY <1>1, TypeParts, LenProperties
  <2>1. CASE UNCHANGED <<global, local>>
    BY <2>0, <2>1 DEF SymbolsFewer
  <2>2. CASE global' = [global EXCEPT ![w] = Symbol("sym", 0)] /\ UNCHANGED local
    <3>1. global' \in [Names -> [kind : Kinds, c : Nat]]
      BY <2>2, <1>1, SymbolTyped DEF Kinds
    <3>2. \A n \in Names : global'[n].c \in {0, global[n].c}
      BY <2>0, <2>2 DEF Symbol
    <3> QED BY <2>0, <2>2, <3>1, <3>2 DEF SymbolsFewer
  <2>3. CASE PushLocal(w, "sym") /\ UNCHANGED global
    BY <2>0, <2>3, <1>1, Pushed DEF SymbolsFewer, Kinds
  <2> QED BY <2>1, <2>2, <2>3 DEF DeclareFunction
<1>3. TypeOK' BY <1>1, <1>2, TypeParts, TypeNext
<1>4. BlocksNested' BY <1>1, <1>2, <1>3, BlocksKept DEF IInv
<1>5. SameNames /\ Started BY <1>1, NoSearch DEF SameNames
<1> QED BY <1>1, <1>2, <1>3, <1>4, <1>5, SourceStep

LEMMA DeclareLocalStep ==
  ASSUME IInv, ObjectFileAssumption, NEW w \in Words, DeclareLocal(w)
  PROVE  IInv'
<1>1. /\ TypeOK /\ ~ Busy /\ events' \in Nat /\ PushLocal(w, "stack")
      /\ UNCHANGED <<symtab, hashtab, rel, data_offset, global, blocks, init, work,
                     meant, defs>>
  BY Begins DEF DeclareLocal
<1>2. /\ local' \in Seq(Local) /\ Len(local') = Len(local) + 1
      /\ Len(local) \in Nat /\ SymbolsFewer
  BY <1>1, Pushed, TypeParts, LenProperties DEF SymbolsFewer, Kinds
<1>3. TypeOK' BY <1>1, <1>2, TypeParts, TypeNext
<1>4. BlocksNested' BY <1>1, <1>2, <1>3, BlocksKept DEF IInv
<1>5. SameNames /\ Started BY <1>1, NoSearch DEF SameNames
<1> QED BY <1>1, <1>2, <1>3, <1>4, <1>5, SourceStep

\* The symbol of the file that a declaration or a use makes, if there is none.
LEMMA GlobalMade ==
  ASSUME TypeOK, NEW n \in Names, NEW kind \in Kinds, NEW known \in BOOLEAN,
         global' = IF known THEN global ELSE [global EXCEPT ![n] = Symbol(kind, 0)]
  PROVE  /\ global' \in [Names -> [kind : Kinds, c : Nat]]
         /\ \A m \in Names : global'[m].c \in {0, global[m].c}
<1>1. global \in [Names -> [kind : Kinds, c : Nat]] BY DEF TypeOK
<1>2. CASE known BY <1>1, <1>2
<1>3. CASE ~ known
  <2>1. global' = [global EXCEPT ![n] = Symbol(kind, 0)] BY <1>3
  <2>2. \A m \in Names : global'[m].c \in {0, global[m].c}
    BY <1>1, <2>1 DEF Symbol
  <2> QED BY <2>1, <2>2, SymbolTyped
<1> QED BY <1>2, <1>3

LEMMA DeclareVariableStep ==
  ASSUME IInv, ObjectFileAssumption, NEW w \in Words, DeclareVariable(w)
  PROVE  IInv'
<1>1. /\ TypeOK /\ ~ Busy /\ events' \in Nat /\ w \in Names
      /\ UNCHANGED <<hashtab, rel, local, blocks, meant>>
  BY WordNames, Begins DEF DeclareVariable
<1>2. PICK sec \in {"data", "bss"}, size \in {1, 4} :
        /\ data_offset' = [data_offset EXCEPT ![sec] = NewAddress(sec, size) + size]
        /\ coffsym_add_update(w, global[w].c, NewAddress(sec, size), sec)
        /\ defs' = Put(defs, w, [section |-> sec, value |-> NewAddress(sec, size)])
        /\ init' = IF sec = "data" THEN <<NewAddress(sec, size), size>> ELSE <<>>
  BY DEF DeclareVariable
<1>3. sec \in Sections \ {"undef"} BY DEF Sections
<1>4. PICK addr : addr = NewAddress(sec, size) OBVIOUS
<1>5. addr \in Nat /\ data_offset \in [Sections -> Nat]
  BY <1>1, <1>3, <1>4, AlignTyped DEF TypeOK, NewAddress
<1>6. data_offset' \in [Sections -> Nat]
  <2>1. addr + size \in Nat BY <1>5
  <2>2. data_offset' = [data_offset EXCEPT ![sec] = addr + size] BY <1>2, <1>4
  <2> HIDE DEF NewAddress
  <2> QED BY <2>1, <2>2, <1>5
<1>7. init' \in {<<>>} \cup (Nat \X {1, 4}) BY <1>2, <1>4, <1>5
<1>8. /\ DOMAIN defs' \subseteq Words
      /\ defs' \in [DOMAIN defs' -> [section : Sections, value : Nat]]
  BY <1>1, <1>2, <1>3, <1>4, <1>5, PutTyped
<1>9. /\ symtab' \in Seq(Entry) /\ SameNames /\ work' \in Work /\ Started
  BY <1>1, <1>2, <1>3, <1>4, <1>5, AddUpdate
<1>10. /\ global' \in [Names -> [kind : Kinds, c : Nat]]
       /\ \A m \in Names : global'[m].c \in {0, global[m].c}
  <2>1. global' = IF global[w].kind # "none" THEN global
                  ELSE [global EXCEPT ![w] = Symbol("sym", 0)]
    BY DEF DeclareVariable
  <2> QED BY <2>1, <1>1, GlobalMade DEF Kinds
<1>11. TypeOK' BY <1>1, <1>6, <1>7, <1>8, <1>9, <1>10, TypeParts, TypeNext
<1>12. SymbolsFewer /\ Len(local) \in Nat
  BY <1>1, <1>10, TypeParts, LenProperties DEF SymbolsFewer
<1>13. BlocksNested' BY <1>1, <1>11, <1>12, BlocksKept DEF IInv
<1> QED BY <1>1, <1>9, <1>11, <1>12, <1>13, SourceStep

LEMMA InitConstantStep ==
  ASSUME IInv, ObjectFileAssumption, InitConstant
  PROVE  IInv'
<1>1. /\ TypeOK /\ ~ Busy /\ init' = <<>>
      /\ UNCHANGED <<symtab, hashtab, rel, data_offset, global, local, blocks, work,
                     meant, defs, events>>
  BY DEF IInv, InitConstant
<1>2. TypeOK' BY <1>1, TypeParts, TypeNext
<1>3. /\ global \in [Names -> [kind : Kinds, c : Nat]] /\ Len(local) \in Nat
  BY <1>1, TypeParts, LenProperties
<1>4. BlocksNested' BY <1>1, <1>2, <1>3, BlocksKept DEF IInv
<1>5. SameNames /\ Started /\ SymbolsFewer
  BY <1>1, <1>3, NoSearch DEF SameNames, SymbolsFewer
<1> QED BY <1>1, <1>2, <1>4, <1>5, SourceStep

LEMMA DefineFunctionStep ==
  ASSUME IInv, ObjectFileAssumption, NEW w \in Words, DefineFunction(w)
  PROVE  IInv'
<1>1. /\ TypeOK /\ ~ Busy /\ events' \in Nat /\ w \in Names
      /\ UNCHANGED <<hashtab, rel, local, init, meant>>
  BY WordNames, Begins DEF DefineFunction
<1>2. PICK addr : addr = data_offset["text"] OBVIOUS
<1>3. addr \in Nat /\ data_offset \in [Sections -> Nat]
  BY <1>1, <1>2 DEF TypeOK, Sections
<1>4. /\ data_offset' = [data_offset EXCEPT !["text"] = addr + 9]
      /\ coffsym_add_update(w, global[w].c, addr, "text")
      /\ defs' = Put(defs, w, [section |-> "text", value |-> addr])
      /\ blocks' = <<[base |-> 0, declaring |-> TRUE]>>
  BY <1>2 DEF DefineFunction, FUNC_PROLOG_SIZE
<1>5. PICK kind \in {"sym", "nosym"} :
        global' = IF global[w].kind # "none" THEN global
                  ELSE [global EXCEPT ![w] = Symbol(kind, 0)]
  BY DEF DefineFunction
<1>6. data_offset' \in [Sections -> Nat]
  <2>1. addr + 9 \in Nat BY <1>3
  <2> QED BY <2>1, <1>3, <1>4
<1>7. /\ DOMAIN defs' \subseteq Words
      /\ defs' \in [DOMAIN defs' -> [section : Sections, value : Nat]]
  BY <1>1, <1>3, <1>4, PutTyped DEF Sections
<1>8. /\ symtab' \in Seq(Entry) /\ SameNames /\ work' \in Work /\ Started
  BY <1>1, <1>3, <1>4, AddUpdate DEF Sections
<1>9. /\ global' \in [Names -> [kind : Kinds, c : Nat]]
      /\ \A m \in Names : global'[m].c \in {0, global[m].c}
  BY <1>1, <1>5, GlobalMade DEF Kinds
<1>10. /\ blocks' \in Seq(Block) /\ Len(blocks') = 1 /\ blocks'[1].base = 0
  BY <1>4 DEF Block
<1>11. TypeOK' BY <1>1, <1>6, <1>7, <1>8, <1>9, <1>10, TypeParts, TypeNext
<1>12. SymbolsFewer /\ Len(local) \in Nat
  BY <1>1, <1>9, TypeParts, LenProperties DEF SymbolsFewer
<1>13. BlocksNested' BY <1>1, <1>10, <1>12 DEF BlocksNested
<1> QED BY <1>1, <1>8, <1>11, <1>12, <1>13, SourceStep

\* The bytes and the blocks of a use.
LEMMA UseEmitted ==
  ASSUME TypeOK, NEW offset \in [Sections -> Nat], EmitUse(offset)
  PROVE  /\ data_offset' \in [Sections -> Nat] /\ init' = <<>>
         /\ blocks' \in Seq(Block) /\ Len(blocks') = Len(blocks)
         /\ \A i \in 1..Len(blocks) : blocks'[i].base = blocks[i].base
<1>1. blocks \in Seq(Block) BY TypeParts
<1>2. init' = <<>> /\ data_offset' \in [Sections -> Nat]
  BY DEF EmitUse, Sections
<1>3. blocks' = blocks \/ blocks' = Statements(blocks) BY DEF EmitUse
<1>4. CASE blocks = <<>> /\ blocks' # blocks
  <2>1. blocks' = [blocks EXCEPT ![Len(blocks)].declaring = FALSE]
    BY <1>3, <1>4 DEF Statements
  <2>2. DOMAIN blocks = {} /\ DOMAIN blocks' = {} BY <1>4, <2>1
  <2>3. blocks' = [i \in {} |-> blocks'[i]] /\ blocks = [i \in {} |-> blocks[i]]
    BY <1>1, <2>1, <2>2
  <2> QED BY <1>4, <2>3
<1> QED BY <1>1, <1>2, <1>3, <1>4, StatementsKeep

LEMMA PlaceTyped ==
  ASSUME TypeOK
  PROVE  \E a \in Sections, x \in Nat : Place = <<a, x>>
<1>1. data_offset["text"] \in Nat /\ init \in {<<>>} \cup (Nat \X {1, 4})
  BY DEF TypeOK, Sections
<1>2. CASE init = <<>>
  BY <1>1, <1>2 DEF Place, Sections
<1>3. CASE init # <<>>
  <2>1. init[1] \in Nat BY <1>1, <1>3
  <2> QED BY <1>3, <2>1 DEF Place, Sections
<1> QED BY <1>2, <1>3

\* A use, of a name of the file or of the section of strings.
LEMMA UseStep ==
  ASSUME IInv, ObjectFileAssumption, ~ Busy, events' \in Nat,
         NEW n \in Names, NEW o \in Nat,
         o # 0 => o \in 1..Len(local) /\ local[o].name = n,
         \/ coffreloc_add(n, o, SymbolAt(n, o).c, Place)
         \/ UNCHANGED <<symtab, work>>,
         NEW offset \in [Sections -> Nat], EmitUse(offset),
         global' \in [Names -> [kind : Kinds, c : Nat]],
         \A m \in Names : global'[m].c \in {0, global[m].c},
         UNCHANGED <<hashtab, rel, local, meant, defs>>
  PROVE  IInv'
<1>1. TypeOK BY DEF IInv
<1>2. PICK a \in Sections, x \in Nat : Place = <<a, x>> BY <1>1, PlaceTyped
<1>3. symtab' = symtab /\ work' \in Work /\ Started
  <2>1. CASE coffreloc_add(n, o, SymbolAt(n, o).c, Place)
    <3>1. coffreloc_add(n, o, SymbolAt(n, o).c, <<a, x>>)
      BY <2>1, <1>2 DEF coffreloc_add, coffsym_add, Lookup
    <3> QED BY <3>1, RelocAdd
  <2>2. CASE UNCHANGED <<symtab, work>>
    BY <2>2, <1>1, NoSearch, TypeParts
  <2> QED BY <2>1, <2>2
<1>4. /\ data_offset' \in [Sections -> Nat] /\ init' = <<>>
      /\ blocks' \in Seq(Block) /\ Len(blocks') = Len(blocks)
      /\ \A i \in 1..Len(blocks) : blocks'[i].base = blocks[i].base
  BY <1>1, UseEmitted
<1>5. TypeOK' BY <1>1, <1>3, <1>4, TypeParts, TypeNext
<1>6. SymbolsFewer /\ Len(local) \in Nat
  BY <1>1, TypeParts, LenProperties DEF SymbolsFewer
<1>7. BlocksNested' BY <1>1, <1>4, <1>5, <1>6, BlocksKept DEF IInv
<1>8. SameNames BY <1>3 DEF SameNames
<1> QED BY <1>3, <1>5, <1>6, <1>7, <1>8, SourceStep

LEMMA UseNameStep ==
  ASSUME IInv, ObjectFileAssumption, NEW w \in Words, UseName(w)
  PROVE  IInv'
<1>1. /\ TypeOK /\ ~ Busy /\ events' \in Nat /\ w \in Names
      /\ UNCHANGED <<hashtab, rel, local, meant, defs>>
      /\ EmitUse(data_offset)
  BY WordNames, Begins DEF UseName
<1>2. PICK o : o = sym_search(w) OBVIOUS
<1>3. o \in Nat /\ (o # 0 => o \in 1..Len(local) /\ local[o].name = w)
  BY <1>1, <1>2, SearchFinds
<1>4. \/ coffreloc_add(w, o, SymbolAt(w, o).c, Place)
      \/ UNCHANGED <<symtab, work>>
  BY <1>2 DEF UseName
<1>5. global' = IF SymbolAt(w, o).kind # "none" THEN global
                ELSE [global EXCEPT ![w] = Symbol("sym", 0)]
  BY <1>2 DEF UseName
<1>6. /\ global' \in [Names -> [kind : Kinds, c : Nat]]
      /\ \A m \in Names : global'[m].c \in {0, global[m].c}
  BY <1>1, <1>5, GlobalMade DEF Kinds
<1>7. data_offset \in [Sections -> Nat] BY <1>1 DEF TypeOK
<1> QED BY <1>1, <1>3, <1>4, <1>6, <1>7, UseStep

LEMMA UseStringStep ==
  ASSUME IInv, ObjectFileAssumption, UseString
  PROVE  IInv'
<1>1. /\ TypeOK /\ ~ Busy /\ events' \in Nat
      /\ UNCHANGED <<hashtab, rel, global, local, meant, defs>>
  BY Begins DEF UseString
<1>2. ".rdata" \in Names BY DEF Names, SectionNames
<1>3. \/ coffreloc_add(".rdata", 0, SymbolAt(".rdata", 0).c, Place)
      \/ UNCHANGED <<symtab, work>>
  BY DEF UseString, SymbolAt
<1>4. data_offset \in [Sections -> Nat] /\ "rdata" \in Sections
      /\ global \in [Names -> [kind : Kinds, c : Nat]]
  BY <1>1 DEF TypeOK, Sections
<1>5. PICK x : x = NewAddress("rdata", 1) OBVIOUS
<1>6. x \in Nat BY <1>4, <1>5, AlignTyped DEF NewAddress
<1>7. PICK offset : offset = [data_offset EXCEPT !["rdata"] = x + 2] OBVIOUS
<1>8. offset \in [Sections -> Nat] BY <1>4, <1>6, <1>7
<1>9. EmitUse(offset) BY <1>5, <1>7 DEF UseString
<1>10. \A m \in Names : global'[m].c \in {0, global[m].c} BY <1>1
<1> QED BY <1>1, <1>2, <1>3, <1>4, <1>8, <1>9, <1>10, UseStep

LEMMA OpenBlockStep ==
  ASSUME IInv, ObjectFileAssumption, OpenBlock
  PROVE  IInv'
<1>1. /\ TypeOK /\ ~ Busy /\ blocks # <<>>
      /\ UNCHANGED <<symtab, hashtab, rel, data_offset, global, local, init, work,
                     meant, defs, events>>
  BY DEF IInv, OpenBlock, InStatement
<1>2. /\ blocks \in Seq(Block) /\ Len(blocks) \in Nat /\ Len(local) \in Nat
      /\ global \in [Names -> [kind : Kinds, c : Nat]]
  BY <1>1, TypeParts, LenProperties
<1>3. PICK b : b = Statements(blocks) OBVIOUS
<1>4. /\ b \in Seq(Block) /\ Len(b) = Len(blocks)
      /\ \A i \in 1..Len(blocks) : b[i].base = blocks[i].base
  BY <1>1, <1>2, <1>3, StatementsKeep
<1>5. PICK e : e = [base |-> Len(local), declaring |-> TRUE] OBVIOUS
<1>6. e \in Block /\ e.base = Len(local) BY <1>2, <1>5 DEF Block
<1>7. blocks' = Append(b, e) BY <1>3, <1>5 DEF OpenBlock
<1>8. /\ blocks' \in Seq(Block) /\ Len(blocks') = Len(blocks) + 1
      /\ \A i \in 1..Len(blocks) : blocks'[i].base = blocks[i].base
      /\ blocks'[Len(blocks) + 1].base = Len(local)
  BY <1>4, <1>6, <1>7, AppendProperties
<1>9. TypeOK' BY <1>1, <1>8, TypeParts, TypeNext
<1>10. BlocksNested'
  <2>1. \A i \in 1..Len(blocks) : blocks[i].base <= Len(local)
    BY DEF IInv, BlocksNested
  <2>2. \A i, j \in 1..Len(blocks) : i <= j => blocks[i].base <= blocks[j].base
    BY DEF IInv, BlocksNested
  <2>3. 1..Len(blocks') = 1..Len(blocks) \cup {Len(blocks) + 1} BY <1>2, <1>8
  <2>4. ASSUME NEW i \in 1..Len(blocks') PROVE blocks'[i].base <= Len(local')
    <3>1. CASE i \in 1..Len(blocks) BY <3>1, <1>1, <1>8, <2>1
    <3>2. CASE i = Len(blocks) + 1 BY <3>2, <1>1, <1>2, <1>8
    <3> QED BY <3>1, <3>2, <2>3
  <2>5. ASSUME NEW i \in 1..Len(blocks'), NEW j \in 1..Len(blocks'), i <= j
        PROVE  blocks'[i].base <= blocks'[j].base
    <3>1. CASE j \in 1..Len(blocks)
      <4>1. i \in 1..Len(blocks) BY <3>1, <2>5, <1>2, <1>8
      <4> QED BY <3>1, <4>1, <2>2, <2>5, <1>8
    <3>2. CASE j = Len(blocks) + 1
      BY <3>2, <2>4, <1>1, <1>8
    <3> QED BY <3>1, <3>2, <2>3
  <2> QED BY <2>4, <2>5 DEF BlocksNested
<1>11. SameNames /\ Started /\ SymbolsFewer
  BY <1>1, <1>2, NoSearch DEF SameNames, SymbolsFewer
<1> QED BY <1>1, <1>9, <1>10, <1>11, SourceStep

LEMMA CloseBlockStep ==
  ASSUME IInv, ObjectFileAssumption, CloseBlock
  PROVE  IInv'
<1>1. /\ TypeOK /\ ~ Busy /\ blocks # <<>>
      /\ UNCHANGED <<symtab, hashtab, rel, global, init, work, meant, defs, events>>
  BY DEF IInv, CloseBlock, InStatement
<1>2. /\ blocks \in Seq(Block) /\ local \in Seq(Local) /\ Len(local) \in Nat
      /\ data_offset \in [Sections -> Nat] /\ "text" \in Sections
      /\ global \in [Names -> [kind : Kinds, c : Nat]]
  BY <1>1, TypeParts, LenProperties DEF Sections
<1>3. PICK m : m = Len(blocks) OBVIOUS
<1>4. m \in Nat \ {0} BY <1>1, <1>2, <1>3, LenProperties, EmptySeq
<1>5. PICK n : n = blocks[m].base OBVIOUS
<1>6. n \in Nat /\ n <= Len(local)
  <2>1. blocks[m] \in Block BY <1>2, <1>3, <1>4, ElementOfSeq
  <2> QED BY <2>1, <1>3, <1>4, <1>5 DEF Block, IInv, BlocksNested
<1>7. local' = SubSeq(local, 1, n) /\ blocks' = SubSeq(blocks, 1, m - 1)
  BY <1>3, <1>5 DEF CloseBlock, Last
<1>8. /\ local' \in Seq(Local) /\ Len(local') = n
      /\ \A i \in 1..n : local'[i] = local[i]
  BY <1>2, <1>6, <1>7, Cut
<1>9. /\ blocks' \in Seq(Block) /\ Len(blocks') = m - 1
      /\ \A i \in 1..(m - 1) : blocks'[i] = blocks[i]
  <2>1. m - 1 \in Nat /\ m - 1 <= Len(blocks) BY <1>3, <1>4
  <2> QED BY <2>1, <1>2, <1>7, Cut
<1>10. data_offset' \in [Sections -> Nat]
  BY <1>2 DEF CloseBlock
<1>11. TypeOK' BY <1>1, <1>8, <1>9, <1>10, TypeParts, TypeNext
<1>12. BlocksNested'
  <2>1. \A i \in 1..(m - 1) : i \in 1..m /\ i <= m BY <1>4
  <2>2. \A i \in 1..m : blocks[i].base <= blocks[m].base
    BY <1>3, <1>4 DEF IInv, BlocksNested
  <2>3. \A i, j \in 1..m : i <= j => blocks[i].base <= blocks[j].base
    BY <1>3 DEF IInv, BlocksNested
  <2>4. \A i \in 1..(m - 1) : blocks'[i].base <= n BY <1>5, <1>9, <2>1, <2>2
  <2>5. \A i, j \in 1..(m - 1) : i <= j => blocks'[i].base <= blocks'[j].base
    BY <1>9, <2>1, <2>3
  <2>6. 1..Len(blocks') = 1..(m - 1) BY <1>9
  <2>7. /\ \A i \in 1..Len(blocks') : blocks'[i].base <= Len(local')
        /\ \A i, j \in 1..Len(blocks') : i <= j => blocks'[i].base <= blocks'[j].base
    BY <1>8, <2>4, <2>5, <2>6
  <2> QED BY <2>7 DEF BlocksNested
<1>13. SameNames /\ Started BY <1>1, NoSearch DEF SameNames
<1>14. SymbolsFewer
  <2>1. \A i \in 1..n : i \in 1..Len(local) BY <1>2, <1>6
  <2> QED BY <1>1, <1>2, <1>8, <2>1 DEF SymbolsFewer
<1> QED BY <1>1, <1>11, <1>12, <1>13, <1>14, SourceStep

-----------------------------------------------------------------------------
(* The search, and what follows it.                                        *)

LEMMA WalkStep ==
  ASSUME IInv, ObjectFileAssumption, Walk
  PROVE  IInv'
<1>1. /\ TypeOK /\ Busy /\ work.at # 0 /\ symtab[work.at].Name # work.name
      /\ UNCHANGED <<symtab, hashtab, rel, data_offset, global, local, blocks, init,
                     meant, defs, events>>
  BY DEF IInv, Walk, Matches
<1>2. PICK a : a = work.at OBVIOUS
<1>3. PICK b : b = elf_hash[work.name] OBVIOUS
<1>4. /\ work \in Work /\ work.name \in Names /\ b \in 0..MAXKEY - 1
      /\ symtab \in Seq(Entry) /\ Len(symtab) \in Nat
  BY <1>1, <1>3, TypeParts, LenProperties DEF Work, ObjectFileAssumption
<1>5. /\ a \in Entries(b)
      /\ \A i \in Entries(b) : symtab[i].Name = work.name => i <= a
  BY <1>1, <1>2, <1>3 DEF IInv, WalkComplete, Bucket
<1>6. PICK m : m = symtab[a].Next OBVIOUS
<1>7. HighestOf(m, {j \in Entries(b) : j < a})
  BY <1>4, <1>5, <1>6 DEF IInv, HashChains
<1>8. m \in Entries(b) \cup {0} BY <1>7 DEF HighestOf
<1>9. Entries(b) \subseteq Nat BY DEF Entries
<1>10. work' = [work EXCEPT !.at = m] BY <1>2, <1>6 DEF Walk
<1>11. work' \in Work
  <2>1. m \in Nat BY <1>8, <1>9
  <2> QED BY <1>4, <1>10, <2>1 DEF Work
<1>12. /\ work'.at = m /\ work'.name = work.name /\ work'.kind = work.kind
       /\ work'.owner = work.owner /\ work'.place = work.place
  BY <1>4, <1>10 DEF Work
<1>13. TypeOK' BY <1>1, <1>11, TypeParts, TypeNext
<1>14. Entries(b)' = Entries(b) BY <1>1 DEF Entries
<1>15. \A i \in Entries(b) : symtab[i].Name = work.name => i <= m
  <2> SUFFICES ASSUME NEW i \in Entries(b), symtab[i].Name = work.name
               PROVE  i <= m
    OBVIOUS
  <2>1. i <= a /\ i # a BY <1>1, <1>2, <1>5
  <2>2. i < a BY <2>1, <1>5, <1>9
  <2> QED BY <2>2, <1>7 DEF HighestOf
<1>16. WalkComplete'
  <2>1. Bucket(work.name)' = b BY <1>3, <1>12 DEF Bucket
  <2>2. Entries(Bucket(work.name))' = Entries(b) BY <2>1, <1>14
  <2>3. /\ work.owner # 0 =>
             work.owner \in 1..Len(local) /\ local[work.owner].name = work.name
        /\ work.kind = "reloc" =>
             /\ work.place # <<>>
             /\ \E i \in 1..Len(symtab) : symtab[i].Name = work.name
    BY <1>1 DEF IInv, WalkComplete
  <2> QED BY <1>1, <1>8, <1>12, <1>15, <2>2, <2>3 DEF WalkComplete
<1>17. SameNames BY <1>1 DEF SameNames
<1>18. HashChains' BY <1>17, NamesKept DEF IInv
<1>19. SymbolsIndexed' /\ RelocsNamed' /\ BlocksNested'
  BY <1>1 DEF IInv, SymbolsIndexed, RelocsNamed, BlocksNested
<1> QED BY <1>13, <1>16, <1>18, <1>19 DEF IInv

\* The index of the entry of the name goes into its symbol.
LEMMA IndexSet ==
  ASSUME IInv, ObjectFileAssumption, Busy, NEW c \in Nat, SetC(c),
         c \in 1..Len(symtab'), symtab'[c].Name = work.name,
         \A i \in 1..Len(symtab) : /\ i \in 1..Len(symtab')
                                   /\ symtab'[i].Name = symtab[i].Name
  PROVE  /\ global' \in [Names -> [kind : Kinds, c : Nat]]
         /\ local' \in Seq(Local) /\ Len(local') = Len(local)
         /\ SymbolsIndexed'
<1>1. /\ global \in [Names -> [kind : Kinds, c : Nat]]
      /\ local \in Seq(Local) /\ Len(local) \in Nat /\ work.name \in Names
  BY TypeParts, LenProperties DEF IInv, Work
<1>2. PICK n : n = work.name OBVIOUS
<1>3. PICK o : o = work.owner OBVIOUS
<1>4. /\ \A m \in Names : global[m].c # 0 =>
           global[m].c \in 1..Len(symtab') /\ symtab'[global[m].c].Name = m
      /\ \A i \in 1..Len(local) : local[i].c # 0 =>
           /\ local[i].c \in 1..Len(symtab')
           /\ symtab'[local[i].c].Name = local[i].name
  BY DEF IInv, SymbolsIndexed
<1>5. CASE o = 0
  <2>1. global' = [global EXCEPT ![n].c = c] /\ local' = local
    BY <1>2, <1>3, <1>5 DEF SetC
  <2>2. global' \in [Names -> [kind : Kinds, c : Nat]] BY <1>1, <2>1
  <2>3. \A m \in Names : global'[m].c = IF m = n THEN c ELSE global[m].c
    BY <1>1, <2>1
  <2>4. \A m \in Names : global'[m].c # 0 =>
          global'[m].c \in 1..Len(symtab') /\ symtab'[global'[m].c].Name = m
    BY <1>2, <1>4, <2>3
  <2> QED BY <1>1, <1>4, <2>1, <2>2, <2>4 DEF SymbolsIndexed
<1>6. CASE o # 0
  <2>1. o \in 1..Len(local) /\ local[o].name = n
    BY <1>2, <1>3, <1>6 DEF IInv, WalkComplete
  <2>2. \A i \in 1..Len(local) : local[i] \in Local BY <1>1, ElementOfSeq
  <2>3. PICK e : e = [local[o] EXCEPT !.c = c] OBVIOUS
  <2>4. e \in Local /\ e.name = n /\ e.c = c BY <2>1, <2>2, <2>3 DEF Local
  <2>5. local' = [local EXCEPT ![o] = e] /\ global' = global
    BY <1>3, <1>6, <2>3 DEF SetC
  <2>6. /\ local' \in Seq(Local) /\ Len(local') = Len(local)
        /\ \A i \in 1..Len(local) : local'[i] = IF i = o THEN e ELSE local[i]
    BY <1>1, <2>1, <2>4, <2>5, ExceptSeq
  <2>7. \A i \in 1..Len(local) : local'[i].c # 0 =>
          /\ local'[i].c \in 1..Len(symtab')
          /\ symtab'[local'[i].c].Name = local'[i].name
    BY <1>2, <1>4, <2>4, <2>6
  <2> QED BY <1>1, <1>4, <2>5, <2>6, <2>7 DEF SymbolsIndexed
<1> QED BY <1>5, <1>6

\* What follows coffsym_add is a search from the head of the chain, or nothing.
LEMMA AfterStep ==
  ASSUME IInv, ObjectFileAssumption, After(hashtab'), HashChains',
         hashtab' \in [0..MAXKEY - 1 -> Nat],
         NEW c \in 1..Len(symtab'), symtab'[c].Name = work.name
  PROVE  work' \in Work /\ WalkComplete'
<1>1. work \in Work /\ work.name \in Names BY TypeParts DEF IInv, Work
<1>2. CASE work.place = <<>>
  <2>1. work' = Idle BY <1>2 DEF After
  <2>2. ~ Busy' BY <2>1 DEF Busy, Idle
  <2> QED BY <2>1, <2>2, IdleTyped DEF WalkComplete
<1>3. CASE work.place # <<>>
  <2>1. PICK b : b = elf_hash[work.name] OBVIOUS
  <2>2. b \in 0..MAXKEY - 1 BY <1>1, <2>1 DEF ObjectFileAssumption
  <2>3. work' = [kind |-> "reloc", name |-> work.name, at |-> hashtab'[b],
                 owner |-> 0, value |-> 0, section |-> "undef",
                 place |-> work.place]
    BY <1>3, <2>1 DEF After, Lookup, Bucket
  <2>4. hashtab'[b] \in Nat BY <2>2
  <2>5. work' \in Work BY <1>1, <2>3, <2>4 DEF Work, Sections
  <2>6. HighestOf(hashtab[b], Entries(b))' BY <2>2 DEF HashChains
  <2>7. /\ work'.at = hashtab'[b] /\ work'.name = work.name /\ work'.owner = 0
        /\ work'.place # <<>>
    BY <1>3, <2>3
  <2>8. Bucket(work.name)' = b BY <2>1, <2>7 DEF Bucket
  <2>9. Entries(Bucket(work.name))' = Entries(b)' BY <2>8
  <2>10. /\ hashtab'[b] \in Entries(b)' \cup {0}
         /\ \A i \in Entries(b)' : i <= hashtab'[b]
    BY <2>6 DEF HighestOf
  <2> QED BY <2>5, <2>7, <2>9, <2>10 DEF WalkComplete
<1> QED BY <1>2, <1>3

LEMMA EntryFoundStep ==
  ASSUME IInv, ObjectFileAssumption, EntryFound
  PROVE  IInv'
<1>1. /\ TypeOK /\ Busy /\ work.at # 0 /\ symtab[work.at].Name = work.name
      /\ SetC(work.at) /\ After(hashtab')
      /\ UNCHANGED <<symtab, hashtab, rel, data_offset, blocks, init, meant, defs,
                     events>>
  BY DEF IInv, EntryFound, Matches, Busy, After, Lookup
<1>2. PICK c : c = work.at OBVIOUS
<1>3. c \in 1..Len(symtab)
  BY <1>1, <1>2 DEF IInv, WalkComplete, Entries
<1>4. HashChains' BY <1>1, NamesKept DEF IInv, SameNames
<1>5. /\ global' \in [Names -> [kind : Kinds, c : Nat]]
      /\ local' \in Seq(Local) /\ Len(local') = Len(local) /\ SymbolsIndexed'
  BY <1>1, <1>2, <1>3, IndexSet
<1>6. work' \in Work /\ WalkComplete'
  <2>1. hashtab' \in [0..MAXKEY - 1 -> Nat] BY <1>1 DEF TypeOK
  <2>2. c \in 1..Len(symtab') /\ symtab'[c].Name = work.name BY <1>1, <1>2, <1>3
  <2> QED BY <1>1, <1>4, <2>1, <2>2, AfterStep
<1>7. TypeOK' BY <1>1, <1>5, <1>6, TypeParts, TypeNext
<1>8. RelocsNamed' BY <1>1 DEF IInv, RelocsNamed
<1>9. BlocksNested' BY <1>1, <1>5 DEF IInv, BlocksNested
<1> QED BY <1>4, <1>5, <1>6, <1>7, <1>8, <1>9 DEF IInv

LEMMA EntryAddedStep ==
  ASSUME IInv, ObjectFileAssumption, EntryAdded
  PROVE  IInv'
<1>1. /\ TypeOK /\ Busy /\ After(hashtab')
      /\ UNCHANGED <<rel, data_offset, blocks, init, meant, defs, events>>
  BY DEF IInv, EntryAdded, Busy
<1>2. PICK c : c = Len(symtab) + 1 OBVIOUS
<1>3. /\ symtab' \in Seq(Entry) /\ Len(symtab') = c
      /\ \A i \in 1..Len(symtab) : symtab'[i] = symtab[i]
      /\ symtab'[c].Name = work.name
      /\ hashtab' \in [0..MAXKEY - 1 -> Nat]
      /\ HashChains'
  BY <1>2, TableGrown DEF IInv
<1>4. Len(symtab) \in Nat /\ c \in Nat /\ c \in 1..Len(symtab')
  BY <1>1, <1>2, <1>3, TypeParts, LenProperties
<1>5. \A i \in 1..Len(symtab) : /\ i \in 1..Len(symtab')
                                /\ symtab'[i].Name = symtab[i].Name
  BY <1>2, <1>3, <1>4
<1>6. SetC(c) BY <1>2 DEF EntryAdded, NewIndex
<1>7. /\ global' \in [Names -> [kind : Kinds, c : Nat]]
      /\ local' \in Seq(Local) /\ Len(local') = Len(local) /\ SymbolsIndexed'
  BY <1>1, <1>3, <1>4, <1>5, <1>6, IndexSet
<1>8. work' \in Work /\ WalkComplete' BY <1>1, <1>3, <1>4, AfterStep
<1>9. TypeOK' BY <1>1, <1>3, <1>7, <1>8, TypeParts, TypeNext
<1>10. RelocsNamed' BY <1>1, <1>5 DEF IInv, RelocsNamed
<1>11. BlocksNested' BY <1>1, <1>7 DEF IInv, BlocksNested
<1> QED BY <1>3, <1>7, <1>8, <1>9, <1>10, <1>11 DEF IInv

\* A relocation gets the entry of the name, because there is one.
LEMMA RelocatedStep ==
  ASSUME IInv, ObjectFileAssumption, Relocated
  PROVE  IInv'
<1>1. /\ TypeOK /\ Busy /\ work.kind = "reloc" /\ work' = Idle
      /\ work.at = 0 \/ symtab[work.at].Name = work.name
      /\ UNCHANGED <<symtab, hashtab, data_offset, global, local, blocks, init, defs,
                     events>>
  BY DEF IInv, Relocated, Busy, Matches
<1>2. PICK a : a = work.at OBVIOUS
<1>3. PICK n : n = work.name OBVIOUS
<1>4. /\ work \in Work /\ n \in Names /\ a \in Nat
      /\ meant \in Seq(Names) /\ Len(meant) \in Nat /\ Len(symtab) \in Nat
      /\ rel \in Seq([section : Sections, offset : Nat, cfsym : Nat])
  BY <1>1, <1>2, <1>3, TypeParts, LenProperties DEF Work
<1>5. work.place \in Sections \X Nat
  <2>1. work.place # <<>> BY <1>1 DEF IInv, WalkComplete
  <2> QED BY <2>1, <1>4 DEF Work
<1>6. a \in 1..Len(symtab) /\ symtab[a].Name = n
  <2>1. PICK i \in 1..Len(symtab) : symtab[i].Name = n
    BY <1>1, <1>3 DEF IInv, WalkComplete
  <2>2. i \in Entries(elf_hash[n]) BY <2>1 DEF Entries
  <2>3. i <= a BY <1>1, <1>2, <1>3, <2>1, <2>2 DEF IInv, WalkComplete, Bucket
  <2>4. a # 0 BY <2>1, <2>3, <1>4
  <2>5. a \in Entries(elf_hash[n])
    BY <2>4, <1>1, <1>2, <1>3 DEF IInv, WalkComplete, Bucket
  <2> QED BY <2>4, <2>5, <1>1, <1>2, <1>3 DEF Entries
<1>7. PICK r : r = [section |-> work.place[1], offset |-> work.place[2], cfsym |-> a]
  OBVIOUS
<1>8. r \in [section : Sections, offset : Nat, cfsym : Nat] /\ r.cfsym = a
  BY <1>4, <1>5, <1>7
<1>9. rel' = Append(rel, r) /\ meant' = Append(meant, n)
  BY <1>2, <1>3, <1>7 DEF Relocated
<1>10. /\ rel' \in Seq([section : Sections, offset : Nat, cfsym : Nat])
       /\ Len(rel') = Len(rel) + 1 /\ rel'[Len(rel) + 1] = r
       /\ \A k \in 1..Len(rel) : rel'[k] = rel[k]
  BY <1>4, <1>8, <1>9, AppendProperties
<1>11. /\ meant' \in Seq(Names) /\ Len(meant') = Len(meant) + 1
       /\ meant'[Len(meant) + 1] = n
       /\ \A k \in 1..Len(meant) : meant'[k] = meant[k]
  BY <1>4, <1>9, AppendProperties
<1>12. TypeOK' BY <1>1, <1>10, <1>11, IdleTyped, TypeParts, TypeNext
<1>13. RelocsNamed'
  <2>1. Len(rel) = Len(meant) BY DEF IInv, RelocsNamed
  <2>2. \A k \in 1..Len(rel) :
          rel[k].cfsym \in 1..Len(symtab) /\ symtab[rel[k].cfsym].Name = meant[k]
    BY DEF IInv, RelocsNamed
  <2>3. ASSUME NEW k \in 1..(Len(meant) + 1)
        PROVE  rel'[k].cfsym \in 1..Len(symtab) /\ symtab[rel'[k].cfsym].Name = meant'[k]
    <3>1. CASE k \in 1..Len(meant) BY <3>1, <2>1, <2>2, <1>10, <1>11
    <3>2. CASE k = Len(meant) + 1 BY <3>2, <2>1, <1>6, <1>8, <1>10, <1>11
    <3> QED BY <3>1, <3>2, <1>4
  <2> QED BY <1>1, <1>10, <1>11, <2>1, <2>3 DEF RelocsNamed
<1>14. HashChains' BY <1>1, NamesKept DEF IInv, SameNames
<1>15. WalkComplete' BY <1>1 DEF WalkComplete, Busy, Idle
<1>16. SymbolsIndexed' /\ BlocksNested'
  BY <1>1 DEF IInv, SymbolsIndexed, BlocksNested
<1> QED BY <1>12, <1>13, <1>14, <1>15, <1>16 DEF IInv

-----------------------------------------------------------------------------
(* The theorems.                                                           *)

LEMMA HighestIs ==
  ASSUME NEW S \in SUBSET (1..3)
  PROVE  Highest(S) \in Nat /\ HighestOf(Highest(S), S)
<1>1. CASE S = {} BY <1>1 DEF Highest, HighestOf
<1>2. CASE S # {}
  <2>1. \E i \in S : \A j \in S : j <= i BY <1>2, HighestExists
  <2>2. Highest(S) \in S /\ \A j \in S : j <= Highest(S)
    BY <1>2, <2>1 DEF Highest
  <2>3. \A i \in S : i \in Nat OBVIOUS
  <2>4. Highest(S) \in Nat BY <2>2, <2>3
  <2> QED BY <2>2, <2>4 DEF HighestOf
<1> QED BY <1>1, <1>2

LEMMA InitIInv ==
  ASSUME Init, ObjectFileAssumption
  PROVE  IInv
<1>1. FirstEntries \in [1..3 -> Names]
  BY DEF FirstEntries, Names, SectionNames
<1>2. PICK F : F = FirstEntries OBVIOUS
<1>3. F[1] = ".data" /\ F[2] = ".bss" /\ F[3] = ".rdata" /\ F \in [1..3 -> Names]
  BY <1>1, <1>2 DEF FirstEntries
<1>4. PICK V : V = <<"data", "bss", "rdata">> OBVIOUS
<1>5. \A i \in 1..3 : V[i] \in Sections BY <1>4 DEF Sections
<1>6. \A b : InChain(b) \in SUBSET (1..3) /\ InChain(b) = {i \in 1..3 : elf_hash[F[i]] = b}
  BY <1>2 DEF InChain
<1>7. \A i \in 1..3 : Highest({j \in InChain(elf_hash[F[i]]) : j < i}) \in Nat
  BY <1>6, HighestIs
<1>8. symtab = [i \in 1..3 |->
        [Name |-> F[i], Value |-> 0,
         Next |-> Highest({j \in InChain(elf_hash[F[i]]) : j < i}),
         SectionNumber |-> V[i]]]
  BY <1>2, <1>4 DEF Init
<1>9. \A i \in 1..3 : /\ symtab[i] \in Entry /\ symtab[i].Name = F[i]
                      /\ symtab[i].Next = Highest({j \in InChain(elf_hash[F[i]]) : j < i})
  BY <1>3, <1>5, <1>7, <1>8 DEF Entry
<1>10. symtab \in Seq(Entry) /\ Len(symtab) = 3
  <2>1. DOMAIN symtab = 1..3 BY <1>8
  <2>2. symtab \in [1..3 -> Entry] BY <1>8, <1>9, <2>1
  <2>3. symtab \in Seq(Entry) BY <2>2, SeqDef
  <2> QED BY <2>1, <2>3, LenProperties
<1>11. hashtab = [b \in 0..MAXKEY - 1 |-> Highest(InChain(b))] BY DEF Init
<1>12. \A b : Entries(b) = InChain(b)
  BY <1>6, <1>9, <1>10 DEF Entries
<1>13. HashChains
  <2>1. \A b \in 0..MAXKEY - 1 : HighestOf(hashtab[b], Entries(b))
    BY <1>6, <1>11, <1>12, HighestIs
  <2>2. ASSUME NEW b \in 0..MAXKEY - 1, NEW i \in Entries(b)
        PROVE  HighestOf(symtab[i].Next, {j \in Entries(b) : j < i})
    <3>1. i \in 1..3 /\ elf_hash[F[i]] = b BY <1>6, <1>12
    <3>2. symtab[i].Next = Highest({j \in Entries(b) : j < i})
      BY <3>1, <1>9, <1>12
    <3>3. {j \in Entries(b) : j < i} \in SUBSET (1..3) BY <1>6, <1>12
    <3> QED BY <3>2, <3>3, HighestIs
  <2>3. \A i, j \in 1..Len(symtab) : symtab[i].Name = symtab[j].Name => i = j
    BY <1>3, <1>9, <1>10
  <2> QED BY <2>1, <2>2, <2>3 DEF HashChains
<1>14. /\ rel = <<>> /\ meant = <<>> /\ data_offset = [s \in Sections |-> 0]
       /\ global = [n \in Names |-> IF n = ".rdata" THEN Symbol("sym", 0) ELSE NoSymbol]
       /\ local = <<>> /\ blocks = <<>> /\ init = <<>> /\ work = Idle
       /\ defs = <<>> /\ events = 0
  BY DEF Init
<1>15. hashtab \in [0..MAXKEY - 1 -> Nat] BY <1>6, <1>11, HighestIs
<1>16. /\ global \in [Names -> [kind : Kinds, c : Nat]]
       /\ \A n \in Names : global[n].c = 0
  BY <1>14 DEF Symbol, NoSymbol, Kinds
<1>17. DOMAIN defs \subseteq Words /\ defs \in [DOMAIN defs -> [section : Sections, value : Nat]]
  BY <1>14
<1>18. TypeOK
  BY <1>10, <1>14, <1>15, <1>16, <1>17, IdleTyped, TypeParts
<1>19. SymbolsIndexed /\ RelocsNamed /\ BlocksNested
  BY <1>14, <1>16 DEF SymbolsIndexed, RelocsNamed, BlocksNested
<1>20. WalkComplete BY <1>14 DEF WalkComplete, Busy, Idle
<1> QED BY <1>13, <1>18, <1>19, <1>20 DEF IInv

LEMMA Stutter ==
  ASSUME IInv, UNCHANGED vars
  PROVE  IInv'
<1>1. UNCHANGED <<symtab, hashtab, rel, data_offset, global, local, blocks, init, work,
                  meant, defs, events>>
  BY DEF vars
<1>2. TypeOK' BY <1>1, TypeParts, TypeNext DEF IInv
<1>3. HashChains' BY <1>1, NamesKept DEF IInv, SameNames
<1> QED BY <1>1, <1>2, <1>3
    DEF IInv, SymbolsIndexed, RelocsNamed, BlocksNested, WalkComplete, Busy, Bucket,
        Entries

LEMMA NextIInv ==
  ASSUME IInv, ObjectFileAssumption, [Next]_vars
  PROVE  IInv'
<1>1. ASSUME NEW w \in Words,
             \/ DeclareFunction(w) \/ DeclareLocal(w) \/ DeclareVariable(w)
             \/ DefineFunction(w) \/ UseName(w)
      PROVE  IInv'
  BY <1>1, DeclareFunctionStep, DeclareLocalStep, DeclareVariableStep,
     DefineFunctionStep, UseNameStep
<1>2. CASE InitConstant BY <1>2, InitConstantStep
<1>3. CASE UseString BY <1>3, UseStringStep
<1>4. CASE OpenBlock BY <1>4, OpenBlockStep
<1>5. CASE CloseBlock BY <1>5, CloseBlockStep
<1>6. CASE Walk BY <1>6, WalkStep
<1>7. CASE EntryFound BY <1>7, EntryFoundStep
<1>8. CASE EntryAdded BY <1>8, EntryAddedStep
<1>9. CASE Relocated BY <1>9, RelocatedStep
<1>10. CASE EndOfFile BY <1>10, Stutter DEF EndOfFile
<1>11. CASE UNCHANGED vars BY <1>11, Stutter
<1> QED BY <1>1, <1>2, <1>3, <1>4, <1>5, <1>6, <1>7, <1>8, <1>9, <1>10, <1>11
        DEF Next, Source, Coff

\* The inductive invariant holds of every object file (CL_Coff.cpp) that the
\* compiler builds from any source file.
THEOREM ObjectInductive == Spec => []IInv
<1>1. Init => IInv BY InitIInv, ObjectFileAssumption
<1>2. IInv /\ [Next]_vars => IInv' BY NextIInv, ObjectFileAssumption
<1> QED BY <1>1, <1>2, PTL DEF Spec

\* Type correctness.
THEOREM ObjectTypeCorrect == Spec => []TypeOK
<1>1. IInv => TypeOK BY DEF IInv
<1> QED BY <1>1, ObjectInductive, PTL

\* Every chain of the hash table (coffsym_search, coffsym_add) is exactly the
\* entries of its names, the latest first, and no name has two.
THEOREM ChainsExact == Spec => []HashChains
<1>1. IInv => HashChains BY DEF IInv
<1> QED BY <1>1, ObjectInductive, PTL

\* The index in a Symbol (Symbol.c) is that of the entry with its name.
THEOREM IndexesCorrect == Spec => []SymbolsIndexed
<1>1. IInv => SymbolsIndexed BY DEF IInv
<1> QED BY <1>1, ObjectInductive, PTL

\* Every relocation (coffreloc_add) refers to the entry of the name it is for.
THEOREM RelocsCorrect == Spec => []RelocsNamed
<1>1. IInv => RelocsNamed BY DEF IInv
<1> QED BY <1>1, ObjectInductive, PTL

\* What EntriesStay says of a step.
EntriesKept ==
  \A i \in 1..Len(symtab) :
    /\ i <= Len(symtab')
    /\ symtab'[i].Name = symtab[i].Name
    /\ symtab[i].SectionNumber # "undef" => symtab'[i].SectionNumber # "undef"

LEMMA StepKeepsEntries ==
  ASSUME IInv, ObjectFileAssumption, [Next]_vars
  PROVE  EntriesKept
<1>0. Len(symtab) \in Nat BY LenProperties DEF IInv, TypeOK
<1>1. CASE symtab' = symtab BY <1>0, <1>1 DEF EntriesKept
<1>2. CASE EntryAdded
  <2>1. /\ Len(symtab') = Len(symtab) + 1
        /\ \A i \in 1..Len(symtab) : symtab'[i] = symtab[i]
    BY <1>2, TableGrown DEF IInv
  <2> QED BY <2>1, <1>0 DEF EntriesKept
<1>3. ASSUME NEW w \in Names, NEW value \in Nat, NEW section \in Sections \ {"undef"},
             ~ Busy, hashtab' = hashtab, coffsym_add_update(w, global[w].c, value, section)
      PROVE  EntriesKept
  <2>1. /\ SameNames
        /\ \A i \in 1..Len(symtab) :
             symtab[i].SectionNumber # "undef" => symtab'[i].SectionNumber # "undef"
    BY <1>3, AddUpdate
  <2> QED BY <2>1, <1>0 DEF SameNames, EntriesKept
<1>4. ASSUME NEW w \in Words, DeclareVariable(w)
      PROVE  EntriesKept
  <2>1. PICK sec \in {"data", "bss"}, size \in {1, 4} :
          coffsym_add_update(w, global[w].c, NewAddress(sec, size), sec)
    BY <1>4 DEF DeclareVariable
  <2>2. sec \in Sections \ {"undef"} /\ w \in Names BY WordNames DEF Sections
  <2>3. NewAddress(sec, size) \in Nat
    BY <2>2, AlignTyped DEF IInv, TypeOK, NewAddress
  <2>4. ~ Busy /\ hashtab' = hashtab BY <1>4 DEF DeclareVariable, Event
  <2> QED BY <2>1, <2>2, <2>3, <2>4, <1>3
<1>5. ASSUME NEW w \in Words, DefineFunction(w)
      PROVE  EntriesKept
  <2>1. "text" \in Sections \ {"undef"} /\ w \in Names BY WordNames DEF Sections
  <2>2. data_offset["text"] \in Nat BY <2>1 DEF IInv, TypeOK
  <2>3. /\ ~ Busy /\ hashtab' = hashtab
        /\ coffsym_add_update(w, global[w].c, data_offset["text"], "text")
    BY <1>5 DEF DefineFunction, Event
  <2> QED BY <2>1, <2>2, <2>3, <1>3
<1>6. ASSUME NEW w \in Words, DeclareFunction(w) \/ DeclareLocal(w) \/ UseName(w)
      PROVE  symtab' = symtab
  BY <1>6 DEF DeclareFunction, DeclareLocal, UseName, coffreloc_add
<1>7. CASE \/ InitConstant \/ UseString \/ OpenBlock \/ CloseBlock
           \/ Walk \/ EntryFound \/ Relocated \/ EndOfFile \/ UNCHANGED vars
  <2>1. symtab' = symtab
    BY <1>7 DEF InitConstant, UseString, coffreloc_add, OpenBlock, CloseBlock, Walk,
                EntryFound, Relocated, EndOfFile, vars
  <2> QED BY <2>1, <1>1
<1> QED BY <1>1, <1>2, <1>4, <1>5, <1>6, <1>7 DEF Next, Source, Coff

\* Entries keep their place and their name, and a defined one stays defined,
\* whatever is declared, defined or used after it.
THEOREM EntriesNeverMove == Spec => EntriesStay
<1>1. IInv /\ [Next]_vars => [EntriesKept]_vars
  BY StepKeepsEntries, ObjectFileAssumption
<1> QED BY <1>1, ObjectInductive, PTL DEF Spec, EntriesStay, EntriesKept

-----------------------------------------------------------------------------
(* What a definition leaves in the table.                                  *)

\* The symbols that there are keep their index, if they have one.
SymbolsStay ==
  \A w \in Words : global[w].kind # "none" =>
    global'[w].kind # "none" /\ (global[w].c # 0 => global'[w].c # 0)

\* Steps that change neither the table nor the definitions, nor what a
\* definition is looking for
LEMMA DefsStay ==
  ASSUME IInv, DefsInv, symtab' = symtab, defs' = defs,
         \A w \in Words : Defining(w)' <=> Defining(w),
         SymbolsStay,
         \A w \in Words : Defining(w) => /\ work'.owner = work.owner
                                         /\ work'.section = work.section
                                         /\ work'.value = work.value
  PROVE  DefsInv'
<1>0. DOMAIN defs \subseteq Words
  BY DEF IInv, TypeOK
<1>1. ASSUME NEW w \in DOMAIN defs
      PROVE  global'[w].kind # "none" /\ (global'[w].c # 0 \/ Defining(w)')
  BY <1>0 DEF DefsInv, SymbolsStay
<1>2. ASSUME NEW w \in Words, Defining(w)'
      PROVE  /\ w \in DOMAIN defs /\ work'.owner = 0
             /\ work'.section = defs[w].section /\ work'.value = defs[w].value
  BY <1>2 DEF DefsInv
<1>3. ASSUME NEW i \in 1..Len(symtab), NEW w \in Words,
             symtab[i].Name = w, symtab[i].SectionNumber # "undef"
      PROVE  w \in DOMAIN defs /\ EntryIs(i, w)' /\ ~ Defining(w)'
  <2>1. w \in DOMAIN defs /\ EntryIs(i, w) /\ ~ Defining(w)
    BY <1>3 DEF DefsInv
  <2> QED BY <2>1 DEF EntryIs
<1> QED BY <1>1, <1>2, <1>3 DEF DefsInv

\* A search that gives a relocation its entry defines nothing.
LEMMA UseDefs ==
  ASSUME IInv, DefsInv, ~ Busy, NEW n, NEW o, NEW c, NEW place,
         coffreloc_add(n, o, c, place) \/ UNCHANGED <<symtab, work>>,
         defs' = defs, SymbolsStay
  PROVE  DefsInv'
<1>1. symtab' = symtab
  BY DEF coffreloc_add
<1>2. \A w \in Words : ~ Defining(w)
  BY DEF Busy, Defining
<1>3. work'.kind = "add" => work'.section = "undef"
  BY DEF coffreloc_add, coffsym_add, Lookup, Busy
<1>4. \A w \in Words : ~ Defining(w)'
  BY <1>3 DEF Defining
<1> QED BY <1>1, <1>2, <1>4, DefsStay

\* The first definition of a name begins to look for its entry, a later one
\* writes to the entry that the symbol remembers.
LEMMA AddUpdateDefs ==
  ASSUME IInv, DefsInv, ~ Busy, NEW w \in Words, NEW value \in Nat,
         NEW section \in Sections \ {"undef"}, hashtab' = hashtab,
         coffsym_add_update(w, global[w].c, value, section),
         defs' = Put(defs, w, [section |-> section, value |-> value]),
         global'[w].kind # "none" /\ global'[w].c = global[w].c,
         \A n \in Words : n # w => global'[n] = global[n]
  PROVE  DefsInv'
<1>0. PICK c, d : c = global[w].c /\ d = [section |-> section, value |-> value]
  OBVIOUS
<1>1. /\ DOMAIN defs \subseteq Words /\ DOMAIN defs' = DOMAIN defs \cup {w}
      /\ defs'[w] = d /\ d.section = section /\ d.value = value
      /\ \A n \in DOMAIN defs : n # w => defs'[n] = defs[n]
  BY <1>0 DEF IInv, TypeOK, Put
<1>2. \A n \in Words : ~ Defining(n)
  BY DEF Busy, Defining
<1>3. \A i \in 1..Len(symtab), n \in Words :
        symtab[i].Name = n /\ symtab[i].SectionNumber # "undef" =>
          n \in DOMAIN defs /\ EntryIs(i, n)
  BY DEF DefsInv
<1>4. CASE c = 0
  <2>1. symtab' = symtab
    BY <1>0, <1>4 DEF coffsym_add_update
  <2>2. /\ work'.kind = "add" /\ work'.name = w /\ work'.owner = 0
        /\ work'.value = value /\ work'.section = section
    BY <1>0, <1>4 DEF coffsym_add_update, coffsym_add
  <2>3. \A n \in Words : Defining(n)' <=> n = w
    BY <2>2 DEF Defining
  <2>4. w \notin DOMAIN defs
    BY <1>0, <1>2, <1>4 DEF DefsInv
  <2>5. ASSUME NEW n \in DOMAIN defs'
        PROVE  global'[n].kind # "none" /\ (global'[n].c # 0 \/ Defining(n)')
    BY <1>1, <1>2, <2>3 DEF DefsInv
  <2>6. ASSUME NEW i \in 1..Len(symtab), NEW n \in Words,
               symtab[i].Name = n, symtab[i].SectionNumber # "undef"
        PROVE  n \in DOMAIN defs' /\ EntryIs(i, n)' /\ ~ Defining(n)'
    <3>1. n \in DOMAIN defs /\ EntryIs(i, n)
      BY <1>3, <2>6
    <3>2. n # w
      BY <2>4, <3>1
    <3> QED BY <1>1, <2>1, <2>3, <3>1, <3>2 DEF EntryIs
  <2>7. ASSUME NEW n \in Words, Defining(n)'
        PROVE  /\ n \in DOMAIN defs' /\ work'.owner = 0
               /\ work'.section = defs'[n].section /\ work'.value = defs'[n].value
    BY <1>1, <2>2, <2>3, <2>7
  <2> QED BY <2>1, <2>5, <2>6, <2>7 DEF DefsInv
<1>5. CASE c # 0
  <2>1. c \in 1..Len(symtab) /\ symtab[c].Name = w
    BY <1>0, <1>5, WordNames DEF IInv, SymbolsIndexed
  <2>2. work' = work /\ \A n \in Words : ~ Defining(n)'
    BY <1>0, <1>2, <1>5 DEF coffsym_add_update, Defining
  <2>3. symtab' = [symtab EXCEPT ![c].Value = value, ![c].SectionNumber = section]
    BY <1>0, <1>5 DEF coffsym_add_update
  <2>4. symtab \in Seq(Entry) /\ \A i \in 1..Len(symtab) : symtab[i] \in Entry
    BY ElementOfSeq DEF IInv, TypeOK
  <2>5. PICK e : e = [symtab[c] EXCEPT !.Value = value, !.SectionNumber = section]
    OBVIOUS
  <2>6. /\ e \in Entry /\ e.Name = w /\ e.SectionNumber = section /\ e.Value = value
    BY <2>1, <2>4, <2>5 DEF Entry
  <2>7. symtab' = [symtab EXCEPT ![c] = e]
    BY <2>3, <2>5
  <2>8. /\ Len(symtab') = Len(symtab)
        /\ \A i \in 1..Len(symtab) : symtab'[i] = IF i = c THEN e ELSE symtab[i]
    BY <2>1, <2>4, <2>6, <2>7, ExceptSeq
  <2>9. ASSUME NEW n \in DOMAIN defs'
        PROVE  global'[n].kind # "none" /\ (global'[n].c # 0 \/ Defining(n)')
    BY <1>0, <1>1, <1>2, <1>5 DEF DefsInv
  <2>10. ASSUME NEW i \in 1..Len(symtab), NEW n \in Words,
                symtab'[i].Name = n, symtab'[i].SectionNumber # "undef"
         PROVE  n \in DOMAIN defs' /\ EntryIs(i, n)'
    <3>1. CASE i = c
      <4>1. n = w
        BY <2>6, <2>8, <2>10, <3>1
      <4> QED BY <1>1, <2>6, <2>8, <3>1, <4>1 DEF EntryIs
    <3>2. CASE i # c
      <4>1. symtab'[i] = symtab[i] /\ n \in DOMAIN defs /\ EntryIs(i, n)
        BY <1>3, <2>8, <2>10, <3>2
      <4>2. n # w
        BY <2>1, <2>8, <2>10, <3>2, <4>1 DEF IInv, HashChains
      <4> QED BY <1>1, <4>1, <4>2 DEF EntryIs
    <3> QED BY <3>1, <3>2
  <2> QED BY <2>2, <2>8, <2>9, <2>10 DEF DefsInv
<1> QED BY <1>4, <1>5

\* The index that a search found goes to a symbol.
LEMMA SetCKeeps ==
  ASSUME TypeOK, NEW c \in Nat \ {0}, SetC(c)
  PROVE  /\ \A w \in Words : /\ global'[w].kind = global[w].kind
                             /\ global[w].c # 0 => global'[w].c # 0
         /\ work.owner = 0 => global'[work.name].c = c
<1>1. /\ global \in [Names -> [kind : Kinds, c : Nat]] /\ work.name \in Names
      /\ \A w \in Names : global[w] \in [kind : Kinds, c : Nat]
  BY DEF TypeOK
<1>2. CASE work.owner = 0
  <2>1. PICK n, g : n = work.name /\ g = [global[n] EXCEPT !.c = c]
    OBVIOUS
  <2>2. g.kind = global[n].kind /\ g.c = c
    BY <1>1, <2>1
  <2>3. global' = [global EXCEPT ![n] = g]
    BY <1>2, <2>1 DEF SetC
  <2>4. \A w \in Names : global'[w] = IF w = n THEN g ELSE global[w]
    BY <1>1, <2>1, <2>3
  <2> QED BY <1>1, <2>1, <2>2, <2>4, WordNames
<1>3. CASE work.owner # 0
  BY <1>3 DEF SetC
<1> QED BY <1>2, <1>3

\* coffsym_add finds an entry: it was undefined until now, or no definition
\* was looking for it.
LEMMA EntryFoundDefs == IInv /\ DefsInv /\ EntryFound => DefsInv'
<1> SUFFICES ASSUME IInv, DefsInv, EntryFound PROVE DefsInv'
  OBVIOUS
<1>0. TypeOK /\ work.kind = "add" /\ work.at # 0 /\ SetC(work.at) /\ symtab' = symtab /\ defs' = defs
  BY DEF EntryFound, IInv
<1>1. PICK c : c = work.at
  OBVIOUS
<1>2. c \in Nat \ {0} /\ c \in 1..Len(symtab) /\ symtab[c].Name = work.name
  BY <1>0, <1>1 DEF EntryFound, Matches, Busy, IInv, WalkComplete, Entries
<1>3. /\ \A w \in Words : /\ global'[w].kind = global[w].kind
                          /\ global[w].c # 0 => global'[w].c # 0
      /\ work.owner = 0 => global'[work.name].c = c
  BY <1>0, <1>1, <1>2, SetCKeeps
<1>4. \A w \in Words : ~ Defining(w)'
  BY DEF EntryFound, After, Lookup, Idle, Defining
<1>5. DOMAIN defs \subseteq Words
  BY <1>0 DEF TypeOK
<1>6. ASSUME NEW w \in DOMAIN defs
      PROVE  global'[w].kind # "none" /\ global'[w].c # 0
  <2>1. global[w].kind # "none" /\ (global[w].c # 0 \/ Defining(w))
    BY DEF DefsInv
  <2>2. Defining(w) => work.owner = 0 /\ work.name = w
    BY <1>5 DEF DefsInv, Defining
  <2> QED BY <1>2, <1>3, <1>5, <2>1, <2>2
<1>7. ASSUME NEW i \in 1..Len(symtab), NEW w \in Words,
             symtab[i].Name = w, symtab[i].SectionNumber # "undef"
      PROVE  w \in DOMAIN defs /\ EntryIs(i, w)'
  <2>1. w \in DOMAIN defs /\ EntryIs(i, w)
    BY <1>7 DEF DefsInv
  <2> QED BY <1>0, <2>1 DEF EntryIs
<1> QED BY <1>0, <1>4, <1>6, <1>7 DEF DefsInv

\* coffsym_add makes an entry for the name of the first definition, or of a
\* use before it.
LEMMA EntryAddedDefs == IInv /\ DefsInv /\ EntryAdded => DefsInv'
<1> SUFFICES ASSUME IInv, DefsInv, EntryAdded PROVE DefsInv'
  OBVIOUS
<1>0. TypeOK /\ work.kind = "add" /\ defs' = defs /\ Len(symtab) \in Nat
  BY LenProperties DEF EntryAdded, IInv, TypeOK
<1>1. PICK c, n, e : c = Len(symtab) + 1 /\ n = work.name /\ e = NewEntry
  OBVIOUS
<1>2. /\ Len(symtab') = c /\ symtab'[c] = e
      /\ \A i \in 1..Len(symtab) : symtab'[i] = symtab[i]
  <2>1. /\ Len(symtab') = Len(symtab) + 1
        /\ \A i \in 1..Len(symtab) : symtab'[i] = symtab[i]
    BY TableGrown, ObjectFileAssumption DEF IInv
  <2>2. symtab' = Append(symtab, e)
    BY <1>1 DEF EntryAdded
  <2> QED BY <1>0, <1>1, <2>1, <2>2
<1>3. e.Name = n /\ e.Value = work.value /\ e.SectionNumber = work.section
  BY <1>1 DEF NewEntry
<1>4. SetC(c) /\ c \in Nat \ {0}
  BY <1>0, <1>1 DEF EntryAdded, NewIndex
<1>5. /\ \A w \in Words : /\ global'[w].kind = global[w].kind
                          /\ global[w].c # 0 => global'[w].c # 0
      /\ work.owner = 0 => global'[n].c = c
  BY <1>0, <1>1, <1>4, SetCKeeps
<1>6. \A w \in Words : ~ Defining(w)'
  BY DEF EntryAdded, After, Lookup, Idle, Defining
<1>7. DOMAIN defs \subseteq Words
  BY <1>0 DEF TypeOK
<1>8. ASSUME NEW w \in DOMAIN defs
      PROVE  global'[w].kind # "none" /\ global'[w].c # 0
  <2>1. global[w].kind # "none" /\ (global[w].c # 0 \/ Defining(w))
    BY DEF DefsInv
  <2>2. Defining(w) => work.owner = 0 /\ n = w
    BY <1>1, <1>7 DEF DefsInv, Defining
  <2> QED BY <1>4, <1>5, <1>7, <2>1, <2>2
<1>9. ASSUME NEW i \in 1..Len(symtab'), NEW w \in Words,
             symtab'[i].Name = w, symtab'[i].SectionNumber # "undef"
      PROVE  w \in DOMAIN defs /\ EntryIs(i, w)'
  <2>1. CASE i \in 1..Len(symtab)
    <3>1. w \in DOMAIN defs /\ EntryIs(i, w)
      BY <1>2, <1>9, <2>1 DEF DefsInv
    <3> QED BY <1>0, <1>2, <2>1, <3>1 DEF EntryIs
  <2>2. CASE i = c
    <3>1. w = n /\ work.section # "undef" /\ Defining(n)
      BY <1>0, <1>1, <1>2, <1>3, <1>9, <2>2 DEF Defining
    <3>2. /\ n \in DOMAIN defs
          /\ work.section = defs[n].section /\ work.value = defs[n].value
      BY <3>1 DEF DefsInv
    <3> QED BY <1>0, <1>2, <1>3, <2>2, <3>1, <3>2 DEF EntryIs
  <2> QED BY <1>0, <1>1, <1>2, <2>1, <2>2
<1> QED BY <1>0, <1>6, <1>8, <1>9 DEF DefsInv

LEMMA RdataNamed == ".rdata" \in Names
BY DEF Names, SectionNames

\* A declaration or a use makes the symbol of the file, if there is none.
LEMMA SymbolMade ==
  ASSUME TypeOK, SymbolsKnown, NEW n \in Names, NEW kind \in Kinds \ {"none"},
         \/ global' = global
         \/ /\ global[n].kind = "none"
            /\ global' = [global EXCEPT ![n] = Symbol(kind, 0)]
  PROVE  /\ SymbolsStay
         /\ \A m \in Names : /\ global'[m].c = global[m].c
                             /\ global'[m].kind = "none" => global[m].kind = "none"
         /\ \A m \in Names : m # n => global'[m] = global[m]
<1>1. global \in [Names -> [kind : Kinds, c : Nat]]
  BY DEF TypeOK
<1>2. CASE global' = global
  BY <1>2 DEF SymbolsStay
<1>3. CASE /\ global[n].kind = "none"
           /\ global' = [global EXCEPT ![n] = Symbol(kind, 0)]
  <2>1. \A m \in Names : m # n => global'[m] = global[m]
    BY <1>1, <1>3
  <2>2. global'[n].c = 0 /\ global'[n].kind = kind /\ global[n].c = 0
    BY <1>1, <1>3 DEF Symbol, SymbolsKnown
  <2>3. SymbolsStay
    BY <1>3, <2>1, WordNames DEF SymbolsStay
  <2> QED BY <2>1, <2>2, <2>3
<1> QED BY <1>2, <1>3

\* The symbols stay known while no search of a definition or use changes them.
LEMMA StillKnown ==
  ASSUME SymbolsKnown,
         \A m \in Names : global'[m].c = global[m].c,
         \A m \in Names : global'[m].kind = "none" => global[m].kind = "none",
         \A m \in Names : global'[m].kind = "none" =>
           ~ (work'.kind = "add" /\ work'.name = m /\ work'.owner = 0)
  PROVE  SymbolsKnown'
<1>1. global'[".rdata"].kind # "none"
  BY RdataNamed DEF SymbolsKnown
<1>2. ASSUME NEW n \in Names, global'[n].kind = "none"
      PROVE  /\ global'[n].c = 0
             /\ ~ (work'.kind = "add" /\ work'.name = n /\ work'.owner = 0)
  BY <1>2 DEF SymbolsKnown
<1> QED BY <1>1, <1>2 DEF SymbolsKnown

\* A step of the source file that neither defines nor uses a name.
LEMMA QuietDefs ==
  ASSUME IInv, SymbolsKnown, DefsInv, ~ Busy, NEW w \in Words,
         UNCHANGED <<symtab, work, defs>>,
         \/ global' = global
         \/ /\ global[w].kind = "none"
            /\ global' = [global EXCEPT ![w] = Symbol("sym", 0)]
  PROVE  (SymbolsKnown /\ DefsInv)'
<1>1. /\ SymbolsStay
      /\ \A m \in Names : /\ global'[m].c = global[m].c
                          /\ global'[m].kind = "none" => global[m].kind = "none"
  BY WordNames, SymbolMade DEF IInv, Kinds
<1>2. SymbolsKnown'
  <2>1. ~ (work'.kind = "add")
    BY DEF Busy
  <2>2. \A m \in Names : global'[m].kind = "none" => global[m].kind = "none"
    BY <1>1
  <2> QED BY <1>1, <2>1, <2>2, StillKnown
<1>3. \A n \in Words : Defining(n)' <=> Defining(n)
  BY DEF Defining
<1> QED BY <1>1, <1>2, <1>3, DefsStay

\* The kind of a symbol that a search found tells whether the name has one in
\* the file.
LEMMA UnknownName ==
  ASSUME TypeOK, NEW w \in Words, SymbolAt(w, sym_search(w)).kind = "none"
  PROVE  sym_search(w) = 0 /\ global[w].kind = "none"
<1>1. PICK o : o = sym_search(w)
  OBVIOUS
<1>2. o \in Nat /\ (o # 0 => o \in 1..Len(local))
  BY <1>1, SearchFinds
<1>3. local \in Seq(Local)
  BY DEF TypeOK, Local
<1>4. CASE o # 0
  <2>1. local[o] \in Local
    BY <1>2, <1>3, <1>4, ElementOfSeq
  <2>2. SymbolAt(w, o).kind # "none"
    BY <1>4, <2>1 DEF SymbolAt, Symbol, Local
  <2> QED BY <1>1, <2>2
<1> QED BY <1>1, <1>4 DEF SymbolAt

LEMMA DeclareFunctionDefs ==
  ASSUME IInv, SymbolsKnown, DefsInv, NEW w \in Words, DeclareFunction(w)
  PROVE  (SymbolsKnown /\ DefsInv)'
<1>1. ~ Busy /\ UNCHANGED <<symtab, work, defs>>
  BY DEF DeclareFunction, Event
<1>2. CASE global' = global
  BY <1>1, <1>2, QuietDefs
<1>3. CASE global' # global
  <2>1. InFile /\ SymbolAt(w, sym_search(w)).kind = "none"
    BY <1>3 DEF DeclareFunction, PushLocal
  <2>2. global' = [global EXCEPT ![w] = Symbol("sym", 0)]
    BY <1>3, <2>1 DEF DeclareFunction
  <2>3. global[w].kind = "none"
    BY <2>1, UnknownName DEF IInv
  <2> QED BY <1>1, <2>2, <2>3, QuietDefs
<1> QED BY <1>2, <1>3

\* DeclareVariable and DefineFunction
LEMMA DefinitionDefs ==
  ASSUME IInv, SymbolsKnown, DefsInv, ~ Busy, NEW w \in Words, NEW value \in Nat,
         NEW section \in Sections \ {"undef"}, hashtab' = hashtab,
         NEW kind \in Kinds \ {"none"},
         coffsym_add_update(w, global[w].c, value, section),
         defs' = Put(defs, w, [section |-> section, value |-> value]),
         global' = IF global[w].kind # "none" THEN global
                   ELSE [global EXCEPT ![w] = Symbol(kind, 0)]
  PROVE  (SymbolsKnown /\ DefsInv)'
<1>1. \/ global' = global /\ global[w].kind # "none"
      \/ global[w].kind = "none" /\ global' = [global EXCEPT ![w] = Symbol(kind, 0)]
  OBVIOUS
<1>2. /\ \A m \in Names : /\ global'[m].c = global[m].c
                          /\ global'[m].kind = "none" => global[m].kind = "none"
      /\ \A m \in Names : m # w => global'[m] = global[m]
  BY <1>1, WordNames, SymbolMade DEF IInv
<1>3. global'[w].kind # "none"
  <2>1. global \in [Names -> [kind : Kinds, c : Nat]]
    BY DEF IInv, TypeOK
  <2> QED BY <1>1, <2>1, WordNames DEF Symbol
<1>4. work'.kind = "add" => work'.name = w
  BY DEF coffsym_add_update, coffsym_add, Busy
<1>5. SymbolsKnown'
  <2>1. \A m \in Names : global'[m].c = global[m].c
    BY <1>2
  <2>2. \A m \in Names : global'[m].kind = "none" => global[m].kind = "none"
    BY <1>2
  <2>3. \A m \in Names : global'[m].kind = "none" =>
          ~ (work'.kind = "add" /\ work'.name = m /\ work'.owner = 0)
    BY <1>3, <1>4
  <2> QED BY <2>1, <2>2, <2>3, StillKnown
<1>6. \A n \in Words : n # w => global'[n] = global[n]
  BY <1>2, WordNames
<1>7. global'[w].kind # "none" /\ global'[w].c = global[w].c
  BY <1>2, <1>3, WordNames
<1>8. DefsInv'
  BY <1>6, <1>7, AddUpdateDefs
<1> QED BY <1>5, <1>8

LEMMA DeclareVariableDefs ==
  ASSUME IInv, SymbolsKnown, DefsInv, NEW w \in Words, DeclareVariable(w)
  PROVE  (SymbolsKnown /\ DefsInv)'
<1>1. PICK sec \in {"data", "bss"}, size \in {1, 4} :
        /\ coffsym_add_update(w, global[w].c, NewAddress(sec, size), sec)
        /\ defs' = Put(defs, w, [section |-> sec, value |-> NewAddress(sec, size)])
  BY DEF DeclareVariable
<1>2. sec \in Sections \ {"undef"}
  BY DEF Sections
<1>3. NewAddress(sec, size) \in Nat
  BY <1>2, AlignTyped DEF IInv, TypeOK, NewAddress
<1>4. /\ ~ Busy /\ hashtab' = hashtab
      /\ global' = IF global[w].kind # "none" THEN global
                   ELSE [global EXCEPT ![w] = Symbol("sym", 0)]
  BY DEF DeclareVariable, Event
<1> QED BY <1>1, <1>2, <1>3, <1>4, DefinitionDefs DEF Kinds

LEMMA DefineFunctionDefs ==
  ASSUME IInv, SymbolsKnown, DefsInv, NEW w \in Words, DefineFunction(w)
  PROVE  (SymbolsKnown /\ DefsInv)'
<1>1. "text" \in Sections \ {"undef"}
  BY DEF Sections
<1>2. data_offset["text"] \in Nat
  BY <1>1 DEF IInv, TypeOK
<1>3. PICK kind \in {"sym", "nosym"} :
        global' = IF global[w].kind # "none" THEN global
                  ELSE [global EXCEPT ![w] = Symbol(kind, 0)]
  BY DEF DefineFunction
<1>4. /\ ~ Busy /\ hashtab' = hashtab
      /\ coffsym_add_update(w, global[w].c, data_offset["text"], "text")
      /\ defs' = Put(defs, w, [section |-> "text", value |-> data_offset["text"]])
  BY DEF DefineFunction, Event
<1> QED BY <1>1, <1>2, <1>3, <1>4, DefinitionDefs DEF Kinds

\* UseName and UseString
LEMMA UseKnown ==
  ASSUME IInv, SymbolsKnown, DefsInv, ~ Busy, NEW n \in Names, NEW o, NEW c, NEW place,
         coffreloc_add(n, o, c, place) \/ UNCHANGED <<symtab, work>>,
         defs' = defs,
         \/ global' = global
         \/ /\ global[n].kind = "none"
            /\ global' = [global EXCEPT ![n] = Symbol("sym", 0)],
         o = 0 => global'[n].kind # "none"
  PROVE  (SymbolsKnown /\ DefsInv)'
<1>1. /\ SymbolsStay
      /\ \A m \in Names : /\ global'[m].c = global[m].c
                          /\ global'[m].kind = "none" => global[m].kind = "none"
  BY SymbolMade DEF IInv, Kinds
<1>2. work'.kind = "add" => work'.name = n /\ work'.owner = o
  BY DEF coffreloc_add, coffsym_add, Lookup, Busy
<1>3. SymbolsKnown'
  <2>1. \A m \in Names : global'[m].c = global[m].c
    BY <1>1
  <2>2. \A m \in Names : global'[m].kind = "none" => global[m].kind = "none"
    BY <1>1
  <2>3. \A m \in Names : global'[m].kind = "none" =>
          ~ (work'.kind = "add" /\ work'.name = m /\ work'.owner = 0)
    BY <1>2
  <2> QED BY <2>1, <2>2, <2>3, StillKnown
<1> QED BY <1>1, <1>3, UseDefs

LEMMA UseNameDefs ==
  ASSUME IInv, SymbolsKnown, DefsInv, NEW w \in Words, UseName(w)
  PROVE  (SymbolsKnown /\ DefsInv)'
<1>1. PICK o : o = sym_search(w)
  OBVIOUS
<1>2. /\ ~ Busy /\ defs' = defs
      /\ \/ coffreloc_add(w, o, SymbolAt(w, o).c, Place)
         \/ UNCHANGED <<symtab, work>>
      /\ global' = IF SymbolAt(w, o).kind # "none" THEN global
                   ELSE [global EXCEPT ![w] = Symbol("sym", 0)]
  BY <1>1 DEF UseName, Event
<1>3. SymbolAt(w, o).kind = "none" => o = 0 /\ global[w].kind = "none"
  BY <1>1, UnknownName DEF IInv
<1>4. \/ global' = global
      \/ global[w].kind = "none" /\ global' = [global EXCEPT ![w] = Symbol("sym", 0)]
  BY <1>2, <1>3
<1>5. o = 0 => global'[w].kind # "none"
  <2>1. global \in [Names -> [kind : Kinds, c : Nat]]
    BY DEF IInv, TypeOK
  <2> QED BY <1>2, <2>1, WordNames DEF Symbol, SymbolAt
<1> QED BY <1>2, <1>4, <1>5, WordNames, UseKnown

LEMMA UseStringDefs ==
  ASSUME IInv, SymbolsKnown, DefsInv, UseString
  PROVE  (SymbolsKnown /\ DefsInv)'
<1>1. /\ ~ Busy /\ defs' = defs /\ global' = global
      /\ \/ coffreloc_add(".rdata", 0, global[".rdata"].c, Place)
         \/ UNCHANGED <<symtab, work>>
  BY DEF UseString, Event
<1>2. global'[".rdata"].kind # "none"
  BY <1>1 DEF SymbolsKnown
<1> QED BY <1>1, <1>2, RdataNamed, UseKnown

\* A search that found its entry, or made it, gives the index to a symbol.
LEMMA FoundKnown ==
  ASSUME IInv, SymbolsKnown, NEW c \in Nat \ {0}, SetC(c), work.kind = "add",
         work'.kind # "add"
  PROVE  SymbolsKnown'
<1>1. /\ global \in [Names -> [kind : Kinds, c : Nat]] /\ work.name \in Names
      /\ \A m \in Names : global[m] \in [kind : Kinds, c : Nat]
  BY DEF IInv, TypeOK
<1>2. CASE work.owner = 0
  <2>1. PICK n, g : n = work.name /\ g = [global[n] EXCEPT !.c = c]
    OBVIOUS
  <2>2. g.kind = global[n].kind
    BY <1>1, <2>1
  <2>3. global' = [global EXCEPT ![n] = g]
    BY <1>2, <2>1 DEF SetC
  <2>4. \A m \in Names : global'[m] = IF m = n THEN g ELSE global[m]
    BY <1>1, <2>1, <2>3
  <2>5. global[n].kind # "none"
    BY <1>1, <1>2, <2>1 DEF SymbolsKnown
  <2> QED BY <2>2, <2>4, <2>5, RdataNamed DEF SymbolsKnown
<1>3. CASE work.owner # 0
  BY <1>3 DEF SetC, SymbolsKnown
<1> QED BY <1>2, <1>3

LEMMA EntryFoundKnown ==
  ASSUME IInv, SymbolsKnown, EntryFound
  PROVE  SymbolsKnown'
<1>1. work.kind = "add" /\ work.at # 0 /\ SetC(work.at) /\ work.at \in Nat
  BY DEF EntryFound, IInv, TypeOK
<1>2. work'.kind # "add"
  BY DEF EntryFound, After, Idle, Lookup
<1> QED BY <1>1, <1>2, FoundKnown

LEMMA EntryAddedKnown ==
  ASSUME IInv, SymbolsKnown, EntryAdded
  PROVE  SymbolsKnown'
<1>1. work.kind = "add" /\ SetC(NewIndex) /\ NewIndex \in Nat \ {0}
  BY LenProperties DEF EntryAdded, NewIndex, IInv, TypeOK
<1>2. work'.kind # "add"
  BY DEF EntryAdded, After, Idle, Lookup
<1> QED BY <1>1, <1>2, FoundKnown

\* Walk goes on with the same search, Relocated ends one of a relocation.
LEMMA WalkDefs ==
  ASSUME IInv, SymbolsKnown, DefsInv, Walk
  PROVE  (SymbolsKnown /\ DefsInv)'
<1>1. work \in Work
  BY DEF IInv, TypeOK, Work
<1>2. PICK p : p = symtab[work.at].Next
  OBVIOUS
<1>3. work' = [work EXCEPT !.at = p] /\ UNCHANGED <<symtab, global, defs>>
  BY <1>2 DEF Walk
<1>4. /\ work'.kind = work.kind /\ work'.name = work.name /\ work'.owner = work.owner
      /\ work'.section = work.section /\ work'.value = work.value
  BY <1>1, <1>3 DEF Work
<1>5. \A w \in Words : Defining(w)' <=> Defining(w)
  BY <1>4 DEF Defining
<1>6. SymbolsStay /\ SymbolsKnown'
  BY <1>3, <1>4 DEF SymbolsStay, SymbolsKnown
<1> QED BY <1>3, <1>4, <1>5, <1>6, DefsStay

LEMMA RelocatedDefs ==
  ASSUME IInv, SymbolsKnown, DefsInv, Relocated
  PROVE  (SymbolsKnown /\ DefsInv)'
<1>1. /\ work.kind = "reloc" /\ work' = Idle
      /\ UNCHANGED <<symtab, global, defs>>
  BY DEF Relocated
<1>2. \A w \in Words : ~ Defining(w) /\ ~ Defining(w)'
  BY <1>1 DEF Defining, Idle
<1>3. SymbolsStay /\ SymbolsKnown'
  BY <1>1 DEF SymbolsStay, SymbolsKnown, Idle
<1> QED BY <1>1, <1>2, <1>3, DefsStay

\* Steps that leave the table, the symbols of the file and the search alone
LEMMA OtherDefs ==
  ASSUME IInv, SymbolsKnown, DefsInv, UNCHANGED <<symtab, global, work, defs>>
  PROVE  (SymbolsKnown /\ DefsInv)'
<1>1. \A w \in Words : Defining(w)' <=> Defining(w)
  BY DEF Defining
<1>2. SymbolsStay /\ SymbolsKnown'
  BY DEF SymbolsStay, SymbolsKnown
<1> QED BY <1>1, <1>2, DefsStay

LEMMA NextDefs ==
  ASSUME IInv, SymbolsKnown, DefsInv, ObjectFileAssumption, [Next]_vars
  PROVE  (SymbolsKnown /\ DefsInv)'
<1>1. ASSUME NEW w \in Words,
             \/ DeclareFunction(w) \/ DeclareVariable(w)
             \/ DefineFunction(w) \/ UseName(w)
      PROVE  (SymbolsKnown /\ DefsInv)'
  BY <1>1, DeclareFunctionDefs, DeclareVariableDefs, DefineFunctionDefs, UseNameDefs
<1>2. CASE UseString
  BY <1>2, UseStringDefs
<1>3. CASE Walk
  BY <1>3, WalkDefs
<1>4. CASE EntryFound
  BY <1>4, EntryFoundKnown, EntryFoundDefs
<1>5. CASE EntryAdded
  BY <1>5, EntryAddedKnown, EntryAddedDefs
<1>6. CASE Relocated
  BY <1>6, RelocatedDefs
<1>7. CASE \/ \E w \in Words : DeclareLocal(w)
           \/ InitConstant \/ OpenBlock \/ CloseBlock \/ EndOfFile \/ UNCHANGED vars
  <2>1. UNCHANGED <<symtab, global, work, defs>>
    BY <1>7 DEF DeclareLocal, InitConstant, OpenBlock, CloseBlock, EndOfFile, vars
  <2> QED BY <2>1, OtherDefs
<1> QED BY <1>1, <1>2, <1>3, <1>4, <1>5, <1>6, <1>7 DEF Next, Source, Coff

LEMMA InitDefs ==
  ASSUME Init, ObjectFileAssumption
  PROVE  SymbolsKnown /\ DefsInv
<1>1. /\ global = [n \in Names |-> IF n = ".rdata" THEN Symbol("sym", 0) ELSE NoSymbol]
      /\ work = Idle /\ defs = <<>>
  BY DEF Init
<1>2. SymbolsKnown
  BY <1>1, RdataNamed DEF SymbolsKnown, Symbol, NoSymbol, Idle
<1>3. \A w \in Words : ~ Defining(w)
  BY <1>1 DEF Defining, Idle
<1>4. Len(symtab) = 3 /\ \A i \in 1..3 : symtab[i].Name \in SectionNames
  <2>1. PICK F : F = FirstEntries
    OBVIOUS
  <2>2. \A i \in 1..3 : F[i] \in SectionNames
    BY <2>1 DEF FirstEntries, SectionNames
  <2>3. /\ DOMAIN symtab = 1..3
        /\ \A i \in 1..3 : symtab[i].Name = F[i]
    BY <2>1 DEF Init
  <2>4. symtab \in Seq(Entry)
    BY InitIInv DEF IInv, TypeOK
  <2>5. Len(symtab) \in Nat /\ DOMAIN symtab = 1..Len(symtab)
    BY <2>4, LenProperties
  <2>6. Len(symtab) = 3
    BY <2>3, <2>5
  <2> QED BY <2>2, <2>3, <2>6
<1>5. \A i \in 1..Len(symtab), w \in Words : symtab[i].Name # w
  BY <1>4 DEF ObjectFileAssumption
<1>6. DOMAIN defs = {}
  BY <1>1
<1> QED BY <1>2, <1>3, <1>5, <1>6 DEF DefsInv

\* What the table says of a name is what its last definition said, through all
\* the declarations, uses and searches in between.
THEOREM DefinitionsFollowed == Spec => [](IInv /\ SymbolsKnown /\ DefsInv)
<1>1. Init => SymbolsKnown /\ DefsInv
  BY InitDefs, ObjectFileAssumption
<1>2. IInv /\ SymbolsKnown /\ DefsInv /\ [Next]_vars => (SymbolsKnown /\ DefsInv)'
  BY NextDefs, ObjectFileAssumption
<1> QED BY <1>1, <1>2, ObjectInductive, PTL DEF Spec

LEMMA DefsCurrent == IInv /\ DefsInv => EntriesCurrent
<1> SUFFICES ASSUME IInv, DefsInv, ~ Busy, NEW w \in DOMAIN defs
             PROVE  \E i \in 1..Len(symtab) :
                      \/ EntryIs(i, w)
                      \/ symtab[i].Name = w /\ symtab[i].SectionNumber = "undef"
  BY DEF EntriesCurrent
<1>1. w \in Words /\ w \in Names
  BY WordNames DEF IInv, TypeOK
<1>2. ~ Defining(w)
  BY DEF Busy, Defining
<1>3. global[w].c # 0
  BY <1>2 DEF DefsInv
<1>4. PICK i \in 1..Len(symtab) : symtab[i].Name = w
  BY <1>1, <1>3 DEF IInv, SymbolsIndexed
<1>5. symtab[i].SectionNumber # "undef" => EntryIs(i, w)
  BY <1>1, <1>4 DEF DefsInv
<1> QED BY <1>4, <1>5

\* Once a definition has its entry (coffsym_add_update), the entry of the name
\* is undefined or says where the last definition of the file put it.
THEOREM EntriesAreCurrent == Spec => []EntriesCurrent
<1>1. IInv /\ DefsInv => EntriesCurrent
  BY DefsCurrent
<1> QED BY <1>1, DefinitionsFollowed, PTL

=============================================================================
