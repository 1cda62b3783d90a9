---------------------------- MODULE LexerProofs ----------------------------
(***************************************************************************)
(* Proofs about Lexer, for all texts, keywords and hash functions: as long *)
(* as the first file is read, the word table holds every word once, under  *)
(* one code, on the chain of its hash value.                               *)
(***************************************************************************)
EXTENDS Lexer, SequenceTheorems, TLAPS

-----------------------------------------------------------------------------
(* Sequences.                                                              *)

\* The domain of a sequence, in both forms.
LEMMA Elements ==
  ASSUME NEW S, NEW s \in Seq(S)
  PROVE  /\ Len(s) \in Nat /\ DOMAIN s = 1 .. Len(s)
         /\ ToSet(s) = {s[i] : i \in 1 .. Len(s)}
         /\ s \in Seq(ToSet(s))
<1>1. Len(s) \in Nat /\ DOMAIN s = 1 .. Len(s) /\ s \in [1 .. Len(s) -> S]
  BY LenProperties
<1>2. ToSet(s) = {s[i] : i \in 1 .. Len(s)}
  BY <1>1 DEF ToSet
<1>3. \A i \in 1 .. Len(s) : s[i] \in ToSet(s)
  BY <1>2
<1>4. [i \in 1 .. Len(s) |-> s[i]] \in Seq(ToSet(s))
  BY <1>1, <1>3, IsASeq
<1>5. s = [i \in 1 .. Len(s) |-> s[i]]
  BY <1>1
<1> QED BY <1>1, <1>2, <1>4, <1>5

\* A sequence that gets any other element
LEMMA Appended ==
  ASSUME NEW S, NEW s \in Seq(S), NEW x
  PROVE  /\ Len(Append(s, x)) = Len(s) + 1
         /\ \A i \in 1 .. Len(s) : Append(s, x)[i] = s[i]
         /\ Append(s, x)[Len(s) + 1] = x
         /\ Append(s, x) \in Seq(ToSet(Append(s, x)))
<1> DEFINE T == S \cup {x}
<1>1. s \in Seq(T) /\ x \in T
  BY SeqMonotonic
<1> HIDE DEF T
<1>2. Append(s, x) \in Seq(T)
  BY <1>1, AppendProperties
<1>3. /\ Len(Append(s, x)) = Len(s) + 1
      /\ \A i \in 1 .. Len(s) : Append(s, x)[i] = s[i]
      /\ Append(s, x)[Len(s) + 1] = x
  BY <1>1, AppendProperties
<1> QED BY <1>2, <1>3, Elements

\* A part of a text stays when the text grows behind it.
LEMMA SamePart ==
  ASSUME NEW S, NEW s \in Seq(S), NEW t \in Seq(S), Len(s) <= Len(t),
         \A i \in 1 .. Len(s) : t[i] = s[i],
         NEW i \in Nat \ {0}, NEW j \in Nat, j <= Len(s)
  PROVE  SubSeq(t, i, j) = SubSeq(s, i, j)
<1>1. Len(s) \in Nat /\ i .. j \subseteq 1 .. Len(s) /\ i \in Int /\ j \in Int
  BY LenProperties
<1>2. \A k \in i .. j : s[k] \in S /\ t[k] = s[k] /\ t[k] \in S
  BY <1>1, ElementOfSeq
<1>3. /\ SubSeq(s, i, j) \in Seq(S) /\ Len(SubSeq(s, i, j)) = IF i <= j THEN j - i + 1 ELSE 0
      /\ \A k \in 1 .. j - i + 1 : SubSeq(s, i, j)[k] = s[i + k - 1]
  BY <1>1, <1>2, SubSeqProperties
<1>4. /\ SubSeq(t, i, j) \in Seq(S) /\ Len(SubSeq(t, i, j)) = IF i <= j THEN j - i + 1 ELSE 0
      /\ \A k \in 1 .. j - i + 1 : SubSeq(t, i, j)[k] = t[i + k - 1]
  BY <1>1, <1>2, SubSeqProperties
<1>5. \A k \in 1 .. Len(SubSeq(t, i, j)) : k \in 1 .. j - i + 1 /\ i + k - 1 \in i .. j
  BY <1>4
<1>6. \A k \in 1 .. Len(SubSeq(t, i, j)) : SubSeq(t, i, j)[k] = SubSeq(s, i, j)[k]
  BY <1>2, <1>3, <1>4, <1>5
<1> QED BY <1>3, <1>4, <1>6, SeqEqual

\* A part that grows by the next character
LEMMA LongerPart ==
  ASSUME NEW S, NEW s \in Seq(S), NEW i \in Nat \ {0}, NEW j \in 1 .. Len(s), i <= j
  PROVE  SubSeq(s, i, j) = Append(SubSeq(s, i, j - 1), s[j])
<1>1. Len(s) \in Nat /\ i \in 1 .. Len(s) /\ j \in i .. Len(s) /\ s[j] \in S
  BY LenProperties, ElementOfSeq
<1>2. SubSeq(s, i, j) = SubSeq(s, i, j - 1) \o <<s[j]>>
  BY <1>1, SubSeqRecursiveSecond
<1>3. \A k \in i .. j - 1 : s[k] \in S
  BY <1>1, ElementOfSeq
<1>4. i \in Int /\ j - 1 \in Int
  BY <1>1
<1>5. SubSeq(s, i, j - 1) \in Seq(S)
  BY <1>3, <1>4, SubSeqProperties
<1> QED BY <1>1, <1>2, <1>5, AppendIsConcat

-----------------------------------------------------------------------------
(* The table.                                                              *)

\* The nodes of the table
LEMMA TableFacts ==
  ASSUME TypeOK, WordsNumbered
  PROVE  /\ Len(words) \in Nat /\ Len(spelled) \in Nat
         /\ DOMAIN words = 1 .. Len(words) /\ DOMAIN spelled = 1 .. Len(spelled)
         /\ ToSet(words) = 1 .. Len(words)
         /\ \A h : OnChain(h) = {n \in 1 .. Len(words) : elf_hash(spelled[n]) = h}
<1>0. words \in Seq(Nat) /\ spelled \in Seq(Seq(Characters))
  BY DEF TypeOK
<1>1. /\ Len(words) \in Nat /\ DOMAIN words = 1 .. Len(words)
      /\ ToSet(words) = {words[i] : i \in 1 .. Len(words)}
  <2>1. Len(words) \in Nat /\ DOMAIN words = 1 .. Len(words)
    BY <1>0, LenProperties
  <2> QED BY <2>1 DEF ToSet
<1>2. Len(spelled) \in Nat /\ DOMAIN spelled = 1 .. Len(spelled)
  <2>1. spelled \in Seq(Seq(Characters))
    BY <1>0
  <2> QED BY <2>1, Elements
<1>3. ToSet(words) = 1 .. Len(words)
  BY <1>1 DEF WordsNumbered
<1>4. ASSUME NEW h
      PROVE  OnChain(h) = {n \in 1 .. Len(words) : elf_hash(spelled[n]) = h}
  BY <1>3 DEF OnChain
<1> QED BY <1>1, <1>2, <1>3, <1>4

\* A node is put in front of the chain of its word.
NodeAdded(n, w) ==
  /\ n = Len(words) + 1
  /\ words' = Append(words, n)
  /\ n \in 1 .. Len(spelled') /\ spelled'[n] = w
  /\ \A m \in 1 .. Len(words) : spelled'[m] = spelled[m]
  /\ next'[n] = head[elf_hash(w)]
  /\ \A m \in 1 .. Len(words) : next'[m] = next[m]
  /\ head' = [head EXCEPT ![elf_hash(w)] = n]

LEMMA ChainsGrow ==
  ASSUME TypeOK, WordsNumbered, ChainsExact, file = 1, NEW n, NEW w, NodeAdded(n, w),
         elf_hash(w) \in Hashes
  PROVE  /\ Len(words') = n /\ \A k \in 1 .. n : words'[k] = k
         /\ words' \in Seq(Nat) /\ head' \in [Hashes -> Nat]
         /\ ChainsExact'
<1>0. PICK h : h = elf_hash(w)
  OBVIOUS
<1>1. /\ Len(words) \in Nat /\ n \in Nat /\ n = Len(words) + 1
      /\ 1 .. n = 1 .. Len(words) \cup {n} /\ n \notin 1 .. Len(words)
  BY TableFacts DEF NodeAdded
<1>2. /\ words' \in Seq(Nat) /\ Len(words') = n
      /\ \A k \in 1 .. Len(words) : words'[k] = words[k]
      /\ words'[n] = n
  <2>1. words \in Seq(Nat)
    BY DEF TypeOK
  <2> QED BY <1>1, <2>1, AppendProperties DEF NodeAdded
<1>3. \A k \in 1 .. n : words'[k] = k
  BY <1>1, <1>2 DEF WordsNumbered
<1>4. ToSet(words') = 1 .. n
  <2>1. ToSet(words') = {words'[i] : i \in 1 .. n}
    BY <1>2, Elements
  <2> QED BY <2>1, <1>3
<1>5. \A b : OnChain(b)' = {m \in 1 .. n : elf_hash(spelled'[m]) = b}
  BY <1>4 DEF OnChain
<1>6. \A b : OnChain(b) = {m \in 1 .. Len(words) : elf_hash(spelled[m]) = b}
  BY TableFacts
<1>7. spelled'[n] = w /\ \A m \in 1 .. Len(words) : spelled'[m] = spelled[m]
  BY DEF NodeAdded
<1>8. OnChain(h)' = OnChain(h) \cup {n} /\ \A b : b # h => OnChain(b)' = OnChain(b)
  BY <1>0, <1>1, <1>5, <1>6, <1>7
<1>9. \A b : \A m \in OnChain(b) : m \in 1 .. Len(words) /\ m < n
  BY <1>1, <1>6
<1>10. /\ head' \in [Hashes -> Nat] /\ head'[h] = n
       /\ \A b \in Hashes : b # h => head'[b] = head[b]
  BY <1>0, <1>1 DEF NodeAdded, TypeOK
<1>11. /\ \A b \in Hashes : HighestOf(head[b], OnChain(b))
       /\ \A m \in 1 .. Len(words) : HighestOf(next[m], Behind(m))
  BY TableFacts DEF ChainsExact
<1>12. ASSUME NEW b \in Hashes PROVE HighestOf(head'[b], OnChain(b)')
  <2>1. CASE b = h
    <3>1. HighestOf(n, OnChain(h) \cup {n})
      BY <1>1, <1>9 DEF HighestOf
    <3> QED BY <2>1, <3>1, <1>8, <1>10
  <2>2. CASE b # h
    BY <2>2, <1>8, <1>10, <1>11
  <2> QED BY <2>1, <2>2
<1>13. ASSUME NEW m \in 1 .. n PROVE HighestOf(next'[m], Behind(m)')
  <2>1. CASE m = n
    <3>1. Behind(m)' = {k \in OnChain(h)' : k < n}
      BY <2>1, <1>0, <1>7 DEF Behind
    <3>2. Behind(m)' = OnChain(h)
      BY <3>1, <1>1, <1>8, <1>9
    <3>3. next'[m] = head[h]
      BY <2>1, <1>0 DEF NodeAdded
    <3> QED BY <3>2, <3>3, <1>0, <1>11
  <2>2. CASE m # n
    <3>1. m \in 1 .. Len(words) /\ m < n
      BY <2>2, <1>1
    <3>2. PICK b : b = elf_hash(spelled[m])
      OBVIOUS
    <3>3. Behind(m)' = {k \in OnChain(b)' : k < m} /\ Behind(m) = {k \in OnChain(b) : k < m}
      BY <3>1, <3>2, <1>7 DEF Behind
    <3>4. Behind(m)' = Behind(m)
      BY <3>1, <3>3, <1>1, <1>8, <1>9
    <3>5. next'[m] = next[m]
      BY <3>1 DEF NodeAdded
    <3> QED BY <3>1, <3>4, <3>5, <1>11
  <2> QED BY <2>1, <2>2
<1>14. ChainsExact'
  BY <1>4, <1>12, <1>13 DEF ChainsExact
<1> QED BY <1>2, <1>3, <1>10, <1>14

-----------------------------------------------------------------------------
(* The characters.                                                         *)

\* What a step does to the text: it may reveal the next character.
Grown ==
  /\ text' \in Seq(Characters) /\ Len(text') <= source.length
  /\ Len(text) <= Len(text')
  /\ \A i \in 1 .. Len(text) : text'[i] = text[i]
  /\ idx' \in 0 .. Len(text') /\ cur' \in Characters \cup {EOF}

\* Lengths and characters
LEMMA TextFacts ==
  ASSUME TypeOK, LexerAssumption
  PROVE  /\ Len(text) \in Nat /\ idx \in Nat /\ source.length \in Nat
         /\ idx <= Len(text) /\ Len(text) <= source.length
         /\ \A i \in 1 .. Len(text) : text[i] \in Characters
         /\ EOF \notin Characters
         /\ text \in Seq(Characters) /\ cur \in Characters \cup {EOF}
<1>1. text \in Seq(Characters) /\ source \in Sources /\ idx \in 0 .. Len(text)
  BY DEF TypeOK
<1>2. source.length \in Nat
  BY <1>1 DEF LexerAssumption
<1>3. Len(text) \in Nat
  BY <1>1, LenProperties
<1>4. \A i \in 1 .. Len(text) : text[i] \in Characters
  BY <1>1, ElementOfSeq
<1>5. EOF \notin Characters
  BY DEF EOF, Characters, Letters, Digits, Singles, FirstOfTwo, Blanks, Quote
<1> QED BY <1>1, <1>2, <1>3, <1>4, <1>5 DEF TypeOK

\* get_char comes to the end or to the next character.
LEMMA GetChar ==
  ASSUME TypeOK, LexerAssumption, get_char
  PROVE  /\ Grown
         /\ \/ cur' = EOF /\ idx' = idx /\ idx = Len(text) /\ text' = text
            \/ idx' = idx + 1 /\ cur' = text'[idx + 1] /\ cur' # EOF
<1>0. /\ Len(text) \in Nat /\ idx \in Nat /\ source.length \in Nat
      /\ idx <= Len(text) /\ Len(text) <= source.length
      /\ \A i \in 1 .. Len(text) : text[i] \in Characters
      /\ EOF \notin Characters
      /\ text \in Seq(Characters) /\ cur \in Characters \cup {EOF}
  BY TextFacts
<1>1. CASE /\ idx < Len(text)
           /\ idx' = idx + 1 /\ cur' = text[idx + 1]
           /\ text' = text
  <2>1. idx + 1 \in 1 .. Len(text)
    BY <1>0, <1>1
  <2>2. cur' \in Characters
    BY <1>0, <1>1, <2>1
  <2> QED BY <1>0, <1>1, <2>1, <2>2 DEF Grown
<1>2. CASE /\ idx = Len(text) /\ Len(text) < source.length
           /\ \E c \in source.alphabet :
                text' = Append(text, c) /\ idx' = idx + 1 /\ cur' = c
  <2>1. PICK c \in source.alphabet :
          text' = Append(text, c) /\ idx' = idx + 1 /\ cur' = c
    BY <1>2
  <2>2. c \in Characters
    BY DEF TypeOK, LexerAssumption
  <2>3. /\ text' \in Seq(Characters) /\ Len(text') = Len(text) + 1
        /\ \A i \in 1 .. Len(text) : text'[i] = text[i]
        /\ text'[Len(text) + 1] = c
    BY <1>0, <2>1, <2>2, AppendProperties
  <2> QED BY <1>0, <1>2, <2>1, <2>2, <2>3 DEF Grown
<1>3. CASE idx = Len(text) /\ cur' = EOF /\ text' = text /\ idx' = idx
  BY <1>0, <1>3 DEF Grown
<1> QED BY <1>1, <1>2, <1>3 DEF get_char

\* After get_char, cur_ch is the character before idx_buf.
LEMMA ReadOn ==
  ASSUME TypeOK, LexerAssumption, get_char,
         mode' \notin {"slash", "token", "identifier", "find"}
  PROVE  Grown /\ CharRead'
<1>1. /\ Grown /\ idx \in Nat
      /\ \/ cur' = EOF
         \/ idx' = idx + 1 /\ cur' = text'[idx + 1]
  BY GetChar, TextFacts
<1> QED BY <1>1 DEF CharRead

\* Steps that only look
LEMMA LookOn ==
  ASSUME TypeOK, LexerAssumption, CharRead, UNCHANGED reading, mode # "init",
         mode = "token" => cur = EOF,
         mode' \notin {"slash", "token", "identifier", "find"}
  PROVE  Grown /\ CharRead'
<1>1. /\ text \in Seq(Characters) /\ Len(text) \in Nat /\ Len(text) <= source.length
      /\ idx \in 0 .. Len(text) /\ cur \in Characters \cup {EOF}
      /\ text' = text /\ idx' = idx /\ cur' = cur
  BY TextFacts DEF TypeOK, reading
<1>2. Grown
  BY <1>1 DEF Grown
<1>3. cur = EOF \/ (idx >= 1 /\ cur = text[idx])
  BY DEF CharRead
<1> QED BY <1>1, <1>2, <1>3 DEF CharRead

\* What was read stays.
LEMMA GrownPart ==
  ASSUME TypeOK, LexerAssumption, Grown, NEW i \in Nat \ {0}, NEW j \in 0 .. Len(text)
  PROVE  SubSeq(text', i, j) = SubSeq(text, i, j) /\ j \in 0 .. Len(text')
<1>1. text \in Seq(Characters) /\ Len(text) \in Nat
  BY TextFacts
<1>2. /\ text' \in Seq(Characters) /\ Len(text) <= Len(text')
      /\ \A k \in 1 .. Len(text) : text'[k] = text[k]
  BY DEF Grown
<1>3. Len(text') \in Nat
  BY <1>2, LenProperties
<1>4. j \in Nat /\ j <= Len(text) /\ j \in 0 .. Len(text')
  BY <1>1, <1>2, <1>3
<1>5. SubSeq(text', i, j) = SubSeq(text, i, j)
  BY <1>1, <1>2, <1>4, SamePart
<1> QED BY <1>4, <1>5

-----------------------------------------------------------------------------
(* Steps that leave the table alone.                                       *)

\* The tokens stay, or one that is no word is added.
LexemesKept == lexemes' = lexemes \/ \E t : lexemes' = LexemesOf(t, 0)

\* A step that reads no word
Quiet ==
  /\ UNCHANGED <<source, file, table, loaded, probe>>
  /\ mode # "init" /\ mode' \notin {"init", "identifier", "find"}
  /\ tkstr' \in {tkstr, <<>>, <<cur>>, Append(tkstr, cur)}
  /\ from' \in Nat /\ strayed' \in {strayed, TRUE}
  /\ LexemesKept

\* What was read is still in the table when it grows at its end.
LEMMA LexemesStay ==
  ASSUME TypeOK, LexerAssumption, LexemesCoded, Grown, LexemesKept,
         strayed' \in {strayed, TRUE},
         Len(words') \in Nat, Len(words) \in Nat, Len(words) <= Len(words'),
         \A n \in 1 .. Len(words) : spelled'[n] = spelled[n]
  PROVE  lexemes' \in Seq(ToSet(lexemes')) /\ LexemesCoded'
<1>0. text \in Seq(Characters) /\ Len(text) \in Nat /\ text' \in Seq(Characters)
  BY TextFacts DEF Grown
<1>1. lexemes \in Seq(ToSet(lexemes)) /\ Len(lexemes) \in Nat
  BY LenProperties DEF TypeOK
<1>2. ASSUME lexemes' = lexemes
      PROVE  lexemes' \in Seq(ToSet(lexemes')) /\ LexemesCoded'
  <2>1. lexemes' \in Seq(ToSet(lexemes'))
    BY <1>1, <1>2
  <2>2. ASSUME ~ strayed', NEW k \in 1 .. Len(lexemes'), lexemes'[k].code # 0
        PROVE  LET l == lexemes'[k]
               IN /\ l.code \in 1 .. Len(words') /\ l.from \in Nat \ {0}
                  /\ l.to \in 0 .. Len(text')
                  /\ spelled'[l.code] = SubSeq(text', l.from, l.to)
    <3>0. PICK l : l = lexemes[k]
      OBVIOUS
    <3>1. /\ l.code \in 1 .. Len(words) /\ l.from \in Nat \ {0}
          /\ l.to \in 0 .. Len(text)
          /\ spelled[l.code] = SubSeq(text, l.from, l.to)
      BY <3>0, <1>2, <2>2 DEF LexemesCoded, Part
    <3>2. /\ SubSeq(text', l.from, l.to) = SubSeq(text, l.from, l.to)
          /\ l.to \in 0 .. Len(text')
      BY <3>1, GrownPart
    <3>3. l.code \in 1 .. Len(words')
      BY <3>1
    <3> QED BY <3>0, <3>1, <3>2, <3>3, <1>2
  <2>3. LexemesCoded'
    BY <2>2 DEF LexemesCoded, Part
  <2> QED BY <2>1, <2>3
<1>3. ASSUME NEW t, lexemes' = LexemesOf(t, 0)
      PROVE  lexemes' \in Seq(ToSet(lexemes')) /\ LexemesCoded'
  <2>1. CASE strayed
    <3>1. lexemes' = <<>> /\ strayed'
      BY <1>3, <2>1 DEF LexemesOf
    <3>2. <<>> \in Seq(ToSet(<<>>))
      BY EmptySeq
    <3> QED BY <3>1, <3>2 DEF LexemesCoded
  <2>2. CASE ~ strayed /\ lexemes # <<>> /\ Last(lexemes).token = EOF
    BY <1>2, <1>3, <2>2 DEF LexemesOf
  <2>3. CASE ~ strayed /\ ~ (lexemes # <<>> /\ Last(lexemes).token = EOF)
    <3>1. PICK x : /\ x = [token |-> t, code |-> 0, from |-> from,
                           to |-> IF cur' = EOF THEN Len(text') ELSE idx' - 1]
                   /\ lexemes' = Append(lexemes, x)
      BY <1>3, <2>3 DEF LexemesOf
    <3>2. x.code = 0
      BY <3>1
    <3>3. /\ Len(lexemes') = Len(lexemes) + 1
          /\ \A k \in 1 .. Len(lexemes) : lexemes'[k] = lexemes[k]
          /\ lexemes'[Len(lexemes) + 1] = x
          /\ lexemes' \in Seq(ToSet(lexemes'))
      BY <1>1, <3>1, Appended
    <3>4. ASSUME ~ strayed', NEW k \in 1 .. Len(lexemes'), lexemes'[k].code # 0
          PROVE  LET l == lexemes'[k]
                 IN /\ l.code \in 1 .. Len(words') /\ l.from \in Nat \ {0}
                    /\ l.to \in 0 .. Len(text')
                    /\ spelled'[l.code] = SubSeq(text', l.from, l.to)
      <4>1. k \in 1 .. Len(lexemes)
        BY <1>1, <3>2, <3>3, <3>4
      <4>2. PICK l : l = lexemes[k] /\ l = lexemes'[k]
        BY <3>3, <4>1
      <4>3. /\ l.code \in 1 .. Len(words) /\ l.from \in Nat \ {0}
            /\ l.to \in 0 .. Len(text)
            /\ spelled[l.code] = SubSeq(text, l.from, l.to)
        BY <4>1, <4>2, <3>4, <2>3 DEF LexemesCoded, Part
      <4>4. /\ SubSeq(text', l.from, l.to) = SubSeq(text, l.from, l.to)
            /\ l.to \in 0 .. Len(text')
        BY <4>3, GrownPart
      <4>5. l.code \in 1 .. Len(words')
        BY <4>3
      <4> QED BY <4>2, <4>3, <4>4, <4>5
    <3>5. LexemesCoded'
      BY <3>4 DEF LexemesCoded, Part
    <3> QED BY <3>3, <3>5
  <2> QED BY <2>1, <2>2, <2>3
<1> QED BY <1>2, <1>3 DEF LexemesKept

\* The table stays.
LEMMA TableStays ==
  ASSUME TypeOK, WordsNumbered, ChainsExact, file = 1,
         UNCHANGED <<file, table, loaded>>, mode # "init", mode' # "init"
  PROVE  WordsNumbered' /\ ChainsExact' /\ \A h : OnChain(h)' = OnChain(h)
<1>1. /\ file' = file /\ words' = words /\ spelled' = spelled /\ head' = head
      /\ next' = next /\ loaded' = loaded
  BY DEF table
<1>2. \A h : OnChain(h)' = OnChain(h)
  BY <1>1 DEF OnChain
<1>3. \A n : Behind(n)' = Behind(n)
  BY <1>1, <1>2 DEF Behind
<1>4. ChainsExact'
  BY <1>1, <1>2, <1>3 DEF ChainsExact
<1>5. WordsNumbered'
  BY <1>1 DEF WordsNumbered
<1> QED BY <1>2, <1>4, <1>5

\* What is kept of the token that is being read
LEMMA WordTyped ==
  ASSUME TypeOK, tkstr' \in {tkstr, <<>>, <<cur>>, Append(tkstr, cur)}
  PROVE  tkstr' \in Seq(Characters \cup {EOF})
<1> DEFINE T == Characters \cup {EOF}
<1>1. tkstr \in Seq(T) /\ cur \in T
  BY DEF TypeOK
<1> HIDE DEF T
<1>2. <<>> \in Seq(T)
  BY EmptySeq
<1>3. <<cur>> \in Seq(T)
  <2>1. PICK c : c = cur
    OBVIOUS
  <2>2. c \in T
    BY <1>1, <2>1
  <2> QED BY <2>1, <2>2
<1>4. Append(tkstr, cur) \in Seq(T)
  BY <1>1, AppendProperties
<1>5. tkstr' \in Seq(T)
  BY <1>1, <1>2, <1>3, <1>4
<1> QED BY <1>5 DEF T

\* A quiet step keeps the invariant.
LEMMA QuietGood ==
  ASSUME LexerAssumption, file = 1, FirstFile, Quiet, Grown, CharRead'
  PROVE  FirstFile'
<1>1. /\ TypeOK /\ WordsNumbered /\ ChainsExact /\ LexemesCoded
      /\ mode # "init" /\ mode' \notin {"init", "identifier", "find"}
  BY DEF FirstFile, Quiet
<1>2. /\ file' = file /\ source' = source /\ words' = words /\ spelled' = spelled
      /\ head' = head /\ next' = next /\ loaded' = loaded /\ probe' = probe
  BY DEF Quiet, table
<1>3. WordsNumbered' /\ ChainsExact'
  BY <1>1, <1>2, TableStays DEF table
<1>4. Len(words) \in Nat
  BY <1>1, TableFacts
<1>5. lexemes' \in Seq(ToSet(lexemes')) /\ LexemesCoded'
  <2>1. /\ Len(words') \in Nat /\ Len(words) <= Len(words')
        /\ \A n \in 1 .. Len(words) : spelled'[n] = spelled[n]
    BY <1>2, <1>4
  <2>2. LexemesKept /\ strayed' \in {strayed, TRUE}
    BY DEF Quiet
  <2> QED BY <1>1, <1>4, <2>1, <2>2, LexemesStay
<1>6. tkstr' \in Seq(Characters \cup {EOF})
  BY <1>1, WordTyped DEF Quiet
<1>7. strayed' \in BOOLEAN /\ from' \in Nat
  BY <1>1 DEF Quiet, TypeOK
<1>8. /\ text' \in Seq(Characters) /\ Len(text') <= source.length
      /\ idx' \in 0 .. Len(text') /\ cur' \in Characters \cup {EOF}
  BY DEF Grown
<1>9. /\ source \in Sources /\ file \in Nat \ {0} /\ loaded \in 0 .. Len(Keywords)
      /\ words \in Seq(Nat) /\ spelled \in Seq(Seq(Characters))
      /\ head \in [Hashes -> Nat] /\ next \in [DOMAIN spelled -> Nat] /\ probe \in Nat
  BY <1>1 DEF TypeOK
<1>10. TypeOK'
  BY <1>2, <1>5, <1>6, <1>7, <1>8, <1>9 DEF TypeOK
<1>11. WordRead' /\ FindComplete'
  BY <1>1 DEF WordRead, FindComplete
<1> QED BY <1>3, <1>5, <1>10, <1>11 DEF FirstFile

\* The parts of the invariant
LEMMA Parts ==
  ASSUME FirstFile
  PROVE  /\ TypeOK /\ CharRead /\ WordRead /\ WordsNumbered
         /\ ChainsExact /\ FindComplete /\ LexemesCoded
         /\ from \in Nat /\ strayed \in {strayed, TRUE} /\ tkstr \in {tkstr}
BY DEF FirstFile, TypeOK

\* The calls that return a token
LEMMA FoundQuiet ==
  ASSUME FirstFile, NEW t, Found(t) \/ Stale, mode # "init"
  PROVE  Quiet /\ mode' = "idle"
<1>1. from' \in Nat
  BY Parts DEF Found, Stale, Scan
<1>2. UNCHANGED <<source, file, table, loaded, probe>>
  BY DEF Found, Stale, Scan, Stay
<1>3. LexemesKept /\ tkstr' = <<>> /\ strayed' \in {strayed, TRUE} /\ mode' = "idle"
  BY DEF LexemesKept, Found, Stale, Goto
<1> QED BY <1>1, <1>2, <1>3 DEF Quiet

\* The calls that go on with white space
LEMMA PreprocessQuiet ==
  ASSUME FirstFile, Preprocess, mode # "init", mode' \notin {"init", "identifier", "find"},
         strayed' \in {strayed, TRUE}
  PROVE  Quiet
<1>1. from' \in Nat /\ tkstr' = tkstr /\ lexemes' = lexemes
  BY Parts DEF Preprocess
<1>2. UNCHANGED <<source, file, table, loaded, probe>>
  BY DEF Preprocess, Stay
<1> QED BY <1>1, <1>2 DEF Quiet, LexemesKept

\* The calls that go on with the token
LEMMA WithinQuiet ==
  ASSUME FirstFile, Within, mode # "init", mode' \notin {"init", "identifier", "find"},
         tkstr' \in {tkstr, <<cur>>, Append(tkstr, cur)}
  PROVE  Quiet
<1>1. from' \in Nat /\ strayed' = strayed /\ lexemes' = lexemes
  BY Parts DEF Within, Scan
<1>2. UNCHANGED <<source, file, table, loaded, probe>>
  BY DEF Within, Scan, Stay
<1> QED BY <1>1, <1>2 DEF Quiet, LexemesKept

\* A quiet step with get_char, or one that only looks.
LEMMA ReadGood ==
  ASSUME LexerAssumption, file = 1, FirstFile, Quiet, mode' \notin {"slash", "token"},
         get_char \/ (UNCHANGED reading /\ (mode = "token" => cur = EOF))
  PROVE  FirstFile'
<1>1. mode # "init" /\ mode' \notin {"slash", "token", "identifier", "find"}
  BY DEF Quiet
<1>2. Grown /\ CharRead'
  BY <1>1, Parts, ReadOn, LookOn
<1> QED BY <1>2, QuietGood

-----------------------------------------------------------------------------
(* One lemma per action.                                                   *)

LEMMA GetTokenStep ==
  ASSUME LexerAssumption, file = 1, FirstFile, get_token PROVE FirstFile'
<1>1. /\ Preprocess /\ UNCHANGED reading /\ strayed' = strayed
      /\ mode = "idle" /\ mode' = "preprocess"
  BY DEF get_token, Look, Goto
<1>2. Quiet
  BY <1>1, PreprocessQuiet
<1> QED BY <1>1, <1>2, ReadGood

LEMMA SkipStep ==
  ASSUME LexerAssumption, file = 1, FirstFile, skip_white_space PROVE FirstFile'
<1>1. /\ Preprocess /\ strayed' = strayed
      /\ mode \in {"preprocess", "cr"} /\ mode' \in {"preprocess", "cr"}
      /\ get_char \/ UNCHANGED reading
  BY DEF skip_white_space, Read, Look, Goto
<1>2. Quiet
  BY <1>1, PreprocessQuiet
<1> QED BY <1>1, <1>2, ReadGood

LEMMA CommentStep ==
  ASSUME LexerAssumption, file = 1, FirstFile, parse_comment PROVE FirstFile'
<1>1. Preprocess /\ strayed' = strayed
  BY DEF parse_comment
<1>2. /\ mode \in {"comment", "star"} /\ mode' \in {"preprocess", "comment", "star"}
      /\ get_char \/ UNCHANGED reading
  BY DEF parse_comment, Read, Look, Goto, AfterStar, AfterError
<1>3. Quiet
  BY <1>1, <1>2, PreprocessQuiet
<1> QED BY <1>2, <1>3, ReadGood

\* The slash: what follows it is read, and put back if it is no star.
LEMMA SlashStep ==
  ASSUME LexerAssumption, file = 1, FirstFile, Slash PROVE FirstFile'
<1>0. /\ Len(text) \in Nat /\ idx \in Nat /\ idx <= Len(text) /\ Len(text) <= source.length
      /\ text \in Seq(Characters) /\ EOF # "/" /\ EOF # "*"
      /\ \A i \in 1 .. Len(text) : text[i] \in Characters
  BY Parts, TextFacts DEF EOF
<1>1. CASE /\ mode = "preprocess" /\ cur = "/"
           /\ Read("slash")
           /\ Preprocess /\ UNCHANGED <<linenum, strayed>>
  <2>1. get_char /\ mode' = "slash" /\ strayed' = strayed
    BY <1>1 DEF Read, Goto
  <2>2. Quiet
    BY <1>1, <2>1, PreprocessQuiet
  <2>3. idx >= 1 /\ cur = text[idx]
    BY <1>0, <1>1, Parts DEF CharRead
  <2>4. /\ Grown
        /\ \/ cur' = EOF /\ idx' = idx /\ idx = Len(text) /\ text' = text
           \/ idx' = idx + 1 /\ cur' = text'[idx + 1] /\ cur' # EOF
    BY <2>1, Parts, GetChar
  <2>5. CharRead'
    BY <1>0, <1>1, <2>1, <2>3, <2>4 DEF CharRead
  <2> QED BY <2>2, <2>4, <2>5, QuietGood
<1>2. CASE /\ mode = "slash" /\ cur = "*"
           /\ Read("comment")
           /\ Preprocess /\ UNCHANGED <<linenum, strayed>>
  <2>1. get_char /\ mode' = "comment" /\ strayed' = strayed
    BY <1>2 DEF Read, Goto
  <2>2. Quiet
    BY <1>2, <2>1, PreprocessQuiet
  <2> QED BY <2>1, <2>2, ReadGood
<1>3. CASE /\ mode = "slash" /\ cur # "*"
           /\ unget_char /\ Goto("token")
           /\ from' = idx /\ strayed' = TRUE
           /\ Stay /\ UNCHANGED <<token, tkstr, lexemes, linenum>>
  <2>1. /\ mode' = "token" /\ idx' = idx - 1 /\ cur' = text[idx] /\ text' = text
        /\ tkstr' = tkstr /\ lexemes' = lexemes /\ from' \in Nat
    BY <1>0, <1>3 DEF unget_char, Goto
  <2>2. Quiet
    BY <1>3, <2>1 DEF Quiet, Stay, LexemesKept
  <2>3. idx >= 1 /\ (idx >= 2 \/ text[idx] = "/")
    BY <1>3, <1>0, Parts DEF CharRead
  <2>4. text[idx] \in Characters /\ idx - 1 \in 0 .. Len(text)
    BY <1>0, <2>3
  <2>5. Grown
    BY <1>0, <2>1, <2>4 DEF Grown
  <2>6. CharRead'
    <3>1. idx' < Len(text') /\ idx' + 1 = idx /\ (idx' >= 1 \/ cur' = "/")
      BY <1>0, <2>1, <2>3
    <3> QED BY <1>3, <2>1, <3>1 DEF CharRead
  <2> QED BY <2>2, <2>5, <2>6, QuietGood
<1> QED BY <1>1, <1>2, <1>3 DEF Slash

\* A token starts where the white space ends.
LEMMA EndPreprocessStep ==
  ASSUME LexerAssumption, file = 1, FirstFile, EndPreprocess PROVE FirstFile'
<1>0. /\ Len(text) \in Nat /\ idx \in Nat /\ idx <= Len(text) /\ Len(text) <= source.length
      /\ text \in Seq(Characters) /\ cur \in Characters \cup {EOF}
  BY Parts, TextFacts
<1>1. /\ mode = "preprocess" /\ mode' = "token" /\ from' = Here
      /\ text' = text /\ idx' = idx /\ cur' = cur
      /\ UNCHANGED <<source, file, table, loaded, probe>>
      /\ tkstr' = tkstr /\ lexemes' = lexemes /\ strayed' = strayed
  BY DEF EndPreprocess, Look, Goto, reading, Stay
<1>2. cur = EOF \/ (idx >= 1 /\ cur = text[idx])
  BY <1>1, Parts DEF CharRead
<1>3. Here \in Nat /\ Here >= 1 /\ Here' = Here
  BY <1>0, <1>1, <1>2 DEF Here
<1>4. Quiet
  BY <1>1, <1>3 DEF Quiet, LexemesKept
<1>5. Grown
  BY <1>0, <1>1 DEF Grown
<1>6. CharRead'
  BY <1>1, <1>2, <1>3 DEF CharRead
<1> QED BY <1>4, <1>5, <1>6, QuietGood

\* Tokens of one character, the end of the file, and what is no token
LEMMA SingleStep ==
  ASSUME LexerAssumption, file = 1, FirstFile, Single \/ EndOfFile \/ UnknownCharacter
  PROVE  FirstFile'
<1>1. /\ mode = "token"
      /\ get_char \/ (UNCHANGED reading /\ cur = EOF)
      /\ \E t : Found(t) \/ Stale
  BY DEF Single, EndOfFile, UnknownCharacter
<1>2. Quiet /\ mode' = "idle"
  BY <1>1, FoundQuiet
<1> QED BY <1>1, <1>2, ReadGood

LEMMA NumberStep ==
  ASSUME LexerAssumption, file = 1, FirstFile, parse_num PROVE FirstFile'
<1>1. CASE /\ mode = "number" /\ cur \in Digits
           /\ Read("number") /\ tkstr' = Append(tkstr, cur)
           /\ Within
  <2>1. get_char /\ mode' = "number"
    BY <1>1 DEF Read, Goto
  <2>2. Quiet
    BY <1>1, <2>1, WithinQuiet
  <2> QED BY <2>1, <2>2, ReadGood
<1>2. CASE mode = "number" /\ UNCHANGED reading /\ Found("CINT")
  <2>1. Quiet /\ mode' = "idle"
    BY <1>2, FoundQuiet
  <2> QED BY <1>2, <2>1, ReadGood
<1> QED BY <1>1, <1>2 DEF parse_num

LEMMA OperatorStep ==
  ASSUME LexerAssumption, file = 1, FirstFile, OneOrTwo PROVE FirstFile'
<1>1. /\ mode = "operator" /\ (get_char \/ UNCHANGED reading)
      /\ \E t : Found(t) \/ Stale
  BY DEF OneOrTwo
<1>2. Quiet /\ mode' = "idle"
  BY <1>1, FoundQuiet
<1> QED BY <1>1, <1>2, ReadGood

LEMMA DotsStep ==
  ASSUME LexerAssumption, file = 1, FirstFile, Dots PROVE FirstFile'
<1>1. CASE /\ mode = "dot" /\ cur = "."
           /\ Read("dots") /\ tkstr' = Append(tkstr, cur)
           /\ Within
  <2>1. get_char /\ mode' = "dots"
    BY <1>1 DEF Read, Goto
  <2>2. Quiet
    BY <1>1, <2>1, WithinQuiet
  <2> QED BY <2>1, <2>2, ReadGood
<1>2. CASE mode \in {"dot", "dots"} /\ UNCHANGED reading /\ (Found(".") \/ Stale)
  <2>1. mode # "init"
    BY <1>2
  <2>2. Quiet /\ mode' = "idle"
    BY <1>2, <2>1, FoundQuiet
  <2> QED BY <1>2, <2>2, ReadGood
<1>3. CASE /\ mode = "dots" /\ UNCHANGED reading
           /\ strayed' = TRUE /\ token' = "..." /\ tkstr' = <<>> /\ Goto("idle")
           /\ lexemes' = LexemesOf("...", 0) /\ Scan
  <2>1. mode' = "idle" /\ from' \in Nat
    BY <1>3, Parts DEF Goto, Scan
  <2>2. UNCHANGED <<source, file, table, loaded, probe>>
    BY <1>3 DEF Scan, Stay
  <2>3. Quiet
    BY <1>3, <2>1, <2>2 DEF Quiet, LexemesKept
  <2> QED BY <1>3, <2>1, <2>3, ReadGood
<1> QED BY <1>1, <1>2, <1>3 DEF Dots

LEMMA StringStep ==
  ASSUME LexerAssumption, file = 1, FirstFile, parse_string PROVE FirstFile'
<1>1. CASE mode = "string" /\ get_char /\ Found("CSTR")
  <2>1. Quiet /\ mode' = "idle"
    BY <1>1, FoundQuiet
  <2> QED BY <1>1, <2>1, ReadGood
<1>2. CASE /\ mode = "string" /\ (Read("escape") \/ Read("string"))
           /\ tkstr' \in {tkstr, Append(tkstr, cur)} /\ Within
  <2>1. get_char /\ mode' \in {"escape", "string"}
    BY <1>2 DEF Read, Goto
  <2>2. Quiet
    BY <1>2, <2>1, WithinQuiet
  <2> QED BY <2>1, <2>2, ReadGood
<1>3. CASE /\ mode = "escape"
           /\ Look("string") /\ tkstr' = Append(tkstr, cur) /\ strayed' = TRUE
           /\ Scan /\ UNCHANGED <<token, lexemes>>
  <2>1. mode' = "string" /\ from' \in Nat /\ UNCHANGED reading /\ lexemes' = lexemes
    BY <1>3, Parts DEF Goto, Scan, Look
  <2>2. UNCHANGED <<source, file, table, loaded, probe>>
    BY <1>3 DEF Scan, Stay
  <2>3. Quiet
    BY <1>3, <2>1, <2>2 DEF Quiet, LexemesKept
  <2> QED BY <1>3, <2>1, <2>3, ReadGood
<1> QED BY <1>1, <1>2, <1>3 DEF parse_string

-----------------------------------------------------------------------------
(* The steps that read a word and look it up.                              *)

\* A part of one character
LEMMA OnePart ==
  ASSUME NEW S, NEW s \in Seq(S), NEW i \in 1 .. Len(s)
  PROVE  SubSeq(s, i, i) = <<s[i]>>
<1>1. Len(s) \in Nat /\ i \in Int /\ \A k \in i .. i : s[k] \in S
  BY LenProperties, ElementOfSeq
<1>2. /\ SubSeq(s, i, i) \in Seq(S) /\ Len(SubSeq(s, i, i)) = IF i <= i THEN i - i + 1 ELSE 0
      /\ \A k \in 1 .. i - i + 1 : SubSeq(s, i, i)[k] = s[i + k - 1]
  BY <1>1, SubSeqProperties
<1>3. PICK x \in S : x = s[i]
  BY <1>1
<1>4. <<x>> \in Seq(S) /\ Len(<<x>>) = 1 /\ <<x>>[1] = x
  OBVIOUS
<1>5. Len(SubSeq(s, i, i)) = 1 /\ SubSeq(s, i, i)[1] = x
  BY <1>1, <1>2, <1>3
<1>6. SubSeq(s, i, i) = <<x>>
  <2>1. PICK p \in Seq(S), q \in Seq(S) : p = SubSeq(s, i, i) /\ q = <<x>>
    BY <1>2, <1>4
  <2>2. Len(p) = Len(q) /\ \A k \in 1 .. Len(p) : p[k] = q[k]
    BY <2>1, <1>4, <1>5
  <2>3. p = q
    BY <2>2, SeqEqual
  <2> QED BY <2>1, <2>3
<1> QED BY <1>3, <1>6

\* Steps that go on with a word
Reading ==
  /\ UNCHANGED <<source, file, table, loaded>>
  /\ mode # "init" /\ mode' \in {"identifier", "find"}
  /\ tkstr' \in {tkstr, <<>>, <<cur>>, Append(tkstr, cur)} /\ probe' \in Nat
  /\ from' = from /\ strayed' = strayed /\ lexemes' = lexemes

LEMMA ReadingGood ==
  ASSUME LexerAssumption, file = 1, FirstFile, Reading, Grown,
         CharRead', WordRead', FindComplete'
  PROVE  FirstFile'
<1>1. /\ TypeOK /\ WordsNumbered /\ ChainsExact /\ LexemesCoded
      /\ mode # "init" /\ mode' \in {"identifier", "find"}
  BY DEF FirstFile, Reading
<1>2. /\ file' = file /\ source' = source /\ words' = words /\ spelled' = spelled
      /\ head' = head /\ next' = next /\ loaded' = loaded
  BY DEF Reading, table
<1>3. WordsNumbered' /\ ChainsExact'
  BY <1>1, <1>2, TableStays DEF table
<1>4. Len(words) \in Nat
  BY <1>1, TableFacts
<1>5. lexemes' \in Seq(ToSet(lexemes')) /\ LexemesCoded'
  <2>1. /\ Len(words') \in Nat /\ Len(words) <= Len(words')
        /\ \A n \in 1 .. Len(words) : spelled'[n] = spelled[n]
    BY <1>2, <1>4
  <2>2. LexemesKept /\ strayed' \in {strayed, TRUE}
    BY DEF Reading, LexemesKept
  <2> QED BY <1>1, <1>4, <2>1, <2>2, LexemesStay
<1>6. tkstr' \in Seq(Characters \cup {EOF})
  BY <1>1, WordTyped DEF Reading
<1>7. strayed' \in BOOLEAN /\ from' \in Nat /\ probe' \in Nat
  BY <1>1 DEF Reading, TypeOK
<1>8. /\ text' \in Seq(Characters) /\ Len(text') <= source.length
      /\ idx' \in 0 .. Len(text') /\ cur' \in Characters \cup {EOF}
  BY DEF Grown
<1>9. /\ source \in Sources /\ file \in Nat \ {0} /\ loaded \in 0 .. Len(Keywords)
      /\ words \in Seq(Nat) /\ spelled \in Seq(Seq(Characters))
      /\ head \in [Hashes -> Nat] /\ next \in [DOMAIN spelled -> Nat]
  BY <1>1 DEF TypeOK
<1>10. TypeOK'
  BY <1>2, <1>5, <1>6, <1>7, <1>8, <1>9 DEF TypeOK
<1> QED BY <1>3, <1>5, <1>10 DEF FirstFile

\* The switch starts a word with a letter only.
LEMMA FirstModes ==
  ASSUME NEW c \in Characters
  PROVE  /\ FirstMode[c] \in {"identifier", "number", "operator", "dot", "string", "idle"}
         /\ FirstMode[c] = "identifier" => c \in Letters
BY DEF FirstMode

LEMMA StartStep ==
  ASSUME LexerAssumption, file = 1, FirstFile, Start PROVE FirstFile'
<1>0. /\ Len(text) \in Nat /\ idx \in Nat /\ idx <= Len(text) /\ Len(text) <= source.length
      /\ text \in Seq(Characters) /\ cur \in Characters \cup {EOF}
      /\ \A i \in 1 .. Len(text) : text[i] \in Characters
  BY Parts, TextFacts
<1>1. /\ mode = "token" /\ cur \in Characters /\ FirstMode[cur] # "idle"
      /\ get_char /\ mode' = FirstMode[cur] /\ tkstr' = <<cur>> /\ Within
  BY <1>0 DEF Start, Read, Goto
<1>2. CASE FirstMode[cur] # "identifier"
  <2>1. mode' \in {"number", "operator", "dot", "string"}
    BY <1>1, <1>2, FirstModes
  <2>2. Quiet
    BY <1>1, <2>1, WithinQuiet
  <2> QED BY <1>1, <2>1, <2>2, ReadGood
<1>3. CASE FirstMode[cur] = "identifier"
  <2>1. mode' = "identifier" /\ cur \in Letters /\ cur # "/" /\ cur # EOF
    BY <1>1, <1>3, FirstModes DEF Letters, EOF
  <2>2. idx >= 1 /\ (strayed \/ (cur = text[idx] /\ from = idx))
    BY <1>0, <1>1, <2>1, Parts DEF CharRead, Here
  <2>3. /\ Grown
        /\ \/ cur' = EOF /\ idx' = idx /\ idx = Len(text) /\ text' = text
           \/ idx' = idx + 1 /\ cur' = text'[idx + 1] /\ cur' # EOF
    BY <1>1, Parts, GetChar
  <2>4. /\ UNCHANGED <<source, file, table, loaded>>
        /\ from' = from /\ strayed' = strayed /\ lexemes' = lexemes /\ probe' = probe
    BY <1>1 DEF Within, Scan, Stay
  <2>5. Reading
    BY <1>1, <2>1, <2>4, Parts DEF Reading, TypeOK
  <2>6. text' \in Seq(Characters) /\ idx \in 1 .. Len(text') /\ text'[idx] = text[idx]
    BY <1>0, <2>2, <2>3, LenProperties DEF Grown
  <2>7. CharRead'
    BY <1>0, <2>1, <2>2, <2>3, <2>4 DEF CharRead, Here
  <2>8. WordRead'
    <3>1. PICK c : c = cur
      OBVIOUS
    <3>2. c \in Letters \cup Digits
      BY <2>1, <3>1
    <3>3. <<c>> \in Seq(Letters \cup Digits) /\ Len(<<c>>) = 1
      BY <3>2
    <3>4. tkstr' \in Seq(Letters \cup Digits) /\ Len(tkstr') = 1
      BY <1>1, <3>1, <3>3
    <3>5. 1 <= IF cur' = EOF THEN idx' ELSE idx' - 1
      BY <1>0, <2>2, <2>3
    <3>6. ASSUME ~ strayed'
          PROVE  tkstr' = SubSeq(text', from', IF cur' = EOF THEN Len(text') ELSE idx' - 1)
      <4>1. cur = text[idx] /\ from' = idx
        BY <3>6, <2>2, <2>4
      <4>2. (IF cur' = EOF THEN Len(text') ELSE idx' - 1) = idx
        BY <1>0, <2>3
      <4>3. SubSeq(text', idx, idx) = <<text'[idx]>>
        BY <2>6, OnePart
      <4> QED BY <4>1, <4>2, <4>3, <2>6, <1>1
    <3> QED BY <3>4, <3>5, <3>6 DEF WordRead, Part
  <2>9. FindComplete'
    BY <2>1 DEF FindComplete
  <2> QED BY <2>3, <2>5, <2>7, <2>8, <2>9, ReadingGood
<1> QED BY <1>2, <1>3

\* parse_identifier takes the character that get_char has read.
LEMMA IdentifierStep ==
  ASSUME LexerAssumption, file = 1, FirstFile, parse_identifier PROVE FirstFile'
<1>0. /\ Len(text) \in Nat /\ idx \in Nat /\ idx <= Len(text) /\ Len(text) <= source.length
      /\ text \in Seq(Characters) /\ from \in Nat
  BY Parts, TextFacts
<1>1. /\ mode = "identifier" /\ cur \in Letters \cup Digits /\ cur # EOF
      /\ get_char /\ mode' = "identifier" /\ tkstr' = Append(tkstr, cur) /\ Within
  BY DEF parse_identifier, Read, Goto, Letters, Digits, EOF
<1>2. idx >= 1 /\ cur = text[idx] /\ (~ strayed => from >= 1 /\ from <= idx)
  BY <1>0, <1>1, Parts DEF CharRead, Here
<1>3. /\ tkstr \in Seq(Letters \cup Digits) /\ Len(tkstr) <= idx - 1
      /\ ~ strayed => tkstr = SubSeq(text, from, idx - 1)
  BY <1>1, Parts DEF WordRead, Part
<1>4. /\ Grown
      /\ \/ cur' = EOF /\ idx' = idx /\ idx = Len(text) /\ text' = text
         \/ idx' = idx + 1 /\ cur' = text'[idx + 1] /\ cur' # EOF
  BY <1>1, Parts, GetChar
<1>5. /\ UNCHANGED <<source, file, table, loaded>>
      /\ from' = from /\ strayed' = strayed /\ lexemes' = lexemes /\ probe' = probe
  BY <1>1 DEF Within, Scan, Stay
<1>6. Reading
  BY <1>1, <1>5, Parts DEF Reading, TypeOK
<1>7. CharRead'
  BY <1>0, <1>1, <1>2, <1>4, <1>5 DEF CharRead, Here
<1>8. WordRead'
  <2>1. tkstr' \in Seq(Letters \cup Digits) /\ Len(tkstr') = Len(tkstr) + 1
    BY <1>1, <1>3, AppendProperties
  <2>2. Len(tkstr) \in Nat
    BY <1>3, LenProperties
  <2>3. Len(tkstr') <= IF cur' = EOF THEN idx' ELSE idx' - 1
    BY <1>0, <1>3, <1>4, <2>1, <2>2
  <2>4. ASSUME ~ strayed'
        PROVE  tkstr' = SubSeq(text', from', IF cur' = EOF THEN Len(text') ELSE idx' - 1)
    <3>1. from \in Nat \ {0} /\ idx \in 1 .. Len(text) /\ from <= idx /\ from' = from
      BY <2>4, <1>0, <1>2, <1>5
    <3>2. (IF cur' = EOF THEN Len(text') ELSE idx' - 1) = idx
      BY <1>0, <1>4
    <3>3. SubSeq(text', from, idx) = SubSeq(text, from, idx)
      <4>1. TypeOK /\ Grown /\ idx \in 0 .. Len(text) /\ from \in Nat \ {0}
        BY <3>1, <1>0, <1>4, Parts
      <4> QED BY <4>1, GrownPart
    <3>4. SubSeq(text, from, idx) = Append(SubSeq(text, from, idx - 1), text[idx])
      BY <3>1, <1>0, LongerPart
    <3>5. tkstr = SubSeq(text, from, idx - 1)
      BY <2>4, <1>3, <1>5
    <3> QED BY <3>1, <3>2, <3>3, <3>4, <3>5, <1>1, <1>2
  <2> QED BY <2>1, <2>3, <2>4 DEF WordRead, Part
<1>9. FindComplete'
  BY <1>1 DEF FindComplete
<1> QED BY <1>4, <1>6, <1>7, <1>8, <1>9, ReadingGood

\* There is a chain for the word that was read.
LEMMA HashKnown ==
  ASSUME LexerAssumption, FirstFile, mode \in {"identifier", "find"}
  PROVE  elf_hash(tkstr) \in Hashes
<1>0. /\ Len(text) \in Nat /\ idx \in Nat /\ idx <= Len(text)
      /\ source.length \in Nat /\ Len(text) <= source.length
  BY Parts, TextFacts
<1>1. tkstr \in Seq(Letters \cup Digits) /\ Len(tkstr) <= idx
  BY <1>0, Parts DEF WordRead
<1>2. Len(tkstr) \in Nat /\ tkstr \in [1 .. Len(tkstr) -> Letters \cup Digits]
  BY <1>1, LenProperties
<1>3. source \in Sources /\ Len(tkstr) \in 0 .. source.length
  BY <1>0, <1>1, <1>2, Parts DEF TypeOK
<1>4. Len(tkstr) \in Lengths
  BY <1>3 DEF Lengths
<1> QED BY <1>2, <1>4 DEF Hashes

\* Steps that do not read
LEMMA SameText ==
  ASSUME TypeOK, LexerAssumption, UNCHANGED reading
  PROVE  Grown /\ text' = text /\ idx' = idx /\ cur' = cur
<1>1. text' = text /\ idx' = idx /\ cur' = cur
  BY DEF reading
<1>2. /\ text \in Seq(Characters) /\ Len(text) \in Nat /\ Len(text) <= source.length
      /\ idx \in 0 .. Len(text) /\ cur \in Characters \cup {EOF}
  BY TextFacts DEF TypeOK
<1> QED BY <1>1, <1>2 DEF Grown

\* The highest node is where the search starts or goes on.
LEMMA HighestFirst ==
  ASSUME NEW S \in SUBSET Nat, NEW n \in Nat, HighestOf(n, S)
  PROVE  (n # 0 => n \in S) /\ \A m \in S : ~ m > n
BY DEF HighestOf

\* The search starts at the latest node of the chain.
LEMMA StartFindStep ==
  ASSUME LexerAssumption, file = 1, FirstFile, StartFind PROVE FirstFile'
<1>1. /\ mode = "identifier" /\ mode' = "find" /\ UNCHANGED reading
      /\ probe' = head[elf_hash(tkstr)]
      /\ UNCHANGED <<source, file, table, loaded>>
      /\ tkstr' = tkstr /\ from' = from /\ strayed' = strayed /\ lexemes' = lexemes
  BY DEF StartFind, Look, Goto, Searching
<1>2. Grown /\ text' = text /\ idx' = idx /\ cur' = cur
  BY <1>1, Parts, SameText
<1>3. elf_hash(tkstr) \in Hashes
  BY <1>1, HashKnown
<1>4. probe' \in Nat /\ HighestOf(probe', OnChain(elf_hash(tkstr)))
  BY <1>1, <1>3, Parts DEF TypeOK, ChainsExact
<1>5. Reading
  BY <1>1, <1>4 DEF Reading
<1>6. CharRead'
  BY <1>1, <1>2, Parts DEF CharRead, Here
<1>7. WordRead'
  BY <1>1, <1>2, Parts DEF WordRead, Part
<1>8. FindComplete'
  <2>1. \A h : OnChain(h)' = OnChain(h)
    BY <1>1 DEF OnChain, table
  <2>2. OnChain(elf_hash(tkstr)) \in SUBSET Nat
    BY Parts, TableFacts
  <2>3. /\ probe' # 0 => probe' \in OnChain(elf_hash(tkstr))
        /\ \A m \in OnChain(elf_hash(tkstr)) : ~ m > probe'
    BY <1>4, <2>2, HighestFirst
  <2> QED BY <1>1, <2>1, <2>3 DEF FindComplete
<1> QED BY <1>2, <1>5, <1>6, <1>7, <1>8, ReadingGood

\* A word is added to the tokens under its code.
LEMMA WordLexed ==
  ASSUME LexerAssumption, FirstFile, mode = "find", UNCHANGED reading, strayed' = strayed,
         NEW code, lexemes' = LexemesOf("WORD", code),
         Len(words') \in Nat, Len(words) \in Nat, Len(words) <= Len(words'),
         \A n \in 1 .. Len(words) : spelled'[n] = spelled[n],
         code \in 1 .. Len(words'), spelled'[code] = tkstr
  PROVE  lexemes' \in Seq(ToSet(lexemes')) /\ LexemesCoded'
<1>0. /\ Len(text) \in Nat /\ idx \in Nat /\ idx <= Len(text)
      /\ Grown /\ text' = text /\ idx' = idx /\ cur' = cur
      /\ TypeOK /\ LexemesCoded
      /\ lexemes \in Seq(ToSet(lexemes)) /\ Len(lexemes) \in Nat
  BY Parts, TextFacts, SameText, LenProperties DEF TypeOK
<1>1. CASE strayed \/ (lexemes # <<>> /\ Last(lexemes).token = EOF)
  <2>1. LexemesOf("WORD", code) = LexemesOf("WORD", 0)
    BY <1>1 DEF LexemesOf
  <2>2. LexemesKept /\ strayed' \in {strayed, TRUE}
    BY <2>1 DEF LexemesKept
  <2> QED BY <1>0, <2>2, LexemesStay
<1>2. CASE ~ (strayed \/ (lexemes # <<>> /\ Last(lexemes).token = EOF))
  <2>1. PICK x : /\ x = [token |-> "WORD", code |-> code, from |-> from,
                         to |-> IF cur' = EOF THEN Len(text') ELSE idx' - 1]
                 /\ lexemes' = Append(lexemes, x)
    BY <1>2 DEF LexemesOf
  <2>2. /\ Len(lexemes') = Len(lexemes) + 1
        /\ \A k \in 1 .. Len(lexemes) : lexemes'[k] = lexemes[k]
        /\ lexemes'[Len(lexemes) + 1] = x
        /\ lexemes' \in Seq(ToSet(lexemes'))
    <3>1. lexemes \in Seq(ToSet(lexemes))
      BY <1>0
    <3>2. PICK y : y = lexemes'
      OBVIOUS
    <3>3. y = Append(lexemes, x)
      BY <2>1, <3>2
    <3>4. /\ Len(y) = Len(lexemes) + 1
          /\ \A k \in 1 .. Len(lexemes) : y[k] = lexemes[k]
          /\ y[Len(lexemes) + 1] = x
          /\ y \in Seq(ToSet(y))
      BY <3>1, <3>3, Appended
    <3> QED BY <3>2, <3>4
  <2>3. PICK j : j = IF cur = EOF THEN Len(text) ELSE idx - 1
    OBVIOUS
  <2>4. x.code = code /\ x.from = from /\ x.to = j
    BY <1>0, <2>1, <2>3
  <2>5. cur = EOF \/ idx >= 1
    BY Parts DEF CharRead
  <2>6. from \in Nat \ {0} /\ j \in 0 .. Len(text) /\ tkstr = SubSeq(text, from, j)
    BY <1>0, <1>2, <2>3, <2>5, Parts DEF CharRead, WordRead, Part
  <2>7. ASSUME NEW k \in 1 .. Len(lexemes'), lexemes'[k].code # 0
        PROVE  LET l == lexemes'[k]
               IN /\ l.code \in 1 .. Len(words') /\ l.from \in Nat \ {0}
                  /\ l.to \in 0 .. Len(text')
                  /\ spelled'[l.code] = SubSeq(text', l.from, l.to)
    <3>1. CASE k = Len(lexemes) + 1
      BY <3>1, <1>0, <2>2, <2>4, <2>6
    <3>2. CASE k # Len(lexemes) + 1
      <4>1. k \in 1 .. Len(lexemes)
        BY <1>0, <2>2, <3>2
      <4>2. PICK l : l = lexemes[k] /\ l = lexemes'[k]
        BY <2>2, <4>1
      <4>3. /\ l.code \in 1 .. Len(words) /\ l.from \in Nat \ {0}
            /\ l.to \in 0 .. Len(text)
            /\ spelled[l.code] = SubSeq(text, l.from, l.to)
        BY <4>1, <4>2, <2>7, <1>0, <1>2 DEF LexemesCoded, Part
      <4>4. l.code \in 1 .. Len(words')
        BY <4>3
      <4> QED BY <1>0, <4>2, <4>3, <4>4
    <3> QED BY <3>1, <3>2
  <2>8. LexemesCoded'
    BY <2>7 DEF LexemesCoded, Part
  <2> QED BY <2>2, <2>8
<1> QED BY <1>1, <1>2

LEMMA KeywordsFirst ==
  ASSUME LexerAssumption
  PROVE  /\ Len(Keywords) \in Nat /\ DOMAIN Keywords = 1 .. Len(Keywords)
         /\ Keywords \in Seq(Seq(Characters))
         /\ \A a, b \in 1 .. Len(Keywords) : Keywords[a] = Keywords[b] => a = b
<1>1. Keywords \in Seq(Seq(Letters)) /\ Letters \subseteq Characters
  BY DEF LexerAssumption, Characters
<1>2. Seq(Letters) \subseteq Seq(Characters)
  BY <1>1, SeqMonotonic
<1>3. Keywords \in Seq(Seq(Characters))
  BY <1>1, <1>2, SeqMonotonic
<1>4. Len(Keywords) \in Nat /\ DOMAIN Keywords = 1 .. Len(Keywords)
  BY <1>3, LenProperties
<1> QED BY <1>3, <1>4 DEF LexerAssumption, IsInjective

\* The word is found, or the search goes on behind the node.
LEMMA FindStep ==
  ASSUME LexerAssumption, file = 1, FirstFile, find PROVE FirstFile'
<1>0. /\ Grown /\ text' = text /\ idx' = idx /\ cur' = cur
      /\ Len(words) \in Nat /\ DOMAIN words = 1 .. Len(words)
      /\ ToSet(words) = 1 .. Len(words)
      /\ \A h : OnChain(h) = {n \in 1 .. Len(words) : elf_hash(spelled[n]) = h}
  BY Parts, SameText, TableFacts DEF find
<1>1. /\ mode = "find" /\ probe # 0 /\ UNCHANGED reading
      /\ source' = source /\ file' = file /\ loaded' = loaded /\ UNCHANGED table
      /\ words' = words /\ spelled' = spelled /\ head' = head /\ next' = next
      /\ from' = from /\ strayed' = strayed
  BY DEF find, table
<1>2. probe \in 1 .. Len(words) /\ elf_hash(spelled[probe]) = elf_hash(tkstr)
  BY <1>0, <1>1, Parts DEF FindComplete
<1>3. CASE /\ spelled[probe] = tkstr
           /\ lexemes' = LexemesOf("WORD", CodeOf(probe))
           /\ tkstr' = <<>> /\ mode' = "idle" /\ probe' = probe
  <2>1. CodeOf(probe) = probe
    <3>1. \A k \in 1 .. Len(words) : words[k] = k
      BY Parts DEF WordsNumbered
    <3> QED BY <3>1, <1>0, <1>2 DEF CodeOf, Codes
  <2>2. lexemes' \in Seq(ToSet(lexemes')) /\ LexemesCoded'
    <3>1. PICK c : c = probe
      OBVIOUS
    <3>2. /\ lexemes' = LexemesOf("WORD", c) /\ Len(words') \in Nat /\ Len(words) \in Nat
          /\ Len(words) <= Len(words') /\ c \in 1 .. Len(words') /\ spelled'[c] = tkstr
          /\ \A n \in 1 .. Len(words) : spelled'[n] = spelled[n]
      BY <1>0, <1>1, <1>2, <1>3, <2>1, <3>1
    <3> QED BY <1>1, <3>2, WordLexed
  <2>3. WordsNumbered' /\ ChainsExact'
    BY <1>1, <1>3, Parts, TableStays
  <2>4. TypeOK'
    <3>1. tkstr' \in Seq(Characters \cup {EOF})
      BY <1>3, Parts, WordTyped
    <3>2. TypeOK
      BY Parts
    <3> QED BY <3>1, <3>2, <2>2, <1>0, <1>1, <1>3 DEF TypeOK
  <2>5. CharRead' /\ WordRead' /\ FindComplete'
    <3>1. cur = EOF \/ (idx >= 1 /\ cur = text[idx])
      BY <1>1, Parts DEF CharRead
    <3> QED BY <3>1, <1>0, <1>3 DEF CharRead, WordRead, FindComplete
  <2> QED BY <2>2, <2>3, <2>4, <2>5 DEF FirstFile
<1>4. CASE /\ spelled[probe] # tkstr /\ probe' = next[probe]
           /\ tkstr' = tkstr /\ lexemes' = lexemes /\ mode' = mode
  <2>1. probe' \in Nat
    <3>1. DOMAIN spelled = 1 .. Len(spelled) /\ Len(words) = Len(spelled)
      BY <1>1, Parts, TableFacts DEF WordsNumbered
    <3> QED BY <3>1, <1>2, <1>4, Parts DEF TypeOK
  <2>2. Reading
    BY <1>1, <1>4, <2>1 DEF Reading
  <2>3. CharRead' /\ WordRead'
    BY <1>0, <1>1, <1>4, Parts DEF CharRead, WordRead, Here, Part
  <2>4. FindComplete'
    <3>1. PICK h : h = elf_hash(tkstr)
      OBVIOUS
    <3>2. \A n \in OnChain(h) : n \in Nat /\ (n > probe => spelled[n] # tkstr)
      BY <1>0, <1>1, <3>1, Parts DEF FindComplete
    <3>3. Behind(probe) = {m \in OnChain(h) : m < probe}
      BY <1>2, <3>1 DEF Behind
    <3>4. HighestOf(probe', Behind(probe))
      BY <1>0, <1>2, <1>4, Parts DEF ChainsExact
    <3>5. Behind(probe) \in SUBSET Nat
      BY <3>2, <3>3
    <3>6. /\ probe' # 0 => probe' \in Behind(probe)
          /\ \A m \in Behind(probe) : ~ m > probe'
      BY <2>1, <3>4, <3>5, HighestFirst
    <3>7. \A n \in OnChain(elf_hash(tkstr)) : n > probe' => spelled[n] # tkstr
      BY <1>2, <1>4, <3>1, <3>2, <3>3, <3>6
    <3>8. probe' # 0 => probe' \in OnChain(elf_hash(tkstr))
      BY <3>1, <3>3, <3>6
    <3>9. \A b : OnChain(b)' = OnChain(b)
      BY <1>1 DEF OnChain
    <3>10. tkstr' = tkstr /\ spelled' = spelled
      BY <1>1, <1>4
    <3> QED BY <3>7, <3>8, <3>9, <3>10 DEF FindComplete
  <2> QED BY <1>0, <2>2, <2>3, <2>4, ReadingGood
<1> QED BY <1>3, <1>4 DEF find, Goto

\* The word was not found: it is a new node, and the latest of its chain.
LEMMA InsertStep ==
  ASSUME LexerAssumption, file = 1, FirstFile, insert PROVE FirstFile'
<1>0. /\ Grown /\ text' = text /\ idx' = idx /\ cur' = cur
      /\ Len(words) \in Nat /\ DOMAIN spelled = 1 .. Len(spelled)
      /\ \A h : OnChain(h) = {n \in 1 .. Len(words) : elf_hash(spelled[n]) = h}
  BY Parts, SameText, TableFacts DEF insert
<1>1. PICK n, w : n = Len(spelled) + 1 /\ w = tkstr
  OBVIOUS
<1>2. /\ mode = "find" /\ probe = 0 /\ UNCHANGED reading
      /\ spelled' = Append(spelled, w) /\ words' = Append(words, n)
      /\ next' = Append(next, head[elf_hash(w)])
      /\ head' = [head EXCEPT ![elf_hash(w)] = n]
      /\ tkstr' = <<>> /\ mode' = "idle"
      /\ lexemes' = LexemesOf("WORD", Len(words) + 1)
      /\ source' = source /\ file' = file /\ loaded' = loaded
      /\ from' = from /\ strayed' = strayed /\ probe' = probe
  BY <1>1 DEF insert, Linked, NewCode, Goto
<1>3. /\ Len(words) = Len(spelled) /\ n = Len(words) + 1 /\ n \in Nat
      /\ 1 .. n = 1 .. Len(words) \cup {n} /\ n \notin 1 .. Len(words)
  BY <1>0, <1>1, <1>2, Parts DEF WordsNumbered
<1>4. elf_hash(w) \in Hashes
  BY <1>1, <1>2, HashKnown
<1>5. /\ spelled' \in Seq(Seq(Characters)) /\ Len(spelled') = n /\ spelled'[n] = w
      /\ DOMAIN spelled' = 1 .. n
      /\ \A m \in 1 .. Len(words) : spelled'[m] = spelled[m]
  <2>1. spelled \in Seq(Seq(Characters))
    BY Parts DEF TypeOK
  <2>2. w \in Seq(Characters)
    <3>1. tkstr \in Seq(Letters \cup Digits)
      BY <1>2, Parts DEF WordRead
    <3>2. Letters \cup Digits \subseteq Characters
      BY DEF Characters
    <3> QED BY <3>1, <3>2, <1>1, SeqMonotonic
  <2>3. PICK z : z = spelled'
    OBVIOUS
  <2>4. z = Append(spelled, w)
    BY <1>2, <2>3
  <2>5. /\ z \in Seq(Seq(Characters)) /\ Len(z) = Len(spelled) + 1
        /\ z[Len(spelled) + 1] = w
        /\ \A m \in 1 .. Len(spelled) : z[m] = spelled[m]
    BY <2>1, <2>2, <2>4, AppendProperties
  <2>6. DOMAIN z = 1 .. Len(z)
    BY <2>5, LenProperties
  <2> QED BY <1>1, <1>3, <2>3, <2>5, <2>6
<1>6. /\ next' \in [1 .. n -> Nat] /\ next'[n] = head[elf_hash(w)]
      /\ \A m \in 1 .. Len(words) : next'[m] = next[m]
  <2>1. next \in [1 .. Len(words) -> Nat] /\ head[elf_hash(w)] \in Nat
    BY <1>0, <1>3, <1>4, Parts DEF TypeOK
  <2>2. next \in Seq(Nat) /\ Len(next) = Len(words)
    BY <1>0, <2>1, IsASeq, LenProperties
  <2>3. PICK z, x : z = next' /\ x = head[elf_hash(w)]
    OBVIOUS
  <2>4. z = Append(next, x) /\ x \in Nat
    BY <1>2, <2>1, <2>3
  <2>5. /\ z \in Seq(Nat) /\ Len(z) = Len(next) + 1 /\ z[Len(next) + 1] = x
        /\ \A m \in 1 .. Len(next) : z[m] = next[m]
    BY <2>2, <2>4, AppendProperties
  <2>6. z \in [1 .. Len(z) -> Nat]
    BY <2>5, LenProperties
  <2> QED BY <1>3, <2>2, <2>3, <2>5, <2>6
<1>7. NodeAdded(n, w)
  BY <1>2, <1>3, <1>5, <1>6 DEF NodeAdded
<1>8. /\ Len(words') = n /\ \A k \in 1 .. n : words'[k] = k
      /\ words' \in Seq(Nat) /\ head' \in [Hashes -> Nat]
      /\ ChainsExact'
  BY <1>4, <1>7, Parts, ChainsGrow
<1>9. lexemes' \in Seq(ToSet(lexemes')) /\ LexemesCoded'
  <2>1. /\ lexemes' = LexemesOf("WORD", n) /\ Len(words') \in Nat /\ Len(words) \in Nat
        /\ Len(words) <= Len(words') /\ n \in 1 .. Len(words') /\ spelled'[n] = tkstr
        /\ \A m \in 1 .. Len(words) : spelled'[m] = spelled[m]
    BY <1>0, <1>1, <1>2, <1>3, <1>5, <1>8
  <2> QED BY <1>2, <2>1, WordLexed
<1>10. \A m \in 1 .. Len(words) : spelled[m] # w
  <2>1. \A m \in OnChain(elf_hash(w)) : m > 0 => spelled[m] # w
    BY <1>1, <1>2, Parts DEF FindComplete
  <2> QED BY <2>1, <1>0
<1>11. WordsNumbered'
  <2>1. \A k \in 1 .. Len(words') : words'[k] = k
    BY <1>8
  <2>2. \A m \in 1 .. Len(Keywords) : spelled'[m] = Keywords[m]
    <3>1. Len(Keywords) <= Len(words) /\ \A m \in 1 .. Len(Keywords) : spelled[m] = Keywords[m]
      BY <1>3, Parts, KeywordsFirst DEF WordsNumbered
    <3>2. \A m \in 1 .. Len(Keywords) : m \in 1 .. Len(words)
      BY <3>1, <1>0, KeywordsFirst
    <3> QED BY <3>1, <3>2, <1>5
  <2>3. \A m \in 1 .. Len(spelled') : elf_hash(spelled'[m]) \in Hashes
    <3>1. \A m \in 1 .. Len(words) : elf_hash(spelled[m]) \in Hashes
      BY <1>3, Parts DEF WordsNumbered
    <3> QED BY <3>1, <1>3, <1>4, <1>5
  <2>4. IsInjective(spelled')
    <3>1. \A a, b \in 1 .. Len(words) : spelled[a] = spelled[b] => a = b
      BY <1>0, <1>3, Parts DEF WordsNumbered, IsInjective
    <3>2. ASSUME NEW a \in 1 .. n, NEW b \in 1 .. n, spelled'[a] = spelled'[b]
          PROVE  a = b
      <4>1. CASE a \in 1 .. Len(words) /\ b \in 1 .. Len(words)
        BY <4>1, <3>1, <3>2, <1>5
      <4>2. CASE a = n /\ b \in 1 .. Len(words)
        BY <4>2, <3>2, <1>5, <1>10
      <4>3. CASE a \in 1 .. Len(words) /\ b = n
        BY <4>3, <3>2, <1>5, <1>10
      <4>4. CASE a = n /\ b = n
        BY <4>4
      <4> QED BY <4>1, <4>2, <4>3, <4>4, <1>3
    <3> QED BY <3>2, <1>5 DEF IsInjective
  <2>5. mode' # "init" /\ Len(words') = Len(spelled') /\ Len(Keywords) <= Len(spelled')
    <3>1. Len(Keywords) <= Len(words)
      BY <1>2, <1>3, Parts DEF WordsNumbered
    <3> QED BY <3>1, <1>0, <1>2, <1>3, <1>5, <1>8, KeywordsFirst
  <2> QED BY <2>1, <2>2, <2>3, <2>4, <2>5 DEF WordsNumbered
<1>12. TypeOK'
  <2>1. tkstr' \in Seq(Characters \cup {EOF})
    BY <1>2, Parts, WordTyped
  <2>2. TypeOK
    BY Parts
  <2> QED BY <2>1, <2>2, <1>0, <1>2, <1>5, <1>6, <1>8, <1>9 DEF TypeOK
<1>13. CharRead' /\ WordRead' /\ FindComplete'
  <2>1. cur = EOF \/ (idx >= 1 /\ cur = text[idx])
    BY <1>2, Parts DEF CharRead
  <2> QED BY <2>1, <1>0, <1>2 DEF CharRead, WordRead, FindComplete
<1> QED BY <1>8, <1>9, <1>11, <1>12, <1>13 DEF FirstFile

\* A keyword is put in front of the chain of its word.
LEMMA DirectInsertStep ==
  ASSUME LexerAssumption, file = 1, FirstFile, direct_insert PROVE FirstFile'
<1>0. /\ Len(words) \in Nat /\ DOMAIN spelled = 1 .. Len(spelled)
      /\ Len(Keywords) \in Nat
  BY Parts, TableFacts, KeywordsFirst
<1>1. PICK n, w : n = loaded + 1 /\ w = Keywords[n]
  OBVIOUS
<1>2. /\ mode = "init" /\ loaded < Len(Keywords) /\ UNCHANGED reading
      /\ words' = Append(words, n) /\ next' = [next EXCEPT ![n] = head[elf_hash(w)]]
      /\ head' = [head EXCEPT ![elf_hash(w)] = n] /\ loaded' = n
      /\ source' = source /\ file' = file /\ mode' = mode /\ tkstr' = tkstr
      /\ from' = from /\ lexemes' = lexemes /\ strayed' = strayed
      /\ spelled' = spelled /\ probe' = probe
  BY <1>1 DEF direct_insert, Follower
<1>3. /\ Len(words) = loaded /\ Len(spelled) = Len(Keywords)
      /\ n = Len(words) + 1 /\ n \in 1 .. Len(spelled) /\ n \in 0 .. Len(Keywords)
      /\ \A m \in 1 .. Len(words) : m \in 1 .. Len(spelled) /\ m # n
  <2>1. Len(words) = loaded /\ Len(spelled) = Len(Keywords)
    BY <1>2, Parts DEF WordsNumbered
  <2> QED BY <2>1, <1>0, <1>1, <1>2
<1>4. spelled[n] = w /\ elf_hash(w) \in Hashes
  BY <1>1, <1>3, Parts DEF WordsNumbered
<1>5. head[elf_hash(w)] \in Nat
  BY <1>4, Parts DEF TypeOK
<1>6. /\ next' \in [DOMAIN spelled -> Nat] /\ next'[n] = head[elf_hash(w)]
      /\ \A m \in 1 .. Len(words) : next'[m] = next[m]
  <2>1. next \in [1 .. Len(spelled) -> Nat]
    BY <1>0, Parts DEF TypeOK
  <2>2. PICK x \in Nat : x = head[elf_hash(w)]
    BY <1>5
  <2>3. next' = [next EXCEPT ![n] = x]
    BY <1>2, <2>2
  <2> QED BY <1>0, <1>3, <2>1, <2>2, <2>3
<1>7. NodeAdded(n, w)
  BY <1>2, <1>3, <1>4, <1>6 DEF NodeAdded
<1>8. /\ Len(words') = n /\ \A k \in 1 .. n : words'[k] = k
      /\ words' \in Seq(Nat) /\ head' \in [Hashes -> Nat]
      /\ ChainsExact'
  BY <1>4, <1>7, Parts, ChainsGrow
<1>9. Grown /\ text' = text /\ idx' = idx /\ cur' = cur
  BY <1>2, Parts, SameText
<1>10. lexemes' \in Seq(ToSet(lexemes')) /\ LexemesCoded'
  <2>1. /\ Len(words') \in Nat /\ Len(words) <= Len(words')
        /\ \A m \in 1 .. Len(words) : spelled'[m] = spelled[m]
    BY <1>0, <1>2, <1>3, <1>8
  <2>2. LexemesKept /\ strayed' \in {strayed, TRUE}
    BY <1>2 DEF LexemesKept
  <2> QED BY <1>0, <1>9, <2>1, <2>2, Parts, LexemesStay
<1>11. WordsNumbered'
  <2>1. \A k \in 1 .. Len(words') : words'[k] = k
    BY <1>8
  <2>2. mode' = "init" /\ Len(words') = loaded' /\ Len(spelled') = Len(Keywords)
    BY <1>2, <1>3, <1>8
  <2>3. /\ \A m \in 1 .. Len(Keywords) : spelled'[m] = Keywords[m]
        /\ \A m \in 1 .. Len(spelled') : elf_hash(spelled'[m]) \in Hashes
        /\ IsInjective(spelled')
    BY <1>2, Parts DEF WordsNumbered
  <2> QED BY <2>1, <2>2, <2>3 DEF WordsNumbered
<1>12. TypeOK'
  <2>1. TypeOK
    BY Parts
  <2> QED BY <2>1, <1>2, <1>3, <1>6, <1>8, <1>9, <1>10 DEF TypeOK
<1>13. CharRead' /\ WordRead' /\ FindComplete'
  BY <1>2 DEF CharRead, WordRead, FindComplete
<1> QED BY <1>8, <1>10, <1>11, <1>12, <1>13 DEF FirstFile

\* The first character is read when the keywords are in the table.
LEMMA OpenStep ==
  ASSUME LexerAssumption, file = 1, FirstFile, Open PROVE FirstFile'
<1>1. /\ mode = "init" /\ loaded = Len(Keywords) /\ get_char /\ mode' = "preprocess"
      /\ source' = source /\ file' = file /\ words' = words /\ spelled' = spelled
      /\ head' = head /\ next' = next /\ loaded' = loaded /\ probe' = probe
      /\ tkstr' = tkstr /\ from' = from /\ lexemes' = lexemes /\ strayed' = strayed
  BY DEF Open, Read, Goto, Preprocess, Stay, table
<1>2. Grown /\ CharRead'
  BY <1>1, Parts, ReadOn
<1>3. Len(words) \in Nat /\ Len(Keywords) \in Nat
  BY Parts, TableFacts, KeywordsFirst
<1>4. lexemes' \in Seq(ToSet(lexemes')) /\ LexemesCoded'
  <2>1. /\ Len(words') \in Nat /\ Len(words) <= Len(words')
        /\ \A m \in 1 .. Len(words) : spelled'[m] = spelled[m]
    BY <1>1, <1>3
  <2>2. LexemesKept /\ strayed' \in {strayed, TRUE}
    BY <1>1 DEF LexemesKept
  <2> QED BY <1>2, <1>3, <2>1, <2>2, Parts, LexemesStay
<1>5. WordsNumbered'
  <2>1. Len(words) = Len(spelled) /\ Len(Keywords) <= Len(spelled)
    BY <1>1, <1>3, Parts DEF WordsNumbered
  <2> QED BY <2>1, <1>1, Parts DEF WordsNumbered
<1>6. ChainsExact'
  <2>1. \A h : OnChain(h)' = OnChain(h)
    BY <1>1 DEF OnChain
  <2>2. \A n : Behind(n)' = Behind(n)
    BY <1>1, <2>1 DEF Behind
  <2> QED BY <1>1, <2>1, <2>2, Parts DEF ChainsExact
<1>7. TypeOK'
  <2>1. TypeOK
    BY Parts
  <2> QED BY <2>1, <1>1, <1>2, <1>4 DEF TypeOK, Grown
<1>8. WordRead' /\ FindComplete'
  BY <1>1 DEF WordRead, FindComplete
<1> QED BY <1>2, <1>4, <1>5, <1>6, <1>7, <1>8 DEF FirstFile

-----------------------------------------------------------------------------
(* The inductive invariant.                                                *)

LEMMA InitGood == ASSUME LexerAssumption, Init PROVE IInv
<1>1. /\ source \in Sources /\ file = 1 /\ text = <<>> /\ idx = 0 /\ cur = EOF
      /\ mode = "init" /\ tkstr = <<>> /\ from = 0 /\ lexemes = <<>>
      /\ strayed = FALSE /\ loaded = 0 /\ probe = 0
      /\ spelled = Keywords /\ next = [n \in DOMAIN Keywords |-> 0]
      /\ words = <<>> /\ head = [h \in Hashes |-> 0]
  BY DEF Init
<1>2. source.length \in Nat
  BY <1>1 DEF LexerAssumption
<1>3. /\ Len(Keywords) \in Nat /\ DOMAIN Keywords = 1 .. Len(Keywords)
      /\ Keywords \in Seq(Seq(Characters))
      /\ ToSet(Keywords) = {Keywords[i] : i \in 1 .. Len(Keywords)}
  <2>1. Keywords \in Seq(Seq(Characters))
    BY KeywordsFirst
  <2>2. ToSet(Keywords) = {Keywords[i] : i \in 1 .. Len(Keywords)}
    BY <2>1, Elements
  <2> QED BY <2>1, <2>2, KeywordsFirst
<1>4. /\ text \in Seq(Characters) /\ Len(text) = 0 /\ words \in Seq(Nat) /\ Len(words) = 0
      /\ tkstr \in Seq(Characters \cup {EOF}) /\ lexemes \in Seq(ToSet(lexemes))
      /\ Len(lexemes) = 0
  BY <1>1, EmptySeq
<1>5. ToSet(words) = {}
  <2>1. words \in Seq(Nat)
    BY <1>4
  <2>2. ToSet(words) = {words[i] : i \in 1 .. Len(words)}
    BY <2>1, Elements
  <2> QED BY <2>2, <1>4
<1>6. TypeOK
  <2>1. head \in [Hashes -> Nat] /\ next \in [DOMAIN spelled -> Nat]
    BY <1>1
  <2>2. file \in Nat \ {0} /\ Len(text) <= source.length /\ idx \in 0 .. Len(text)
    BY <1>1, <1>2, <1>4
  <2>3. from \in Nat /\ loaded \in 0 .. Len(Keywords) /\ probe \in Nat
    BY <1>1, <1>3
  <2>4. cur \in Characters \cup {EOF} /\ strayed \in BOOLEAN
    BY <1>1
  <2> QED BY <2>1, <2>2, <2>3, <2>4, <1>1, <1>3, <1>4 DEF TypeOK
<1>7. CharRead /\ WordRead /\ FindComplete /\ LexemesCoded
  BY <1>1, <1>4 DEF CharRead, WordRead, FindComplete, LexemesCoded
<1>8. WordsNumbered
  <2>1. \A n \in 1 .. Len(spelled) : elf_hash(spelled[n]) \in Hashes
    BY <1>1, <1>3 DEF Hashes
  <2>2. IsInjective(spelled)
    BY <1>1 DEF LexerAssumption
  <2> QED BY <2>1, <2>2, <1>1, <1>4 DEF WordsNumbered
<1>9. ChainsExact
  <2>1. \A h : OnChain(h) = {}
    BY <1>5 DEF OnChain
  <2> QED BY <2>1, <1>1, <1>5 DEF ChainsExact, HighestOf
<1> QED BY <1>1, <1>6, <1>7, <1>8, <1>9 DEF IInv, FirstFile

\* The files are read in order.
LEMMA FileStep ==
  ASSUME Next PROVE file' = file \/ file' = file + 1
<1>1. CASE direct_insert \/ Open \/ get_token \/ skip_white_space
  BY <1>1 DEF direct_insert, Open, get_token, skip_white_space, Preprocess, Stay
<1>2. CASE Slash \/ parse_comment \/ EndPreprocess
  BY <1>2 DEF Slash, parse_comment, EndPreprocess, Preprocess, Stay
<1>3. CASE Start \/ Single \/ EndOfFile \/ UnknownCharacter \/ parse_identifier
  BY <1>3 DEF Start, Single, EndOfFile, UnknownCharacter, parse_identifier, Within,
              Found, Stale, Scan, Stay
<1>4. CASE parse_num \/ OneOrTwo \/ Dots \/ parse_string
  BY <1>4 DEF parse_num, OneOrTwo, Dots, parse_string, Within, Found, Stale, Scan, Stay
<1>5. CASE StartFind \/ find \/ insert \/ NextFile
  BY <1>5 DEF StartFind, find, insert, NextFile
<1> QED BY <1>1, <1>2, <1>3, <1>4, <1>5 DEF Next

LEMMA NextGood == ASSUME LexerAssumption, IInv, Next PROVE IInv'
<1>1. file \in Nat \ {0} /\ file' \in Nat \ {0} /\ (file' = 1 => file = 1)
  BY FileStep DEF IInv
<1>2. ASSUME file' = 1 PROVE FirstFile'
  <2>1. file = 1 /\ FirstFile
    BY <1>1, <1>2 DEF IInv
  <2>2. CASE NextFile
    BY <2>1, <2>2, <1>2 DEF NextFile
  <2>3. CASE direct_insert \/ Open
    BY <2>1, <2>3, DirectInsertStep, OpenStep
  <2>4. CASE get_token \/ skip_white_space \/ Slash \/ parse_comment \/ EndPreprocess
    BY <2>1, <2>4, GetTokenStep, SkipStep, SlashStep, CommentStep, EndPreprocessStep
  <2>5. CASE Start \/ Single \/ EndOfFile \/ UnknownCharacter
    BY <2>1, <2>5, StartStep, SingleStep
  <2>6. CASE parse_identifier \/ parse_num \/ OneOrTwo \/ Dots \/ parse_string
    BY <2>1, <2>6, IdentifierStep, NumberStep, OperatorStep, DotsStep, StringStep
  <2>7. CASE StartFind \/ find \/ insert
    BY <2>1, <2>7, StartFindStep, FindStep, InsertStep
  <2> QED BY <2>2, <2>3, <2>4, <2>5, <2>6, <2>7 DEF Next
<1> QED BY <1>1, <1>2 DEF IInv

LEMMA StutterGood == ASSUME IInv, UNCHANGED vars PROVE IInv'
<1>1. /\ source' = source /\ file' = file /\ text' = text /\ idx' = idx /\ cur' = cur
      /\ mode' = mode /\ tkstr' = tkstr /\ from' = from /\ lexemes' = lexemes
      /\ strayed' = strayed /\ words' = words /\ spelled' = spelled /\ head' = head
      /\ next' = next /\ loaded' = loaded /\ probe' = probe
  BY DEF vars, reading, table
<1>2. /\ \A h : OnChain(h)' = OnChain(h)
      /\ Here' = Here
  BY <1>1 DEF OnChain, Here
<1>3. \A n : Behind(n)' = Behind(n)
  BY <1>1, <1>2 DEF Behind
<1>4. TypeOK' <=> TypeOK
  BY <1>1 DEF TypeOK
<1>5. (CharRead' <=> CharRead) /\ (WordRead' <=> WordRead)
  BY <1>1, <1>2 DEF CharRead, WordRead, Part
<1>6. (WordsNumbered' <=> WordsNumbered) /\ (LexemesCoded' <=> LexemesCoded)
  BY <1>1 DEF WordsNumbered, LexemesCoded, Part
<1>7. (ChainsExact' <=> ChainsExact) /\ (FindComplete' <=> FindComplete)
  BY <1>1, <1>2, <1>3 DEF ChainsExact, FindComplete
<1> QED BY <1>1, <1>4, <1>5, <1>6, <1>7 DEF IInv, FirstFile

\* As long as the first file is read, every node is on the chain of its word, no
\* word has two nodes, and what was read is under its code: for all texts,
\* keywords and hash functions.
THEOREM WordTableInductive == Spec => []IInv
<1>1. Init => IInv
  BY InitGood, LexerAssumption
<1>2. IInv /\ [Next]_vars => IInv'
  BY NextGood, StutterGood, LexerAssumption
<1> QED BY <1>1, <1>2, PTL DEF Spec

\* TKHashtable: the chains of the first file hold the words that were inserted
\* with their hash value, each once and the latest first.
THEOREM WordChainsExact == Spec => []ChainsExact
<1>1. IInv => ChainsExact
  BY DEF IInv, FirstFile, ChainsExact
<1> QED BY <1>1, WordTableInductive, PTL

\* TKHashtable: a word has one code and a code one word, and get_tkstr of the
\* code of a token is what the text spells.
THEOREM WordsHaveCodes == Spec => []WordsCoded
<1>1. ASSUME IInv, file = 1
      PROVE  /\ IsInjective(spelled) /\ IsInjective(words)
             /\ \A k \in DOMAIN lexemes :
                  LET l == lexemes[k]
                  IN l.code # 0 /\ ~strayed => spelled[words[l.code]] = Part(l.from, l.to)
  <2>1. FirstFile
    BY <1>1 DEF IInv
  <2>2. DOMAIN words = 1 .. Len(words) /\ \A k \in 1 .. Len(words) : words[k] = k
    BY <2>1, Parts, TableFacts DEF WordsNumbered
  <2>3. IsInjective(words)
    BY <2>2 DEF IsInjective
  <2>4. IsInjective(spelled)
    BY <2>1, Parts DEF WordsNumbered
  <2>5. DOMAIN lexemes = 1 .. Len(lexemes)
    BY <2>1, Parts, LenProperties DEF TypeOK
  <2>6. ASSUME NEW k \in 1 .. Len(lexemes), lexemes[k].code # 0, ~ strayed
        PROVE  spelled[words[lexemes[k].code]] = Part(lexemes[k].from, lexemes[k].to)
    <3>1. PICK l : l = lexemes[k]
      OBVIOUS
    <3>2. l.code \in 1 .. Len(words) /\ spelled[l.code] = Part(l.from, l.to)
      BY <2>1, <2>6, <3>1, Parts DEF LexemesCoded
    <3> QED BY <2>2, <3>1, <3>2
  <2> QED BY <2>3, <2>4, <2>5, <2>6
<1>2. IInv => WordsCoded
  BY <1>1 DEF WordsCoded
<1> QED BY <1>2, WordTableInductive, PTL
=============================================================================
