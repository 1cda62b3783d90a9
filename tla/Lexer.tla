------------------------------- MODULE Lexer -------------------------------
(***************************************************************************)
(* The lexer of CL_Lex.cpp and the word table of CL_Hash.h.  get_token is  *)
(* called by the parser whenever it wants the next token; it looks at the  *)
(* character cur_ch, which was read ahead, and reads on character by       *)
(* character through white space, comments, words, numbers and strings.  A *)
(* step reads at most one character.  The file is revealed as it is read.  *)
(*                                                                         *)
(* Word table: a word is a node; identifiers are added at the head of the  *)
(* chain of their hash value, and their code is their place in the table.  *)
(***************************************************************************)
EXTENDS Integers, Sequences, FiniteSets, SequencesExt, FiniteSetsExt

CONSTANTS
  Sources,      \* which characters a source file has, how many at most, and
                \* how many such files are compiled one after the other
  Keywords,     \* the words of the array keywords, in its order
  elf_hash(_)   \* the chain of a word

Letters == {"a", "b"}
Digits == {"1"}
Singles == {"+", "%", "&", ";", "]", "}", ")", "[", "{", ",", "(", "*"}
FirstOfTwo == {"-", "=", "<", ">", "!"}
Seconds(c) == IF c = "-" THEN ">" ELSE "="
Blanks == {"SP", "CR"}
Quote == "\""
EOF == "EOF"
Characters == Letters \cup Digits \cup Singles \cup FirstOfTwo \cup Blanks
              \cup {"/", ".", "LF", "\\", Quote}

ASSUME LexerAssumption ==
  /\ Sources \subseteq [alphabet : SUBSET Characters, length : Nat, files : Nat \ {0}]
  /\ Keywords \in Seq(Seq(Letters))
  /\ IsInjective(Keywords)

VARIABLES
  source,   \* the kind of source file, one of Sources
  file,     \* the number of the file being read
  text,     \* code_buf, as far as it was read
  ended,    \* text is the whole file
  idx,      \* idx_buf: the characters read
  cur,      \* cur_ch
  mode,     \* where get_token is
  token,    \* token, "WORD" for a keyword or an identifier
  tkstr,    \* the characters of the word, number or string being read
  linenum,  \* linenum
  from,     \* history: where the current token starts
  lexemes,  \* history: the tokens and where they were read, unless strayed
  strayed,  \* history: the file has what the lexer does not read properly
  words,    \* tk_wordtable: the node of each code, from 1
  spelled,  \* the word of each node
  head,     \* tk_hashtable
  next,     \* TKWord.next of each node, 0 for NULL
  loaded,   \* the keywords init_lex has inserted for this file
  probe     \* the node find looks at

reading == <<text, ended, idx, cur>>
table == <<words, spelled, head, next>>
vars == <<source, file, reading, mode, token, tkstr, linenum, from, lexemes,
          strayed, table, loaded, probe>>

-----------------------------------------------------------------------------
\* Where cur_ch is in the file
Here == IF cur = EOF THEN Len(text) + 1 ELSE idx

get_char ==
  \/ /\ idx < Len(text)
     /\ idx' = idx + 1 /\ cur' = text[idx + 1]
     /\ UNCHANGED <<text, ended>>
  \/ /\ idx = Len(text) /\ ~ended /\ Len(text) < source.length
     /\ \E c \in source.alphabet :
          text' = Append(text, c) /\ idx' = idx + 1 /\ cur' = c
     /\ UNCHANGED ended
  \/ /\ idx = Len(text)
     /\ cur' = EOF /\ ended' = TRUE
     /\ UNCHANGED <<text, idx>>

\* cur_ch = code_buf[--idx_buf]: the character read last, not the one before
unget_char ==
  /\ idx' = idx - 1 /\ cur' = text[idx]
  /\ UNCHANGED <<text, ended>>

Goto(m) == mode' = m
Read(m) == get_char /\ Goto(m)
Look(m) == UNCHANGED reading /\ Goto(m)
Stay == UNCHANGED <<source, file, table, loaded, probe>>
Preprocess == Stay /\ UNCHANGED <<token, tkstr, from, lexemes>>
Scan == Stay /\ UNCHANGED <<linenum, from>>
Within == Scan /\ UNCHANGED <<token, lexemes, strayed>>

LexemesOf(t, code) ==
  IF strayed THEN <<>>
  ELSE IF lexemes # <<>> /\ Last(lexemes).token = EOF THEN lexemes
  ELSE Append(lexemes, [token |-> t, code |-> code, from |-> from,
                        to |-> IF cur' = EOF THEN Len(text') ELSE idx' - 1])

\* get_token returns
Found(t) ==
  /\ token' = t /\ tkstr' = <<>> /\ Goto("idle")
  /\ lexemes' = LexemesOf(t, 0)
  /\ Scan /\ UNCHANGED strayed
\* ... after an error() that leaves token as it was
Stale ==
  /\ strayed' = TRUE /\ tkstr' = <<>> /\ Goto("idle")
  /\ lexemes' = LexemesOf(token, 0)
  /\ Scan /\ UNCHANGED token

-----------------------------------------------------------------------------
get_token ==
  /\ mode = "idle" /\ Look("preprocess")
  /\ Preprocess /\ UNCHANGED <<linenum, strayed>>

skip_white_space ==
  \/ /\ mode = "preprocess" /\ cur \in Blanks
     /\ Read(IF cur = "CR" THEN "cr" ELSE "preprocess")
     /\ Preprocess /\ UNCHANGED <<linenum, strayed>>
  \/ /\ mode = "cr" /\ cur = "LF"
     /\ Read("preprocess") /\ linenum' = linenum + 1
     /\ Preprocess /\ UNCHANGED strayed
  \/ /\ mode = "cr" /\ cur # "LF"
     /\ Look("preprocess")
     /\ Preprocess /\ UNCHANGED <<linenum, strayed>>

Slash ==
  \/ /\ mode = "preprocess" /\ cur = "/"
     /\ Read("slash")
     /\ Preprocess /\ UNCHANGED <<linenum, strayed>>
  \/ /\ mode = "slash" /\ cur = "*"
     /\ Read("comment")
     /\ Preprocess /\ UNCHANGED <<linenum, strayed>>
  \/ /\ mode = "slash" /\ cur # "*"
     /\ unget_char /\ Goto("token")
     /\ from' = idx /\ strayed' = TRUE
     /\ Stay /\ UNCHANGED <<token, tkstr, lexemes, linenum>>

NoStar == "comment"      \* mutant: the character after the star is not looked at
AfterStar == "star"
LineEnded == linenum + 1
NoError == "comment"     \* mutant: the end of the file is not noticed
AfterError == "preprocess"
parse_comment ==
  /\ Preprocess /\ UNCHANGED strayed
  /\ \/ /\ mode = "comment" /\ cur \notin {"LF", "*", EOF}
        /\ Read("comment") /\ UNCHANGED linenum
     \/ /\ mode = "comment" /\ cur = "LF"
        /\ Read("comment") /\ linenum' = LineEnded
     \/ /\ mode = "comment" /\ cur = "*"
        /\ Read(AfterStar) /\ UNCHANGED linenum
     \/ /\ mode = "star" /\ cur = "/"
        /\ Read("preprocess") /\ UNCHANGED linenum
     \/ /\ mode = "star" /\ cur # "/"
        /\ Look("comment") /\ UNCHANGED linenum
     \/ /\ mode = "comment" /\ cur = EOF
        /\ Look(AfterError) /\ UNCHANGED linenum

EndPreprocess ==
  /\ mode = "preprocess" /\ cur \notin Blanks \cup {"/"}
  /\ Look("token") /\ from' = Here
  /\ Stay /\ UNCHANGED <<token, tkstr, lexemes, linenum, strayed>>

-----------------------------------------------------------------------------
\* The switch of get_token
FirstMode == [c \in Characters |->
  CASE c \in Letters -> "identifier"
    [] c \in Digits -> "number"
    [] c \in FirstOfTwo -> "operator"
    [] c = "." -> "dot"
    [] c = Quote -> "string"
    [] OTHER -> "idle"]

Start ==
  /\ mode = "token" /\ cur # EOF /\ FirstMode[cur] # "idle"
  /\ Read(FirstMode[cur]) /\ tkstr' = <<cur>>
  /\ Within

Single ==
  /\ mode = "token" /\ cur \in Singles \cup {"/"}
  /\ get_char /\ Found(cur)

EndOfFile ==
  /\ mode = "token" /\ cur = EOF
  /\ UNCHANGED reading /\ Found(EOF)

UnknownCharacter ==
  /\ mode = "token" /\ cur \in Blanks \cup {"LF", "\\"}
  /\ get_char /\ Stale

parse_identifier ==
  /\ mode = "identifier" /\ cur \in Letters \cup Digits
  /\ Read("identifier") /\ tkstr' = Append(tkstr, cur)
  /\ Within

\* A point ends a number, and stays for the next token.
parse_num ==
  \/ /\ mode = "number" /\ cur \in Digits
     /\ Read("number") /\ tkstr' = Append(tkstr, cur)
     /\ Within
  \/ /\ mode = "number" /\ cur \notin Digits
     /\ UNCHANGED reading /\ Found("CINT")

OneOrTwo ==
  \/ /\ mode = "operator" /\ cur = Seconds(tkstr[1])
     /\ get_char /\ Found(tkstr[1] \o cur)
  \/ /\ mode = "operator" /\ cur # Seconds(tkstr[1])
     /\ UNCHANGED reading
     /\ IF tkstr[1] = "!" THEN Stale ELSE Found(tkstr[1])

\* The third point of an ellipsis is not read: the next token starts with it.
Dots ==
  \/ /\ mode = "dot" /\ cur = "."
     /\ Read("dots") /\ tkstr' = Append(tkstr, cur)
     /\ Within
  \/ /\ mode = "dot" /\ cur # "."
     /\ UNCHANGED reading /\ Found(".")
  \/ /\ mode = "dots" /\ cur # "."
     /\ UNCHANGED reading /\ Stale
  \/ /\ mode = "dots" /\ cur = "."
     /\ UNCHANGED reading
     /\ strayed' = TRUE /\ token' = "..." /\ tkstr' = <<>> /\ Goto("idle")
     /\ lexemes' = LexemesOf("...", 0) /\ Scan

\* The letter after a backslash is taken twice, and an escaped quote ends the
\* string.  At the end of the file EOF is added for ever.
parse_string ==
  \/ /\ mode = "string" /\ cur = Quote
     /\ get_char /\ Found("CSTR")
  \/ /\ mode = "string" /\ cur = "\\"
     /\ Read("escape") /\ UNCHANGED tkstr
     /\ Within
  \/ /\ mode = "string" /\ cur \notin {Quote, "\\", EOF}
     /\ Read("string") /\ tkstr' = Append(tkstr, cur)
     /\ Within
  \/ /\ mode = "string" /\ cur = EOF
     /\ Read("string") /\ UNCHANGED tkstr
     /\ Within
  \/ /\ mode = "escape"
     /\ Look("string") /\ tkstr' = Append(tkstr, cur) /\ strayed' = TRUE
     /\ Scan /\ UNCHANGED <<token, lexemes>>

-----------------------------------------------------------------------------
Codes == DOMAIN words
CodeOf(node) == CHOOSE k \in Codes : words[k] = node

Searching(w) == head[elf_hash(w)]
Unlinked(w) == Append(next, 0)   \* mutant: the rest of the chain is lost
Linked(w) == Append(next, head[elf_hash(w)])
NewCode == Len(words) + 1

\* word_table.insert: the walk of find, then the new node
StartFind ==
  /\ mode = "identifier" /\ cur \notin Letters \cup Digits
  /\ Look("find") /\ probe' = Searching(tkstr)
  /\ UNCHANGED <<source, file, table, loaded, token, tkstr, linenum, from, lexemes, strayed>>

find ==
  /\ mode = "find" /\ probe # 0
  /\ UNCHANGED reading
  /\ IF spelled[probe] = tkstr
     THEN /\ token' = "WORD" /\ lexemes' = LexemesOf("WORD", CodeOf(probe))
          /\ tkstr' = <<>> /\ Goto("idle") /\ UNCHANGED probe
     ELSE probe' = next[probe] /\ UNCHANGED <<token, tkstr, lexemes, mode>>
  /\ UNCHANGED <<source, file, table, loaded, linenum, from, strayed>>

insert ==
  /\ mode = "find" /\ probe = 0
  /\ LET node == Len(spelled) + 1
     IN /\ spelled' = Append(spelled, tkstr)
        /\ words' = Append(words, node)
        /\ next' = Linked(tkstr)
        /\ head' = [head EXCEPT ![elf_hash(tkstr)] = node]
  /\ UNCHANGED reading
  /\ token' = "WORD" /\ tkstr' = <<>> /\ Goto("idle")
  /\ lexemes' = LexemesOf("WORD", NewCode)
  /\ UNCHANGED <<source, file, loaded, linenum, from, strayed, probe>>

Displaced(n) == 0   \* mutant: the chain starts anew
Follower(n) == head[elf_hash(Keywords[n])]

\* init_lex inserts the nodes of keywords one by one, for every file.
direct_insert ==
  /\ mode = "init" /\ loaded < Len(Keywords)
  /\ LET n == loaded + 1
     IN /\ words' = Append(words, n)
        /\ next' = [next EXCEPT ![n] = Follower(n)]
        /\ head' = [head EXCEPT ![elf_hash(Keywords[n])] = n]
        /\ loaded' = n
  /\ UNCHANGED <<source, file, reading, mode, token, tkstr, linenum, from, lexemes,
                 strayed, spelled, probe>>

\* The parser has seen the end of the file and there is another one.  idx_buf
\* stays: the second file is read from there on, or not at all.
NextFile ==
  /\ mode = "idle" /\ token = EOF /\ file < source.files
  /\ file' = file + 1 /\ text' = [i \in 1 .. idx |-> "SP"] /\ ended' = FALSE
  /\ loaded' = 0 /\ strayed' = TRUE /\ Goto("init")
  /\ UNCHANGED <<source, table, idx, cur, token, tkstr, linenum, from, lexemes, probe>>

\* init_syntax reads the first character and calls get_token
Open ==
  /\ mode = "init" /\ loaded = Len(Keywords)
  /\ Read("preprocess")
  /\ Preprocess /\ UNCHANGED <<linenum, strayed>>

\* The chains: those of the words that a file can hold and of the keywords.
Lengths == UNION {0 .. s.length : s \in Sources}
Hashes == {elf_hash(w) : w \in (UNION {[1 .. n -> Letters \cup Digits] : n \in Lengths})
                               \cup ToSet(Keywords)}
Init ==
  /\ source \in Sources
  /\ file = 1 /\ text = <<>> /\ ended = FALSE /\ idx = 0 /\ cur = EOF
  /\ mode = "init" /\ token = EOF /\ tkstr = <<>> /\ linenum = 0
  /\ from = 0 /\ lexemes = <<>> /\ strayed = FALSE /\ loaded = 0 /\ probe = 0
  /\ spelled = Keywords /\ next = [n \in DOMAIN Keywords |-> 0]
  /\ words = <<>> /\ head = [h \in Hashes |-> 0]

Next ==
  \/ direct_insert \/ Open \/ get_token \/ skip_white_space \/ Slash \/ parse_comment \/ EndPreprocess
  \/ Start \/ Single \/ EndOfFile \/ UnknownCharacter
  \/ parse_identifier \/ parse_num \/ OneOrTwo \/ Dots \/ parse_string
  \/ StartFind \/ find \/ insert \/ NextFile

\* The parser calls get_token until it sees the end of the file.
Spec == Init /\ [][Next]_vars /\ WF_vars(Next)

-----------------------------------------------------------------------------
\* What the text says, read by its definition: where white space and comments
\* end, and the longest token that starts at a place.
CommentFrom(i) == text[i] = "/" /\ i < Len(text) /\ text[i + 1] = "*"
CommentEnds(i) == {j \in i + 3 .. Len(text) : text[j - 1] = "*" /\ text[j] = "/"}
White(i) == text[i] \in Blanks \/ (text[i] = "LF" /\ i > 1 /\ text[i - 1] = "CR")
AfterWhite ==
  LET after[i \in 1 .. Len(text) + 1] ==
        IF i = Len(text) + 1 THEN i
        ELSE IF White(i) THEN after[i + 1]
        ELSE IF ~CommentFrom(i) THEN i
        ELSE IF CommentEnds(i) = {} THEN Len(text) + 1 ELSE after[Min(CommentEnds(i)) + 1]
  IN after
Part(i, j) == SubSeq(text, i, j)
IsWord(s) == s[1] \in Letters /\ ToSet(s) \subseteq Letters \cup Digits
IsNumber(s) == ToSet(s) \subseteq Digits
IsOperator(s) == \/ Len(s) = 1 /\ s[1] \in (Singles \cup FirstOfTwo \cup {"."}) \ {"!"}
                 \/ Len(s) = 2 /\ s[1] \in FirstOfTwo /\ s[2] = Seconds(s[1])
IsString(s) == /\ Len(s) > 1 /\ s[1] = Quote /\ Last(s) = Quote
               /\ \A k \in 2 .. Len(s) - 1 : s[k] # Quote
IsToken(s) == s # <<>> /\ (IsWord(s) \/ IsNumber(s) \/ IsOperator(s) \/ IsString(s))
KindOf(s) == CASE IsWord(s) -> "WORD" [] IsNumber(s) -> "CINT" [] IsString(s) -> "CSTR"
               [] Len(s) = 1 -> s[1] [] OTHER -> s[1] \o s[2]

\* get_token, preprocess and the parse_ functions: the tokens are those of the
\* text, in order and none left out.  Each starts where the white space and
\* comments after the one before it end, and is the longest that starts there.
TokensOfText ==
  ~strayed => \A k \in DOMAIN lexemes :
    LET l == lexemes[k]
        s == Part(l.from, l.to)
    IN /\ l.from = AfterWhite[IF k = 1 THEN 1 ELSE lexemes[k - 1].to + 1]
       /\ IF l.token = EOF THEN l.from = Len(text) + 1 /\ ended
          ELSE /\ IsToken(s)
               /\ \A j \in l.to + 1 .. Len(text) : ~IsToken(Part(l.from, j))
               /\ l.token = KindOf(s)

\* TKHashtable: a word has one code, whenever it is met, and a code one word:
\* get_tkstr of the code is what the text spells.
WordsCoded ==
  file = 1 =>
  /\ IsInjective(spelled) /\ IsInjective(words)
  /\ \A k \in DOMAIN lexemes :
       LET l == lexemes[k]
       IN l.code # 0 /\ ~strayed => spelled[words[l.code]] = Part(l.from, l.to)

\* direct_insert, insert and find: in the first file, following next from the
\* head of a chain meets each word that was inserted with that hash value once,
\* the latest first, and then NULL.
HighestOf(n, S) == IF S = {} THEN n = 0 ELSE n \in S /\ \A m \in S : m <= n
OnChain(h) == {n \in ToSet(words) : elf_hash(spelled[n]) = h}
Behind(n) == {m \in OnChain(elf_hash(spelled[n])) : m < n}
ChainsExact ==
  file = 1 => /\ \A h \in Hashes : HighestOf(head[h], OnChain(h))
              /\ \A n \in ToSet(words) : HighestOf(next[n], Behind(n))

\* Every file is read to its end, comments that are not closed included, unless
\* it has an open string or something the lexer does not read properly.
EndReached == <>(strayed \/ Quote \in source.alphabet \/ (token = EOF /\ lexemes # <<>>))

\* main.cpp:71: "usage: scc ... [infile] infile2...": every word is found, or not
\* found, also in the second file.
FindEnds == mode = "find" ~> mode # "find"

-----------------------------------------------------------------------------
(* The inductive invariant of the first file.                              *)

TypeOK ==
  /\ source \in Sources /\ file \in Nat \ {0}
  /\ text \in Seq(Characters) /\ Len(text) <= source.length /\ idx \in 0 .. Len(text)
  /\ cur \in Characters \cup {EOF} /\ strayed \in BOOLEAN
  /\ tkstr \in Seq(Characters \cup {EOF}) /\ from \in Nat /\ loaded \in 0 .. Len(Keywords)
  /\ lexemes \in Seq(ToSet(lexemes))
  /\ words \in Seq(Nat) /\ spelled \in Seq(Seq(Characters))
  /\ head \in [Hashes -> Nat] /\ next \in [DOMAIN spelled -> Nat] /\ probe \in Nat

\* cur_ch is the character before idx_buf, or behind it after unget_char.  A
\* slash was read before the character that tells what it is.
CharRead ==
  /\ mode # "init" =>
       \/ cur = EOF
       \/ idx >= 1 /\ cur = text[idx]
       \/ /\ mode = "token" /\ strayed /\ idx < Len(text) /\ cur = text[idx + 1]
          /\ idx >= 1 \/ cur = "/"
  /\ mode = "slash" => IF cur = EOF THEN idx >= 1 /\ text[idx] = "/" ELSE idx >= 2
  /\ mode \in {"token", "identifier", "find"} /\ ~ strayed => from >= 1 /\ from <= Here
  /\ mode = "token" /\ ~ strayed => from = Here

\* The word that is being read: no longer than the text, and what is read of it.
WordRead ==
  mode \in {"identifier", "find"} =>
    /\ tkstr \in Seq(Letters \cup Digits)
    /\ Len(tkstr) <= IF cur = EOF THEN idx ELSE idx - 1
    /\ ~ strayed => tkstr = Part(from, IF cur = EOF THEN Len(text) ELSE idx - 1)

\* Nodes and codes are numbered alike, and the keywords come first.
WordsNumbered ==
  /\ \A k \in 1 .. Len(words) : words[k] = k
  /\ \A n \in 1 .. Len(Keywords) : spelled[n] = Keywords[n]
  /\ IF mode = "init" THEN Len(words) = loaded /\ Len(spelled) = Len(Keywords)
     ELSE Len(words) = Len(spelled) /\ Len(Keywords) <= Len(spelled)
  /\ \A n \in 1 .. Len(spelled) : elf_hash(spelled[n]) \in Hashes
  /\ IsInjective(spelled)

\* find has passed no node with the word it looks for.
FindComplete ==
  mode = "find" =>
    /\ probe # 0 => probe \in OnChain(elf_hash(tkstr))
    /\ \A n \in OnChain(elf_hash(tkstr)) : n > probe => spelled[n] # tkstr

\* The words that were read are in the table under their codes.
LexemesCoded ==
  ~ strayed =>
  \A k \in 1 .. Len(lexemes) :
    LET l == lexemes[k]
    IN l.code # 0 => /\ l.code \in 1 .. Len(words) /\ l.from \in Nat \ {0}
                     /\ l.to \in 0 .. Len(text)
                     /\ spelled[l.code] = Part(l.from, l.to)

FirstFile ==
  /\ TypeOK /\ CharRead /\ WordRead /\ WordsNumbered
  /\ ChainsExact /\ FindComplete /\ LexemesCoded

IInv == file \in Nat \ {0} /\ (file = 1 => FirstFile)
=============================================================================
