------------------------- MODULE KconfigParseProofs -------------------------
(***************************************************************************)
(* Proofs about KconfigParse, for every language of Kconfig lines, any     *)
(* number of files and lines, and whatever expressions are parsed to and   *)
(* finalizing makes of the tree.                                           *)
(***************************************************************************)
EXTENDS KconfigParse, SequenceTheorems, FiniteSetTheorems, TLAPS

IsSeq(s) == Len(s) \in Nat /\ s = [i \in 1..Len(s) |-> s[i]]

Eof == <<"eof">>

Place == (DOMAIN text) \X Nat

Fields == {"kind", "item", "parent", "list", "next", "prompt", "dep", "visibility", "defaults",
           "ranges", "selects", "implies", "file", "line"}

BlockRecord == [end : {"none", "endif", "endmenu", "endchoice"}, parent : Nat, prev : Nat]

\* Files hold lines of the language, none of which is the end of a file.
TextInv ==
    /\ text = [f \in DOMAIN text |-> text[f]]
    /\ \A f \in DOMAIN text :
          text[f] \in [lines : Seq(language \ {Eof}), ended : BOOLEAN]

\* What _leave_file() goes back to: the include path up to the file that is
\* left, and the file before it, right behind its source statement.
StackInv ==
    /\ IsSeq(includePath) /\ IsSeq(filestack)
    /\ Len(filestack) = Len(includePath)
    /\ \A i \in DOMAIN includePath :
          /\ includePath[i] \in Place
          /\ includePath[i][2] <= Len(text[includePath[i][1]].lines)
          /\ filestack[i] = <<SubSeq(includePath, 1, i - 1), includePath[i]>>

\* The line number is that of the line that was read last.  While a help text is
\* read it is behind, and a help text at the end of a file counts one line too
\* many, after which nothing but the end of the file is read.
NumberInv ==
    /\ reading \in Place /\ reading[1] = filename
    /\ reading[2] <= Len(text[filename].lines)
    /\ linenr \in Nat /\ help \in Int /\ help >= -1
    /\ IF help > 0 THEN linenr = reading[2] - help + 1
       ELSE \/ linenr = reading[2]
            \/ /\ help = -1 /\ linenr = reading[2] + 1
               /\ text[filename].ended /\ reading[2] = Len(text[filename].lines)

\* The line that was fetched is the one at the current position.
LineInv ==
    line # <<>> =>
        /\ help = -1
        /\ line # Eof =>
              /\ linenr \in DOMAIN text[filename].lines
              /\ line = text[filename].lines[linenr]
              /\ linenr = reading[2]

Where == {"kind", "item", "file", "line"}

\* Nodes whose links lead forward.
GoodNodes(s) ==
    /\ IsSeq(s)
    /\ \A n \in 1..Len(s) :
          /\ DOMAIN s[n] = Fields
          /\ s[n].parent \in 0..(n - 1)
          /\ s[n].list \in {0} \cup (n + 1)..Len(s)
          /\ s[n].next \in {0} \cup (n + 1)..Len(s)

\* The same nodes, with other links or properties.
Alike(s, t) == Len(t) = Len(s) /\ \A n \in 1..Len(s) : \A x \in Where : t[n][x] = s[n][x]

\* Origin remembers where the nodes come from.
NodeInv ==
    /\ IsSeq(origin)
    /\ \A n \in DOMAIN origin : origin[n].file \in DOMAIN text
    /\ Growing =>
          /\ DOMAIN heap = {"nodes", "items"} /\ GoodNodes(heap.nodes)
          /\ Alike(origin, heap.nodes) /\ Len(origin) > 0

\* The blocks that belong to files.
Unclosed(bs) == {i \in DOMAIN bs : bs[i].end = "none"}

\* A block for every file being read.  The node of a block comes after what the
\* outer block holds so far, and before what the block itself holds.  No block holds
\* a node after top.
GoodBlocks(bs, top, depth) ==
    /\ bs \in Seq(BlockRecord) /\ Len(bs) > 0 /\ bs[1].end = "none"
    /\ Cardinality(Unclosed(bs)) = depth + 1
    /\ \A i \in 1..Len(bs) :
          /\ 1 <= bs[i].parent /\ bs[i].parent <= bs[i].prev /\ bs[i].prev <= top
          /\ i > 1 => IF bs[i].end = "none" THEN bs[i - 1].prev <= bs[i].prev
                      ELSE bs[i - 1].prev < bs[i].parent

\* The node whose properties are parsed is the last one, and in no block yet.
Top == IF props = 0 THEN Len(heap.nodes) ELSE Len(heap.nodes) - 1

BlockInv ==
    Growing =>
        /\ props # 0 => props = Len(heap.nodes)
        /\ GoodBlocks(blocks, Top, Len(filestack))

PositionInv == TextInv /\ StackInv /\ NumberInv /\ LineInv /\ NoRecursiveSource

TreeInv == NodeInv /\ BlockInv /\ NodesLocated

IInv ==
    /\ phase \in {"parsing", "parsed", "checking", "done", "rejected", "error"}
    /\ PositionInv
    /\ TreeInv

-----------------------------------------------------------------------------
(***************************************************************************)
(* Sequences whose elements have no common type.                           *)
(***************************************************************************)

\* IsSeq is what Seq says, whatever the elements are.
LEMMA SeqIsSeq ==
    ASSUME NEW S, NEW s \in Seq(S)
    PROVE  IsSeq(s) /\ DOMAIN s = 1..Len(s)
BY LenProperties DEF IsSeq

LEMMA IsSeqSeq ==
    ASSUME NEW s, IsSeq(s)
    PROVE  \E S : s \in Seq(S)
<1>1. Len(s) \in Nat /\ s \in [1..Len(s) -> {s[i] : i \in 1..Len(s)}]
  BY DEF IsSeq
<1> QED BY <1>1, SeqDef

LEMMA AppendSeq ==
    ASSUME NEW s, IsSeq(s), NEW e
    PROVE  /\ IsSeq(Append(s, e))
           /\ Len(Append(s, e)) = Len(s) + 1
           /\ Append(s, e)[Len(s) + 1] = e
           /\ \A i \in 1..Len(s) : Append(s, e)[i] = s[i]
<1>1. PICK S : s \in Seq(S)
  BY IsSeqSeq
<1>2. s \in Seq(S \cup {e})
  BY <1>1, SeqDef, LenProperties
<1>3. e \in S \cup {e}
  OBVIOUS
<1>4. /\ Append(s, e) \in Seq(S \cup {e})
      /\ Len(Append(s, e)) = Len(s) + 1
      /\ Append(s, e)[Len(s) + 1] = e
      /\ \A i \in 1..Len(s) : Append(s, e)[i] = s[i]
  BY <1>2, <1>3, AppendProperties
<1> QED BY <1>4, SeqIsSeq

LEMMA ExceptIsSeq ==
    ASSUME NEW s, IsSeq(s), NEW i \in 1..Len(s), NEW e
    PROVE  /\ IsSeq([s EXCEPT ![i] = e])
           /\ Len([s EXCEPT ![i] = e]) = Len(s)
           /\ [s EXCEPT ![i] = e][i] = e
           /\ \A j \in 1..Len(s) : j # i => [s EXCEPT ![i] = e][j] = s[j]
<1>1. PICK S : s \in Seq(S)
  BY IsSeqSeq
<1>2. s \in Seq(S \cup {e})
  BY <1>1, SeqDef, LenProperties
<1>3. e \in S \cup {e}
  OBVIOUS
<1>4. /\ [s EXCEPT ![i] = e] \in Seq(S \cup {e})
      /\ Len([s EXCEPT ![i] = e]) = Len(s)
      /\ \A j \in 1 .. Len(s) : [s EXCEPT ![i] = e][j] = IF j=i THEN e ELSE s[j]
  BY <1>2, <1>3, ExceptSeq
<1> QED BY <1>4, SeqIsSeq

LEMMA SubSeqIsSeq ==
    ASSUME NEW s, IsSeq(s), NEW n \in 0..Len(s)
    PROVE  /\ IsSeq(SubSeq(s, 1, n))
           /\ Len(SubSeq(s, 1, n)) = n
           /\ \A i \in 1..n : SubSeq(s, 1, n)[i] = s[i]
<1>1. PICK S : s \in Seq(S)
  BY IsSeqSeq
<1>2. \A i \in 1..n : s[i] \in S
  BY <1>1, ElementOfSeq DEF IsSeq
<1>3. n \in Int /\ 1 \in Int
  BY DEF IsSeq
<1>4. /\ SubSeq(s, 1, n) \in Seq(S)
      /\ Len(SubSeq(s, 1, n)) = IF 1 <= n THEN n - 1 + 1 ELSE 0
      /\ \A i \in 1 .. n - 1 + 1 : SubSeq(s, 1, n)[i] = s[1 + i - 1]
  BY ONLY <1>2, <1>3, SubSeqProperties
<1>5. Len(SubSeq(s, 1, n)) = n
  BY <1>3, <1>4 DEF IsSeq
<1>6. \A i \in 1..n : 1 + i - 1 = i /\ i \in 1 .. n - 1 + 1
  BY <1>3
<1>7. \A i \in 1..n : SubSeq(s, 1, n)[i] = s[i]
  BY <1>4, <1>6
<1> QED BY <1>4, <1>5, <1>7, SeqIsSeq

-----------------------------------------------------------------------------
(***************************************************************************)
(* Reading.                                                                *)
(***************************************************************************)

\* What was read of a file stays as it was.
TextGrows ==
    \A f \in DOMAIN text :
        /\ f \in DOMAIN text'
        /\ Len(text[f].lines) <= Len(text'[f].lines)
        /\ \A i \in 1..Len(text[f].lines) : text'[f].lines[i] = text[f].lines[i]

\* The lines of a file are a sequence of lines of the language.
LEMMA LinesFacts ==
    ASSUME TextInv, NEW f \in DOMAIN text
    PROVE  /\ text[f].lines \in Seq(language \ {Eof}) /\ text[f].ended \in BOOLEAN
           /\ DOMAIN text[f].lines = 1..Len(text[f].lines) /\ Len(text[f].lines) \in Nat
           /\ text[f] = [lines |-> text[f].lines, ended |-> text[f].ended]
<1>1. text[f] \in [lines : Seq(language \ {Eof}), ended : BOOLEAN]
  BY DEF TextInv
<1> QED BY <1>1, LenProperties

LEMMA LinesAfter ==
    ASSUME TextInv', NEW f \in DOMAIN text'
    PROVE  /\ DOMAIN text'[f].lines = 1..Len(text'[f].lines) /\ Len(text'[f].lines) \in Nat
<1>1. text'[f] \in [lines : Seq(language' \ {Eof}), ended : BOOLEAN]
  BY DEF TextInv
<1> QED BY <1>1, LenProperties

\* readline() gives the line after the one that was read last, or the end of the
\* file when there is none.
LEMMA ReadFacts ==
    ASSUME TextInv, NumberInv, language' = language,
           NEW new \in language \cup {Eof}, ReadLine(new)
    PROVE  /\ TextInv' /\ TextGrows /\ DOMAIN text' = DOMAIN text
           /\ new = Eof =>
                 /\ reading' = reading
                 /\ text'[filename].ended
                 /\ reading[2] = Len(text'[filename].lines)
           /\ new # Eof =>
                 /\ reading' = <<filename, reading[2] + 1>>
                 /\ reading[2] + 1 <= Len(text'[filename].lines)
                 /\ text'[filename].lines[reading[2] + 1] = new
                 /\ ~(text[filename].ended /\ reading[2] = Len(text[filename].lines))
<1> DEFINE f == reading[1]
           n == reading[2] + 1
           old == text[f].lines
<1>1. f \in DOMAIN text /\ f = filename /\ reading = <<f, reading[2]>>
      /\ reading[2] \in Nat /\ n \in Nat /\ reading[2] <= Len(old)
  BY DEF NumberInv, Place
<1>2. /\ old \in Seq(language \ {Eof}) /\ text[f].ended \in BOOLEAN
      /\ DOMAIN old = 1..Len(old) /\ Len(old) \in Nat
      /\ text[f] = [lines |-> old, ended |-> text[f].ended]
  BY <1>1, LinesFacts
<1> HIDE DEF f, n, old
<1>3. CASE n <= Len(old) /\ new = old[n] /\ reading' = <<f, n>> /\ UNCHANGED text
  <2>1. new # Eof
    BY <1>1, <1>2, <1>3, ElementOfSeq DEF n
  <2>2. TextInv' /\ TextGrows /\ DOMAIN text' = DOMAIN text
    BY <1>3, LinesFacts DEF TextInv, TextGrows
  <2> QED BY <1>1, <1>2, <1>3, <2>1, <2>2 DEF n, old
<1>4. CASE /\ n > Len(old) /\ ~text[f].ended /\ new # Eof
           /\ text' = [text EXCEPT ![f].lines = Append(@, new)]
           /\ reading' = <<f, n>>
  <2>1. /\ Append(old, new) \in Seq(language \ {Eof})
        /\ Len(Append(old, new)) = Len(old) + 1
        /\ Append(old, new)[Len(old) + 1] = new
        /\ \A i \in 1..Len(old) : Append(old, new)[i] = old[i]
    BY <1>2, <1>4, AppendProperties
  <2>2. /\ DOMAIN text' = DOMAIN text
        /\ text'[f].lines = Append(old, new) /\ text'[f].ended = text[f].ended
        /\ text'[f] \in [lines : Seq(language \ {Eof}), ended : BOOLEAN]
        /\ \A g \in DOMAIN text : g # f => text'[g] = text[g]
    BY <1>1, <1>2, <1>4, <2>1 DEF old
  <2>3. TextInv'
    BY <1>4, <2>2 DEF TextInv
  <2>4. TextGrows
    <3> SUFFICES ASSUME NEW g \in DOMAIN text
                 PROVE  /\ g \in DOMAIN text' /\ Len(text[g].lines) <= Len(text'[g].lines)
                        /\ \A i \in 1..Len(text[g].lines) : text'[g].lines[i] = text[g].lines[i]
      BY DEF TextGrows
    <3>1. CASE g = f
      BY <1>1, <1>2, <2>1, <2>2, <3>1 DEF old
    <3>2. CASE g # f
      BY <2>2, <3>2, LinesFacts
    <3> QED BY <3>1, <3>2
  <2>5. n = Len(old) + 1
    BY <1>1, <1>2, <1>4 DEF n
  <2> QED BY <1>1, <1>2, <1>4, <2>1, <2>2, <2>3, <2>4, <2>5 DEF n, old
<1>5. CASE /\ n > Len(old) /\ new = Eof
           /\ text' = [text EXCEPT ![f].ended = TRUE]
           /\ UNCHANGED reading
  <2>1. /\ DOMAIN text' = DOMAIN text
        /\ text'[f].lines = old /\ text'[f].ended = TRUE
        /\ text'[f] \in [lines : Seq(language \ {Eof}), ended : BOOLEAN]
        /\ \A g \in DOMAIN text : g # f => text'[g] = text[g]
    BY <1>1, <1>2, <1>5 DEF old
  <2>2. TextInv'
    BY <1>5, <2>1 DEF TextInv
  <2>3. TextGrows
    BY <1>1, <1>2, <2>1, LinesFacts DEF TextGrows, old
  <2>4. reading[2] = Len(old)
    BY <1>1, <1>2, <1>5 DEF n
  <2> QED BY <1>1, <1>2, <1>5, <2>1, <2>2, <2>3, <2>4 DEF n, old
<1> QED BY <1>3, <1>4, <1>5 DEF ReadLine, f, n, old, Eof

\* Sequences with the same elements are the same.
LEMMA SameSeq ==
    ASSUME NEW s, NEW t, IsSeq(s), IsSeq(t), Len(s) = Len(t),
           \A i \in 1..Len(s) : s[i] = t[i]
    PROVE  s = t
BY DEF IsSeq

\* The stack does not mind that files get longer.
LEMMA StackKept ==
    ASSUME StackInv, NoRecursiveSource, TextInv, TextInv', TextGrows,
           UNCHANGED <<includePath, filestack>>
    PROVE  StackInv'
<1>1. ASSUME NEW i \in DOMAIN includePath
      PROVE  includePath[i] \in Place' /\ includePath[i][2] <= Len(text'[includePath[i][1]].lines)
  <2>1. includePath[i] \in Place /\ includePath[i][2] <= Len(text[includePath[i][1]].lines)
    BY <1>1 DEF StackInv
  <2>2. PICK f \in DOMAIN text, n \in Nat : includePath[i] = <<f, n>>
    BY <2>1 DEF Place
  <2>3. f \in DOMAIN text' /\ Len(text[f].lines) <= Len(text'[f].lines)
    BY <2>2 DEF TextGrows
  <2>4. Len(text[f].lines) \in Nat /\ Len(text'[f].lines) \in Nat
    BY <2>2, <2>3, LinesFacts, LinesAfter
  <2> QED BY <2>1, <2>2, <2>3, <2>4 DEF Place
<1> QED BY <1>1 DEF StackInv

LEMMA NextLinePosition == PositionInv /\ NextLine => PositionInv' /\ TextGrows
<1> SUFFICES ASSUME PositionInv, NextLine PROVE PositionInv' /\ TextGrows
  OBVIOUS
<1>1. PICK new \in language \cup {Eof} :
        /\ ReadLine(new) /\ line' = new
        /\ linenr' = IF new = Eof THEN linenr ELSE linenr + 1
  BY DEF NextLine, Eof
<1>2. /\ line = <<>> /\ help = -1
      /\ UNCHANGED <<language, filename, includePath, filestack, help>>
  BY DEF NextLine
<1>3. /\ TextInv' /\ TextGrows /\ DOMAIN text' = DOMAIN text
      /\ new = Eof =>
            /\ reading' = reading
            /\ text'[filename].ended
            /\ reading[2] = Len(text'[filename].lines)
      /\ new # Eof =>
            /\ reading' = <<filename, reading[2] + 1>>
            /\ reading[2] + 1 <= Len(text'[filename].lines)
            /\ text'[filename].lines[reading[2] + 1] = new
            /\ ~(text[filename].ended /\ reading[2] = Len(text[filename].lines))
  BY <1>1, <1>2, ReadFacts DEF PositionInv
<1>4. StackInv' /\ NoRecursiveSource'
  BY <1>2, <1>3, StackKept DEF PositionInv, NoRecursiveSource
<1>5. /\ reading = <<filename, reading[2]>> /\ reading[2] \in Nat /\ filename \in DOMAIN text
      /\ linenr \in Nat
      /\ \/ linenr = reading[2]
         \/ /\ linenr = reading[2] + 1
            /\ text[filename].ended /\ reading[2] = Len(text[filename].lines)
  BY <1>2 DEF PositionInv, NumberInv, Place
<1>6. Len(text'[filename].lines) \in Nat /\ DOMAIN text'[filename].lines = 1..Len(text'[filename].lines)
  BY <1>3, <1>5, LinesAfter
<1>7. NumberInv' /\ LineInv'
  <2>1. CASE new = Eof
    BY <1>1, <1>2, <1>3, <1>5, <1>6, <2>1 DEF NumberInv, LineInv, Place
  <2>2. CASE new # Eof
    BY <1>1, <1>2, <1>3, <1>5, <1>6, <2>2 DEF NumberInv, LineInv, Place
  <2> QED BY <2>1, <2>2
<1> QED BY <1>3, <1>4, <1>7 DEF PositionInv

LEMMA HelpLinePosition == PositionInv /\ HelpLine => PositionInv' /\ TextGrows
<1> SUFFICES ASSUME PositionInv, HelpLine PROVE PositionInv' /\ TextGrows
  OBVIOUS
<1>1. PICK new \in language \cup {Eof} :
        /\ ReadLine(new)
        /\ IF new = <<"text">>
           THEN /\ help' = help + 1
                /\ linenr' = IF help = 0 THEN linenr + 1 ELSE linenr
                /\ UNCHANGED line
           ELSE /\ help' = -1
                /\ linenr' = IF help = 0 THEN linenr + 1 ELSE linenr + help
                /\ line' = IF new = Eof THEN <<>> ELSE new
  BY DEF HelpLine, Eof
<1>2. /\ help >= 0 /\ help \in Int /\ line = <<>>
      /\ UNCHANGED <<language, filename, includePath, filestack>>
  BY DEF HelpLine, PositionInv, LineInv, NumberInv
<1>3. /\ TextInv' /\ TextGrows /\ DOMAIN text' = DOMAIN text
      /\ new = Eof =>
            /\ reading' = reading
            /\ text'[filename].ended
            /\ reading[2] = Len(text'[filename].lines)
      /\ new # Eof =>
            /\ reading' = <<filename, reading[2] + 1>>
            /\ reading[2] + 1 <= Len(text'[filename].lines)
            /\ text'[filename].lines[reading[2] + 1] = new
            /\ ~(text[filename].ended /\ reading[2] = Len(text[filename].lines))
  BY <1>1, <1>2, ReadFacts DEF PositionInv
<1>4. StackInv' /\ NoRecursiveSource'
  BY <1>2, <1>3, StackKept DEF PositionInv, NoRecursiveSource
<1>5. /\ reading = <<filename, reading[2]>> /\ reading[2] \in Nat /\ filename \in DOMAIN text
      /\ linenr \in Nat
      /\ linenr = IF help > 0 THEN reading[2] - help + 1 ELSE reading[2]
  BY <1>2 DEF PositionInv, NumberInv, Place
<1>6. Len(text'[filename].lines) \in Nat /\ DOMAIN text'[filename].lines = 1..Len(text'[filename].lines)
  BY <1>3, <1>5, LinesAfter
<1>7. NumberInv' /\ LineInv'
  <2>1. CASE new = Eof
    <3>1. new # <<"text">>
      BY <2>1 DEF Eof
    <3> QED BY <1>1, <1>2, <1>3, <1>5, <1>6, <2>1, <3>1 DEF NumberInv, LineInv, Place
  <2>2. CASE new = <<"text">>
    <3>1. new # Eof
      BY <2>2 DEF Eof
    <3> QED BY <1>1, <1>2, <1>3, <1>5, <1>6, <2>2, <3>1 DEF NumberInv, LineInv, Place
  <2>3. CASE new # Eof /\ new # <<"text">>
    BY <1>1, <1>2, <1>3, <1>5, <1>6, <2>3 DEF NumberInv, LineInv, Place
  <2> QED BY <2>1, <2>2, <2>3
<1> QED BY <1>3, <1>4, <1>7 DEF PositionInv

\* A line with a keyword other than eof was read at the current position.
LEMMA AtLine ==
    ASSUME PositionInv, Fetched, Keyword # "eof"
    PROVE  /\ reading = <<filename, linenr>> /\ filename \in DOMAIN text /\ help = -1
           /\ linenr \in Nat /\ linenr \in 1..Len(text[filename].lines)
           /\ line = text[filename].lines[linenr]
<1>1. line # Eof /\ line # <<>>
  BY DEF Fetched, Keyword, Eof
<1>2. reading \in Place /\ reading[1] = filename /\ filename \in DOMAIN text
  BY DEF PositionInv, NumberInv, Place
<1>3. DOMAIN text[filename].lines = 1..Len(text[filename].lines)
  BY <1>2, LinesFacts DEF PositionInv
<1> QED BY <1>1, <1>2, <1>3 DEF PositionInv, NumberInv, LineInv, Place

LEMMA EnterPosition == PositionInv /\ Source => (PositionInv' /\ TextGrows) \/ Fail
<1> SUFFICES ASSUME PositionInv, Source, ~Fail PROVE PositionInv' /\ TextGrows
  OBVIOUS
<1> DEFINE f == line[2]
           here == <<filename, linenr>>
           path == Append(includePath, here)
<1>1. /\ filestack' = Append(filestack, <<includePath, reading>>)
      /\ includePath' = path
      /\ filename' = f /\ linenr' = 0 /\ reading' = <<f, 0>>
      /\ text' = [g \in DOMAIN text \cup {f} |->
                     IF g \in DOMAIN text THEN text[g] ELSE [lines |-> <<>>, ended |-> FALSE]]
      /\ line' = <<>>
      /\ UNCHANGED <<language, help>>
      /\ ~BeingRead(f, path)
  BY DEF Source, EnterFile
<1>2. /\ reading = here /\ filename \in DOMAIN text /\ help = -1 /\ linenr \in Nat
      /\ linenr <= Len(text[filename].lines)
  <2>1. Fetched /\ Keyword # "eof"
    BY DEF Source, InBlock
  <2> QED BY <2>1, AtLine
<1>3. /\ IsSeq(includePath) /\ IsSeq(filestack) /\ Len(filestack) = Len(includePath)
      /\ DOMAIN includePath = 1..Len(includePath) /\ Len(includePath) \in Nat
  BY DEF PositionInv, StackInv, IsSeq
<1>4. /\ IsSeq(path) /\ Len(path) = Len(includePath) + 1 /\ path[Len(includePath) + 1] = here
      /\ \A i \in 1..Len(includePath) : path[i] = includePath[i]
  BY <1>3, AppendSeq
<1>5. /\ IsSeq(filestack') /\ Len(filestack') = Len(includePath) + 1
      /\ filestack'[Len(includePath) + 1] = <<includePath, here>>
      /\ \A i \in 1..Len(includePath) : filestack'[i] = filestack[i]
  BY <1>1, <1>2, <1>3, AppendSeq
<1> HIDE DEF path, here, f
<1>6. TextInv' /\ TextGrows
  <2>1. <<>> \in Seq(language \ {Eof}) /\ Len(<<>>) = 0
    BY EmptySeq
  <2>2. ASSUME NEW g \in DOMAIN text'
        PROVE  text'[g] \in [lines : Seq(language' \ {Eof}), ended : BOOLEAN]
    BY <1>1, <2>1, <2>2 DEF PositionInv, TextInv
  <2>3. TextInv'
    BY <1>1, <2>2 DEF TextInv
  <2>4. TextGrows
    BY <1>1, LinesFacts DEF TextGrows, PositionInv
  <2> QED BY <2>3, <2>4
<1>7. DOMAIN text \subseteq DOMAIN text' /\ f \in DOMAIN text' /\ \A g \in DOMAIN text : text'[g] = text[g]
  BY <1>1
<1>8. \A i \in 1..(Len(includePath) + 1) :
         SubSeq(path, 1, i - 1) = SubSeq(includePath, 1, i - 1)
  <2> SUFFICES ASSUME NEW i \in 1..(Len(includePath) + 1)
               PROVE  SubSeq(path, 1, i - 1) = SubSeq(includePath, 1, i - 1)
    OBVIOUS
  <2>1. i - 1 \in 0..Len(includePath) /\ i - 1 \in 0..Len(path)
    BY <1>3, <1>4
  <2>2. /\ IsSeq(SubSeq(path, 1, i - 1)) /\ Len(SubSeq(path, 1, i - 1)) = i - 1
        /\ \A j \in 1..(i - 1) : SubSeq(path, 1, i - 1)[j] = path[j]
    BY <1>4, <2>1, SubSeqIsSeq
  <2>3. /\ IsSeq(SubSeq(includePath, 1, i - 1)) /\ Len(SubSeq(includePath, 1, i - 1)) = i - 1
        /\ \A j \in 1..(i - 1) : SubSeq(includePath, 1, i - 1)[j] = includePath[j]
    BY <1>3, <2>1, SubSeqIsSeq
  <2>4. \A j \in 1..(i - 1) : path[j] = includePath[j]
    BY <1>3, <1>4
  <2>5. \A j \in 1..(i - 1) : SubSeq(path, 1, i - 1)[j] = SubSeq(includePath, 1, i - 1)[j]
    BY <2>2, <2>3, <2>4
  <2> HIDE DEF IsSeq
  <2> QED BY <2>2, <2>3, <2>5, SameSeq
<1>9. SubSeq(includePath, 1, Len(includePath)) = includePath
  <2>1. /\ IsSeq(SubSeq(includePath, 1, Len(includePath)))
        /\ Len(SubSeq(includePath, 1, Len(includePath))) = Len(includePath)
        /\ \A j \in 1..Len(includePath) : SubSeq(includePath, 1, Len(includePath))[j] = includePath[j]
    BY <1>3, SubSeqIsSeq
  <2> QED BY <1>3, <2>1, SameSeq
<1>10. StackInv'
  <2>1. ASSUME NEW i \in 1..(Len(includePath) + 1)
        PROVE  /\ path[i] \in Place' /\ path[i][2] <= Len(text'[path[i][1]].lines)
               /\ filestack'[i] = <<SubSeq(path, 1, i - 1), path[i]>>
    <3>1. CASE i = Len(includePath) + 1
      <4>1. i - 1 = Len(includePath)
        BY <1>3, <3>1
      <4> QED BY <1>2, <1>4, <1>5, <1>7, <1>8, <1>9, <3>1, <4>1 DEF Place, here
    <3>2. CASE i \in 1..Len(includePath)
      <4>1. /\ includePath[i] \in Place
            /\ includePath[i][2] <= Len(text[includePath[i][1]].lines)
            /\ filestack[i] = <<SubSeq(includePath, 1, i - 1), includePath[i]>>
        BY <1>3, <3>2 DEF PositionInv, StackInv
      <4> QED BY <1>4, <1>5, <1>7, <1>8, <3>2, <4>1 DEF Place
    <3> QED BY <1>3, <2>1, <3>1, <3>2
  <2>2. DOMAIN path = 1..(Len(includePath) + 1)
    BY <1>4 DEF IsSeq
  <2> QED BY <1>1, <1>4, <1>5, <2>1, <2>2 DEF StackInv
<1>11. NumberInv' /\ LineInv'
  <2>1. Len(text'[f].lines) \in Nat
    BY <1>6, <1>7, LinesAfter
  <2> QED BY <1>1, <1>2, <1>7, <2>1 DEF NumberInv, LineInv, Place
<1>12. NoRecursiveSource'
  <2>1. DOMAIN path = 1..(Len(includePath) + 1)
    BY <1>4 DEF IsSeq
  <2>2. \A i \in DOMAIN path : path[i][1] # f
    BY <1>1 DEF BeingRead
  <2>3. \A i, j \in DOMAIN path : path[i][1] = path[j][1] => i = j
    <3> SUFFICES ASSUME NEW i \in DOMAIN path, NEW j \in DOMAIN path, path[i][1] = path[j][1]
                 PROVE  i = j
      OBVIOUS
    <3>1. \A k \in 1..Len(includePath) : path[k][1] # path[Len(includePath) + 1][1]
      BY <1>3, <1>4 DEF PositionInv, NoRecursiveSource, here
    <3>2. \A k, l \in 1..Len(includePath) : path[k][1] = path[l][1] => k = l
      BY <1>3, <1>4 DEF PositionInv, NoRecursiveSource
    <3>3. \A k \in DOMAIN path : k \in 1..Len(includePath) \/ k = Len(includePath) + 1
      BY <1>3, <2>1
    <3> QED BY <3>1, <3>2, <3>3
  <2> QED BY <1>1, <2>2, <2>3 DEF NoRecursiveSource
<1> QED BY <1>6, <1>10, <1>11, <1>12 DEF PositionInv

LEMMA LeavePosition == PositionInv /\ LeaveFile => PositionInv' /\ TextGrows
<1> SUFFICES ASSUME PositionInv, LeaveFile PROVE PositionInv' /\ TextGrows
  OBVIOUS
<1> DEFINE d == Len(includePath)
           path == SubSeq(includePath, 1, d - 1)
<1>1. /\ filename' = includePath[d][1] /\ linenr' = includePath[d][2]
      /\ includePath' = filestack[Len(filestack)][1] /\ reading' = filestack[Len(filestack)][2]
      /\ filestack' = SubSeq(filestack, 1, Len(filestack) - 1)
      /\ line' = <<>> /\ filestack # <<>>
      /\ UNCHANGED <<language, text, help>>
  BY DEF LeaveFile, Last, Front
<1>2. /\ IsSeq(includePath) /\ IsSeq(filestack) /\ Len(filestack) = d
      /\ DOMAIN includePath = 1..d /\ d \in Nat /\ d # 0
  <2>1. IsSeq(filestack) /\ filestack # <<>> => Len(filestack) # 0
    BY EmptySeq, SameSeq DEF IsSeq
  <2> QED BY <1>1, <2>1 DEF PositionInv, StackInv, IsSeq
<1>3. \A i \in 1..d :
         /\ includePath[i] \in Place
         /\ includePath[i][2] <= Len(text[includePath[i][1]].lines)
         /\ filestack[i] = <<SubSeq(includePath, 1, i - 1), includePath[i]>>
  BY <1>2 DEF PositionInv, StackInv
<1>4. includePath' = path /\ reading' = includePath[d]
  BY <1>1, <1>2, <1>3
<1>5. d - 1 \in 0..Len(includePath) /\ d - 1 \in 0..Len(filestack)
  BY <1>2
<1>6. /\ IsSeq(path) /\ Len(path) = d - 1 /\ DOMAIN path = 1..(d - 1)
      /\ \A i \in 1..(d - 1) : path[i] = includePath[i]
  BY <1>2, <1>5, SubSeqIsSeq DEF IsSeq
<1>7. /\ IsSeq(filestack') /\ Len(filestack') = d - 1
      /\ \A i \in 1..(d - 1) : filestack'[i] = filestack[i]
  BY <1>1, <1>2, <1>5, SubSeqIsSeq
<1>8. \A i \in 1..(d - 1) : SubSeq(path, 1, i - 1) = SubSeq(includePath, 1, i - 1)
  <2> SUFFICES ASSUME NEW i \in 1..(d - 1)
               PROVE  SubSeq(path, 1, i - 1) = SubSeq(includePath, 1, i - 1)
    OBVIOUS
  <2>1. i - 1 \in 0..Len(includePath) /\ i - 1 \in 0..Len(path)
    BY <1>2, <1>6
  <2> HIDE DEF path
  <2>2. /\ IsSeq(SubSeq(path, 1, i - 1)) /\ Len(SubSeq(path, 1, i - 1)) = i - 1
        /\ \A j \in 1..(i - 1) : SubSeq(path, 1, i - 1)[j] = path[j]
    BY <1>6, <2>1, SubSeqIsSeq
  <2>3. /\ IsSeq(SubSeq(includePath, 1, i - 1)) /\ Len(SubSeq(includePath, 1, i - 1)) = i - 1
        /\ \A j \in 1..(i - 1) : SubSeq(includePath, 1, i - 1)[j] = includePath[j]
    BY <1>2, <2>1, SubSeqIsSeq
  <2>4. \A j \in 1..(i - 1) : path[j] = includePath[j]
    BY <1>2, <1>6
  <2>5. \A j \in 1..(i - 1) : SubSeq(path, 1, i - 1)[j] = SubSeq(includePath, 1, i - 1)[j]
    BY <2>2, <2>3, <2>4
  <2> QED BY <2>2, <2>3, <2>5, SameSeq
<1> HIDE DEF path
<1>9. TextInv' /\ TextGrows
  BY <1>1, LinesFacts DEF PositionInv, TextInv, TextGrows
<1>10. StackInv'
  <2>1. \A i \in 1..(d - 1) :
           /\ path[i] \in Place' /\ path[i][2] <= Len(text'[path[i][1]].lines)
           /\ filestack'[i] = <<SubSeq(path, 1, i - 1), path[i]>>
    <3> SUFFICES ASSUME NEW i \in 1..(d - 1)
                 PROVE  /\ path[i] \in Place' /\ path[i][2] <= Len(text'[path[i][1]].lines)
                        /\ filestack'[i] = <<SubSeq(path, 1, i - 1), path[i]>>
      OBVIOUS
    <3>1. i \in 1..d /\ path[i] = includePath[i] /\ filestack'[i] = filestack[i]
      BY <1>2, <1>6, <1>7
    <3>2. Place' = Place /\ text' = text
      BY <1>1 DEF Place
    <3> QED BY <1>3, <1>8, <3>1, <3>2
  <2> QED BY <1>4, <1>6, <1>7, <2>1 DEF StackInv
<1>11. help = -1
  BY DEF LeaveFile, InBlock, Fetched, PositionInv, LineInv
<1>12. NumberInv' /\ LineInv'
  BY <1>1, <1>2, <1>3, <1>4, <1>11 DEF NumberInv, LineInv, Place
<1>13. NoRecursiveSource'
  <2>1. \A i, j \in 1..d : includePath[i][1] = includePath[j][1] => i = j
    BY <1>2 DEF PositionInv, NoRecursiveSource
  <2>2. \A i \in 1..(d - 1) : i \in 1..d /\ i # d
    BY <1>2
  <2>3. d \in 1..d
    BY <1>2
  <2>4. \A i \in DOMAIN path : path[i][1] # includePath[d][1]
    BY <1>6, <2>1, <2>2, <2>3
  <2>5. \A i, j \in DOMAIN path : path[i][1] = path[j][1] => i = j
    BY <1>6, <2>1, <2>2
  <2> QED BY <1>1, <1>4, <2>4, <2>5 DEF NoRecursiveSource
<1> QED BY <1>9, <1>10, <1>12, <1>13 DEF PositionInv

\* The other actions stay where they are.
LEMMA PositionStep == PositionInv /\ [Next]_vars => PositionInv' /\ TextGrows
<1> SUFFICES ASSUME PositionInv, [Next]_vars PROVE PositionInv' /\ TextGrows
  OBVIOUS
<1>1. ASSUME UNCHANGED <<language, text, position>>,
             \/ UNCHANGED <<line, help>>
             \/ line' = <<>> /\ help' = help
             \/ line' = <<>> /\ Fetched /\ Keyword # "eof" /\ help' \in {-1, 0}
      PROVE  PositionInv' /\ TextGrows
  <2>1. TextInv' /\ StackInv' /\ NoRecursiveSource'
    BY <1>1 DEF PositionInv, TextInv, StackInv, NoRecursiveSource, position, Place
  <2>2. NumberInv'
    <3>1. CASE help' = help
      BY <1>1, <3>1 DEF PositionInv, NumberInv, position, Place
    <3>2. CASE Fetched /\ Keyword # "eof" /\ help' \in {-1, 0}
      <4>1. /\ reading = <<filename, linenr>> /\ filename \in DOMAIN text
            /\ linenr \in Nat /\ linenr \in 1..Len(text[filename].lines)
        BY <3>2, AtLine
      <4>2. UNCHANGED <<text, reading, filename, linenr>>
        BY <1>1 DEF position
      <4>3. Len(text[filename].lines) \in Nat
        BY <4>1, LinesFacts DEF PositionInv
      <4>4. help' \in Int /\ help' >= -1 /\ ~(help' > 0)
        BY <3>2
      <4> QED BY <4>1, <4>2, <4>3, <4>4 DEF NumberInv, Place
    <3> QED BY <1>1, <3>1, <3>2
  <2>3. LineInv'
    BY <1>1 DEF PositionInv, LineInv, position
  <2>4. TextGrows
    BY <1>1, LinesFacts DEF PositionInv, TextGrows
  <2> QED BY <2>1, <2>2, <2>3, <2>4 DEF PositionInv
<1>2. CASE Fail \/ SourceMissing \/ Entry \/ If \/ EndBlock \/ EndOfTopFile \/ BadLine
  BY <1>1, <1>2 DEF Fail, SourceMissing, Entry, If, OpenIf, EndBlock, EndOfTopFile, BadLine
<1>3. CASE EndOfProperties \/ Finalize \/ Check \/ Terminated \/ UNCHANGED vars
  BY <1>1, <1>3 DEF EndOfProperties, Finalize, Check, Terminated, vars, position
<1>4. CASE Property
  <2>1. CASE Fail
    BY <1>2, <2>1
  <2>2. CASE ~Fail
    <3>1. /\ UNCHANGED <<language, text, position>>
          /\ line' = <<>> /\ help' \in {-1, 0} /\ Fetched /\ Keyword # "eof"
      BY <1>4, <2>2 DEF Property, AddProperty, InProps, PropertyWords
    <3> QED BY <1>1, <3>1
  <2> QED BY <2>1, <2>2
<1> QED
  BY <1>2, <1>3, <1>4, NextLinePosition, HelpLinePosition, EnterPosition, LeavePosition DEF Next

-----------------------------------------------------------------------------
(***************************************************************************)
(* The nodes and their links.                                              *)
(***************************************************************************)

LEMMA SetNext ==
    ASSUME NEW s, GoodNodes(s), NEW i \in 1..Len(s), NEW v \in {0} \cup (i + 1)..Len(s)
    PROVE  LET t == [s EXCEPT ![i].next = v]
           IN  /\ GoodNodes(t) /\ Alike(s, t)
               /\ \A n \in 1..Len(s) : t[n].next = IF n = i THEN v ELSE s[n].next
<1>0. PICK e : e = [s[i] EXCEPT !.next = v]
  OBVIOUS
<1> DEFINE t == [s EXCEPT ![i] = e]
<1>1. /\ DOMAIN e = Fields /\ e.next = v /\ e.parent = s[i].parent /\ e.list = s[i].list
      /\ \A x \in Where : e[x] = s[i][x]
  BY <1>0 DEF GoodNodes, Fields, Where
<1>2. /\ IsSeq(t) /\ Len(t) = Len(s) /\ t[i] = e
      /\ \A j \in 1..Len(s) : j # i => t[j] = s[j]
  <2>1. IsSeq(s) /\ i \in 1..Len(s)
    BY DEF GoodNodes
  <2> QED BY ONLY <2>1, ExceptIsSeq
<1> HIDE DEF t
<1>3. GoodNodes(t)
  <2>1. ASSUME NEW n \in 1..Len(s)
        PROVE  /\ DOMAIN t[n] = Fields
               /\ t[n].parent \in 0..(n - 1)
               /\ t[n].list \in {0} \cup (n + 1)..Len(s)
               /\ t[n].next \in {0} \cup (n + 1)..Len(s)
    <3>1. CASE n = i
      BY <1>1, <1>2, <3>1 DEF GoodNodes
    <3>2. CASE n # i
      BY <1>2, <3>2 DEF GoodNodes
    <3> QED BY <3>1, <3>2
  <2> QED BY <1>2, <2>1 DEF GoodNodes
<1>4. Alike(s, t) /\ \A n \in 1..Len(s) : t[n].next = IF n = i THEN v ELSE s[n].next
  BY <1>1, <1>2 DEF Alike
<1> QED BY <1>0, <1>3, <1>4 DEF t

LEMMA SetList ==
    ASSUME NEW s, GoodNodes(s), NEW i \in 1..Len(s), NEW v \in {0} \cup (i + 1)..Len(s)
    PROVE  LET t == [s EXCEPT ![i].list = v]
           IN  /\ GoodNodes(t) /\ Alike(s, t)
               /\ \A n \in 1..Len(s) : t[n].next = s[n].next
<1>0. PICK e : e = [s[i] EXCEPT !.list = v]
  OBVIOUS
<1> DEFINE t == [s EXCEPT ![i] = e]
<1>1. /\ DOMAIN e = Fields /\ e.list = v /\ e.parent = s[i].parent /\ e.next = s[i].next
      /\ \A x \in Where : e[x] = s[i][x]
  BY <1>0 DEF GoodNodes, Fields, Where
<1>2. /\ IsSeq(t) /\ Len(t) = Len(s) /\ t[i] = e
      /\ \A j \in 1..Len(s) : j # i => t[j] = s[j]
  <2>1. IsSeq(s) /\ i \in 1..Len(s)
    BY DEF GoodNodes
  <2> QED BY ONLY <2>1, ExceptIsSeq
<1> HIDE DEF t
<1>3. GoodNodes(t)
  <2>1. ASSUME NEW n \in 1..Len(s)
        PROVE  /\ DOMAIN t[n] = Fields
               /\ t[n].parent \in 0..(n - 1)
               /\ t[n].list \in {0} \cup (n + 1)..Len(s)
               /\ t[n].next \in {0} \cup (n + 1)..Len(s)
    <3>1. CASE n = i
      BY <1>1, <1>2, <3>1 DEF GoodNodes
    <3>2. CASE n # i
      BY <1>2, <3>2 DEF GoodNodes
    <3> QED BY <3>1, <3>2
  <2> QED BY <1>2, <2>1 DEF GoodNodes
<1>4. Alike(s, t) /\ \A n \in 1..Len(s) : t[n].next = s[n].next
  BY <1>1, <1>2 DEF Alike
<1> QED BY <1>0, <1>3, <1>4 DEF t

\* A new node may lie below any of the others.
LEMMA AddGoodNode ==
    ASSUME NEW s, GoodNodes(s), NEW e, DOMAIN e = Fields,
           e.parent \in 0..Len(s), e.list = 0, e.next = 0
    PROVE  GoodNodes(Append(s, e))
<1> DEFINE t == Append(s, e)
<1>1. /\ IsSeq(s) /\ Len(s) \in Nat /\ IsSeq(t) /\ Len(t) = Len(s) + 1 /\ t[Len(s) + 1] = e
      /\ \A i \in 1..Len(s) : t[i] = s[i]
  BY AppendSeq DEF GoodNodes, IsSeq
<1> HIDE DEF t
<1>2. ASSUME NEW n \in 1..Len(t)
      PROVE  /\ DOMAIN t[n] = Fields
             /\ t[n].parent \in 0..(n - 1)
             /\ t[n].list \in {0} \cup (n + 1)..Len(t)
             /\ t[n].next \in {0} \cup (n + 1)..Len(t)
  <2>1. CASE n = Len(s) + 1
    BY <1>1, <2>1
  <2>2. CASE n \in 1..Len(s)
    BY <1>1, <2>2 DEF GoodNodes
  <2> QED BY <1>1, <2>1, <2>2
<1> QED BY <1>1, <1>2 DEF GoodNodes, t

\* Properties leave the links alone.
LEMMA SetProperties ==
    ASSUME NEW s, GoodNodes(s), NEW i \in 1..Len(s), NEW e, DOMAIN e = Fields,
           \A x \in Where \cup {"parent", "list", "next"} : e[x] = s[i][x]
    PROVE  GoodNodes([s EXCEPT ![i] = e]) /\ Alike(s, [s EXCEPT ![i] = e])
<1> DEFINE t == [s EXCEPT ![i] = e]
<1>1. /\ IsSeq(t) /\ Len(t) = Len(s) /\ t[i] = e
      /\ \A j \in 1..Len(s) : j # i => t[j] = s[j]
  BY ExceptIsSeq DEF GoodNodes
<1> HIDE DEF t
<1>2. e.parent = s[i].parent /\ e.list = s[i].list /\ e.next = s[i].next
  OBVIOUS
<1>3. GoodNodes(t)
  BY <1>1, <1>2 DEF GoodNodes
<1>4. Alike(s, t)
  BY <1>1 DEF Alike
<1> QED BY <1>3, <1>4 DEF t

LEMMA AlikeTrans ==
    ASSUME NEW s, NEW t, NEW u, Alike(s, t), Alike(t, u)
    PROVE  Alike(s, u)
BY DEF Alike

-----------------------------------------------------------------------------
(***************************************************************************)
(* The blocks.                                                             *)
(***************************************************************************)

LEMMA UnclosedFinite ==
    ASSUME NEW bs \in Seq(BlockRecord)
    PROVE  IsFiniteSet(Unclosed(bs)) /\ Cardinality(Unclosed(bs)) \in Nat
           /\ Cardinality(Unclosed(bs)) <= Len(bs)
<1>1. Len(bs) \in Nat /\ DOMAIN bs = 1..Len(bs)
  BY LenProperties
<1>2. IsFiniteSet(1..Len(bs)) /\ Cardinality(1..Len(bs)) = Len(bs)
  BY <1>1, FS_Interval
<1>3. Unclosed(bs) \subseteq 1..Len(bs)
  BY <1>1 DEF Unclosed
<1> QED BY <1>2, <1>3, FS_Subset, FS_CardinalityType

\* One more block.
LEMMA CountMore ==
    ASSUME NEW a \in Seq(BlockRecord), NEW b \in Seq(BlockRecord), Len(b) = Len(a) + 1,
           \A i \in 1..Len(a) : b[i].end = a[i].end
    PROVE  Cardinality(Unclosed(b)) =
              Cardinality(Unclosed(a)) + (IF b[Len(b)].end = "none" THEN 1 ELSE 0)
<1>1. /\ Len(a) \in Nat /\ DOMAIN a = 1..Len(a) /\ DOMAIN b = 1..(Len(a) + 1)
  BY LenProperties
<1>2. Len(a) + 1 \notin Unclosed(a)
  BY <1>1 DEF Unclosed
<1>3. \A i : i \in DOMAIN b <=> i \in DOMAIN a \/ i = Len(a) + 1
  BY <1>1
<1>4. CASE b[Len(b)].end = "none"
  <2>1. Unclosed(b) = Unclosed(a) \cup {Len(a) + 1}
    BY <1>1, <1>3, <1>4 DEF Unclosed
  <2> QED BY <1>2, <1>4, <2>1, UnclosedFinite, FS_AddElement
<1>5. CASE b[Len(b)].end # "none"
  <2>1. Unclosed(b) = Unclosed(a)
    BY <1>1, <1>3, <1>5 DEF Unclosed
  <2> QED BY <1>5, <2>1, UnclosedFinite
<1> QED BY <1>4, <1>5

LEMMA PushBlock ==
    ASSUME NEW bs, NEW top \in Nat, NEW depth \in Nat, GoodBlocks(bs, top, depth),
           NEW b \in BlockRecord, NEW newTop \in Nat, top <= newTop,
           1 <= b.parent, b.parent <= b.prev, b.prev <= newTop,
           IF b.end = "none" THEN bs[Len(bs)].prev <= b.prev ELSE bs[Len(bs)].prev < b.parent
    PROVE  GoodBlocks(Append(bs, b), newTop, depth + (IF b.end = "none" THEN 1 ELSE 0))
<1> DEFINE t == Append(bs, b)
<1>1. /\ bs \in Seq(BlockRecord) /\ Len(bs) \in Nat /\ Len(bs) > 0
      /\ \A i \in 1..Len(bs) : bs[i] \in BlockRecord
  BY LenProperties, ElementOfSeq DEF GoodBlocks
<1>2. /\ t \in Seq(BlockRecord) /\ Len(t) = Len(bs) + 1 /\ t[Len(bs) + 1] = b
      /\ \A i \in 1..Len(bs) : t[i] = bs[i]
  BY <1>1, AppendProperties
<1> HIDE DEF t
<1>3. Cardinality(Unclosed(t)) = depth + 1 + (IF b.end = "none" THEN 1 ELSE 0)
  BY <1>1, <1>2, CountMore DEF GoodBlocks
<1>4. ASSUME NEW i \in 1..Len(t)
      PROVE  /\ 1 <= t[i].parent /\ t[i].parent <= t[i].prev /\ t[i].prev <= newTop
             /\ i > 1 => IF t[i].end = "none" THEN t[i - 1].prev <= t[i].prev
                         ELSE t[i - 1].prev < t[i].parent
  <2>1. CASE i = Len(bs) + 1
    <3>1. i - 1 = Len(bs) /\ t[i - 1] = bs[Len(bs)] /\ t[i] = b
      BY <1>1, <1>2, <2>1
    <3> QED BY <3>1
  <2>2. CASE i \in 1..Len(bs)
    <3>1. t[i] = bs[i] /\ (i > 1 => t[i - 1] = bs[i - 1])
      BY <1>1, <1>2, <2>2
    <3>2. bs[i].prev \in Nat /\ bs[i].prev <= top
      BY <1>1, <2>2 DEF GoodBlocks, BlockRecord
    <3> QED BY <2>2, <3>1, <3>2 DEF GoodBlocks
  <2> QED BY <1>1, <1>2, <2>1, <2>2
<1>5. t[1].end = "none"
  BY <1>1, <1>2 DEF GoodBlocks
<1> QED BY <1>1, <1>2, <1>3, <1>4, <1>5 DEF GoodBlocks, t

LEMMA PopBlock ==
    ASSUME NEW bs, NEW top \in Nat, NEW depth \in Nat, GoodBlocks(bs, top, depth), Len(bs) > 1
    PROVE  /\ GoodBlocks(Front(bs), top, depth - (IF Last(bs).end = "none" THEN 1 ELSE 0))
           /\ Last(bs) = bs[Len(bs)] /\ Last(Front(bs)) = bs[Len(bs) - 1]
           /\ Len(Front(bs)) = Len(bs) - 1
<1> DEFINE t == Front(bs)
<1>1. /\ bs \in Seq(BlockRecord) /\ Len(bs) \in Nat /\ DOMAIN bs = 1..Len(bs)
      /\ \A i \in 1..Len(bs) : bs[i] \in BlockRecord
  BY LenProperties, ElementOfSeq DEF GoodBlocks
<1>2. /\ t \in Seq(BlockRecord) /\ Len(t) = Len(bs) - 1
      /\ \A i \in 1..(Len(bs) - 1) : t[i] = bs[i]
  <2>1. \A i \in 1..(Len(bs) - 1) : bs[i] \in BlockRecord
    BY <1>1
  <2>2. Len(bs) - 1 \in Int /\ 1 \in Int /\ 1 <= Len(bs) - 1
    BY <1>1
  <2>3. /\ SubSeq(bs, 1, Len(bs) - 1) \in Seq(BlockRecord)
        /\ Len(SubSeq(bs, 1, Len(bs) - 1)) =
              IF 1 <= Len(bs) - 1 THEN (Len(bs) - 1) - 1 + 1 ELSE 0
        /\ \A i \in 1 .. (Len(bs) - 1) - 1 + 1 : SubSeq(bs, 1, Len(bs) - 1)[i] = bs[1 + i - 1]
    BY ONLY <2>1, <2>2, SubSeqProperties
  <2>4. (Len(bs) - 1) - 1 + 1 = Len(bs) - 1 /\ \A i \in 1..(Len(bs) - 1) : 1 + i - 1 = i
    BY <1>1
  <2> QED BY <2>2, <2>3, <2>4 DEF Front
<1> HIDE DEF t
<1>3. Last(bs) = bs[Len(bs)] /\ Last(t) = bs[Len(bs) - 1]
  BY <1>1, <1>2 DEF Last
<1>4. Cardinality(Unclosed(t)) = depth + 1 - (IF Last(bs).end = "none" THEN 1 ELSE 0)
  <2>1. Cardinality(Unclosed(bs)) =
           Cardinality(Unclosed(t)) + (IF bs[Len(bs)].end = "none" THEN 1 ELSE 0)
    BY <1>1, <1>2, CountMore
  <2>2. Cardinality(Unclosed(t)) \in Nat
    BY <1>2, UnclosedFinite
  <2> QED BY <1>3, <2>1, <2>2 DEF GoodBlocks
<1>5. \A i \in 1..Len(t) : i \in 1..Len(bs) /\ t[i] = bs[i] /\ (i > 1 => t[i - 1] = bs[i - 1])
  BY <1>1, <1>2
<1>6. Len(t) > 0 /\ t[1].end = "none"
  BY <1>1, <1>2 DEF GoodBlocks
<1>7. \A i \in 1..Len(t) :
         /\ 1 <= t[i].parent /\ t[i].parent <= t[i].prev /\ t[i].prev <= top
         /\ i > 1 => IF t[i].end = "none" THEN t[i - 1].prev <= t[i].prev
                     ELSE t[i - 1].prev < t[i].parent
  BY <1>5 DEF GoodBlocks
<1>8. GoodBlocks(t, top, depth - (IF Last(bs).end = "none" THEN 1 ELSE 0))
  BY ONLY <1>2, <1>4, <1>6, <1>7, depth \in Nat DEF GoodBlocks
<1> QED BY <1>2, <1>3, <1>8 DEF t

\* A node is added to the innermost block.
LEMMA AdvanceBlock ==
    ASSUME NEW bs, NEW top \in Nat, NEW depth \in Nat, GoodBlocks(bs, top, depth),
           NEW v \in Nat, bs[Len(bs)].prev <= v, v <= top
    PROVE  GoodBlocks(Append(Front(bs), [Last(bs) EXCEPT !.prev = v]), top, depth)
<1> DEFINE l == Len(bs)
<1>1. /\ bs \in Seq(BlockRecord) /\ l \in Nat /\ l > 0 /\ DOMAIN bs = 1..l
      /\ \A i \in 1..l : bs[i] \in BlockRecord
  BY LenProperties, ElementOfSeq DEF GoodBlocks
<1> HIDE DEF l
<1>2. PICK e : e = [Last(bs) EXCEPT !.prev = v]
  OBVIOUS
<1> DEFINE t == Append(Front(bs), e)
<1>3. e \in BlockRecord /\ e.prev = v /\ e.parent = bs[l].parent /\ e.end = bs[l].end
  <2>1. Last(bs) = bs[l] /\ bs[l] \in BlockRecord
    BY <1>1 DEF Last, l
  <2> QED BY <1>2, <2>1 DEF BlockRecord
<1>4. /\ Front(bs) \in Seq(BlockRecord) /\ Len(Front(bs)) = l - 1
      /\ \A i \in 1..(l - 1) : Front(bs)[i] = bs[i]
  <2>1. /\ l - 1 \in 0..Len(bs) /\ IsSeq(bs)
    BY <1>1, SeqIsSeq DEF l
  <2>2. /\ Len(SubSeq(bs, 1, l - 1)) = l - 1
        /\ \A i \in 1..(l - 1) : SubSeq(bs, 1, l - 1)[i] = bs[i]
    BY <2>1, SubSeqIsSeq
  <2>3. \A i \in 1..(l - 1) : bs[i] \in BlockRecord
    BY <1>1
  <2>4. l - 1 \in Int /\ 1 \in Int
    BY <1>1
  <2>5. SubSeq(bs, 1, l - 1) \in Seq(BlockRecord)
    BY ONLY <2>3, <2>4, SubSeqProperties
  <2> QED BY <2>2, <2>5 DEF Front, l
<1>5. /\ t \in Seq(BlockRecord) /\ Len(t) = l
      /\ t[l] = e
      /\ \A i \in 1..(l - 1) : t[i] = bs[i]
  BY <1>1, <1>3, <1>4, AppendProperties
<1> HIDE DEF t
<1>6. Unclosed(t) = Unclosed(bs)
  <2>1. DOMAIN t = DOMAIN bs /\ \A i \in 1..l : i = l \/ i \in 1..(l - 1)
    BY <1>1, <1>5, LenProperties
  <2>2. \A i \in 1..l : t[i].end = bs[i].end
    BY <1>3, <1>5, <2>1
  <2> QED BY <1>1, <2>1, <2>2 DEF Unclosed
<1>7. ASSUME NEW i \in 1..l
      PROVE  /\ 1 <= t[i].parent /\ t[i].parent <= t[i].prev /\ t[i].prev <= top
             /\ i > 1 => IF t[i].end = "none" THEN t[i - 1].prev <= t[i].prev
                         ELSE t[i - 1].prev < t[i].parent
  <2>1. CASE i = l
    <3>1. i > 1 => t[i - 1] = bs[i - 1] /\ bs[i - 1].prev \in Nat
      BY <1>1, <1>5, <2>1 DEF BlockRecord
    <3>2. bs[i].prev \in Nat /\ bs[i].parent \in Nat
      BY <1>1 DEF BlockRecord
    <3> QED BY <1>1, <1>3, <1>5, <2>1, <3>1, <3>2 DEF GoodBlocks, l
  <2>2. CASE i \in 1..(l - 1)
    <3>1. t[i] = bs[i] /\ (i > 1 => t[i - 1] = bs[i - 1])
      BY <1>1, <1>5, <2>2
    <3> QED BY <1>1, <3>1 DEF GoodBlocks, l
  <2> QED BY <1>1, <2>1, <2>2
<1>8. t[1].end = "none"
  <2>1. CASE l = 1
    BY <1>3, <1>5, <2>1 DEF GoodBlocks
  <2>2. CASE l # 1
    BY <1>1, <1>5, <2>2 DEF GoodBlocks
  <2> QED BY <2>1, <2>2
<1>9. GoodBlocks(t, top, depth)
  BY <1>1, <1>5, <1>6, <1>7, <1>8 DEF GoodBlocks
<1> QED BY <1>2, <1>9 DEF t

-----------------------------------------------------------------------------
(***************************************************************************)
(* The actions that change the tree.                                       *)
(***************************************************************************)

\* What the tree looks like while it grows.
LEMMA Before ==
    ASSUME IInv, Growing
    PROVE  /\ DOMAIN heap = {"nodes", "items"} /\ GoodNodes(heap.nodes)
           /\ IsSeq(origin) /\ Len(origin) = Len(heap.nodes) /\ DOMAIN origin = 1..Len(heap.nodes)
           /\ Len(heap.nodes) \in Nat /\ Len(heap.nodes) > 0
           /\ Len(filestack) \in Nat /\ Top \in Nat /\ Top <= Len(heap.nodes)
           /\ GoodBlocks(blocks, Top, Len(filestack)) /\ Len(blocks) \in Nat /\ Len(blocks) > 0
           /\ Block = blocks[Len(blocks)] /\ Block \in BlockRecord
           /\ 1 <= Block.parent /\ Block.parent <= Block.prev /\ Block.prev <= Top
<1>1. /\ DOMAIN heap = {"nodes", "items"} /\ GoodNodes(heap.nodes) /\ Alike(origin, heap.nodes)
      /\ Len(origin) > 0 /\ IsSeq(origin)
  BY DEF IInv, TreeInv, NodeInv
<1>2. Len(origin) = Len(heap.nodes) /\ Len(heap.nodes) \in Nat /\ Len(heap.nodes) > 0
      /\ DOMAIN origin = 1..Len(heap.nodes)
  BY <1>1 DEF Alike, IsSeq
<1>3. Len(filestack) \in Nat
  BY DEF IInv, PositionInv, StackInv, IsSeq
<1>4. Top \in Nat /\ Top <= Len(heap.nodes)
  BY <1>2 DEF Top
<1>5. GoodBlocks(blocks, Top, Len(filestack))
  BY DEF IInv, TreeInv, BlockInv
<1>6. /\ Len(blocks) \in Nat /\ Len(blocks) > 0
      /\ Block = blocks[Len(blocks)] /\ Block \in BlockRecord
      /\ 1 <= Block.parent /\ Block.parent <= Block.prev /\ Block.prev <= Top
  <2>1. blocks \in Seq(BlockRecord) /\ Len(blocks) > 0 /\ Len(blocks) \in Nat
    BY <1>5, LenProperties DEF GoodBlocks
  <2>2. Len(blocks) \in 1..Len(blocks) /\ Block = blocks[Len(blocks)]
    BY <2>1 DEF Block, Last
  <2>3. Block \in BlockRecord
    BY <2>1, <2>2, ElementOfSeq
  <2> QED BY <1>5, <2>1, <2>2, <2>3 DEF GoodBlocks
<1> QED BY <1>1, <1>2, <1>3, <1>4, <1>5, <1>6

\* The line that defines a node.
Defines(node, l) ==
    /\ l[1] \in IF node.kind = "if" THEN {"if"} ELSE {k \in DOMAIN Kinds : Kinds[k] = node.kind}
    /\ node.item # "" => l[2] = node.item

Located(node, txt) ==
    node.line \in DOMAIN txt[node.file].lines /\ Defines(node, txt[node.file].lines[node.line])

LEMMA LocatedNodes == NodesLocated <=> \A n \in 2..Len(origin) : Located(origin[n], text)
BY DEF NodesLocated, Located, Defines

LEMMA LocatedNodesAfter == NodesLocated' <=> \A n \in 2..Len(origin') : Located(origin'[n], text')
BY DEF NodesLocated, Located, Defines

\* Nodes stay where they are while files get longer.
LEMMA LocatedKept ==
    ASSUME IInv, TextGrows, TextInv', IsSeq(origin'), Alike(origin, origin')
    PROVE  NodesLocated' /\ \A n \in DOMAIN origin' : origin'[n].file \in DOMAIN text'
<1>1. Len(origin') = Len(origin) /\ Len(origin) \in Nat /\ DOMAIN origin = 1..Len(origin)
      /\ DOMAIN origin' = 1..Len(origin)
  BY DEF IInv, TreeInv, NodeInv, IsSeq, Alike
<1>2. ASSUME NEW n \in 1..Len(origin)
      PROVE  /\ origin'[n].file = origin[n].file /\ origin'[n].line = origin[n].line
             /\ origin'[n].kind = origin[n].kind /\ origin'[n].item = origin[n].item
             /\ origin[n].file \in DOMAIN text /\ origin[n].file \in DOMAIN text'
  BY <1>1, <1>2 DEF Alike, Where, IInv, TreeInv, NodeInv, TextGrows
<1>3. ASSUME NEW n \in 2..Len(origin)
      PROVE  Located(origin'[n], text')
  <2> DEFINE f == origin[n].file
  <2>1. f \in DOMAIN text /\ f \in DOMAIN text'
    BY <1>1, <1>2
  <2>2. /\ DOMAIN text[f].lines = 1..Len(text[f].lines) /\ Len(text[f].lines) \in Nat
        /\ DOMAIN text'[f].lines = 1..Len(text'[f].lines) /\ Len(text'[f].lines) \in Nat
    BY <2>1, LinesFacts, LinesAfter DEF IInv, PositionInv
  <2>3. origin[n].line \in DOMAIN text[f].lines /\ Defines(origin[n], text[f].lines[origin[n].line])
    BY <1>3, LocatedNodes DEF IInv, TreeInv, Located
  <2> HIDE DEF f
  <2>4. origin[n].line \in DOMAIN text'[f].lines
    BY <2>1, <2>2, <2>3 DEF TextGrows
  <2>5. text'[f].lines[origin[n].line] = text[f].lines[origin[n].line]
    BY <2>1, <2>2, <2>3 DEF TextGrows
  <2>6. /\ origin'[n].file = f /\ origin'[n].line = origin[n].line
        /\ origin'[n].kind = origin[n].kind /\ origin'[n].item = origin[n].item
    BY <1>1, <1>2 DEF f
  <2> QED BY <2>3, <2>4, <2>5, <2>6 DEF Located, Defines
<1> QED BY <1>1, <1>2, <1>3, LocatedNodesAfter

\* A step of the tree whose nodes, if they change, stay alike.
LEMMA TreeAfter ==
    ASSUME IInv, TextGrows, TextInv', Growing, origin' = origin,
           DOMAIN heap' = {"nodes", "items"}, GoodNodes(heap'.nodes),
           Alike(heap.nodes, heap'.nodes),
           props' # 0 => props' = Len(heap'.nodes),
           GoodBlocks(blocks', Top', Len(filestack'))
    PROVE  TreeInv'
<1>1. IsSeq(origin) /\ Alike(origin, origin)
  BY Before DEF Alike
<1>2. NodesLocated' /\ \A n \in DOMAIN origin' : origin'[n].file \in DOMAIN text'
  BY <1>1, LocatedKept
<1>3. Alike(origin, heap.nodes) /\ Len(origin) > 0
  BY DEF IInv, TreeInv, NodeInv
<1>4. Alike(origin, heap'.nodes)
  BY <1>3, AlikeTrans
<1> QED BY <1>1, <1>2, <1>3, <1>4 DEF TreeInv, NodeInv, BlockInv

\* A node is added for the line at the current position.
LEMMA NodeAdded ==
    ASSUME IInv, InBlock, Keyword # "eof", TextInv', text' = text,
           NEW node, AddNode(node), DOMAIN node = Fields,
           node.parent = Block.parent, node.list = 0, node.next = 0,
           node.file = filename, node.line = linenr,
           Defines(node, line)
    PROVE  NodeInv' /\ NodesLocated' /\ Len(heap'.nodes) = Len(heap.nodes) + 1
<1>1. Growing /\ Fetched
  BY DEF InBlock, Fetched, Growing
<1>2. /\ DOMAIN heap = {"nodes", "items"} /\ GoodNodes(heap.nodes) /\ IsSeq(heap.nodes)
      /\ IsSeq(origin) /\ Len(origin) = Len(heap.nodes) /\ DOMAIN origin = 1..Len(heap.nodes)
      /\ Len(heap.nodes) \in Nat /\ Len(heap.nodes) > 0
      /\ Block.parent \in 0..Len(heap.nodes)
  BY <1>1, Before DEF GoodNodes, BlockRecord
<1>3. /\ filename \in DOMAIN text /\ linenr \in DOMAIN text[filename].lines
      /\ line = text[filename].lines[linenr]
  BY <1>1, AtLine, LinesFacts DEF IInv, PositionInv
<1>4. /\ DOMAIN heap' = {"nodes", "items"} /\ heap'.nodes = Append(heap.nodes, node)
      /\ origin' = Append(origin, node)
  BY <1>2 DEF AddNode
<1>5. /\ GoodNodes(heap'.nodes)
  BY <1>2, <1>4, AddGoodNode
<1>6. /\ Len(heap'.nodes) = Len(heap.nodes) + 1 /\ heap'.nodes[Len(heap.nodes) + 1] = node
      /\ \A i \in 1..Len(heap.nodes) : heap'.nodes[i] = heap.nodes[i]
  BY <1>2, <1>4, AppendSeq
<1>7. /\ IsSeq(origin') /\ Len(origin') = Len(heap.nodes) + 1
      /\ origin'[Len(heap.nodes) + 1] = node
      /\ \A i \in 1..Len(heap.nodes) : origin'[i] = origin[i]
  BY <1>2, <1>4, AppendSeq
<1>8. \A n \in 1..(Len(heap.nodes) + 1) : n \in 1..Len(heap.nodes) \/ n = Len(heap.nodes) + 1
  BY <1>2
<1>9. Alike(origin', heap'.nodes)
  <2>1. Alike(origin, heap.nodes)
    BY <1>1 DEF IInv, TreeInv, NodeInv
  <2> QED BY <1>2, <1>6, <1>7, <1>8, <2>1 DEF Alike
<1>10. NodeInv'
  <2>1. DOMAIN origin' = 1..(Len(heap.nodes) + 1)
    BY <1>7 DEF IsSeq
  <2>2. \A n \in 1..Len(heap.nodes) : origin[n].file \in DOMAIN text
    BY <1>2 DEF IInv, TreeInv, NodeInv
  <2>3. \A n \in DOMAIN origin' : origin'[n].file \in DOMAIN text'
    BY <1>3, <1>7, <1>8, <2>1, <2>2
  <2>4. Len(origin') > 0
    BY <1>2, <1>7
  <2> QED BY <1>4, <1>5, <1>7, <1>9, <2>3, <2>4 DEF NodeInv
<1>11. NodesLocated'
  <2>1. ASSUME NEW n \in 2..Len(origin')
        PROVE  Located(origin'[n], text)
    <3>1. CASE n = Len(heap.nodes) + 1
      BY <1>3, <1>7, <3>1 DEF Located
    <3>2. CASE n \in 1..Len(heap.nodes)
      <4>1. origin'[n] = origin[n] /\ n \in 2..Len(origin)
        BY <1>2, <1>7, <2>1, <3>2
      <4> QED BY <4>1, LocatedNodes DEF IInv, TreeInv
    <3> QED BY <1>2, <1>7, <1>8, <2>1, <3>1, <3>2
  <2> QED BY <2>1, LocatedNodesAfter
<1> QED BY <1>6, <1>10, <1>11

LEMMA EntryTree == IInv /\ Entry /\ TextInv' => TreeInv'
<1> SUFFICES ASSUME IInv, Entry, TextInv' PROVE TreeInv'
  OBVIOUS
<1>1. /\ InBlock /\ Keyword \in DOMAIN Kinds /\ Keyword # "eof" /\ Growing /\ props = 0
      /\ text' = text /\ filestack' = filestack /\ blocks' = blocks
      /\ props' = Len(heap.nodes) + 1
  BY DEF Entry, Kinds, InBlock, Fetched, Growing, position
<1>2. PICK node :
        /\ AddNode(node)
        /\ node = LET kind == Kinds[Keyword]
                      item == IF kind \in {"symbol", "choice"} THEN line[2] ELSE ""
                  IN  NewNode(kind, item, Block.parent, filename, linenr)
  BY DEF Entry
<1>3. /\ DOMAIN node = Fields /\ node.parent = Block.parent /\ node.list = 0 /\ node.next = 0
      /\ node.file = filename /\ node.line = linenr /\ node.kind = Kinds[Keyword]
      /\ node.item \in {"", line[2]}
  BY <1>2 DEF NewNode, Fields
<1>4. Kinds[Keyword] # "if"
  BY <1>1 DEF Kinds
<1>5. Defines(node, line)
  BY <1>1, <1>3, <1>4 DEF Defines, Keyword
<1>6. NodeInv' /\ NodesLocated' /\ Len(heap'.nodes) = Len(heap.nodes) + 1
  BY <1>1, <1>2, <1>3, <1>5, NodeAdded
<1>7. BlockInv'
  <2>1. Top = Len(heap.nodes) /\ Len(heap.nodes) \in Nat
    BY <1>1, Before DEF Top
  <2>2. Top' = Len(heap.nodes)
    BY <1>1, <1>6, <2>1 DEF Top
  <2> QED BY <1>1, <1>6, <2>1, <2>2, Before DEF BlockInv
<1> QED BY <1>6, <1>7 DEF TreeInv

LEMMA FailTree == IInv /\ Fail /\ Growing => TreeInv'
<1> SUFFICES ASSUME IInv, Fail, Growing PROVE TreeInv'
  OBVIOUS
<1>1. /\ UNCHANGED <<text, filestack, heap, origin, blocks, props>> /\ Top' = Top
  BY DEF Fail, position, Top
<1>2. NodeInv' /\ NodesLocated'
  BY <1>1 DEF IInv, TreeInv, NodeInv, NodesLocated
<1>3. BlockInv'
  BY <1>1 DEF IInv, TreeInv, BlockInv
<1> QED BY <1>2, <1>3 DEF TreeInv

LEMMA IfTree == IInv /\ If /\ TextInv' => TreeInv'
<1> SUFFICES ASSUME IInv, If, TextInv', ~Fail PROVE TreeInv'
  BY FailTree DEF If, InBlock, Fetched, Growing
<1> DEFINE n == Len(heap.nodes) + 1
           b == [end |-> "endif", parent |-> n, prev |-> n]
<1>1. /\ InBlock /\ Keyword = "if" /\ Keyword # "eof" /\ Growing /\ props = 0
      /\ text' = text /\ filestack' = filestack
      /\ props' = props /\ blocks' = Append(blocks, b)
  BY DEF If, OpenIf, InBlock, Fetched, Growing, position
<1>2. PICK e :
        AddNode([NewNode("if", "", Block.parent, filename, linenr) EXCEPT !.dep = e])
  BY DEF If, OpenIf
<1>3. PICK node : node = [NewNode("if", "", Block.parent, filename, linenr) EXCEPT !.dep = e]
  OBVIOUS
<1>4. /\ DOMAIN node = Fields /\ node.parent = Block.parent /\ node.list = 0 /\ node.next = 0
      /\ node.file = filename /\ node.line = linenr /\ node.kind = "if" /\ node.item = ""
  BY <1>3 DEF NewNode, Fields
<1>5. Defines(node, line)
  BY <1>1, <1>4 DEF Defines, Keyword
<1>6. NodeInv' /\ NodesLocated' /\ Len(heap'.nodes) = Len(heap.nodes) + 1
  BY <1>1, <1>2, <1>3, <1>4, <1>5, NodeAdded
<1>7. BlockInv'
  <2>1. /\ Top = Len(heap.nodes) /\ Len(heap.nodes) \in Nat /\ Len(filestack) \in Nat
        /\ GoodBlocks(blocks, Top, Len(filestack))
        /\ blocks[Len(blocks)].prev \in Nat /\ blocks[Len(blocks)].prev <= Top
    BY <1>1, Before DEF Top, BlockRecord
  <2>2. Top' = n
    BY <1>1, <1>6, <2>1 DEF Top
  <2>3. b \in BlockRecord /\ b.parent = n /\ b.prev = n /\ b.end = "endif" /\ n \in Nat
    BY <2>1 DEF BlockRecord
  <2> HIDE DEF b
  <2>4. GoodBlocks(Append(blocks, b), n, Len(filestack) + (IF b.end = "none" THEN 1 ELSE 0))
    BY <2>1, <2>3, PushBlock
  <2> QED BY <1>1, <2>1, <2>2, <2>3, <2>4 DEF BlockInv
<1> QED BY <1>6, <1>7 DEF TreeInv

LEMMA SourceTree == IInv /\ Source /\ TextInv' /\ TextGrows => TreeInv'
<1> SUFFICES ASSUME IInv, Source, TextInv', TextGrows, ~Fail PROVE TreeInv'
  BY FailTree DEF Source, InBlock, Fetched, Growing
<1> DEFINE b == [Block EXCEPT !.end = "none"]
<1>1. /\ InBlock /\ Growing /\ props = 0 /\ UNCHANGED <<heap, origin, props>>
      /\ filestack' = Append(filestack, <<includePath, reading>>)
      /\ blocks' = Append(blocks, b)
  BY DEF Source, EnterFile, InBlock, Fetched, Growing
<1>2. /\ DOMAIN heap = {"nodes", "items"} /\ GoodNodes(heap.nodes)
      /\ Top \in Nat /\ Len(filestack) \in Nat
      /\ GoodBlocks(blocks, Top, Len(filestack))
      /\ Block = blocks[Len(blocks)] /\ Block \in BlockRecord
      /\ 1 <= Block.parent /\ Block.parent <= Block.prev /\ Block.prev <= Top
  BY <1>1, Before
<1>3. Len(filestack') = Len(filestack) + 1
  BY <1>1, AppendSeq DEF IInv, PositionInv, StackInv
<1>4. /\ b \in BlockRecord /\ b.end = "none" /\ b.parent = Block.parent /\ b.prev = Block.prev
  BY <1>2 DEF BlockRecord
<1> HIDE DEF b
<1>5. Block.prev \in Nat /\ Block.parent \in Nat
  BY <1>2 DEF BlockRecord
<1>6. GoodBlocks(Append(blocks, b), Top, Len(filestack) + (IF b.end = "none" THEN 1 ELSE 0))
  BY <1>2, <1>4, <1>5, PushBlock
<1>7. Top' = Top
  BY <1>1 DEF Top
<1>8. GoodBlocks(blocks', Top', Len(filestack'))
  BY <1>1, <1>3, <1>4, <1>6, <1>7
<1>9. Alike(heap.nodes, heap'.nodes)
  BY <1>1 DEF Alike
<1> QED BY <1>1, <1>2, <1>8, <1>9, TreeAfter

\* There is an outer block to go back to.
LEMMA OuterBlock ==
    ASSUME NEW bs, NEW top \in Nat, NEW depth \in Nat, GoodBlocks(bs, top, depth),
           bs[Len(bs)].end # "none" \/ depth > 0
    PROVE  Len(bs) \in Nat /\ Len(bs) > 1
<1>1. Len(bs) \in Nat /\ Len(bs) > 0 /\ bs \in Seq(BlockRecord) /\ bs[1].end = "none"
  BY LenProperties DEF GoodBlocks
<1>2. ASSUME depth > 0 PROVE Len(bs) > 1
  BY <1>1, <1>2, UnclosedFinite DEF GoodBlocks
<1>3. ASSUME bs[Len(bs)].end # "none" PROVE Len(bs) # 1
  BY <1>1, <1>3
<1> QED BY <1>1, <1>2, <1>3

LEMMA LeaveTree == IInv /\ LeaveFile /\ TextInv' /\ TextGrows => TreeInv'
<1> SUFFICES ASSUME IInv, LeaveFile, TextInv', TextGrows PROVE TreeInv'
  OBVIOUS
<1>1. /\ Growing /\ props = 0 /\ UNCHANGED <<heap, origin, props>>
      /\ filestack' = Front(filestack) /\ filestack # <<>> /\ Block.end = "none"
      /\ blocks' = Append(Front(Front(blocks)), [Last(Front(blocks)) EXCEPT !.prev = Block.prev])
  BY DEF LeaveFile, InBlock, Fetched, Growing
<1>2. /\ DOMAIN heap = {"nodes", "items"} /\ GoodNodes(heap.nodes)
      /\ Top \in Nat /\ Len(filestack) \in Nat
      /\ GoodBlocks(blocks, Top, Len(filestack))
      /\ Block = blocks[Len(blocks)] /\ Block \in BlockRecord /\ Block.prev <= Top
  BY <1>1, Before
<1>3. IsSeq(filestack) /\ Len(filestack) > 0
  <2>1. IsSeq(filestack)
    BY DEF IInv, PositionInv, StackInv
  <2>2. Len(filestack) # 0
    BY <1>1, <2>1, EmptySeq, SameSeq DEF IsSeq
  <2> QED BY <1>2, <2>1, <2>2
<1>4. Len(filestack') = Len(filestack) - 1
  <2>1. Len(filestack) - 1 \in 0..Len(filestack)
    BY <1>2, <1>3
  <2> QED BY <1>1, <1>3, <2>1, SubSeqIsSeq DEF Front
<1>5. Len(blocks) > 1 /\ Len(blocks) \in Nat
  BY <1>2, <1>3, OuterBlock
<1>6. PICK bs : bs = Front(blocks)
  OBVIOUS
<1>7. /\ GoodBlocks(bs, Top, Len(filestack) - 1)
      /\ Len(bs) = Len(blocks) - 1 /\ Last(bs) = blocks[Len(blocks) - 1] /\ Last(bs) = bs[Len(bs)]
  <2>1. /\ GoodBlocks(bs, Top, Len(filestack) - (IF Last(blocks).end = "none" THEN 1 ELSE 0))
        /\ Len(bs) = Len(blocks) - 1 /\ Last(bs) = blocks[Len(blocks) - 1]
    BY <1>2, <1>5, <1>6, PopBlock
  <2>2. Last(blocks).end = "none" /\ Last(bs) = bs[Len(bs)]
    BY <1>1 DEF Block, Last
  <2> QED BY <2>1, <2>2
<1>8. bs[Len(bs)].prev <= Block.prev /\ Block.prev \in Nat
  <2>1. Len(blocks) \in 1..Len(blocks) /\ blocks[Len(blocks)].end = "none"
    BY <1>1, <1>2, <1>5
  <2>2. blocks[Len(blocks) - 1].prev <= blocks[Len(blocks)].prev
    BY <1>2, <1>5, <2>1 DEF GoodBlocks
  <2> QED BY <1>2, <1>7, <2>2 DEF BlockRecord
<1>9. Len(filestack) - 1 \in Nat
  BY <1>2, <1>3
<1>10. GoodBlocks(Append(Front(bs), [Last(bs) EXCEPT !.prev = Block.prev]), Top, Len(filestack) - 1)
  BY <1>2, <1>7, <1>8, <1>9, AdvanceBlock
<1>11. Top' = Top
  BY <1>1 DEF Top
<1>12. GoodBlocks(blocks', Top', Len(filestack'))
  BY <1>1, <1>4, <1>6, <1>10, <1>11
<1>13. Alike(heap.nodes, heap'.nodes)
  BY <1>1 DEF Alike
<1> QED BY <1>1, <1>2, <1>12, <1>13, TreeAfter

LEMMA EndBlockTree == IInv /\ EndBlock /\ TextInv' /\ TextGrows => TreeInv'
<1> SUFFICES ASSUME IInv, EndBlock, TextInv', TextGrows PROVE TreeInv'
  OBVIOUS
<1> DEFINE s == heap.nodes
           n == Block.parent
           ended == [s EXCEPT ![Block.prev].next = 0]
           up == [ended EXCEPT ![n].list = ended[n].next]
           outer == Last(Front(blocks))
           all == [up EXCEPT ![outer.prev].next = n]
<1>1. /\ Growing /\ props = 0 /\ UNCHANGED <<origin, props, filestack>> /\ Block.end # "none"
      /\ heap' = [heap EXCEPT !.nodes = all]
      /\ blocks' = Append(Front(Front(blocks)), [outer EXCEPT !.prev = n])
  BY DEF EndBlock, InBlock, Fetched, Growing, position
<1>2. /\ DOMAIN heap = {"nodes", "items"} /\ GoodNodes(s) /\ Len(s) \in Nat
      /\ Len(filestack) \in Nat /\ Top = Len(s)
      /\ GoodBlocks(blocks, Top, Len(filestack))
      /\ Block = blocks[Len(blocks)] /\ Block \in BlockRecord
      /\ 1 <= Block.parent /\ Block.parent <= Block.prev /\ Block.prev <= Len(s)
  BY <1>1, Before DEF Top
<1>3. Len(blocks) > 1 /\ Len(blocks) \in Nat
  BY <1>1, <1>2, OuterBlock
<1>4. PICK bs : bs = Front(blocks)
  OBVIOUS
<1>5. /\ GoodBlocks(bs, Top, Len(filestack))
      /\ outer = blocks[Len(blocks) - 1] /\ outer = bs[Len(bs)] /\ outer = Last(bs)
  <2>1. /\ GoodBlocks(bs, Top, Len(filestack) - (IF Last(blocks).end = "none" THEN 1 ELSE 0))
        /\ Last(bs) = blocks[Len(blocks) - 1]
    BY <1>2, <1>3, <1>4, PopBlock
  <2>2. Last(blocks).end # "none" /\ Last(bs) = bs[Len(bs)]
    BY <1>1 DEF Block, Last
  <2> QED BY <1>2, <1>4, <2>1, <2>2
<1>6. /\ outer.prev < n /\ outer.prev \in Nat /\ n \in Nat /\ 1 <= outer.prev /\ n <= Len(s)
      /\ Block.prev \in Nat
  <2>1. Len(blocks) \in 1..Len(blocks) /\ Len(blocks) - 1 \in 1..Len(blocks)
    BY <1>3
  <2>2. blocks[Len(blocks) - 1].prev < blocks[Len(blocks)].parent
    BY <1>1, <1>2, <1>3, <2>1 DEF GoodBlocks
  <2>3. outer \in BlockRecord /\ 1 <= outer.parent /\ outer.parent <= outer.prev
    <3>1. blocks \in Seq(BlockRecord)
      BY <1>2 DEF GoodBlocks
    <3>2. blocks[Len(blocks) - 1] \in BlockRecord
      BY <2>1, <3>1, ElementOfSeq
    <3>3. /\ 1 <= blocks[Len(blocks) - 1].parent
          /\ blocks[Len(blocks) - 1].parent <= blocks[Len(blocks) - 1].prev
      BY <1>2, <2>1 DEF GoodBlocks
    <3> HIDE DEF outer
    <3> QED BY <1>5, <3>2, <3>3
  <2> QED BY <1>2, <1>5, <2>2, <2>3 DEF BlockRecord
<1> HIDE DEF outer, n, s
<1>7. GoodNodes(ended) /\ Alike(s, ended)
  <2>1. Block.prev \in 1..Len(s) /\ 0 \in {0} \cup (Block.prev + 1)..Len(s)
    BY <1>2, <1>6 DEF n
  <2> QED BY <1>2, <2>1, SetNext
<1> HIDE DEF ended
<1>8. GoodNodes(up) /\ Alike(ended, up)
  <2>1. n \in 1..Len(ended) /\ ended[n].next \in {0} \cup (n + 1)..Len(ended)
    <3>1. Len(ended) = Len(s) /\ n \in 1..Len(ended)
      BY <1>2, <1>6, <1>7 DEF Alike, n
    <3> QED BY <1>7, <3>1 DEF GoodNodes
  <2> QED BY <1>7, <2>1, SetList
<1> HIDE DEF up
<1>9. GoodNodes(all) /\ Alike(up, all)
  <2>1. Len(up) = Len(s)
    BY <1>7, <1>8 DEF Alike
  <2>2. outer.prev \in 1..Len(up) /\ n \in {0} \cup (outer.prev + 1)..Len(up)
    BY <1>2, <1>6, <2>1
  <2> QED BY <1>8, <2>2, SetNext
<1> HIDE DEF all
<1>10. Alike(s, all) /\ Len(all) = Len(s)
  <2>1. Alike(s, up)
    BY <1>7, <1>8, AlikeTrans
  <2>2. Alike(s, all)
    BY <1>9, <2>1, AlikeTrans
  <2> QED BY <2>2 DEF Alike
<1>11. DOMAIN heap' = {"nodes", "items"} /\ heap'.nodes = all
  BY <1>1, <1>2 DEF s
<1>12. Top' = Top
  BY <1>1, <1>10, <1>11 DEF Top, s
<1>13. GoodBlocks(blocks', Top', Len(filestack'))
  <2>1. GoodBlocks(Append(Front(bs), [Last(bs) EXCEPT !.prev = n]), Top, Len(filestack))
    <3>1. n \in Nat /\ bs[Len(bs)].prev <= n /\ n <= Top /\ Top \in Nat
      BY <1>2, <1>5, <1>6
    <3> QED BY <1>2, <1>5, <3>1, AdvanceBlock
  <2> QED BY <1>1, <1>4, <1>5, <1>12, <2>1
<1> QED BY <1>1, <1>9, <1>10, <1>11, <1>13, TreeAfter DEF s

LEMMA EndOfTopFileTree == IInv /\ EndOfTopFile /\ TextInv' /\ TextGrows => TreeInv'
<1> SUFFICES ASSUME IInv, EndOfTopFile, TextInv', TextGrows PROVE TreeInv'
  OBVIOUS
<1> DEFINE s == heap.nodes
           ended == [s EXCEPT ![Block.prev].next = 0]
           up == [ended EXCEPT ![1].list = ended[1].next]
           all == [up EXCEPT ![1].next = 0]
<1>1. /\ Growing /\ props = 0 /\ UNCHANGED <<origin, props, filestack, blocks>>
      /\ heap' = [heap EXCEPT !.nodes = all]
  BY DEF EndOfTopFile, InBlock, Fetched, Growing, position
<1>2. /\ DOMAIN heap = {"nodes", "items"} /\ GoodNodes(s) /\ Len(s) \in Nat /\ Len(s) > 0
      /\ Top = Len(s) /\ GoodBlocks(blocks, Top, Len(filestack))
      /\ Block.prev \in 1..Len(s)
  BY <1>1, Before DEF Top, BlockRecord
<1> HIDE DEF s
<1>3. GoodNodes(ended) /\ Alike(s, ended)
  BY <1>2, SetNext
<1> HIDE DEF ended
<1>4. GoodNodes(up) /\ Alike(ended, up)
  <2>1. 1 \in 1..Len(ended)
    BY <1>2, <1>3 DEF Alike
  <2>2. ended[1].next \in {0} \cup (1 + 1)..Len(ended)
    BY <1>3, <2>1 DEF GoodNodes
  <2> QED BY <1>3, <2>1, <2>2, SetList
<1> HIDE DEF up
<1>5. GoodNodes(all) /\ Alike(up, all)
  <2>1. 1 \in 1..Len(up)
    BY <1>2, <1>3, <1>4 DEF Alike
  <2> QED BY <1>4, <2>1, SetNext
<1> HIDE DEF all
<1>6. Alike(s, all) /\ Len(all) = Len(s)
  <2>1. Alike(s, up)
    BY <1>3, <1>4, AlikeTrans
  <2>2. Alike(s, all)
    BY <1>5, <2>1, AlikeTrans
  <2> QED BY <2>2 DEF Alike
<1>7. DOMAIN heap' = {"nodes", "items"} /\ heap'.nodes = all
  BY <1>1, <1>2 DEF s
<1>8. Top' = Top
  BY <1>1, <1>6, <1>7 DEF Top, s
<1> QED BY <1>1, <1>2, <1>5, <1>6, <1>7, <1>8, TreeAfter DEF s

LEMMA EndOfPropertiesTree == IInv /\ EndOfProperties /\ TextInv' /\ TextGrows => TreeInv'
<1> SUFFICES ASSUME IInv, EndOfProperties, TextInv', TextGrows PROVE TreeInv'
  OBVIOUS
<1> DEFINE s == heap.nodes
<1>1. /\ Growing /\ props # 0 /\ props' = 0 /\ UNCHANGED <<origin, filestack>>
  BY DEF EndOfProperties, InProps, Fetched, Growing, position
<1>2. /\ DOMAIN heap = {"nodes", "items"} /\ GoodNodes(s) /\ Len(s) \in Nat /\ Len(s) > 0
      /\ props = Len(s) /\ Top = Len(s) - 1 /\ Top \in Nat /\ Len(filestack) \in Nat
      /\ GoodBlocks(blocks, Top, Len(filestack))
      /\ Block = blocks[Len(blocks)] /\ Block \in BlockRecord
      /\ Block.prev \in 1..(Len(s) - 1) /\ Block.prev \in Nat
  <2>1. props = Len(s)
    BY <1>1 DEF IInv, TreeInv, BlockInv
  <2> QED BY <1>1, <2>1, Before DEF Top, BlockRecord
<1> HIDE DEF s
<1>3. CASE Node.kind \in {"menu", "choice"}
  <2> DEFINE b == [end |-> IF Node.kind = "menu" THEN "endmenu" ELSE "endchoice",
                   parent |-> props, prev |-> props]
  <2>1. blocks' = Append(blocks, b) /\ heap' = heap
    BY <1>3 DEF EndOfProperties
  <2>2. b \in BlockRecord /\ b.end # "none" /\ b.parent = Len(s) /\ b.prev = Len(s)
    BY <1>2 DEF BlockRecord
  <2> HIDE DEF b
  <2>3. Top' = Len(s)
    BY <1>1, <2>1 DEF Top, s
  <2>4. GoodBlocks(Append(blocks, b), Len(s), Len(filestack) + (IF b.end = "none" THEN 1 ELSE 0))
    BY <1>2, <2>2, PushBlock
  <2>5. GoodBlocks(blocks', Top', Len(filestack'))
    BY <1>1, <1>2, <2>1, <2>2, <2>3, <2>4
  <2>6. Alike(heap.nodes, heap'.nodes)
    BY <2>1 DEF Alike
  <2> QED BY <1>1, <1>2, <2>1, <2>5, <2>6, TreeAfter DEF s
<1>4. CASE Node.kind \notin {"menu", "choice"}
  <2> DEFINE t == [s EXCEPT ![Block.prev].next = props]
  <2>1. /\ heap' = [heap EXCEPT !.nodes = t]
        /\ blocks' = Append(Front(blocks), [Last(blocks) EXCEPT !.prev = props])
    BY <1>4 DEF EndOfProperties, Block, s
  <2>2. GoodNodes(t) /\ Alike(s, t) /\ Len(t) = Len(s)
    <3>1. Block.prev \in 1..Len(s) /\ props \in {0} \cup (Block.prev + 1)..Len(s)
      BY <1>2
    <3>2. GoodNodes(t) /\ Alike(s, t)
      BY <1>2, <3>1, SetNext
    <3> QED BY <3>2 DEF Alike
  <2> HIDE DEF t
  <2>3. DOMAIN heap' = {"nodes", "items"} /\ heap'.nodes = t
    BY <1>2, <2>1 DEF s
  <2>4. Top' = Len(s)
    BY <1>1, <2>2, <2>3 DEF Top
  <2>5. GoodBlocks(blocks, Len(s), Len(filestack))
    <3>1. /\ blocks \in Seq(BlockRecord) /\ \A i \in 1..Len(blocks) : blocks[i] \in BlockRecord
      BY <1>2, ElementOfSeq DEF GoodBlocks
    <3>2. \A i \in 1..Len(blocks) : blocks[i].prev <= Len(s)
      <4> SUFFICES ASSUME NEW i \in 1..Len(blocks) PROVE blocks[i].prev <= Len(s)
        OBVIOUS
      <4>1. blocks[i].prev \in Nat /\ blocks[i].prev <= Top
        BY <1>2, <3>1 DEF GoodBlocks, BlockRecord
      <4> QED BY <1>2, <4>1
    <3> QED BY <1>2, <3>2 DEF GoodBlocks
  <2>6. GoodBlocks(Append(Front(blocks), [Last(blocks) EXCEPT !.prev = props]), Len(s), Len(filestack))
    <3>1. props \in Nat /\ blocks[Len(blocks)].prev <= props /\ props <= Len(s)
      BY <1>2
    <3> QED BY <1>2, <2>5, <3>1, AdvanceBlock
  <2>7. GoodBlocks(blocks', Top', Len(filestack'))
    BY <1>1, <2>1, <2>4, <2>6
  <2> QED BY <1>1, <2>2, <2>3, <2>7, TreeAfter DEF s
<1> QED BY <1>3, <1>4

\* A property says nothing about where a node is or what it is linked to.
LEMMA WithFacts ==
    ASSUME NEW node, DOMAIN node = Fields, NEW value, NEW cond
    PROVE  /\ DOMAIN With(node, value, cond) = Fields
           /\ \A x \in Where \cup {"parent", "list", "next"} : With(node, value, cond)[x] = node[x]
<1> DEFINE Kept(e) == DOMAIN e = Fields /\ \A x \in Where \cup {"parent", "list", "next"} : e[x] = node[x]
<1>1. /\ Kept(node)
      /\ \A v : Kept([node EXCEPT !.prompt = v]) /\ Kept([node EXCEPT !.dep = v])
  BY DEF Where, Fields
<1>2. \A v : /\ Kept([node EXCEPT !.visibility = v]) /\ Kept([node EXCEPT !.selects = v])
             /\ Kept([node EXCEPT !.implies = v])
  BY DEF Where, Fields
<1>3. \A v : Kept([node EXCEPT !.defaults = v]) /\ Kept([node EXCEPT !.ranges = v])
  BY DEF Where, Fields
<1> HIDE DEF Kept
<1>4. Kept(With(node, value, cond))
  BY <1>1, <1>2, <1>3 DEF With
<1> QED BY <1>4 DEF Kept

LEMMA PropertyTree == IInv /\ Property /\ TextInv' /\ TextGrows => TreeInv'
<1> SUFFICES ASSUME IInv, Property, TextInv', TextGrows, ~Fail PROVE TreeInv'
  BY FailTree DEF Property, InProps, Fetched, Growing
<1> DEFINE s == heap.nodes
           value == ParsedValue[1]
           cond == ParsedEnd[1]
<1>1. /\ Growing /\ props # 0 /\ UNCHANGED <<props, filestack, blocks>>
  BY DEF Property, AddProperty, InProps, Fetched, Growing, position
<1>2. PICK e : e = With(s[props], value, cond)
  OBVIOUS
<1>3. /\ DOMAIN heap' = {"nodes", "items"}
      /\ heap'.nodes = [s EXCEPT ![props] = e]
      /\ origin' = [origin EXCEPT ![props] = heap'.nodes[props]]
  <2>1. PICK items : heap' = [nodes |-> [s EXCEPT ![props] = With(s[props], value, cond)],
                              items |-> items]
    BY DEF Property, AddProperty
  <2>2. origin' = [origin EXCEPT ![props] = heap'.nodes[props]]
    BY DEF Property, AddProperty
  <2> HIDE DEF s, value, cond
  <2> QED BY <1>2, <2>1, <2>2
<1>4. /\ DOMAIN heap = {"nodes", "items"} /\ GoodNodes(s) /\ Len(s) \in Nat /\ props \in 1..Len(s)
      /\ IsSeq(origin) /\ Len(origin) = Len(s) /\ props = Len(s)
      /\ GoodBlocks(blocks, Top, Len(filestack)) /\ Alike(origin, s)
  <2>1. props = Len(s) /\ Alike(origin, s)
    BY <1>1 DEF IInv, TreeInv, BlockInv, NodeInv
  <2> QED BY <1>1, <2>1, Before
<1> HIDE DEF s, value, cond
<1>5. DOMAIN e = Fields /\ \A x \in Where \cup {"parent", "list", "next"} : e[x] = s[props][x]
  <2>1. DOMAIN s[props] = Fields
    BY <1>4 DEF GoodNodes
  <2> QED BY <1>2, <2>1, WithFacts
<1>6. GoodNodes(heap'.nodes) /\ Alike(s, heap'.nodes)
  <2>1. /\ GoodNodes(s) /\ props \in 1..Len(s) /\ DOMAIN e = Fields
        /\ \A x \in Where \cup {"parent", "list", "next"} : e[x] = s[props][x]
    BY <1>4, <1>5
  <2>2. PICK i : i = props
    OBVIOUS
  <2>3. GoodNodes([s EXCEPT ![i] = e]) /\ Alike(s, [s EXCEPT ![i] = e])
    BY ONLY <2>1, <2>2, SetProperties
  <2> QED BY <1>3, <2>2, <2>3
<1>7. /\ heap'.nodes[props] = e /\ Len(heap'.nodes) = Len(s)
  <2>1. IsSeq(s)
    BY <1>4 DEF GoodNodes
  <2> QED BY ONLY <1>3, <1>4, <2>1, ExceptIsSeq
<1>8. /\ IsSeq(origin') /\ Len(origin') = Len(s) /\ origin'[props] = e
      /\ \A j \in 1..Len(s) : j # props => origin'[j] = origin[j]
  <2>1. origin' = [origin EXCEPT ![props] = e] /\ props \in 1..Len(origin)
    BY <1>3, <1>4, <1>7
  <2>2. PICK i : i = props /\ i \in 1..Len(origin) /\ IsSeq(origin)
    BY <1>4, <2>1
  <2>3. /\ IsSeq([origin EXCEPT ![i] = e]) /\ Len([origin EXCEPT ![i] = e]) = Len(origin)
        /\ [origin EXCEPT ![i] = e][i] = e
        /\ \A j \in 1..Len(origin) : j # i => [origin EXCEPT ![i] = e][j] = origin[j]
    BY ONLY <2>2, ExceptIsSeq
  <2> QED BY ONLY <1>4, <2>1, <2>2, <2>3
<1>9. Alike(origin, origin') /\ Alike(origin', heap'.nodes)
  <2>1. Alike(origin, origin')
    BY <1>4, <1>5, <1>8 DEF Alike
  <2>2. Alike(origin, heap'.nodes)
    BY <1>4, <1>6, AlikeTrans
  <2> QED BY <1>4, <1>8, <2>1, <2>2 DEF Alike
<1>10. NodesLocated' /\ \A n \in DOMAIN origin' : origin'[n].file \in DOMAIN text'
  BY <1>8, <1>9, LocatedKept
<1>11. NodeInv'
  <2>1. Len(origin') > 0
    BY <1>4, <1>8
  <2> QED BY <1>3, <1>6, <1>8, <1>9, <1>10, <2>1 DEF NodeInv
<1>12. BlockInv'
  <2>1. Top' = Top
    BY <1>1, <1>7 DEF Top, s
  <2> QED BY <1>1, <1>4, <1>7, <2>1 DEF BlockInv
<1> QED BY <1>10, <1>11, <1>12 DEF TreeInv

\* The steps that leave nodes and blocks alone.
LEMMA SameTree ==
    ASSUME IInv, TextGrows, TextInv', UNCHANGED <<origin, filestack>>,
           \/ UNCHANGED <<heap, blocks, props>> /\ (Growing' => Growing)
           \/ ~Growing'
    PROVE  TreeInv'
<1>1. IsSeq(origin) /\ Alike(origin, origin)
  BY DEF IInv, TreeInv, NodeInv, Alike
<1>2. NodesLocated' /\ \A n \in DOMAIN origin' : origin'[n].file \in DOMAIN text'
  BY <1>1, LocatedKept
<1>3. NodeInv'
  BY <1>1, <1>2 DEF IInv, TreeInv, NodeInv
<1>4. BlockInv'
  BY DEF IInv, TreeInv, BlockInv, Top
<1> QED BY <1>2, <1>3, <1>4 DEF TreeInv

LEMMA TreeStep == IInv /\ [Next]_vars => TreeInv'
<1> SUFFICES ASSUME IInv, [Next]_vars PROVE TreeInv'
  OBVIOUS
<1>1. TextInv' /\ TextGrows
  BY PositionStep DEF IInv, PositionInv
<1>2. CASE NextLine \/ HelpLine
  BY <1>1, <1>2, SameTree DEF NextLine, HelpLine, Growing
<1>3. CASE SourceMissing
  <2>1. CASE Fail
    BY <1>3, <2>1, FailTree DEF SourceMissing, InBlock, Fetched, Growing
  <2>2. CASE ~Fail
    BY <1>1, <1>3, <2>2, SameTree DEF SourceMissing, Growing, position
  <2> QED BY <2>1, <2>2
<1>4. CASE BadLine
  BY <1>4, FailTree DEF BadLine, InBlock, Fetched, Growing
<1>5. CASE Finalize \/ Check
  BY <1>1, <1>5, SameTree DEF Finalize, Check, Growing, position
<1>6. CASE Terminated \/ UNCHANGED vars
  BY <1>1, <1>6, SameTree DEF Terminated, Growing, vars
<1> QED
  BY <1>1, <1>2, <1>3, <1>4, <1>5, <1>6, EntryTree, IfTree, SourceTree, LeaveTree, EndBlockTree,
     EndOfTopFileTree, PropertyTree, EndOfPropertiesTree DEF Next

-----------------------------------------------------------------------------
(***************************************************************************)
(* The theorems.                                                           *)
(***************************************************************************)

LEMMA InitIInv == Init => IInv
<1> SUFFICES ASSUME Init PROVE IInv
  OBVIOUS
<1> DEFINE top == NewNode("menu", "", 0, TopFile, 0)
           b == [end |-> "none", parent |-> 1, prev |-> 1]
<1>1. /\ text = [f \in {TopFile} |-> [lines |-> <<>>, ended |-> FALSE]]
      /\ filename = TopFile /\ linenr = 0 /\ includePath = <<>>
      /\ reading = <<TopFile, 0>> /\ filestack = <<>> /\ line = <<>>
      /\ blocks = <<b>> /\ props = 0 /\ help = -1
      /\ DOMAIN heap = {"nodes", "items"} /\ heap.nodes = <<top>> /\ origin = <<top>>
      /\ phase = "parsing"
  BY DEF Init
<1>2. IsSeq(<<>>) /\ Len(<<>>) = 0 /\ DOMAIN <<>> = {} /\ \A S : <<>> \in Seq(S)
  BY EmptySeq DEF IsSeq
<1>3. PositionInv
  <2>1. DOMAIN text = {TopFile} /\ text[TopFile] = [lines |-> <<>>, ended |-> FALSE]
    BY <1>1
  <2>2. TextInv
    BY <1>1, <1>2, <2>1 DEF TextInv
  <2>3. StackInv /\ NoRecursiveSource /\ LineInv
    BY <1>1, <1>2 DEF StackInv, NoRecursiveSource, LineInv
  <2>4. NumberInv
    <3>1. /\ reading \in Place /\ reading[1] = filename /\ reading[2] = 0 /\ linenr = 0
          /\ help = -1 /\ Len(text[filename].lines) = 0
      <4> HIDE DEF top, b
      <4>1. TopFile \in DOMAIN text /\ 0 \in Nat
        BY <2>1
      <4>2. reading \in Place
        BY <1>1, <4>1 DEF Place
      <4>3. text[TopFile].lines = <<>>
        BY <2>1
      <4> QED BY <1>1, <1>2, <4>2, <4>3
    <3> QED BY <3>1 DEF NumberInv
  <2> QED BY <2>2, <2>3, <2>4 DEF PositionInv
<1>4. /\ DOMAIN top = Fields /\ top.parent = 0 /\ top.list = 0 /\ top.next = 0 /\ top.file = TopFile
  BY DEF NewNode, Fields
<1>5. b \in BlockRecord /\ b.end = "none" /\ b.parent = 1 /\ b.prev = 1
  BY DEF BlockRecord
<1> HIDE DEF top, b
<1>6. IsSeq(<<top>>) /\ Len(<<top>>) = 1 /\ DOMAIN <<top>> = {1} /\ <<top>>[1] = top
  BY DEF IsSeq
<1>7. NodeInv /\ NodesLocated
  <2>1. GoodNodes(<<top>>) /\ Alike(<<top>>, <<top>>)
    BY <1>4, <1>6 DEF GoodNodes, Alike
  <2>2. NodeInv
    BY <1>1, <1>4, <1>6, <2>1 DEF NodeInv
  <2>3. NodesLocated
    BY <1>1, <1>6, LocatedNodes
  <2> QED BY <2>2, <2>3
<1>8. BlockInv
  <2>1. <<b>> \in Seq(BlockRecord) /\ Len(<<b>>) = 1 /\ <<b>>[1] = b /\ DOMAIN <<b>> = {1}
    BY <1>5
  <2>2. Unclosed(<<b>>) = {1}
    BY <1>5, <2>1 DEF Unclosed
  <2>3. Cardinality(Unclosed(<<b>>)) = 1
    BY <2>2, FS_Singleton
  <2>4. GoodBlocks(<<b>>, 1, 0)
    BY <1>5, <2>1, <2>3 DEF GoodBlocks
  <2> QED BY <1>1, <1>2, <1>6, <2>4 DEF BlockInv, Top
<1> QED BY <1>1, <1>3, <1>7, <1>8 DEF IInv, TreeInv

LEMMA NextIInv == IInv /\ [Next]_vars => IInv'
<1> SUFFICES ASSUME IInv, [Next]_vars PROVE IInv'
  OBVIOUS
<1>1. PositionInv' /\ TreeInv'
  BY PositionStep, TreeStep DEF IInv
<1>2. phase' \in {"parsing", "parsed", "checking", "done", "rejected", "error"}
  BY DEF IInv, Next, NextLine, HelpLine, Entry, If, OpenIf, Source, EnterFile, SourceMissing,
         EndBlock, LeaveFile, EndOfTopFile, BadLine, Property, AddProperty, EndOfProperties,
         Finalize, Check, Terminated, Fail, vars
<1> QED BY <1>1, <1>2 DEF IInv

\* The inductive invariant: where _enter_file() and _leave_file() stand in the files,
\* what has been fetched, and how the calls of _parse_block() nest around the nodes
\* made so far.
THEOREM Invariance == Spec => []IInv
<1>1. Init => IInv
  BY InitIInv
<1>2. IInv /\ [Next]_vars => IInv'
  BY NextIInv
<1> QED BY <1>1, <1>2, PTL DEF Spec

\* _parse_block() and _parse_props() build a sound tree whatever the files hold: a
\* menu node carries the file and line of the statement that defines it, lies below an
\* earlier node and is linked to later ones.
THEOREM NodesAreSound == Spec => []NodesSound
<1>1. IInv => NodesSound
  <2> SUFFICES ASSUME IInv PROVE NodesSound
    OBVIOUS
  <2>1. reading[1] \in DOMAIN text /\ filename \in DOMAIN text
    BY DEF IInv, PositionInv, NumberInv, Place
  <2>2. ASSUME Growing PROVE props \in 0..Len(heap.nodes) /\ Len(origin) = Len(heap.nodes)
    <3>1. props # 0 => props = Len(heap.nodes)
      BY <2>2 DEF IInv, TreeInv, BlockInv
    <3> QED BY <2>2, <3>1, Before
  <2>3. TypeOK
    BY <2>1, <2>2 DEF IInv, TypeOK
  <2>4. LinksForward
    <3>1. Growing => GoodNodes(heap.nodes)
      BY DEF IInv, TreeInv, NodeInv
    <3> QED BY <3>1 DEF GoodNodes, IsSeq, LinksForward
  <2> QED BY <2>3, <2>4 DEF IInv, TreeInv, NodesSound
<1> QED BY <1>1, Invariance, PTL

\* _enter_file() never enters a file that is being read, however deep the source
\* statements nest.
THEOREM SourceNotRecursive == Spec => []NoRecursiveSource
<1>1. IInv => NoRecursiveSource
  BY DEF IInv, PositionInv
<1> QED BY <1>1, Invariance, PTL
=============================================================================
