------------------------- MODULE AnalysisJobsProofs -------------------------
(***************************************************************************)
(* Theorems about the analysis of recordings: first about what is computed *)
(* from one (Transcripts), for all that the models may say and for every   *)
(* limit, and then about the jobs (AnalysisJobs), for every set of jobs,   *)
(* of retries and of faults.                                               *)
(***************************************************************************)
EXTENDS AnalysisJobs, Transcripts, SubsequencesProofs

-----------------------------------------------------------------------------
(* Splitting a text.                                                       *)

(* The pieces ss of a text: none is empty, and they are the text.          *)
Divides(ss, text, C) == ss \in Seq(Seq(C) \ {<<>>}) /\ FlattenSeq(ss) = text

LEMMA EndsInPiecesDivides ==
  ASSUME NEW C, NEW text \in Seq(C), NEW it, EndsInPieces(it, text)
  PROVE  Divides(it[1..Len(text)], text, C)
BY PiecesKeep DEF EndsInPieces, Divides

LEMMA SentencesDivide ==
  ASSUME NEW C, NEW text \in Seq(C)
  PROVE  Divides(Sentences(text), text, C)
<1> DEFINE V == Piecewise(C)
           step(ss, c) == IF ss = <<>> \/ EndsSentence(Last(ss)) THEN Append(ss, <<c>>)
                          ELSE Append(Front(ss), Append(Last(ss), c))
           Folds(f) == f = [z \in SUBSET DOMAIN text |->
                               IF z = {} THEN <<>> ELSE step(f[z \ {Max(z)}], text[Max(z)])]
           opens == {p \in V \X (1..Len(text)) : EndsSentence(Last(p[1]))}
           it == CHOOSE f : Folds(f)
<1>1. Len(text) \in Nat /\ DOMAIN text = 1..Len(text) BY LenProperties
<1>2. ASSUME NEW f, NEW z \in SUBSET DOMAIN text, z # {}, f[z \ {Max(z)}] \in V
      PROVE  step(f[z \ {Max(z)}], text[Max(z)]) =
                PieceStep(text, opens, f[z \ {Max(z)}], Max(z))
  <2>1. Max(z) \in 1..Len(text) BY <1>1, <1>2, LastOfMany
  <2>. QED BY <1>2, <2>1 DEF PieceStep
<1> HIDE DEF opens, step
<1>3. PICK h \in PieceFunctions(text, C) : PieceFold(h, text, C, opens) BY PieceFolds
<1>4. Folds(h)
  <2>1. \A z \in SUBSET DOMAIN text : z # {} =>
           h[z \ {Max(z)}] \in V /\ h[z] = step(h[z \ {Max(z)}], text[Max(z)])
    <3> SUFFICES ASSUME NEW z \in SUBSET DOMAIN text, z # {}
                 PROVE  h[z \ {Max(z)}] \in V /\ h[z] = step(h[z \ {Max(z)}], text[Max(z)])
      OBVIOUS
    <3>1. h[z \ {Max(z)}] \in V BY <1>1, <1>3 DEF PieceFunctions
    <3>. QED BY <1>1, <1>2, <1>3, <3>1 DEF PieceFold
  <2>2. h[{}] = <<>> BY <1>3 DEF PieceFold
  <2>. QED BY <1>1, <1>3, <2>1, <2>2 DEF PieceFunctions
<1>5. Folds(it) BY <1>4
<1>6. Sentences(text) = it[DOMAIN text]
  BY DEF Sentences, FoldLeft, MapThenFoldSet, step
<1> HIDE DEF it
<1>7. PieceFold(it, text, C, opens)
  <2>1. /\ it[{}] = <<>>
        /\ \A z \in SUBSET DOMAIN text : z # {} =>
              it[z] = step(it[z \ {Max(z)}], text[Max(z)])
    BY <1>5
  <2>. QED BY <1>1, <1>2, <2>1 DEF PieceFold
<1>8. EndsInPieces(it, text) BY <1>7, PieceFolds
<1>9. Divides(it[1..Len(text)], text, C) BY <1>8, EndsInPiecesDivides
<1>. QED BY <1>1, <1>6, <1>9

LEMMA ByClausesDivide ==
  ASSUME NEW C, NEW text \in Seq(C)
  PROVE  Divides(ByClauses(text), text, C)
<1> DEFINE V == Piecewise(C)
           over(ss, c) == Length(Last(ss)) + Length(<<c>>) > MaxChars
           step(ss, c) == IF ss = <<>> \/ over(ss, c) THEN Append(ss, <<c>>)
                          ELSE Append(Front(ss), Append(Last(ss), c))
           Folds(f) == f = [z \in SUBSET DOMAIN text |->
                               IF z = {} THEN <<>> ELSE step(f[z \ {Max(z)}], text[Max(z)])]
           opens == {p \in V \X (1..Len(text)) : over(p[1], text[p[2]])}
           it == CHOOSE f : Folds(f)
<1>1. Len(text) \in Nat /\ DOMAIN text = 1..Len(text) BY LenProperties
<1>2. ASSUME NEW f, NEW z \in SUBSET DOMAIN text, z # {}, f[z \ {Max(z)}] \in V
      PROVE  step(f[z \ {Max(z)}], text[Max(z)]) =
                PieceStep(text, opens, f[z \ {Max(z)}], Max(z))
  <2>1. Max(z) \in 1..Len(text) BY <1>1, <1>2, LastOfMany
  <2>2. over(f[z \ {Max(z)}], text[Max(z)]) <=> <<f[z \ {Max(z)}], Max(z)>> \in opens
    <3> HIDE DEF over
    <3>. QED BY <1>2, <2>1
  <2> HIDE DEF over, opens
  <2>. QED BY <2>2 DEF PieceStep
<1> HIDE DEF opens, step
<1>3. PICK h \in PieceFunctions(text, C) : PieceFold(h, text, C, opens) BY PieceFolds
<1>4. Folds(h)
  <2>1. \A z \in SUBSET DOMAIN text : z # {} =>
           h[z \ {Max(z)}] \in V /\ h[z] = step(h[z \ {Max(z)}], text[Max(z)])
    <3> SUFFICES ASSUME NEW z \in SUBSET DOMAIN text, z # {}
                 PROVE  h[z \ {Max(z)}] \in V /\ h[z] = step(h[z \ {Max(z)}], text[Max(z)])
      OBVIOUS
    <3>1. h[z \ {Max(z)}] \in V BY <1>1, <1>3 DEF PieceFunctions
    <3>. QED BY <1>1, <1>2, <1>3, <3>1 DEF PieceFold
  <2>2. h[{}] = <<>> BY <1>3 DEF PieceFold
  <2>. QED BY <1>1, <1>3, <2>1, <2>2 DEF PieceFunctions
<1>5. Folds(it) BY <1>4
<1>6. ByClauses(text) = it[DOMAIN text]
  BY DEF ByClauses, FoldLeft, MapThenFoldSet, step
<1> HIDE DEF it
<1>7. PieceFold(it, text, C, opens)
  <2>1. /\ it[{}] = <<>>
        /\ \A z \in SUBSET DOMAIN text : z # {} =>
              it[z] = step(it[z \ {Max(z)}], text[Max(z)])
    BY <1>5
  <2>. QED BY <1>1, <1>2, <2>1 DEF PieceFold
<1>8. EndsInPieces(it, text) BY <1>7, PieceFolds
<1>9. Divides(it[1..Len(text)], text, C) BY <1>8, EndsInPiecesDivides
<1>. QED BY <1>1, <1>6, <1>9

(* _split_sentences loses nothing and makes no empty line.                 *)
LEMMA SplitDivides ==
  ASSUME NEW C, NEW text \in Seq(C)
  PROVE  Divides(SplitSentences(text), text, C)
<1> DEFINE N == Seq(C) \ {<<>>}
           cut(s) == IF Length(s) <= MaxChars THEN <<s>> ELSE ByClauses(s)
           ss == Sentences(text)
           all == [k \in DOMAIN ss |-> cut(ss[k])]
<1>1. Divides(ss, text, C) BY SentencesDivide
<1>2. ss \in Seq(N) /\ FlattenSeq(ss) = text BY <1>1 DEF Divides
<1> HIDE DEF ss
<1>3. Len(ss) \in Nat /\ DOMAIN ss = 1..Len(ss) /\ \A k \in DOMAIN ss : ss[k] \in N
  BY <1>2, LenProperties, ElementOfSeq
<1>4. ASSUME NEW k \in DOMAIN ss PROVE cut(ss[k]) \in Seq(N) /\ FlattenSeq(cut(ss[k])) = ss[k]
  <2> DEFINE s == ss[k]
  <2>1. s \in N /\ s \in Seq(C) BY <1>3
  <2> HIDE DEF s
  <2>2. Divides(ByClauses(s), s, C) BY <2>1, ByClausesDivide
  <2>3. <<s>> \in Seq(N) /\ FlattenSeq(<<s>>) = s
    <3>1. <<>> \in Seq(Seq(C)) /\ <<>> \in Seq(C) BY EmptySeq
    <3>2. Append(<<>>, s) = <<s>> BY <2>1
    <3>3. FlattenSeq(Append(<<>>, s)) = FlattenSeq(<<>>) \o s BY <2>1, <3>1, Flatten
    <3>4. <<>> \o s = s BY <2>1, ConcatEmptySeq
    <3>5. <<s>> \in Seq(N) BY <2>1
    <3>. QED BY <3>2, <3>3, <3>4, <3>5, FlattenNothing
  <2>4. cut(s) \in Seq(N) /\ FlattenSeq(cut(s)) = s BY <2>2, <2>3 DEF Divides
  <2>. QED BY <2>4 DEF s
<1> HIDE DEF cut
<1>5. all \in [1..Len(ss) -> Seq(N)] BY <1>3, <1>4
<1>6. all \in Seq(Seq(N)) BY <1>3, <1>5, SequenceOf
<1>7. Seq(Seq(N)) \subseteq Seq(Seq(Seq(C)))
  <2>1. Seq(N) \subseteq Seq(Seq(C)) OBVIOUS
  <2>. QED BY <2>1
<1>8. DOMAIN all = DOMAIN ss OBVIOUS
<1>9. [k \in DOMAIN all |-> FlattenSeq(all[k])] = ss
  <2>1. \A k \in DOMAIN ss : FlattenSeq(all[k]) = ss[k] BY <1>4
  <2>2. ss = [k \in DOMAIN ss |-> ss[k]] BY <1>2, <1>3
  <2> HIDE DEF all
  <2>. QED BY <1>8, <2>1, <2>2
<1>10. SplitSentences(text) = FlattenSeq(all) BY DEF SplitSentences, ss, cut
<1> HIDE DEF all
<1>11. FlattenSeq(ss) = FlattenSeq(FlattenSeq(all))
  <2>1. all \in Seq(Seq(Seq(C))) BY <1>6, <1>7
  <2>2. FlattenSeq([k \in DOMAIN all |-> FlattenSeq(all[k])]) = FlattenSeq(FlattenSeq(all))
    BY <2>1, FlattenNested
  <2>. QED BY <1>9, <2>2
<1>12. FlattenSeq(all) \in Seq(N)
  <2>1. <<>> \in Seq(N) BY EmptySeq
  <2> HIDE DEF N
  <2>. QED BY <1>6, <2>1, Flatten
<1>. QED BY <1>2, <1>10, <1>11, <1>12 DEF Divides

-----------------------------------------------------------------------------
(* Spoken characters.                                                      *)
Counts(f, text) ==
    /\ f \in [0..Len(text) -> Nat] /\ f[0] = 0 /\ f[Len(text)] = Spoken(text)
    /\ \A i \in 1..Len(text) : f[i] = f[i - 1] + text[i].n

LEMMA SpokenCounts ==
  ASSUME NEW text \in Seq(Clauses)
  PROVE  \E f : Counts(f, text)
<1> DEFINE n == Len(text)
           G == [p \in Nat \X (1..n) |-> p[1] + text[p[2]].n]
           Folds(f) == f = [z \in SUBSET DOMAIN text |->
                               IF z = {} THEN 0 ELSE f[z \ {Max(z)}] + text[Max(z)].n]
           it == CHOOSE f : Folds(f)
<1>1. n \in Nat /\ DOMAIN text = 1..n BY LenProperties
<1>2. \A i \in 1..n : text[i].n \in Nat
  <2>1. \A i \in 1..n : text[i] \in Clauses BY ElementOfSeq
  <2>. QED BY <2>1 DEF Clauses
<1>3. /\ G \in [Nat \X (1..n) -> Nat]
      /\ \A k \in Nat, i \in 1..n : G[<<k, i>>] = k + text[i].n
  BY <1>2
<1> HIDE DEF G
<1>4. PICK h : IsLeftFold(h, n, Nat, 0, G) BY <1>1, <1>3, LeftFoldHasFunction
<1>5. \A z \in SUBSET (1..n) : z # {} => Max(z) \in 1..n BY <1>1, LastOfMany
<1>6. Folds(h)
  <2>1. \A z \in SUBSET (1..n) : z # {} =>
           G[<<h[z \ {Max(z)}], Max(z)>>] = h[z \ {Max(z)}] + text[Max(z)].n
    BY <1>3, <1>4, <1>5 DEF IsLeftFold
  <2>. QED BY <1>1, <1>4, <2>1 DEF IsLeftFold
<1>7. Folds(it) BY <1>6
<1>8. Spoken(text) = it[1..n] BY <1>1 DEF Spoken, FoldLeft, MapThenFoldSet
<1> HIDE DEF it
<1>9. FoldsLeft(it, n, Nat, 0, G)
  <2>1. /\ it[{}] = 0
        /\ \A z \in SUBSET (1..n) : z # {} => it[z] = it[z \ {Max(z)}] + text[Max(z)].n
    BY <1>1, <1>7
  <2>. QED BY <1>3, <1>5, <2>1 DEF FoldsLeft
<1>10. PICK f : Runs(f, n, Nat, 0, G, it[1..n]) BY <1>1, <1>3, <1>9, LeftFoldRuns
<1>11. ASSUME NEW i \in 1..n PROVE f[i] = f[i - 1] + text[i].n
  <2>1. i - 1 \in 0..n BY <1>1
  <2>. QED BY <1>3, <1>10, <2>1 DEF Runs
<1>. QED BY <1>8, <1>10, <1>11 DEF Runs, Counts

LEMMA SpokenAppend ==
  ASSUME NEW text \in Seq(Clauses), NEW c \in Clauses
  PROVE  /\ Spoken(text) \in Nat /\ Spoken(<<>>) = 0
         /\ Spoken(Append(text, c)) = Spoken(text) + c.n
<1> DEFINE n == Len(text)
           t == Append(text, c)
<1>1. /\ n \in Nat /\ t \in Seq(Clauses) /\ Len(t) = n + 1 /\ t[n + 1] = c
      /\ \A i \in 1..n : t[i] = text[i]
  BY LenProperties, AppendProperties
<1> HIDE DEF t
<1>2. PICK f : Counts(f, text) BY SpokenCounts
<1>3. PICK g : Counts(g, t) BY <1>1, SpokenCounts
<1>4. Spoken(<<>>) = 0
  <2>1. <<>> \in Seq(Clauses) /\ Len(<<>>) = 0 BY EmptySeq
  <2>2. PICK e : Counts(e, <<>>) BY <2>1, SpokenCounts
  <2>. QED BY <2>1, <2>2 DEF Counts
<1> DEFINE B == {i \in 0..n : f[i] = g[i]}
<1>5. 0 \in B BY <1>1, <1>2, <1>3 DEF Counts
<1>6. ASSUME NEW i \in 1..n, i - 1 \in B PROVE i \in B
  <2>1. f[i] = f[i - 1] + text[i].n /\ g[i] = g[i - 1] + t[i].n
    BY <1>1, <1>2, <1>3 DEF Counts
  <2>. QED BY <1>1, <1>6, <2>1
<1>7. \A i \in 0..n : i \in B
  <2> HIDE DEF B, n
  <2>. QED BY <1>1, <1>5, <1>6, CountingUp
<1>8. f[n] = g[n] BY <1>1, <1>7
<1>9. g[n + 1] = g[n] + c.n
  <2>1. n + 1 \in 1..Len(t) /\ (n + 1) - 1 = n BY <1>1
  <2>2. g[n + 1] = g[(n + 1) - 1] + t[n + 1].n BY <1>3, <2>1 DEF Counts
  <2>. QED BY <1>1, <2>1, <2>2
<1>10. Spoken(text) = f[n] /\ Spoken(t) = g[n + 1] /\ f[n] \in Nat
  BY <1>1, <1>2, <1>3 DEF Counts
<1>. QED BY <1>4, <1>8, <1>9, <1>10 DEF t

LEMMA SpokenConcat ==
  ASSUME NEW s \in Seq(Clauses), NEW t \in Seq(Clauses)
  PROVE  /\ Spoken(s) \in Nat /\ Spoken(t) \in Nat /\ s \o t \in Seq(Clauses)
         /\ Spoken(s \o t) = Spoken(s) + Spoken(t)
<1> DEFINE B == {u \in Seq(Clauses) : Spoken(u) \in Nat
                                      /\ Spoken(s \o u) = Spoken(s) + Spoken(u)}
<1>0. [n |-> 1, mark |-> ""] \in Clauses /\ <<>> \in Seq(Clauses)
  <2>1. 1 \in Nat \ {0} /\ "" \in {"", ",", "."} OBVIOUS
  <2>2. [n |-> 1, mark |-> ""] \in Clauses BY <2>1 DEF Clauses
  <2>. QED BY <2>2, EmptySeq
<1>1. Spoken(s) \in Nat /\ Spoken(<<>>) = 0 BY <1>0, SpokenAppend
<1>2. <<>> \in B
  <2>1. s \o <<>> = s BY ConcatEmptySeq
  <2>2. Spoken(s \o <<>>) = Spoken(s) + Spoken(<<>>) BY <1>1, <2>1
  <2>3. 0 \in Nat OBVIOUS
  <2>4. Spoken(<<>>) \in Nat BY <1>1, <2>3, Zenon
  <2>. QED BY <1>0, <2>2, <2>4, Zenon
<1>3. ASSUME NEW u \in Seq(Clauses), NEW c \in Clauses, u \in B PROVE Append(u, c) \in B
  <2> DEFINE v == s \o u
  <2>1. v \in Seq(Clauses) BY ConcatProperties
  <2>2. Append(v, c) = s \o Append(u, c)
    <3>1. AppendsAtTheEnd(s, u, c) BY AppendToConcat
    <3>. QED BY <3>1 DEF AppendsAtTheEnd
  <2>3. Spoken(v) = Spoken(s) + Spoken(u) /\ Spoken(u) \in Nat BY <1>3
  <2> HIDE DEF v
  <2>4. Spoken(Append(v, c)) = Spoken(v) + c.n /\ Spoken(Append(u, c)) = Spoken(u) + c.n
    BY <2>1, SpokenAppend
  <2>5. c.n \in Nat BY DEF Clauses
  <2>6. Append(u, c) \in Seq(Clauses) BY AppendProperties
  <2>. QED BY <1>1, <2>2, <2>3, <2>4, <2>5, <2>6
<1> HIDE DEF B
<1>4. Seq(Clauses) \subseteq B BY <1>2, <1>3, SequencesGrow
<1>. QED BY <1>1, <1>4, ConcatProperties DEF B

LEMMA SpokenPositive ==
  ASSUME NEW text \in Seq(Clauses), text # <<>>
  PROVE  Spoken(text) \in Nat \ {0}
<1> DEFINE a == Front(text)
           c == Last(text)
<1>1. a \in Seq(Clauses) /\ c \in Clauses /\ text = Append(a, c) BY FrontLast
<1> HIDE DEF a, c
<1>2. Spoken(text) = Spoken(a) + c.n /\ Spoken(a) \in Nat BY <1>1, SpokenAppend
<1>3. c.n \in Nat \ {0} BY <1>1 DEF Clauses
<1>. QED BY <1>2, <1>3

-----------------------------------------------------------------------------
(* Lines and their words.                                                  *)
Spoke == {l \in [text : Seq(Clauses), start : Int, end : Int] : l.text # <<>>}
Sound == {l \in Spoke : 0 <= l.start /\ l.start < l.end}

Texts(ls) == [i \in DOMAIN ls |-> ls[i].text]

LEMMA WordsAppend ==
  ASSUME NEW ls \in Seq(Spoke), NEW l \in Spoke
  PROVE  /\ Texts(ls) \in Seq(Seq(Clauses)) /\ Words(ls) \in Seq(Clauses)
         /\ Words(Append(ls, l)) = Words(ls) \o l.text
<1> DEFINE n == Len(ls)
           a == Append(ls, l)
           b == Append(Texts(ls), l.text)
<1>1. /\ n \in Nat /\ DOMAIN ls = 1..n /\ DOMAIN a = 1..(n + 1) /\ a[n + 1] = l
      /\ \A i \in 1..n : a[i] = ls[i]
  BY LenProperties, AppendProperties
<1>2. \A i \in 1..n : ls[i].text \in Seq(Clauses)
  <2>1. \A i \in 1..n : ls[i] \in Spoke BY ElementOfSeq
  <2>. QED BY <2>1 DEF Spoke
<1>3. Texts(ls) \in [1..n -> Seq(Clauses)] BY <1>1, <1>2 DEF Texts
<1>4. Texts(ls) \in Seq(Seq(Clauses)) /\ Len(Texts(ls)) = n
  <2> HIDE DEF n
  <2>. QED BY <1>1, <1>3, SequenceOf
<1>5. l.text \in Seq(Clauses) BY DEF Spoke
<1>6. /\ b \in Seq(Seq(Clauses)) /\ Len(b) = n + 1 /\ b[n + 1] = l.text
      /\ \A i \in 1..n : b[i] = Texts(ls)[i]
  BY <1>4, <1>5, AppendProperties
<1> HIDE DEF a, b
<1>7. Texts(a) = b
  <2>1. b = [i \in 1..(n + 1) |-> b[i]] BY <1>6, LenProperties
  <2>2. \A i \in 1..(n + 1) : b[i] = a[i].text
    <3> SUFFICES ASSUME NEW i \in 1..(n + 1) PROVE b[i] = a[i].text OBVIOUS
    <3>1. i = n + 1 \/ i \in 1..n BY <1>1
    <3>2. CASE i = n + 1 BY <1>1, <1>6, <3>2
    <3>3. CASE i \in 1..n BY <1>1, <1>6, <3>3 DEF Texts
    <3>. QED BY <3>1, <3>2, <3>3
  <2>. QED BY <1>1, <2>1, <2>2 DEF Texts
<1>8. Words(ls) = FlattenSeq(Texts(ls)) /\ Words(a) = FlattenSeq(Texts(a))
  BY DEF Words, Texts
<1>9. /\ FlattenSeq(Texts(ls)) \in Seq(Clauses)
      /\ FlattenSeq(b) = FlattenSeq(Texts(ls)) \o l.text
  <2> DEFINE t == Texts(ls)
             x == l.text
  <2>1. t \in Seq(Seq(Clauses)) /\ x \in Seq(Clauses) BY <1>4, <1>5
  <2> HIDE DEF t, x
  <2>2. FlattenSeq(t) \in Seq(Clauses) /\ FlattenSeq(Append(t, x)) = FlattenSeq(t) \o x
    BY <2>1, Flatten
  <2>. QED BY <2>2 DEF t, x, b
<1>. QED BY <1>4, <1>7, <1>8, <1>9 DEF a

LEMMA WordsNothing == Words(<<>>) = <<>> /\ <<>> \in Seq(Spoke)
<1>1. [i \in DOMAIN <<>> |-> <<>>[i].text] = <<>> OBVIOUS
<1>. QED BY <1>1, FlattenNothing, EmptySeq DEF Words

LEMMA WordsConcat ==
  ASSUME NEW ls \in Seq(Spoke), NEW ks \in Seq(Spoke)
  PROVE  Words(ls \o ks) = Words(ls) \o Words(ks)
<1> DEFINE B == {t \in Seq(Spoke) : Words(ls \o t) = Words(ls) \o Words(t)}
<1>1. <<>> \in B
  <2>1. ls \o <<>> = ls /\ <<>> \in Seq(Spoke) /\ Words(<<>>) = <<>>
    BY ConcatEmptySeq, WordsNothing
  <2>2. Words(ls) \in Seq(Clauses)
    <3>1. CASE ls = <<>> BY <2>1, <3>1, EmptySeq
    <3>2. CASE ls # <<>>
      <4>1. Last(ls) \in Spoke BY <3>2, FrontLast
      <4>. QED BY <4>1, WordsAppend
    <3>. QED BY <3>1, <3>2
  <2>3. Words(ls) \o <<>> = Words(ls) BY <2>2, ConcatEmptySeq
  <2>. QED BY <2>1, <2>3
<1>2. ASSUME NEW t \in Seq(Spoke), NEW l \in Spoke, t \in B PROVE Append(t, l) \in B
  <2> DEFINE u == ls \o t
  <2>1. u \in Seq(Spoke) /\ Append(t, l) \in Seq(Spoke) BY ConcatProperties, AppendProperties
  <2>2. Append(u, l) = ls \o Append(t, l)
    <3>1. AppendsAtTheEnd(ls, t, l) BY AppendToConcat
    <3>. QED BY <3>1 DEF AppendsAtTheEnd
  <2>3. Words(u) = Words(ls) \o Words(t) BY <1>2
  <2> HIDE DEF u
  <2>4. Words(Append(u, l)) = Words(u) \o l.text BY <2>1, WordsAppend
  <2>5. Words(Append(t, l)) = Words(t) \o l.text /\ Words(t) \in Seq(Clauses)
    BY WordsAppend
  <2>6. Words(ls) \in Seq(Clauses) /\ l.text \in Seq(Clauses) BY WordsAppend DEF Spoke
  <2>7. (Words(ls) \o Words(t)) \o l.text = Words(ls) \o (Words(t) \o l.text)
    <3> DEFINE p == Words(ls)
               q == Words(t)
               r == l.text
    <3>1. p \in Seq(Clauses) /\ q \in Seq(Clauses) /\ r \in Seq(Clauses) BY <2>5, <2>6
    <3> HIDE DEF p, q, r
    <3>2. (p \o q) \o r = p \o (q \o r) BY <3>1, ConcatAssociates
    <3>. QED BY <3>2 DEF p, q, r
  <2>8. Words(ls \o Append(t, l)) = Words(ls) \o Words(Append(t, l))
    BY <2>2, <2>3, <2>4, <2>5, <2>7
  <2>. QED BY <2>1, <2>8
<1> HIDE DEF B
<1>3. Seq(Spoke) \subseteq B BY <1>1, <1>2, SequencesGrow
<1>. QED BY <1>3 DEF B

(* The words of lists of lines after one another.                          *)
LEMMA WordsFlatten ==
  ASSUME NEW lls \in Seq(Seq(Spoke))
  PROVE  Words(FlattenSeq(lls)) = FlattenSeq([k \in DOMAIN lls |-> Words(lls[k])])
<1> DEFINE T == Seq(Spoke)
           S == Seq(Clauses)
           inner(x) == [k \in DOMAIN x |-> Words(x[k])]
           B == {x \in Seq(T) : /\ inner(x) \in Seq(S)
                                /\ FlattenSeq(inner(x)) = Words(FlattenSeq(x))}
<1>0. <<>> \in Seq(S) /\ <<>> \in S /\ <<>> \in Seq(T) /\ <<>> \in T BY EmptySeq
<1>1. <<>> \in B
  <2>1. inner(<<>>) = <<>> BY EmptySeq
  <2>. QED BY <1>0, <2>1, FlattenNothing, WordsNothing
<1>2. ASSUME NEW x \in Seq(T), NEW t \in T, x \in B PROVE Append(x, t) \in B
  <2>1. /\ Append(x, t) \in Seq(T) /\ Len(Append(x, t)) = Len(x) + 1
        /\ \A k \in 1..Len(x) : Append(x, t)[k] = x[k]
        /\ Append(x, t)[Len(x) + 1] = t /\ Len(x) \in Nat
        /\ DOMAIN x = 1..Len(x) /\ DOMAIN Append(x, t) = 1..(Len(x) + 1)
    BY AppendProperties, LenProperties
  <2>2. Words(t) \in S
    <3>1. CASE t = <<>> BY <1>0, <3>1, WordsNothing
    <3>2. CASE t # <<>>
      <4>1. Last(t) \in Spoke BY <3>2, FrontLast
      <4>. QED BY <4>1, WordsAppend
    <3>. QED BY <3>1, <3>2
  <2> DEFINE a == inner(Append(x, t))
             b == Append(inner(x), Words(t))
  <2>3. inner(x) \in Seq(S) /\ FlattenSeq(inner(x)) = Words(FlattenSeq(x))
    BY <1>2
  <2>4. Len(inner(x)) = Len(x) BY <2>1
  <2>5. /\ b \in Seq(S) /\ Len(b) = Len(x) + 1
        /\ \A k \in 1..Len(x) : b[k] = Words(x[k])
        /\ b[Len(x) + 1] = Words(t)
    <3>1. \A k \in 1..Len(x) : inner(x)[k] = Words(x[k]) BY <2>1
    <3> HIDE DEF inner
    <3>. QED BY <2>2, <2>3, <2>4, <3>1, AppendProperties
  <2>6. a = b
    <3>1. b = [k \in 1..(Len(x) + 1) |-> b[k]] BY <2>5, LenProperties
    <3>2. \A k \in 1..(Len(x) + 1) : a[k] = b[k]
      <4>1. ASSUME NEW k \in 1..(Len(x) + 1) PROVE a[k] = b[k]
        <5>1. a[k] = Words(Append(x, t)[k]) BY <2>1
        <5>2. k = Len(x) + 1 \/ k \in 1..Len(x) BY <2>1
        <5> HIDE DEF a, b
        <5>3. CASE k = Len(x) + 1 BY <2>1, <2>5, <5>1, <5>3
        <5>4. CASE k \in 1..Len(x) BY <2>1, <2>5, <5>1, <5>4
        <5>. QED BY <5>2, <5>3, <5>4
      <4>. QED BY <4>1
    <3>3. a = [k \in 1..(Len(x) + 1) |-> a[k]] BY <2>1
    <3> HIDE DEF a, b
    <3>. QED BY <3>1, <3>2, <3>3
  <2>7. FlattenSeq(b) = FlattenSeq(inner(x)) \o Words(t) BY <2>2, <2>3, Flatten
  <2>8. FlattenSeq(x) \in T /\ FlattenSeq(Append(x, t)) = FlattenSeq(x) \o t BY Flatten
  <2>9. Words(FlattenSeq(x) \o t) = Words(FlattenSeq(x)) \o Words(t)
    BY <2>8, WordsConcat
  <2>10. FlattenSeq(a) = Words(FlattenSeq(Append(x, t)))
    BY <2>3, <2>6, <2>7, <2>8, <2>9
  <2>. QED BY <2>1, <2>5, <2>6, <2>10
<1> HIDE DEF B
<1>3. Seq(T) \subseteq B BY <1>1, <1>2, SequencesGrow
<1>. QED BY <1>3 DEF B

-----------------------------------------------------------------------------
(* Times.                                                                  *)
LEMMA MaxPair ==
  ASSUME NEW a \in Int, NEW b \in Int
  PROVE  Max({a, b}) \in {a, b} /\ Max({a, b}) >= a /\ Max({a, b}) >= b
<1>1. \E x \in {a, b} : \A y \in {a, b} : x >= y
  <2>1. CASE a >= b BY <2>1
  <2>2. CASE b >= a BY <2>2
  <2>. QED BY <2>1, <2>2
<1>2. /\ Max({a, b}) \in {a, b} /\ \A y \in {a, b} : Max({a, b}) >= y
  BY <1>1 DEF Max
<1>. QED BY <1>2

LEMMA MinPair ==
  ASSUME NEW a \in Int, NEW b \in Int
  PROVE  Min({a, b}) \in {a, b} /\ Min({a, b}) <= a /\ Min({a, b}) <= b
<1>1. \E x \in {a, b} : \A y \in {a, b} : x =< y
  <2>1. CASE a =< b BY <2>1
  <2>2. CASE b =< a BY <2>2
  <2>. QED BY <2>1, <2>2
<1>2. /\ Min({a, b}) \in {a, b} /\ \A y \in {a, b} : Min({a, b}) =< y
  BY <1>1 DEF Min
<1>. QED BY <1>2

LEMMA Quotients ==
  ASSUME NEW a \in Int, NEW b \in Nat \ {0}
  PROVE  /\ a \div b \in Int /\ a % b \in 0..(b - 1)
         /\ a >= 0 => a \div b >= 0
OBVIOUS

LEMMA QuotientsGrow ==
  ASSUME NEW a \in Int, NEW b \in Int, NEW c \in Nat \ {0}, a <= b
  PROVE  a \div c <= b \div c
OBVIOUS

LEMMA Products ==
  ASSUME NEW a \in Nat, NEW b \in Nat, NEW c \in Nat, a <= b
  PROVE  a * c \in Nat /\ b * c \in Nat /\ a * c <= b * c
OBVIOUS

LEMMA RoundType ==
  ASSUME NEW a \in Int, NEW b \in Nat \ {0}
  PROVE  Round(a, b) \in Int /\ (a >= 0 => Round(a, b) >= 0)
<1>1. a \div b \in Int /\ (a >= 0 => a \div b >= 0) BY Quotients
<1>2. Round(a, b) = a \div b + 1 \/ Round(a, b) = a \div b BY DEF Round
<1>. QED BY <1>1, <1>2

(* The spoken characters of the first i of a list of texts.                *)
Before(ss, i) == Spoken(FlattenSeq(SubSeq(ss, 1, i)))

LEMMA BeforeGrows ==
  ASSUME NEW ss \in Seq(Seq(Clauses))
  PROVE  /\ \A i \in 0..Len(ss) : Before(ss, i) \in Nat
         /\ \A i, j \in 0..Len(ss) : i <= j => Before(ss, i) <= Before(ss, j)
         /\ Before(ss, Len(ss)) = Spoken(FlattenSeq(ss))
<1> DEFINE n == Len(ss)
<1>0. n \in Nat /\ <<>> \in Seq(Clauses) BY LenProperties, EmptySeq
<1>1. SubSeq(ss, 1, 0) = <<>> /\ SubSeq(ss, 1, n) = ss BY PrefixesGrow
<1>2. Before(ss, 0) \in Nat
  <2>1. Before(ss, 0) = Spoken(<<>>) BY <1>1, FlattenNothing DEF Before
  <2>2. Spoken(<<>>) \in Nat BY <1>0, SpokenConcat
  <2>. QED BY <2>1, <2>2
<1>3. ASSUME NEW i \in 1..n
      PROVE  /\ Before(ss, i - 1) \in Nat /\ Before(ss, i) \in Nat
             /\ Before(ss, i - 1) <= Before(ss, i)
  <2> DEFINE p == SubSeq(ss, 1, i - 1)
             x == ss[i]
             f == FlattenSeq(p)
  <2>1. p \in Seq(Seq(Clauses)) /\ SubSeq(ss, 1, i) = Append(p, x) BY PrefixesGrow
  <2>2. x \in Seq(Clauses) BY ElementOfSeq
  <2> HIDE DEF p, x
  <2>3. f \in Seq(Clauses) /\ FlattenSeq(Append(p, x)) = f \o x BY <2>1, <2>2, Flatten
  <2> HIDE DEF f
  <2>4. Spoken(f) \in Nat /\ Spoken(x) \in Nat /\ Spoken(f \o x) = Spoken(f) + Spoken(x)
    BY <2>2, <2>3, SpokenConcat
  <2>5. Before(ss, i - 1) = Spoken(f) /\ Before(ss, i) = Spoken(f \o x)
    BY <2>1, <2>3 DEF Before, f, p
  <2>. QED BY <2>4, <2>5
<1>4. \A i \in 0..n : Before(ss, i) \in Nat
  <2>1. \A i \in 0..n : i = 0 \/ i \in 1..n BY <1>0
  <2>. QED BY <1>2, <1>3, <2>1
<1>5. ASSUME NEW i \in 0..n, NEW j \in 0..n, i <= j PROVE Before(ss, i) <= Before(ss, j)
  <2> DEFINE B == {k \in 0..n : i <= k => Before(ss, i) <= Before(ss, k)}
  <2>1. 0 \in B
    <3>1. Before(ss, 0) <= Before(ss, 0) BY <1>2
    <3>2. i <= 0 => i = 0 BY <1>0
    <3>. QED BY <1>0, <3>1, <3>2
  <2>2. ASSUME NEW k \in 1..n, k - 1 \in B PROVE k \in B
    <3>1. CASE i <= k - 1
      <4>1. Before(ss, i) <= Before(ss, k - 1) BY <2>2, <3>1
      <4>2. Before(ss, k - 1) <= Before(ss, k) /\ Before(ss, k - 1) \in Nat
            /\ Before(ss, k) \in Nat
        BY <1>3
      <4>3. Before(ss, i) \in Nat BY <1>4
      <4>4. Before(ss, i) <= Before(ss, k) BY <4>1, <4>2, <4>3
      <4>5. k \in 0..n BY <1>0
      <4>. QED BY <4>4, <4>5
    <3>2. CASE ~ i <= k - 1
      <4>1. i <= k => i = k BY <1>0, <3>2
      <4>2. Before(ss, k) \in Nat /\ k \in 0..n BY <1>0, <1>3
      <4>. QED BY <4>1, <4>2
    <3>. QED BY <3>1, <3>2
  <2> HIDE DEF B, n
  <2>3. \A k \in 0..n : k \in B BY <1>0, <2>1, <2>2, CountingUp
  <2>. QED BY <1>5, <2>3 DEF B
<1>6. Before(ss, n) = Spoken(FlattenSeq(ss)) BY <1>1 DEF Before
<1>. QED BY <1>4, <1>5, <1>6

(* _segments_from_vad_text keeps the words of a block.                     *)
TimedWell(text, start, end) ==
    LET ls == Timed(text, start, end)
    IN /\ ls \in Seq(Spoke) /\ Words(ls) = text
       /\ 0 <= start /\ start <= end => ls \in Seq(Sound)

LEMMA TimedKeeps ==
  ASSUME NEW text \in Seq(Clauses), text # <<>>, NEW start \in Int, NEW end \in Int
  PROVE  TimedWell(text, start, end)
<1> DEFINE lines_ == SplitSentences(text)
           n == Len(lines_)
           at(i) == start + Round((end - start) * Before(lines_, i), Before(lines_, n))
           ls == [i \in DOMAIN lines_ |->
                     Line(lines_[i], at(i - 1), Max({at(i - 1) + 1, at(i)}))]
<1>1. /\ lines_ \in Seq(Seq(Clauses) \ {<<>>}) /\ FlattenSeq(lines_) = text
      /\ lines_ \in Seq(Seq(Clauses))
  <2>1. Divides(SplitSentences(text), text, Clauses) BY SplitDivides
  <2>2. Seq(Seq(Clauses) \ {<<>>}) \subseteq Seq(Seq(Clauses)) OBVIOUS
  <2>. QED BY <2>1, <2>2 DEF Divides
<1>2. Timed(text, start, end) = ls BY DEF Timed, Before
<1> HIDE DEF lines_
<1>3. n \in Nat /\ DOMAIN lines_ = 1..n BY <1>1, LenProperties
<1>4. Before(lines_, n) \in Nat \ {0} BY <1>1, BeforeGrows, SpokenPositive
<1>5. ASSUME NEW i \in 0..n
      PROVE  at(i) \in Int /\ (0 <= start /\ start <= end => at(i) >= 0)
  <2> DEFINE b == Before(lines_, i)
             t == Before(lines_, n)
             p == (end - start) * b
  <2>1. b \in Nat BY <1>1, BeforeGrows
  <2>2. t \in Nat \ {0} BY <1>4
  <2> HIDE DEF b, t
  <2>3. p \in Int BY <2>1
  <2>4. start <= end => p >= 0
    <3>1. ASSUME NEW x \in Nat, NEW y \in Nat PROVE x * y >= 0 OBVIOUS
    <3>2. start <= end => end - start \in Nat OBVIOUS
    <3>. QED BY <2>1, <3>1, <3>2
  <2> HIDE DEF p
  <2>5. Round(p, t) \in Int /\ (p >= 0 => Round(p, t) >= 0) BY <2>2, <2>3, RoundType
  <2>6. at(i) = start + Round(p, t) BY DEF p, b, t
  <2> HIDE DEF at
  <2>. QED BY <2>4, <2>5, <2>6
<1> HIDE DEF at
<1>6. ASSUME NEW i \in 1..n
      PROVE  /\ ls[i] \in Spoke /\ ls[i].text = lines_[i]
             /\ 0 <= start /\ start <= end => ls[i] \in Sound
  <2> DEFINE a == at(i - 1)
             e == Max({a + 1, at(i)})
  <2>1. i - 1 \in 0..n /\ i \in 0..n BY <1>3
  <2>2. a \in Int /\ at(i) \in Int /\ (0 <= start /\ start <= end => a >= 0)
    BY <1>5, <2>1
  <2>3. a + 1 \in Int BY <2>2
  <2>4. ls[i] = [text |-> lines_[i], start |-> a, end |-> e] BY <1>3 DEF Line
  <2> HIDE DEF a, ls
  <2>5. e \in Int /\ e >= a + 1 BY <2>2, <2>3, MaxPair
  <2>6. lines_[i] \in Seq(Clauses) /\ lines_[i] # <<>>
    <3>1. lines_[i] \in Seq(Clauses) \ {<<>>} BY <1>1, <1>3, ElementOfSeq
    <3>. QED BY <3>1
  <2> HIDE DEF e
  <2>7. ls[i] \in Spoke /\ ls[i].text = lines_[i] BY <2>2, <2>4, <2>5, <2>6 DEF Spoke
  <2>8. ls[i].start = a /\ ls[i].end = e BY <2>4
  <2>. QED BY <2>2, <2>5, <2>7, <2>8 DEF Sound
<1>7. DOMAIN ls = 1..n BY <1>3
<1>8. ls = [i \in 1..n |-> ls[i]] BY <1>3
<1> HIDE DEF ls
<1>9. ls \in Seq(Spoke)
  <2>1. ls \in [1..n -> Spoke] BY <1>6, <1>8
  <2> HIDE DEF n
  <2>. QED BY <1>3, <2>1, SequenceOf
<1>10. ASSUME 0 <= start, start <= end PROVE ls \in Seq(Sound)
  <2>1. ls \in [1..n -> Sound] BY <1>6, <1>8, <1>10
  <2> HIDE DEF n
  <2>. QED BY <1>3, <2>1, SequenceOf
<1>11. Words(ls) = text
  <2>1. [i \in DOMAIN ls |-> ls[i].text] = lines_
    <3>1. lines_ = [i \in 1..n |-> lines_[i]] BY <1>1, <1>3
    <3>. QED BY <1>6, <1>7, <3>1
  <2>. QED BY <1>1, <2>1 DEF Words
<1>. QED BY <1>2, <1>9, <1>10, <1>11 DEF TimedWell

-----------------------------------------------------------------------------
(* Times that last.  Those that do not run back are in order.              *)
Orderly(times) ==
    \A i, j \in 1..Len(times) : i <= j => times[i][1] < times[j][2]
Positive(times) == \A i \in 1..Len(times) : 0 <= times[i][1]

(* What Lasting returns.                                                   *)
LastsWell(raw) ==
    LET kept == Lasting(raw)
    IN /\ kept \in Seq(Times)
       /\ \A i \in 1..Len(kept) : kept[i][1] < kept[i][2]
       /\ Forward(raw) => Orderly(kept)
       /\ (\A i \in DOMAIN raw : raw[i][1] >= 0) => Positive(kept)

LEMMA LastingKeeps ==
  ASSUME NEW raw \in Seq(Times)
  PROVE  LastsWell(raw)
<1> DEFINE I == {i \in DOMAIN raw : raw[i][2] > raw[i][1]}
           n == Cardinality(I)
           f == Ascending(I)
           t == Chosen(raw, I)
<1>1. DOMAIN raw = 1..Len(raw) /\ Len(raw) \in Nat BY LenProperties
<1>2. I \in SUBSET (1..Len(raw)) BY <1>1
<1>3. \A i \in 1..Len(raw) : raw[i] \in Times /\ raw[i][1] \in Int /\ raw[i][2] \in Int
  <2>1. \A i \in 1..Len(raw) : raw[i] \in Times BY ElementOfSeq
  <2>. QED BY <2>1 DEF Times
<1>4. \A i \in I : raw[i][1] < raw[i][2] BY <1>2, <1>3
<1>5. Lasting(raw) = t BY DEF Lasting
<1> HIDE DEF I
<1>6. /\ n \in Nat /\ f \in Enumerations(n, I) /\ t \in Seq(Times) /\ Len(t) = n
      /\ \A i \in 1..n : t[i] = raw[f[i]]
  BY <1>2, ChosenProperties
<1>7. /\ f \in [1..n -> I] /\ \A i, j \in 1..n : i < j => f[i] < f[j]
  BY <1>6 DEF Enumerations
<1> HIDE DEF n, f, t
<1>8. \A i \in 1..n : /\ f[i] \in I /\ f[i] \in 1..Len(raw) /\ f[i] \in DOMAIN raw
                      /\ t[i] = raw[f[i]]
  BY <1>1, <1>2, <1>6, <1>7
<1>9. \A i \in 1..Len(t) : t[i][1] < t[i][2] BY <1>4, <1>6, <1>8
<1>10. ASSUME Forward(raw), NEW i \in 1..Len(t), NEW j \in 1..Len(t), i <= j
       PROVE  t[i][1] < t[j][2]
  <2>1. i = j \/ i < j BY <1>6, <1>10
  <2>2. f[i] = f[j] \/ f[i] < f[j] BY <1>6, <1>7, <2>1
  <2>3. f[i] \in 1..Len(raw) /\ f[j] \in 1..Len(raw) BY <1>6, <1>8
  <2>4. f[i] <= f[j] BY <1>1, <2>2, <2>3
  <2>5. raw[f[i]][1] < raw[f[i]][2] /\ raw[f[j]][1] < raw[f[j]][2] BY <1>4, <1>6, <1>8
  <2>6. raw[f[i]][1] < raw[f[j]][2] BY <1>1, <1>10, <2>3, <2>4, <2>5 DEF Forward
  <2>. QED BY <1>6, <1>8, <2>6
<1>11. (\A i \in DOMAIN raw : raw[i][1] >= 0) => Positive(t)
  <2> SUFFICES ASSUME \A i \in DOMAIN raw : raw[i][1] >= 0, NEW i \in 1..Len(t)
               PROVE  0 <= t[i][1]
    BY DEF Positive
  <2>1. raw[f[i]][1] >= 0 /\ raw[f[i]][1] \in Int BY <1>3, <1>6, <1>8
  <2>. QED BY <1>6, <1>8, <2>1
<1>. QED BY <1>5, <1>6, <1>9, <1>10, <1>11 DEF LastsWell, Orderly

-----------------------------------------------------------------------------
(* _segments_from_vad_text keeps the words of a text, if it makes lines at *)
(* all.                                                                    *)
IntervalsKeep(text, intervals) ==
    LET ls == FromIntervals(text, intervals)
    IN /\ ls \in Seq(Spoke)
       /\ ls # <<>> => Words(ls) = FlattenSeq(text)
       /\ Orderly(intervals) /\ Positive(intervals) => ls \in Seq(Sound)

LEMMA FromIntervalsKeeps ==
  ASSUME NEW text \in Seq(Seq(Clauses)), NEW intervals \in Seq(Times)
  PROVE  IntervalsKeep(text, intervals)
<1> DEFINE I == {i \in DOMAIN text : text[i] # <<>>}
           blocks == Chosen(text, I)
           n == Len(blocks)
           whole == FlattenSeq(blocks)
           ls == FromIntervals(text, intervals)
<1>1. DOMAIN text = 1..Len(text) /\ Len(text) \in Nat BY LenProperties
<1>2. blocks \in Seq(Seq(Clauses)) /\ \A k \in 1..n : blocks[k] # <<>>
  <2>1. I \in SUBSET (1..Len(text)) /\ \A i \in I : text[i] # <<>> BY <1>1
  <2> HIDE DEF I
  <2>2. blocks \in Seq(Seq(Clauses)) /\ \A k \in 1..n : \E i \in I : blocks[k] = text[i]
    BY <2>1, ChosenProperties, ChosenItems
  <2>. QED BY <2>1, <2>2
<1>3. whole = FlattenSeq(text) BY FlattenNonempty
<1>4. ls = IF n = Len(intervals)
           THEN FlattenSeq([k \in DOMAIN blocks |->
                               Timed(blocks[k], intervals[k][1], intervals[k][2])])
           ELSE IF blocks # <<>> /\ intervals # <<>>
           THEN Timed(whole, intervals[1][1], Last(intervals)[2])
           ELSE <<>>
  BY DEF FromIntervals
<1> HIDE DEF ls, I, blocks
<1>5. /\ n \in Nat /\ DOMAIN blocks = 1..n
      /\ \A k \in 1..n : blocks[k] \in Seq(Clauses) /\ blocks[k] # <<>>
  BY <1>2, LenProperties, ElementOfSeq
<1>6. \A k \in 1..Len(intervals) : intervals[k][1] \in Int /\ intervals[k][2] \in Int
  <2>1. \A k \in 1..Len(intervals) : intervals[k] \in Times BY ElementOfSeq
  <2>. QED BY <2>1 DEF Times
<1>7. CASE n = Len(intervals)
  <2> DEFINE timed == [k \in DOMAIN blocks |->
                          Timed(blocks[k], intervals[k][1], intervals[k][2])]
  <2>1. ASSUME NEW k \in 1..n
        PROVE  /\ timed[k] \in Seq(Spoke) /\ Words(timed[k]) = blocks[k]
               /\ Orderly(intervals) /\ Positive(intervals) => timed[k] \in Seq(Sound)
    <3> DEFINE b == blocks[k]
               s == intervals[k][1]
               e == intervals[k][2]
    <3>1. b \in Seq(Clauses) /\ b # <<>> /\ s \in Int /\ e \in Int BY <1>5, <1>6, <1>7
    <3>2. timed[k] = Timed(b, s, e) BY <1>5
    <3>3. Orderly(intervals) /\ Positive(intervals) => 0 <= s /\ s <= e
      <4>1. k \in 1..Len(intervals) /\ k <= k BY <1>5, <1>7
      <4>2. Orderly(intervals) => s < e BY <4>1 DEF Orderly
      <4>3. Positive(intervals) => 0 <= s BY <4>1 DEF Positive
      <4> HIDE DEF s, e
      <4>. QED BY <3>1, <4>2, <4>3
    <3> HIDE DEF b, s, e, timed
    <3>4. TimedWell(b, s, e) BY <3>1, TimedKeeps
    <3>. QED BY <3>2, <3>3, <3>4 DEF TimedWell, b
  <2>2. DOMAIN timed = 1..n BY <1>5
  <2>3. timed = [k \in 1..n |-> timed[k]] BY <1>5
  <2>4. ls = FlattenSeq(timed) BY <1>4, <1>7
  <2>5. blocks = [k \in 1..n |-> blocks[k]] BY <1>2, <1>5
  <2> HIDE DEF timed, n
  <2>6. timed \in Seq(Seq(Spoke))
    <3>1. timed \in [1..n -> Seq(Spoke)] BY <2>1, <2>3
    <3>. QED BY <1>5, <3>1, SequenceOf
  <2>7. Words(ls) = FlattenSeq([k \in DOMAIN timed |-> Words(timed[k])])
    BY <2>4, <2>6, WordsFlatten
  <2>8. [k \in DOMAIN timed |-> Words(timed[k])] = blocks
    BY <2>1, <2>2, <2>5
  <2>9. ls \in Seq(Spoke)
    <3>1. <<>> \in Seq(Spoke) BY EmptySeq
    <3>. QED BY <2>4, <2>6, <3>1, Flatten
  <2>10. ASSUME Orderly(intervals), Positive(intervals) PROVE ls \in Seq(Sound)
    <3>1. timed \in [1..n -> Seq(Sound)] BY <2>1, <2>3, <2>10
    <3>2. timed \in Seq(Seq(Sound)) BY <1>5, <3>1, SequenceOf
    <3>3. <<>> \in Seq(Sound) BY EmptySeq
    <3>. QED BY <2>4, <3>2, <3>3, Flatten
  <2>. QED BY <1>3, <2>7, <2>8, <2>9, <2>10 DEF IntervalsKeep, ls
<1>8. CASE n # Len(intervals) /\ blocks # <<>> /\ intervals # <<>>
  <2> DEFINE s == intervals[1][1]
             e == Last(intervals)[2]
  <2>1. ls = Timed(whole, s, e) BY <1>4, <1>8
  <2>2. /\ 1 \in 1..Len(intervals) /\ Len(intervals) \in 1..Len(intervals)
        /\ Last(intervals) = intervals[Len(intervals)]
    BY <1>8, LenProperties DEF Last
  <2>3. s \in Int /\ e \in Int BY <1>6, <2>2
  <2>4. Orderly(intervals) /\ Positive(intervals) => 0 <= s /\ s <= e
    <3>1. Orderly(intervals) => s < e BY <2>2 DEF Orderly
    <3>2. Positive(intervals) => 0 <= s BY <2>2 DEF Positive
    <3> HIDE DEF s, e
    <3>. QED BY <2>3, <3>1, <3>2
  <2> HIDE DEF s, e
  <2>5. whole \in Seq(Clauses) /\ whole # <<>>
    <3> DEFINE a == Front(blocks)
               x == Last(blocks)
    <3>1. a \in Seq(Seq(Clauses)) /\ x \in Seq(Clauses) /\ blocks = Append(a, x)
      BY <1>2, <1>8, FrontLast
    <3>2. x # <<>>
      <4>1. Last(blocks) = blocks[n] /\ n \in 1..n BY <1>2, <1>8, LenProperties DEF Last
      <4>. QED BY <1>5, <4>1
    <3> HIDE DEF a, x
    <3>3. /\ FlattenSeq(a) \in Seq(Clauses)
          /\ FlattenSeq(Append(a, x)) = FlattenSeq(a) \o x
      BY <3>1, Flatten
    <3> DEFINE p == FlattenSeq(a)
    <3>4. p \in Seq(Clauses) /\ whole = p \o x BY <3>1, <3>3
    <3> HIDE DEF p, whole
    <3>. QED BY <3>1, <3>2, <3>4, ConcatProperties, LenProperties
  <2> HIDE DEF whole
  <2>6. TimedWell(whole, s, e) BY <2>3, <2>5, TimedKeeps
  <2>. QED BY <1>3, <2>1, <2>4, <2>6 DEF TimedWell, IntervalsKeep, ls
<1>9. CASE n # Len(intervals) /\ ~ (blocks # <<>> /\ intervals # <<>>)
  <2>1. ls = <<>> BY <1>4, <1>9
  <2>2. <<>> \in Seq(Spoke) /\ <<>> \in Seq(Sound) BY EmptySeq
  <2>. QED BY <2>1, <2>2 DEF IntervalsKeep, ls
<1>. QED BY <1>7, <1>8, <1>9

-----------------------------------------------------------------------------
(* Lines in order: none ends before one above it starts.                   *)
Advancing(ls) == \A i, j \in 1..Len(ls) : i <= j => ls[i].start < ls[j].end

(* _sentences_from_timestamps keeps the words of a text, if it makes lines *)
(* at all, and gives them times as they are in the timestamps.             *)
StampsKeep(text, raw) ==
    LET ls == FromTimestamps(text, raw)
    IN /\ ls \in Seq(Spoke)
       /\ ls # <<>> => Words(ls) = text
       /\ Orderly(Lasting(raw)) => Advancing(ls)
       /\ Positive(Lasting(raw)) => \A i \in 1..Len(ls) : 0 <= ls[i].start

(* The timestamps that a sentence gets, of m, when its text begins after p *)
(* and ends after q of the s spoken characters.                            *)
First(p, s, m) == Min({m, (p * m) \div s + 1})
Final(p, q, s, m) == Min({m, Max({First(p, s, m), -((-(q * m)) \div s)})})

LEMMA FirstFinal ==
  ASSUME NEW p \in Nat, NEW q \in Nat, NEW s \in Nat \ {0}, NEW m \in Nat \ {0}
  PROVE  /\ First(p, s, m) \in 1..m /\ Final(p, q, s, m) \in 1..m
         /\ First(p, s, m) <= Final(p, q, s, m)
<1> DEFINE a == (p * m) \div s
           b == (-(q * m)) \div s
           f == First(p, s, m)
           c == Max({f, -b})
<1>1. a \in Int /\ a >= 0
  <2>1. p * m \in Nat OBVIOUS
  <2> DEFINE x == p * m
  <2> HIDE DEF x
  <2>2. x \in Int /\ x >= 0 BY <2>1 DEF x
  <2>3. x \div s \in Int /\ (x >= 0 => x \div s >= 0) BY <2>2, Quotients
  <2>. QED BY <2>2, <2>3 DEF x
<1>2. b \in Int
  <2>1. -(q * m) \in Int OBVIOUS
  <2> DEFINE x == -(q * m)
  <2> HIDE DEF x
  <2>2. x \div s \in Int BY <2>1, Quotients DEF x
  <2>. QED BY <2>2 DEF x
<1> HIDE DEF a, b
<1>3. f \in 1..m
  <2>1. a + 1 \in Int /\ m \in Int BY <1>1
  <2>2. f = Min({m, a + 1}) BY DEF First, a
  <2> HIDE DEF f
  <2>3. f \in {m, a + 1} /\ f <= m BY <2>1, <2>2, MinPair
  <2>. QED BY <1>1, <2>3
<1> HIDE DEF f
<1>4. c \in Int /\ c >= f
  <2>1. f \in Int /\ -b \in Int BY <1>2, <1>3
  <2>2. c \in {f, -b} /\ c >= f BY <2>1, MaxPair
  <2>. QED BY <2>1, <2>2
<1> HIDE DEF c
<1>5. Final(p, q, s, m) = Min({m, c}) BY DEF Final, c, f, b
<1>6. Min({m, c}) \in {m, c} /\ Min({m, c}) <= m BY <1>4, MinPair
<1>. QED BY <1>3, <1>4, <1>5, <1>6 DEF f

LEMMA FirstGrows ==
  ASSUME NEW p \in Nat, NEW q \in Nat, p <= q, NEW s \in Nat \ {0}, NEW m \in Nat \ {0}
  PROVE  First(p, s, m) <= First(q, s, m)
<1> DEFINE x == p * m
           y == q * m
<1>1. x \in Nat /\ y \in Nat /\ x <= y BY Products
<1>2. First(p, s, m) = Min({m, x \div s + 1}) /\ First(q, s, m) = Min({m, y \div s + 1})
  BY DEF First
<1> HIDE DEF x, y
<1>3. x \div s \in Int /\ y \div s \in Int /\ x \div s <= y \div s
  BY <1>1, Quotients, QuotientsGrow
<1> DEFINE a == x \div s
           b == y \div s
<1>4. a + 1 \in Int /\ b + 1 \in Int /\ m \in Int /\ a <= b BY <1>3
<1> HIDE DEF a, b
<1>5. /\ Min({m, a + 1}) \in {m, a + 1} /\ Min({m, a + 1}) <= m
      /\ Min({m, a + 1}) <= a + 1 /\ Min({m, b + 1}) \in {m, b + 1}
  BY <1>4, MinPair
<1>6. Min({m, a + 1}) <= Min({m, b + 1}) BY <1>3, <1>4, <1>5 DEF a, b
<1>. QED BY <1>2, <1>6 DEF a, b

LEMMA FromTimestampsKeeps ==
  ASSUME NEW text \in Seq(Clauses), NEW raw \in Seq(Times)
  PROVE  StampsKeep(text, raw)
<1> DEFINE stamps == Lasting(raw)
           m == Len(stamps)
           ss == Sentences(text)
           n == Len(ss)
           total == Spoken(text)
           first(i) == First(Before(ss, i - 1), total, m)
           last(i) == Final(Before(ss, i - 1), Before(ss, i), total, m)
           all == [i \in DOMAIN ss |-> Line(ss[i], stamps[first(i)][1], stamps[last(i)][2])]
           ls == FromTimestamps(text, raw)
<1>1. ls = IF text = <<>> \/ m = 0 THEN <<>> ELSE all
  BY DEF FromTimestamps, First, Final, Before
<1>2. /\ ss \in Seq(Seq(Clauses) \ {<<>>}) /\ FlattenSeq(ss) = text
      /\ ss \in Seq(Seq(Clauses))
  <2>1. Divides(Sentences(text), text, Clauses) BY SentencesDivide
  <2>2. Seq(Seq(Clauses) \ {<<>>}) \subseteq Seq(Seq(Clauses)) OBVIOUS
  <2>. QED BY <2>1, <2>2 DEF Divides
<1>3. stamps \in Seq(Times) BY LastingKeeps DEF LastsWell
<1> HIDE DEF stamps, ss, total, ls
<1>4. /\ n \in Nat /\ DOMAIN ss = 1..n /\ m \in Nat
      /\ \A k \in 1..m : stamps[k][1] \in Int /\ stamps[k][2] \in Int
  <2>1. \A k \in 1..m : stamps[k] \in Times BY <1>3, ElementOfSeq
  <2>. QED BY <1>2, <1>3, <2>1, LenProperties DEF Times
<1>5. CASE text = <<>> \/ m = 0
  <2>1. ls = <<>> /\ <<>> \in Seq(Spoke) BY <1>1, <1>5, EmptySeq
  <2>2. 1..Len(<<>>) = {} OBVIOUS
  <2>. QED BY <2>1, <2>2 DEF StampsKeep, Advancing, ls
<1>6. CASE text # <<>> /\ m # 0
  <2>0. ls = all BY <1>1, <1>6
  <2>1. total \in Nat \ {0} /\ m \in Nat \ {0} BY <1>4, <1>6, SpokenPositive DEF total
  <2>2. \A i \in 1..n : Before(ss, i) \in Nat /\ Before(ss, i - 1) \in Nat
    <3>1. \A i \in 1..n : i \in 0..n /\ i - 1 \in 0..n BY <1>4
    <3>. QED BY <1>2, <3>1, BeforeGrows
  <2>3. ASSUME NEW i \in 1..n
        PROVE  first(i) \in 1..m /\ last(i) \in 1..m /\ first(i) <= last(i)
    <3> DEFINE p == Before(ss, i - 1)
               q == Before(ss, i)
    <3>1. p \in Nat /\ q \in Nat BY <2>2
    <3> HIDE DEF p, q, m
    <3>2. /\ First(p, total, m) \in 1..m /\ Final(p, q, total, m) \in 1..m
          /\ First(p, total, m) <= Final(p, q, total, m)
      BY <2>1, <3>1, FirstFinal
    <3>. QED BY <3>2 DEF p, q
  <2>4. ASSUME NEW i \in 1..n, NEW j \in 1..n, i <= j PROVE first(i) <= first(j)
    <3> DEFINE p == Before(ss, i - 1)
               q == Before(ss, j - 1)
    <3>1. p \in Nat /\ q \in Nat BY <2>2
    <3>2. p <= q
      <4>1. i - 1 \in 0..n /\ j - 1 \in 0..n /\ i - 1 <= j - 1 BY <1>4, <2>4
      <4>. QED BY <1>2, <4>1, BeforeGrows
    <3> HIDE DEF p, q, m
    <3>3. First(p, total, m) <= First(q, total, m) BY <2>1, <3>1, <3>2, FirstGrows
    <3>. QED BY <3>3 DEF p, q
  <2> HIDE DEF first, last
  <2>5. ASSUME NEW i \in 1..n
        PROVE  /\ all[i] = [text |-> ss[i], start |-> stamps[first(i)][1],
                            end |-> stamps[last(i)][2]]
               /\ all[i] \in Spoke
    <3>1. all[i] = [text |-> ss[i], start |-> stamps[first(i)][1],
                    end |-> stamps[last(i)][2]]
      BY <1>4 DEF Line
    <3>2. ss[i] \in Seq(Clauses) /\ ss[i] # <<>>
      <4>1. ss[i] \in Seq(Clauses) \ {<<>>} BY <1>2, <1>4, ElementOfSeq
      <4>. QED BY <4>1
    <3>3. stamps[first(i)][1] \in Int /\ stamps[last(i)][2] \in Int BY <1>4, <2>3
    <3>. QED BY <3>1, <3>2, <3>3 DEF Spoke
  <2>13. ASSUME NEW i \in 1..n
         PROVE  all[i].start = stamps[first(i)][1] /\ all[i].end = stamps[last(i)][2]
    <3> DEFINE x == stamps[first(i)][1]
               y == stamps[last(i)][2]
    <3>1. all[i] = [text |-> ss[i], start |-> x, end |-> y] BY <2>5
    <3> HIDE DEF all, x, y
    <3>. QED BY <3>1 DEF x, y
  <2>6. DOMAIN all = 1..n BY <1>4
  <2>7. all = [i \in 1..n |-> all[i]] BY <1>4
  <2> HIDE DEF all, n
  <2>8. all \in Seq(Spoke) /\ Len(all) = n
    <3>1. all \in [1..n -> Spoke] BY <2>5, <2>7
    <3>. QED BY <1>4, <3>1, SequenceOf
  <2>9. Words(all) = text
    <3>1. [i \in DOMAIN all |-> all[i].text] = ss
      <4>1. ss = [i \in 1..n |-> ss[i]] BY <1>2, <1>4
      <4>. QED BY <2>5, <2>6, <4>1
    <3>. QED BY <1>2, <3>1 DEF Words
  <2>10. ASSUME Orderly(stamps), NEW i \in 1..n, NEW j \in 1..n, i <= j
         PROVE  all[i].start < all[j].end
    <3>1. first(i) <= last(j)
      <4>1. /\ first(i) \in 1..m /\ first(j) \in 1..m /\ last(j) \in 1..m
            /\ first(j) <= last(j) /\ first(i) <= first(j)
        BY <2>3, <2>4, <2>10
      <4>. QED BY <1>4, <4>1
    <3>2. first(i) \in 1..m /\ last(j) \in 1..m BY <2>3
    <3>3. stamps[first(i)][1] < stamps[last(j)][2] BY <2>10, <3>1, <3>2 DEF Orderly
    <3>. QED BY <2>13, <3>3
  <2>11. ASSUME Positive(stamps), NEW i \in 1..n PROVE 0 <= all[i].start
    <3>1. first(i) \in 1..m BY <2>3
    <3>2. 0 <= stamps[first(i)][1] BY <2>11, <3>1 DEF Positive
    <3>. QED BY <2>13, <3>2
  <2>12. /\ Orderly(stamps) => Advancing(ls)
         /\ Positive(stamps) => \A i \in 1..Len(ls) : 0 <= ls[i].start
    BY <2>0, <2>8, <2>10, <2>11 DEF Advancing
  <2>. QED BY <2>0, <2>8, <2>9, <2>12 DEF StampsKeep, ls, stamps
<1>. QED BY <1>5, <1>6

-----------------------------------------------------------------------------
(* The lines that _parse_result does not drop.                             *)
Timing == [text : Seq(Clauses), start : Int, end : Int]
Valid(ls) ==
    Chosen(ls, {i \in DOMAIN ls :
                   ls[i].text # <<>> /\ ls[i].start >= 0 /\ ls[i].end > ls[i].start})
ValidWell(ls) ==
    /\ Valid(ls) \in Seq(Sound)
    /\ Forward(Stretches(ls)) => Advancing(Valid(ls))
    /\ (\A i \in 1..Len(ls) : ls[i] \in Sound) => Valid(ls) = ls

LEMMA ValidKeeps ==
  ASSUME NEW ls \in Seq(Timing)
  PROVE  ValidWell(ls)
<1> DEFINE I == {i \in DOMAIN ls :
                    ls[i].text # <<>> /\ ls[i].start >= 0 /\ ls[i].end > ls[i].start}
           n == Cardinality(I)
           f == Ascending(I)
           v == Chosen(ls, I)
<1>1. DOMAIN ls = 1..Len(ls) /\ Len(ls) \in Nat BY LenProperties
<1>2. I \in SUBSET (1..Len(ls)) BY <1>1
<1>3. \A i \in 1..Len(ls) : /\ ls[i] \in Timing /\ ls[i].text \in Seq(Clauses)
                            /\ ls[i].start \in Int /\ ls[i].end \in Int
  <2>1. \A i \in 1..Len(ls) : ls[i] \in Timing BY ElementOfSeq
  <2>. QED BY <2>1 DEF Timing
<1>4. \A i \in I : ls[i] \in Sound
  BY <1>2, <1>3 DEF Sound, Spoke, Timing
<1>5. Valid(ls) = v BY DEF Valid
<1>6. (\A i \in 1..Len(ls) : ls[i] \in Sound) => I = 1..Len(ls)
  BY <1>1, <1>3 DEF Sound, Spoke
<1> HIDE DEF I
<1>7. /\ n \in Nat /\ f \in [1..n -> I] /\ v \in Seq(Timing) /\ Len(v) = n
      /\ \A i, j \in 1..n : i < j => f[i] < f[j]
      /\ \A i \in 1..n : v[i] = ls[f[i]]
  BY <1>2, ChosenProperties DEF Enumerations
<1>8. (\A i \in 1..Len(ls) : ls[i] \in Sound) => v = ls
  BY <1>6, ChosenEverything
<1> HIDE DEF n, f, v
<1>9. \A i \in 1..n : v[i] \in Sound BY <1>4, <1>7
<1>10. v \in Seq(Sound)
  <2>1. v = [i \in 1..n |-> v[i]] BY <1>7, LenProperties
  <2>2. v \in [1..n -> Sound] BY <1>9, <2>1
  <2>. QED BY <1>7, <2>2, SequenceOf
<1>11. ASSUME Forward(Stretches(ls)), NEW i \in 1..Len(v), NEW j \in 1..Len(v), i <= j
       PROVE  v[i].start < v[j].end
  <2> DEFINE k == f[i]
             l == f[j]
             t == Stretches(ls)
  <2>1. k \in I /\ l \in I /\ k \in 1..Len(ls) /\ l \in 1..Len(ls) BY <1>2, <1>7
  <2>2. i = j \/ i < j BY <1>7, <1>11
  <2>3. k = l \/ k < l BY <1>7, <2>2
  <2>4. v[i] = ls[k] /\ v[j] = ls[l] BY <1>7
  <2> HIDE DEF k, l
  <2>5. k <= l BY <1>1, <2>1, <2>3
  <2>6. ls[k].start < ls[k].end /\ ls[l].start < ls[l].end
    BY <1>4, <2>1 DEF Sound
  <2>7. /\ k \in DOMAIN t /\ l \in DOMAIN t
        /\ t[k][1] = ls[k].start /\ t[k][2] = ls[k].end
        /\ t[l][1] = ls[l].start /\ t[l][2] = ls[l].end
    BY <1>1, <2>1 DEF Stretches
  <2>8. Forward(t) BY <1>11
  <2> HIDE DEF t
  <2>9. t[k][1] < t[l][2] BY <2>5, <2>6, <2>7, <2>8 DEF Forward
  <2>. QED BY <2>4, <2>7, <2>9
<1>. QED BY <1>5, <1>8, <1>10, <1>11 DEF ValidWell, Advancing

(* What the times of a line tell of the text around it.                    *)
LEMMA AdvancingIsForward ==
  ASSUME NEW ls \in Seq(Timing), Advancing(ls)
  PROVE  Forward(Stretches(ls))
<1>1. DOMAIN ls = 1..Len(ls) BY LenProperties
<1>. QED BY <1>1 DEF Stretches, Forward, Advancing

LEMMA OneLine ==
  ASSUME NEW text \in Seq(Clauses), NEW start \in Int, NEW end \in Int
  PROVE  /\ <<Line(text, start, end)>> \in Seq(Timing)
         /\ Forward(Stretches(<<Line(text, start, end)>>))
         /\ <<Line(text, start, end)>> # <<>>
         /\ Words(<<Line(text, start, end)>>) = text
<1> DEFINE l == Line(text, start, end)
           t == <<l>>
<1>1. l \in Timing /\ l.text = text /\ l.start = start /\ l.end = end
  BY DEF Line, Timing
<1> HIDE DEF l
<1>2. t \in Seq(Timing) /\ DOMAIN t = 1..1 /\ t[1] = l /\ Len(t) = 1 BY <1>1
<1>3. Forward(Stretches(t))
  <2>1. \A i \in DOMAIN t : t[i] = l BY <1>2
  <2>2. DOMAIN Stretches(t) = DOMAIN t BY DEF Stretches
  <2>3. \A i \in DOMAIN t : Stretches(t)[i] = <<start, end>> BY <1>1, <2>1 DEF Stretches
  <2>. QED BY <2>2, <2>3 DEF Forward
<1>4. Words(t) = text
  <2>1. [i \in DOMAIN t |-> t[i].text] = <<text>> BY <1>1, <1>2
  <2>2. <<>> \in Seq(Seq(Clauses)) /\ <<>> \in Seq(Clauses) BY EmptySeq
  <2>3. Append(<<>>, text) = <<text>> BY EmptySeq
  <2>4. FlattenSeq(Append(<<>>, text)) = FlattenSeq(<<>>) \o text BY <2>2, Flatten
  <2>5. <<>> \o text = text BY ConcatEmptySeq
  <2>. QED BY <2>1, <2>3, <2>4, <2>5, FlattenNothing DEF Words
<1>. QED BY <1>2, <1>3, <1>4 DEF l

(* Sentences in order neither overlap nor run back.                        *)
LEMMA OrderAdvances ==
  ASSUME NEW ls \in Seq(Sound), InOrder(ls)
  PROVE  /\ \A i, j \in 1..Len(ls) : i < j => ls[i].end <= ls[j].start
         /\ Advancing(ls)
<1> DEFINE n == Len(ls)
<1>1. n \in Nat BY LenProperties
<1>2. \A i \in 1..n : /\ ls[i].start \in Int /\ ls[i].end \in Int
                      /\ ls[i].start < ls[i].end
  <2>1. \A i \in 1..n : ls[i] \in Sound BY ElementOfSeq
  <2>. QED BY <2>1 DEF Sound, Spoke
<1>3. \A i \in 1..n - 1 : ls[i].end <= ls[i + 1].start BY DEF InOrder
<1> HIDE DEF n
<1>4. ASSUME NEW i \in 1..n, NEW j \in 1..n, i < j PROVE ls[i].end <= ls[j].start
  <2> DEFINE B == {k \in 0..n : i < k => ls[i].end <= ls[k].start}
  <2>1. 0 \in B BY <1>1
  <2>2. ASSUME NEW k \in 1..n, k - 1 \in B PROVE k \in B
    <3>0. k \in 0..n /\ k - 1 \in 0..n BY <1>1
    <3>1. CASE i = k - 1
      <4>1. k - 1 \in 1..n - 1 /\ (k - 1) + 1 = k BY <1>1, <3>1
      <4>2. ls[i].end <= ls[k].start BY <1>3, <3>1, <4>1
      <4>. QED BY <3>0, <4>2
    <3>2. CASE i < k - 1
      <4>1. k - 1 \in 1..n - 1 /\ k - 1 \in 1..n /\ (k - 1) + 1 = k BY <1>1, <3>2
      <4>2. ls[i].end <= ls[k - 1].start BY <2>2, <3>2
      <4>3. ls[k - 1].end <= ls[k].start BY <1>3, <4>1
      <4>4. ls[i].end <= ls[k].start BY <1>2, <4>1, <4>2, <4>3
      <4>. QED BY <3>0, <4>4
    <3>3. CASE ~ i <= k - 1
      <4>1. ~ i < k BY <1>1, <3>3
      <4>. QED BY <3>0, <4>1
    <3>. QED BY <1>1, <3>1, <3>2, <3>3
  <2> HIDE DEF B
  <2>3. \A k \in 0..n : k \in B BY <1>1, <2>1, <2>2, CountingUp
  <2>4. j \in 0..n BY <1>1
  <2>. QED BY <1>4, <2>3, <2>4 DEF B
<1>5. ASSUME NEW i \in 1..n, NEW j \in 1..n, i <= j PROVE ls[i].start < ls[j].end
  <2>1. i = j \/ i < j BY <1>1, <1>5
  <2>2. CASE i = j BY <1>2, <2>2
  <2>3. CASE i < j
    <3>1. ls[i].end <= ls[j].start BY <1>4, <2>3
    <3>. QED BY <1>2, <3>1
  <2>. QED BY <2>1, <2>2, <2>3
<1>. QED BY <1>4, <1>5 DEF Advancing, n

(* Times that do not run back, or that are in order and apart.             *)
Sensible(s) == InTime(s) \/ WellTimed(s)

(* _parse_result                                                           *)
ParseWell(s, duration) ==
    LET native == ParseResult(s, duration)
    IN /\ native \in Seq(Sound)
       /\ Sensible(s) => Advancing(native)
       /\ WellTimed(s) => Words(native) = FlattenSeq(s.text)

(* The lines with times that _parse_result starts from.                    *)
Native(s) ==
    LET text == FlattenSeq(s.text)
    IN IF s.sentences # <<>> THEN s.sentences
       ELSE IF s.span # <<>> THEN <<Line(text, s.span[1], s.span[2])>>
       ELSE FromTimestamps(text, s.stamps)
NativeWell(s) ==
    LET ls == Native(s)
    IN /\ ls \in Seq(Timing)
       /\ Sensible(s) => Forward(Stretches(ls))
       /\ WellTimed(s) /\ ls # <<>> => Words(ls) = FlattenSeq(s.text)
       /\ WellTimed(s) =>
             (\A i \in 1..Len(ls) : ls[i] \in Sound) \/ Len(ls) = 1
LEMMA ApartIsOrderly ==
  ASSUME NEW raw \in Seq(Times), Apart(raw)
  PROVE  Orderly(Lasting(raw)) /\ Positive(Lasting(raw))
<1> DEFINE t == Lasting(raw)
<1>1. t \in Seq(Times) /\ \A i \in 1..Len(t) : t[i][1] < t[i][2]
  BY LastingKeeps DEF LastsWell
<1>2. /\ \A i \in DOMAIN t : t[i][1] >= 0
      /\ \A i, j \in DOMAIN t : i < j => t[i][2] <= t[j][1]
  BY DEF Apart
<1> HIDE DEF t
<1>3. DOMAIN t = 1..Len(t) /\ Len(t) \in Nat BY <1>1, LenProperties
<1>4. \A i \in 1..Len(t) : t[i][1] \in Int /\ t[i][2] \in Int
  <2>1. \A i \in 1..Len(t) : t[i] \in Times BY <1>1, ElementOfSeq
  <2>. QED BY <2>1 DEF Times
<1>5. ASSUME NEW i \in 1..Len(t), NEW j \in 1..Len(t), i <= j PROVE t[i][1] < t[j][2]
  <2>1. i = j \/ i < j BY <1>3, <1>5
  <2>2. CASE i = j BY <1>1, <2>2
  <2>3. CASE i < j
    <3>1. t[i][1] < t[i][2] /\ t[i][2] <= t[j][1] /\ t[j][1] < t[j][2]
      BY <1>1, <1>2, <1>3, <2>3
    <3>. QED BY <1>4, <3>1
  <2>. QED BY <2>1, <2>2, <2>3
<1>6. \A i \in 1..Len(t) : 0 <= t[i][1] BY <1>2, <1>3, <1>4
<1>. QED BY <1>5, <1>6 DEF Orderly, Positive, t

LEMMA SayingFields ==
  ASSUME NEW s \in Sayings
  PROVE  /\ s.text \in Seq(Seq(Clauses)) /\ s.sentences \in Seq(Timing)
         /\ s.span # <<>> => s.span[1] \in Int /\ s.span[2] \in Int
         /\ s.stamps \in Seq(Times) /\ s.vad \in Seq(Times)
         /\ FlattenSeq(s.text) \in Seq(Clauses)
<1>1. /\ s.text \in Seq(Seq(Clauses)) /\ s.sentences \in Seq(Timing)
      /\ s.span # <<>> => s.span \in Times
      /\ s.stamps \in Seq(Times) /\ s.vad \in Seq(Times)
  BY DEF Sayings, Timing
<1>2. \A x \in Times : x[1] \in Int /\ x[2] \in Int BY DEF Times
<1>3. FlattenSeq(s.text) \in Seq(Clauses)
  <2> DEFINE t == s.text
  <2>1. t \in Seq(Seq(Clauses)) BY <1>1
  <2>2. <<>> \in Seq(Clauses) BY EmptySeq
  <2> HIDE DEF t
  <2>3. FlattenSeq(t) \in Seq(Clauses) BY <2>1, <2>2, Flatten
  <2>. QED BY <2>3 DEF t
<1>. QED BY <1>1, <1>2, <1>3

LEMMA NativeKeeps ==
  ASSUME NEW s \in Sayings
  PROVE  NativeWell(s)
<1> DEFINE text == FlattenSeq(s.text)
           ls == Native(s)
<1>1. /\ s.sentences \in Seq(Timing) /\ s.stamps \in Seq(Times)
      /\ s.span # <<>> => s.span[1] \in Int /\ s.span[2] \in Int
      /\ text \in Seq(Clauses)
  BY SayingFields
<1>2. ls = IF s.sentences # <<>> THEN s.sentences
           ELSE IF s.span # <<>> THEN <<Line(text, s.span[1], s.span[2])>>
           ELSE FromTimestamps(text, s.stamps)
  BY DEF Native
<1> HIDE DEF text, ls
<1>3. CASE s.sentences # <<>>
  <2> DEFINE ss == s.sentences
  <2>1. ls = ss BY <1>2, <1>3
  <2>2. InTime(s) => Forward(Stretches(ss)) BY DEF InTime, Stretches
  <2>3. WellTimed(s) =>
           /\ Words(ss) = FlattenSeq(s.text)
           /\ \A i \in DOMAIN ss :
                 ss[i].text # <<>> /\ ss[i].start >= 0 /\ ss[i].start < ss[i].end
    BY <1>3 DEF WellTimed
  <2>4. ss \in Seq(Timing) BY <1>1
  <2> HIDE DEF ss
  <2>5. \A i \in 1..Len(ss) : ss[i] \in Timing /\ DOMAIN ss = 1..Len(ss)
    BY <2>4, ElementOfSeq, LenProperties
  <2>6. WellTimed(s) => \A i \in 1..Len(ss) : ss[i] \in Sound
    <3> SUFFICES ASSUME WellTimed(s), NEW i \in 1..Len(ss) PROVE ss[i] \in Sound
      OBVIOUS
    <3>1. ss[i] \in Timing /\ ss[i].text # <<>> /\ ss[i].start >= 0 /\ ss[i].start < ss[i].end
      BY <2>3, <2>5
    <3>. QED BY <3>1 DEF Sound, Spoke, Timing
  <2>7. WellTimed(s) => Forward(Stretches(ss))
    <3> SUFFICES ASSUME WellTimed(s) PROVE Forward(Stretches(ss)) OBVIOUS
    <3>1. InOrder(ss) BY <1>3 DEF WellTimed, ss
    <3>2. ss \in Seq(Sound)
      <4> DEFINE n == Len(ss)
      <4>1. n \in Nat /\ ss = [i \in 1..n |-> ss[i]] BY <2>4, LenProperties
      <4>2. ss \in [1..n -> Sound] BY <2>6, <4>1
      <4> HIDE DEF n
      <4>. QED BY <4>1, <4>2, SequenceOf
    <3>3. Advancing(ss) BY <3>1, <3>2, OrderAdvances
    <3>. QED BY <2>4, <3>3, AdvancingIsForward
  <2>. QED BY <2>1, <2>2, <2>3, <2>4, <2>6, <2>7 DEF NativeWell, Sensible, ls
<1>4. CASE s.sentences = <<>> /\ s.span # <<>>
  <2> DEFINE a == s.span[1]
             b == s.span[2]
             t == <<Line(text, a, b)>>
  <2>1. ls = t BY <1>2, <1>4
  <2>2. a \in Int /\ b \in Int BY <1>1, <1>4
  <2>3. Len(t) = 1 OBVIOUS
  <2> HIDE DEF a, b
  <2>4. /\ t \in Seq(Timing) /\ Forward(Stretches(t)) /\ t # <<>> /\ Words(t) = text
    BY <1>1, <2>2, OneLine
  <2> HIDE DEF t
  <2>. QED BY <2>1, <2>3, <2>4 DEF NativeWell, ls, text
<1>5. CASE s.sentences = <<>> /\ s.span = <<>>
  <2> DEFINE raw == s.stamps
             t == FromTimestamps(text, raw)
  <2>1. ls = t BY <1>2, <1>5
  <2>2. raw \in Seq(Times) BY <1>1
  <2>3. /\ InTime(s) => Forward(raw)
        /\ WellTimed(s) => Apart(raw)
    BY DEF InTime, WellTimed
  <2> HIDE DEF raw
  <2>4. StampsKeep(text, raw) /\ LastsWell(raw)
    BY <1>1, <2>2, FromTimestampsKeeps, LastingKeeps
  <2>5. /\ t \in Seq(Spoke)
        /\ t # <<>> => Words(t) = text
        /\ Orderly(Lasting(raw)) => Advancing(t)
        /\ Positive(Lasting(raw)) => \A i \in 1..Len(t) : 0 <= t[i].start
    BY <2>4 DEF StampsKeep
  <2> HIDE DEF t
  <2>6. t \in Seq(Timing)
    <3>1. Seq(Spoke) \subseteq Seq(Timing)
      <4>1. Spoke \subseteq Timing BY DEF Spoke, Timing
      <4>. QED BY <4>1
    <3>. QED BY <2>5, <3>1
  <2>7. Sensible(s) => Forward(Stretches(t))
    <3>1. InTime(s) => Advancing(t) BY <2>3, <2>4, <2>5 DEF LastsWell
    <3>2. WellTimed(s) => Advancing(t) BY <2>2, <2>3, <2>5, ApartIsOrderly
    <3>. QED BY <2>6, <3>1, <3>2, AdvancingIsForward DEF Sensible
  <2>8. WellTimed(s) => \A i \in 1..Len(t) : t[i] \in Sound
    <3> SUFFICES ASSUME WellTimed(s), NEW i \in 1..Len(t) PROVE t[i] \in Sound
      OBVIOUS
    <3>1. Advancing(t) /\ 0 <= t[i].start BY <2>2, <2>3, <2>5, ApartIsOrderly
    <3>2. i <= i OBVIOUS
    <3>3. t[i].start < t[i].end BY <3>1, <3>2 DEF Advancing
    <3>4. t[i] \in Spoke BY <2>5, ElementOfSeq
    <3>. QED BY <3>1, <3>3, <3>4 DEF Sound
  <2>9. t # <<>> => Words(t) = text BY <2>5
  <2>. QED BY <2>1, <2>6, <2>7, <2>8, <2>9 DEF NativeWell, ls, text
<1>. QED BY <1>3, <1>4, <1>5

LEMMA ParseKeeps ==
  ASSUME NEW s \in Sayings, NEW duration \in Nat, MinSpan \in Nat \ {0}
  PROVE  ParseWell(s, duration)
<1> DEFINE text == FlattenSeq(s.text)
           ls == Native(s)
           valid == Valid(ls)
           whole == <<Line(text, 0, Max({MinSpan, duration}))>>
           native == ParseResult(s, duration)
<1>1. text \in Seq(Clauses) BY SayingFields
<1>2. native = IF valid # <<>> THEN valid ELSE IF text # <<>> THEN whole ELSE <<>>
  BY DEF ParseResult, Native, Valid
<1>3. /\ ls \in Seq(Timing)
      /\ Sensible(s) => Forward(Stretches(ls))
      /\ WellTimed(s) /\ ls # <<>> => Words(ls) = text
      /\ WellTimed(s) => (\A i \in 1..Len(ls) : ls[i] \in Sound) \/ Len(ls) = 1
  BY NativeKeeps DEF NativeWell
<1> HIDE DEF ls, native, text
<1>4. /\ valid \in Seq(Sound)
      /\ Forward(Stretches(ls)) => Advancing(valid)
      /\ (\A i \in 1..Len(ls) : ls[i] \in Sound) => valid = ls
  BY <1>3, ValidKeeps DEF ValidWell
<1>5. CASE valid # <<>>
  <2>1. native = valid BY <1>2, <1>5
  <2>2. Len(ls) = 1 => valid = ls
    <3> SUFFICES ASSUME Len(ls) = 1 PROVE valid = ls OBVIOUS
    <3> DEFINE I == {i \in DOMAIN ls :
                        ls[i].text # <<>> /\ ls[i].start >= 0 /\ ls[i].end > ls[i].start}
    <3>1. I \in SUBSET (1..Len(ls)) BY <1>3, LenProperties
    <3>2. valid = Chosen(ls, I) BY DEF Valid
    <3> HIDE DEF I, valid
    <3>3. I = {} => valid = <<>> BY <1>3, <3>2, ChosenNothing
    <3>4. I = 1..Len(ls)
      <4>1. I # {} /\ 1..Len(ls) = {1} BY <1>5, <3>3
      <4>. QED BY <3>1, <4>1
    <3>. QED BY <1>3, <3>2, <3>4, ChosenEverything
  <2> HIDE DEF valid
  <2>3. WellTimed(s) => Words(native) = text
    BY <1>3, <1>4, <1>5, <2>1, <2>2
  <2>. QED BY <1>3, <1>4, <2>1, <2>3 DEF ParseWell, native, text
<1>6. CASE valid = <<>> /\ text # <<>>
  <2> DEFINE e == Max({MinSpan, duration})
  <2>1. native = <<Line(text, 0, e)>> BY <1>2, <1>6
  <2>2. e \in Nat \ {0}
    <3>1. MinSpan \in Int /\ duration \in Int OBVIOUS
    <3>2. e \in {MinSpan, duration} /\ e >= MinSpan BY <3>1, MaxPair
    <3>. QED BY <3>2
  <2> HIDE DEF e
  <2>3. Line(text, 0, e) \in Sound BY <1>1, <1>6, <2>2 DEF Line, Sound, Spoke
  <2>4. native \in Seq(Sound) BY <2>1, <2>3
  <2>5. Words(native) = text
    <3>1. 0 \in Int /\ e \in Int BY <2>2
    <3>. QED BY <1>1, <2>1, <3>1, OneLine
  <2>6. Advancing(native)
    <3>1. Len(native) = 1 /\ native[1] = Line(text, 0, e) BY <2>1
    <3>2. native[1].start = 0 /\ native[1].end = e BY <3>1 DEF Line
    <3>3. 0 < e BY <2>2
    <3>. QED BY <3>1, <3>2, <3>3 DEF Advancing
  <2>. QED BY <2>4, <2>5, <2>6 DEF ParseWell, native, text
<1>7. CASE valid = <<>> /\ text = <<>>
  <2>1. native = <<>> BY <1>2, <1>7
  <2>2. <<>> \in Seq(Sound) /\ 1..Len(<<>>) = {} BY EmptySeq
  <2>3. Words(native) = text BY <1>7, <2>1, WordsNothing
  <2>. QED BY <2>1, <2>2, <2>3 DEF ParseWell, Advancing, native, text
<1>. QED BY <1>5, <1>6, <1>7

-----------------------------------------------------------------------------
(* Joining fragments.                                                      *)
JoinLine(lines_, f, closes) ==
    IF lines_ = <<>> \/ closes THEN Append(lines_, f)
    ELSE Append(Front(lines_), Line(Last(lines_).text \o f.text, Last(lines_).start, f.end))

(* Whose words are those of the lines and then of the fragment.            *)
JoinKeeps(lines_, f, closes) ==
    LET ls == JoinLine(lines_, f, closes)
    IN /\ ls \in Seq(Spoke) /\ Words(ls) = Words(lines_) \o f.text
       /\ \A k \in 1..Len(ls) :
             \/ k \in 1..Len(lines_) /\ ls[k] = lines_[k]
             \/ ls[k] = f
             \/ /\ lines_ # <<>> /\ ls[k].end = f.end
                /\ ls[k].start = lines_[Len(lines_)].start

LEMMA JoinLineKeeps ==
  ASSUME NEW lines_ \in Seq(Spoke), NEW f \in Spoke, NEW closes \in BOOLEAN
  PROVE  JoinKeeps(lines_, f, closes)
<1> DEFINE n == Len(lines_)
           ls == JoinLine(lines_, f, closes)
<1>1. n \in Nat BY LenProperties
<1>2. f.text \in Seq(Clauses) /\ f.text # <<>> /\ f.start \in Int /\ f.end \in Int
  BY DEF Spoke
<1>3. CASE lines_ = <<>> \/ closes
  <2>1. ls = Append(lines_, f) BY <1>3 DEF JoinLine
  <2>2. /\ ls \in Seq(Spoke) /\ Len(ls) = n + 1 /\ ls[n + 1] = f
        /\ \A k \in 1..n : ls[k] = lines_[k]
    BY <2>1, AppendProperties
  <2>3. Words(ls) = Words(lines_) \o f.text BY <2>1, WordsAppend
  <2> HIDE DEF ls
  <2>4. \A k \in 1..Len(ls) : k \in 1..n \/ k = n + 1 BY <1>1, <2>2
  <2>. QED BY <2>2, <2>3, <2>4 DEF JoinKeeps, ls
<1>4. CASE lines_ # <<>> /\ ~closes
  <2> DEFINE a == Front(lines_)
             x == Last(lines_)
             y == Line(x.text \o f.text, x.start, f.end)
  <2>1. /\ a \in Seq(Spoke) /\ x \in Spoke /\ lines_ = Append(a, x)
        /\ Len(a) = n - 1 /\ n \in Nat \ {0}
    BY <1>4, FrontLast
  <2>2. ls = Append(a, y) BY <1>4 DEF JoinLine
  <2> HIDE DEF a, x
  <2>3. x.text \in Seq(Clauses) /\ x.text # <<>> /\ x.start \in Int BY <2>1 DEF Spoke
  <2>4. x.text \o f.text \in Seq(Clauses) /\ x.text \o f.text # <<>>
    <3> DEFINE p == x.text
               q == f.text
    <3>1. p \in Seq(Clauses) /\ q \in Seq(Clauses) /\ p # <<>> BY <1>2, <2>3
    <3> HIDE DEF p, q
    <3>2. p \o q \in Seq(Clauses) /\ p \o q # <<>>
      BY <3>1, ConcatProperties, LenProperties
    <3>. QED BY <3>2 DEF p, q
  <2> DEFINE w == x.text \o f.text
  <2>5. y = [text |-> w, start |-> x.start, end |-> f.end] BY DEF Line
  <2> HIDE DEF w, y
  <2>6. y \in Spoke /\ y.text = w /\ y.start = x.start /\ y.end = f.end
    BY <1>2, <2>3, <2>4, <2>5 DEF Spoke, w
  <2>7. /\ ls \in Seq(Spoke) /\ Len(ls) = n /\ ls[n] = y
        /\ \A k \in 1..(n - 1) : ls[k] = a[k]
    BY <2>1, <2>2, <2>6, AppendProperties
  <2>8. /\ lines_[n] = x /\ \A k \in 1..(n - 1) : lines_[k] = a[k]
    BY <2>1, AppendProperties
  <2>9. Words(ls) = Words(lines_) \o f.text
    <3>1. Words(ls) = Words(a) \o w BY <2>1, <2>2, <2>6, WordsAppend
    <3>2. Words(lines_) = Words(a) \o x.text /\ Words(a) \in Seq(Clauses)
      BY <2>1, WordsAppend
    <3> DEFINE p == Words(a)
               q == x.text
               r == f.text
    <3>3. p \in Seq(Clauses) /\ q \in Seq(Clauses) /\ r \in Seq(Clauses)
      BY <1>2, <2>3, <3>2
    <3> HIDE DEF p, q, r
    <3>4. (p \o q) \o r = p \o (q \o r) BY <3>3, ConcatAssociates
    <3>. QED BY <3>1, <3>2, <3>4 DEF p, q, r, w
  <2> HIDE DEF ls
  <2>10. \A k \in 1..Len(ls) : k \in 1..(n - 1) \/ k = n BY <1>1, <2>7
  <2>11. \A k \in 1..Len(ls) :
            \/ k \in 1..n /\ ls[k] = lines_[k]
            \/ ls[k].end = f.end /\ ls[k].start = lines_[n].start
    <3>1. 1..(n - 1) \subseteq 1..n BY <1>1
    <3>. QED BY <2>6, <2>7, <2>8, <2>10, <3>1
  <2>. QED BY <1>4, <2>7, <2>9, <2>11 DEF JoinKeeps, ls
<1>. QED BY <1>3, <1>4

(* What the line so far is, after each of the fragments.                   *)
Closes(line, f) ==
    \/ EndsSentence(line.text)
    \/ f.start - line.end > MaxGap
    \/ Length(line.text) + Length(f.text) > MaxChars
    \/ f.end - line.start > MaxSpan
MergeRuns(f, fs) ==
    /\ f \in [0..Len(fs) -> Seq(Spoke)] /\ f[0] = <<>> /\ f[Len(fs)] = MergeTimed(fs)
    /\ \A i \in 1..Len(fs) :
          f[i] = JoinLine(f[i - 1], fs[i], Closes(Last(f[i - 1]), fs[i]))

LEMMA FragmentsAreLines ==
  ASSUME NEW fs \in Seq(Sound)
  PROVE  /\ Len(fs) \in Nat /\ DOMAIN fs = 1..Len(fs) /\ Seq(Sound) \subseteq Seq(Spoke)
         /\ \A i \in 1..Len(fs) : fs[i] \in Sound /\ fs[i] \in Spoke
<1>1. Seq(Sound) \subseteq Seq(Spoke)
  <2>1. Sound \subseteq Spoke BY DEF Sound
  <2>. QED BY <2>1
<1>2. \A i \in 1..Len(fs) : fs[i] \in Sound BY ElementOfSeq
<1>3. Len(fs) \in Nat /\ DOMAIN fs = 1..Len(fs) BY LenProperties
<1>. QED BY <1>1, <1>2, <1>3 DEF Sound

LEMMA MergeHasRuns ==
  ASSUME NEW fs \in Seq(Sound)
  PROVE  \E f : MergeRuns(f, fs)
<1> DEFINE n == Len(fs)
           V == Seq(Spoke)
           cut(ls, i) == Closes(Last(ls), fs[i])
           G == [p \in V \X (1..n) |-> JoinLine(p[1], fs[p[2]], cut(p[1], p[2]))]
           Folds(f) == f = [z \in SUBSET DOMAIN fs |->
                               IF z = {} THEN <<>>
                               ELSE JoinLine(f[z \ {Max(z)}], fs[Max(z)],
                                             cut(f[z \ {Max(z)}], Max(z)))]
           it == CHOOSE f : Folds(f)
<1>1. n \in Nat /\ DOMAIN fs = 1..n BY FragmentsAreLines
<1>2. \A i \in 1..n : fs[i] \in Spoke BY FragmentsAreLines
<1>3. \A ls, i : cut(ls, i) \in BOOLEAN BY DEF Closes
<1>4. MergeTimed(fs) = it[DOMAIN fs]
  BY DEF MergeTimed, FoldLeft, MapThenFoldSet, JoinLine, Closes
<1> HIDE DEF cut
<1>5. /\ G \in [V \X (1..n) -> V]
      /\ \A ls \in V, i \in 1..n : G[<<ls, i>>] = JoinLine(ls, fs[i], cut(ls, i))
  <2>1. \A ls \in V, i \in 1..n : JoinLine(ls, fs[i], cut(ls, i)) \in V
    <3> SUFFICES ASSUME NEW ls \in V, NEW i \in 1..n
                 PROVE  JoinLine(ls, fs[i], cut(ls, i)) \in V
      OBVIOUS
    <3> DEFINE c == cut(ls, i)
               x == fs[i]
    <3>1. c \in BOOLEAN /\ x \in Spoke BY <1>2, <1>3
    <3> HIDE DEF c, x
    <3>2. JoinKeeps(ls, x, c) BY <3>1, JoinLineKeeps
    <3>. QED BY <3>2 DEF JoinKeeps, c, x
  <2>. QED BY <2>1
<1>6. <<>> \in V BY EmptySeq
<1> HIDE DEF G
<1> DEFINE base == <<>>
<1>7. PICK h : IsLeftFold(h, n, V, base, G)
  <2> HIDE DEF V, n, base
  <2>. QED BY <1>1, <1>5, <1>6, LeftFoldHasFunction DEF base
<1>8. \A z \in SUBSET (1..n) : z # {} => Max(z) \in 1..n BY <1>1, LastOfMany
<1>9. Folds(h)
  <2>1. \A z \in SUBSET (1..n) : z # {} =>
           G[<<h[z \ {Max(z)}], Max(z)>>] =
              JoinLine(h[z \ {Max(z)}], fs[Max(z)], cut(h[z \ {Max(z)}], Max(z)))
    BY <1>5, <1>7, <1>8 DEF IsLeftFold
  <2>. QED BY <1>1, <1>7, <2>1 DEF IsLeftFold
<1>10. Folds(it) BY <1>9
<1> HIDE DEF it
<1>11. FoldsLeft(it, n, V, base, G)
  <2>1. /\ it[{}] = <<>>
        /\ \A z \in SUBSET (1..n) : z # {} =>
              it[z] = JoinLine(it[z \ {Max(z)}], fs[Max(z)], cut(it[z \ {Max(z)}], Max(z)))
    BY <1>1, <1>10
  <2>. QED BY <1>5, <1>8, <2>1 DEF FoldsLeft
<1>12. PICK f : Runs(f, n, V, base, G, it[1..n])
  <2> HIDE DEF V, n, base
  <2>. QED BY <1>1, <1>5, <1>6, <1>11, LeftFoldRuns DEF base
<1>13. ASSUME NEW i \in 1..n PROVE f[i] = JoinLine(f[i - 1], fs[i], cut(f[i - 1], i))
  <2>1. i - 1 \in 0..n BY <1>1
  <2>. QED BY <1>5, <1>12, <2>1 DEF Runs
<1>14. f \in [0..n -> V] /\ f[0] = <<>> /\ f[n] = MergeTimed(fs) BY <1>1, <1>4, <1>12 DEF Runs
<1>. QED BY <1>13, <1>14 DEF MergeRuns, cut

(* A line that reaches from one of the first i fragments to another.       *)
Reaches(l, fs, i) ==
    \E a, b \in 1..i : a <= b /\ l.start = fs[a].start /\ l.end = fs[b].end

(* _merge_timed_fragments keeps the words, and lines in order stay sound.  *)
MergeWell(fs) ==
    LET ls == MergeTimed(fs)
    IN /\ ls \in Seq(Spoke) /\ Words(ls) = Words(fs)
       /\ Advancing(fs) => ls \in Seq(Sound)
       /\ \A k \in 1..Len(ls) : Reaches(ls[k], fs, Len(fs))

LEMMA MergeKeeps ==
  ASSUME NEW fs \in Seq(Sound)
  PROVE  MergeWell(fs)
<1> DEFINE n == Len(fs)
           V == Seq(Spoke)
           cut(ls, i) == Closes(Last(ls), fs[i])
<1>1. n \in Nat /\ DOMAIN fs = 1..n /\ Seq(Sound) \subseteq Seq(Spoke)
  BY FragmentsAreLines
<1>2. \A i \in 1..n : fs[i] \in Sound /\ fs[i] \in Spoke BY FragmentsAreLines
<1>3. \A ls, i : cut(ls, i) \in BOOLEAN BY DEF Closes
<1>4. PICK f : MergeRuns(f, fs) BY MergeHasRuns
<1>13. /\ f \in [0..n -> V] /\ f[0] = <<>> /\ f[n] = MergeTimed(fs)
       /\ \A i \in 1..n : f[i] = JoinLine(f[i - 1], fs[i], cut(f[i - 1], i))
  BY <1>4 DEF MergeRuns
<1> HIDE DEF cut
<1> DEFINE Good(i) ==
              /\ Words(f[i]) = Words(SubSeq(fs, 1, i))
              /\ \A k \in 1..Len(f[i]) : Reaches(f[i][k], fs, i)
           B == {i \in 0..n : Good(i)}
<1>14. 0 \in B
  <2>1. Words(SubSeq(fs, 1, 0)) = <<>> BY PrefixesGrow, WordsNothing
  <2>2. 1..Len(<<>>) = {} OBVIOUS
  <2>. QED BY <1>1, <1>13, <2>1, <2>2, WordsNothing
<1>15. ASSUME NEW i \in 1..n, i - 1 \in B PROVE i \in B
  <2> DEFINE ls == f[i - 1]
             c == cut(ls, i)
             x == fs[i]
             p == SubSeq(fs, 1, i - 1)
  <2>0. i - 1 \in 0..n /\ i \in 0..n BY <1>1
  <2>1. ls \in V /\ c \in BOOLEAN /\ x \in Spoke BY <1>2, <1>3, <1>13, <2>0
  <2>2. f[i] = JoinLine(ls, x, c) BY <1>13
  <2>3. /\ Words(ls) = Words(p)
        /\ \A k \in 1..Len(ls) : Reaches(ls[k], fs, i - 1)
    BY <1>15
  <2>4. Words(SubSeq(fs, 1, i)) = Words(p) \o x.text
    <3>1. p \in Seq(Sound) /\ SubSeq(fs, 1, i) = Append(p, x) BY PrefixesGrow
    <3>2. p \in Seq(Spoke) BY <1>1, <3>1
    <3> HIDE DEF p, x
    <3>. QED BY <2>1, <3>1, <3>2, WordsAppend
  <2> DEFINE ks == f[i]
  <2> HIDE DEF ls, c, x, p
  <2>5. JoinKeeps(ls, x, c) BY <2>1, JoinLineKeeps
  <2>6. /\ Words(ks) = Words(ls) \o x.text
        /\ \A k \in 1..Len(ks) :
              \/ k \in 1..Len(ls) /\ ks[k] = ls[k]
              \/ ks[k] = x
              \/ ls # <<>> /\ ks[k].end = x.end /\ ks[k].start = ls[Len(ls)].start
    BY <2>2, <2>5 DEF JoinKeeps
  <2> HIDE DEF ks
  <2>7. i \in 1..i BY <1>1
  <2>8. \A l : Reaches(l, fs, i - 1) => Reaches(l, fs, i)
    <3>1. 1..(i - 1) \subseteq 1..i BY <1>1
    <3>. QED BY <3>1 DEF Reaches
  <2>9. ASSUME NEW k \in 1..Len(ks) PROVE Reaches(ks[k], fs, i)
    <3>1. CASE k \in 1..Len(ls) /\ ks[k] = ls[k] BY <2>3, <2>8, <3>1
    <3>2. CASE ks[k] = x
      <4>1. i <= i BY <1>1
      <4>. QED BY <2>7, <3>2, <4>1 DEF Reaches, x
    <3>3. CASE ls # <<>> /\ ks[k].end = x.end /\ ks[k].start = ls[Len(ls)].start
      <4>1. Len(ls) \in 1..Len(ls) BY <2>1, <3>3, LenProperties
      <4>2. Reaches(ls[Len(ls)], fs, i - 1) BY <2>3, <4>1
      <4>3. PICK a \in 1..(i - 1) : ls[Len(ls)].start = fs[a].start BY <4>2 DEF Reaches
      <4>4. a \in 1..i /\ a <= i BY <1>1, <4>3
      <4>. QED BY <2>7, <3>3, <4>3, <4>4 DEF Reaches, x
    <3>. QED BY <2>6, <3>1, <3>2, <3>3
  <2>. QED BY <2>0, <2>3, <2>4, <2>6, <2>9 DEF ks
<1>16. \A i \in 0..n : i \in B
  <2> HIDE DEF B, n
  <2>. QED BY <1>1, <1>14, <1>15, CountingUp
<1> DEFINE ls == f[n]
<1>17. ls \in Seq(Spoke) /\ Good(n)
  <2>1. n \in 0..n BY <1>1
  <2>. QED BY <1>13, <1>16, <2>1
<1>18. Words(ls) = Words(fs)
  <2>1. SubSeq(fs, 1, n) = fs BY PrefixesGrow
  <2>. QED BY <1>17, <2>1
<1>19. ASSUME Advancing(fs) PROVE ls \in Seq(Sound)
  <2>1. \A k \in 1..Len(ls) : Reaches(ls[k], fs, n) BY <1>17
  <2>2. ls \in Seq(Spoke) BY <1>17
  <2> HIDE DEF ls
  <2>3. ASSUME NEW k \in 1..Len(ls) PROVE ls[k] \in Sound
    <3>1. PICK a \in 1..n, b \in 1..n :
             a <= b /\ ls[k].start = fs[a].start /\ ls[k].end = fs[b].end
      BY <2>1 DEF Reaches
    <3>2. fs[a].start < fs[b].end BY <1>19, <3>1 DEF Advancing
    <3>3. 0 <= fs[a].start BY <1>2 DEF Sound
    <3>4. ls[k] \in Spoke BY <2>2, ElementOfSeq
    <3>. QED BY <3>1, <3>2, <3>3, <3>4 DEF Sound
  <2>4. Len(ls) \in Nat /\ ls = [k \in 1..Len(ls) |-> ls[k]] BY <2>2, LenProperties
  <2> DEFINE m == Len(ls)
  <2>5. ls \in [1..m -> Sound] BY <2>3, <2>4
  <2>6. m \in Nat BY <2>4
  <2> HIDE DEF m
  <2>. QED BY <2>5, <2>6, SequenceOf
<1>. QED BY <1>13, <1>17, <1>18, <1>19 DEF MergeWell

-----------------------------------------------------------------------------
(* transcribe_file keeps the words that have times, and its lines last     *)
(* when the model's times do not run back.                                 *)
TranscribeWell(s) ==
    LET ls == TranscribeFile(s, s.vad, Duration)
    IN /\ ls \in Seq(Spoke)
       /\ Sensible(s) => ls \in Seq(Sound)
       /\ WellTimed(s) => Words(ls) = FlattenSeq(s.text)

LEMMA TranscribeKeeps ==
  ASSUME NEW s \in Sayings
  PROVE  TranscribeWell(s)
<1> DEFINE native == ParseResult(s, Duration)
           intervals == Lasting(s.vad)
           spoken == FromIntervals(s.text, intervals)
           ls == TranscribeFile(s, s.vad, Duration)
<1>0. Seq(Sound) \subseteq Seq(Spoke)
  <2>1. Sound \subseteq Spoke BY DEF Sound
  <2>. QED BY <2>1
<1>1. ls = IF HasNativeTiming(s) /\ native # <<>> THEN MergeTimed(native)
           ELSE IF spoken # <<>> THEN spoken ELSE native
  BY DEF TranscribeFile
<1> HIDE DEF ls
<1>2. /\ native \in Seq(Sound)
      /\ Sensible(s) => Advancing(native)
      /\ WellTimed(s) => Words(native) = FlattenSeq(s.text)
  <2>1. Duration \in Nat /\ MinSpan \in Nat \ {0} BY LimitsAssumption
  <2>2. ParseWell(s, Duration) BY <2>1, ParseKeeps
  <2>. QED BY <2>2 DEF ParseWell
<1>3. /\ spoken \in Seq(Spoke)
      /\ spoken # <<>> => Words(spoken) = FlattenSeq(s.text)
      /\ Sensible(s) => spoken \in Seq(Sound)
  <2> DEFINE text == s.text
             raw == s.vad
  <2>1. text \in Seq(Seq(Clauses)) /\ raw \in Seq(Times) BY SayingFields
  <2>2. /\ InTime(s) => Forward(raw) /\ \A i \in DOMAIN raw : raw[i][1] >= 0
        /\ WellTimed(s) => Apart(raw)
    BY DEF InTime, WellTimed
  <2> HIDE DEF text, raw
  <2>3. LastsWell(raw) BY <2>1, LastingKeeps
  <2> DEFINE kept == Lasting(raw)
  <2>4. kept \in Seq(Times) /\ (Sensible(s) => Orderly(kept) /\ Positive(kept))
    BY <2>1, <2>2, <2>3, ApartIsOrderly DEF LastsWell, Sensible
  <2> HIDE DEF kept
  <2>5. IntervalsKeep(text, kept) BY <2>1, <2>4, FromIntervalsKeeps
  <2>. QED BY <2>4, <2>5 DEF IntervalsKeep, kept, text, raw
<1> HIDE DEF native, spoken
<1>4. CASE HasNativeTiming(s) /\ native # <<>>
  <2>1. ls = MergeTimed(native) BY <1>1, <1>4
  <2>2. MergeWell(native) BY <1>2, MergeKeeps
  <2>. QED BY <1>2, <2>1, <2>2 DEF MergeWell, TranscribeWell, ls
<1>5. CASE ~ (HasNativeTiming(s) /\ native # <<>>) /\ spoken # <<>>
  <2>1. ls = spoken BY <1>1, <1>5
  <2>. QED BY <1>3, <1>5, <2>1 DEF TranscribeWell, ls
<1>6. CASE ~ (HasNativeTiming(s) /\ native # <<>>) /\ spoken = <<>>
  <2>1. ls = native BY <1>1, <1>6
  <2>. QED BY <1>0, <1>2, <2>1 DEF TranscribeWell, ls
<1>. QED BY <1>4, <1>5, <1>6

-----------------------------------------------------------------------------
(* The lines of both channels, in the order of their starts.               *)
Segments == [speaker : Channels, text : Seq(Clauses), start : Int, end : Int]
Lasts(ls) == \A k \in 1..Len(ls) : 0 <= ls[k].start /\ ls[k].start < ls[k].end
Sorted(ls) == \A i, j \in 1..Len(ls) : i <= j => ls[i].start <= ls[j].start

(* A line of one channel, with another speaker or text.                    *)
TimeOf(l, ls) == \E i \in 1..Len(ls) : l.start = ls[i].start /\ l.end = ls[i].end

MergedWell(sales, customer) ==
    LET ls == MergeChannelSegments(sales, customer)
    IN /\ ls \in Seq(Segments) /\ Len(ls) = Len(sales) + Len(customer)
       /\ Sorted(ls)
       /\ sales \in Seq(Sound) /\ customer \in Seq(Sound) => Lasts(ls)
       /\ \A k \in 1..Len(ls) : TimeOf(ls[k], sales) \/ TimeOf(ls[k], customer)

Tag(ls, c) == [i \in DOMAIN ls |-> [speaker |-> c, text |-> ls[i].text,
                                     start |-> ls[i].start, end |-> ls[i].end]]

LEMMA TagKeeps ==
  ASSUME NEW ls \in Seq(Spoke), NEW c \in Channels
  PROVE  /\ Tag(ls, c) \in Seq(Segments) /\ Len(Tag(ls, c)) = Len(ls)
         /\ ls \in Seq(Sound) => Lasts(Tag(ls, c))
         /\ \A i \in 1..Len(ls) : TimeOf(Tag(ls, c)[i], ls)
<1> DEFINE n == Len(ls)
           t == Tag(ls, c)
<1>1. n \in Nat /\ DOMAIN ls = 1..n BY LenProperties
<1>2. \A i \in 1..n : ls[i] \in Spoke BY ElementOfSeq
<1>3. \A i \in 1..n : t[i] = [speaker |-> c, text |-> ls[i].text,
                              start |-> ls[i].start, end |-> ls[i].end]
  BY <1>1 DEF Tag
<1>5. t = [i \in 1..n |-> t[i]] BY <1>1 DEF Tag
<1> HIDE DEF t, n
<1>4. ASSUME NEW i \in 1..n
      PROVE  t[i] \in Segments /\ t[i].start = ls[i].start /\ t[i].end = ls[i].end
  <2> DEFINE x == ls[i].text
             y == ls[i].start
             z == ls[i].end
  <2>1. x \in Seq(Clauses) /\ y \in Int /\ z \in Int BY <1>2 DEF Spoke
  <2>2. t[i] = [speaker |-> c, text |-> x, start |-> y, end |-> z] BY <1>3
  <2> HIDE DEF x, y, z
  <2>3. t[i] \in Segments BY <2>1, <2>2 DEF Segments
  <2>. QED BY <2>2, <2>3 DEF y, z
<1>6. t \in [1..n -> Segments] BY <1>4, <1>5
<1>7. t \in Seq(Segments) /\ Len(t) = n BY <1>1, <1>6, SequenceOf
<1>8. ASSUME ls \in Seq(Sound), NEW i \in 1..n PROVE 0 <= t[i].start /\ t[i].start < t[i].end
  <2>1. ls[i] \in Sound BY <1>8, ElementOfSeq DEF n
  <2>2. t[i].start = ls[i].start /\ t[i].end = ls[i].end BY <1>4
  <2>. QED BY <2>1, <2>2 DEF Sound
<1>9. \A i \in 1..n : TimeOf(t[i], ls) BY <1>4 DEF TimeOf, n
<1>. QED BY <1>7, <1>8, <1>9 DEF Lasts, t, n

LEMMA MergedKeeps ==
  ASSUME NEW sales \in Seq(Spoke), NEW customer \in Seq(Spoke)
  PROVE  MergedWell(sales, customer)
<1> DEFINE a == Tag(customer, "customer")
           b == Tag(sales, "sales")
           all == a \o b
           n == Len(sales) + Len(customer)
           earlier(i, j) ==
            \/ all[i].start < all[j].start
            \/ all[i].start = all[j].start /\ all[i].end < all[j].end
            \/ all[i].start = all[j].start /\ all[i].end = all[j].end /\ i < j
           R == {p \in (1..n) \X (1..n) : earlier(p[1], p[2])}
           f == [k \in 1..n |-> CHOOSE i \in 1..n : Cardinality(Precedes(1..n, R, i)) = k - 1]
           ls == MergeChannelSegments(sales, customer)
<1>1. /\ a \in Seq(Segments) /\ Len(a) = Len(customer)
      /\ b \in Seq(Segments) /\ Len(b) = Len(sales)
      /\ sales \in Seq(Sound) => Lasts(b)
      /\ customer \in Seq(Sound) => Lasts(a)
      /\ \A i \in 1..Len(sales) : TimeOf(b[i], sales)
      /\ \A i \in 1..Len(customer) : TimeOf(a[i], customer)
  BY TagKeeps DEF Channels
<1>2. Len(customer) \in Nat /\ Len(sales) \in Nat /\ n \in Nat BY LenProperties
<1>3. /\ all \in Seq(Segments) /\ Len(all) = n /\ DOMAIN all = 1..n
      /\ \A i \in 1..Len(a) : all[i] = a[i]
      /\ \A i \in 1..Len(b) : all[Len(a) + i] = b[i]
  <2> HIDE DEF a, b
  <2>1. /\ all \in Seq(Segments) /\ Len(all) = Len(a) + Len(b)
        /\ \A i \in 1..Len(a) + Len(b) :
              all[i] = IF i <= Len(a) THEN a[i] ELSE b[i - Len(a)]
    BY <1>1, ConcatProperties
  <2>3. \A i \in 1..Len(a) : all[i] = a[i]
    <3>1. \A i \in 1..Len(a) : i \in 1..Len(a) + Len(b) /\ i <= Len(a) BY <1>1, <1>2
    <3> HIDE DEF all
    <3>. QED BY <2>1, <3>1
  <2>4. \A i \in 1..Len(b) : all[Len(a) + i] = b[i]
    <3>1. \A i \in 1..Len(b) : /\ Len(a) + i \in 1..Len(a) + Len(b) /\ ~ Len(a) + i <= Len(a)
                              /\ (Len(a) + i) - Len(a) = i
      BY <1>1, <1>2
    <3> HIDE DEF all
    <3>. QED BY <2>1, <3>1
  <2>2. Len(all) = n BY <1>1, <1>2, <2>1
  <2> HIDE DEF all, n
  <2>. QED BY <2>1, <2>2, <2>3, <2>4, LenProperties
<1>4. ls = [k \in DOMAIN all |->
              all[CHOOSE i \in DOMAIN all :
                     Cardinality({j \in DOMAIN all : earlier(j, i)}) = k - 1]]
  BY Zenon DEF MergeChannelSegments, Tag
<1> HIDE DEF all, a, b, ls
<1>5. \A i \in 1..n : all[i] \in Segments /\ all[i].start \in Int /\ all[i].end \in Int
  <2>1. \A i \in 1..n : all[i] \in Segments BY <1>3, ElementOfSeq
  <2>. QED BY <2>1 DEF Segments
<1>6. \A i, j \in 1..n : <<i, j>> \in R <=> earlier(i, j) OBVIOUS
<1>7. \A i \in 1..n : {j \in 1..n : earlier(j, i)} = Precedes(1..n, R, i)
  BY <1>6 DEF Precedes
<1>8. StrictOrder(1..n, R)
  <2> HIDE DEF R, n
  <2>1. \A x \in 1..n : x \in Int BY <1>2
  <2>2. \A x \in 1..n : <<x, x>> \notin R BY <1>5, <1>6, <2>1
  <2>3. ASSUME NEW x \in 1..n, NEW y \in 1..n, NEW z \in 1..n, <<x, y>> \in R, <<y, z>> \in R
        PROVE  <<x, z>> \in R
    <3>1. earlier(x, y) /\ earlier(y, z) BY <1>6, <2>3
    <3>2. /\ x \in Int /\ y \in Int /\ z \in Int
          /\ all[x].start \in Int /\ all[y].start \in Int /\ all[z].start \in Int
          /\ all[x].end \in Int /\ all[y].end \in Int /\ all[z].end \in Int
      BY <1>5, <2>1
    <3>3. earlier(x, z) BY <3>1, <3>2
    <3>. QED BY <1>6, <3>3
  <2>4. ASSUME NEW x \in 1..n, NEW y \in 1..n
        PROVE  x = y \/ <<x, y>> \in R \/ <<y, x>> \in R
    <3>1. /\ x \in Int /\ y \in Int
          /\ all[x].start \in Int /\ all[y].start \in Int
          /\ all[x].end \in Int /\ all[y].end \in Int
      BY <1>5, <2>1
    <3>2. x = y \/ earlier(x, y) \/ earlier(y, x) BY <3>1
    <3>. QED BY <1>6, <3>2
  <2>. QED BY <2>2, <2>3, <2>4 DEF StrictOrder
<1>9. IsFiniteSet(1..n) /\ Cardinality(1..n) = n BY <1>2, FS_Interval
<1> HIDE DEF R
<1> DEFINE S == 1..n
<1>10. /\ \A m \in 1..n : \E x \in S : Cardinality(Precedes(S, R, x)) = m - 1
       /\ \A g \in [1..n -> S] :
             (\A m \in 1..n : Cardinality(Precedes(S, R, g[m])) = m - 1) =>
                Enumerates(g, n, S, R)
  <2>1. IsFiniteSet(S) /\ n = Cardinality(S) /\ StrictOrder(S, R) BY <1>8, <1>9
  <2> HIDE DEF S, n
  <2>. QED BY <2>1, RankEnumerates
<1>11. \A k \in 1..n : f[k] \in 1..n /\ Cardinality(Precedes(1..n, R, f[k])) = k - 1
  <2> SUFFICES ASSUME NEW k \in 1..n
               PROVE  f[k] \in 1..n /\ Cardinality(Precedes(1..n, R, f[k])) = k - 1
    OBVIOUS
  <2>1. \E i \in 1..n : Cardinality(Precedes(1..n, R, i)) = k - 1 BY <1>10
  <2>. QED BY <2>1
<1>12. f \in [1..n -> 1..n] BY <1>11
<1>13. \A k \in 1..n : ls[k] = all[f[k]]
  <2> DEFINE g(k) == CHOOSE i \in 1..n : Cardinality({j \in 1..n : earlier(j, i)}) = k - 1
  <2>1. \A k \in 1..n : f[k] = g(k) BY <1>7
  <2>2. ls = [k \in 1..n |-> all[g(k)]] BY <1>3, <1>4
  <2> HIDE DEF f, g, n
  <2>3. \A k \in 1..n : ls[k] = all[g(k)] BY <2>2
  <2>. QED BY <2>1, <2>3
<1> HIDE DEF f
<1>14. \A i, j \in 1..n : i < j => <<f[i], f[j]>> \in R
  BY <1>10, <1>11, <1>12 DEF Enumerates
<1> HIDE DEF n
<1>15. ls \in Seq(Segments) /\ Len(ls) = n
  <2>1. \A k \in 1..n : ls[k] \in Segments BY <1>5, <1>11, <1>13
  <2>2. ls \in [1..n -> Segments] BY <1>3, <1>4, <2>1
  <2>. QED BY <1>2, <2>2, SequenceOf
<1>16. Sorted(ls)
  <2> SUFFICES ASSUME NEW i \in 1..n, NEW j \in 1..n, i <= j PROVE ls[i].start <= ls[j].start
    BY <1>15 DEF Sorted
  <2>1. i = j \/ i < j BY <1>2
  <2>2. ls[i] = all[f[i]] /\ ls[j] = all[f[j]] /\ f[i] \in 1..n /\ f[j] \in 1..n
    BY <1>11, <1>13
  <2>3. all[f[i]].start \in Int /\ all[f[j]].start \in Int BY <1>5, <2>2
  <2>4. CASE i = j BY <2>2, <2>3, <2>4
  <2>5. CASE i < j
    <3>1. earlier(f[i], f[j]) BY <1>6, <1>14, <2>2, <2>5
    <3>. QED BY <2>2, <2>3, <3>1
  <2>. QED BY <2>1, <2>4, <2>5
<1>17. ASSUME sales \in Seq(Sound), customer \in Seq(Sound) PROVE Lasts(ls)
  <2>1. \A i \in 1..n : 0 <= all[i].start /\ all[i].start < all[i].end
    <3> SUFFICES ASSUME NEW i \in 1..n PROVE 0 <= all[i].start /\ all[i].start < all[i].end
      OBVIOUS
    <3>1. CASE i \in 1..Len(a) BY <1>1, <1>3, <1>17, <3>1 DEF Lasts
    <3>2. CASE i \notin 1..Len(a)
      <4> DEFINE k == i - Len(a)
      <4>1. k \in 1..Len(b) /\ Len(a) + k = i BY <1>1, <1>2, <3>2 DEF n
      <4>2. all[i] = b[k] BY <1>3, <4>1
      <4>. QED BY <1>1, <1>17, <4>1, <4>2 DEF Lasts
    <3>. QED BY <3>1, <3>2
  <2>. QED BY <1>11, <1>13, <1>15, <2>1 DEF Lasts
<1>18. \A k \in 1..n : TimeOf(ls[k], sales) \/ TimeOf(ls[k], customer)
  <2>1. \A i \in 1..n : TimeOf(all[i], sales) \/ TimeOf(all[i], customer)
    <3> SUFFICES ASSUME NEW i \in 1..n
                 PROVE  TimeOf(all[i], sales) \/ TimeOf(all[i], customer)
      OBVIOUS
    <3>1. CASE i \in 1..Len(a) BY <1>1, <1>3, <3>1
    <3>2. CASE i \notin 1..Len(a)
      <4> DEFINE k == i - Len(a)
      <4>1. k \in 1..Len(b) /\ Len(a) + k = i BY <1>1, <1>2, <3>2 DEF n
      <4>2. all[i] = b[k] BY <1>3, <4>1
      <4>. QED BY <1>1, <4>1, <4>2
    <3>. QED BY <3>1, <3>2
  <2>. QED BY <1>11, <1>13, <2>1
<1>. QED BY <1>15, <1>16, <1>17, <1>18 DEF MergedWell, n, ls

-----------------------------------------------------------------------------
(* Interruptions.                                                          *)
Heard(acc, s) ==
    [count |-> acc.count + (IF s.start < acc.active[Other(s.speaker)] THEN 1 ELSE 0),
     active |-> [acc.active EXCEPT ![s.speaker] = Max({@, s.end})]]
Hearings == [count : Nat, active : [Channels -> Int]]
Quiet == [count |-> 0, active |-> [c \in Channels |-> -1]]

(* The lines that overlap one above them of the other speaker.             *)
Late(ls) ==
    LET over(i, k) == /\ ls[i].speaker # ls[k].speaker
                      /\ ls[i].start < ls[k].end
                      /\ ls[k].start < ls[i].end
    IN {k \in DOMAIN ls : \E i \in 1..k - 1 : over(i, k)}

(* When each speaker stops, of the first i lines.                          *)
Stops(active, ls, i) ==
    \A c \in Channels :
        /\ \A m \in 1..i : ls[m].speaker = c => ls[m].end <= active[c]
        /\ active[c] = -1 \/ \E m \in 1..i : ls[m].speaker = c /\ ls[m].end = active[c]

LEMMA HeardType ==
  ASSUME NEW acc \in Hearings, NEW s \in Segments
  PROVE  Heard(acc, s) \in Hearings
<1> DEFINE a == acc.active
           c == s.speaker
           m == Max({a[c], s.end})
<1>1. a \in [Channels -> Int] /\ acc.count \in Nat BY DEF Hearings
<1>2. c \in Channels /\ s.end \in Int BY DEF Segments
<1> HIDE DEF a, c
<1>3. m \in Int
  <2>1. a[c] \in Int BY <1>1, <1>2
  <2>. QED BY <1>2, <2>1, MaxPair
<1>4. Heard(acc, s) =
         [count |-> acc.count + (IF s.start < a[Other(c)] THEN 1 ELSE 0),
          active |-> [a EXCEPT ![c] = m]]
  BY DEF Heard, a, c
<1> HIDE DEF m
<1>5. [a EXCEPT ![c] = m] \in [Channels -> Int] BY <1>1, <1>2, <1>3
<1>6. acc.count + (IF s.start < a[Other(c)] THEN 1 ELSE 0) \in Nat BY <1>1
<1>. QED BY <1>4, <1>5, <1>6 DEF Hearings

LEMMA HeardStops ==
  ASSUME NEW ls \in Seq(Segments), Sorted(ls), Lasts(ls), NEW i \in 1..Len(ls),
         NEW acc \in Hearings, Stops(acc.active, ls, i - 1)
  PROVE  /\ Stops(Heard(acc, ls[i]).active, ls, i)
         /\ Heard(acc, ls[i]).count = IF i \in Late(ls) THEN acc.count + 1 ELSE acc.count
<1> DEFINE n == Len(ls)
           a == acc.active
           s == ls[i]
           c == s.speaker
           e == Max({a[c], s.end})
           o == Other(c)
<1>1. n \in Nat /\ DOMAIN ls = 1..n BY LenProperties
<1>2. \A m \in 1..n : /\ ls[m].speaker \in Channels /\ ls[m].start \in Int
                      /\ ls[m].end \in Int
  <2>1. \A m \in 1..n : ls[m] \in Segments BY ElementOfSeq
  <2>. QED BY <2>1 DEF Segments
<1>3. a \in [Channels -> Int] /\ acc.count \in Nat BY DEF Hearings
<1>4. Heard(acc, s) = [count |-> acc.count + (IF s.start < a[o] THEN 1 ELSE 0),
                       active |-> [a EXCEPT ![c] = e]]
  BY DEF Heard
<1>5. /\ c \in Channels /\ o \in Channels /\ o # c
      /\ \A d \in Channels : d # c => d = o
  <2>1. c \in Channels BY <1>2
  <2>. QED BY <2>1 DEF Channels, Other
<1> HIDE DEF a, o
<1>6. e \in Int /\ e \in {a[c], s.end} /\ e >= a[c] /\ e >= s.end
  <2>1. a[c] \in Int /\ s.end \in Int BY <1>2, <1>3, <1>5
  <2> HIDE DEF s, c
  <2>. QED BY <2>1, MaxPair
<1> HIDE DEF e
<1> DEFINE b == Heard(acc, s).active
<1>7. b = [a EXCEPT ![c] = e] /\ b[c] = e /\ b[o] = a[o]
  <2>1. b = [a EXCEPT ![c] = e] BY <1>4
  <2>. QED BY <1>3, <1>5, <2>1
<1> HIDE DEF b
<1>8. \A m \in 1..i : m \in 1..n /\ (m = i \/ m \in 1..(i - 1)) BY <1>1
<1>9. 1..(i - 1) \subseteq 1..i /\ i \in 1..i BY <1>1
<1>10. \A d \in Channels :
          /\ \A m \in 1..(i - 1) : ls[m].speaker = d => ls[m].end <= a[d]
          /\ a[d] = -1 \/ \E m \in 1..(i - 1) : ls[m].speaker = d /\ ls[m].end = a[d]
  BY DEF Stops, a
<1>11. Stops(b, ls, i)
  <2> SUFFICES ASSUME NEW d \in Channels
               PROVE  /\ \A m \in 1..i : ls[m].speaker = d => ls[m].end <= b[d]
                      /\ b[d] = -1 \/ \E m \in 1..i : ls[m].speaker = d /\ ls[m].end = b[d]
    BY DEF Stops
  <2>1. CASE d = c
    <3>1. ASSUME NEW m \in 1..i, ls[m].speaker = c PROVE ls[m].end <= e
      <4>1. CASE m = i BY <1>6, <4>1
      <4>2. CASE m \in 1..(i - 1)
        <5>1. ls[m].end <= a[c] BY <1>5, <1>10, <3>1, <4>2
        <5>2. ls[m].end \in Int /\ a[c] \in Int BY <1>2, <1>3, <1>5, <1>8
        <5>. QED BY <1>6, <5>1, <5>2
      <4>. QED BY <1>8, <4>1, <4>2
    <3>2. e = -1 \/ \E m \in 1..i : ls[m].speaker = c /\ ls[m].end = e
      <4>1. CASE e = s.end BY <1>9, <4>1
      <4>2. CASE e = a[c] BY <1>5, <1>9, <1>10, <4>2
      <4>. QED BY <1>6, <4>1, <4>2
    <3>. QED BY <1>7, <2>1, <3>1, <3>2
  <2>2. CASE d = o
    <3>1. ASSUME NEW m \in 1..i, ls[m].speaker = o PROVE ls[m].end <= a[o]
      <4>1. m # i BY <1>5, <3>1
      <4>. QED BY <1>5, <1>8, <1>10, <3>1, <4>1
    <3>2. a[o] = -1 \/ \E m \in 1..i : ls[m].speaker = o /\ ls[m].end = a[o]
      BY <1>5, <1>9, <1>10
    <3>. QED BY <1>7, <2>2, <3>1, <3>2
  <2>. QED BY <1>5, <2>1, <2>2
<1>12. s.start < a[o] <=> i \in Late(ls)
  <2>1. i \in Late(ls) <=> \E m \in 1..i - 1 : /\ ls[m].speaker # c
                                              /\ ls[m].start < s.end
                                              /\ s.start < ls[m].end
    BY <1>1 DEF Late
  <2>2. 0 <= s.start /\ s.start < s.end /\ s.start \in Int /\ s.end \in Int
    BY <1>2 DEF Lasts
  <2>3. ASSUME s.start < a[o] PROVE i \in Late(ls)
    <3>1. a[o] # -1 BY <2>2, <2>3
    <3>2. PICK m \in 1..(i - 1) : ls[m].speaker = o /\ ls[m].end = a[o]
      BY <1>5, <1>10, <3>1
    <3>3. m \in 1..n /\ m <= i BY <1>1
    <3>4. ls[m].start <= s.start BY <3>3 DEF Sorted
    <3>5. ls[m].start < s.end BY <1>2, <2>2, <3>3, <3>4
    <3>. QED BY <1>5, <2>1, <2>3, <3>2, <3>5
  <2>4. ASSUME NEW m \in 1..i - 1, ls[m].speaker # c, s.start < ls[m].end
        PROVE  s.start < a[o]
    <3>1. m \in 1..n /\ m \in 1..(i - 1) BY <1>1
    <3>2. ls[m].speaker = o BY <1>2, <1>5, <2>4, <3>1
    <3>3. ls[m].end <= a[o] BY <1>5, <1>10, <3>1, <3>2
    <3>4. ls[m].end \in Int /\ a[o] \in Int BY <1>2, <1>3, <1>5, <3>1
    <3>. QED BY <2>2, <2>4, <3>3, <3>4
  <2>. QED BY <2>1, <2>3, <2>4
<1>13. Heard(acc, s).count = acc.count + (IF s.start < a[o] THEN 1 ELSE 0) BY <1>4
<1>. QED BY <1>3, <1>11, <1>12, <1>13 DEF b

LEMMA InterruptionsAreLate ==
  ASSUME NEW ls \in Seq(Segments), Sorted(ls), Lasts(ls)
  PROVE  Interruptions(ls) = Cardinality(Late(ls))
<1> DEFINE n == Len(ls)
           V == Hearings
           G == [p \in V \X (1..n) |-> Heard(p[1], ls[p[2]])]
           Folds(f) == f = [z \in SUBSET DOMAIN ls |->
                               IF z = {} THEN Quiet
                               ELSE Heard(f[z \ {Max(z)}], ls[Max(z)])]
           it == CHOOSE f : Folds(f)
<1>1. n \in Nat /\ DOMAIN ls = 1..n BY LenProperties
<1>2. \A i \in 1..n : ls[i] \in Segments BY ElementOfSeq
<1>4. Interruptions(ls) = it[DOMAIN ls].count
  BY DEF Interruptions, FoldLeft, MapThenFoldSet, Heard, Quiet
<1>5. /\ G \in [V \X (1..n) -> V]
      /\ \A acc \in V, i \in 1..n : G[<<acc, i>>] = Heard(acc, ls[i])
  BY <1>2, HeardType
<1>6. Quiet \in V
  <2>1. [c \in Channels |-> -1] \in [Channels -> Int] OBVIOUS
  <2>. QED BY <2>1 DEF Quiet, Hearings
<1> HIDE DEF G
<1>7. PICK h : IsLeftFold(h, n, V, Quiet, G)
  <2> HIDE DEF V, n
  <2>. QED BY <1>1, <1>5, <1>6, LeftFoldHasFunction
<1>8. \A z \in SUBSET (1..n) : z # {} => Max(z) \in 1..n BY <1>1, LastOfMany
<1>9. Folds(h)
  <2>1. \A z \in SUBSET (1..n) : z # {} =>
           G[<<h[z \ {Max(z)}], Max(z)>>] = Heard(h[z \ {Max(z)}], ls[Max(z)])
    BY <1>5, <1>7, <1>8 DEF IsLeftFold
  <2>. QED BY <1>1, <1>7, <2>1 DEF IsLeftFold
<1>10. Folds(it) BY <1>9
<1> HIDE DEF it
<1>11. FoldsLeft(it, n, V, Quiet, G)
  <2>1. /\ it[{}] = Quiet
        /\ \A z \in SUBSET (1..n) : z # {} => it[z] = Heard(it[z \ {Max(z)}], ls[Max(z)])
    BY <1>1, <1>10
  <2>. QED BY <1>5, <1>8, <2>1 DEF FoldsLeft
<1>12. PICK f : Runs(f, n, V, Quiet, G, it[1..n])
  <2> HIDE DEF V, n
  <2>. QED BY <1>1, <1>5, <1>6, <1>11, LeftFoldRuns
<1>13. /\ f \in [0..n -> V] /\ f[0] = Quiet /\ f[n].count = Interruptions(ls)
       /\ \A i \in 1..n : f[i] = G[<<f[i - 1], i>>]
  BY <1>1, <1>4, <1>12 DEF Runs
<1> DEFINE L(i) == {k \in 1..i : k \in Late(ls)}
           Good(i) == Stops(f[i].active, ls, i) /\ f[i].count = Cardinality(L(i))
           B == {i \in 0..n : Good(i)}
<1>14. 0 \in B
  <2>1. L(0) = {} OBVIOUS
  <2>2. Cardinality({}) = 0 BY FS_EmptySet
  <2>3. f[0].count = 0 /\ f[0].active = [c \in Channels |-> -1] BY <1>13 DEF Quiet
  <2>4. Stops(f[0].active, ls, 0) BY <2>3 DEF Stops
  <2>. QED BY <1>1, <2>1, <2>2, <2>3, <2>4
<1>15. ASSUME NEW i \in 1..n, i - 1 \in B PROVE i \in B
  <2> DEFINE acc == f[i - 1]
             b == i \in Late(ls)
  <2>0. i - 1 \in 0..n /\ i \in 0..n BY <1>1
  <2>1. acc \in Hearings BY <1>13, <2>0
  <2>2. f[i] = Heard(acc, ls[i]) BY <1>5, <1>13, <2>1
  <2>3. Stops(acc.active, ls, i - 1) /\ acc.count = Cardinality(L(i - 1)) BY <1>15
  <2> HIDE DEF acc
  <2>4. /\ Stops(Heard(acc, ls[i]).active, ls, i)
        /\ Heard(acc, ls[i]).count = IF i \in Late(ls) THEN acc.count + 1 ELSE acc.count
    BY <2>1, <2>3, HeardStops
  <2>5. IsFiniteSet(L(i - 1))
    <3>1. 1 \in Int /\ i - 1 \in Int BY <1>1
    <3>2. IsFiniteSet(1..(i - 1)) BY <3>1, FS_Interval
    <3>3. L(i - 1) \subseteq 1..(i - 1) OBVIOUS
    <3> HIDE DEF L
    <3>. QED BY <3>2, <3>3, FS_Subset
  <2>6. CASE i \in Late(ls)
    <3>1. L(i) = L(i - 1) \cup {i} /\ i \notin L(i - 1) BY <1>1, <2>6
    <3> DEFINE T == L(i - 1)
    <3> HIDE DEF L, T
    <3>2. Cardinality(T \cup {i}) = Cardinality(T) + 1 BY <2>5, <3>1, FS_AddElement DEF T
    <3>. QED BY <2>0, <2>2, <2>3, <2>4, <2>6, <3>1, <3>2 DEF T
  <2>7. CASE i \notin Late(ls)
    <3>1. L(i) = L(i - 1) BY <1>1, <2>7
    <3>. QED BY <2>0, <2>2, <2>3, <2>4, <2>7, <3>1
  <2>. QED BY <2>6, <2>7
<1>16. \A i \in 0..n : i \in B
  <2> HIDE DEF B, n
  <2>. QED BY <1>1, <1>14, <1>15, CountingUp
<1>17. L(n) = Late(ls) BY <1>1 DEF Late
<1>18. n \in B BY <1>1, <1>16
<1>. QED BY <1>13, <1>17, <1>18

-----------------------------------------------------------------------------
(* Rounding.                                                               *)
LEMMA Division ==
  ASSUME NEW a \in Int, NEW b \in Nat \ {0}
  PROVE  a = b * (a \div b) + (a % b)
OBVIOUS

(* What is larger by the divisor or more is rounded to a larger number,    *)
(* but for halves, which are rounded to even numbers.                      *)
LEMMA RoundGrows ==
  ASSUME NEW a \in Int, NEW b \in Int, NEW t \in Nat \ {0}, a + t <= b,
         a + t < b \/ a % t = 0
  PROVE  Round(a, t) + 1 <= Round(b, t)
<1> DEFINE q == a \div t
           r == a % t
           q2 == b \div t
           r2 == b % t
           p == t * q
           p2 == t * q2
<1>1. q \in Int /\ r \in 0..(t - 1) /\ q2 \in Int /\ r2 \in 0..(t - 1) BY Quotients
<1>2. a = p + r /\ b = p2 + r2 BY Division
<1>3. /\ Round(a, t) = IF 2 * r > t \/ (2 * r = t /\ q % 2 = 1) THEN q + 1 ELSE q
      /\ Round(b, t) = IF 2 * r2 > t \/ (2 * r2 = t /\ q2 % 2 = 1) THEN q2 + 1 ELSE q2
  BY DEF Round
<1>4. a % t = r OBVIOUS
<1> DEFINE x == Round(a, t)
           y == Round(b, t)
<1> HIDE DEF q, r, q2, r2, x, y
<1>5. p \in Int /\ p2 \in Int BY <1>1
<1>6. q2 > q
  <2> SUFFICES ASSUME q2 <= q PROVE FALSE BY <1>1
  <2>1. p2 <= p
    <3>1. ASSUME NEW m \in Nat PROVE t * m >= 0 OBVIOUS
    <3>2. q - q2 \in Nat BY <1>1
    <3>3. t * (q - q2) >= 0 BY <3>1, <3>2
    <3>4. t * (q - q2) = p - p2 BY <1>1
    <3>. QED BY <1>5, <3>3, <3>4
  <2> HIDE DEF p, p2
  <2>. QED BY <1>1, <1>2, <1>5, <2>1
<1>7. x \in {q, q + 1} /\ y \in {q2, q2 + 1} BY <1>3 DEF x, y
<1>8. CASE q2 >= q + 2 BY <1>1, <1>7, <1>8 DEF x, y
<1>9. CASE q2 = q + 1
  <2>1. p2 = p + t BY <1>1, <1>9
  <2> HIDE DEF p, p2
  <2>2. r2 >= r /\ (a + t < b => r2 > r) BY <1>1, <1>2, <1>5, <2>1
  <2>3. CASE x = q BY <1>1, <1>7, <1>9, <2>3 DEF x, y
  <2>4. CASE x # q
    <3>1. 2 * r > t \/ 2 * r = t BY <1>3, <2>4 DEF x
    <3>2. r # 0 BY <1>1, <3>1
    <3>3. r2 > r \/ 2 * r > t BY <1>4, <2>2, <3>1, <3>2
    <3>4. 2 * r2 > t BY <1>1, <2>2, <3>1, <3>3
    <3>5. y = q2 + 1 BY <1>3, <3>4 DEF y
    <3>. QED BY <1>1, <1>7, <1>9, <3>5 DEF x, y
  <2>. QED BY <2>3, <2>4
<1>. QED BY <1>1, <1>6, <1>8, <1>9

LEMMA RoundExact ==
  ASSUME NEW q \in Int, NEW t \in Nat \ {0}
  PROVE  (q * t) % t = 0 /\ (q * t) \div t = q /\ Round(q * t, t) = q
<1> DEFINE a == q * t
           m == a \div t
           r == a % t
           d == m - q
<1>1. a \in Int OBVIOUS
<1> HIDE DEF a
<1>2. m \in Int /\ r \in 0..(t - 1) BY <1>1, Quotients
<1>3. a = t * m + r BY <1>1, Division
<1> HIDE DEF m, r
<1>4. d \in Int /\ t * d = -r BY <1>2, <1>3 DEF a
<1> HIDE DEF d
<1>5. d = 0
  <2>1. ASSUME d >= 1 PROVE FALSE
    <3>1. ASSUME NEW k \in Nat PROVE t * (k + 1) >= t OBVIOUS
    <3>2. d - 1 \in Nat /\ (d - 1) + 1 = d BY <1>4, <2>1
    <3>3. t * d >= t BY <3>1, <3>2
    <3>. QED BY <1>2, <1>4, <3>3
  <2>2. ASSUME d <= -1 PROVE FALSE
    <3>1. ASSUME NEW k \in Nat PROVE t * (-(k + 1)) <= -t OBVIOUS
    <3>2. -d - 1 \in Nat /\ -((-d - 1) + 1) = d BY <1>4, <2>2
    <3>3. t * d <= -t BY <3>1, <3>2
    <3>. QED BY <1>2, <1>4, <3>3
  <2>. QED BY <1>4, <2>1, <2>2
<1>6. r = 0 BY <1>2, <1>4, <1>5
<1>7. m = q BY <1>2, <1>5 DEF d
<1>8. Round(a, t) = m
  <2>1. Round(a, t) = IF 2 * r > t \/ (2 * r = t /\ m % 2 = 1) THEN m + 1 ELSE m
    BY DEF Round, r, m
  <2>2. ~ (2 * r > t) /\ ~ (2 * r = t) BY <1>6
  <2>. QED BY <2>1, <2>2
<1>. QED BY <1>6, <1>7, <1>8 DEF a, r, m

-----------------------------------------------------------------------------
(* Shares of an interval that has a unit of time per character.            *)
LEMMA StepsGrow ==
  ASSUME NEW n \in Nat, NEW g \in [0..n -> Int], \A i \in 1..n : g[i - 1] <= g[i]
  PROVE  \A i, j \in 0..n : i <= j => g[i] <= g[j]
<1> SUFFICES ASSUME NEW i \in 0..n PROVE \A j \in 0..n : i <= j => g[i] <= g[j]
  OBVIOUS
<1> DEFINE B == {j \in 0..n : i <= j => g[i] <= g[j]}
<1>1. 0 \in B
  <2>1. i <= 0 => i = 0 OBVIOUS
  <2>2. g[0] <= g[0] OBVIOUS
  <2>. QED BY <2>1, <2>2
<1>2. ASSUME NEW j \in 1..n, j - 1 \in B PROVE j \in B
  <2>1. j \in 0..n /\ j - 1 \in 0..n OBVIOUS
  <2>2. g[i] \in Int /\ g[j] \in Int /\ g[j - 1] \in Int BY <2>1
  <2>3. CASE i <= j - 1 BY <1>2, <2>1, <2>2, <2>3
  <2>4. CASE ~ i <= j - 1
    <3>1. i <= j => i = j BY <2>4
    <3>. QED BY <2>1, <2>2, <3>1
  <2>. QED BY <2>3, <2>4
<1> HIDE DEF B
<1>3. \A j \in 0..n : j \in B BY <1>1, <1>2, CountingUp
<1>. QED BY <1>3 DEF B

LEMMA BeforeClimbs ==
  ASSUME NEW ss \in Seq(Seq(Clauses) \ {<<>>}), NEW i \in 1..Len(ss)
  PROVE  /\ i - 1 \in 0..Len(ss) /\ i \in 0..Len(ss)
         /\ Before(ss, i - 1) \in Nat /\ Before(ss, i) \in Nat
         /\ Before(ss, i - 1) + 1 <= Before(ss, i)
         /\ Before(ss, 0) = 0
<1> DEFINE p == SubSeq(ss, 1, i - 1)
           x == ss[i]
           f == FlattenSeq(p)
<1>0. ss \in Seq(Seq(Clauses))
  <2>1. Seq(Seq(Clauses) \ {<<>>}) \subseteq Seq(Seq(Clauses)) OBVIOUS
  <2>. QED BY <2>1
<1>1. Len(ss) \in Nat /\ i - 1 \in 0..Len(ss) /\ i \in 0..Len(ss) BY LenProperties
<1>2. /\ p \in Seq(Seq(Clauses)) /\ SubSeq(ss, 1, i) = Append(p, x)
      /\ SubSeq(ss, 1, 0) = <<>>
  BY <1>0, PrefixesGrow
<1>3. x \in Seq(Clauses) /\ x # <<>>
  <2>1. x \in Seq(Clauses) \ {<<>>} BY ElementOfSeq
  <2>. QED BY <2>1
<1> HIDE DEF p, x
<1>4. f \in Seq(Clauses) /\ FlattenSeq(Append(p, x)) = f \o x BY <1>2, <1>3, Flatten
<1> HIDE DEF f
<1>5. Spoken(f) \in Nat /\ Spoken(f \o x) = Spoken(f) + Spoken(x)
  BY <1>3, <1>4, SpokenConcat
<1>6. Spoken(x) \in Nat \ {0} BY <1>3, SpokenPositive
<1>7. Before(ss, i - 1) = Spoken(f) /\ Before(ss, i) = Spoken(f \o x)
  BY <1>2, <1>4 DEF Before, f, p
<1>8. Before(ss, 0) = 0
  <2>1. <<>> \in Seq(Clauses) BY EmptySeq
  <2>2. [n |-> 1, mark |-> ""] \in Clauses
    <3>1. 1 \in Nat \ {0} /\ "" \in {"", ",", "."} OBVIOUS
    <3>. QED BY <3>1 DEF Clauses
  <2>3. Spoken(<<>>) = 0 BY <2>1, <2>2, SpokenAppend
  <2>. QED BY <1>2, <2>3, FlattenNothing DEF Before
<1>. QED BY <1>1, <1>5, <1>6, <1>7, <1>8

(* Lines one after another between two times.                              *)
Between(ls, from, to) ==
    /\ InOrder(ls)
    /\ \A i \in 1..Len(ls) : /\ from <= ls[i].start /\ ls[i].start < ls[i].end
                             /\ ls[i].end <= to

LEMMA TimedFits ==
  ASSUME NEW text \in Seq(Clauses), text # <<>>, NEW start \in Int, NEW end \in Int,
         end - start >= Spoken(text)
  PROVE  Between(Timed(text, start, end), start, end)
<1> DEFINE lines_ == SplitSentences(text)
           n == Len(lines_)
           t == Before(lines_, n)
           d == end - start
           g == [i \in 0..n |-> start + Round(d * Before(lines_, i), t)]
           ls == [i \in DOMAIN lines_ |->
                     Line(lines_[i], start + Round(d * Before(lines_, i - 1), t),
                          Max({start + Round(d * Before(lines_, i - 1), t) + 1,
                               start + Round(d * Before(lines_, i), t)}))]
<1>1. /\ lines_ \in Seq(Seq(Clauses) \ {<<>>}) /\ FlattenSeq(lines_) = text
      /\ lines_ \in Seq(Seq(Clauses))
  <2>1. Divides(SplitSentences(text), text, Clauses) BY SplitDivides
  <2>2. Seq(Seq(Clauses) \ {<<>>}) \subseteq Seq(Seq(Clauses)) OBVIOUS
  <2>. QED BY <2>1, <2>2 DEF Divides
<1>2. Timed(text, start, end) = ls BY DEF Timed, Before
<1> HIDE DEF lines_
<1>3. n \in Nat /\ DOMAIN lines_ = 1..n BY <1>1, LenProperties
<1>4. t = Spoken(text) /\ t \in Nat \ {0} BY <1>1, BeforeGrows, SpokenPositive
<1>5. d \in Nat \ {0} /\ d >= t BY <1>4
<1>6. n # 0
  <2>1. n = 0 => lines_ = <<>> BY <1>1, EmptySeq
  <2>. QED BY <1>1, <2>1, FlattenNothing
<1>7. \A i \in 0..n : Before(lines_, i) \in Nat BY <1>1, BeforeGrows
<1>8. \A i \in 1..n : /\ i - 1 \in 0..n /\ i \in 0..n
                      /\ Before(lines_, i - 1) + 1 <= Before(lines_, i)
  BY <1>1, BeforeClimbs
<1>9. Before(lines_, 0) = 0
  <2>1. 1 \in 1..n BY <1>3, <1>6
  <2>. QED BY <1>1, <2>1, BeforeClimbs
<1> HIDE DEF t, d
<1>10. ASSUME NEW i \in 0..n
       PROVE  g[i] \in Int /\ g[i] = start + Round(d * Before(lines_, i), t)
  <2> DEFINE b == Before(lines_, i)
             x == d * b
  <2>1. b \in Nat BY <1>7
  <2> HIDE DEF b
  <2>2. x \in Int BY <1>5, <2>1
  <2> HIDE DEF x
  <2>3. Round(x, t) \in Int BY <1>4, <2>2, RoundType
  <2>. QED BY <2>3 DEF x, b
<1>11. ASSUME NEW i \in 1..n PROVE g[i - 1] + 1 <= g[i]
  <2> DEFINE b == Before(lines_, i - 1)
             c == Before(lines_, i)
             x == d * b
             y == d * c
  <2>1. b \in Nat /\ c \in Nat /\ b + 1 <= c BY <1>7, <1>8
  <2>2. g[i - 1] = start + Round(x, t) /\ g[i] = start + Round(y, t)
    BY <1>8, <1>10
  <2> HIDE DEF b, c, g
  <2>3. x \in Int /\ y \in Int /\ x + d <= y
    <3>1. x \in Int /\ y \in Int BY <1>5, <2>1
    <3>2. ASSUME NEW k \in Nat PROVE d * (b + 1 + k) >= d * b + d BY <1>5, <2>1
    <3>3. c - (b + 1) \in Nat /\ b + 1 + (c - (b + 1)) = c BY <2>1
    <3>4. d * c >= d * b + d BY <3>2, <3>3
    <3>. QED BY <3>1, <3>4
  <2>4. x + t < y \/ (x + t <= y /\ x % t = 0)
    <3>1. CASE d = t
      <4>1. x = b * t BY <1>5, <2>1, <3>1
      <4>2. (b * t) % t = 0
        <5>1. b \in Int BY <2>1
        <5>. QED BY <1>4, <5>1, RoundExact
      <4> HIDE DEF x, y
      <4>. QED BY <1>4, <2>3, <3>1, <4>1, <4>2
    <3>2. CASE d # t
      <4>1. d > t BY <1>4, <1>5, <3>2
      <4> HIDE DEF x, y
      <4>. QED BY <1>4, <1>5, <2>3, <4>1
    <3>. QED BY <3>1, <3>2
  <2> HIDE DEF x, y
  <2>5. Round(x, t) + 1 <= Round(y, t)
    <3>1. x + t <= y BY <1>4, <2>3, <2>4
    <3>. QED BY <1>4, <2>3, <2>4, <3>1, RoundGrows
  <2>6. Round(x, t) \in Int /\ Round(y, t) \in Int BY <1>4, <2>3, RoundType
  <2>. QED BY <2>2, <2>5, <2>6
<1>12. g[0] = start
  <2>1. d * 0 = 0 /\ 0 * t = 0 /\ 0 \in Int BY <1>4, <1>5
  <2>2. Round(0, t) = 0 BY <1>4, <2>1, RoundExact
  <2>3. 0 \in 0..n BY <1>3
  <2>. QED BY <1>9, <1>10, <2>1, <2>2, <2>3
<1>13. g[n] = end
  <2>1. n \in 0..n BY <1>3
  <2>2. d \in Int BY <1>5
  <2>3. Round(d * t, t) = d BY <1>4, <2>2, RoundExact
  <2>4. g[n] = start + Round(d * t, t) BY <1>10, <2>1 DEF t
  <2>. QED BY <2>3, <2>4 DEF d
<1>14. g \in [0..n -> Int] BY <1>10
<1>15. ASSUME NEW i \in 1..n
       PROVE  ls[i].start = g[i - 1] /\ ls[i].end = g[i]
  <2> DEFINE a == g[i - 1]
             b == g[i]
             e == Max({a + 1, b})
  <2>1. a \in Int /\ b \in Int /\ a + 1 <= b BY <1>8, <1>10, <1>11
  <2>2. /\ a = start + Round(d * Before(lines_, i - 1), t)
        /\ b = start + Round(d * Before(lines_, i), t)
    BY <1>8, <1>10
  <2>3. ls[i] = [text |-> lines_[i], start |-> a, end |-> e]
    BY <1>3, <2>2 DEF Line
  <2> HIDE DEF a, b, ls
  <2>4. a + 1 \in Int BY <2>1
  <2>5. e \in {a + 1, b} /\ e >= b BY <2>1, <2>4, MaxPair
  <2>6. e = b BY <2>1, <2>5
  <2> HIDE DEF e
  <2>7. ls[i].start = a /\ ls[i].end = e BY <2>3
  <2>. QED BY <2>6, <2>7 DEF a, b
<1>16. Len(ls) = n
  <2>1. DOMAIN ls = 1..n BY <1>3
  <2>. QED BY <1>3, <2>1
<1> HIDE DEF ls, g, n
<1>17. \A i, j \in 0..n : i <= j => g[i] <= g[j]
  <2>1. \A i \in 1..n : g[i - 1] <= g[i]
    <3> SUFFICES ASSUME NEW i \in 1..n PROVE g[i - 1] <= g[i] OBVIOUS
    <3>1. g[i - 1] \in Int /\ g[i] \in Int BY <1>8, <1>10
    <3>. QED BY <1>11, <3>1
  <2>. QED BY <1>3, <1>14, <2>1, StepsGrow
<1>18. ASSUME NEW i \in 1..Len(ls)
       PROVE  start <= ls[i].start /\ ls[i].start < ls[i].end /\ ls[i].end <= end
  <2>1. i \in 1..n /\ i - 1 \in 0..n /\ i \in 0..n BY <1>8, <1>16
  <2>2. 0 \in 0..n /\ n \in 0..n /\ 0 <= i - 1 /\ i <= n BY <1>3, <2>1
  <2>3. g[0] <= g[i - 1] /\ g[i] <= g[n] BY <1>17, <2>1, <2>2
  <2>4. g[i - 1] \in Int /\ g[i] \in Int /\ g[i - 1] + 1 <= g[i] BY <1>10, <1>11, <2>1
  <2>. QED BY <1>12, <1>13, <1>15, <2>1, <2>3, <2>4
<1>19. InOrder(ls)
  <2> SUFFICES ASSUME NEW i \in 1..Len(ls) - 1 PROVE ls[i].end <= ls[i + 1].start
    BY DEF InOrder
  <2>1. i \in 1..n /\ i + 1 \in 1..n /\ (i + 1) - 1 = i BY <1>3, <1>16
  <2>2. ls[i].end = g[i] /\ ls[i + 1].start = g[(i + 1) - 1] BY <1>15, <2>1
  <2>3. g[i] \in Int BY <1>8, <1>10, <2>1
  <2>. QED BY <2>1, <2>2, <2>3
<1>. QED BY <1>2, <1>18, <1>19 DEF Between

-----------------------------------------------------------------------------
(* Lines of one interval after those of another.                           *)
LEMMA BetweenConcat ==
  ASSUME NEW ls \in Seq(Spoke), NEW ks \in Seq(Spoke),
         NEW a \in Int, NEW b \in Int, NEW c \in Int, NEW d \in Int,
         b <= c, c <= d, a <= c, Between(ls, a, b), Between(ks, c, d)
  PROVE  ls \o ks \in Seq(Spoke) /\ Between(ls \o ks, a, d)
<1> DEFINE m == Len(ls)
           n == Len(ks)
           t == ls \o ks
<1>1. m \in Nat /\ n \in Nat BY LenProperties
<1>2. /\ t \in Seq(Spoke) /\ Len(t) = m + n
      /\ \A i \in 1..m + n : t[i] = IF i <= m THEN ls[i] ELSE ks[i - m]
  BY ConcatProperties
<1>3. /\ \A i \in 1..m : ls[i].start \in Int /\ ls[i].end \in Int
      /\ \A i \in 1..n : ks[i].start \in Int /\ ks[i].end \in Int
  <2>1. /\ \A i \in 1..m : ls[i] \in Spoke
        /\ \A i \in 1..n : ks[i] \in Spoke
    BY ElementOfSeq
  <2>. QED BY <2>1 DEF Spoke
<1>4. /\ \A i \in 1..m : a <= ls[i].start /\ ls[i].start < ls[i].end /\ ls[i].end <= b
      /\ \A i \in 1..n : c <= ks[i].start /\ ks[i].start < ks[i].end /\ ks[i].end <= d
      /\ \A i \in 1..m - 1 : ls[i].end <= ls[i + 1].start
      /\ \A i \in 1..n - 1 : ks[i].end <= ks[i + 1].start
  BY DEF Between, InOrder
<1> HIDE DEF m, n, t
<1>5. ASSUME NEW i \in 1..m + n
      PROVE  a <= t[i].start /\ t[i].start < t[i].end /\ t[i].end <= d
  <2>1. CASE i <= m
    <3>1. i \in 1..m /\ t[i] = ls[i] BY <1>1, <1>2, <2>1
    <3>. QED BY <1>3, <1>4, <3>1
  <2>2. CASE ~ i <= m
    <3>1. i - m \in 1..n /\ t[i] = ks[i - m] BY <1>1, <1>2, <2>2
    <3>. QED BY <1>3, <1>4, <3>1
  <2>. QED BY <2>1, <2>2
<1>6. ASSUME NEW i \in 1..m + n - 1 PROVE t[i].end <= t[i + 1].start
  <2>0. i \in 1..m + n /\ i + 1 \in 1..m + n BY <1>1
  <2>1. CASE i + 1 <= m
    <3>1. i \in 1..m - 1 /\ t[i] = ls[i] /\ t[i + 1] = ls[i + 1] BY <1>1, <1>2, <2>0, <2>1
    <3>. QED BY <1>4, <3>1
  <2>2. CASE i = m
    <3>1. (i + 1) - m = 1 /\ 1 \in 1..n /\ i \in 1..m /\ ~ i + 1 <= m BY <1>1, <2>0, <2>2
    <3>2. t[i] = ls[i] /\ t[i + 1] = ks[1] BY <1>2, <2>0, <2>2, <3>1
    <3>. QED BY <1>3, <1>4, <3>1, <3>2
  <2>3. CASE i > m
    <3>1. /\ i - m \in 1..n - 1 /\ (i + 1) - m = (i - m) + 1 /\ ~ i <= m /\ ~ i + 1 <= m
      BY <1>1, <2>0, <2>3
    <3>2. t[i] = ks[i - m] /\ t[i + 1] = ks[(i - m) + 1] BY <1>2, <2>0, <3>1
    <3>. QED BY <1>4, <3>1, <3>2
  <2>. QED BY <1>1, <2>0, <2>1, <2>2, <2>3
<1>7. Between(t, a, d)
  <2>1. InOrder(t) BY <1>1, <1>2, <1>6 DEF InOrder
  <2>2. \A i \in 1..Len(t) : a <= t[i].start /\ t[i].start < t[i].end /\ t[i].end <= d
    BY <1>2, <1>5
  <2>. QED BY <2>1, <2>2 DEF Between
<1>. QED BY <1>2, <1>7 DEF t

(* Times that are apart, each with lines of its own.                       *)
Distinct(times) ==
    /\ \A i \in 1..Len(times) : 0 <= times[i][1] /\ times[i][1] < times[i][2]
    /\ \A i, j \in 1..Len(times) : i < j => times[i][2] <= times[j][1]

LEMMA BetweenFlatten ==
  ASSUME NEW lls \in Seq(Seq(Spoke)), NEW times \in Seq(Times), Distinct(times),
         Len(lls) = Len(times),
         \A k \in 1..Len(times) : Between(lls[k], times[k][1], times[k][2]),
         NEW to \in Nat, \A k \in 1..Len(times) : times[k][2] <= to
  PROVE  Between(FlattenSeq(lls), 0, to)
<1> DEFINE n == Len(lls)
           S == Seq(Spoke)
           flat(i) == FlattenSeq(SubSeq(lls, 1, i))
           high(i) == IF i = 0 THEN 0 ELSE times[i][2]
           B == {i \in 0..n : flat(i) \in S /\ Between(flat(i), 0, high(i))}
<1>1. n \in Nat /\ n = Len(times) BY LenProperties
<1>2. \A k \in 1..n : times[k][1] \in Int /\ times[k][2] \in Int
  <2>1. \A k \in 1..n : times[k] \in Times BY <1>1, ElementOfSeq
  <2>. QED BY <2>1 DEF Times
<1>3. flat(0) = <<>> /\ flat(n) = FlattenSeq(lls)
  <2>1. SubSeq(lls, 1, 0) = <<>> /\ SubSeq(lls, 1, n) = lls BY PrefixesGrow
  <2>. QED BY <2>1, FlattenNothing
<1>4. 0 \in B
  <2>1. <<>> \in S /\ 1..Len(<<>>) = {} /\ 1..Len(<<>>) - 1 = {} BY EmptySeq
  <2>2. Between(<<>>, 0, 0) BY <2>1 DEF Between, InOrder
  <2>3. high(0) = 0 /\ 0 \in 0..n BY <1>1
  <2> HIDE DEF flat, high, S
  <2>4. flat(0) \in S /\ Between(flat(0), 0, high(0)) BY <1>3, <2>1, <2>2, <2>3
  <2>. QED BY <2>3, <2>4
<1>5. ASSUME NEW i \in 1..n, i - 1 \in B PROVE i \in B
  <2> DEFINE p == SubSeq(lls, 1, i - 1)
             x == lls[i]
             b == high(i - 1)
             c == times[i][1]
             d == times[i][2]
             u == flat(i - 1)
  <2>1. p \in Seq(S) /\ SubSeq(lls, 1, i) = Append(p, x) BY PrefixesGrow
  <2>2. x \in S /\ Between(x, c, d) BY <1>1, ElementOfSeq
  <2>3. b \in Int /\ b <= c /\ 0 <= c
    <3>1. 0 <= c BY <1>1 DEF Distinct
    <3>2. CASE i = 1
      <4>1. b = 0 BY <3>2
      <4> HIDE DEF b, c
      <4>. QED BY <3>1, <4>1
    <3>3. CASE i # 1
      <4>1. i - 1 \in 1..n /\ i - 1 < i /\ i - 1 # 0 BY <1>1, <3>3
      <4>2. b = times[i - 1][2] BY <4>1
      <4>3. times[i - 1][2] <= times[i][1] BY <1>1, <4>1 DEF Distinct
      <4>. QED BY <1>2, <3>1, <4>1, <4>2, <4>3
    <3>. QED BY <3>2, <3>3
  <2>4. c \in Int /\ d \in Int /\ c <= d BY <1>1, <1>2 DEF Distinct
  <2>5. u \in S /\ Between(u, 0, b) BY <1>5
  <2>6. flat(i) = u \o x
    <3> HIDE DEF x, p
    <3>1. FlattenSeq(Append(p, x)) = FlattenSeq(p) \o x BY <2>1, <2>2, Flatten
    <3>. QED BY <2>1, <3>1 DEF p
  <2>7. i # 0 /\ i \in 0..n BY <1>1
  <2>8. high(i) = d BY <2>7
  <2> HIDE DEF b, c, d, x, u, flat, high
  <2>9. u \o x \in S /\ Between(u \o x, 0, d)
    BY <2>2, <2>3, <2>4, <2>5, BetweenConcat
  <2>. QED BY <2>6, <2>7, <2>8, <2>9
<1> HIDE DEF B
<1>6. \A i \in 0..n : i \in B
  <2> HIDE DEF n
  <2>. QED BY <1>1, <1>4, <1>5, CountingUp
<1> DEFINE all == FlattenSeq(lls)
<1>7. n \in 0..n BY <1>1
<1>8. all \in S /\ Between(all, 0, high(n)) BY <1>3, <1>6, <1>7 DEF B
<1>9. high(n) \in Int /\ high(n) <= to
  <2>1. CASE n = 0 BY <2>1
  <2>2. CASE n # 0
    <3>1. n \in 1..n BY <1>1, <2>2
    <3>. QED BY <1>1, <1>2, <2>2, <3>1
  <2>. QED BY <2>1, <2>2
<1> HIDE DEF all, high
<1>10. \A i \in 1..Len(all) : all[i].end \in Int
  <2>1. \A i \in 1..Len(all) : all[i] \in Spoke BY <1>8, ElementOfSeq
  <2>. QED BY <2>1 DEF Spoke
<1>. QED BY <1>8, <1>9, <1>10 DEF Between, all

-----------------------------------------------------------------------------
(* Lines from intervals of speech.                                         *)
Ending(ls, to) == \A i \in 1..Len(ls) : ls[i].end <= to
Until(times, to) == \A i \in 1..Len(times) : times[i][2] <= to
Roomy(times, size) == \A i \in 1..Len(times) : times[i][2] - times[i][1] >= size

LEMMA SpokenPart ==
  ASSUME NEW ss \in Seq(Seq(Clauses)), NEW k \in 1..Len(ss)
  PROVE  Spoken(ss[k]) \in Nat /\ Spoken(ss[k]) <= Spoken(FlattenSeq(ss))
<1> DEFINE p == SubSeq(ss, 1, k - 1)
           x == ss[k]
           f == FlattenSeq(p)
<1>1. Len(ss) \in Nat /\ k - 1 \in 0..Len(ss) /\ k \in 0..Len(ss) /\ Len(ss) \in 0..Len(ss)
      /\ k <= Len(ss)
  BY LenProperties
<1>2. p \in Seq(Seq(Clauses)) /\ SubSeq(ss, 1, k) = Append(p, x) BY PrefixesGrow
<1>3. x \in Seq(Clauses) BY ElementOfSeq
<1> HIDE DEF p, x
<1>4. f \in Seq(Clauses) /\ FlattenSeq(Append(p, x)) = f \o x BY <1>2, <1>3, Flatten
<1> HIDE DEF f
<1>5. Spoken(f) \in Nat /\ Spoken(x) \in Nat /\ Spoken(f \o x) = Spoken(f) + Spoken(x)
  BY <1>3, <1>4, SpokenConcat
<1>6. Before(ss, k) = Spoken(f \o x) BY <1>2, <1>4 DEF Before
<1>7. Before(ss, k) <= Spoken(FlattenSeq(ss)) /\ Before(ss, Len(ss)) \in Nat
      /\ Before(ss, Len(ss)) = Spoken(FlattenSeq(ss))
  BY <1>1, BeforeGrows
<1>. QED BY <1>5, <1>6, <1>7 DEF x

LEMMA IntervalsFit ==
  ASSUME NEW text \in Seq(Seq(Clauses)), NEW times \in Seq(Times), Distinct(times),
         Roomy(times, Spoken(FlattenSeq(text))), NEW to \in Nat, Until(times, to)
  PROVE  Between(FromIntervals(text, times), 0, to)
<1> DEFINE I == {i \in DOMAIN text : text[i] # <<>>}
           blocks == Chosen(text, I)
           n == Len(blocks)
           whole == FlattenSeq(blocks)
           ls == FromIntervals(text, times)
           size == Spoken(FlattenSeq(text))
<1>1. DOMAIN text = 1..Len(text) /\ Len(text) \in Nat BY LenProperties
<1>2. blocks \in Seq(Seq(Clauses)) /\ \A k \in 1..n : blocks[k] # <<>>
  <2>1. I \in SUBSET (1..Len(text)) /\ \A i \in I : text[i] # <<>> BY <1>1
  <2> HIDE DEF I
  <2>2. blocks \in Seq(Seq(Clauses)) /\ \A k \in 1..n : \E i \in I : blocks[k] = text[i]
    BY <2>1, ChosenProperties, ChosenItems
  <2>. QED BY <2>1, <2>2
<1>3. whole = FlattenSeq(text) BY FlattenNonempty
<1>4. ls = IF n = Len(times)
           THEN FlattenSeq([k \in DOMAIN blocks |->
                               Timed(blocks[k], times[k][1], times[k][2])])
           ELSE IF blocks # <<>> /\ times # <<>>
           THEN Timed(whole, times[1][1], Last(times)[2])
           ELSE <<>>
  BY DEF FromIntervals
<1> HIDE DEF ls, I, blocks
<1>5. /\ n \in Nat /\ DOMAIN blocks = 1..n
      /\ \A k \in 1..n : blocks[k] \in Seq(Clauses) /\ blocks[k] # <<>>
  BY <1>2, LenProperties, ElementOfSeq
<1>6. /\ \A k \in 1..Len(times) : times[k][1] \in Int /\ times[k][2] \in Int
      /\ Len(times) \in Nat
  <2>1. \A k \in 1..Len(times) : times[k] \in Times BY ElementOfSeq
  <2>. QED BY <2>1, LenProperties DEF Times
<1>7. /\ \A k \in 1..n : Spoken(blocks[k]) \in Nat /\ Spoken(blocks[k]) <= size
      /\ whole \in Seq(Clauses) /\ size \in Nat
  <2>1. <<>> \in Seq(Clauses) BY EmptySeq
  <2>2. whole \in Seq(Clauses) BY <1>2, <2>1, Flatten
  <2>3. Spoken(whole) \in Nat BY <2>1, <2>2, SpokenConcat
  <2>. QED BY <1>2, <1>3, <2>2, <2>3, SpokenPart
<1> HIDE DEF size
<1>8. \A k \in 1..Len(times) : times[k][2] - times[k][1] >= size
  BY DEF Roomy, size
<1>9. CASE n = Len(times)
  <2> DEFINE timed == [k \in DOMAIN blocks |->
                          Timed(blocks[k], times[k][1], times[k][2])]
  <2>1. ASSUME NEW k \in 1..n
        PROVE  timed[k] \in Seq(Spoke) /\ Between(timed[k], times[k][1], times[k][2])
    <3> DEFINE b == blocks[k]
               s == times[k][1]
               e == times[k][2]
    <3>1. /\ b \in Seq(Clauses) /\ b # <<>> /\ s \in Int /\ e \in Int
          /\ Spoken(b) \in Nat /\ Spoken(b) <= size /\ e - s >= size
      BY <1>5, <1>6, <1>7, <1>8, <1>9
    <3>2. timed[k] = Timed(b, s, e) BY <1>5
    <3> HIDE DEF b, s, e, timed
    <3>3. e - s >= Spoken(b) BY <1>7, <3>1
    <3>4. TimedWell(b, s, e) BY <3>1, TimedKeeps
    <3>5. Between(Timed(b, s, e), s, e) BY <3>1, <3>3, TimedFits
    <3>. QED BY <3>2, <3>4, <3>5 DEF TimedWell, s, e
  <2>2. timed = [k \in 1..n |-> timed[k]] BY <1>5
  <2>3. ls = FlattenSeq(timed) BY <1>4, <1>9
  <2> HIDE DEF timed, n
  <2>4. timed \in Seq(Seq(Spoke)) /\ Len(timed) = Len(times)
    <3>1. timed \in [1..n -> Seq(Spoke)] BY <2>1, <2>2
    <3>. QED BY <1>5, <1>9, <3>1, SequenceOf
  <2>5. /\ \A k \in 1..Len(times) : Between(timed[k], times[k][1], times[k][2])
        /\ \A k \in 1..Len(times) : times[k][2] <= to
    BY <1>9, <2>1 DEF Until
  <2>6. Between(FlattenSeq(timed), 0, to) BY <2>4, <2>5, BetweenFlatten
  <2>. QED BY <2>3, <2>6 DEF ls
<1>10. CASE n # Len(times) /\ blocks # <<>> /\ times # <<>>
  <2> DEFINE m == Len(times)
             s == times[1][1]
             e == Last(times)[2]
  <2>1. ls = Timed(whole, s, e) BY <1>4, <1>10
  <2>2. 1 \in 1..m /\ m \in 1..m /\ Last(times) = times[m]
    BY <1>10, LenProperties DEF Last
  <2>3. s \in Int /\ e \in Int BY <1>6, <2>2
  <2>4. e - s >= size
    <3>1. times[1][2] - s >= size /\ times[1][2] \in Int BY <1>6, <1>8, <2>2
    <3>2. times[1][2] <= e
      <4>1. CASE m = 1 BY <2>2, <3>1, <4>1
      <4>2. CASE m # 1
        <5>1. 1 < m
          <6>1. m \in Nat /\ 1 <= m BY <1>6, <2>2
          <6> HIDE DEF m
          <6>. QED BY <4>2, <6>1
        <5>2. times[1][2] <= times[m][1] /\ times[m][1] < times[m][2]
          BY <2>2, <5>1 DEF Distinct
        <5>3. times[m][1] \in Int /\ times[m][2] \in Int BY <1>6, <2>2
        <5>. QED BY <2>2, <3>1, <5>2, <5>3
      <4>. QED BY <4>1, <4>2
    <3> HIDE DEF s, e
    <3>. QED BY <1>7, <2>3, <3>1, <3>2
  <2>5. 0 <= s /\ e <= to BY <2>2 DEF Distinct, Until
  <2> HIDE DEF s, e, m
  <2>6. whole # <<>>
    <3> DEFINE x == blocks[1]
    <3>1. 1 \in 1..n BY <1>2, <1>5, <1>10, EmptySeq
    <3>2. Spoken(x) \in Nat \ {0} BY <1>5, <3>1, SpokenPositive
    <3>3. Spoken(x) <= size BY <1>7, <3>1
    <3>4. Spoken(<<>>) = 0
      <4>1. <<>> \in Seq(Clauses) BY EmptySeq
      <4>2. Spoken(x) \in Nat /\ <<>> \o <<>> = <<>> BY <3>2, <4>1
      <4>3. Spoken(<<>>) \in Nat /\ Spoken(<<>> \o <<>>) = Spoken(<<>>) + Spoken(<<>>)
        BY <4>1, SpokenConcat
      <4>. QED BY <4>2, <4>3
    <3> HIDE DEF x
    <3>. QED BY <1>3, <1>7, <3>2, <3>3, <3>4 DEF size
  <2>7. Spoken(whole) = size BY <1>3 DEF size
  <2> HIDE DEF whole
  <2>8. Between(Timed(whole, s, e), s, e) BY <1>7, <2>3, <2>4, <2>6, <2>7, TimedFits
  <2>9. Timed(whole, s, e) \in Seq(Spoke)
    <3>1. TimedWell(whole, s, e) BY <1>7, <2>3, <2>6, TimedKeeps
    <3>. QED BY <3>1 DEF TimedWell
  <2>10. \A i \in 1..Len(ls) : ls[i].start \in Int /\ ls[i].end \in Int
    <3>1. \A i \in 1..Len(ls) : ls[i] \in Spoke BY <2>1, <2>9, ElementOfSeq
    <3>. QED BY <3>1 DEF Spoke
  <2>. QED BY <2>1, <2>3, <2>5, <2>8, <2>10 DEF Between, ls
<1>11. CASE n # Len(times) /\ ~ (blocks # <<>> /\ times # <<>>)
  <2>1. ls = <<>> BY <1>4, <1>11
  <2>2. 1..Len(<<>>) = {} /\ 1..Len(<<>>) - 1 = {} OBVIOUS
  <2>. QED BY <2>1, <2>2 DEF Between, InOrder, ls
<1>. QED BY <1>9, <1>10, <1>11

-----------------------------------------------------------------------------
(* Lines from as many timestamps as there are characters.                  *)
LEMMA FirstFinalExact ==
  ASSUME NEW p \in Nat, NEW q \in Nat, NEW s \in Nat \ {0}, p + 1 <= q, q <= s
  PROVE  First(p, s, s) = p + 1 /\ Final(p, q, s, s) = q
<1>1. (p * s) \div s = p
  <2>1. p \in Int OBVIOUS
  <2>. QED BY <2>1, RoundExact
<1>2. (-(q * s)) \div s = -q
  <2>1. -q \in Int /\ (-q) * s = -(q * s) OBVIOUS
  <2>2. ((-q) * s) \div s = -q BY <2>1, RoundExact
  <2>. QED BY <2>1, <2>2
<1>3. First(p, s, s) = Min({s, p + 1}) BY <1>1 DEF First
<1>4. First(p, s, s) = p + 1
  <2>1. s \in Int /\ p + 1 \in Int OBVIOUS
  <2>2. Min({s, p + 1}) \in {s, p + 1} /\ Min({s, p + 1}) <= s /\ Min({s, p + 1}) <= p + 1
    BY <2>1, MinPair
  <2>. QED BY <1>3, <2>2
<1>5. Final(p, q, s, s) = Min({s, Max({p + 1, q})})
  <2>1. -(-q) = q OBVIOUS
  <2>. QED BY <1>2, <1>4, <2>1 DEF Final
<1>6. Max({p + 1, q}) = q
  <2>1. p + 1 \in Int /\ q \in Int OBVIOUS
  <2>2. Max({p + 1, q}) \in {p + 1, q} /\ Max({p + 1, q}) >= q BY <2>1, MaxPair
  <2>. QED BY <2>2
<1>7. Min({s, q}) = q
  <2>1. s \in Int /\ q \in Int OBVIOUS
  <2>2. Min({s, q}) \in {s, q} /\ Min({s, q}) <= q BY <2>1, MinPair
  <2>. QED BY <2>2
<1>. QED BY <1>4, <1>5, <1>6, <1>7

LEMMA StampsFit ==
  ASSUME NEW text \in Seq(Clauses), NEW raw \in Seq(Times), Distinct(Lasting(raw)),
         Len(Lasting(raw)) \in {0, Spoken(text)}, NEW to \in Nat, Until(Lasting(raw), to)
  PROVE  Between(FromTimestamps(text, raw), 0, to)
<1> DEFINE stamps == Lasting(raw)
           m == Len(stamps)
           ss == Sentences(text)
           n == Len(ss)
           total == Spoken(text)
           first(i) == First(Before(ss, i - 1), total, m)
           last(i) == Final(Before(ss, i - 1), Before(ss, i), total, m)
           all == [i \in DOMAIN ss |-> Line(ss[i], stamps[first(i)][1], stamps[last(i)][2])]
           ls == FromTimestamps(text, raw)
<1>1. ls = IF text = <<>> \/ m = 0 THEN <<>> ELSE all
  BY DEF FromTimestamps, First, Final, Before
<1>2. /\ ss \in Seq(Seq(Clauses) \ {<<>>}) /\ FlattenSeq(ss) = text
      /\ ss \in Seq(Seq(Clauses))
  <2>1. Divides(Sentences(text), text, Clauses) BY SentencesDivide
  <2>2. Seq(Seq(Clauses) \ {<<>>}) \subseteq Seq(Seq(Clauses)) OBVIOUS
  <2>. QED BY <2>1, <2>2 DEF Divides
<1>3. stamps \in Seq(Times) BY LastingKeeps DEF LastsWell
<1>4. Distinct(stamps) /\ m \in {0, total} /\ Until(stamps, to) OBVIOUS
<1> HIDE DEF stamps, ss, total, ls
<1>5. /\ n \in Nat /\ DOMAIN ss = 1..n /\ m \in Nat
      /\ \A k \in 1..m : stamps[k][1] \in Int /\ stamps[k][2] \in Int
  <2>1. \A k \in 1..m : stamps[k] \in Times BY <1>3, ElementOfSeq
  <2>. QED BY <1>2, <1>3, <2>1, LenProperties DEF Times
<1>6. CASE text = <<>> \/ m = 0
  <2>1. ls = <<>> BY <1>1, <1>6
  <2>2. 1..Len(<<>>) = {} /\ 1..Len(<<>>) - 1 = {} OBVIOUS
  <2>. QED BY <2>1, <2>2 DEF Between, InOrder, ls
<1>7. CASE text # <<>> /\ m # 0
  <2>0. ls = all BY <1>1, <1>7
  <2>1. total \in Nat \ {0} /\ m = total BY <1>4, <1>7, SpokenPositive DEF total
  <2> DEFINE f(i) == Before(ss, i - 1) + 1
             l(i) == Before(ss, i)
  <2>2. ASSUME NEW i \in 1..n
        PROVE  /\ f(i) \in 1..m /\ l(i) \in 1..m /\ f(i) <= l(i)
               /\ first(i) = f(i) /\ last(i) = l(i)
    <3> DEFINE p == Before(ss, i - 1)
               q == Before(ss, i)
    <3>1. p \in Nat /\ q \in Nat /\ p + 1 <= q /\ i \in 0..n BY <1>2, BeforeClimbs
    <3>2. q <= total
      <4>1. n \in 0..n /\ i <= n BY <1>5
      <4>2. q <= Before(ss, n) /\ Before(ss, n) = Spoken(FlattenSeq(ss))
        BY <1>2, <3>1, <4>1, BeforeGrows
      <4>. QED BY <1>2, <4>2 DEF total
    <3> HIDE DEF p, q, m
    <3>3. First(p, total, total) = p + 1 /\ Final(p, q, total, total) = q
      BY <2>1, <3>1, <3>2, FirstFinalExact
    <3>4. p + 1 \in 1..m /\ q \in 1..m BY <2>1, <3>1, <3>2
    <3>. QED BY <2>1, <3>1, <3>3, <3>4 DEF p, q
  <2>3. ASSUME NEW i \in 1..n
        PROVE  all[i].start = stamps[f(i)][1] /\ all[i].end = stamps[l(i)][2]
    <3> DEFINE x == stamps[f(i)][1]
               y == stamps[l(i)][2]
    <3>1. all[i] = [text |-> ss[i], start |-> x, end |-> y] BY <1>5, <2>2 DEF Line
    <3> HIDE DEF all, x, y
    <3>. QED BY <3>1 DEF x, y
  <2>4. Len(all) = n
    <3>1. DOMAIN all = 1..n BY <1>5
    <3>. QED BY <1>5, <3>1
  <2> HIDE DEF all, n, first, last
  <2>5. ASSUME NEW i \in 1..n
        PROVE  0 <= all[i].start /\ all[i].start < all[i].end /\ all[i].end <= to
    <3> DEFINE a == f(i)
               b == l(i)
    <3>1. a \in 1..m /\ b \in 1..m /\ a <= b BY <2>2
    <3>2. all[i].start = stamps[a][1] /\ all[i].end = stamps[b][2] BY <2>3
    <3> HIDE DEF a, b
    <3>3. 0 <= stamps[a][1] /\ stamps[b][2] <= to BY <1>4, <3>1 DEF Distinct, Until
    <3>4. /\ stamps[a][1] < stamps[a][2] /\ stamps[b][1] < stamps[b][2]
          /\ a < b => stamps[a][2] <= stamps[b][1]
      BY <1>4, <3>1 DEF Distinct
    <3>5. /\ stamps[a][1] \in Int /\ stamps[a][2] \in Int
          /\ stamps[b][1] \in Int /\ stamps[b][2] \in Int
      BY <1>5, <3>1
    <3>6. a = b \/ a < b BY <1>5, <3>1
    <3>7. stamps[a][1] < stamps[b][2]
      <4>1. CASE a = b BY <3>4, <4>1
      <4>2. CASE a < b BY <3>4, <3>5, <4>2
      <4>. QED BY <3>6, <4>1, <4>2
    <3>. QED BY <3>2, <3>3, <3>7
  <2>6. InOrder(all)
    <3> SUFFICES ASSUME NEW i \in 1..n - 1 PROVE all[i].end <= all[i + 1].start
      BY <2>4 DEF InOrder
    <3>1. i \in 1..n /\ i + 1 \in 1..n /\ (i + 1) - 1 = i BY <1>5 DEF n
    <3> DEFINE b == l(i)
    <3>2. /\ b \in 1..m /\ b + 1 \in 1..m /\ f(i + 1) = b + 1
      BY <2>2, <3>1
    <3>3. all[i].end = stamps[b][2] /\ all[i + 1].start = stamps[b + 1][1]
      BY <2>3, <3>1, <3>2
    <3> HIDE DEF b
    <3>4. b < b + 1 BY <1>5, <3>2
    <3>5. stamps[b][2] <= stamps[b + 1][1] BY <1>4, <3>2, <3>4 DEF Distinct
    <3>. QED BY <3>3, <3>5
  <2>. QED BY <2>0, <2>4, <2>5, <2>6 DEF Between, ls
<1>. QED BY <1>6, <1>7

-----------------------------------------------------------------------------
(* Lines for which there is audio.                                         *)
LEMMA LastingFits ==
  ASSUME NEW raw \in Seq(Times), NEW size \in Nat
  PROVE  /\ Apart(raw) => Distinct(Lasting(raw))
         /\ Within(raw) => Until(Lasting(raw), Duration)
         /\ (\A i \in DOMAIN raw : raw[i][2] > raw[i][1] => raw[i][2] - raw[i][1] >= size)
               => Roomy(Lasting(raw), size)
<1> DEFINE I == {i \in DOMAIN raw : raw[i][2] > raw[i][1]}
           t == Lasting(raw)
<1>1. t = Chosen(raw, I) BY DEF Lasting
<1>2. /\ t \in Seq(Times) /\ \A k \in 1..Len(t) : t[k][1] < t[k][2]
  BY LastingKeeps DEF LastsWell
<1>3. DOMAIN raw = 1..Len(raw) /\ DOMAIN t = 1..Len(t) BY <1>2, LenProperties
<1>4. I \in SUBSET (1..Len(raw)) BY <1>3
<1>5. \A i \in I : i \in DOMAIN raw /\ raw[i][2] > raw[i][1] OBVIOUS
<1>6. Apart(raw) => /\ \A k \in DOMAIN t : t[k][1] >= 0
                    /\ \A k, l \in DOMAIN t : k < l => t[k][2] <= t[l][1]
  BY DEF Apart
<1> HIDE DEF I, t
<1>7. \A k \in 1..Len(t) : \E i \in I : t[k] = raw[i]
  <2>1. \A k \in 1..Len(Chosen(raw, I)) : \E i \in I : Chosen(raw, I)[k] = raw[i]
    BY <1>4, ChosenItems
  <2>. QED BY <1>1, <2>1
<1>8. \A k \in 1..Len(t) : t[k][1] \in Int
  <2>1. \A k \in 1..Len(t) : t[k] \in Times BY <1>2, ElementOfSeq
  <2>. QED BY <2>1 DEF Times
<1>9. Apart(raw) => Distinct(t) BY <1>2, <1>3, <1>6, <1>8 DEF Distinct
<1>10. Within(raw) => Until(t, Duration) BY <1>5, <1>7 DEF Within, Until
<1>11. (\A i \in DOMAIN raw : raw[i][2] > raw[i][1] => raw[i][2] - raw[i][1] >= size)
          => Roomy(t, size)
  BY <1>5, <1>7 DEF Roomy
<1>. QED BY <1>9, <1>10, <1>11 DEF t

(* What the model says in full: times for every word, in the recording.    *)
Neat(s) == WellTimed(s) /\ Aligned(s) /\ InRecording(s)
Audible(ls) ==
    \A k \in 1..Len(ls) :
        \/ ls[k].end <= Duration
        \/ ls[k].start < Duration /\ ls[k].end - ls[k].start <= MaxWindow

LEMMA NativeFits ==
  ASSUME NEW s \in Sayings, Neat(s)
  PROVE  Ending(Native(s), Duration)
<1> DEFINE text == FlattenSeq(s.text)
           ls == Native(s)
<1>1. /\ s.sentences \in Seq(Timing) /\ s.stamps \in Seq(Times)
      /\ s.span # <<>> => s.span[1] \in Int /\ s.span[2] \in Int
      /\ text \in Seq(Clauses)
  BY SayingFields
<1>2. ls = IF s.sentences # <<>> THEN s.sentences
           ELSE IF s.span # <<>> THEN <<Line(text, s.span[1], s.span[2])>>
           ELSE FromTimestamps(text, s.stamps)
  BY DEF Native
<1>3. /\ Within(Stretches(s.sentences)) /\ Within(s.stamps)
      /\ s.span # <<>> => s.span[2] <= Duration
      /\ Apart(s.stamps) /\ Len(Lasting(s.stamps)) \in {0, Spoken(text)}
  BY DEF Neat, InRecording, WellTimed, Aligned
<1> HIDE DEF text, ls
<1>4. CASE s.sentences # <<>>
  <2> DEFINE ss == s.sentences
             t == Stretches(ss)
  <2>1. ls = ss /\ ss \in Seq(Timing) /\ Within(t) BY <1>1, <1>2, <1>3, <1>4
  <2> HIDE DEF ss
  <2>2. DOMAIN ss = 1..Len(ss) BY <2>1, LenProperties
  <2>3. \A i \in 1..Len(ss) : i \in DOMAIN t /\ t[i][2] = ss[i].end
    BY <2>2 DEF Stretches
  <2> HIDE DEF t
  <2>4. \A i \in 1..Len(ss) : ss[i].end <= Duration BY <2>1, <2>3 DEF Within
  <2>. QED BY <2>1, <2>4 DEF Ending, ls
<1>5. CASE s.sentences = <<>> /\ s.span # <<>>
  <2> DEFINE l == Line(text, s.span[1], s.span[2])
  <2>1. ls = <<l>> /\ l.end = s.span[2] BY <1>2, <1>5 DEF Line
  <2> HIDE DEF l
  <2>2. Len(ls) = 1 /\ ls[1] = l BY <2>1
  <2>. QED BY <1>3, <1>5, <2>1, <2>2 DEF Ending, ls
<1>6. CASE s.sentences = <<>> /\ s.span = <<>>
  <2> DEFINE raw == s.stamps
  <2>1. ls = FromTimestamps(text, raw) BY <1>2, <1>6
  <2>2. /\ raw \in Seq(Times) /\ Apart(raw) /\ Within(raw)
        /\ Len(Lasting(raw)) \in {0, Spoken(text)}
    BY <1>1, <1>3
  <2> HIDE DEF raw
  <2>3. Duration \in Nat /\ 0 \in Nat BY LimitsAssumption
  <2>4. Distinct(Lasting(raw)) /\ Until(Lasting(raw), Duration) BY <2>2, <2>3, LastingFits
  <2>5. Between(FromTimestamps(text, raw), 0, Duration) BY <1>1, <2>2, <2>3, <2>4, StampsFit
  <2>. QED BY <2>1, <2>5 DEF Between, Ending, ls
<1>. QED BY <1>4, <1>5, <1>6

LEMMA ParseFits ==
  ASSUME NEW s \in Sayings, Neat(s)
  PROVE  \/ Ending(ParseResult(s, Duration), Duration)
         \/ /\ Len(ParseResult(s, Duration)) = 1
            /\ Audible(ParseResult(s, Duration))
<1> DEFINE text == FlattenSeq(s.text)
           ls == Native(s)
           valid == Valid(ls)
           e == Max({MinSpan, Duration})
           l == Line(text, 0, e)
           native == ParseResult(s, Duration)
<1>1. native = IF valid # <<>> THEN valid ELSE IF text # <<>> THEN <<l>> ELSE <<>>
  BY DEF ParseResult, Native, Valid
<1>2. ls \in Seq(Timing) /\ Ending(ls, Duration) BY NativeKeeps, NativeFits DEF NativeWell
<1>3. /\ MinSpan \in Int /\ Duration \in Int /\ Duration > 0 /\ MinSpan <= MaxWindow
      /\ MaxWindow \in Int
  BY LimitsAssumption
<1>4. e \in {MinSpan, Duration} /\ e \in Int BY <1>3, MaxPair
<1>5. l.start = 0 /\ l.end = e BY DEF Line
<1> HIDE DEF native, text, ls, e, l
<1>6. Ending(valid, Duration)
  <2> DEFINE I == {i \in DOMAIN ls :
                      ls[i].text # <<>> /\ ls[i].start >= 0 /\ ls[i].end > ls[i].start}
  <2>1. DOMAIN ls = 1..Len(ls) BY <1>2, LenProperties
  <2>2. I \in SUBSET (1..Len(ls)) BY <2>1
  <2>3. valid = Chosen(ls, I) BY DEF Valid
  <2> HIDE DEF I, valid
  <2>4. \A k \in 1..Len(valid) : \E i \in I : valid[k] = ls[i]
    <3>1. \A k \in 1..Len(Chosen(ls, I)) : \E i \in I : Chosen(ls, I)[k] = ls[i]
      BY <1>2, <2>2, ChosenItems
    <3>. QED BY <2>3, <3>1
  <2>. QED BY <1>2, <2>2, <2>4 DEF Ending
<1> HIDE DEF valid
<1>7. CASE valid # <<>> BY <1>1, <1>6, <1>7 DEF native
<1>8. CASE valid = <<>> /\ text # <<>>
  <2>1. native = <<l>> BY <1>1, <1>8
  <2>2. Len(native) = 1 /\ native[1] = l BY <2>1
  <2>3. Audible(native) BY <1>3, <1>4, <1>5, <2>2 DEF Audible
  <2>. QED BY <2>2, <2>3 DEF native
<1>9. CASE valid = <<>> /\ text = <<>>
  <2>1. native = <<>> /\ 1..Len(<<>>) = {} BY <1>1, <1>9
  <2>. QED BY <2>1 DEF Ending, native
<1>. QED BY <1>7, <1>8, <1>9

LEMMA TranscribeFits ==
  ASSUME NEW s \in Sayings, Neat(s)
  PROVE  Audible(TranscribeFile(s, s.vad, Duration))
<1> DEFINE native == ParseResult(s, Duration)
           intervals == Lasting(s.vad)
           spoken == FromIntervals(s.text, intervals)
           ls == TranscribeFile(s, s.vad, Duration)
<1>1. ls = IF HasNativeTiming(s) /\ native # <<>> THEN MergeTimed(native)
           ELSE IF spoken # <<>> THEN spoken ELSE native
  BY DEF TranscribeFile
<1> HIDE DEF ls
<1>2. native \in Seq(Sound)
  <2>1. Duration \in Nat /\ MinSpan \in Nat \ {0} BY LimitsAssumption
  <2>2. ParseWell(s, Duration) BY <2>1, ParseKeeps
  <2>. QED BY <2>2 DEF ParseWell
<1>3. Ending(native, Duration) \/ (Len(native) = 1 /\ Audible(native)) BY ParseFits
<1>4. Ending(spoken, Duration)
  <2> DEFINE text == s.text
             raw == s.vad
             size == Spoken(FlattenSeq(text))
  <2>1. text \in Seq(Seq(Clauses)) /\ raw \in Seq(Times) /\ FlattenSeq(text) \in Seq(Clauses)
    BY SayingFields
  <2>2. /\ Apart(raw) /\ Within(raw)
        /\ \A i \in DOMAIN raw : raw[i][2] > raw[i][1] => raw[i][2] - raw[i][1] >= size
    BY DEF Neat, WellTimed, InRecording, Aligned
  <2>3. size \in Nat
    <3>1. <<>> \in Seq(Clauses) BY EmptySeq
    <3>. QED BY <2>1, <3>1, SpokenConcat
  <2>4. Duration \in Nat BY LimitsAssumption
  <2>5. spoken = FromIntervals(text, Lasting(raw)) OBVIOUS
  <2>6. Lasting(raw) \in Seq(Times)
    <3> HIDE DEF raw
    <3>. QED BY <2>1, LastingKeeps DEF LastsWell
  <2> DEFINE kept == Lasting(raw)
  <2>7. Distinct(kept) /\ Until(kept, Duration) /\ Roomy(kept, size)
    <3> HIDE DEF raw, size
    <3>. QED BY <2>1, <2>2, <2>3, LastingFits
  <2> HIDE DEF text, raw, kept
  <2>8. Between(FromIntervals(text, kept), 0, Duration)
    BY <2>1, <2>4, <2>6, <2>7, IntervalsFit DEF kept
  <2>. QED BY <2>5, <2>8 DEF Between, Ending, kept
<1>5. \A ks : Ending(ks, Duration) => Audible(ks) BY DEF Ending, Audible
<1> HIDE DEF native, spoken
<1>6. CASE HasNativeTiming(s) /\ native # <<>>
  <2> DEFINE n == Len(native)
  <2>1. ls = MergeTimed(native) BY <1>1, <1>6
  <2>2. MergeWell(native) BY <1>2, MergeKeeps
  <2>3. ASSUME NEW k \in 1..Len(ls)
        PROVE  \E a, b \in 1..n : ls[k].start = native[a].start /\ ls[k].end = native[b].end
    BY <2>1, <2>2 DEF MergeWell, Reaches
  <2>4. CASE Ending(native, Duration)
    <3>1. Ending(ls, Duration) BY <2>3, <2>4 DEF Ending
    <3>. QED BY <1>5, <3>1 DEF ls
  <2>5. CASE n = 1 /\ Audible(native)
    <3>1. \A k \in 1..Len(ls) : ls[k].start = native[1].start /\ ls[k].end = native[1].end
      BY <2>3, <2>5
    <3>2. 1 \in 1..n BY <2>5
    <3>3. Audible(ls) BY <2>5, <3>1, <3>2 DEF Audible
    <3>. QED BY <3>3 DEF ls
  <2>. QED BY <1>3, <2>4, <2>5
<1>7. CASE ~ (HasNativeTiming(s) /\ native # <<>>)
  <2>1. ls = spoken \/ ls = native BY <1>1, <1>7
  <2>. QED BY <1>3, <1>4, <1>5, <2>1 DEF ls
<1>. QED BY <1>6, <1>7

-----------------------------------------------------------------------------
(* Sums of weights along a list.                                           *)
SumFold(it, n, w) ==
    /\ it[{}] = 0
    /\ \A z \in SUBSET (1..n) : z # {} /\ it[z \ {Max(z)}] \in Nat =>
          it[z] = it[z \ {Max(z)}] + w[Max(z)]
SumRuns(f, n, w, total) ==
    /\ f \in [0..n -> Nat] /\ f[0] = 0 /\ f[n] = total
    /\ \A i \in 1..n : f[i] = f[i - 1] + w[i]

LEMMA SumFolds ==
  ASSUME NEW n \in Nat, NEW w \in [1..n -> Nat]
  PROVE  /\ \E h \in [SUBSET (1..n) -> Nat] : SumFold(h, n, w)
         /\ \A it : SumFold(it, n, w) => \E f : SumRuns(f, n, w, it[1..n])
<1> DEFINE G == [p \in Nat \X (1..n) |-> p[1] + w[p[2]]]
<1>1. /\ G \in [Nat \X (1..n) -> Nat]
      /\ \A k \in Nat, i \in 1..n : G[<<k, i>>] = k + w[i]
  OBVIOUS
<1> HIDE DEF G
<1>2. \A z \in SUBSET (1..n) : z # {} => Max(z) \in 1..n BY LastOfMany
<1>3. PICK h : IsLeftFold(h, n, Nat, 0, G) BY <1>1, LeftFoldHasFunction
<1>4. h \in [SUBSET (1..n) -> Nat] /\ SumFold(h, n, w)
  <2>1. h \in [SUBSET (1..n) -> Nat] BY <1>3 DEF IsLeftFold
  <2>2. {} \in SUBSET (1..n) OBVIOUS
  <2>3. h[{}] = 0 BY <1>3, <2>2 DEF IsLeftFold
  <2>4. ASSUME NEW z \in SUBSET (1..n), z # {}
        PROVE  h[z] = h[z \ {Max(z)}] + w[Max(z)]
    <3>1. h[z] = G[<<h[z \ {Max(z)}], Max(z)>>] BY <1>3, <2>4 DEF IsLeftFold
    <3>2. Max(z) \in 1..n /\ h[z \ {Max(z)}] \in Nat BY <1>2, <2>1, <2>4
    <3>. QED BY <1>1, <3>1, <3>2
  <2>. QED BY <2>1, <2>3, <2>4 DEF SumFold
<1>5. ASSUME NEW it, SumFold(it, n, w) PROVE \E f : SumRuns(f, n, w, it[1..n])
  <2>1. FoldsLeft(it, n, Nat, 0, G) BY <1>1, <1>2, <1>5 DEF SumFold, FoldsLeft
  <2>2. PICK f : Runs(f, n, Nat, 0, G, it[1..n]) BY <1>1, <2>1, LeftFoldRuns
  <2>3. ASSUME NEW i \in 1..n PROVE f[i] = f[i - 1] + w[i]
    <3>1. i - 1 \in 0..n OBVIOUS
    <3>. QED BY <1>1, <2>2, <3>1 DEF Runs
  <2>. QED BY <2>2, <2>3 DEF Runs, SumRuns
<1>. QED BY <1>4, <1>5

LEMMA SumsJoin ==
  ASSUME NEW m \in Nat, NEW n \in Nat, NEW w, NEW v, NEW u, NEW a, NEW b, NEW c,
         NEW f, SumRuns(f, m, w, a), NEW g, SumRuns(g, n, v, b),
         NEW h, SumRuns(h, m + n, u, c),
         \A i \in 1..m : u[i] = w[i], \A i \in 1..n : u[m + i] = v[i] /\ v[i] \in Nat
  PROVE  a \in Nat /\ b \in Nat /\ c = a + b
<1>1. /\ f \in [0..m -> Nat] /\ g \in [0..n -> Nat] /\ h \in [0..(m + n) -> Nat]
      /\ f[0] = 0 /\ g[0] = 0 /\ h[0] = 0 /\ f[m] = a /\ g[n] = b /\ h[m + n] = c
  BY DEF SumRuns
<1> DEFINE B == {i \in 0..m : h[i] = f[i]}
<1>2. 0 \in B BY <1>1
<1>3. ASSUME NEW i \in 1..m, i - 1 \in B PROVE i \in B
  <2>1. f[i] = f[i - 1] + w[i] BY DEF SumRuns
  <2>2. i \in 1..(m + n) OBVIOUS
  <2>3. h[i] = h[i - 1] + u[i] BY <2>2 DEF SumRuns
  <2>. QED BY <1>3, <2>1, <2>3
<1>4. \A i \in 0..m : i \in B
  <2> HIDE DEF B
  <2>. QED BY <1>2, <1>3, CountingUp
<1>5. h[m] = a BY <1>1, <1>4
<1> DEFINE E == {i \in 0..n : h[m + i] = a + g[i]}
<1>6. 0 \in E BY <1>1, <1>5
<1>7. ASSUME NEW i \in 1..n, i - 1 \in E PROVE i \in E
  <2>1. g[i] = g[i - 1] + v[i] BY DEF SumRuns
  <2>2. m + i \in 1..(m + n) /\ (m + i) - 1 = m + (i - 1) /\ i - 1 \in 0..n OBVIOUS
  <2>3. h[m + i] = h[(m + i) - 1] + u[m + i] BY <2>2 DEF SumRuns
  <2>4. h[m + (i - 1)] = a + g[i - 1] BY <1>7
  <2>5. a \in Nat /\ g[i - 1] \in Nat /\ v[i] \in Nat /\ u[m + i] = v[i] BY <1>1, <2>2
  <2>6. h[m + i] = (a + g[i - 1]) + v[i] BY <2>2, <2>3, <2>4, <2>5
  <2>7. h[m + i] = a + g[i] BY <2>1, <2>5, <2>6
  <2>. QED BY <2>7
<1>8. \A i \in 0..n : i \in E
  <2> HIDE DEF E
  <2>. QED BY <1>6, <1>7, CountingUp
<1>9. n \in 0..n /\ m \in 0..m OBVIOUS
<1>. QED BY <1>1, <1>8, <1>9

(* The characters of a text.                                               *)
Wide(c) == c.n + (IF c.mark = "" THEN 0 ELSE 1)
Widths(text) == [i \in 1..Len(text) |-> Wide(text[i])]

LEMMA LengthRuns ==
  ASSUME NEW text \in Seq(Clauses)
  PROVE  /\ Widths(text) \in [1..Len(text) -> Nat]
         /\ \E f : SumRuns(f, Len(text), Widths(text), Length(text))
<1> DEFINE n == Len(text)
           w == Widths(text)
           Folds(f) == f = [z \in SUBSET DOMAIN text |->
                               IF z = {} THEN 0
                               ELSE f[z \ {Max(z)}] + text[Max(z)].n
                                    + (IF text[Max(z)].mark = "" THEN 0 ELSE 1)]
           it == CHOOSE f : Folds(f)
<1>1. n \in Nat /\ DOMAIN text = 1..n BY LenProperties
<1>2. \A i \in 1..n : /\ text[i].n \in Nat
                      /\ w[i] = text[i].n + (IF text[i].mark = "" THEN 0 ELSE 1)
  <2>1. \A i \in 1..n : text[i] \in Clauses BY ElementOfSeq
  <2>. QED BY <2>1 DEF Clauses, Widths, Wide
<1>3. w \in [1..n -> Nat]
  <2>1. w = [i \in 1..n |-> w[i]] BY DEF Widths
  <2> HIDE DEF w
  <2>2. ASSUME NEW i \in 1..n PROVE w[i] \in Nat
    <3> DEFINE p == text[i].n
               q == IF text[i].mark = "" THEN 0 ELSE 1
    <3>1. p \in Nat /\ q \in Nat /\ w[i] = p + q BY <1>2
    <3> HIDE DEF p, q
    <3>. QED BY <3>1
  <2>. QED BY <2>1, <2>2
<1>4. Length(text) = it[1..n] BY <1>1 DEF Length, FoldLeft, MapThenFoldSet
<1> HIDE DEF w, n
<1>5. \A z \in SUBSET (1..n) : z # {} => Max(z) \in 1..n BY <1>1, LastOfMany
<1>6. ASSUME NEW x \in Nat, NEW i \in 1..n
      PROVE  x + text[i].n + (IF text[i].mark = "" THEN 0 ELSE 1) = x + w[i]
  <2> DEFINE p == text[i].n
             q == IF text[i].mark = "" THEN 0 ELSE 1
  <2>1. p \in Nat /\ q \in Nat /\ w[i] = p + q BY <1>2
  <2> HIDE DEF p, q
  <2>2. x + p + q = x + w[i] BY <2>1
  <2>. QED BY <2>2 DEF p, q
<1>7. PICK h \in [SUBSET (1..n) -> Nat] : SumFold(h, n, w) BY <1>1, <1>3, SumFolds
<1>8. Folds(h)
  <2>1. ASSUME NEW z \in SUBSET (1..n), z # {}
        PROVE  h[z] = h[z \ {Max(z)}] + text[Max(z)].n
                      + (IF text[Max(z)].mark = "" THEN 0 ELSE 1)
    <3>1. h[z \ {Max(z)}] \in Nat BY <1>7
    <3>2. h[z] = h[z \ {Max(z)}] + w[Max(z)] BY <1>7, <2>1, <3>1 DEF SumFold
    <3>. QED BY <1>5, <1>6, <2>1, <3>1, <3>2
  <2>2. h[{}] = 0 BY <1>7 DEF SumFold
  <2>. QED BY <1>1, <1>7, <2>1, <2>2
<1>9. Folds(it) BY <1>8
<1> HIDE DEF it
<1>10. SumFold(it, n, w)
  <2>1. /\ it[{}] = 0
        /\ \A z \in SUBSET (1..n) : z # {} =>
              it[z] = it[z \ {Max(z)}] + text[Max(z)].n
                      + (IF text[Max(z)].mark = "" THEN 0 ELSE 1)
    BY <1>1, <1>9
  <2>2. ASSUME NEW z \in SUBSET (1..n), z # {}, it[z \ {Max(z)}] \in Nat
        PROVE  it[z] = it[z \ {Max(z)}] + w[Max(z)]
    BY <1>5, <1>6, <2>1, <2>2
  <2>. QED BY <2>1, <2>2 DEF SumFold
<1>11. \E f : SumRuns(f, n, w, it[1..n]) BY <1>1, <1>3, <1>10, SumFolds
<1>. QED BY <1>3, <1>4, <1>11 DEF n, w

LEMMA LengthConcat ==
  ASSUME NEW s \in Seq(Clauses), NEW t \in Seq(Clauses)
  PROVE  /\ Length(s) \in Nat /\ Length(t) \in Nat
         /\ Length(s \o t) = Length(s) + Length(t)
<1> DEFINE x == s \o t
           m == Len(s)
           n == Len(t)
<1>1. m \in Nat /\ n \in Nat BY LenProperties
<1>2. /\ x \in Seq(Clauses) /\ Len(x) = m + n
      /\ \A i \in 1..m + n : x[i] = IF i <= m THEN s[i] ELSE t[i - m]
  BY ConcatProperties
<1> HIDE DEF x
<1>3. PICK f : SumRuns(f, m, Widths(s), Length(s)) BY LengthRuns
<1>4. PICK g : SumRuns(g, n, Widths(t), Length(t)) BY LengthRuns
<1>5. PICK h : SumRuns(h, m + n, Widths(x), Length(x)) BY <1>2, LengthRuns
<1>6. \A i \in 1..m : Widths(x)[i] = Widths(s)[i]
  <2>1. \A i \in 1..m : i \in 1..m + n /\ i <= m BY <1>1
  <2>. QED BY <1>2, <2>1 DEF Widths
<1>7. \A i \in 1..n : Widths(x)[m + i] = Widths(t)[i] /\ Widths(t)[i] \in Nat
  <2>1. \A i \in 1..n : m + i \in 1..m + n /\ ~ m + i <= m /\ (m + i) - m = i BY <1>1
  <2>2. \A i \in 1..n : x[m + i] = t[i]
    <3> HIDE DEF m, n
    <3>. QED BY <1>2, <2>1
  <2>3. \A i \in 1..n : Widths(t)[i] \in Nat BY LengthRuns
  <2>4. \A i \in 1..n : Widths(x)[m + i] = Wide(x[m + i]) BY <1>2, <2>1 DEF Widths
  <2>5. \A i \in 1..n : Widths(t)[i] = Wide(t[i]) BY DEF Widths
  <2>. QED BY <2>2, <2>3, <2>4, <2>5
<1> HIDE DEF m, n
<1>8. Length(s) \in Nat /\ Length(t) \in Nat /\ Length(x) = Length(s) + Length(t)
  BY <1>1, <1>3, <1>4, <1>5, <1>6, <1>7, SumsJoin
<1>. QED BY <1>8 DEF x

-----------------------------------------------------------------------------
(* Sums over a set, and over a list that has every item of it once.        *)
SetSums(f, T, w) ==
    /\ f \in [SUBSET T -> Nat] /\ f[{}] = 0
    /\ \A z \in SUBSET T : z # {} =>
          f[z] = w[CHOOSE x \in z : TRUE] + f[z \ {CHOOSE x \in z : TRUE}]
AnyFirst(f, w, z) == \A x \in z : f[z] = w[x] + f[z \ {x}]

LEMMA AnyCanBeFirst ==
  ASSUME NEW T, IsFiniteSet(T), NEW w \in [T -> Nat], NEW f, SetSums(f, T, w)
  PROVE  \A z \in SUBSET T : AnyFirst(f, w, z)
<1> DEFINE D == SUBSET T
           rank == [z \in D |-> Cardinality(z)]
           B == {z \in D : AnyFirst(f, w, z)}
<1>1. \A z \in D : IsFiniteSet(z) /\ Cardinality(z) \in Nat BY FS_Subset, FS_CardinalityType
<1>2. rank \in [D -> Nat] BY <1>1
<1>3. f \in [D -> Nat] BY DEF SetSums
<1>4. ASSUME NEW z \in D, NEW x \in z
      PROVE  z \ {x} \in D /\ rank[z \ {x}] < rank[z]
  <2>1. Cardinality(z \ {x}) = Cardinality(z) - 1 BY <1>1, FS_RemoveElement
  <2>. QED BY <1>1, <2>1
<1>5. ASSUME NEW z \in D, \A e \in D : rank[e] < rank[z] => e \in B PROVE z \in B
  <2> SUFFICES ASSUME NEW x \in z PROVE f[z] = w[x] + f[z \ {x}]
    BY DEF AnyFirst
  <2> DEFINE c == CHOOSE y \in z : TRUE
  <2>1. c \in z BY Zenon
  <2>2. f[z] = w[c] + f[z \ {c}]
    <3>1. z # {} OBVIOUS
    <3>. QED BY <3>1 DEF SetSums
  <2> HIDE DEF c, rank
  <2>3. CASE x = c BY <2>2, <2>3
  <2>4. CASE x # c
    <3> DEFINE p == z \ {c}
               q == z \ {x}
               r == z \ {c, x}
    <3>1. /\ p \in B /\ q \in B /\ x \in p /\ c \in q /\ p \ {x} = r /\ q \ {c} = r
          /\ r \in D
      BY <1>4, <1>5, <2>1, <2>4
    <3>2. f[p] = w[x] + f[r] /\ f[q] = w[c] + f[r] BY <3>1 DEF AnyFirst
    <3>3. w[x] \in Nat /\ w[c] \in Nat /\ f[r] \in Nat BY <1>3, <2>1, <3>1
    <3> HIDE DEF p, q, r
    <3>4. f[z] = w[c] + f[p] BY <2>2 DEF p
    <3>5. f[z] = w[x] + f[q] BY <3>2, <3>3, <3>4
    <3>. QED BY <3>5 DEF q
  <2>. QED BY <2>3, <2>4
<1> HIDE DEF B, D, rank
<1>6. Inherits(D, rank, B) BY <1>5 DEF Inherits
<1>7. D \subseteq B BY <1>2, <1>6, RankInduction
<1>. QED BY <1>7 DEF B, D

(* What a request's lines need, along the list and as a set.               *)
Size(sizes, c) == FoldLeft(LAMBDA a, k : a + sizes[k] + 1, 0, c)
Costs(sizes, c) == [i \in 1..Len(c) |-> sizes[c[i]] + 1]
Weight(sizes, T) == MapThenSumSet(LAMBDA k : sizes[k] + 1, T)

LEMMA WeightSums ==
  ASSUME NEW D, NEW sizes \in [D -> Nat], NEW T \in SUBSET D, IsFiniteSet(T)
  PROVE  \E f : SetSums(f, T, [k \in T |-> sizes[k] + 1]) /\ Weight(sizes, T) = f[T]
<1> DEFINE w == [k \in T |-> sizes[k] + 1]
           first(z) == CHOOSE x \in z : TRUE
           choice == [z \in SUBSET T |-> first(z)]
           G == [p \in Nat \X T |-> w[p[2]] + p[1]]
           Folds(f) == f = [z \in SUBSET T |->
                               IF z = {} THEN 0
                               ELSE (sizes[first(z)] + 1) + f[z \ {first(z)}]]
           it == CHOOSE f : Folds(f)
<1>1. w \in [T -> Nat] /\ \A k \in T : w[k] = sizes[k] + 1 OBVIOUS
<1>2. Weight(sizes, T) = it[T] BY DEF Weight, MapThenSumSet, MapThenFoldSet
<1>3. \A z \in SUBSET T : z # {} => first(z) \in z /\ first(z) \in T BY Zenon
<1> HIDE DEF w, first
<1>4. /\ G \in [Nat \X T -> Nat]
      /\ \A x \in Nat, k \in T : G[<<x, k>>] = w[k] + x
  BY <1>1
<1> HIDE DEF G
<1>5. Folding(T, choice, Nat, 0, G)
  <2>1. \A z \in SUBSET T : z # {} => choice[z] \in z BY <1>3
  <2> HIDE DEF choice
  <2>. QED BY <1>4, <2>1 DEF Folding
<1>6. PICK h \in [SUBSET T -> Nat] : IsFold(h, T, choice, 0, G)
  <2> HIDE DEF choice
  <2>. QED BY <1>5, FoldHasFunction
<1>7. \A z \in SUBSET T : z # {} =>
         h[z] = (sizes[first(z)] + 1) + h[z \ {first(z)}]
  <2> SUFFICES ASSUME NEW z \in SUBSET T, z # {}
               PROVE  h[z] = (sizes[first(z)] + 1) + h[z \ {first(z)}]
    OBVIOUS
  <2>1. choice[z] = first(z) OBVIOUS
  <2>2. h[z] = G[<<h[z \ {choice[z]}], choice[z]>>]
    <3> HIDE DEF choice
    <3>. QED BY <1>6 DEF IsFold, FoldStep
  <2>3. first(z) \in T /\ h[z \ {first(z)}] \in Nat BY <1>3
  <2> HIDE DEF choice
  <2>. QED BY <1>1, <1>4, <2>1, <2>2, <2>3
<1>8. h[{}] = 0 BY <1>6 DEF IsFold, FoldStep
<1>9. Folds(h) BY <1>6, <1>7, <1>8
<1>10. Folds(it) BY <1>9
<1> HIDE DEF it
<1>11. /\ it[{}] = 0
       /\ \A z \in SUBSET T : z # {} =>
             it[z] = (sizes[first(z)] + 1) + it[z \ {first(z)}]
  BY <1>10
<1>12. \A z \in SUBSET T : it[z] \in Nat
  <2>1. \A z \in SUBSET T : z # {} => choice[z] \in z /\ choice[z] = first(z) BY <1>3
  <2> HIDE DEF choice
  <2>2. ASSUME NEW z \in SUBSET T, z # {}, it[z \ {choice[z]}] \in Nat PROVE it[z] \in Nat
    <3> DEFINE k == first(z)
    <3>1. k \in D /\ choice[z] = k BY <1>3, <2>1, <2>2
    <3>2. it[z] = (sizes[k] + 1) + it[z \ {k}] BY <1>11, <2>2
    <3> HIDE DEF k
    <3>3. sizes[k] \in Nat /\ it[z \ {k}] \in Nat BY <2>2, <3>1
    <3>. QED BY <3>2, <3>3
  <2>3. it[{}] \in Nat BY <1>11
  <2>. QED BY <2>1, <2>2, <2>3, FoldType
<1>13. it \in [SUBSET T -> Nat] BY <1>10, <1>12
<1>14. SetSums(it, T, w)
  <2>1. \A z \in SUBSET T : z # {} => it[z] = w[first(z)] + it[z \ {first(z)}]
    BY <1>1, <1>3, <1>11
  <2>. QED BY <1>11, <1>13, <2>1 DEF SetSums, first
<1>. QED BY <1>2, <1>14 DEF w

LEMMA SizeRuns ==
  ASSUME NEW D, NEW sizes \in [D -> Nat], NEW c \in Seq(D)
  PROVE  /\ Costs(sizes, c) \in [1..Len(c) -> Nat]
         /\ \E f : SumRuns(f, Len(c), Costs(sizes, c), Size(sizes, c))
<1> DEFINE n == Len(c)
           w == Costs(sizes, c)
           Folds(f) == f = [z \in SUBSET DOMAIN c |->
                               IF z = {} THEN 0 ELSE f[z \ {Max(z)}] + sizes[c[Max(z)]] + 1]
           it == CHOOSE f : Folds(f)
<1>1. n \in Nat /\ DOMAIN c = 1..n BY LenProperties
<1>2. \A i \in 1..n : sizes[c[i]] \in Nat /\ w[i] = sizes[c[i]] + 1
  BY ElementOfSeq DEF Costs
<1>3. w \in [1..n -> Nat]
  <2>1. w = [i \in 1..n |-> w[i]] BY DEF Costs
  <2> HIDE DEF w
  <2>. QED BY <1>2, <2>1
<1>4. Size(sizes, c) = it[1..n] BY <1>1 DEF Size, FoldLeft, MapThenFoldSet
<1> HIDE DEF w, n
<1>5. \A z \in SUBSET (1..n) : z # {} => Max(z) \in 1..n BY <1>1, LastOfMany
<1>6. \A x \in Nat, i \in 1..n : x + sizes[c[i]] + 1 = x + w[i] BY <1>2
<1>7. PICK h \in [SUBSET (1..n) -> Nat] : SumFold(h, n, w) BY <1>1, <1>3, SumFolds
<1>8. Folds(h)
  <2>1. ASSUME NEW z \in SUBSET (1..n), z # {}
        PROVE  h[z] = h[z \ {Max(z)}] + sizes[c[Max(z)]] + 1
    <3>1. h[z \ {Max(z)}] \in Nat BY <1>7
    <3>2. h[z] = h[z \ {Max(z)}] + w[Max(z)] BY <1>7, <2>1, <3>1 DEF SumFold
    <3>. QED BY <1>5, <1>6, <2>1, <3>1, <3>2
  <2>2. h[{}] = 0 BY <1>7 DEF SumFold
  <2>. QED BY <1>1, <1>7, <2>1, <2>2
<1>9. Folds(it) BY <1>8
<1> HIDE DEF it
<1>10. SumFold(it, n, w)
  <2>1. /\ it[{}] = 0
        /\ \A z \in SUBSET (1..n) : z # {} =>
              it[z] = it[z \ {Max(z)}] + sizes[c[Max(z)]] + 1
    BY <1>1, <1>9
  <2>2. ASSUME NEW z \in SUBSET (1..n), z # {}, it[z \ {Max(z)}] \in Nat
        PROVE  it[z] = it[z \ {Max(z)}] + w[Max(z)]
    BY <1>5, <1>6, <2>1, <2>2
  <2>. QED BY <2>1, <2>2 DEF SumFold
<1>11. \E f : SumRuns(f, n, w, it[1..n]) BY <1>1, <1>3, <1>10, SumFolds
<1>. QED BY <1>3, <1>4, <1>11 DEF n, w

LEMMA SizeAppend ==
  ASSUME NEW D, NEW sizes \in [D -> Nat], NEW c \in Seq(D), NEW k \in D
  PROVE  /\ Size(sizes, c) \in Nat
         /\ Size(sizes, Append(c, k)) = Size(sizes, c) + sizes[k] + 1
<1> DEFINE n == Len(c)
           x == Append(c, k)
           y == <<k>>
<1>1. /\ n \in Nat /\ x \in Seq(D) /\ Len(x) = n + 1 /\ x[n + 1] = k
      /\ \A i \in 1..n : x[i] = c[i]
      /\ y \in Seq(D) /\ Len(y) = 1 /\ y[1] = k
  BY LenProperties, AppendProperties
<1> HIDE DEF x, y
<1>2. PICK f : SumRuns(f, n, Costs(sizes, c), Size(sizes, c)) BY SizeRuns
<1>3. PICK g : SumRuns(g, 1, Costs(sizes, y), Size(sizes, y)) BY <1>1, SizeRuns
<1>4. PICK h : SumRuns(h, n + 1, Costs(sizes, x), Size(sizes, x)) BY <1>1, SizeRuns
<1>5. \A i \in 1..n : Costs(sizes, x)[i] = Costs(sizes, c)[i] BY <1>1 DEF Costs
<1>6. \A i \in 1..1 : /\ Costs(sizes, x)[n + i] = Costs(sizes, y)[i]
                      /\ Costs(sizes, y)[i] \in Nat
  <2>1. n + 1 \in 1..Len(x) /\ 1 \in 1..Len(y) BY <1>1
  <2>. QED BY <1>1, <2>1 DEF Costs
<1>7. Size(sizes, y) = sizes[k] + 1
  <2>1. g[0] = 0 /\ g[1] = Size(sizes, y) /\ g[1] = g[1 - 1] + Costs(sizes, y)[1]
    BY <1>3 DEF SumRuns
  <2>2. Costs(sizes, y)[1] = sizes[k] + 1 BY <1>1 DEF Costs
  <2>. QED BY <2>1, <2>2
<1> HIDE DEF n
<1>8. 1 \in Nat OBVIOUS
<1>9. Size(sizes, c) \in Nat /\ Size(sizes, x) = Size(sizes, c) + Size(sizes, y)
  BY <1>1, <1>2, <1>3, <1>4, <1>5, <1>6, <1>8, SumsJoin
<1>. QED BY <1>7, <1>9 DEF x

LEMMA SizeIsWeight ==
  ASSUME NEW D, NEW sizes \in [D -> Nat], NEW c \in Seq(D),
         \A i, j \in 1..Len(c) : c[i] = c[j] => i = j
  PROVE  Size(sizes, c) = Weight(sizes, ToSet(c))
<1> DEFINE n == Len(c)
           T == ToSet(c)
           w == [k \in T |-> sizes[k] + 1]
           upTo(i) == {c[j] : j \in 1..i}
<1>1. n \in Nat /\ DOMAIN c = 1..n /\ \A i \in 1..n : c[i] \in D
  BY LenProperties, ElementOfSeq
<1>2. T = upTo(n) /\ T \subseteq D BY <1>1 DEF ToSet
<1>3. IsFiniteSet(T)
  <2>1. IsFiniteSet(1..n) BY <1>1, FS_Interval
  <2> DEFINE I == 1..n
             g == [i \in I |-> c[i]]
  <2>2. g \in Surjection(I, T) BY <1>1, <1>2 DEF Surjection
  <2> HIDE DEF I, T, g
  <2>. QED BY <2>1, <2>2, FS_Surjection DEF I
<1>4. w \in [T -> Nat] BY <1>2
<1>6. \A k \in T : w[k] = sizes[k] + 1 OBVIOUS
<1>7. PICK s : SetSums(s, T, w) /\ Weight(sizes, T) = s[T]
  <2>1. T \in SUBSET D BY <1>2
  <2> HIDE DEF T
  <2>2. \E f : SetSums(f, T, [k \in T |-> sizes[k] + 1]) /\ Weight(sizes, T) = f[T]
    BY <1>3, <2>1, WeightSums
  <2>. QED BY <2>2
<1> HIDE DEF w
<1>8. \A z \in SUBSET T : AnyFirst(s, w, z)
  <2> HIDE DEF T
  <2>. QED BY <1>3, <1>4, <1>7, AnyCanBeFirst
<1>9. PICK f : SumRuns(f, n, Costs(sizes, c), Size(sizes, c)) BY SizeRuns
<1> DEFINE B == {i \in 0..n : f[i] = s[upTo(i)]}
<1>10. 0 \in B
  <2>1. upTo(0) = {} OBVIOUS
  <2>2. f[0] = 0 /\ s[{}] = 0 BY <1>7, <1>9 DEF SumRuns, SetSums
  <2> HIDE DEF upTo
  <2>3. f[0] = s[upTo(0)] BY <2>1, <2>2
  <2>4. 0 \in 0..n BY <1>1
  <2>. QED BY <2>3, <2>4
<1>11. ASSUME NEW i \in 1..n, i - 1 \in B PROVE i \in B
  <2>1. upTo(i) \in SUBSET T /\ c[i] \in upTo(i) /\ upTo(i - 1) \in SUBSET T
    <3>1. 1..i \subseteq 1..n /\ 1..(i - 1) \subseteq 1..n /\ i \in 1..i BY <1>1
    <3>. QED BY <1>2, <3>1
  <2>2. upTo(i) \ {c[i]} = upTo(i - 1)
    <3>1. ASSUME NEW j \in 1..i, c[j] # c[i] PROVE j \in 1..(i - 1) BY <1>1, <3>1
    <3>2. ASSUME NEW j \in 1..(i - 1) PROVE j \in 1..i /\ c[j] # c[i]
      <4>1. j \in 1..n /\ j # i /\ j \in 1..i BY <1>1
      <4>. QED BY <4>1
    <3>. QED BY <3>1, <3>2
  <2>3. s[upTo(i)] = w[c[i]] + s[upTo(i) \ {c[i]}] BY <1>8, <2>1 DEF AnyFirst
  <2>4. f[i] = f[i - 1] + (sizes[c[i]] + 1) BY <1>9 DEF SumRuns, Costs
  <2>5. w[c[i]] = sizes[c[i]] + 1 BY <1>6, <2>1
  <2>6. s[upTo(i - 1)] \in Nat /\ w[c[i]] \in Nat BY <1>4, <1>7, <2>1 DEF SetSums
  <2>7. f[i - 1] = s[upTo(i - 1)] BY <1>11
  <2> HIDE DEF upTo
  <2>8. f[i] = s[upTo(i - 1)] + w[c[i]] BY <2>4, <2>5, <2>7
  <2>9. s[upTo(i)] = w[c[i]] + s[upTo(i - 1)] BY <2>2, <2>3
  <2>10. f[i] = s[upTo(i)] BY <2>6, <2>8, <2>9
  <2>. QED BY <1>1, <2>10
<1>12. \A i \in 0..n : i \in B
  <2> HIDE DEF B, n
  <2>. QED BY <1>1, <1>10, <1>11, CountingUp
<1>13. n \in B BY <1>1, <1>12
<1>14. f[n] = s[T] BY <1>2, <1>13
<1>. QED BY <1>7, <1>9, <1>14 DEF SumRuns

-----------------------------------------------------------------------------
(* _chunks loses no line.                                                  *)
Numbers(n) == [k \in 1..n |-> k]

LEMMA NumbersType ==
  ASSUME NEW n \in Nat
  PROVE  Numbers(n) \in Seq(1..n) /\ Len(Numbers(n)) = n
<1> DEFINE S == 1..n
<1>1. Numbers(n) \in [1..n -> S] BY DEF Numbers
<1> HIDE DEF S
<1>2. Numbers(n) \in Seq(S) /\ Len(Numbers(n)) = n BY <1>1, SequenceOf
<1>. QED BY <1>2 DEF S

(* A chunk is full when the next line would make it longer than a request. *)
Overfull(sizes, n) ==
    {p \in Piecewise(1..n) \X (1..n) :
        Size(sizes, Last(p[1])) + sizes[Numbers(n)[p[2]]] + 1 > MaxPrompt}
ChunksRun(f, sizes, n) ==
    PieceRuns(f, Numbers(n), 1..n, Overfull(sizes, n)) /\ f[n] = PromptChunks(sizes)

LEMMA ChunksDivide ==
  ASSUME NEW n \in Nat, NEW sizes, DOMAIN sizes = 1..n
  PROVE  /\ Divides(PromptChunks(sizes), Numbers(n), 1..n)
         /\ \E f : ChunksRun(f, sizes, n)
<1> DEFINE C == 1..n
           text == Numbers(n)
           V == Piecewise(C)
           over(ss, c) == Size(sizes, Last(ss)) + sizes[c] + 1 > MaxPrompt
           step(ss, c) == IF ss = <<>> \/ over(ss, c) THEN Append(ss, <<c>>)
                          ELSE Append(Front(ss), Append(Last(ss), c))
           Folds(f) == f = [z \in SUBSET DOMAIN text |->
                               IF z = {} THEN <<>> ELSE step(f[z \ {Max(z)}], text[Max(z)])]
           opens == {p \in V \X (1..n) : over(p[1], text[p[2]])}
           it == CHOOSE f : Folds(f)
<1>0. text \in Seq(C) /\ Len(text) = n BY NumbersType
<1>6. PromptChunks(sizes) = it[DOMAIN text]
  BY DEF PromptChunks, FoldLeft, MapThenFoldSet, Numbers, Size
<1>10. opens = Overfull(sizes, n) BY DEF Overfull
<1> HIDE DEF text, C
<1>1. Len(text) \in Nat /\ DOMAIN text = 1..Len(text) BY <1>0, LenProperties
<1>2. ASSUME NEW f, NEW z \in SUBSET DOMAIN text, z # {}, f[z \ {Max(z)}] \in V
      PROVE  step(f[z \ {Max(z)}], text[Max(z)]) =
                PieceStep(text, opens, f[z \ {Max(z)}], Max(z))
  <2>1. Max(z) \in 1..Len(text) BY <1>1, <1>2, LastOfMany
  <2>2. over(f[z \ {Max(z)}], text[Max(z)]) <=> <<f[z \ {Max(z)}], Max(z)>> \in opens
    <3> HIDE DEF over
    <3>. QED BY <1>0, <1>2, <2>1
  <2> HIDE DEF over, opens
  <2>. QED BY <2>2 DEF PieceStep
<1> HIDE DEF opens, step
<1>3. PICK h \in PieceFunctions(text, C) : PieceFold(h, text, C, opens) BY <1>0, PieceFolds
<1>4. Folds(h)
  <2>1. \A z \in SUBSET DOMAIN text : z # {} =>
           h[z \ {Max(z)}] \in V /\ h[z] = step(h[z \ {Max(z)}], text[Max(z)])
    <3> SUFFICES ASSUME NEW z \in SUBSET DOMAIN text, z # {}
                 PROVE  h[z \ {Max(z)}] \in V /\ h[z] = step(h[z \ {Max(z)}], text[Max(z)])
      OBVIOUS
    <3>1. h[z \ {Max(z)}] \in V BY <1>1, <1>3 DEF PieceFunctions
    <3>. QED BY <1>1, <1>2, <1>3, <3>1 DEF PieceFold
  <2>2. h[{}] = <<>> BY <1>3 DEF PieceFold
  <2>. QED BY <1>1, <1>3, <2>1, <2>2 DEF PieceFunctions
<1>5. Folds(it) BY <1>4
<1> HIDE DEF it
<1>7. PieceFold(it, text, C, opens)
  <2>1. /\ it[{}] = <<>>
        /\ \A z \in SUBSET DOMAIN text : z # {} =>
              it[z] = step(it[z \ {Max(z)}], text[Max(z)])
    BY <1>5
  <2>. QED BY <1>1, <1>2, <2>1 DEF PieceFold
<1>8. EndsInPieces(it, text) /\ RunsInPieces(it, text, C, opens) BY <1>0, <1>7, PieceFolds
<1>9. Divides(it[1..Len(text)], text, C) BY <1>0, <1>8, EndsInPiecesDivides
<1>11. \E f : ChunksRun(f, sizes, n)
  BY <1>0, <1>1, <1>6, <1>8, <1>10 DEF ChunksRun, RunsInPieces, text, C
<1>. QED BY <1>1, <1>6, <1>9, <1>11 DEF text, C

LEMMA ChunksAreSome ==
  ASSUME NEW n \in Nat, NEW sizes, DOMAIN sizes = 1..n
  PROVE  /\ Len(PromptChunks(sizes)) \in Nat
         /\ (PromptChunks(sizes) = <<>>) <=> (n = 0)
<1> DEFINE N == Seq(1..n) \ {<<>>}
           cs == PromptChunks(sizes)
<1>1. cs \in Seq(N) /\ FlattenSeq(cs) = Numbers(n) BY ChunksDivide DEF Divides
<1>2. Numbers(n) \in Seq(1..n) /\ Len(Numbers(n)) = n BY NumbersType
<1> HIDE DEF cs, N
<1>3. Len(cs) \in Nat BY <1>1, LenProperties
<1>4. cs = <<>> => n = 0
  <2>1. cs = <<>> => Numbers(n) = <<>> BY <1>1, FlattenNothing
  <2>. QED BY <1>2, <2>1, EmptySeq
<1>5. n = 0 => cs = <<>>
  <2> SUFFICES ASSUME n = 0, cs # <<>> PROVE FALSE OBVIOUS
  <2> DEFINE x == Last(cs)
             a == Front(cs)
             C == 1..n
  <2>1. a \in Seq(N) /\ x \in N /\ cs = Append(a, x) BY <1>1, FrontLast
  <2>2. Seq(N) \subseteq Seq(Seq(C)) /\ N \subseteq Seq(C)
    <3>1. N \subseteq Seq(C) BY DEF N
    <3>. QED BY <3>1
  <2>4. x \in Seq(C) /\ x # <<>> BY <2>1 DEF N
  <2>5. a \in Seq(Seq(C)) BY <2>1, <2>2
  <2>6. Last(x) \in C BY <2>4, FrontLast
  <2>. QED BY <2>6
<1>. QED BY <1>3, <1>4, <1>5 DEF cs

(* Chunks of lines up to the i-th, in their order, that fit into a request. *)
Packed(sizes, c, i) ==
    /\ \A k \in 1..Len(c) : c[k] \in 1..i
    /\ \A k, l \in 1..Len(c) : k < l => c[k] < c[l]
    /\ Len(c) > 1 => Size(sizes, c) <= MaxPrompt

LEMMA PackedStep ==
  ASSUME NEW n \in Nat, NEW sizes \in [1..n -> Nat], NEW c \in Seq(1..n), NEW i \in 1..n,
         c # <<>>, Packed(sizes, c, i - 1), ~ Size(sizes, c) + sizes[i] + 1 > MaxPrompt
  PROVE  Packed(sizes, Append(c, i), i)
<1> DEFINE m == Len(c)
           x == Append(c, i)
<1>1. m \in Nat /\ Len(x) = m + 1 /\ x[m + 1] = i /\ \A k \in 1..m : x[k] = c[k]
  BY LenProperties, AppendProperties
<1>2. /\ \A k \in 1..m : c[k] \in 1..(i - 1)
      /\ \A k, l \in 1..m : k < l => c[k] < c[l]
  BY DEF Packed
<1>3. /\ Size(sizes, c) \in Nat /\ sizes[i] \in Nat
      /\ Size(sizes, x) = Size(sizes, c) + sizes[i] + 1
  BY SizeAppend
<1> HIDE DEF m, x
<1>4. \A k \in 1..m : x[k] \in 1..i /\ x[k] < i
  <2>1. \A k \in 1..m : x[k] \in 1..(i - 1) BY <1>1, <1>2
  <2>. QED BY <2>1
<1>5. \A k \in 1..(m + 1) : k \in 1..m \/ k = m + 1 BY <1>1
<1>6. \A k \in 1..(m + 1) : x[k] \in 1..i
  <2>1. i \in 1..i OBVIOUS
  <2> SUFFICES ASSUME NEW k \in 1..(m + 1) PROVE x[k] \in 1..i OBVIOUS
  <2>2. k \in 1..m \/ k = m + 1 BY <1>5
  <2>. QED BY <1>1, <1>4, <2>1, <2>2
<1>7. ASSUME NEW k \in 1..(m + 1), NEW l \in 1..(m + 1), k < l PROVE x[k] < x[l]
  <2>1. k \in 1..m BY <1>1, <1>7
  <2>2. CASE l \in 1..m BY <1>1, <1>2, <1>7, <2>1, <2>2
  <2>3. CASE l = m + 1 BY <1>1, <1>4, <2>1, <2>3
  <2>. QED BY <1>5, <2>2, <2>3
<1>8. Size(sizes, x) <= MaxPrompt
  <2>1. MaxPrompt \in Int BY LimitsAssumption
  <2>. QED BY <1>3, <2>1
<1>. QED BY <1>1, <1>6, <1>7, <1>8 DEF Packed, x

LEMMA PackedNew ==
  ASSUME NEW sizes, NEW i \in Nat \ {0}
  PROVE  Packed(sizes, <<i>>, i)
<1> DEFINE c == <<i>>
<1>1. Len(c) = 1 /\ c[1] = i OBVIOUS
<1> HIDE DEF c
<1>2. i \in 1..i OBVIOUS
<1>3. Packed(sizes, c, i) BY <1>1, <1>2 DEF Packed
<1>. QED BY <1>3 DEF c

LEMMA PackedLater ==
  ASSUME NEW sizes, NEW c, NEW i \in Nat \ {0}, Packed(sizes, c, i - 1)
  PROVE  Packed(sizes, c, i)
<1>1. 1..(i - 1) \subseteq 1..i OBVIOUS
<1>. QED BY <1>1 DEF Packed

LEMMA ChunksFit ==
  ASSUME NEW n \in Nat, NEW sizes \in [1..n -> Nat]
  PROVE  /\ FlattenSeq(PromptChunks(sizes)) = Numbers(n)
         /\ \A k \in DOMAIN PromptChunks(sizes) :
               LET c == PromptChunks(sizes)[k]
               IN Len(c) > 1 => Weight(sizes, ToSet(c)) <= MaxPrompt
<1> DEFINE C == 1..n
           V == Piecewise(C)
           s == Numbers(n)
           opens == Overfull(sizes, n)
           AllPacked(ss, i) == \A k \in 1..Len(ss) : Packed(sizes, ss[k], i)
           cs == PromptChunks(sizes)
<1>1. s \in Seq(C) /\ Len(s) = n /\ \A i \in 1..n : s[i] = i BY NumbersType DEF Numbers
<1>2. DOMAIN sizes = 1..n OBVIOUS
<1>3. Divides(cs, s, C) BY <1>2, ChunksDivide
<1>4. PICK f : PieceRuns(f, s, C, opens) /\ f[n] = cs
  <2>1. \E f : ChunksRun(f, sizes, n) BY <1>2, ChunksDivide
  <2>. QED BY <2>1 DEF ChunksRun
<1>5. ASSUME NEW ss \in V, ss # <<>>
      PROVE  /\ Last(ss) \in Seq(C) /\ Last(ss) # <<>> /\ Last(ss) = ss[Len(ss)]
             /\ Front(ss) \in V /\ Len(Front(ss)) = Len(ss) - 1 /\ Len(ss) \in Nat \ {0}
             /\ \A k \in 1..(Len(ss) - 1) : Front(ss)[k] = ss[k]
  <2> DEFINE N == Seq(C) \ {<<>>}
  <2>1. ss \in Seq(N) BY DEF Piecewise
  <2> HIDE DEF N
  <2>2. Front(ss) \in Seq(N) /\ Last(ss) \in N BY <1>5, <2>1, FrontLast
  <2>3. Last(ss) = ss[Len(ss)] /\ Len(Front(ss)) = Len(ss) - 1 /\ Len(ss) \in Nat \ {0}
    BY <1>5, <2>1, FrontLast, LenProperties, EmptySeq DEF Last
  <2>4. \A k \in 1..(Len(ss) - 1) : Front(ss)[k] = ss[k]
    BY <1>5, <2>1, FrontLast DEF Front
  <2>. QED BY <2>2, <2>3, <2>4 DEF N, Piecewise
<1> HIDE DEF s, cs, V
<1> DEFINE B == {i \in 0..n : AllPacked(f[i], i)}
<1>6. 0 \in B
  <2>1. f[0] = <<>> BY <1>4 DEF PieceRuns
  <2>2. Len(<<>>) = 0 BY EmptySeq
  <2>3. AllPacked(f[0], 0) BY <2>1, <2>2
  <2> HIDE DEF AllPacked
  <2>. QED BY <2>3
<1>7. ASSUME NEW i \in 1..n, i - 1 \in B PROVE i \in B
  <2> DEFINE ss == f[i - 1]
             m == Len(ss)
  <2>1. i - 1 \in 0..n OBVIOUS
  <2>2. ss \in V /\ f[i] = PieceStep(s, opens, ss, i)
    BY <1>1, <1>4, <2>1 DEF PieceRuns, V
  <2>3. \A k \in 1..m : Packed(sizes, ss[k], i - 1) BY <1>7
  <2>4. i \in Nat \ {0} OBVIOUS
  <2> HIDE DEF ss
  <2>5. m \in Nat BY <2>2, LenProperties DEF V, Piecewise
  <2>6. \A k \in 1..m : Packed(sizes, ss[k], i) BY <2>3, <2>4, PackedLater
  <2>7. AllPacked(f[i], i)
    <3>1. CASE ss = <<>> \/ <<ss, i>> \in opens
      <4> DEFINE t == Append(ss, <<i>>)
      <4>1. f[i] = t BY <1>1, <2>2, <3>1 DEF PieceStep
      <4>2. Len(t) = m + 1 /\ t[m + 1] = <<i>> /\ \A k \in 1..m : t[k] = ss[k]
        <5>1. <<i>> \in Seq(C) \ {<<>>}
          <6>1. <<i>> \in Seq(C) /\ Len(<<i>>) = 1 OBVIOUS
          <6>. QED BY <6>1, EmptySeq
        <5> DEFINE N == Seq(C) \ {<<>>}
        <5>2. ss \in Seq(N) /\ <<i>> \in N BY <2>2, <5>1 DEF V, Piecewise
        <5> HIDE DEF N
        <5>. QED BY <5>2, AppendProperties
      <4> HIDE DEF t, m
      <4>3. Packed(sizes, t[m + 1], i) BY <2>4, <4>2, PackedNew
      <4>4. \A k \in 1..(m + 1) : k \in 1..m \/ k = m + 1 BY <2>5
      <4>. QED BY <2>6, <4>1, <4>2, <4>3, <4>4
    <3>2. CASE ss # <<>> /\ <<ss, i>> \notin opens
      <4> DEFINE c == Last(ss)
                 a == Front(ss)
                 x == Append(c, i)
                 t == Append(a, x)
      <4>1. f[i] = t BY <1>1, <2>2, <3>2 DEF PieceStep
      <4>2. /\ c \in Seq(C) /\ c # <<>> /\ c = ss[m] /\ a \in V /\ Len(a) = m - 1
            /\ m \in Nat \ {0} /\ \A k \in 1..(m - 1) : a[k] = ss[k]
        BY <1>5, <2>2, <3>2
      <4>3. ~ Size(sizes, c) + sizes[i] + 1 > MaxPrompt
        <5>1. <<ss, i>> \in V \X (1..n) BY <2>2
        <5> DEFINE p == <<ss, i>>
        <5>2. p \in Piecewise(1..n) \X (1..n) /\ p \notin Overfull(sizes, n)
          BY <3>2, <5>1 DEF V
        <5>3. ~ Size(sizes, Last(p[1])) + sizes[Numbers(n)[p[2]]] + 1 > MaxPrompt
          <6> HIDE DEF p
          <6>. QED BY <5>2 DEF Overfull
        <5>. QED BY <1>1, <5>3 DEF s
      <4>4. Packed(sizes, c, i - 1) BY <2>3, <4>2
      <4> HIDE DEF c, a
      <4>5. Packed(sizes, x, i) BY <4>2, <4>3, <4>4, PackedStep
      <4>6. Len(t) = m /\ t[m] = x /\ \A k \in 1..(m - 1) : t[k] = a[k]
        <5> DEFINE N == Seq(C) \ {<<>>}
        <5>1. a \in Seq(N) BY <4>2 DEF V, Piecewise
        <5>2. x \in Seq(C) /\ x # <<>>
          <6>1. i \in C OBVIOUS
          <6> HIDE DEF C
          <6>2. x \in Seq(C) /\ Len(x) = Len(c) + 1 /\ Len(c) \in Nat
            BY <4>2, <6>1, AppendProperties, LenProperties
          <6> HIDE DEF x
          <6>3. x = <<>> => Len(x) = 0 BY EmptySeq
          <6>. QED BY <6>2, <6>3
        <5>3. x \in N BY <5>2
        <5> HIDE DEF N, x
        <5>4. Len(t) = Len(a) + 1 /\ t[Len(a) + 1] = x /\ \A k \in 1..Len(a) : t[k] = a[k]
          BY <5>1, <5>3, AppendProperties
        <5> HIDE DEF t
        <5>5. Len(a) + 1 = m BY <4>2
        <5>. QED BY <4>2, <5>4, <5>5
      <4> HIDE DEF x, t
      <4>7. \A k \in 1..m : k \in 1..(m - 1) \/ k = m BY <4>2
      <4>. QED BY <2>6, <4>1, <4>2, <4>5, <4>6, <4>7
    <3>. QED BY <3>1, <3>2
  <2>8. i \in 0..n OBVIOUS
  <2> HIDE DEF AllPacked
  <2>. QED BY <2>7, <2>8
<1>8. \A i \in 0..n : i \in B
  <2> HIDE DEF B
  <2>. QED BY <1>6, <1>7, CountingUp
<1>9. AllPacked(cs, n)
  <2>1. n \in B BY <1>8
  <2>. QED BY <1>4, <2>1
<1>10. FlattenSeq(cs) = s /\ cs \in V BY <1>3 DEF Divides, V, Piecewise
<1>11. ASSUME NEW k \in DOMAIN cs, Len(cs[k]) > 1
       PROVE  Weight(sizes, ToSet(cs[k])) <= MaxPrompt
  <2> DEFINE c == cs[k]
             m == Len(c)
  <2>1. k \in 1..Len(cs) BY <1>10, <1>11, LenProperties DEF V, Piecewise
  <2>2. Packed(sizes, c, n) BY <1>9, <2>1
  <2>3. c \in Seq(C)
    <3> DEFINE N == Seq(C) \ {<<>>}
    <3>1. cs \in Seq(N) BY <1>10 DEF V, Piecewise
    <3> HIDE DEF N
    <3>2. cs[k] \in N BY <2>1, <3>1, ElementOfSeq
    <3>. QED BY <3>2 DEF N
  <2>4. Len(c) > 1 BY <1>11
  <2> HIDE DEF c
  <2>5. m \in Nat /\ \A i \in 1..m : c[i] \in C BY <2>3, LenProperties, ElementOfSeq
  <2>6. \A i, j \in 1..m : c[i] = c[j] => i = j
    <3>1. \A i, j \in 1..m : i < j => c[i] < c[j] BY <2>2 DEF Packed
    <3>2. \A i \in 1..m : c[i] \in Int BY <2>5
    <3> HIDE DEF C
    <3>3. ASSUME NEW i \in 1..m, NEW j \in 1..m, c[i] = c[j], i # j PROVE FALSE
      <4>1. i < j \/ j < i BY <2>5, <3>3
      <4>2. c[i] < c[j] \/ c[j] < c[i] BY <3>1, <4>1
      <4>. QED BY <3>2, <3>3, <4>2
    <3>. QED BY <3>3
  <2>7. Size(sizes, c) = Weight(sizes, ToSet(c)) BY <2>3, <2>6, SizeIsWeight
  <2>8. Size(sizes, c) <= MaxPrompt BY <2>2, <2>4 DEF Packed
  <2>. QED BY <2>7, <2>8 DEF c
<1>. QED BY <1>10, <1>11 DEF s, cs

-----------------------------------------------------------------------------
(* The fragments that a line is made of.                                   *)
Fitting(fs, a, b) ==
    /\ \A j \in a..b - 1 : /\ ~EndsSentence(fs[j].text)
                           /\ fs[j + 1].start - fs[j].end <= MaxGap
    /\ a < b => Length(Words(SubSeq(fs, a, b))) <= MaxChars
    /\ \A j \in a + 1..b : fs[j].end - fs[a].start <= MaxSpan
Piece(fs, l, a, b) ==
    /\ l = Line(Words(SubSeq(fs, a, b)), fs[a].start, fs[b].end)
    /\ Fitting(fs, a, b)

LEMMA LastOfConcat ==
  ASSUME NEW C, NEW s \in Seq(C), NEW t \in Seq(C), t # <<>>
  PROVE  s \o t \in Seq(C) /\ s \o t # <<>> /\ Last(s \o t) = Last(t)
<1> DEFINE m == Len(s)
           n == Len(t)
           x == s \o t
<1>1. m \in Nat /\ n \in Nat /\ n # 0 BY LenProperties, EmptySeq
<1>2. x \in Seq(C) /\ Len(x) = m + n /\ \A i \in 1..m + n : i > m => x[i] = t[i - m]
  BY ConcatProperties, LenProperties
<1> HIDE DEF x, m, n
<1>3. m + n \in 1..m + n /\ m + n > m /\ (m + n) - m = n BY <1>1
<1>4. x[m + n] = t[n] BY <1>2, <1>3
<1>5. x = <<>> => Len(x) = 0 BY EmptySeq
<1>. QED BY <1>1, <1>2, <1>4, <1>5 DEF Last, x, n

LEMMA RangeGrows ==
  ASSUME NEW fs \in Seq(Spoke), NEW a \in 1..Len(fs), NEW b \in a..Len(fs)
  PROVE  LET g == SubSeq(fs, a, b)
         IN /\ g \in Seq(Spoke) /\ Len(g) = b - a + 1
            /\ \A i \in 1..b - a + 1 : g[i] = fs[a + i - 1]
            /\ b < Len(fs) => SubSeq(fs, a, b + 1) = Append(g, fs[b + 1])
            /\ a < b => g = Append(SubSeq(fs, a, b - 1), fs[b])
            /\ a = b => Words(g) = fs[a].text
<1> DEFINE n == Len(fs)
<1>1. n \in Nat /\ a \in Int /\ b \in Int /\ a <= b /\ 1 <= a /\ b <= n BY LenProperties
<1>2. \A i \in 1..n : fs[i] \in Spoke BY ElementOfSeq
<1>3. ASSUME NEW e \in a..n
      PROVE  /\ SubSeq(fs, a, e) \in Seq(Spoke) /\ Len(SubSeq(fs, a, e)) = e - a + 1
             /\ \A i \in 1..e - a + 1 : SubSeq(fs, a, e)[i] = fs[a + i - 1]
  <2>1. e \in Int /\ a <= e /\ \A i \in a..e : fs[i] \in Spoke BY <1>1, <1>2
  <2>. QED BY <1>1, <2>1, SubSeqProperties
<1>4. ASSUME NEW e \in a..n, e + 1 <= n
      PROVE  SubSeq(fs, a, e + 1) = Append(SubSeq(fs, a, e), fs[e + 1])
  <2> DEFINE x == fs[e + 1]
             g == SubSeq(fs, a, e)
  <2>1. a \in 1..n /\ e + 1 \in a..n /\ (e + 1) - 1 = e /\ e + 1 \in 1..n BY <1>1, <1>4
  <2>2. SubSeq(fs, a, e + 1) = g \o <<x>> BY <2>1, SubSeqRecursiveSecond
  <2>3. g \in Seq(Spoke) /\ x \in Spoke BY <1>2, <1>3, <2>1
  <2> HIDE DEF g, x
  <2>4. Append(g, x) = g \o <<x>> BY <2>3, AppendMeans
  <2>. QED BY <2>2, <2>4 DEF g, x
<1>5. a < b => SubSeq(fs, a, b) = Append(SubSeq(fs, a, b - 1), fs[b])
  <2> SUFFICES ASSUME a < b PROVE SubSeq(fs, a, b) = Append(SubSeq(fs, a, b - 1), fs[b])
    OBVIOUS
  <2>1. b - 1 \in a..n /\ (b - 1) + 1 = b /\ b <= n BY <1>1
  <2>. QED BY <1>4, <2>1
<1>6. a = b => Words(SubSeq(fs, a, b)) = fs[a].text
  <2> SUFFICES ASSUME a = b PROVE Words(SubSeq(fs, a, a)) = fs[a].text OBVIOUS
  <2> DEFINE x == fs[a]
             g == SubSeq(fs, a, a)
  <2>1. a - 1 < a /\ a \in a..n BY <1>1
  <2>2. g = SubSeq(fs, a, a - 1) \o <<x>> BY <2>1, SubSeqRecursiveSecond
  <2>3. SubSeq(fs, a, a - 1) = <<>> BY <1>1, <2>1, SubSeqEmpty
  <2>4. x \in Spoke BY <1>1, <1>2
  <2> HIDE DEF g, x
  <2>5. Append(<<>>, x) = <<>> \o <<x>> /\ <<>> \in Seq(Spoke)
    BY <2>4, AppendMeans, WordsNothing
  <2>6. Words(g) = <<>> \o x.text BY <2>2, <2>3, <2>4, <2>5, WordsAppend, WordsNothing
  <2>7. x.text \in Seq(Clauses) BY <2>4 DEF Spoke
  <2>. QED BY <2>6, <2>7, ConcatEmptySeq DEF g, x
<1>7. b \in a..n /\ (b < n => b + 1 <= n) BY <1>1
<1>8. /\ SubSeq(fs, a, b) \in Seq(Spoke) /\ Len(SubSeq(fs, a, b)) = b - a + 1
      /\ \A i \in 1..b - a + 1 : SubSeq(fs, a, b)[i] = fs[a + i - 1]
  BY <1>3, <1>7
<1>9. b < n => SubSeq(fs, a, b + 1) = Append(SubSeq(fs, a, b), fs[b + 1]) BY <1>4, <1>7
<1>. QED BY <1>5, <1>6, <1>8, <1>9

LEMMA RangeWords ==
  ASSUME NEW fs \in Seq(Spoke), NEW a \in 1..Len(fs), NEW b \in a..Len(fs)
  PROVE  LET w == Words(SubSeq(fs, a, b))
         IN /\ w \in Seq(Clauses) /\ w # <<>> /\ Last(w) = Last(fs[b].text)
            /\ b < Len(fs) => Words(SubSeq(fs, a, b + 1)) = w \o fs[b + 1].text
<1> DEFINE n == Len(fs)
           g == SubSeq(fs, a, b)
           y == fs[b + 1]
           w == Words(g)
<1>1. n \in Nat /\ a \in Int /\ b \in Int /\ a <= b /\ 1 <= a /\ b <= n BY LenProperties
<1>2. \A i \in 1..n : /\ fs[i] \in Spoke /\ fs[i].text \in Seq(Clauses)
                      /\ fs[i].text # <<>>
  <2>1. \A i \in 1..n : fs[i] \in Spoke BY ElementOfSeq
  <2>. QED BY <2>1 DEF Spoke
<1>3. /\ g \in Seq(Spoke)
      /\ b < n => SubSeq(fs, a, b + 1) = Append(g, y)
      /\ a = b => Words(g) = fs[a].text
  BY RangeGrows
<1>4. w \in Seq(Clauses)
  <2>1. a \in 1..n BY <1>1
  <2>2. fs[a] \in Spoke BY <1>2, <2>1
  <2> HIDE DEF g
  <2>. QED BY <1>3, <2>2, WordsAppend
<1>5. b < n => Words(SubSeq(fs, a, b + 1)) = w \o y.text
  <2> SUFFICES ASSUME b < n PROVE Words(SubSeq(fs, a, b + 1)) = w \o y.text OBVIOUS
  <2>1. b + 1 \in 1..n BY <1>1
  <2>2. y \in Spoke /\ SubSeq(fs, a, b + 1) = Append(g, y) BY <1>2, <1>3, <2>1
  <2> HIDE DEF g, y
  <2>3. Words(Append(g, y)) = Words(g) \o y.text BY <1>3, <2>2, WordsAppend
  <2>. QED BY <2>2, <2>3
<1>6. w # <<>> /\ Last(w) = Last(fs[b].text)
  <2>1. CASE a = b BY <1>1, <1>2, <1>3, <2>1
  <2>2. CASE a < b
    <3> DEFINE p == SubSeq(fs, a, b - 1)
               x == fs[b]
    <3>1. g = Append(p, x) BY <2>2, RangeGrows
    <3>2. b - 1 \in a..n /\ b \in 1..n BY <1>1, <2>2
    <3>3. p \in Seq(Spoke) BY <3>2, RangeGrows
    <3>4. x \in Spoke /\ x.text \in Seq(Clauses) /\ x.text # <<>> BY <1>2, <3>2
    <3> HIDE DEF g, p, x
    <3>5. w = Words(p) \o x.text /\ Words(p) \in Seq(Clauses)
      BY <3>1, <3>3, <3>4, WordsAppend
    <3> DEFINE s == Words(p)
               t == x.text
    <3>6. s \in Seq(Clauses) /\ t \in Seq(Clauses) /\ t # <<>> /\ w = s \o t BY <3>4, <3>5
    <3> HIDE DEF s, t, w
    <3>7. w # <<>> /\ Last(w) = Last(t) BY <3>6, LastOfConcat
    <3>. QED BY <3>7 DEF t, x
  <2>. QED BY <1>1, <2>1, <2>2
<1>. QED BY <1>4, <1>5, <1>6

(* A fragment joins a line exactly if the line then still fits.            *)
LEMMA PieceJoins ==
  ASSUME NEW fs \in Seq(Sound), NEW a \in 1..Len(fs), NEW b \in a..Len(fs), b < Len(fs),
         NEW l \in Spoke, Piece(fs, l, a, b)
  PROVE  LET f == fs[b + 1]
         IN /\ Closes(l, f) => ~Fitting(fs, a, b + 1)
            /\ ~Closes(l, f) => Piece(fs, Line(l.text \o f.text, l.start, f.end), a, b + 1)
<1> DEFINE n == Len(fs)
           f == fs[b + 1]
           w == Words(SubSeq(fs, a, b))
           v == Words(SubSeq(fs, a, b + 1))
           lw == Length(l.text)
           lf == Length(f.text)
<1>1. /\ n \in Nat /\ a \in Int /\ b \in Int /\ a <= b /\ 1 <= a /\ b <= n /\ b + 1 <= n
      /\ fs \in Seq(Spoke)
  BY FragmentsAreLines
<1>2. \A i \in 1..n : /\ fs[i].text \in Seq(Clauses) /\ fs[i].start \in Int
                      /\ fs[i].end \in Int
  BY FragmentsAreLines DEF Spoke
<1>3. /\ w \in Seq(Clauses) /\ w # <<>> /\ Last(w) = Last(fs[b].text)
      /\ v = w \o f.text
  BY <1>1, RangeWords
<1>4. l.text = w /\ l.start = fs[a].start /\ l.end = fs[b].end BY DEF Piece, Line
<1>5. f.text \in Seq(Clauses) /\ f.start \in Int /\ f.end \in Int BY <1>1, <1>2
<1>6. /\ fs[b].end \in Int /\ fs[a].start \in Int BY <1>1, <1>2
<1> HIDE DEF w, v
<1>7. Length(v) = lw + lf
  <2> DEFINE t == f.text
  <2>1. t \in Seq(Clauses) /\ v = w \o t BY <1>3, <1>5
  <2> HIDE DEF t
  <2>2. Length(v) = Length(w) + Length(t) BY <1>3, <2>1, LengthConcat
  <2>. QED BY <1>4, <2>2 DEF t
<1>8. EndsSentence(l.text) <=> EndsSentence(fs[b].text) BY <1>3, <1>4 DEF EndsSentence
<1> HIDE DEF f, lw, lf
<1>9. /\ \A j \in a..b : j \in a..b - 1 \/ j = b
      /\ \A j \in a + 1..b + 1 : j \in a + 1..b \/ j = b + 1
      /\ b \in a..b /\ b + 1 \in a + 1..b + 1 /\ a < b + 1 /\ (b + 1) - 1 = b
  BY <1>1
<1>10. Closes(l, f) <=>
          \/ EndsSentence(fs[b].text)
          \/ f.start - fs[b].end > MaxGap
          \/ Length(v) > MaxChars
          \/ f.end - fs[a].start > MaxSpan
  BY <1>4, <1>7, <1>8 DEF Closes, lw, lf
<1>11. MaxGap \in Int /\ MaxChars \in Int /\ MaxSpan \in Int /\ Length(v) \in Int
  <2>1. v \in Seq(Clauses) BY <1>3, <1>5, ConcatProperties
  <2>2. Length(v) \in Nat BY <2>1, LengthConcat
  <2>. QED BY <2>2, LimitsAssumption
<1>12. Fitting(fs, a, b) BY DEF Piece
<1>13. Fitting(fs, a, b + 1) <=> ~Closes(l, f)
  <2>1. ASSUME Closes(l, f), Fitting(fs, a, b + 1) PROVE FALSE
    <3>1. ~EndsSentence(fs[b].text) /\ f.start - fs[b].end <= MaxGap
      BY <1>9, <2>1 DEF Fitting, f
    <3>2. Length(v) <= MaxChars /\ f.end - fs[a].start <= MaxSpan
      BY <1>9, <2>1 DEF Fitting, f, v
    <3>. QED BY <1>5, <1>6, <1>10, <1>11, <2>1, <3>1, <3>2
  <2>2. ASSUME ~Closes(l, f) PROVE Fitting(fs, a, b + 1)
    <3>1. /\ ~EndsSentence(fs[b].text) /\ f.start - fs[b].end <= MaxGap
          /\ Length(v) <= MaxChars /\ f.end - fs[a].start <= MaxSpan
      BY <1>5, <1>6, <1>10, <1>11, <2>2
    <3>2. \A j \in a..b : /\ ~EndsSentence(fs[j].text)
                          /\ fs[j + 1].start - fs[j].end <= MaxGap
      BY <1>9, <1>12, <3>1 DEF Fitting, f
    <3>3. \A j \in a + 1..b + 1 : fs[j].end - fs[a].start <= MaxSpan
      BY <1>9, <1>12, <3>1 DEF Fitting, f
    <3>. QED BY <1>9, <3>1, <3>2, <3>3 DEF Fitting, v
  <2>. QED BY <2>1, <2>2
<1>14. Line(l.text \o f.text, l.start, f.end) = Line(v, fs[a].start, f.end)
  BY <1>3, <1>4
<1>. QED BY <1>13, <1>14 DEF Piece, f, v

LEMMA PieceNew ==
  ASSUME NEW fs \in Seq(Sound), NEW i \in 1..Len(fs)
  PROVE  Piece(fs, fs[i], i, i)
<1> DEFINE x == fs[i]
<1>1. Len(fs) \in Nat /\ i \in Int /\ i \in i..Len(fs) /\ fs \in Seq(Spoke) /\ x \in Spoke
  BY FragmentsAreLines
<1>2. Words(SubSeq(fs, i, i)) = x.text BY <1>1, RangeGrows
<1>3. x = [text |-> x.text, start |-> x.start, end |-> x.end] BY <1>1 DEF Spoke
<1>4. i..i - 1 = {} /\ i + 1..i = {} /\ ~ i < i BY <1>1
<1>5. Fitting(fs, i, i) BY <1>4 DEF Fitting
<1>. QED BY <1>2, <1>3, <1>5 DEF Piece, Line

-----------------------------------------------------------------------------
(* Where the lines of the first i fragments begin.                         *)
Cutting(fs, ls, c, i) ==
    /\ c \in Seq(1..Len(fs)) /\ Len(c) = Len(ls)
    /\ \A k, l \in 1..Len(c) : k < l => c[k] < c[l]
    /\ \A k \in 1..Len(c) : c[k] <= i
    /\ i > 0 => Len(c) > 0 /\ c[1] = 1
    /\ \A k \in 1..Len(ls) - 1 :
          Piece(fs, ls[k], c[k], c[k + 1] - 1) /\ Closes(ls[k], fs[c[k + 1]])
    /\ Len(ls) > 0 => Piece(fs, ls[Len(ls)], c[Len(ls)], i)

LEMMA CuttingOpens ==
  ASSUME NEW fs \in Seq(Sound), NEW ls \in Seq(Spoke), NEW i \in 1..Len(fs), NEW c,
         Cutting(fs, ls, c, i - 1), ls = <<>> \/ Closes(Last(ls), fs[i])
  PROVE  Cutting(fs, Append(ls, fs[i]), Append(c, i), i)
<1> DEFINE n == Len(fs)
           m == Len(ls)
           x == fs[i]
           ks == Append(ls, x)
           d == Append(c, i)
           S == 1..n
<1>1. n \in Nat /\ i \in Int /\ 1 <= i /\ i <= n /\ x \in Spoke BY FragmentsAreLines
<1>2. /\ c \in Seq(S) /\ Len(c) = m
      /\ \A k, l \in 1..m : k < l => c[k] < c[l]
      /\ \A k \in 1..m : c[k] <= i - 1
      /\ i - 1 > 0 => m > 0 /\ c[1] = 1
      /\ \A k \in 1..m - 1 :
            Piece(fs, ls[k], c[k], c[k + 1] - 1) /\ Closes(ls[k], fs[c[k + 1]])
      /\ m > 0 => Piece(fs, ls[m], c[m], i - 1)
  BY DEF Cutting
<1>3. m \in Nat /\ (m > 0 => Closes(ls[m], x))
  <2>1. m \in Nat /\ (ls = <<>> => m = 0) BY LenProperties, EmptySeq
  <2>. QED BY <2>1 DEF Last
<1>4. i \in S BY <1>1
<1>5. /\ ks \in Seq(Spoke) /\ Len(ks) = m + 1 /\ ks[m + 1] = x
      /\ \A k \in 1..m : ks[k] = ls[k]
  BY <1>1, AppendProperties
<1>6. /\ d \in Seq(S) /\ Len(d) = m + 1 /\ d[m + 1] = i
      /\ \A k \in 1..m : d[k] = c[k]
  <2> HIDE DEF S
  <2>. QED BY <1>2, <1>4, AppendProperties
<1>7. \A k \in 1..m : c[k] \in Int
  <2>1. \A k \in 1..m : c[k] \in S BY <1>2, ElementOfSeq
  <2>. QED BY <2>1
<1>8. Piece(fs, x, i, i) BY PieceNew
<1> HIDE DEF S, ks, d, x, m, n
<1>9. \A k \in 1..m + 1 : k \in 1..m \/ k = m + 1 BY <1>3
<1>10. ASSUME NEW k \in 1..m + 1, NEW l \in 1..m + 1, k < l PROVE d[k] < d[l]
  <2>1. k \in 1..m BY <1>3, <1>10
  <2>2. CASE l \in 1..m BY <1>2, <1>6, <1>10, <2>1, <2>2
  <2>3. CASE l = m + 1
    <3>1. d[k] = c[k] /\ c[k] <= i - 1 /\ c[k] \in Int /\ d[l] = i
      BY <1>2, <1>6, <1>7, <2>1, <2>3
    <3>. QED BY <1>1, <3>1
  <2>. QED BY <1>9, <2>2, <2>3
<1>11. ASSUME NEW k \in 1..m + 1 PROVE d[k] <= i
  <2>1. CASE k \in 1..m
    <3>1. d[k] = c[k] /\ c[k] <= i - 1 /\ c[k] \in Int BY <1>2, <1>6, <1>7, <2>1
    <3>. QED BY <1>1, <3>1
  <2>2. CASE k = m + 1 BY <1>1, <1>6, <2>2
  <2>. QED BY <1>9, <2>1, <2>2
<1>12. m + 1 > 0 /\ d[1] = 1
  <2>1. CASE i - 1 > 0
    <3>1. 1 \in 1..m /\ c[1] = 1 BY <1>2, <1>3, <2>1
    <3>. QED BY <1>3, <1>6, <3>1
  <2>2. CASE ~ i - 1 > 0
    <3>1. i = 1 BY <1>1, <2>2
    <3>2. m = 0
      <4>1. ASSUME m > 0 PROVE FALSE
        <5>1. 1 \in 1..m BY <1>3, <4>1
        <5>2. c[1] \in S /\ c[1] <= i - 1 BY <1>2, <5>1, ElementOfSeq
        <5>. QED BY <3>1, <5>2 DEF S
      <4>. QED BY <1>3, <4>1
    <3>. QED BY <1>6, <3>1, <3>2
  <2>. QED BY <2>1, <2>2
<1>13. ASSUME NEW k \in 1..m
       PROVE  Piece(fs, ks[k], d[k], d[k + 1] - 1) /\ Closes(ks[k], fs[d[k + 1]])
  <2>1. ks[k] = ls[k] /\ d[k] = c[k] BY <1>5, <1>6
  <2>2. CASE k \in 1..m - 1
    <3>1. k + 1 \in 1..m BY <1>3, <2>2
    <3>2. d[k + 1] = c[k + 1] BY <1>6, <3>1
    <3>. QED BY <1>2, <2>1, <2>2, <3>2
  <2>3. CASE k = m
    <3>1. d[k + 1] = i BY <1>6, <2>3
    <3>2. m > 0 BY <1>3, <2>3
    <3>. QED BY <1>2, <1>3, <2>1, <2>3, <3>1, <3>2 DEF x
  <2>4. k \in 1..m - 1 \/ k = m BY <1>3
  <2>. QED BY <2>2, <2>3, <2>4
<1>14. (m + 1) - 1 = m BY <1>3
<1>15. Cutting(fs, ks, d, i)
  BY <1>5, <1>6, <1>8, <1>10, <1>11, <1>12, <1>13, <1>14 DEF Cutting, S, n
<1>. QED BY <1>15 DEF ks, d, x

LEMMA CuttingJoins ==
  ASSUME NEW fs \in Seq(Sound), NEW ls \in Seq(Spoke), NEW i \in 1..Len(fs), NEW c,
         Cutting(fs, ls, c, i - 1), ls # <<>>, ~Closes(Last(ls), fs[i])
  PROVE  Cutting(fs, Append(Front(ls), Line(Last(ls).text \o fs[i].text,
                                            Last(ls).start, fs[i].end)), c, i)
<1> DEFINE n == Len(fs)
           m == Len(ls)
           l == Last(ls)
           f == fs[i]
           y == Line(l.text \o f.text, l.start, f.end)
           ks == Append(Front(ls), y)
           S == 1..n
<1>1. n \in Nat /\ i \in Int /\ 1 <= i /\ i <= n BY FragmentsAreLines
<1>2. /\ c \in Seq(S) /\ Len(c) = m
      /\ \A k, j \in 1..m : k < j => c[k] < c[j]
      /\ \A k \in 1..m : c[k] <= i - 1
      /\ i - 1 > 0 => m > 0 /\ c[1] = 1
      /\ \A k \in 1..m - 1 :
            Piece(fs, ls[k], c[k], c[k + 1] - 1) /\ Closes(ls[k], fs[c[k + 1]])
      /\ m > 0 => Piece(fs, ls[m], c[m], i - 1)
  BY DEF Cutting
<1>3. /\ m \in Nat \ {0} /\ l = ls[m] /\ l \in Spoke /\ Front(ls) \in Seq(Spoke)
      /\ Len(Front(ls)) = m - 1 /\ \A k \in 1..m - 1 : Front(ls)[k] = ls[k]
  <2>1. m \in Nat \ {0} /\ l \in Spoke /\ Front(ls) \in Seq(Spoke) /\ Len(Front(ls)) = m - 1
    BY FrontLast
  <2>2. l = ls[m] BY DEF Last
  <2>3. \A k \in 1..m - 1 : Front(ls)[k] = ls[k] BY <2>1 DEF Front
  <2>. QED BY <2>1, <2>2, <2>3
<1>4. c[m] \in S /\ c[m] <= i - 1 /\ m \in 1..m
  <2>1. m \in 1..m BY <1>3
  <2> HIDE DEF S
  <2>. QED BY <1>2, <2>1, ElementOfSeq
<1>5. Piece(fs, y, c[m], i)
  <2> DEFINE a == c[m]
             b == i - 1
  <2>1. a \in 1..n /\ b \in a..n /\ b < n /\ b + 1 = i BY <1>1, <1>4
  <2>2. Piece(fs, l, a, b) BY <1>2, <1>3
  <2>3. ~Closes(l, fs[b + 1]) BY <2>1
  <2> HIDE DEF a, b, l
  <2>4. Piece(fs, Line(l.text \o fs[b + 1].text, l.start, fs[b + 1].end), a, b + 1)
    BY <1>3, <2>1, <2>2, <2>3, PieceJoins
  <2>. QED BY <2>1, <2>4 DEF a
<1>6. Len(ks) = m /\ ks[m] = y /\ \A k \in 1..m - 1 : ks[k] = ls[k]
  <2> DEFINE p == Front(ls)
             T == Spoke \cup {y}
  <2>1. p \in Seq(T) /\ y \in T
    <3>1. p = [k \in 1..m - 1 |-> p[k]] /\ \A k \in 1..m - 1 : p[k] \in Spoke
      BY <1>3, LenProperties, ElementOfSeq
    <3>2. p \in [1..m - 1 -> T] /\ m - 1 \in Nat BY <1>3, <3>1
    <3>3. y \in T OBVIOUS
    <3> HIDE DEF p, T, y
    <3>. QED BY <3>2, <3>3, SequenceOf
  <2>2. Len(p) = m - 1 BY <1>3
  <2> HIDE DEF p, T, y
  <2>3. /\ Len(Append(p, y)) = Len(p) + 1 /\ Append(p, y)[Len(p) + 1] = y
        /\ \A k \in 1..Len(p) : Append(p, y)[k] = p[k]
    BY <2>1, AppendProperties
  <2>4. (m - 1) + 1 = m BY <1>3
  <2>. QED BY <1>3, <2>2, <2>3, <2>4 DEF p
<1>7. \A k \in 1..m : c[k] \in Int
  <2>1. \A k \in 1..m : c[k] \in S
    <3> HIDE DEF S
    <3>. QED BY <1>2, ElementOfSeq
  <2>. QED BY <2>1
<1> HIDE DEF ks, y, l, f, S, m
<1>8. \A k \in 1..m : c[k] <= i
  <2>1. \A k \in 1..m : c[k] <= i - 1 /\ c[k] \in Int BY <1>2, <1>7
  <2>. QED BY <1>1, <2>1
<1>9. m > 0 BY <1>3
<1>10. c[1] = 1
  <2>1. CASE i - 1 > 0 BY <1>2, <2>1
  <2>2. CASE ~ i - 1 > 0
    <3>1. i - 1 = 0 BY <1>1, <2>2
    <3>. QED BY <1>4, <3>1 DEF S
  <2>. QED BY <2>1, <2>2
<1>11. \A k \in 1..m - 1 :
          Piece(fs, ks[k], c[k], c[k + 1] - 1) /\ Closes(ks[k], fs[c[k + 1]])
  BY <1>2, <1>6
<1>12. Cutting(fs, ks, c, i)
  BY <1>2, <1>5, <1>6, <1>8, <1>9, <1>10, <1>11 DEF Cutting, S, n
<1>. QED BY <1>12 DEF ks, y, l, f

LEMMA MergeCuts ==
  ASSUME NEW fs \in Seq(Sound)
  PROVE  \E c : Cutting(fs, MergeTimed(fs), c, Len(fs))
<1> DEFINE n == Len(fs)
<1>1. n \in Nat BY FragmentsAreLines
<1>2. PICK f : MergeRuns(f, fs) BY MergeHasRuns
<1>3. /\ f \in [0..n -> Seq(Spoke)] /\ f[0] = <<>> /\ f[n] = MergeTimed(fs)
      /\ \A i \in 1..n : f[i] = JoinLine(f[i - 1], fs[i], Closes(Last(f[i - 1]), fs[i]))
  BY <1>2 DEF MergeRuns
<1> DEFINE B == {i \in 0..n : \E c : Cutting(fs, f[i], c, i)}
<1>4. 0 \in B
  <2> DEFINE e == <<>>
  <2>1. e \in Seq(1..n) /\ Len(e) = 0 BY EmptySeq
  <2>2. 1..0 = {} /\ 1..0 - 1 = {} /\ ~ 0 > 0 OBVIOUS
  <2>3. f[0] = e BY <1>3
  <2> HIDE DEF e
  <2>4. Cutting(fs, f[0], e, 0) BY <2>1, <2>2, <2>3 DEF Cutting
  <2>5. 0 \in 0..n BY <1>1
  <2>. QED BY <2>4, <2>5
<1>5. ASSUME NEW i \in 1..n, i - 1 \in B PROVE i \in B
  <2> DEFINE ls == f[i - 1]
  <2>1. i - 1 \in 0..n /\ i \in 0..n BY <1>1
  <2>2. ls \in Seq(Spoke) /\ f[i] = JoinLine(ls, fs[i], Closes(Last(ls), fs[i]))
    BY <1>3, <2>1
  <2>3. PICK c : Cutting(fs, ls, c, i - 1) BY <1>5
  <2> HIDE DEF ls
  <2>4. CASE ls = <<>> \/ Closes(Last(ls), fs[i])
    <3>1. Cutting(fs, Append(ls, fs[i]), Append(c, i), i) BY <2>2, <2>3, <2>4, CuttingOpens
    <3>2. f[i] = Append(ls, fs[i]) BY <2>2, <2>4 DEF JoinLine
    <3>. QED BY <2>1, <3>1, <3>2
  <2>5. CASE ls # <<>> /\ ~Closes(Last(ls), fs[i])
    <3> DEFINE ks == Append(Front(ls), Line(Last(ls).text \o fs[i].text,
                                            Last(ls).start, fs[i].end))
    <3>1. Cutting(fs, ks, c, i) BY <2>2, <2>3, <2>5, CuttingJoins
    <3>2. f[i] = ks BY <2>2, <2>5 DEF JoinLine
    <3>. QED BY <2>1, <3>1, <3>2
  <2>. QED BY <2>4, <2>5
<1> HIDE DEF B
<1>6. \A i \in 0..n : i \in B BY <1>1, <1>4, <1>5, CountingUp
<1>7. n \in 0..n BY <1>1
<1>. QED BY <1>3, <1>6, <1>7 DEF B

-----------------------------------------------------------------------------
(* The lines that _merge_timed_fragments joins.                            *)
Fits(g) ==
    /\ \A i \in 1..Len(g) - 1 :
          /\ ~EndsSentence(g[i].text)
          /\ g[i + 1].start - g[i].end <= MaxGap
    /\ Len(g) > 1 => Length(Words(g)) <= MaxChars
    /\ \A i \in 2..Len(g) : g[i].end - g[1].start <= MaxSpan

GroupedBy(fs, ls, cuts) ==
    LET group(k) == SubSeq(fs, cuts[k], cuts[k + 1] - 1)
    IN /\ Len(ls) = Len(cuts) - 1
       /\ \A k \in DOMAIN ls :
             /\ ls[k] = Line(Words(group(k)), group(k)[1].start, Last(group(k)).end)
             /\ Fits(group(k))
             /\ k < Len(ls) => ~Fits(Append(group(k), group(k + 1)[1]))

LEMMA FitsIsFitting ==
  ASSUME NEW fs \in Seq(Spoke), NEW a \in 1..Len(fs), NEW b \in a..Len(fs)
  PROVE  Fits(SubSeq(fs, a, b)) <=> Fitting(fs, a, b)
<1> DEFINE n == Len(fs)
           g == SubSeq(fs, a, b)
           m == b - a + 1
<1>1. n \in Nat /\ a \in Int /\ b \in Int /\ a <= b /\ 1 <= a /\ b <= n BY LenProperties
<1>2. Len(g) = m /\ \A i \in 1..m : g[i] = fs[a + i - 1] BY RangeGrows
<1> HIDE DEF g
<1>3. m \in Nat \ {0} /\ (m > 1 <=> a < b) BY <1>1
<1>4. \A i \in 1..m - 1 : /\ i \in 1..m /\ i + 1 \in 1..m /\ a + i - 1 \in a..b - 1
                          /\ a + (i + 1) - 1 = (a + i - 1) + 1
  BY <1>1
<1>5. \A j \in a..b - 1 : j - a + 1 \in 1..m - 1 /\ a + (j - a + 1) - 1 = j BY <1>1
<1>6. \A i \in 2..m : i \in 1..m /\ a + i - 1 \in a + 1..b BY <1>1
<1>7. \A j \in a + 1..b : j - a + 1 \in 2..m /\ a + (j - a + 1) - 1 = j BY <1>1
<1>8. g[1] = fs[a]
  <2>1. 1 \in 1..m /\ a + 1 - 1 = a BY <1>1, <1>3
  <2>. QED BY <1>2, <2>1
<1> HIDE DEF m
<1> DEFINE Next2(i) == /\ ~EndsSentence(g[i].text)
                       /\ g[i + 1].start - g[i].end <= MaxGap
           Next3(j) == /\ ~EndsSentence(fs[j].text)
                       /\ fs[j + 1].start - fs[j].end <= MaxGap
<1>9. \A i \in 1..m - 1 : Next2(i) <=> Next3(a + i - 1) BY <1>2, <1>4
<1>10. (\A i \in 1..m - 1 : Next2(i)) <=> (\A j \in a..b - 1 : Next3(j))
  <2> HIDE DEF Next2, Next3
  <2>1. ASSUME \A i \in 1..m - 1 : Next2(i), NEW j \in a..b - 1 PROVE Next3(j)
    <3> DEFINE i == j - a + 1
    <3>1. i \in 1..m - 1 /\ a + i - 1 = j BY <1>5
    <3> HIDE DEF i
    <3>2. Next2(i) /\ (Next2(i) <=> Next3(a + i - 1)) BY <1>9, <2>1, <3>1
    <3>. QED BY <3>1, <3>2
  <2>2. ASSUME \A j \in a..b - 1 : Next3(j), NEW i \in 1..m - 1 PROVE Next2(i)
    BY <1>4, <1>9, <2>2
  <2>. QED BY <2>1, <2>2
<1>11. (\A i \in 2..m : g[i].end - g[1].start <= MaxSpan)
          <=> (\A j \in a + 1..b : fs[j].end - fs[a].start <= MaxSpan)
  <2>1. ASSUME \A i \in 2..m : g[i].end - g[1].start <= MaxSpan, NEW j \in a + 1..b
        PROVE  fs[j].end - fs[a].start <= MaxSpan
    <3> DEFINE i == j - a + 1
    <3>1. i \in 2..m /\ a + i - 1 = j BY <1>7
    <3> HIDE DEF i
    <3>2. i \in 1..m BY <1>6, <3>1
    <3>3. g[i] = fs[j] BY <1>2, <3>1, <3>2
    <3>. QED BY <1>8, <2>1, <3>1, <3>3
  <2>2. ASSUME \A j \in a + 1..b : fs[j].end - fs[a].start <= MaxSpan, NEW i \in 2..m
        PROVE  g[i].end - g[1].start <= MaxSpan
    <3> DEFINE j == a + i - 1
    <3>1. i \in 1..m /\ j \in a + 1..b BY <1>6
    <3>2. g[i] = fs[j] BY <1>2, <3>1
    <3> HIDE DEF j
    <3>. QED BY <1>8, <2>2, <3>1, <3>2
  <2>. QED BY <2>1, <2>2
<1>. QED BY <1>2, <1>3, <1>10, <1>11 DEF Fits, Fitting, g

LEMMA CutsGroup ==
  ASSUME NEW fs \in Seq(Sound), fs # <<>>, NEW ls \in Seq(Spoke), NEW c,
         Cutting(fs, ls, c, Len(fs))
  PROVE  Grouped(fs, ls)
<1> DEFINE n == Len(fs)
           m == Len(ls)
           starts == {c[k] : k \in 2..m}
           T == starts \cup {1, n + 1}
           x == Append(c, n + 1)
           group(k) == SubSeq(fs, x[k], x[k + 1] - 1)
<1>1. n \in Nat \ {0} /\ m \in Nat /\ fs \in Seq(Spoke)
  BY FragmentsAreLines, LenProperties, EmptySeq
<1>2. /\ c \in Seq(1..n) /\ Len(c) = m
      /\ \A k, l \in 1..m : k < l => c[k] < c[l]
      /\ m > 0 /\ c[1] = 1
      /\ \A k \in 1..m - 1 :
            Piece(fs, ls[k], c[k], c[k + 1] - 1) /\ Closes(ls[k], fs[c[k + 1]])
      /\ Piece(fs, ls[m], c[m], n)
  BY <1>1 DEF Cutting
<1>3. \A k \in 1..m : c[k] \in 1..n
  <2> DEFINE S == 1..n
  <2>1. c \in Seq(S) BY <1>2
  <2> HIDE DEF S
  <2>2. \A k \in 1..m : c[k] \in S BY <1>2, <2>1, ElementOfSeq
  <2>. QED BY <2>2 DEF S
<1>4. /\ Len(x) = m + 1 /\ x \in Seq(1..n + 1) /\ x[m + 1] = n + 1
      /\ \A k \in 1..m : x[k] = c[k]
  <2> DEFINE S == 1..n + 1
             e == n + 1
  <2>1. c \in Seq(S)
    <3>1. c = [k \in 1..m |-> c[k]] BY <1>2, LenProperties
    <3>2. \A k \in 1..m : c[k] \in S BY <1>1, <1>3
    <3> HIDE DEF S, m
    <3>3. c \in [1..m -> S] BY <3>1, <3>2
    <3>. QED BY <1>1, <3>3, SequenceOf
  <2>2. e \in S BY <1>1
  <2> HIDE DEF S, e
  <2>3. /\ Append(c, e) \in Seq(S) /\ Len(Append(c, e)) = Len(c) + 1
        /\ Append(c, e)[Len(c) + 1] = e
        /\ \A k \in 1..Len(c) : Append(c, e)[k] = c[k]
    BY <2>1, <2>2, AppendProperties
  <2>. QED BY <1>2, <2>3 DEF e, S
<1> HIDE DEF x, m, n
<1>5. \A k \in 1..m + 1 : k \in 1..m \/ k = m + 1 BY <1>1
<1>6. ASSUME NEW k \in 1..m + 1, NEW l \in 1..m + 1, k < l PROVE x[k] < x[l]
  <2>1. k \in 1..m BY <1>1, <1>6
  <2>2. CASE l \in 1..m BY <1>2, <1>4, <1>6, <2>1, <2>2
  <2>3. CASE l = m + 1
    <3>1. x[k] \in 1..n /\ x[l] = n + 1 BY <1>3, <1>4, <2>1, <2>3
    <3>. QED BY <1>1, <3>1
  <2>. QED BY <1>5, <2>2, <2>3
<1>7. \A k \in 1..m : k = 1 \/ k \in 2..m BY <1>1
<1>8. starts \in SUBSET (2..n)
  <2> SUFFICES ASSUME NEW k \in 2..m PROVE c[k] \in 2..n OBVIOUS
  <2>1. k \in 1..m /\ 1 \in 1..m /\ 1 < k BY <1>1
  <2>2. c[k] \in 1..n /\ c[1] < c[k] BY <1>2, <1>3, <2>1
  <2>. QED BY <1>1, <1>2, <2>2
<1>9. x = Ascending(T) /\ Cardinality(T) = m + 1
  <2>1. T \in SUBSET Int /\ m + 1 \in Nat BY <1>1, <1>8
  <2>2. ASSUME NEW k \in 1..m + 1 PROVE x[k] \in T
    <3>1. CASE k = m + 1 BY <1>4, <3>1
    <3>2. CASE k \in 1..m
      <4>1. CASE k = 1 BY <1>2, <1>4, <3>2, <4>1
      <4>2. CASE k \in 2..m BY <1>4, <3>2, <4>2
      <4>. QED BY <1>7, <3>2, <4>1, <4>2
    <3>. QED BY <1>5, <3>1, <3>2
  <2>3. ASSUME NEW e \in T PROVE \E k \in 1..m + 1 : x[k] = e
    <3>1. CASE e = n + 1
      <4>1. m + 1 \in 1..m + 1 BY <1>1
      <4>. QED BY <1>4, <3>1, <4>1
    <3>2. CASE e = 1
      <4>1. 1 \in 1..m /\ 1 \in 1..m + 1 BY <1>1, <1>2
      <4>. QED BY <1>2, <1>4, <3>2, <4>1
    <3>3. CASE e \in starts
      <4>1. PICK k \in 2..m : e = c[k] BY <3>3
      <4>2. k \in 1..m /\ k \in 1..m + 1 BY <1>1
      <4>. QED BY <1>4, <4>1, <4>2
    <3>. QED BY <3>1, <3>2, <3>3
  <2>4. x = [k \in 1..m + 1 |-> x[k]] BY <1>4, LenProperties
  <2> HIDE DEF T
  <2>5. x \in [1..m + 1 -> T] BY <2>2, <2>4
  <2>6. x \in Enumerations(m + 1, T) BY <1>6, <2>3, <2>5 DEF Enumerations
  <2>. QED BY <2>1, <2>6, EnumerationIsAscending
<1>10. DOMAIN ls = 1..m BY LenProperties DEF m
<1>11. ASSUME NEW k \in 1..m
       PROVE  /\ x[k] \in 1..n /\ x[k + 1] - 1 \in x[k]..n
              /\ Piece(fs, ls[k], x[k], x[k + 1] - 1)
              /\ k < m => Closes(ls[k], fs[x[k + 1]]) /\ x[k + 1] <= n
  <2>0. k \in 1..m + 1 /\ k + 1 \in 1..m + 1 /\ k < k + 1 BY <1>1
  <2>1. x[k] = c[k] /\ c[k] \in 1..n BY <1>3, <1>4
  <2>2. x[k] < x[k + 1] BY <1>6, <2>0
  <2>3. CASE k < m
    <3>1. k \in 1..m - 1 /\ k + 1 \in 1..m BY <1>1, <2>3
    <3>2. x[k + 1] = c[k + 1] /\ c[k + 1] \in 1..n BY <1>3, <1>4, <3>1
    <3>3. x[k + 1] - 1 \in x[k]..n /\ x[k + 1] <= n BY <1>1, <2>1, <2>2, <3>2
    <3>. QED BY <1>2, <2>1, <3>1, <3>2, <3>3
  <2>4. CASE ~ k < m
    <3>1. k = m BY <1>1, <2>4
    <3>2. x[k + 1] = n + 1 BY <1>4, <3>1
    <3>3. (n + 1) - 1 = n /\ n \in c[k]..n BY <1>1, <2>1
    <3>. QED BY <1>1, <1>2, <2>1, <3>1, <3>2, <3>3
  <2>. QED BY <2>3, <2>4
<1>12. ASSUME NEW k \in 1..m
       PROVE  /\ ls[k] = Line(Words(group(k)), group(k)[1].start, Last(group(k)).end)
              /\ Fits(group(k))
              /\ k < m => ~Fits(Append(group(k), group(k + 1)[1]))
  <2> DEFINE a == x[k]
             b == x[k + 1] - 1
             g == group(k)
  <2>1. /\ a \in 1..n /\ b \in a..n /\ Piece(fs, ls[k], a, b) /\ g = SubSeq(fs, a, b)
        /\ k < m => Closes(ls[k], fs[x[k + 1]]) /\ x[k + 1] <= n
    BY <1>11
  <2>2. k + 1 \in 1..m + 1 /\ x[k + 1] \in Int
    <3>1. k + 1 \in 1..m + 1 BY <1>1
    <3> DEFINE S == 1..n + 1
    <3>2. x \in Seq(S) BY <1>4
    <3> HIDE DEF S
    <3>3. x[k + 1] \in S BY <1>4, <3>1, <3>2, ElementOfSeq
    <3>. QED BY <1>1, <3>1, <3>3 DEF S
  <2>3. x[k + 1] = b + 1 BY <2>2
  <2> HIDE DEF a, b, g
  <2>4. a \in Int /\ b \in Int /\ a <= b /\ 1 <= a /\ b <= n BY <1>1, <2>1
  <2>5. /\ Len(g) = b - a + 1 /\ \A i \in 1..b - a + 1 : g[i] = fs[a + i - 1]
        /\ b < n => SubSeq(fs, a, b + 1) = Append(g, fs[b + 1])
    BY <1>1, <2>1, RangeGrows DEF n
  <2>6. g[1] = fs[a] /\ Last(g) = fs[b]
    <3>1. /\ 1 \in 1..b - a + 1 /\ b - a + 1 \in 1..b - a + 1
          /\ a + 1 - 1 = a /\ a + (b - a + 1) - 1 = b
      BY <2>4
    <3>. QED BY <2>5, <3>1 DEF Last
  <2>7. ls[k] = Line(Words(g), g[1].start, Last(g).end) BY <2>1, <2>6 DEF Piece
  <2>8. Fits(g) BY <1>1, <2>1, FitsIsFitting DEF Piece, n
  <2>9. ASSUME k < m PROVE ~Fits(Append(g, group(k + 1)[1]))
    <3>1. k + 1 \in 1..m BY <1>1, <2>9
    <3>2. b < n /\ b + 1 \in a..n /\ b + 1 \in 1..n BY <1>1, <2>1, <2>3, <2>4, <2>9
    <3>3. group(k + 1)[1] = fs[b + 1]
      <4> DEFINE p == x[k + 1]
                 q == x[(k + 1) + 1] - 1
      <4>1. p \in 1..n /\ q \in p..n BY <1>11, <3>1
      <4>2. group(k + 1) = SubSeq(fs, p, q) OBVIOUS
      <4> HIDE DEF p, q, group
      <4>3. \A i \in 1..q - p + 1 : SubSeq(fs, p, q)[i] = fs[p + i - 1]
        BY <1>1, <4>1, RangeGrows DEF n
      <4>4. 1 \in 1..q - p + 1 /\ p + 1 - 1 = p BY <1>1, <4>1
      <4>. QED BY <2>3, <4>2, <4>3, <4>4 DEF p
    <3>4. ls[k] \in Spoke BY ElementOfSeq DEF m
    <3>5. Closes(ls[k], fs[b + 1]) BY <2>1, <2>3, <2>9
    <3> DEFINE l == ls[k]
    <3>6. l \in Spoke /\ Piece(fs, l, a, b) /\ Closes(l, fs[b + 1]) BY <2>1, <3>4, <3>5
    <3> HIDE DEF l
    <3>7. ~Fitting(fs, a, b + 1) BY <2>1, <3>2, <3>6, PieceJoins DEF n
    <3>8. ~Fits(SubSeq(fs, a, b + 1)) BY <1>1, <2>1, <3>2, <3>7, FitsIsFitting DEF n
    <3>. QED BY <2>5, <3>2, <3>3, <3>8
  <2>. QED BY <2>7, <2>8, <2>9 DEF g
<1> HIDE DEF starts
<1>13. x = Ascending(starts \cup {1, Len(fs) + 1}) BY <1>9 DEF n
<1>14. Len(ls) = Len(x) - 1 BY <1>1, <1>4 DEF m
<1>15. \A k \in DOMAIN ls :
          /\ ls[k] = Line(Words(group(k)), group(k)[1].start, Last(group(k)).end)
          /\ Fits(group(k))
          /\ k < Len(ls) => ~Fits(Append(group(k), group(k + 1)[1]))
  BY <1>10, <1>12 DEF m
<1>16. starts \in SUBSET (2..Len(fs)) BY <1>8 DEF n
<1>17. GroupedBy(fs, ls, x) BY <1>14, <1>15 DEF GroupedBy
<1>18. \E s \in SUBSET (2..Len(fs)) :
          GroupedBy(fs, ls, Ascending(s \cup {1, Len(fs) + 1}))
  BY <1>13, <1>16, <1>17
<1>. QED BY <1>18 DEF Grouped, GroupedBy, Fits

LEMMA PieceTimes ==
  ASSUME NEW fs, NEW l, NEW a, NEW b, Piece(fs, l, a, b)
  PROVE  l.start = fs[a].start /\ l.end = fs[b].end
BY DEF Piece, Line

LEMMA CutsInOrder ==
  ASSUME NEW fs \in Seq(Sound), InOrder(fs), NEW ls \in Seq(Spoke), NEW c,
         Cutting(fs, ls, c, Len(fs))
  PROVE  InOrder(ls)
<1> DEFINE n == Len(fs)
           m == Len(ls)
<1>1. n \in Nat /\ m \in Nat BY LenProperties
<1>2. /\ c \in Seq(1..n) /\ Len(c) = m
      /\ \A k, l \in 1..m : k < l => c[k] < c[l]
      /\ \A k \in 1..m - 1 : Piece(fs, ls[k], c[k], c[k + 1] - 1)
      /\ m > 0 => Piece(fs, ls[m], c[m], n)
  BY DEF Cutting
<1>3. \A k \in 1..m : c[k] \in 1..n
  <2> DEFINE S == 1..n
  <2>1. c \in Seq(S) BY <1>2
  <2> HIDE DEF S
  <2>2. \A k \in 1..m : c[k] \in S BY <1>2, <2>1, ElementOfSeq
  <2>. QED BY <2>2 DEF S
<1>4. \A k \in 1..m : ls[k].start = fs[c[k]].start
  <2> SUFFICES ASSUME NEW k \in 1..m PROVE ls[k].start = fs[c[k]].start OBVIOUS
  <2>1. k \in 1..m - 1 \/ (k = m /\ m > 0) BY <1>1
  <2>2. \E j : Piece(fs, ls[k], c[k], j) BY <1>2, <2>1
  <2>. QED BY <2>2, PieceTimes
<1>5. \A i \in 1..n - 1 : fs[i].end <= fs[i + 1].start BY DEF InOrder
<1> HIDE DEF m, n
<1>6. ASSUME NEW k \in 1..m - 1 PROVE ls[k].end <= ls[k + 1].start
  <2> DEFINE j == c[k + 1] - 1
  <2>1. k \in 1..m /\ k + 1 \in 1..m /\ k < k + 1 BY <1>1
  <2>2. c[k] \in 1..n /\ c[k + 1] \in 1..n /\ c[k] < c[k + 1] BY <1>2, <1>3, <2>1
  <2>3. j \in 1..n - 1 /\ j + 1 = c[k + 1] BY <1>1, <2>2
  <2>4. ls[k].end = fs[j].end
    <3>1. Piece(fs, ls[k], c[k], j) BY <1>2
    <3>. QED BY <3>1, PieceTimes
  <2> HIDE DEF j
  <2>5. fs[j].end <= fs[j + 1].start BY <1>5, <2>3
  <2>. QED BY <1>4, <2>1, <2>3, <2>4, <2>5
<1>. QED BY <1>6 DEF InOrder, m

LEMMA MergeGroups ==
  ASSUME NEW fs \in Seq(Sound)
  PROVE  /\ fs # <<>> => Grouped(fs, MergeTimed(fs))
         /\ InOrder(fs) => InOrder(MergeTimed(fs))
<1>1. MergeTimed(fs) \in Seq(Spoke) BY MergeKeeps DEF MergeWell
<1>2. PICK c : Cutting(fs, MergeTimed(fs), c, Len(fs)) BY MergeCuts
<1> DEFINE ls == MergeTimed(fs)
<1>3. ls \in Seq(Spoke) /\ Cutting(fs, ls, c, Len(fs)) BY <1>1, <1>2
<1> HIDE DEF ls
<1>4. (fs # <<>> => Grouped(fs, ls)) /\ (InOrder(fs) => InOrder(ls))
  BY <1>3, CutsGroup, CutsInOrder
<1>. QED BY <1>4 DEF ls

-----------------------------------------------------------------------------
(* Lines that follow each other.                                           *)
LEMMA TimesEnd ==
  ASSUME NEW times \in Seq(Times), Distinct(times)
  PROVE  \E to \in Nat : Until(times, to)
<1> DEFINE n == Len(times)
<1>1. n \in Nat BY LenProperties
<1>2. \A k \in 1..n : times[k][1] \in Int /\ times[k][2] \in Int
  <2>1. \A k \in 1..n : times[k] \in Times BY ElementOfSeq
  <2>. QED BY <2>1 DEF Times
<1>3. /\ \A i \in 1..n : 0 <= times[i][1] /\ times[i][1] < times[i][2]
      /\ \A i, j \in 1..n : i < j => times[i][2] <= times[j][1]
  BY DEF Distinct
<1> HIDE DEF n
<1>4. CASE n = 0
  <2>1. 0 \in Nat /\ \A i \in 1..n : FALSE BY <1>4
  <2>. QED BY <2>1 DEF Until, n
<1>5. CASE n # 0
  <2> DEFINE e == times[n][2]
  <2>1. n \in 1..n BY <1>1, <1>5
  <2>2. e \in Nat BY <1>2, <1>3, <2>1
  <2>3. ASSUME NEW i \in 1..n PROVE times[i][2] <= e
    <3>1. i = n \/ i < n BY <1>1
    <3>2. CASE i = n BY <1>2, <3>2
    <3>3. CASE i < n
      <4>1. times[i][2] <= times[n][1] /\ times[n][1] < times[n][2] BY <1>3, <2>1, <3>3
      <4>. QED BY <1>2, <2>1, <4>1
    <3>. QED BY <3>1, <3>2, <3>3
  <2> HIDE DEF e
  <2>. QED BY <2>2, <2>3 DEF Until, n
<1>. QED BY <1>4, <1>5

LEMMA FewInOrder ==
  ASSUME NEW ls, Len(ls) \in {0, 1}
  PROVE  InOrder(ls)
<1> DEFINE n == Len(ls)
<1>1. n = 0 \/ n = 1 OBVIOUS
<1> HIDE DEF n
<1>2. 1..n - 1 = {}
  <2>1. ASSUME NEW i \in 1..n - 1 PROVE FALSE
    <3>1. CASE n = 0 BY <3>1
    <3>2. CASE n = 1 BY <3>2
    <3>. QED BY <1>1, <3>1, <3>2
  <2>. QED BY <2>1
<1>3. \A i \in 1..n - 1 : ls[i].end <= ls[i + 1].start BY <1>2
<1>. QED BY <1>3 DEF InOrder, n

LEMMA NativeApart ==
  ASSUME NEW s \in Sayings, WellTimed(s), Aligned(s)
  PROVE  InOrder(Native(s))
<1> DEFINE text == FlattenSeq(s.text)
           ls == Native(s)
<1>1. s.stamps \in Seq(Times) /\ text \in Seq(Clauses) BY SayingFields
<1>2. ls = IF s.sentences # <<>> THEN s.sentences
           ELSE IF s.span # <<>> THEN <<Line(text, s.span[1], s.span[2])>>
           ELSE FromTimestamps(text, s.stamps)
  BY DEF Native
<1>3. /\ s.sentences # <<>> => InOrder(s.sentences)
      /\ Apart(s.stamps) /\ Len(Lasting(s.stamps)) \in {0, Spoken(text)}
  BY DEF WellTimed, Aligned
<1> HIDE DEF text, ls
<1>4. CASE s.sentences # <<>> BY <1>2, <1>3, <1>4 DEF ls
<1>5. CASE s.sentences = <<>> /\ s.span # <<>>
  <2> DEFINE l == Line(text, s.span[1], s.span[2])
  <2>1. ls = <<l>> BY <1>2, <1>5
  <2> HIDE DEF l
  <2>2. Len(ls) = 1 BY <2>1
  <2>. QED BY <2>2, FewInOrder DEF ls
<1>6. CASE s.sentences = <<>> /\ s.span = <<>>
  <2> DEFINE raw == s.stamps
  <2>1. ls = FromTimestamps(text, raw) BY <1>2, <1>6
  <2>2. /\ raw \in Seq(Times) /\ Apart(raw)
        /\ Len(Lasting(raw)) \in {0, Spoken(text)}
    BY <1>1, <1>3
  <2> HIDE DEF raw
  <2>3. Lasting(raw) \in Seq(Times) BY <2>2, LastingKeeps DEF LastsWell
  <2>4. Distinct(Lasting(raw))
    <3>1. 0 \in Nat OBVIOUS
    <3>. QED BY <2>2, <3>1, LastingFits
  <2>5. PICK to \in Nat : Until(Lasting(raw), to)
    <3> DEFINE kept == Lasting(raw)
    <3>1. kept \in Seq(Times) /\ Distinct(kept) BY <2>3, <2>4
    <3> HIDE DEF kept
    <3>2. \E to \in Nat : Until(kept, to) BY <3>1, TimesEnd
    <3>. QED BY <3>2 DEF kept
  <2>6. Between(FromTimestamps(text, raw), 0, to) BY <1>1, <2>2, <2>4, <2>5, StampsFit
  <2>. QED BY <2>1, <2>6 DEF Between, ls
<1>. QED BY <1>4, <1>5, <1>6

(* One line alone is kept or dropped.                                      *)
LEMMA ValidAlone ==
  ASSUME NEW ls \in Seq(Timing), Len(ls) = 1
  PROVE  Valid(ls) = ls \/ Valid(ls) = <<>>
<1> DEFINE I == {i \in DOMAIN ls :
                    ls[i].text # <<>> /\ ls[i].start >= 0 /\ ls[i].end > ls[i].start}
<1>1. DOMAIN ls = 1..Len(ls) BY LenProperties
<1>2. I \in SUBSET (1..Len(ls)) BY <1>1
<1>3. Valid(ls) = Chosen(ls, I) BY DEF Valid
<1> HIDE DEF I
<1>4. I = {} \/ I = 1..Len(ls)
  <2>1. 1..Len(ls) = {1} OBVIOUS
  <2>. QED BY <1>2, <2>1
<1>5. I = {} => Valid(ls) = <<>> BY <1>3, ChosenNothing
<1>6. I = 1..Len(ls) => Valid(ls) = ls BY <1>3, ChosenEverything
<1>. QED BY <1>4, <1>5, <1>6

LEMMA ParseInOrder ==
  ASSUME NEW s \in Sayings, WellTimed(s)
  PROVE  /\ Aligned(s) => InOrder(ParseResult(s, Duration))
         /\ s.sentences # <<>> => ParseResult(s, Duration) = s.sentences
<1> DEFINE text == FlattenSeq(s.text)
           ls == Native(s)
           valid == Valid(ls)
           l == Line(text, 0, Max({MinSpan, Duration}))
           native == ParseResult(s, Duration)
<1>1. native = IF valid # <<>> THEN valid ELSE IF text # <<>> THEN <<l>> ELSE <<>>
  BY DEF ParseResult, Native, Valid
<1>2. /\ ls \in Seq(Timing)
      /\ (\A i \in 1..Len(ls) : ls[i] \in Sound) \/ Len(ls) = 1
  BY NativeKeeps DEF NativeWell
<1>3. Aligned(s) => InOrder(ls) BY NativeApart
<1>4. s.sentences # <<>> => ls = s.sentences BY DEF Native
<1> HIDE DEF ls, l, native, text
<1>5. valid = ls \/ valid = <<>>
  BY <1>2, ValidKeeps, ValidAlone DEF ValidWell
<1> HIDE DEF valid
<1>6. valid # <<>> \/ Len(native) \in {0, 1} BY <1>1
<1>7. Aligned(s) => InOrder(native)
  <2>1. CASE valid # <<>> BY <1>1, <1>3, <1>5, <2>1
  <2>2. CASE valid = <<>> BY <1>6, <2>2, FewInOrder
  <2>. QED BY <2>1, <2>2
<1>8. s.sentences # <<>> => native = s.sentences
  <2> SUFFICES ASSUME s.sentences # <<>> PROVE native = s.sentences OBVIOUS
  <2>1. \A i \in 1..Len(ls) : ls[i] \in Sound
    <3> DEFINE ss == s.sentences
    <3>1. /\ ss \in Seq(Timing)
          /\ \A i \in DOMAIN ss :
                ss[i].text # <<>> /\ ss[i].start >= 0 /\ ss[i].start < ss[i].end
      BY SayingFields DEF WellTimed
    <3> HIDE DEF ss
    <3>2. DOMAIN ss = 1..Len(ss) /\ \A i \in 1..Len(ss) : ss[i] \in Timing
      BY <3>1, ElementOfSeq, LenProperties
    <3>3. \A i \in 1..Len(ss) : ss[i] \in Sound BY <3>1, <3>2 DEF Sound, Spoke, Timing
    <3>. QED BY <1>4, <3>3 DEF ss
  <2>2. valid = ls BY <1>2, <2>1, ValidKeeps DEF ValidWell, valid
  <2>. QED BY <1>1, <1>4, <2>2
<1>. QED BY <1>7, <1>8 DEF native

LEMMA TranscribeApart ==
  ASSUME NEW s \in Sayings, WellTimed(s)
  PROVE  LET ls == TranscribeFile(s, s.vad, Duration)
         IN /\ Aligned(s) => InOrder(ls)
            /\ s.sentences # <<>> => Grouped(s.sentences, ls)
<1> DEFINE native == ParseResult(s, Duration)
           intervals == Lasting(s.vad)
           spoken == FromIntervals(s.text, intervals)
           ls == TranscribeFile(s, s.vad, Duration)
<1>1. ls = IF HasNativeTiming(s) /\ native # <<>> THEN MergeTimed(native)
           ELSE IF spoken # <<>> THEN spoken ELSE native
  BY DEF TranscribeFile
<1> HIDE DEF ls
<1>2. native \in Seq(Sound)
  <2>1. Duration \in Nat /\ MinSpan \in Nat \ {0} BY LimitsAssumption
  <2>2. ParseWell(s, Duration) BY <2>1, ParseKeeps
  <2>. QED BY <2>2 DEF ParseWell
<1>3. /\ Aligned(s) => InOrder(native)
      /\ s.sentences # <<>> => native = s.sentences
  BY ParseInOrder
<1>4. Aligned(s) => InOrder(spoken)
  <2> SUFFICES ASSUME Aligned(s) PROVE InOrder(spoken) OBVIOUS
  <2> DEFINE text == s.text
             raw == s.vad
             size == Spoken(FlattenSeq(text))
  <2>1. text \in Seq(Seq(Clauses)) /\ raw \in Seq(Times) /\ FlattenSeq(text) \in Seq(Clauses)
    BY SayingFields
  <2>2. /\ Apart(raw)
        /\ \A i \in DOMAIN raw : raw[i][2] > raw[i][1] => raw[i][2] - raw[i][1] >= size
    BY DEF WellTimed, Aligned
  <2>3. size \in Nat
    <3>1. <<>> \in Seq(Clauses) BY EmptySeq
    <3>. QED BY <2>1, <3>1, SpokenConcat
  <2>4. spoken = FromIntervals(text, Lasting(raw)) OBVIOUS
  <2>5. Lasting(raw) \in Seq(Times)
    <3> HIDE DEF raw
    <3>. QED BY <2>1, LastingKeeps DEF LastsWell
  <2> DEFINE kept == Lasting(raw)
  <2>6. Distinct(kept) /\ Roomy(kept, size)
    <3> HIDE DEF raw, size
    <3>. QED BY <2>1, <2>2, <2>3, LastingFits
  <2> HIDE DEF text, raw, kept
  <2>7. kept \in Seq(Times) BY <2>5 DEF kept
  <2>8. PICK to \in Nat : Until(kept, to) BY <2>6, <2>7, TimesEnd
  <2>9. Between(FromIntervals(text, kept), 0, to)
    BY <2>1, <2>6, <2>7, <2>8, IntervalsFit
  <2>. QED BY <2>4, <2>9 DEF Between, kept
<1>5. s.sentences # <<>> => HasNativeTiming(s) BY DEF HasNativeTiming
<1> HIDE DEF native, spoken
<1>6. /\ native # <<>> => Grouped(native, MergeTimed(native))
      /\ InOrder(native) => InOrder(MergeTimed(native))
  BY <1>2, MergeGroups
<1>7. Aligned(s) => InOrder(ls) BY <1>1, <1>3, <1>4, <1>6
<1>8. s.sentences # <<>> => Grouped(s.sentences, ls) BY <1>1, <1>3, <1>5, <1>6
<1>. QED BY <1>7, <1>8 DEF ls

-----------------------------------------------------------------------------
(* The inductive invariant of the analysis.                                *)
Recognized(c) ==
    said[c] \in Said[c] /\ lines[c] = TranscribeFile(said[c], said[c].vad, Duration)
Readable ==
    /\ transcript \in Seq(Segments) /\ Sorted(transcript)
    /\ Len(transcript) = Len(lines["sales"]) + Len(lines["customer"])
    /\ (\A c \in Channels : Sensible(said[c])) => Lasts(transcript)
    /\ (\A c \in Channels : Neat(said[c])) => Audible(transcript)

StagesOK ==
    /\ stage \in {"split", "sales", "customer", "merge", "transcribed",
                  "score", "summary", "done", "failed"}
    /\ route \in {"local", "remote"}
    /\ DOMAIN said = Channels /\ DOMAIN lines = Channels
    /\ \A c \in Channels : Recognized(c) \/ lines[c] = <<>>
    /\ stage \in {"merge", "transcribed"} => \A c \in Channels : Recognized(c)
    /\ stage = "customer" => Recognized("sales")
    /\ stage \in {"split", "sales", "customer", "merge"} => transcript = <<>>
    /\ transcript = <<>> \/ Readable
    /\ stage # "failed" /\ stage # "done" => report.interruptions = 0

(* Reports and requests                                                    *)
ResultsOK ==
    /\ negatives \in 0..Len(transcript)
    /\ report.score \in 0..100
    /\ Len(chunks) \in Nat /\ asked \in 0..Len(chunks) + 1
    /\ stage \notin {"summary", "done", "failed"} => chunks = <<>> /\ asked = 0
    /\ stage = "summary" => /\ chunks # <<>>
                            /\ asked < (IF Len(chunks) = 1 THEN 1 ELSE Len(chunks) + 1)
    /\ stage = "done" /\ chunks = <<>> => report.interruptions = Interruptions(transcript)

AnalysisInv == StagesOK /\ ResultsOK

LEMMA SaidTypes ==
  ASSUME NEW c \in Channels, Recognized(c)
  PROVE  /\ said[c] \in Sayings /\ lines[c] \in Seq(Spoke)
         /\ Sensible(said[c]) => lines[c] \in Seq(Sound)
         /\ WellTimed(said[c]) => Words(lines[c]) = FlattenSeq(said[c].text)
         /\ Neat(said[c]) => Sensible(said[c]) /\ Audible(lines[c])
<1> DEFINE s == said[c]
<1>1. s \in Sayings /\ lines[c] = TranscribeFile(s, s.vad, Duration)
  BY SaidAssumption DEF Recognized
<1> HIDE DEF s
<1>2. TranscribeWell(s) BY <1>1, TranscribeKeeps
<1>3. Neat(s) => Audible(lines[c]) BY <1>1, TranscribeFits
<1>4. Neat(s) => Sensible(s) BY DEF Neat, Sensible
<1>. QED BY <1>1, <1>2, <1>3, <1>4 DEF TranscribeWell, s

LEMMA NothingIsLate == Interruptions(<<>>) = 0
<1> DEFINE ls == <<>>
<1>1. ls \in Seq(Segments) /\ DOMAIN ls = {} /\ 1..Len(ls) = {} BY EmptySeq
<1>2. Sorted(ls) /\ Lasts(ls) BY <1>1 DEF Sorted, Lasts
<1>3. Late(ls) = {} BY <1>1 DEF Late
<1> HIDE DEF ls
<1>4. Interruptions(ls) = Cardinality(Late(ls)) BY <1>1, <1>2, InterruptionsAreLate
<1>. QED BY <1>3, <1>4, FS_EmptySet DEF ls

LEMMA AnalysisInitInv == AnalysisInit => AnalysisInv
<1> SUFFICES ASSUME AnalysisInit PROVE AnalysisInv OBVIOUS
<1> USE DEF AnalysisInit
<1>1. \A c \in Channels : lines[c] = <<>> OBVIOUS
<1>2. StagesOK BY <1>1 DEF StagesOK
<1>3. ResultsOK
  <2>1. Len(<<>>) = 0 BY EmptySeq
  <2>. QED BY <2>1 DEF ResultsOK
<1>. QED BY <1>2, <1>3 DEF AnalysisInv

LEMMA RaiseInv ==
  ASSUME AnalysisInv, Raise PROVE AnalysisInv'
<1>1. StagesOK'
  BY DEF AnalysisInv, StagesOK, Readable, Recognized, Raise, inputs, results
<1>2. ResultsOK'
  BY DEF AnalysisInv, ResultsOK, Raise, inputs, results
<1>. QED BY <1>1, <1>2 DEF AnalysisInv

LEMMA SplitInv ==
  ASSUME AnalysisInv, Split PROVE AnalysisInv'
<1>1. CASE Raise BY <1>1, RaiseInv
<1>2. CASE stage' = "sales" /\ UNCHANGED <<inputs, transcript, results>>
  <2>0. stage = "split" BY DEF Split
  <2>1. StagesOK'
    BY <1>2, <2>0 DEF AnalysisInv, StagesOK, Readable, Recognized, inputs, results
  <2>2. ResultsOK'
    BY <1>2, <2>0 DEF AnalysisInv, ResultsOK, inputs, results
  <2>. QED BY <2>1, <2>2 DEF AnalysisInv
<1>. QED BY <1>1, <1>2 DEF Split

LEMMA RecognizeInv ==
  ASSUME AnalysisInv, NEW c \in Channels, Recognize(c) PROVE AnalysisInv'
<1>1. CASE Raise BY <1>1, RaiseInv
<1>2. CASE ~ Raise
  <2>1. PICK s \in Said[c] :
           /\ said' = [said EXCEPT ![c] = s]
           /\ lines' = [lines EXCEPT ![c] = TranscribeFile(s, s.vad, Duration)]
           /\ stage' = IF c = "sales" THEN "customer" ELSE "merge"
           /\ UNCHANGED <<route, transcript, results>>
    BY <1>2 DEF Recognize
  <2>2. stage = c BY DEF Recognize
  <2>3. c = "sales" \/ c = "customer" BY DEF Channels
  <2>4. /\ DOMAIN said = Channels /\ DOMAIN lines = Channels /\ transcript = <<>>
        /\ route \in {"local", "remote"} /\ report.interruptions = 0
        /\ \A d \in Channels : Recognized(d) \/ lines[d] = <<>>
        /\ stage = "customer" => Recognized("sales")
    BY <2>2, <2>3 DEF AnalysisInv, StagesOK
  <2>5. /\ said'[c] = s /\ lines'[c] = TranscribeFile(s, s.vad, Duration)
        /\ \A d \in Channels : d # c => said'[d] = said[d] /\ lines'[d] = lines[d]
        /\ DOMAIN said' = Channels /\ DOMAIN lines' = Channels
    BY <2>1, <2>4
  <2>6. /\ Recognized(c)'
        /\ \A d \in Channels : d # c /\ Recognized(d) => Recognized(d)'
    <3>1. Recognized(c)' BY <2>5 DEF Recognized
    <3>2. ASSUME NEW d \in Channels, d # c, Recognized(d) PROVE Recognized(d)'
      BY <2>5, <3>2 DEF Recognized
    <3>. QED BY <3>1, <3>2
  <2>7. \A d \in Channels : Recognized(d)' \/ lines'[d] = <<>>
    BY <2>4, <2>5, <2>6
  <2>8. c = "customer" => \A d \in Channels : Recognized(d)'
    BY <2>2, <2>4, <2>6 DEF Channels
  <2>9. /\ transcript' = <<>> /\ route' = route /\ report' = report
        /\ negatives' = negatives /\ chunks' = chunks /\ asked' = asked
    BY <2>1, <2>4 DEF results
  <2>10. StagesOK'
    <3>1. CASE c = "sales"
      <4>1. stage' = "customer" BY <2>1, <3>1
      <4>2. Recognized("sales")' BY <2>6, <3>1
      <4>. QED BY <2>4, <2>5, <2>7, <2>9, <4>1, <4>2 DEF StagesOK
    <3>2. CASE c = "customer"
      <4>1. stage' = "merge" BY <2>1, <3>2
      <4>. QED BY <2>4, <2>5, <2>7, <2>8, <2>9, <3>2, <4>1 DEF StagesOK
    <3>. QED BY <2>3, <3>1, <3>2
  <2>11. ResultsOK'
    <3>1. stage' \in {"customer", "merge"} BY <2>1
    <3>. QED BY <2>2, <2>3, <2>4, <2>9, <3>1 DEF AnalysisInv, ResultsOK
  <2>. QED BY <2>10, <2>11 DEF AnalysisInv
<1>. QED BY <1>1, <1>2

(* Lines of the remote recognition end after they start.                   *)
Ended(ls) == [k \in DOMAIN ls |-> [ls[k] EXCEPT !.end = Max({ls[k].start + 1, @})]]

LEMMA EndedKeeps ==
  ASSUME NEW ls \in Seq(Segments), Sorted(ls)
  PROVE  /\ Ended(ls) \in Seq(Segments) /\ Sorted(Ended(ls)) /\ Len(Ended(ls)) = Len(ls)
         /\ Lasts(ls) => Lasts(Ended(ls))
         /\ Lasts(ls) /\ Audible(ls) => Audible(Ended(ls))
<1> DEFINE n == Len(ls)
           t == Ended(ls)
<1>1. n \in Nat /\ DOMAIN ls = 1..n BY LenProperties
<1>2. \A k \in 1..n : ls[k] \in Segments BY ElementOfSeq
<1>3. /\ DOMAIN t = 1..n /\ t = [k \in 1..n |-> t[k]]
      /\ \A k \in 1..n : t[k] = [ls[k] EXCEPT !.end = Max({ls[k].start + 1, ls[k].end})]
  <2>1. \A k \in 1..n : DOMAIN ls[k] = {"speaker", "text", "start", "end"}
    BY <1>2 DEF Segments
  <2>. QED BY <1>1, <2>1 DEF Ended
<1> HIDE DEF t, n
<1>4. ASSUME NEW k \in 1..n
      PROVE  /\ t[k] \in Segments /\ t[k].start = ls[k].start /\ t[k].end > ls[k].start
             /\ ls[k].start < ls[k].end => t[k].end = ls[k].end
  <2> DEFINE x == ls[k]
             e == Max({x.start + 1, x.end})
  <2>1. t[k] = [x EXCEPT !.end = e] BY <1>3
  <2>2. x \in Segments BY <1>2
  <2> HIDE DEF x
  <2>3. x.start \in Int /\ x.start + 1 \in Int /\ x.end \in Int BY <2>2 DEF Segments
  <2>4. /\ e \in Int /\ e >= x.start + 1
        /\ x.start < x.end => e = x.end
    <3>1. e \in {x.start + 1, x.end} /\ e >= x.start + 1 /\ e >= x.end BY <2>3, MaxPair
    <3> HIDE DEF e
    <3>2. x.start < x.end => e = x.end BY <2>3, <3>1
    <3>. QED BY <2>3, <3>1, <3>2
  <2> HIDE DEF e
  <2>5. t[k] \in Segments /\ t[k].start = x.start /\ t[k].end = e
    BY <2>1, <2>2, <2>4 DEF Segments
  <2>. QED BY <2>3, <2>4, <2>5 DEF x
<1>5. t \in Seq(Segments) /\ Len(t) = n
  <2>1. t \in [1..n -> Segments] BY <1>3, <1>4
  <2>. QED BY <1>1, <2>1, SequenceOf
<1>6. Sorted(t) BY <1>4, <1>5 DEF Sorted, n
<1>7. Lasts(ls) => Lasts(t)
  <2> SUFFICES ASSUME Lasts(ls), NEW k \in 1..n PROVE 0 <= t[k].start /\ t[k].start < t[k].end
    BY <1>5 DEF Lasts
  <2>1. 0 <= ls[k].start BY DEF Lasts, n
  <2>2. ls[k].start \in Int /\ t[k].end \in Int BY <1>2, <1>4 DEF Segments
  <2>. QED BY <1>4, <2>1, <2>2
<1>8. ASSUME Lasts(ls), Audible(ls) PROVE Audible(t)
  <2>1. \A k \in 1..n : t[k].start = ls[k].start /\ t[k].end = ls[k].end
    BY <1>4, <1>8 DEF Lasts, n
  <2>. QED BY <1>5, <1>8, <2>1 DEF Audible, n
<1>. QED BY <1>5, <1>6, <1>7, <1>8 DEF t, n

LEMMA MergeInv ==
  ASSUME AnalysisInv, Merge PROVE AnalysisInv'
<1> DEFINE merged == MergeChannelSegments(lines["sales"], lines["customer"])
<1>1. CASE Raise BY <1>1, RaiseInv
<1>2. CASE ~ Raise
  <2>1. /\ stage = "merge" /\ stage' = "transcribed" /\ UNCHANGED <<inputs, results>>
        /\ transcript' = IF route = "local" THEN merged ELSE Ended(merged)
    BY <1>2 DEF Merge, Ended
  <2>2. /\ \A c \in Channels : Recognized(c)
        /\ DOMAIN said = Channels /\ DOMAIN lines = Channels
        /\ route \in {"local", "remote"} /\ report.interruptions = 0
    BY <2>1 DEF AnalysisInv, StagesOK
  <2>3. \A c \in Channels : /\ lines[c] \in Seq(Spoke)
                            /\ Sensible(said[c]) => lines[c] \in Seq(Sound)
                            /\ Neat(said[c]) => Sensible(said[c]) /\ Audible(lines[c])
    BY <2>2, SaidTypes
  <2>4. MergedWell(lines["sales"], lines["customer"])
    <3> DEFINE a == lines["sales"]
               b == lines["customer"]
    <3>1. a \in Seq(Spoke) /\ b \in Seq(Spoke) BY <2>3 DEF Channels
    <3> HIDE DEF a, b
    <3>2. MergedWell(a, b) BY <3>1, MergedKeeps
    <3>. QED BY <3>2 DEF a, b
  <2>5. /\ merged \in Seq(Segments) /\ Sorted(merged)
        /\ Len(merged) = Len(lines["sales"]) + Len(lines["customer"])
        /\ (\A c \in Channels : Sensible(said[c])) => Lasts(merged)
    BY <2>3, <2>4 DEF MergedWell, Channels
  <2>12. (\A c \in Channels : Neat(said[c])) => Audible(merged)
    <3> SUFFICES ASSUME \A c \in Channels : Neat(said[c]) PROVE Audible(merged) OBVIOUS
    <3>1. \A c \in Channels : Audible(lines[c]) BY <2>3
    <3>2. \A k \in 1..Len(merged) :
             \E c \in Channels : TimeOf(merged[k], lines[c])
      BY <2>4 DEF MergedWell, Channels
    <3> HIDE DEF merged
    <3>. QED BY <3>1, <3>2 DEF TimeOf, Audible
  <2> HIDE DEF merged
  <2>6. /\ transcript' \in Seq(Segments) /\ Sorted(transcript')
        /\ Len(transcript') = Len(merged)
        /\ Lasts(merged) => Lasts(transcript')
        /\ Lasts(merged) /\ Audible(merged) => Audible(transcript')
    BY <2>1, <2>5, EndedKeeps
  <2>7. /\ said' = said /\ lines' = lines /\ route' = route /\ report' = report
        /\ negatives' = negatives /\ chunks' = chunks /\ asked' = asked
    BY <2>1 DEF inputs, results
  <2>8. Readable'
    <3>1. (\A c \in Channels : Neat(said[c])) => Audible(transcript')
      BY <2>3, <2>5, <2>6, <2>12
    <3>. QED BY <2>5, <2>6, <2>7, <3>1 DEF Readable
  <2>9. \A c \in Channels : Recognized(c)' BY <2>2, <2>7 DEF Recognized
  <2>10. StagesOK' BY <2>1, <2>2, <2>7, <2>8, <2>9 DEF StagesOK
  <2>11. ResultsOK'
    <3>1. transcript = <<>> BY <2>1 DEF AnalysisInv, StagesOK
    <3>2. negatives = 0
      <4>1. Len(<<>>) = 0 BY EmptySeq
      <4>. QED BY <3>1, <4>1 DEF AnalysisInv, ResultsOK
    <3>3. Len(transcript') \in Nat BY <2>6, LenProperties
    <3>. QED BY <2>1, <2>7, <3>2, <3>3 DEF AnalysisInv, ResultsOK
  <2>. QED BY <2>10, <2>11 DEF AnalysisInv
<1>. QED BY <1>1, <1>2

LEMMA TranscriptType ==
  ASSUME StagesOK
  PROVE  transcript \in Seq(Segments) /\ Len(transcript) \in Nat
         /\ DOMAIN transcript = 1..Len(transcript)
<1>1. <<>> \in Seq(Segments) BY EmptySeq
<1>2. transcript \in Seq(Segments) BY <1>1 DEF StagesOK, Readable
<1>. QED BY <1>2, LenProperties

LEMMA AnalyzeEmotionInv ==
  ASSUME AnalysisInv, AnalyzeEmotion PROVE AnalysisInv'
<1>1. CASE Raise BY <1>1, RaiseInv
<1>2. CASE ~ Raise
  <2>1. /\ stage = "transcribed" /\ stage' = "score" /\ negatives' \in 0..Len(transcript)
        /\ UNCHANGED <<inputs, transcript, report, chunks, asked>>
    BY <1>2 DEF AnalyzeEmotion
  <2>2. StagesOK'
    BY <2>1 DEF AnalysisInv, StagesOK, Readable, Recognized, inputs
  <2>3. ResultsOK'
    BY <2>1 DEF AnalysisInv, ResultsOK
  <2>. QED BY <2>2, <2>3 DEF AnalysisInv
<1>. QED BY <1>1, <1>2

LEMMA ScoreQualityInv ==
  ASSUME AnalysisInv, ScoreQuality PROVE AnalysisInv'
<1>1. PICK risks \in RiskCounts :
         LET share == IF transcript = <<>> THEN 0 ELSE (negatives * 12) \div Len(transcript)
         IN report' = [score |-> Max({0, 100 - Deduction - risks * 8 - share}),
                       interruptions |-> Interruptions(transcript),
                       talk |-> [c \in Channels |-> TalkTime(c)]]
  BY DEF ScoreQuality
<1>2. /\ stage = "score" /\ stage' = "done"
      /\ UNCHANGED <<inputs, transcript, clips, negatives, chunks, asked>>
  BY DEF ScoreQuality
<1> DEFINE share == IF transcript = <<>> THEN 0 ELSE (negatives * 12) \div Len(transcript)
           worth == 100 - Deduction - risks * 8 - share
<1>3. report'.score = Max({0, worth}) /\ report'.interruptions = Interruptions(transcript)
  BY <1>1
<1>4. share \in Nat
  <2>1. negatives \in Nat BY DEF AnalysisInv, ResultsOK
  <2>2. CASE transcript = <<>> BY <2>2
  <2>3. CASE transcript # <<>>
    <3>1. Len(transcript) \in Nat \ {0}
      <4>1. transcript \in Seq(Segments) /\ Len(transcript) \in Nat
        BY TranscriptType DEF AnalysisInv
      <4>. QED BY <2>3, <4>1, EmptySeq
    <3> DEFINE x == negatives * 12
               m == Len(transcript)
    <3>2. x \in Int /\ x >= 0 BY <2>1
    <3>3. m \in Nat \ {0} BY <3>1
    <3> HIDE DEF x, m
    <3>4. x \div m \in Int /\ (x >= 0 => x \div m >= 0) BY <3>2, <3>3, Quotients
    <3>5. x \div m \in Nat BY <3>2, <3>4
    <3>. QED BY <2>3, <3>5 DEF x, m
  <2>. QED BY <2>2, <2>3
<1> HIDE DEF share
<1>5. worth \in Int /\ worth <= 100
  <2>1. risks \in Nat BY LimitsAssumption
  <2>2. Deduction \in Nat BY DEF Deduction
  <2>. QED BY <1>4, <2>1, <2>2
<1> HIDE DEF worth
<1>6. report'.score \in 0..100
  <2>1. Max({0, worth}) \in {0, worth} /\ Max({0, worth}) >= 0 BY <1>5, MaxPair
  <2>. QED BY <1>3, <1>5, <2>1
<1>7. StagesOK'
  BY <1>2 DEF AnalysisInv, StagesOK, Readable, Recognized, inputs
<1>8. ResultsOK'
  BY <1>2, <1>3, <1>6 DEF AnalysisInv, ResultsOK
<1>. QED BY <1>7, <1>8 DEF AnalysisInv

LEMMA SummarizeInv ==
  ASSUME AnalysisInv, Summarize PROVE AnalysisInv'
<1>0. SUFFICES ASSUME ~ Raise PROVE AnalysisInv' BY RaiseInv
<1>1. /\ stage = "transcribed" /\ chunks' = PromptChunks(Sizes)
      /\ stage' = IF transcript = <<>> THEN "done" ELSE "summary"
      /\ UNCHANGED <<inputs, transcript, clips, negatives, report, asked>>
  BY <1>0 DEF Summarize
<1>2. /\ transcript \in Seq(Segments) /\ Len(transcript) \in Nat
      /\ DOMAIN Sizes = 1..Len(transcript)
  BY TranscriptType DEF AnalysisInv, Sizes
<1>3. /\ Len(chunks') \in Nat /\ (chunks' = <<>> <=> Len(transcript) = 0)
  <2> DEFINE n == Len(transcript)
             sizes == Sizes
  <2>1. n \in Nat /\ DOMAIN sizes = 1..n BY <1>2
  <2> HIDE DEF n, sizes
  <2>2. /\ Len(PromptChunks(sizes)) \in Nat
        /\ (PromptChunks(sizes) = <<>>) <=> (n = 0)
    BY <2>1, ChunksAreSome
  <2>. QED BY <1>1, <2>2 DEF n, sizes
<1>4. Len(transcript) = 0 <=> transcript = <<>> BY <1>2, EmptySeq
<1>5. asked = 0 /\ report.interruptions = 0
  BY <1>1 DEF AnalysisInv, ResultsOK, StagesOK
<1>6. StagesOK'
  BY <1>1 DEF AnalysisInv, StagesOK, Readable, Recognized, inputs
<1>7. ResultsOK'
  <2>1. CASE transcript = <<>>
    <3>1. stage' = "done" /\ transcript' = <<>> /\ report'.interruptions = 0
      BY <1>1, <1>5, <2>1
    <3>. QED BY <1>1, <1>3, <1>5, <2>1, <3>1, NothingIsLate DEF AnalysisInv, ResultsOK
  <2>2. CASE transcript # <<>>
    <3>1. stage' = "summary" /\ chunks' # <<>> BY <1>1, <1>3, <1>4, <2>2
    <3>2. asked' = 0 BY <1>1, <1>5
    <3>3. asked' < (IF Len(chunks') = 1 THEN 1 ELSE Len(chunks') + 1) BY <1>3, <3>2
    <3>. QED BY <1>1, <1>3, <3>1, <3>2, <3>3 DEF AnalysisInv, ResultsOK
  <2>. QED BY <2>1, <2>2
<1>. QED BY <1>6, <1>7 DEF AnalysisInv

LEMMA RequestSummaryInv ==
  ASSUME AnalysisInv, RequestSummary PROVE AnalysisInv'
<1>1. CASE Raise BY <1>1, RaiseInv
<1>2. CASE ~ Raise
  <2> DEFINE all == IF Len(chunks) = 1 THEN 1 ELSE Len(chunks) + 1
  <2>1. /\ stage = "summary" /\ asked' = asked + 1
        /\ stage' = IF asked' = all THEN "done" ELSE "summary"
        /\ UNCHANGED <<inputs, transcript, clips, negatives, report, chunks>>
    BY <1>2 DEF RequestSummary
  <2>2. /\ Len(chunks) \in Nat /\ asked \in Nat /\ chunks # <<>> /\ asked < all
    BY <2>1 DEF AnalysisInv, ResultsOK
  <2>3. /\ all \in Nat /\ all <= Len(chunks) + 1 BY <2>2
  <2>4. asked' \in 0..Len(chunks) + 1 /\ (asked' # all => asked' < all)
    BY <2>1, <2>2, <2>3
  <2>5. StagesOK'
    BY <2>1 DEF AnalysisInv, StagesOK, Readable, Recognized, inputs
  <2>6. ResultsOK'
    <3>1. stage' = "done" \/ (stage' = "summary" /\ asked' # all) BY <2>1
    <3>. QED BY <2>1, <2>2, <2>4, <3>1 DEF AnalysisInv, ResultsOK
  <2>. QED BY <2>5, <2>6 DEF AnalysisInv
<1>. QED BY <1>1, <1>2

THEOREM AnalysisInvHolds == AnalysisSpec => []AnalysisInv
<1>1. ASSUME AnalysisInv, [AnalysisNext]_analysis PROVE AnalysisInv'
  <2>1. CASE Split BY <1>1, <2>1, SplitInv
  <2>2. ASSUME NEW c \in Channels, Recognize(c) PROVE AnalysisInv'
    BY <1>1, <2>2, RecognizeInv
  <2>3. CASE Merge BY <1>1, <2>3, MergeInv
  <2>4. CASE AnalyzeEmotion BY <1>1, <2>4, AnalyzeEmotionInv
  <2>5. CASE ScoreQuality BY <1>1, <2>5, ScoreQualityInv
  <2>6. CASE Summarize BY <1>1, <2>6, SummarizeInv
  <2>7. CASE RequestSummary BY <1>1, <2>7, RequestSummaryInv
  <2>8. CASE UNCHANGED analysis
    <3>1. StagesOK'
      BY <1>1, <2>8
      DEF AnalysisInv, StagesOK, Readable, Recognized, analysis, inputs, results
    <3>2. ResultsOK' BY <1>1, <2>8 DEF AnalysisInv, ResultsOK, analysis, inputs, results
    <3>. QED BY <3>1, <3>2 DEF AnalysisInv
  <2>. QED BY <1>1, <2>1, <2>2, <2>3, <2>4, <2>5, <2>6, <2>7, <2>8 DEF AnalysisNext
<1>. QED BY <1>1, AnalysisInitInv, PTL DEF AnalysisSpec

(* Whatever the recognition model says of a channel, whatever its times,   *)
(* the lines have words, and last when the times do not run back; and when *)
(* the times make sense, the lines are the words, in their order and once: *)
(* transcribe_file with all its ways to cut a text, merge_channel_segments *)
(* and the numbers of the report and of the requests for a summary.        *)
THEOREM LinesKeepTheWords == AnalysisSpec => []WordsAreKept
<1>1. ASSUME AnalysisInv PROVE WordsAreKept
  <2>0. StagesOK /\ ResultsOK BY <1>1 DEF AnalysisInv
  <2>1. ASSUME NEW c \in Channels, NEW i \in DOMAIN lines[c]
        PROVE  LET l == lines[c][i]
               IN l.text # <<>> /\ (InTime(said[c]) => 0 <= l.start /\ l.start < l.end)
    <3> DEFINE ls == lines[c]
    <3>1. ls # <<>> BY EmptySeq
    <3>2. Recognized(c) BY <2>0, <3>1 DEF StagesOK
    <3>3. ls \in Seq(Spoke) /\ (Sensible(said[c]) => ls \in Seq(Sound)) BY <3>2, SaidTypes
    <3>4. i \in DOMAIN ls OBVIOUS
    <3> HIDE DEF ls
    <3>5. i \in 1..Len(ls) BY <3>3, <3>4, LenProperties
    <3>6. ls[i] \in Spoke /\ (Sensible(said[c]) => ls[i] \in Sound)
      BY <3>3, <3>5, ElementOfSeq
    <3>7. /\ ls[i].text # <<>>
          /\ InTime(said[c]) => 0 <= ls[i].start /\ ls[i].start < ls[i].end
      BY <3>6 DEF Spoke, Sound, Sensible
    <3>. QED BY <3>7 DEF ls
  <2>2. Len(transcript) \in {0, Len(lines["sales"]) + Len(lines["customer"])}
    BY <2>0, EmptySeq DEF StagesOK, Readable
  <2>3. LinesOK BY <2>0, <2>1, <2>2 DEF LinesOK, StagesOK, ResultsOK
  <2>4. NoWordIsLost BY <2>0, SaidTypes DEF NoWordIsLost, StagesOK
  <2>. QED BY <2>3, <2>4 DEF WordsAreKept
<1>. QED BY <1>1, AnalysisInvHolds, PTL

(* The interruptions of the report are the lines that overlap one of the   *)
(* other speaker above them, for all recordings whose times do not run     *)
(* back: QualityScorer.score keeps no more than where each speaker stops.  *)
THEOREM InterruptionsAreCounted == AnalysisSpec => []InterruptionsAreOverlaps
<1>1. ASSUME AnalysisInv PROVE InterruptionsAreOverlaps
  <2> SUFFICES ASSUME stage = "done", chunks = <<>>, \A c \in Channels : InTime(said[c])
               PROVE  report.interruptions = Cardinality(Late(transcript))
    BY DEF InterruptionsAreOverlaps, Late
  <2>1. report.interruptions = Interruptions(transcript)
    BY <1>1 DEF AnalysisInv, ResultsOK
  <2>2. transcript = <<>> \/ Readable BY <1>1 DEF AnalysisInv, StagesOK
  <2>3. CASE transcript = <<>>
    <3>1. Late(<<>>) = {} BY DEF Late
    <3>. QED BY <2>1, <2>3, <3>1, NothingIsLate, FS_EmptySet
  <2>4. CASE Readable
    <3> DEFINE ls == transcript
    <3>1. ls \in Seq(Segments) /\ Sorted(ls) /\ Lasts(ls) BY <2>4 DEF Readable, Sensible
    <3> HIDE DEF ls
    <3>2. Interruptions(ls) = Cardinality(Late(ls)) BY <3>1, InterruptionsAreLate
    <3>. QED BY <2>1, <3>2 DEF ls
  <2>. QED BY <2>2, <2>3, <2>4
<1>. QED BY <1>1, AnalysisInvHolds, PTL

-----------------------------------------------------------------------------
(* What is read of the lines.                                              *)
LEMMA WindowFits ==
  ASSUME NEW l \in Segments, 0 <= l.start, l.start < l.end,
         l.end <= Duration \/ (l.start < Duration /\ l.end - l.start <= MaxWindow)
  PROVE  LET clip == SliceWav(EmotionWindow(l))
         IN /\ l.start <= clip[1] /\ clip[1] < clip[2] /\ clip[2] <= l.end
            /\ clip[2] - clip[1] <= MaxWindow
<1> DEFINE a == l.start
           b == l.end
           d == Duration
           m == MaxWindow
           over == b - a - m
           offset == over \div 2
           window == EmotionWindow(l)
           first == Min({d, window[1]})
           last == Min({d, window[2]})
           end == Max({first, last})
           clip == SliceWav(window)
<1>1. a \in Int /\ b \in Int BY DEF Segments
<1>2. d \in Nat /\ m \in Nat \ {0} BY LimitsAssumption
<1>3. window = IF b - a <= m THEN <<a, b>> ELSE <<a + offset, a + offset + m>>
  BY DEF EmotionWindow
<1>4. clip = <<first, end>> BY DEF SliceWav
<1>5. over \in Int BY <1>1, <1>2
<1> DEFINE half == over \div 2
<1>6. over > 0 => half \in Int /\ half >= 0 /\ half + half <= over
  <2> HIDE DEF over
  <2>. QED BY <1>5
<1>7. 0 <= a /\ a < b /\ (b <= d \/ (a < d /\ b - a <= m)) OBVIOUS
<1> HIDE DEF a, b, d, m, window
<1>8. /\ window[1] \in Int /\ window[2] \in Int
      /\ a <= window[1] /\ window[1] < window[2] /\ window[2] <= b
      /\ window[2] - window[1] <= m /\ window[1] < d
  <2>1. CASE b - a <= m
    <3>1. window[1] = a /\ window[2] = b BY <1>3, <2>1
    <3>. QED BY <1>1, <1>2, <1>7, <2>1, <3>1
  <2>2. CASE ~ b - a <= m
    <3>1. window[1] = a + half /\ window[2] = a + half + m BY <1>3, <2>2
    <3>2. over > 0 /\ b <= d BY <1>1, <1>2, <1>7, <2>2
    <3>3. half \in Int /\ half >= 0 /\ half + half <= over BY <1>6, <3>2
    <3>4. over = b - a - m OBVIOUS
    <3> HIDE DEF half, over
    <3>. QED BY <1>1, <1>2, <1>7, <3>1, <3>2, <3>3, <3>4
  <2>. QED BY <2>1, <2>2
<1> HIDE DEF offset, half, over
<1>9. first = window[1]
  <2> DEFINE p == window[1]
  <2>2. d \in Int /\ p \in Int BY <1>2, <1>8
  <2> HIDE DEF p
  <2>3. Min({d, p}) \in {d, p} /\ Min({d, p}) <= p BY <2>2, MinPair
  <2>1. first \in {d, window[1]} /\ first <= window[1] BY <2>3 DEF p
  <2> HIDE DEF first
  <2>. QED BY <1>2, <1>8, <2>1
<1>10. last \in {d, window[2]} /\ last <= window[2] /\ last <= d
  <2> DEFINE p == window[2]
  <2>2. d \in Int /\ p \in Int BY <1>2, <1>8
  <2> HIDE DEF p
  <2>3. Min({d, p}) \in {d, p} /\ Min({d, p}) <= p /\ Min({d, p}) <= d BY <2>2, MinPair
  <2>. QED BY <2>3 DEF p
<1> HIDE DEF first, last
<1>11. last \in Int /\ last > first BY <1>2, <1>8, <1>9, <1>10
<1>12. first \in Int BY <1>8, <1>9
<1>13. end \in {first, last} /\ end >= last BY <1>11, <1>12, MaxPair
<1> HIDE DEF end
<1>14. end = last BY <1>11, <1>12, <1>13
<1>15. /\ a <= first /\ first < end /\ end <= b /\ end - first <= m
  BY <1>1, <1>2, <1>8, <1>9, <1>10, <1>11, <1>14
<1> HIDE DEF clip
<1>16. clip[1] = first /\ clip[2] = end BY <1>4
<1>17. a <= clip[1] /\ clip[1] < clip[2] /\ clip[2] <= b /\ clip[2] - clip[1] <= m
  BY <1>15, <1>16
<1>. QED BY <1>17 DEF clip, window, a, b, m

RequestsOK == stage = "summary" => chunks = PromptChunks(Sizes)

LEMMA RequestsHold == AnalysisSpec => []RequestsOK
<1>1. AnalysisInit => RequestsOK BY DEF AnalysisInit, RequestsOK
<1>2. ASSUME RequestsOK, [AnalysisNext]_analysis PROVE RequestsOK'
  <2>1. CASE Raise BY <2>1 DEF Raise, RequestsOK
  <2>2. CASE Split BY <2>1, <2>2 DEF Split, RequestsOK
  <2>3. ASSUME NEW c \in Channels, Recognize(c) PROVE RequestsOK'
    BY <2>1, <2>3 DEF Recognize, RequestsOK
  <2>4. CASE Merge BY <2>1, <2>4 DEF Merge, RequestsOK
  <2>5. CASE AnalyzeEmotion BY <2>1, <2>5 DEF AnalyzeEmotion, RequestsOK
  <2>6. CASE ScoreQuality
    <3>1. stage' = "done" BY <2>6 DEF ScoreQuality
    <3>. QED BY <3>1 DEF RequestsOK
  <2>7. CASE Summarize
    <3>1. CASE Raise BY <2>1, <3>1
    <3>2. CASE ~ Raise
      <4>1. chunks' = PromptChunks(Sizes) /\ transcript' = transcript
        BY <2>7, <3>2 DEF Summarize
      <4>2. Sizes' = Sizes BY <4>1 DEF Sizes
      <4>. QED BY <4>1, <4>2 DEF RequestsOK
    <3>. QED BY <3>1, <3>2
  <2>8. CASE RequestSummary
    <3>1. CASE Raise BY <2>1, <3>1
    <3>2. CASE ~ Raise
      <4>1. stage = "summary" /\ chunks' = chunks /\ transcript' = transcript
        BY <2>8, <3>2 DEF RequestSummary
      <4>2. Sizes' = Sizes BY <4>1 DEF Sizes
      <4>3. chunks' = PromptChunks(Sizes') BY <1>2, <4>1, <4>2 DEF RequestsOK
      <4>. QED BY <4>3 DEF RequestsOK
    <3>. QED BY <3>1, <3>2
  <2>9. CASE UNCHANGED analysis
    <3>1. stage' = stage /\ chunks' = chunks /\ transcript' = transcript
      BY <2>9 DEF analysis, results
    <3>2. Sizes' = Sizes BY <3>1 DEF Sizes
    <3>. QED BY <1>2, <3>1, <3>2 DEF RequestsOK
  <2>. QED BY <1>2, <2>2, <2>3, <2>4, <2>5, <2>6, <2>7, <2>8, <2>9 DEF AnalysisNext
<1>. QED BY <1>1, <1>2, PTL DEF AnalysisSpec

(* When the model's times are in order, apart and as many as the           *)
(* characters, the lines of a channel do not overlap, whichever way they   *)
(* were cut; and its own sentences are joined into lines that keep to the  *)
(* limits and could not have taken in the next: transcribe_file with       *)
(* _merge_timed_fragments, for every limit and however many sentences.     *)
THEOREM LinesAreCutWell == AnalysisSpec => []LinesAreWellCut
<1>1. ASSUME AnalysisInv PROVE LinesAreWellCut
  <2>1. ASSUME stage \in {"merge", "transcribed"}, NEW c \in Channels, WellTimed(said[c])
        PROVE  /\ Aligned(said[c]) => InOrder(lines[c])
               /\ said[c].sentences # <<>> => Grouped(said[c].sentences, lines[c])
    <3> DEFINE s == said[c]
    <3>1. Recognized(c) BY <1>1, <2>1 DEF AnalysisInv, StagesOK
    <3>2. s \in Sayings /\ lines[c] = TranscribeFile(s, s.vad, Duration)
      BY <3>1, SaidAssumption DEF Recognized
    <3>3. WellTimed(s) BY <2>1
    <3> HIDE DEF s
    <3>4. /\ Aligned(s) => InOrder(lines[c])
          /\ s.sentences # <<>> => Grouped(s.sentences, lines[c])
      BY <3>2, <3>3, TranscribeApart
    <3>. QED BY <3>4 DEF s
  <2>2. LinesAreApart BY <2>1 DEF LinesAreApart
  <2>3. LinesAreSentences BY <2>1 DEF LinesAreSentences
  <2>. QED BY <2>2, <2>3 DEF LinesAreWellCut
<1>. QED BY <1>1, AnalysisInvHolds, PTL

(* When the model gives a time to all it hears, no line is refused by the  *)
(* emotion model for want of audio, what it hears is a piece of the line   *)
(* and no longer than it takes, and the requests for a summary hold every  *)
(* line once and keep to their size: transcribe_file, _emotion_window,     *)
(* slice_wav and _chunks, for every limit.                                 *)
THEOREM EveryLineGetsRead == AnalysisSpec => []EveryLineIsRead
<1>1. ASSUME AnalysisInv PROVE EveryLineIsHeard
  <2> SUFFICES ASSUME stage = "transcribed",
                      \A c \in Channels : WellTimed(said[c]) /\ Aligned(said[c])
                                          /\ InRecording(said[c]),
                      NEW k \in DOMAIN Clips
               PROVE  /\ transcript[k].start <= Clips[k][1]
                      /\ Clips[k][1] < Clips[k][2]
                      /\ Clips[k][2] <= transcript[k].end
                      /\ Clips[k][2] - Clips[k][1] <= MaxWindow
    BY DEF EveryLineIsHeard
  <2>1. DOMAIN Clips = DOMAIN transcript /\ Clips[k] = SliceWav(EmotionWindow(transcript[k]))
    BY DEF Clips
  <2>2. transcript \in Seq(Segments) /\ DOMAIN transcript = 1..Len(transcript)
    BY <1>1, TranscriptType DEF AnalysisInv
  <2>3. k \in 1..Len(transcript) BY <2>1, <2>2
  <2>4. Readable
    <3>1. transcript # <<>> BY <2>3, EmptySeq
    <3>. QED BY <1>1, <3>1 DEF AnalysisInv, StagesOK
  <2>5. \A c \in Channels : Neat(said[c]) /\ Sensible(said[c]) BY DEF Neat, Sensible
  <2>6. Lasts(transcript) /\ Audible(transcript) BY <2>4, <2>5 DEF Readable
  <2> DEFINE l == transcript[k]
  <2>7. /\ l \in Segments /\ 0 <= l.start /\ l.start < l.end
        /\ l.end <= Duration \/ (l.start < Duration /\ l.end - l.start <= MaxWindow)
    BY <2>2, <2>3, <2>6, ElementOfSeq DEF Lasts, Audible
  <2> HIDE DEF l
  <2>8. LET clip == SliceWav(EmotionWindow(l))
        IN /\ l.start <= clip[1] /\ clip[1] < clip[2] /\ clip[2] <= l.end
           /\ clip[2] - clip[1] <= MaxWindow
    BY <2>7, WindowFits
  <2>. QED BY <2>1, <2>8 DEF l
<1>2. ASSUME AnalysisInv, RequestsOK PROVE SummaryHasEveryLine
  <2> SUFFICES ASSUME stage = "summary"
               PROVE  /\ FlattenSeq(chunks) = [k \in DOMAIN transcript |-> k]
                      /\ \A i \in DOMAIN chunks :
                            Len(chunks[i]) > 1 => Weight(Sizes, ToSet(chunks[i])) <= MaxPrompt
    BY DEF SummaryHasEveryLine, Weight
  <2> DEFINE n == Len(transcript)
             sizes == Sizes
  <2>1. chunks = PromptChunks(sizes) BY <1>2 DEF RequestsOK
  <2>2. /\ transcript \in Seq(Segments) /\ n \in Nat /\ DOMAIN transcript = 1..n
    BY <1>2, TranscriptType DEF AnalysisInv
  <2>3. sizes \in [1..n -> Nat]
    <3> SUFFICES ASSUME NEW k \in 1..n PROVE Length(transcript[k].text) + Frame \in Nat
      BY <2>2 DEF Sizes
    <3> DEFINE l == transcript[k]
    <3>3. l \in Segments BY <2>2, ElementOfSeq
    <3> HIDE DEF l
    <3>4. l.text \in Seq(Clauses) BY <3>3 DEF Segments
    <3>1. transcript[k].text \in Seq(Clauses) BY <3>4 DEF l
    <3>2. Length(transcript[k].text) \in Nat BY <3>1, LengthConcat
    <3>. QED BY <3>2, LimitsAssumption
  <2>4. [k \in DOMAIN transcript |-> k] = Numbers(n) BY <2>2 DEF Numbers
  <2> HIDE DEF n, sizes
  <2>5. /\ FlattenSeq(PromptChunks(sizes)) = Numbers(n)
        /\ \A k \in DOMAIN PromptChunks(sizes) :
              LET c == PromptChunks(sizes)[k]
              IN Len(c) > 1 => Weight(sizes, ToSet(c)) <= MaxPrompt
    BY <2>2, <2>3, ChunksFit
  <2>. QED BY <2>1, <2>4, <2>5 DEF sizes
<1>3. AnalysisInv /\ RequestsOK => EveryLineIsRead BY <1>1, <1>2 DEF EveryLineIsRead
<1>. QED BY <1>3, AnalysisInvHolds, RequestsHold, PTL

-----------------------------------------------------------------------------
(* The jobs.                                                               *)
USE SourceTypesAssumption, RetriesAssumption, RetryModulesAssumption

(* The transactions and moves, expanded together in the leaves below.      *)
USE DEF SetStatus, SetSource, SetSession, Goto, rows

-----------------------------------------------------------------------------
LEMMA SubmitType ==
  ASSUME TypeOK, NEW j \in Jobs, NEW o \in Owners, NEW m \in Modules,
         Submit(j, o, m)
  PROVE  executor' \in Seq(Items)
<1>1. <<j, o, m>> \in Items BY DEF Items
<1>. QED BY <1>1, AppendProperties DEF Submit, TypeOK

LEMMA ReleaseType ==
  ASSUME TypeOK, NEW j, NEW o, NEW m, Working(j, o, m), Release
  PROVE  executor' \in Seq(Items)
BY HeadTailProperties DEF Working, Release, TypeOK

LEMMA SetColumnType ==
  ASSUME TypeOK, NEW j \in Jobs, NEW m \in Modules, NEW s \in ModuleStatuses,
         SetColumn(j, m, s)
  PROVE  moduleStatus' \in [Jobs -> [Modules -> ModuleStatuses]]
BY DEF SetColumn, TypeOK

LEMMA SetErrorType ==
  ASSUME TypeOK, NEW j \in Jobs, NEW m \in Modules, NEW b \in BOOLEAN,
         SetError(j, m, b)
  PROVE  moduleError' \in [Jobs -> [Modules -> BOOLEAN]]
BY DEF SetError, TypeOK

LEMMA StoreType ==
  ASSUME TypeOK, NEW j \in Jobs, NEW m \in Modules, Store(j, m)
  PROVE  artifact' \in [Jobs -> [Modules -> BOOLEAN]]
BY DEF Store, TypeOK

LEMMA GotoRunType ==
  ASSUME TypeOK, NEW j \in Jobs, NEW o \in Owners, NEW m \in Analyses,
         NEW pc \in RunPc, GotoRun(j, o, m, pc)
  PROVE  run' \in [Jobs -> [Owners -> [Analyses -> RunPc]]]
BY DEF GotoRun, TypeOK

LEMMA SetDraftType ==
  ASSUME TypeOK, NEW j \in Jobs, NEW o \in Owners, NEW d \in Scores,
         SetDraft(j, o, d)
  PROVE  draft' \in [Jobs -> [Owners -> Scores]]
BY DEF SetDraft, TypeOK

LEMMA InitTypeOK == Init => TypeOK
  BY DEF Init, TypeOK, Idle, NoScore, Scores, Statuses, ModuleStatuses, MainPc,
         RunPc

LEMMA MainStepTypeOK ==
  ASSUME TypeOK, NEW j \in Jobs, MainStep(j) PROVE TypeOK'
<1> USE DEF TypeOK, Statuses, MainPc, CreatePc, DownloadPc, TranscribePc,
        AnalyzePc
<1>0. /\ Main \in Owners
      /\ "transcript" \in Modules
      /\ {"running", "completed", "failed"} \subseteq ModuleStatuses
      /\ "quality" \in Analyses
      /\ "mark" \in RunPc /\ "idle" \in RunPc
  BY DEF Owners, Modules, ModuleStatuses, Analyses, RunPc, AnalysisPc
<1>1. CASE SaveAudio(j) BY <1>1 DEF SaveAudio
<1>2. CASE RejectUpload(j) BY <1>2 DEF RejectUpload
<1>3. CASE RecordSource(j) BY <1>3 DEF RecordSource
<1>4. CASE DownloadProgress(j) BY <1>0, <1>4, SubmitType DEF DownloadProgress
<1>5. CASE Download(j) BY <1>5, ReleaseType DEF Download
<1>6. CASE Begin(j) BY <1>6 DEF Begin
<1>7. CASE TranscriptRunning(j)
  BY <1>0, <1>7, SetColumnType, SetErrorType, SubmitType DEF TranscriptRunning
<1>8. CASE TranscribeProgress(j) BY <1>8 DEF TranscribeProgress
<1>9. CASE Transcribe(j) BY <1>9, ReleaseType DEF Transcribe
<1>10. CASE SaveSegments(j) BY <1>0, <1>10, StoreType DEF SaveSegments
<1>11. CASE TranscriptCompleted(j)
  BY <1>0, <1>11, SetColumnType, SetErrorType, SubmitType DEF TranscriptCompleted
<1>12. CASE TranscriptFailed(j)
  BY <1>0, <1>12, SetColumnType, SetErrorType DEF TranscriptFailed
<1>13. CASE LoadMono(j) BY <1>13, ReleaseType DEF LoadMono
<1>14. CASE AnalyzeProgress(j) BY <1>0, <1>14 DEF AnalyzeProgress
<1>15. CASE Gather(j) BY <1>0, <1>15, GotoRunType DEF Gather
<1>16. CASE QualityReturns(j) BY <1>16 DEF QualityReturns
<1>17. CASE Complete(j) BY <1>17 DEF Complete
<1>18. CASE CloseSession(j) BY <1>18 DEF CloseSession
<1>19. CASE FailJob(j) BY <1>19 DEF FailJob
<1>20. CASE MainRaises(j) BY <1>20, ReleaseType DEF MainRaises, MainHandler
<1>. QED BY <1>1, <1>2, <1>3, <1>4, <1>5, <1>6, <1>7, <1>8, <1>9, <1>10,
            <1>11, <1>12, <1>13, <1>14, <1>15, <1>16, <1>17, <1>18, <1>19,
            <1>20 DEF MainStep

LEMMA RunStepTypeOK ==
  ASSUME TypeOK, NEW j \in Jobs, NEW o \in Owners, NEW m \in Analyses,
         RunStep(j, o, m)
  PROVE  TypeOK'
<1> USE DEF TypeOK
<1>0. /\ m \in Modules
      /\ "quality" \in Analyses /\ "quality" \in Modules
      /\ {"running", "completed", "failed"} \subseteq ModuleStatuses
      /\ RunPc = {"idle", "finished", "raised", "accept", "acceptErr", "prep",
                  "restore", "guard", "guardErr", "mark", "markErr",
                  "readEmotions", "readRisks", "work", "note", "save", "done",
                  "doneErr", "fail", "failErr"}
      /\ NoScore \in Scores
      /\ \A x \in Inputs : Stored(j, x) \in SUBSET Inputs
      /\ "emotion" \in Inputs /\ "risk" \in Inputs
  BY DEF Modules, Analyses, ModuleStatuses, RunPc, RetryPc, AnalysisPc,
         NoScore, Scores, Stored, Inputs
<1>1. CASE Mark(j, o, m) BY <1>0, <1>1, SetColumnType, GotoRunType DEF Mark
<1>2. CASE MarkErr(j, o, m)
  BY <1>0, <1>2, SetErrorType, GotoRunType, SubmitType DEF MarkErr
<1>3. CASE ReadEmotions(j, o)
  <2>1. [used |-> Stored(j, "emotion"), noted |-> {}] \in Scores BY <1>0 DEF Scores
  <2>. QED BY <1>0, <1>3, <2>1, GotoRunType, SetDraftType DEF ReadEmotions
<1>4. CASE ReadRisks(j, o)
  <2>1. draft[j][o] \in Scores OBVIOUS
  <2>2. [draft[j][o] EXCEPT !.used = @ \cup Stored(j, "risk")] \in Scores
    BY <1>0, <2>1 DEF Scores
  <2>. QED BY <1>0, <1>4, <2>2, GotoRunType, SetDraftType, SubmitType DEF ReadRisks
<1>5. CASE Work(j, o, m) BY <1>0, <1>5, GotoRunType, ReleaseType DEF Work
<1>6. CASE Note(j, o)
  <2>1. draft[j][o] \in Scores OBVIOUS
  <2>2. [draft[j][o] EXCEPT !.noted =
           {x \in Inputs : moduleStatus[j][x] = "failed"}] \in Scores
    BY <2>1 DEF Scores
  <2>. QED BY <1>0, <1>6, <2>2, GotoRunType, SetDraftType DEF Note
<1>7. CASE Save(j, o, m)
  <2>1. draft[j][o] \in Scores OBVIOUS
  <2>2. quality' \in [Jobs -> Scores]
    BY <1>7, <2>1 DEF Save
  <2>. QED BY <1>0, <1>7, <2>2, GotoRunType, StoreType, SetDraftType DEF Save
<1>8. CASE Done(j, o, m) BY <1>0, <1>8, SetColumnType, GotoRunType DEF Done
<1>9. CASE DoneErr(j, o, m)
  BY <1>0, <1>9, SetErrorType, GotoRunType DEF DoneErr, End
<1>10. CASE Fail(j, o, m) BY <1>0, <1>10, SetColumnType, GotoRunType DEF Fail
<1>11. CASE FailErr(j, o, m)
  BY <1>0, <1>11, SetErrorType, GotoRunType DEF FailErr, End
<1>12. CASE Accept(j, o, m)
  BY <1>0, <1>12, SetColumnType, GotoRunType DEF Accept
<1>13. CASE AcceptErr(j, o, m)
  BY <1>0, <1>13, SetErrorType, GotoRunType DEF AcceptErr
<1>14. CASE Prepare(j, o, m)
  BY <1>0, <1>14, GotoRunType, SubmitType DEF Prepare
<1>15. CASE Restore(j, o, m) BY <1>0, <1>15, GotoRunType, ReleaseType DEF Restore
<1>16. CASE RunRaises(j, o, m)
  <2>1. RunHandler(o, run[j][o][m]) \in RunPc BY <1>0 DEF RunHandler
  <2>. QED BY <1>16, <2>1, GotoRunType DEF RunRaises
<1>. QED BY <1>1, <1>2, <1>3, <1>4, <1>5, <1>6, <1>7, <1>8, <1>9, <1>10,
            <1>11, <1>12, <1>13, <1>14, <1>15, <1>16 DEF RunStep

LEMMA CreateTypeOK == ASSUME TypeOK, NEW j \in Jobs, Create(j) PROVE TypeOK'
BY DEF Create, TypeOK, Statuses, MainPc, CreatePc, DownloadPc

LEMMA RequestRetryTypeOK ==
  ASSUME TypeOK, NEW j \in Jobs, NEW r \in Retries, NEW m \in RetryModules,
         RequestRetry(j, r, m)
  PROVE  TypeOK'
<1>1. r \in Owners /\ m \in Analyses /\ "accept" \in RunPc
  BY DEF Owners, RunPc, RetryPc
<1>. QED BY <1>1, GotoRunType DEF RequestRetry, TypeOK

LEMMA RestartTypeOK == ASSUME TypeOK, Restart PROVE TypeOK'
<1>1. "idle" \in RunPc /\ NoScore \in Scores /\ <<>> \in Seq(Items)
  BY DEF RunPc, NoScore, Scores
<1>2. status' \in [Jobs -> Statuses \cup {"none"}]
  BY DEF Restart, TypeOK, Statuses
<1>3. main' \in [Jobs -> MainPc]
  BY DEF Restart, MainPc
<1>4. run' \in [Jobs -> [Owners -> [Analyses -> RunPc]]]
  BY <1>1 DEF Restart, Idle
<1>5. draft' \in [Jobs -> [Owners -> Scores]]
  BY <1>1 DEF Restart
<1>. QED BY <1>1, <1>2, <1>3, <1>4, <1>5 DEF Restart, TypeOK

LEMMA StepTypeOK == TypeOK /\ [Next]_vars => TypeOK'
<1>1. ASSUME TypeOK, UNCHANGED vars PROVE TypeOK'
  BY <1>1 DEF vars, TypeOK
<1>2. ASSUME TypeOK, Next PROVE TypeOK'
  BY <1>2, CreateTypeOK, MainStepTypeOK, RunStepTypeOK, RequestRetryTypeOK,
     RestartTypeOK DEF Next
<1>. QED BY <1>1, <1>2

(* Every column, error row, coroutine state and queued piece of work stays *)
(* within the values the code knows, whatever the interleaving.            *)
THEOREM TypeCorrect == Spec => []TypeOK
BY InitTypeOK, StepTypeOK, PTL DEF Spec

-----------------------------------------------------------------------------
(* The inductive invariant.  A step on behalf of one job leaves the others *)
(* alone (Locality); RunMove is what a step of _run_<module> may do and    *)
(* MainMove and TranscriptMove what a step of the job's own coroutine may. *)

Same(k) ==
    /\ status'[k] = status[k]
    /\ main'[k] = main[k]
    /\ moduleStatus'[k] = moduleStatus[k]
    /\ artifact'[k] = artifact[k]
    /\ run'[k] = run[k]

LEMMA SetColumnEffect ==
  ASSUME TypeOK, NEW j \in Jobs, NEW m \in Modules, NEW s, SetColumn(j, m, s)
  PROVE  /\ moduleStatus'[j][m] = s
         /\ \A n \in Modules \ {m} : moduleStatus'[j][n] = moduleStatus[j][n]
         /\ \A k \in Jobs \ {j} : moduleStatus'[k] = moduleStatus[k]
BY DEF SetColumn, TypeOK

LEMMA StoreEffect ==
  ASSUME TypeOK, NEW j \in Jobs, NEW m \in Modules, Store(j, m)
  PROVE  /\ artifact'[j][m] = TRUE
         /\ \A n \in Modules \ {m} : artifact'[j][n] = artifact[j][n]
         /\ \A k \in Jobs \ {j} : artifact'[k] = artifact[k]
BY DEF Store, TypeOK

LEMMA GotoRunEffect ==
  ASSUME TypeOK, NEW j \in Jobs, NEW o \in Owners, NEW m \in Analyses, NEW pc,
         GotoRun(j, o, m, pc)
  PROVE  /\ run'[j][o][m] = pc
         /\ \A p \in Owners, n \in Analyses :
               <<p, n>> # <<o, m>> => run'[j][p][n] = run[j][p][n]
         /\ \A k \in Jobs \ {j} : run'[k] = run[k]
BY DEF GotoRun, TypeOK

LEMMA Locality ==
  ASSUME IInv, TypeOK', NEW j \in Jobs, \A k \in Jobs \ {j} : Same(k), JobInv(j)'
  PROVE  IInv'
<1>1. ASSUME NEW k \in Jobs \ {j} PROVE JobInv(k)'
  <2>1. Same(k) /\ JobInv(k) BY DEF IInv
  <2>. QED BY <2>1 DEF Same, JobInv, MainInv, CompletionInv, ModuleInv, RunInv, Attempted
<1>. QED BY <1>1 DEF IInv


LEMMA RunMove ==
  ASSUME IInv, TypeOK', NEW j \in Jobs, NEW o \in Owners, NEW m \in Analyses,
         NEW pc \in RunPc, GotoRun(j, o, m, pc),
         run[j][o][m] \notin {"idle", "finished"},
         UNCHANGED <<status, main>>,
         \/ UNCHANGED moduleStatus
         \/ \E s \in ModuleStatuses \ {"pending"} :
               SetColumn(j, m, s) /\ (s = "completed" => artifact[j][m]),
         UNCHANGED artifact \/ Store(j, m),
         pc = "done" => artifact'[j][m],
         Attempted(o, pc) => moduleStatus'[j][m] # "pending"
  PROVE  IInv'
<1>0. /\ m \in Modules /\ m # "transcript" /\ "transcript" \in Modules
      /\ Analyses \subseteq Modules /\ "quality" \in Analyses /\ Main \in Owners
  BY DEF Modules, Analyses, Owners
<1>1. TypeOK /\ JobInv(j) BY DEF IInv
<1>2. moduleStatus[j]["transcript"] = "completed"
  BY <1>1 DEF JobInv, RunInv
<1>3. /\ \A n \in Modules \ {m} : moduleStatus'[j][n] = moduleStatus[j][n]
      /\ \A k \in Jobs \ {j} : moduleStatus'[k] = moduleStatus[k]
      /\ \/ moduleStatus'[j][m] = moduleStatus[j][m]
         \/ /\ moduleStatus'[j][m] # "pending"
            /\ moduleStatus'[j][m] = "completed" => artifact[j][m]
  BY <1>0, <1>1, SetColumnEffect DEF ModuleStatuses
<1>4. /\ \A n \in Modules : artifact[j][n] => artifact'[j][n]
      /\ \A k \in Jobs \ {j} : artifact'[k] = artifact[k]
  BY <1>0, <1>1, StoreEffect
<1>5. /\ run'[j][o][m] = pc
      /\ \A p \in Owners, n \in Analyses :
            <<p, n>> # <<o, m>> => run'[j][p][n] = run[j][p][n]
      /\ \A k \in Jobs \ {j} : run'[k] = run[k]
  BY <1>1, GotoRunEffect
<1>6. \A k \in Jobs \ {j} : Same(k) BY <1>3, <1>4, <1>5 DEF Same
<1>7. JobInv(j)'
  <2>1. MainInv(j)'
    BY <1>0, <1>1, <1>2, <1>3, <1>4, <1>5 DEF JobInv, MainInv
  <2>2. CompletionInv(j)'
    BY <1>0, <1>1, <1>2, <1>3 DEF JobInv, CompletionInv
  <2>3. \A n \in Modules : ModuleInv(j, n)'
    BY <1>0, <1>1, <1>2, <1>3, <1>4 DEF JobInv, ModuleInv
  <2>4. \A p \in Owners, n \in Analyses : RunInv(j, p, n)'
    <3>1. SUFFICES ASSUME NEW p \in Owners, NEW n \in Analyses
                   PROVE  RunInv(j, p, n)'
      OBVIOUS
    <3>2. CASE p = o /\ n = m
      BY <1>0, <1>2, <1>3, <1>5, <3>2 DEF RunInv
    <3>3. CASE ~(p = o /\ n = m)
      <4>1. run'[j][p][n] = run[j][p][n] BY <1>5, <3>3
      <4>2. RunInv(j, p, n) BY <1>1 DEF JobInv
      <4>. QED BY <1>0, <1>2, <1>3, <1>4, <4>1, <4>2 DEF RunInv, Attempted
    <3>. QED BY <3>2, <3>3
  <2>. QED BY <2>1, <2>2, <2>3, <2>4 DEF JobInv
<1>. QED BY <1>6, <1>7, Locality

LEMMA RunStepIInv ==
  ASSUME IInv, TypeOK', NEW j \in Jobs, NEW o \in Owners, NEW m \in Analyses,
         RunStep(j, o, m)
  PROVE  IInv'
<1>1. TypeOK /\ RunInv(j, o, m) BY DEF IInv, JobInv
<1>2. RunPc = {"idle", "finished", "raised", "accept", "acceptErr", "prep",
               "restore", "guard", "guardErr", "mark", "markErr",
               "readEmotions", "readRisks", "work", "note", "save", "done",
               "doneErr", "fail", "failErr"}
  BY DEF RunPc, RetryPc, AnalysisPc
<1>3. /\ {"running", "completed", "failed"} \subseteq ModuleStatuses \ {"pending"}
      /\ m \in Modules /\ "quality" \in Analyses /\ "quality" \in Modules
  BY DEF ModuleStatuses, Modules, Analyses
<1>4. CASE Mark(j, o, m)
  BY <1>1, <1>2, <1>3, <1>4, RunMove, SetColumnEffect DEF Mark
<1>5. CASE MarkErr(j, o, m)
  BY <1>1, <1>2, <1>5, RunMove DEF MarkErr, RunInv, Attempted
<1>6. CASE m = "quality" /\ ReadEmotions(j, o)
  BY <1>1, <1>2, <1>6, RunMove DEF ReadEmotions, RunInv, Attempted
<1>7. CASE m = "quality" /\ ReadRisks(j, o)
  BY <1>1, <1>2, <1>7, RunMove DEF ReadRisks, RunInv, Attempted
<1>8. CASE Work(j, o, m)
  BY <1>1, <1>2, <1>8, RunMove DEF Work, RunInv, Attempted
<1>9. CASE m = "quality" /\ Note(j, o)
  BY <1>1, <1>2, <1>9, RunMove DEF Note, RunInv, Attempted
<1>10. CASE Save(j, o, m)
  BY <1>1, <1>2, <1>3, <1>10, RunMove, StoreEffect DEF Save, RunInv, Attempted
<1>11. CASE Done(j, o, m)
  BY <1>1, <1>2, <1>3, <1>11, RunMove, SetColumnEffect DEF Done, RunInv
<1>12. CASE DoneErr(j, o, m)
  BY <1>1, <1>2, <1>12, RunMove DEF DoneErr, End, RunInv, Attempted
<1>13. CASE Fail(j, o, m)
  BY <1>1, <1>2, <1>3, <1>13, RunMove, SetColumnEffect DEF Fail
<1>14. CASE FailErr(j, o, m)
  BY <1>1, <1>2, <1>14, RunMove DEF FailErr, End, RunInv, Attempted
<1>15. CASE Accept(j, o, m)
  BY <1>1, <1>2, <1>3, <1>15, RunMove, SetColumnEffect DEF Accept
<1>16. CASE AcceptErr(j, o, m)
  BY <1>1, <1>2, <1>16, RunMove DEF AcceptErr, RunInv, Attempted
<1>17. CASE Prepare(j, o, m)
  BY <1>1, <1>2, <1>17, RunMove DEF Prepare, RunInv, Attempted
<1>18. CASE Restore(j, o, m)
  BY <1>1, <1>2, <1>18, RunMove DEF Restore, RunInv, Attempted
<1>19. CASE RunRaises(j, o, m)
  <2> DEFINE pc == run[j][o][m]
             h == RunHandler(o, pc)
  <2>1. pc \in RunAwaited /\ pc \notin {"idle", "finished", "raised"}
    BY <1>19 DEF RunRaises, RunAwaited, RetryPc, AnalysisPc
  <2>2. h \in RunPc /\ h # "done"
    BY <1>2 DEF RunHandler
  <2>3. Attempted(o, h) => Attempted(o, pc)
    <3>1. CASE pc = "mark" /\ o = Main
      BY <3>1 DEF RunHandler, Attempted
    <3>2. CASE pc = "accept" BY <3>2 DEF RunHandler, Attempted
    <3>3. CASE pc # "accept" /\ (pc = "mark" => o # Main)
      BY <2>1, <3>3 DEF Attempted
    <3>. QED BY <3>1, <3>2, <3>3
  <2>4. Attempted(o, h) => moduleStatus[j][m] # "pending"
    BY <1>1, <2>3 DEF RunInv
  <2>5. GotoRun(j, o, m, h) /\ UNCHANGED <<status, main, moduleStatus, artifact>>
    BY <1>19 DEF RunRaises
  <2>. HIDE DEF h, pc
  <2>. QED BY <2>1, <2>2, <2>4, <2>5, RunMove DEF pc
<1>. QED BY <1>4, <1>5, <1>6, <1>7, <1>8, <1>9, <1>10, <1>11, <1>12, <1>13,
            <1>14, <1>15, <1>16, <1>17, <1>18, <1>19 DEF RunStep

LEMMA MainMove ==
  ASSUME IInv, TypeOK', NEW j \in Jobs, UNCHANGED run,
         \A k \in Jobs \ {j} : status'[k] = status[k] /\ main'[k] = main[k],
         \/ UNCHANGED moduleStatus
         \/ /\ main[j] \in TranscribingPc
            /\ \E s \in ModuleStatuses :
                  /\ SetColumn(j, "transcript", s)
                  /\ s = "completed" => artifact[j]["transcript"],
         UNCHANGED artifact \/ Store(j, "transcript"),
         MainInv(j)', CompletionInv(j)'
  PROVE  IInv'
<1>0. "transcript" \in Modules /\ Analyses = Modules \ {"transcript"}
  BY DEF Modules, Analyses
<1>1. TypeOK /\ JobInv(j) BY DEF IInv
<1>2. /\ \A n \in Analyses : moduleStatus'[j][n] = moduleStatus[j][n]
      /\ \A k \in Jobs \ {j} : moduleStatus'[k] = moduleStatus[k]
      /\ \/ moduleStatus'[j]["transcript"] = moduleStatus[j]["transcript"]
         \/ /\ moduleStatus[j]["transcript"] # "completed"
            /\ moduleStatus'[j]["transcript"] = "completed" =>
                  artifact[j]["transcript"]
  BY <1>0, <1>1, SetColumnEffect DEF JobInv, MainInv
<1>3. /\ \A n \in Modules : artifact[j][n] => artifact'[j][n]
      /\ \A k \in Jobs \ {j} : artifact'[k] = artifact[k]
  BY <1>0, <1>1, StoreEffect
<1>4. \A k \in Jobs \ {j} : Same(k) BY <1>2, <1>3 DEF Same
<1>5. \A n \in Modules : ModuleInv(j, n)'
  BY <1>0, <1>1, <1>2, <1>3 DEF JobInv, ModuleInv
<1>6. \A p \in Owners, n \in Analyses : RunInv(j, p, n)'
  BY <1>0, <1>1, <1>2, <1>3 DEF JobInv, RunInv, Attempted
<1>. QED BY <1>4, <1>5, <1>6, Locality DEF JobInv

LEMMA TranscriptMove ==
  ASSUME IInv, TypeOK', NEW j \in Jobs, NEW s \in ModuleStatuses, NEW pc,
         main[j] \in TranscribingPc \ {"none"},
         SetColumn(j, "transcript", s), Goto(j, pc),
         UNCHANGED <<run, status, artifact>>,
         \/ s # "completed" /\ pc \in TranscribingPc \ {"none", "tDone"}
         \/ s = "completed" /\ pc = "tDoneErr" /\ artifact[j]["transcript"]
  PROVE  IInv'
<1>0. TypeOK /\ MainInv(j) /\ CompletionInv(j) BY DEF IInv, JobInv
<1>1. "transcript" \in Modules BY DEF Modules
<1>2. moduleStatus'[j]["transcript"] = s
  BY <1>0, <1>1, SetColumnEffect
<1>3. main'[j] = pc /\ \A k \in Jobs \ {j} : main'[k] = main[k]
  BY <1>0 DEF TypeOK
<1>4. MainInv(j)'
  BY <1>0, <1>2, <1>3 DEF MainInv, TranscribingPc, AnalyzingPc
<1>5. CompletionInv(j)'
  BY <1>0 DEF MainInv, CompletionInv
<1>. QED BY <1>3, <1>4, <1>5, MainMove

LEMMA MainStepIInv ==
  ASSUME IInv, TypeOK', NEW j \in Jobs, MainStep(j)
  PROVE  IInv'
<1>1. TypeOK /\ MainInv(j) /\ CompletionInv(j) BY DEF IInv, JobInv
<1>2. /\ "transcript" \in Modules /\ "transcript" \notin Analyses
      /\ {"running", "completed", "failed"} \subseteq ModuleStatuses
      /\ Main \in Owners /\ "quality" \in Analyses
  BY DEF Modules, Analyses, ModuleStatuses, Owners
<1>3. \A k \in Jobs, m \in Analyses :
         run[k][Main][m] = "finished" => moduleStatus[k][m] # "pending"
  BY <1>2 DEF IInv, JobInv, RunInv, Attempted
<1>4. main \in [Jobs -> MainPc] /\ status \in [Jobs -> Statuses \cup {"none"}]
  BY <1>1 DEF TypeOK
<1> USE <1>1, <1>4, MainMove DEF MainInv, TranscribingPc, AnalyzingPc
<1>5. CASE SaveAudio(j) BY <1>5 DEF SaveAudio, CompletionInv
<1>6. CASE RejectUpload(j) BY <1>6 DEF RejectUpload, CompletionInv
<1>7. CASE RecordSource(j) BY <1>7 DEF RecordSource, CompletionInv
<1>8. CASE DownloadProgress(j) BY <1>8 DEF DownloadProgress, CompletionInv
<1>9. CASE Download(j) BY <1>9 DEF Download, CompletionInv
<1>10. CASE Begin(j) BY <1>10 DEF Begin, CompletionInv
<1>13. CASE TranscribeProgress(j) BY <1>13 DEF TranscribeProgress, CompletionInv
<1>14. CASE Transcribe(j) BY <1>14 DEF Transcribe, CompletionInv
<1>15. CASE SaveSegments(j)
  BY <1>2, <1>15, StoreEffect DEF SaveSegments, CompletionInv
<1>20. CASE LoadMono(j) BY <1>20 DEF LoadMono, CompletionInv
<1>23. CASE QualityReturns(j)
  BY <1>2, <1>23 DEF QualityReturns, CompletionInv
<1>24. CASE Complete(j) BY <1>3, <1>24 DEF Complete, CompletionInv
<1>25. CASE CloseSession(j) BY <1>25 DEF CloseSession, CompletionInv
<1>26. CASE FailJob(j) BY <1>26 DEF FailJob, CompletionInv
<1>27. CASE MainRaises(j)
  BY <1>27 DEF MainRaises, MainHandler, Awaited, CompletionInv
<1>11. CASE TranscriptRunning(j)
  BY <1>2, <1>11, TranscriptMove DEF TranscriptRunning, CompletionInv
<1>16. CASE TranscriptCompleted(j)
  <2>1. CASE main[j] = "tDone"
    BY <1>2, <1>16, <2>1, TranscriptMove DEF TranscriptCompleted
  <2>2. CASE main[j] = "tDoneErr"
    BY <1>16, <2>2 DEF TranscriptCompleted, CompletionInv
  <2>. QED BY <1>16, <2>1, <2>2 DEF TranscriptCompleted
<1>18. CASE TranscriptFailed(j)
  BY <1>2, <1>18, TranscriptMove DEF TranscriptFailed, CompletionInv
<1>21. CASE AnalyzeProgress(j)
  <2>1. /\ status'[j] = "running" /\ main'[j] = "gather"
        /\ \A k \in Jobs \ {j} : Same(k)
        /\ UNCHANGED <<moduleStatus, artifact>>
    BY <1>21 DEF AnalyzeProgress, TypeOK, Same
  <2>2. /\ \A o \in Retries : run'[j][o] = run[j][o]
        /\ \A m \in Analyses : run'[j][Main][m] \in {"idle", "mark"}
    BY <1>2, <1>21 DEF AnalyzeProgress, TypeOK, Owners
  <2>3. moduleStatus[j]["transcript"] = "completed"
    BY <1>21 DEF AnalyzeProgress
  <2>4. MainInv(j)' /\ CompletionInv(j)'
    BY <2>1, <2>3 DEF CompletionInv
  <2>5. \A m \in Modules : ModuleInv(j, m)'
    BY <2>1 DEF IInv, JobInv, ModuleInv
  <2>6. \A o \in Owners, m \in Analyses : RunInv(j, o, m)'
    BY <2>1, <2>2, <2>3 DEF IInv, JobInv, RunInv, Attempted, Owners
  <2>. QED BY <2>1, <2>4, <2>5, <2>6, Locality DEF JobInv
<1>22. CASE Gather(j)
  <2>1. CASE UNCHANGED run BY <1>22, <2>1 DEF Gather, CompletionInv
  <2>2. CASE /\ \A m \in Analyses \ {"quality"} : run[j][Main][m] = "finished"
             /\ main'[j] = "quality"
             /\ GotoRun(j, Main, "quality", "mark")
    <3>1. /\ run'[j][Main]["quality"] = "mark"
          /\ \A o \in Owners, m \in Analyses :
                <<o, m>> # <<Main, "quality">> => run'[j][o][m] = run[j][o][m]
          /\ \A k \in Jobs \ {j} : run'[k] = run[k]
      BY <1>2, <2>2, GotoRunEffect
    <3>2. /\ \A k \in Jobs \ {j} : Same(k)
          /\ UNCHANGED <<status, moduleStatus, artifact>>
          /\ moduleStatus[j]["transcript"] = "completed" /\ status[j] = "running"
      BY <1>22, <3>1 DEF Gather, Same
    <3>3. MainInv(j)' /\ CompletionInv(j)'
      <4>1. \A m \in Analyses \ {"quality"} : run'[j][Main][m] = "finished"
        BY <1>2, <2>2, <3>1
      <4>. QED BY <2>2, <3>2, <4>1 DEF CompletionInv
    <3>4. \A m \in Modules : ModuleInv(j, m)'
      BY <3>2 DEF IInv, JobInv, ModuleInv
    <3>5. ASSUME NEW o \in Owners, NEW m \in Analyses PROVE RunInv(j, o, m)'
      <4>1. CASE o = Main /\ m = "quality"
        <5>1. run'[j][o][m] = "mark" BY <3>1, <4>1
        <5>. QED BY <3>2, <4>1, <5>1 DEF RunInv, Attempted
      <4>2. CASE ~(o = Main /\ m = "quality")
        <5>1. run'[j][o][m] = run[j][o][m] BY <3>1, <4>2
        <5>2. RunInv(j, o, m) BY DEF IInv, JobInv
        <5>. QED BY <3>2, <5>1, <5>2 DEF RunInv, Attempted
      <4>. QED BY <4>1, <4>2
    <3>. QED BY <3>2, <3>3, <3>4, <3>5, Locality DEF JobInv
  <2>. QED BY <1>22, <2>1, <2>2 DEF Gather
<1>. QED BY <1>5, <1>6, <1>7, <1>8, <1>9, <1>10, <1>11, <1>13, <1>14, <1>15,
            <1>16, <1>18, <1>20, <1>21, <1>22, <1>23, <1>24, <1>25, <1>26,
            <1>27 DEF MainStep

LEMMA CreateIInv == ASSUME IInv, TypeOK', NEW j \in Jobs, Create(j) PROVE IInv'
<1>1. TypeOK /\ MainInv(j) BY DEF IInv, JobInv
<1>. QED BY <1>1, MainMove
         DEF Create, TypeOK, MainInv, CompletionInv, TranscribingPc, AnalyzingPc

LEMMA RequestRetryIInv ==
  ASSUME IInv, TypeOK', NEW j \in Jobs, NEW r \in Retries, NEW m \in RetryModules,
         RequestRetry(j, r, m)
  PROVE  IInv'
<1>1. r \in Owners /\ r # Main /\ m \in Analyses /\ Main \in Owners
  BY DEF Owners
<1>2. TypeOK /\ JobInv(j) BY DEF IInv
<1>3. /\ run'[j][r][m] = "accept"
      /\ \A o \in Owners, n \in Analyses :
            <<o, n>> # <<r, m>> => run'[j][o][n] = run[j][o][n]
      /\ \A k \in Jobs \ {j} : run'[k] = run[k]
  BY <1>1, <1>2, GotoRunEffect DEF RequestRetry
<1>4. UNCHANGED <<status, main, moduleStatus, artifact>>
  BY DEF RequestRetry
<1>5. \A k \in Jobs \ {j} : Same(k) BY <1>3, <1>4 DEF Same
<1>6. MainInv(j)' /\ CompletionInv(j)'
  BY <1>1, <1>2, <1>3, <1>4 DEF JobInv, MainInv, CompletionInv
<1>7. \A n \in Modules : ModuleInv(j, n)'
  BY <1>2, <1>4 DEF JobInv, ModuleInv
<1>8. ASSUME NEW o \in Owners, NEW n \in Analyses PROVE RunInv(j, o, n)'
  <2>1. CASE o = r /\ n = m
    BY <1>3, <1>4, <2>1 DEF RunInv, Attempted, RequestRetry
  <2>2. CASE ~(o = r /\ n = m)
    BY <1>2, <1>3, <1>4, <2>2 DEF JobInv, RunInv, Attempted
  <2>. QED BY <2>1, <2>2
<1>. QED BY <1>5, <1>6, <1>7, <1>8, Locality DEF JobInv

LEMMA RestartIInv == ASSUME IInv, TypeOK', Restart PROVE IInv'
<1>1. ASSUME NEW j \in Jobs PROVE JobInv(j)'
  <2>1. JobInv(j) /\ TypeOK BY DEF IInv
  <2>2. /\ status'[j] = IF status[j] = "running" THEN "interrupted" ELSE status[j]
        /\ main'[j] = IF main[j] = "none" THEN "none" ELSE "end"
        /\ \A o \in Owners, m \in Analyses : run'[j][o][m] = "idle"
        /\ UNCHANGED <<moduleStatus, artifact>>
    BY DEF Restart, Idle
  <2>3. MainInv(j)' /\ CompletionInv(j)'
    BY <2>1, <2>2
       DEF JobInv, MainInv, CompletionInv, TranscribingPc, AnalyzingPc
  <2>4. \A m \in Modules : ModuleInv(j, m)'
    BY <2>1, <2>2 DEF JobInv, ModuleInv
  <2>5. \A o \in Owners, m \in Analyses : RunInv(j, o, m)'
    BY <2>2 DEF RunInv, Attempted
  <2>. QED BY <2>3, <2>4, <2>5 DEF JobInv
<1>. QED BY <1>1 DEF IInv

LEMMA InitIInv == Init => IInv
BY InitTypeOK DEF Init, IInv, JobInv, MainInv, CompletionInv, ModuleInv, RunInv,
                  Attempted, Idle, AnalyzingPc, Modules

LEMMA StepIInv == IInv /\ [Next]_vars => IInv'
<1>1. ASSUME IInv, [Next]_vars PROVE TypeOK'
  BY <1>1, StepTypeOK DEF IInv
<1>2. ASSUME IInv, UNCHANGED vars PROVE IInv'
  BY <1>2 DEF vars, IInv, TypeOK, JobInv, MainInv, CompletionInv, ModuleInv,
              RunInv, Attempted
<1>3. ASSUME IInv, Next PROVE IInv'
  BY <1>1, <1>3, CreateIInv, MainStepIInv, RunStepIInv, RequestRetryIInv,
     RestartIInv DEF Next, RetryPc
<1>. QED BY <1>2, <1>3

(* What every coroutine has already written agrees with its control state: *)
(* the strengthening the invariants below need.                            *)
THEOREM Invariance == Spec => []IInv
BY InitIInv, StepIInv, PTL DEF Spec

(* What the rows say is completed has its result stored.                   *)
THEOREM CompletedHasArtifactHolds == Spec => []CompletedHasArtifact
<1>1. IInv => CompletedHasArtifact
  BY DEF IInv, JobInv, ModuleInv, CompletedHasArtifact
<1>. QED BY <1>1, Invariance, PTL

(* No analysis is attempted, by anyone, before the transcript is complete. *)
THEOREM AnalysisAfterTranscriptHolds == Spec => []AnalysisAfterTranscript
<1>1. IInv => AnalysisAfterTranscript
  <2>1. Analyses \subseteq Modules /\ "transcript" \notin Analyses
    BY DEF Analyses, Modules
  <2>. QED BY <2>1 DEF IInv, JobInv, ModuleInv, RunInv, AnalysisAfterTranscript
<1>. QED BY <1>1, Invariance, PTL

(* A completed job has its transcript and has attempted every analysis.    *)
THEOREM CompletedJobIsAnalyzedHolds == Spec => []CompletedJobIsAnalyzed
<1>1. IInv => CompletedJobIsAnalyzed
  BY DEF IInv, JobInv, CompletionInv, CompletedJobIsAnalyzed
<1>. QED BY <1>1, Invariance, PTL

-----------------------------------------------------------------------------
(* The transcript.                                                         *)

LEMMA TranscriptKeptStep ==
  ASSUME IInv, Next, NEW k \in Jobs, moduleStatus[k]["transcript"] = "completed"
  PROVE  moduleStatus'[k]["transcript"] = "completed"
<1>1. TypeOK /\ MainInv(k) BY DEF IInv, JobInv
<1>2. "transcript" \in Modules /\ Analyses \subseteq Modules \ {"transcript"}
  BY DEF Modules, Analyses
<1>3. ASSUME NEW j \in Jobs, MainStep(j)
      PROVE  \/ UNCHANGED moduleStatus
             \/ /\ main[j] \in TranscribingPc
                /\ \E s \in {"running", "completed", "failed"} :
                      SetColumn(j, "transcript", s)
  BY <1>3
     DEF MainStep, SaveAudio, RejectUpload, RecordSource, DownloadProgress,
         Download, Begin, TranscriptRunning, TranscribeProgress, Transcribe,
         SaveSegments, TranscriptCompleted, TranscriptFailed, LoadMono,
         AnalyzeProgress, Gather, QualityReturns, Complete, CloseSession,
         FailJob, MainRaises, TranscribingPc
<1>4. ASSUME NEW j \in Jobs, NEW o \in Owners, NEW m \in Analyses, RunStep(j, o, m)
      PROVE  UNCHANGED moduleStatus \/ \E s : SetColumn(j, m, s)
  BY <1>4, Zenon
     DEF RunStep, Mark, MarkErr, ReadEmotions, ReadRisks, Work, Note, Save,
         Done, DoneErr, Fail, FailErr, Accept, AcceptErr, Prepare, Restore,
         RunRaises
<1>5. CASE \E j \in Jobs : MainStep(j)
  <2>1. PICK j \in Jobs : MainStep(j) BY <1>5
  <2>2. CASE j = k
    BY <1>1, <1>3, <2>1, <2>2 DEF MainInv
  <2>3. CASE j # k
    BY <1>1, <1>2, <1>3, <2>1, <2>3, SetColumnEffect
  <2>. QED BY <2>2, <2>3
<1>6. CASE \E j \in Jobs, o \in Owners, m \in Analyses : RunStep(j, o, m)
  <2>1. PICK j \in Jobs, o \in Owners, m \in Analyses : RunStep(j, o, m)
    BY <1>6
  <2>2. UNCHANGED moduleStatus \/ \E s : SetColumn(j, m, s) BY <1>4, <2>1
  <2>. QED BY <1>1, <1>2, <2>2, SetColumnEffect
<1>7. CASE \/ \E j \in Jobs : Create(j)
           \/ \E j \in Jobs, r \in Retries, m \in RetryModules :
                 RequestRetry(j, r, m)
           \/ Restart
  BY <1>7 DEF Create, RequestRetry, Restart
<1>. QED BY <1>5, <1>6, <1>7 DEF Next

(* A transcript once readable stays readable.                              *)
THEOREM TranscriptIsKeptHolds == Spec => TranscriptIsKept
<1>1. IInv /\ [Next]_vars =>
        [\A j \in Jobs : moduleStatus[j]["transcript"] = "completed" =>
            moduleStatus'[j]["transcript"] = "completed"]_vars
  BY TranscriptKeptStep DEF vars
<1>. QED BY <1>1, Invariance, PTL DEF Spec, TranscriptIsKept

-----------------------------------------------------------------------------
(* The overall status, when transactions do not raise.                     *)

LEMMA StatusStep ==
  ASSUME TypeOK, Next, "db" \notin Faults, OpenInv, NEW k \in Jobs
  PROVE  /\ main'[k] \notin {"none", "end", "close"} =>
               status'[k] \in {"queued", "running"}
         /\ status[k] \in Terminal => status'[k] = status[k]
<1>1. /\ main[k] \notin {"none", "end", "close"} => status[k] \in {"queued", "running"}
      /\ main \in [Jobs -> MainPc] /\ status \in [Jobs -> Statuses \cup {"none"}]
  BY DEF OpenInv, TypeOK
<1> USE <1>1 DEF Terminal
<1>2. ASSUME NEW j \in Jobs, MainStep(j), j = k
      PROVE  /\ main'[k] \notin {"none", "end", "close"} =>
                   status'[k] \in {"queued", "running"}
             /\ status[k] \in Terminal => status'[k] = status[k]
  <2> USE <1>2
  <2>1. CASE SaveAudio(j) BY <2>1 DEF SaveAudio
  <2>2. CASE RejectUpload(j) BY <2>2 DEF RejectUpload
  <2>3. CASE RecordSource(j) BY <2>3 DEF RecordSource
  <2>4. CASE DownloadProgress(j) BY <2>4 DEF DownloadProgress
  <2>5. CASE Download(j) BY <2>5 DEF Download
  <2>6. CASE Begin(j) BY <2>6 DEF Begin
  <2>7. CASE TranscriptRunning(j) BY <2>7 DEF TranscriptRunning
  <2>8. CASE TranscribeProgress(j) BY <2>8 DEF TranscribeProgress
  <2>9. CASE Transcribe(j) BY <2>9 DEF Transcribe
  <2>10. CASE SaveSegments(j) BY <2>10 DEF SaveSegments
  <2>11. CASE TranscriptCompleted(j) BY <2>11 DEF TranscriptCompleted
  <2>12. CASE TranscriptFailed(j) BY <2>12 DEF TranscriptFailed
  <2>13. CASE LoadMono(j) BY <2>13 DEF LoadMono
  <2>14. CASE AnalyzeProgress(j) BY <2>14 DEF AnalyzeProgress
  <2>15. CASE Gather(j) BY <2>15 DEF Gather
  <2>16. CASE QualityReturns(j) BY <2>16 DEF QualityReturns
  <2>17. CASE Complete(j) BY <2>17 DEF Complete
  <2>18. CASE CloseSession(j) BY <2>18 DEF CloseSession
  <2>19. CASE FailJob(j) BY <2>19 DEF FailJob
  <2>20. CASE MainRaises(j) BY <2>20 DEF MainRaises
  <2>. QED BY <1>2, <2>1, <2>2, <2>3, <2>4, <2>5, <2>6, <2>7, <2>8, <2>9,
              <2>10, <2>11, <2>12, <2>13, <2>14, <2>15, <2>16, <2>17, <2>18,
              <2>19, <2>20 DEF MainStep
<1>3. ASSUME NEW j \in Jobs, MainStep(j), j # k
      PROVE  status'[k] = status[k] /\ main'[k] = main[k]
  BY <1>3
     DEF MainStep, SaveAudio, RejectUpload, RecordSource, DownloadProgress,
         Download, Begin, TranscriptRunning, TranscribeProgress, Transcribe,
         SaveSegments, TranscriptCompleted, TranscriptFailed, LoadMono,
         AnalyzeProgress, Gather, QualityReturns, Complete, CloseSession,
         FailJob, MainRaises
<1>4. ASSUME NEW j \in Jobs, NEW o \in Owners, NEW m \in Analyses, RunStep(j, o, m)
      PROVE  UNCHANGED <<status, main>>
  BY <1>4
     DEF RunStep, Mark, MarkErr, ReadEmotions, ReadRisks, Work, Note, Save,
         Done, DoneErr, Fail, FailErr, Accept, AcceptErr, Prepare, Restore,
         RunRaises
<1>5. ASSUME NEW j \in Jobs, Create(j)
      PROVE  /\ main'[k] \notin {"none", "end", "close"} =>
                   status'[k] \in {"queued", "running"}
             /\ status[k] \in Terminal => status'[k] = status[k]
  BY <1>5 DEF Create
<1>6. CASE Restart BY <1>6 DEF Restart
<1>7. CASE \E j \in Jobs, r \in Retries, m \in RetryModules :
              RequestRetry(j, r, m)
  BY <1>7 DEF RequestRetry
<1>. QED BY <1>2, <1>3, <1>4, <1>5, <1>6, <1>7 DEF Next

LEMMA OpenInvInductive ==
  /\ Init => OpenInv
  /\ TypeOK /\ OpenInv /\ [Next]_vars => OpenInv'
<1>1. Init => OpenInv BY DEF Init, OpenInv
<1>2. ASSUME TypeOK, OpenInv, Next PROVE OpenInv'
  BY <1>2, StatusStep DEF OpenInv
<1>3. ASSUME OpenInv, UNCHANGED vars PROVE OpenInv'
  BY <1>3 DEF OpenInv, vars
<1>. QED BY <1>1, <1>2, <1>3

(* While its coroutine has a status to write, a job has no final one,      *)
(* unless transactions raise.                                              *)
THEOREM OpenInvHolds == Spec => []OpenInv
BY TypeCorrect, OpenInvInductive, PTL DEF Spec

(* A final overall status never changes.                                   *)
THEOREM TerminalIsFinalHolds == Spec => TerminalIsFinal
<1>1. TypeOK /\ OpenInv /\ [Next]_vars =>
        [\A j \in Jobs : status[j] \in Terminal =>
            "db" \in Faults \/ status'[j] = status[j]]_vars
  BY StatusStep DEF vars
<1>. QED BY <1>1, TypeCorrect, OpenInvHolds, PTL DEF Spec, TerminalIsFinal

-----------------------------------------------------------------------------
(* AnalysisJobs implements JobRecord, when transactions do not raise.      *)

LEMMA MainStepRefines ==
  ASSUME IInv, OpenInv, "db" \notin Faults, NEW j \in Jobs, MainStep(j)
  PROVE  [Record!Next]_Record!vars
<1>1. TypeOK /\ MainInv(j) BY DEF IInv, JobInv
<1>2. /\ "transcript" \in Modules /\ "transcript" \notin Analyses
  BY DEF Modules, Analyses
<1>3. main[j] \notin {"none", "end", "close"} => Record!Open(j)
  BY DEF OpenInv, Record!Open
<1>4. main[j] \in TranscribingPc \ {"none"} => Record!MayWork(j, "transcript")
  BY <1>1, <1>3 DEF Record!MayWork, Record!Readable, MainInv, TranscribingPc
<1>5. \A m \in Analyses :
         run[j][Main][m] = "finished" => moduleStatus[j][m] # "pending"
  <2>1. Main \in Owners BY DEF Owners
  <2>. QED BY <2>1 DEF IInv, JobInv, RunInv, Attempted
<1> USE DEF Record!vars
<1>6. CASE UNCHANGED <<status, moduleStatus, artifact>> BY <1>6
<1>7. CASE \E s \in {"running", "failed"} :
              /\ main[j] \notin {"none", "end", "close"}
              /\ SetStatus(j, s) /\ UNCHANGED <<moduleStatus, artifact>>
  BY <1>3, <1>7 DEF Record!Next, Record!Progressed, Record!Failed, Record!Move
<1>8. CASE Complete(j)
  <2>1. Record!Readable(j) /\ status[j] = "running"
    BY <1>1, <1>8 DEF Complete, MainInv, AnalyzingPc, Record!Readable
  <2>2. \A m \in Analyses : moduleStatus[j][m] # "pending"
    BY <1>1, <1>5, <1>8 DEF Complete, MainInv
  <2>. QED BY <1>8, <2>1, <2>2
           DEF Complete, Record!Next, Record!Completed, Record!Move
<1>9. CASE /\ main[j] \in TranscribingPc \ {"none"}
           /\ \E s \in {"running", "completed", "failed"} :
                 /\ SetColumn(j, "transcript", s)
                 /\ s = "completed" => artifact[j]["transcript"]
           /\ UNCHANGED <<status, artifact>>
  BY <1>2, <1>4, <1>9
     DEF Record!Next, Record!Started, Record!ModuleCompleted,
         Record!ModuleFailed, Record!Show, SetColumn
<1>10. CASE /\ main[j] \in TranscribingPc \ {"none"}
            /\ Store(j, "transcript")
            /\ UNCHANGED <<status, moduleStatus>>
  BY <1>2, <1>4, <1>10 DEF Record!Next, Record!Stored, Store
<1>11. CASE SaveAudio(j) BY <1>6, <1>11 DEF SaveAudio
<1>12. CASE RejectUpload(j) BY <1>7, <1>12 DEF RejectUpload
<1>13. CASE RecordSource(j) BY <1>6, <1>13 DEF RecordSource
<1>14. CASE DownloadProgress(j) BY <1>7, <1>14 DEF DownloadProgress
<1>15. CASE Download(j) BY <1>6, <1>15 DEF Download
<1>16. CASE Begin(j) BY <1>6, <1>16 DEF Begin
<1>17. CASE TranscriptRunning(j)
  BY <1>6, <1>9, <1>17 DEF TranscriptRunning, TranscribingPc
<1>18. CASE TranscribeProgress(j) BY <1>7, <1>18 DEF TranscribeProgress
<1>19. CASE Transcribe(j) BY <1>6, <1>19 DEF Transcribe
<1>20. CASE SaveSegments(j) BY <1>10, <1>20 DEF SaveSegments, TranscribingPc
<1>21. CASE TranscriptCompleted(j)
  BY <1>1, <1>6, <1>9, <1>21 DEF TranscriptCompleted, TranscribingPc, MainInv
<1>22. CASE TranscriptFailed(j)
  BY <1>6, <1>9, <1>22 DEF TranscriptFailed, TranscribingPc
<1>23. CASE LoadMono(j) BY <1>6, <1>23 DEF LoadMono
<1>24. CASE AnalyzeProgress(j) BY <1>7, <1>24 DEF AnalyzeProgress
<1>25. CASE Gather(j) BY <1>6, <1>25 DEF Gather
<1>26. CASE QualityReturns(j) BY <1>6, <1>26 DEF QualityReturns
<1>27. CASE CloseSession(j) BY <1>6, <1>27 DEF CloseSession
<1>28. CASE FailJob(j) BY <1>7, <1>28 DEF FailJob
<1>29. CASE MainRaises(j) BY <1>29 DEF MainRaises
<1>. QED BY <1>8, <1>11, <1>12, <1>13, <1>14, <1>15, <1>16, <1>17, <1>18,
            <1>19, <1>20, <1>21, <1>22, <1>23, <1>24, <1>25, <1>26, <1>27,
            <1>28, <1>29 DEF MainStep

LEMMA RunStepRefines ==
  ASSUME IInv, NEW j \in Jobs, NEW o \in Owners, NEW m \in Analyses,
         RunStep(j, o, m)
  PROVE  [Record!Next]_Record!vars
<1>1. RunInv(j, o, m) BY DEF IInv, JobInv
<1>2. m \in Modules /\ m # "transcript" BY DEF Modules, Analyses
<1>3. run[j][o][m] # "idle" => Record!MayWork(j, m)
  BY <1>1, <1>2 DEF RunInv, Record!MayWork, Record!Readable
<1> USE <1>1, <1>2, <1>3 DEF Record!vars
<1>4. CASE UNCHANGED <<status, moduleStatus, artifact>> BY <1>4
<1>5. CASE Mark(j, o, m) \/ Accept(j, o, m)
  BY <1>5 DEF Mark, Accept, SetColumn, Record!Next, Record!Started, Record!Show
<1>6. CASE Done(j, o, m)
  BY <1>6 DEF Done, RunInv, SetColumn, Record!Next, Record!ModuleCompleted,
              Record!Show
<1>7. CASE Fail(j, o, m)
  BY <1>7 DEF Fail, RunInv, Attempted, SetColumn, Record!Next,
              Record!ModuleFailed, Record!Show
<1>8. CASE Save(j, o, m)
  BY <1>8 DEF Save, Store, Record!Next, Record!Stored
<1>9. CASE \/ MarkErr(j, o, m) \/ Work(j, o, m) \/ DoneErr(j, o, m)
           \/ FailErr(j, o, m) \/ ReadEmotions(j, o) \/ ReadRisks(j, o)
           \/ Note(j, o) \/ AcceptErr(j, o, m) \/ Prepare(j, o, m)
           \/ Restore(j, o, m) \/ RunRaises(j, o, m)
  BY <1>4, <1>9 DEF MarkErr, Work, DoneErr, FailErr, ReadEmotions, ReadRisks,
                    Note, AcceptErr, Prepare, Restore, RunRaises
<1>. QED BY <1>5, <1>6, <1>7, <1>8, <1>9 DEF RunStep

LEMMA NextRefines ==
  ASSUME IInv, OpenInv, "db" \notin Faults, [Next]_vars
  PROVE  [Record!Next]_Record!vars
<1>1. ASSUME NEW j \in Jobs, Create(j) PROVE [Record!Next]_Record!vars
  BY <1>1 DEF Create, Record!Next, Record!Submitted, Record!Move
<1>2. CASE Restart BY <1>2 DEF Restart, Record!Next, Record!Interrupted
<1>3. ASSUME NEW j \in Jobs, NEW r \in Retries, NEW m \in RetryModules,
             RequestRetry(j, r, m)
      PROVE  [Record!Next]_Record!vars
  BY <1>3 DEF RequestRetry, Record!vars
<1>4. CASE UNCHANGED vars BY <1>4 DEF vars, Record!vars
<1>. QED BY <1>1, <1>2, <1>3, <1>4, MainStepRefines, RunStepRefines DEF Next

(* The rows a client polls behave as JobRecord says, whatever coroutines,  *)
(* retries, failures and restarts are behind them, as long as transactions *)
(* do not raise.                                                           *)
THEOREM Refinement == ASSUME "db" \notin Faults PROVE Spec => RecordSpec
<1>1. Init => Record!Init BY DEF Init, Record!Init
<1>2. IInv /\ OpenInv /\ [Next]_vars => [Record!Next]_Record!vars
  BY NextRefines
<1>. QED BY <1>1, <1>2, Invariance, OpenInvHolds, PTL
         DEF Spec, RecordSpec, Record!Spec

-----------------------------------------------------------------------------
(* What a step of the job's own coroutine does to the analyses: nothing,   *)
(* but for starting three of them, and later the fourth.                   *)

EarlyPc == TranscribingPc \cup {"tDoneErr", "load", "progress"}

(* The modules the first analysis has not begun.                           *)
Unbegun(pc) == IF pc \in EarlyPc THEN Analyses
               ELSE IF pc = "gather" THEN {"quality"} ELSE {}

EarlyInv ==
    \A j \in Jobs, m \in Analyses :
        m \in Unbegun(main[j]) => run[j][Main][m] = "idle"

(* Coroutine states that still have a status of the module to write.       *)
Unsettled == {"acceptErr", "prep", "restore", "guard", "mark", "markErr",
              "readEmotions", "readRisks", "work", "note", "save", "done",
              "fail"}

(* RunningModuleHasRun, with a coroutine that will not stop there.         *)
WorkedInv ==
    \A j \in Jobs, m \in Analyses : moduleStatus[j][m] = "running" =>
        \E o \in Owners : run[j][o][m] \in Unsettled

(* Without retries, what the first analysis knows of its own columns.      *)
SettlesInv(j, m) ==
    /\ run[j][Main][m] = "finished" => moduleStatus[j][m] \in Settled
    /\ run[j][Main][m] = "doneErr" => moduleStatus[j][m] = "completed"
    /\ run[j][Main][m] \in {"failErr", "guardErr"} => moduleStatus[j][m] = "failed"

(* The score under way: its inputs have been settled, each that is         *)
(* completed has been read, and when it is saved the others are named.     *)
DraftInv(j) ==
    LET pc == run[j][Main]["quality"] IN
    /\ pc # "idle" => \A m \in Analyses \ {"quality"} : run[j][Main][m] = "finished"
    /\ pc \in {"readRisks", "work", "note", "save"} =>
          (moduleStatus[j]["emotion"] = "completed" => "emotion" \in draft[j][Main].used)
    /\ pc \in {"work", "note", "save"} =>
          (moduleStatus[j]["risk"] = "completed" => "risk" \in draft[j][Main].used)
    /\ pc = "save" => draft[j][Main].used \cup draft[j][Main].noted = Inputs

StoredScoreInv(j) ==
    artifact[j]["quality"] => quality[j].used \cup quality[j].noted = Inputs

ScoreInv ==
    \A j \in Jobs :
        /\ \A m \in Analyses : SettlesInv(j, m)
        /\ DraftInv(j)
        /\ StoredScoreInv(j)

(* Those somebody waits for: what the executor holds, each once.           *)
Waiting == {t \in Items : AwaitsExecutor(t[1], t[2], t[3])}

LEMMA MainStepAnalyses ==
  ASSUME TypeOK, NEW j \in Jobs, MainStep(j)
  PROVE  /\ UNCHANGED <<quality, draft>>
         /\ UNCHANGED moduleStatus \/ \E s : SetColumn(j, "transcript", s)
         /\ UNCHANGED artifact \/ Store(j, "transcript")
         /\ \A k \in Jobs \ {j} : main'[k] = main[k]
         /\ \/ UNCHANGED run /\ Unbegun(main'[j]) \subseteq Unbegun(main[j])
            \/ AnalyzeProgress(j)
            \/ /\ main[j] = "gather" /\ main'[j] = "quality"
               /\ \A m \in Analyses \ {"quality"} : run[j][Main][m] = "finished"
               /\ GotoRun(j, Main, "quality", "mark")
<1> USE DEF Unbegun, EarlyPc, TranscribingPc
<1>0. main \in [Jobs -> MainPc] BY DEF TypeOK
<1> USE <1>0
<1>1. CASE SaveAudio(j) BY <1>1 DEF SaveAudio
<1>2. CASE RejectUpload(j) BY <1>2 DEF RejectUpload
<1>3. CASE RecordSource(j) BY <1>3 DEF RecordSource
<1>4. CASE DownloadProgress(j) BY <1>4 DEF DownloadProgress
<1>5. CASE Download(j) BY <1>5 DEF Download
<1>6. CASE Begin(j) BY <1>6 DEF Begin
<1>7. CASE TranscriptRunning(j) BY <1>7 DEF TranscriptRunning
<1>8. CASE TranscribeProgress(j) BY <1>8 DEF TranscribeProgress
<1>9. CASE Transcribe(j) BY <1>9 DEF Transcribe
<1>10. CASE SaveSegments(j) BY <1>10 DEF SaveSegments
<1>11. CASE TranscriptCompleted(j) BY <1>11 DEF TranscriptCompleted
<1>12. CASE TranscriptFailed(j) BY <1>12 DEF TranscriptFailed
<1>13. CASE LoadMono(j) BY <1>13 DEF LoadMono
<1>14. CASE AnalyzeProgress(j) BY <1>14 DEF AnalyzeProgress
<1>15. CASE Gather(j) BY <1>15 DEF Gather
<1>16. CASE QualityReturns(j) BY <1>16 DEF QualityReturns
<1>17. CASE Complete(j) BY <1>17 DEF Complete
<1>18. CASE CloseSession(j) BY <1>18 DEF CloseSession
<1>19. CASE FailJob(j) BY <1>19 DEF FailJob
<1>20. CASE MainRaises(j) BY <1>20 DEF MainRaises, MainHandler, Awaited
<1>. QED BY <1>1, <1>2, <1>3, <1>4, <1>5, <1>6, <1>7, <1>8, <1>9, <1>10,
            <1>11, <1>12, <1>13, <1>14, <1>15, <1>16, <1>17, <1>18, <1>19,
            <1>20 DEF MainStep

LEMMA AnalyzeProgressEffect ==
  ASSUME TypeOK, NEW j \in Jobs, AnalyzeProgress(j)
  PROVE  /\ main[j] = "progress" /\ main'[j] = "gather"
         /\ UNCHANGED <<moduleStatus, artifact, quality, draft, executor>>
         /\ run'[j][Main]["quality"] = "idle"
         /\ \A m \in Analyses \ {"quality"} : run'[j][Main][m] = "mark"
         /\ \A r \in Retries : run'[j][r] = run[j][r]
         /\ \A k \in Jobs \ {j} : run'[k] = run[k]
<1>1. "quality" \in Analyses /\ Main \in Owners /\ Retries \subseteq Owners
  BY DEF Analyses, Owners
<1>. QED BY <1>1 DEF AnalyzeProgress, TypeOK

(* What a step of _run_<module> does to its column and its own state.      *)
LEMMA RunStepAnalyses ==
  ASSUME TypeOK, NEW j \in Jobs, NEW o \in Owners, NEW m \in Analyses,
         RunStep(j, o, m)
  PROVE  /\ UNCHANGED main
         /\ run[j][o][m] # "idle"
         /\ \E pc \in RunPc :
               /\ GotoRun(j, o, m, pc)
               /\ \/ UNCHANGED moduleStatus
                  \/ \E s : SetColumn(j, m, s)
               /\ "db" \notin Faults =>
                  \/ /\ UNCHANGED moduleStatus
                     /\ run[j][o][m] \in Unsettled => pc \in Unsettled
                  \/ SetColumn(j, m, "running") /\ pc \in Unsettled
                  \/ \E s \in {"completed", "failed"} : SetColumn(j, m, s)
<1> USE DEF Unsettled
<1>0. RunPc = {"idle", "finished", "raised", "accept", "acceptErr", "prep",
               "restore", "guard", "guardErr", "mark", "markErr",
               "readEmotions", "readRisks", "work", "note", "save", "done",
               "doneErr", "fail", "failErr"}
  BY DEF RunPc, RetryPc, AnalysisPc
<1>1. CASE Mark(j, o, m) BY <1>0, <1>1 DEF Mark
<1>2. CASE MarkErr(j, o, m) BY <1>0, <1>2 DEF MarkErr
<1>3. CASE m = "quality" /\ ReadEmotions(j, o) BY <1>0, <1>3 DEF ReadEmotions
<1>4. CASE m = "quality" /\ ReadRisks(j, o) BY <1>0, <1>4 DEF ReadRisks
<1>5. CASE Work(j, o, m) BY <1>0, <1>5 DEF Work
<1>6. CASE m = "quality" /\ Note(j, o) BY <1>0, <1>6 DEF Note
<1>7. CASE Save(j, o, m) BY <1>0, <1>7 DEF Save
<1>8. CASE Done(j, o, m) BY <1>0, <1>8 DEF Done
<1>9. CASE DoneErr(j, o, m) BY <1>0, <1>9 DEF DoneErr, End
<1>10. CASE Fail(j, o, m) BY <1>0, <1>10 DEF Fail
<1>11. CASE FailErr(j, o, m) BY <1>0, <1>11 DEF FailErr, End
<1>12. CASE Accept(j, o, m) BY <1>0, <1>12 DEF Accept
<1>13. CASE AcceptErr(j, o, m) BY <1>0, <1>13 DEF AcceptErr
<1>14. CASE Prepare(j, o, m) BY <1>0, <1>14 DEF Prepare
<1>15. CASE Restore(j, o, m) BY <1>0, <1>15 DEF Restore
<1>16. CASE RunRaises(j, o, m)
  BY <1>0, <1>16 DEF RunRaises, RunHandler, RunAwaited, RetryPc, AnalysisPc
<1>. QED BY <1>1, <1>2, <1>3, <1>4, <1>5, <1>6, <1>7, <1>8, <1>9, <1>10,
            <1>11, <1>12, <1>13, <1>14, <1>15, <1>16 DEF RunStep

-----------------------------------------------------------------------------
(* The first analysis begins once.                                         *)

LEMMA EarlyStep ==
  ASSUME IInv, EarlyInv, Next PROVE EarlyInv'
<1>0. TypeOK BY DEF IInv
<1> USE <1>0
<1>1. Main \in Owners /\ Main \notin Retries /\ Retries \subseteq Owners
      /\ "quality" \in Analyses /\ RetryModules \subseteq Analyses
  BY DEF Owners, Analyses
<1>2. ASSUME NEW j \in Jobs, Create(j) PROVE EarlyInv'
  <2>1. main[j] = "none"
    BY <1>2 DEF IInv, JobInv, MainInv, Create
  <2>2. run' = run /\ \A k \in Jobs \ {j} : main'[k] = main[k]
    BY <1>2 DEF Create, TypeOK
  <2>3. \A m \in Analyses : m \in Unbegun(main[j])
    BY <2>1 DEF Unbegun, EarlyPc, TranscribingPc
  <2>. QED BY <2>2, <2>3 DEF EarlyInv
<1>3. ASSUME NEW j \in Jobs, MainStep(j) PROVE EarlyInv'
  <2>1. ASSUME NEW k \in Jobs, NEW m \in Analyses, m \in Unbegun(main'[k])
        PROVE  run'[k][Main][m] = "idle"
    <3>1. CASE UNCHANGED run /\ Unbegun(main'[j]) \subseteq Unbegun(main[j])
      BY <1>3, <2>1, <3>1, MainStepAnalyses DEF EarlyInv
    <3>2. CASE AnalyzeProgress(j)
      <4>1. CASE k # j
        BY <1>3, <2>1, <3>2, <4>1, MainStepAnalyses, AnalyzeProgressEffect
           DEF EarlyInv
      <4>2. CASE k = j
        <5>1. m = "quality"
          BY <2>1, <3>2, <4>2, AnalyzeProgressEffect
             DEF Unbegun, EarlyPc, TranscribingPc
        <5>. QED BY <3>2, <4>2, <5>1, AnalyzeProgressEffect
      <4>. QED BY <4>1, <4>2
    <3>3. CASE main'[j] = "quality" /\ GotoRun(j, Main, "quality", "mark")
      <4>1. k # j /\ main'[k] = main[k]
        BY <1>3, <2>1, <3>3, MainStepAnalyses DEF Unbegun, EarlyPc, TranscribingPc
      <4>2. run'[k] = run[k] BY <1>1, <3>3, <4>1, GotoRunEffect
      <4>. QED BY <2>1, <4>1, <4>2 DEF EarlyInv
    <3>. QED BY <1>3, <3>1, <3>2, <3>3, MainStepAnalyses
  <2>. QED BY <2>1 DEF EarlyInv
<1>4. ASSUME NEW j \in Jobs, NEW o \in Owners, NEW n \in Analyses, RunStep(j, o, n)
      PROVE  EarlyInv'
  <2>1. PICK pc \in RunPc : GotoRun(j, o, n, pc) BY <1>4, RunStepAnalyses
  <2>2. UNCHANGED main /\ run[j][o][n] # "idle" BY <1>4, RunStepAnalyses
  <2>3. ASSUME NEW k \in Jobs, NEW m \in Analyses, m \in Unbegun(main'[k])
        PROVE  run'[k][Main][m] = "idle"
    <3>1. run[k][Main][m] = "idle" BY <2>2, <2>3 DEF EarlyInv
    <3>. QED BY <1>1, <2>1, <2>2, <3>1, GotoRunEffect
  <2>. QED BY <2>3 DEF EarlyInv
<1>5. ASSUME NEW j \in Jobs, NEW r \in Retries, NEW n \in RetryModules,
             RequestRetry(j, r, n)
      PROVE  EarlyInv'
  <2>1. GotoRun(j, r, n, "accept") /\ UNCHANGED main BY <1>5 DEF RequestRetry
  <2>. QED BY <1>1, <2>1, GotoRunEffect DEF EarlyInv
<1>6. CASE Restart
  <2>1. \A k \in Jobs : \A m \in Analyses : run'[k][Main][m] = "idle"
    BY <1>1, <1>6 DEF Restart, Idle
  <2>. QED BY <2>1 DEF EarlyInv
<1>. QED BY <1>2, <1>3, <1>4, <1>5, <1>6 DEF Next

LEMMA EarlyInvHolds == Spec => []EarlyInv
<1>1. Init => EarlyInv BY DEF Init, EarlyInv, Idle, Owners
<1>2. IInv /\ EarlyInv /\ [Next]_vars => EarlyInv'
  <2>1. ASSUME EarlyInv, UNCHANGED vars PROVE EarlyInv'
    BY <2>1 DEF EarlyInv, vars
  <2>. QED BY <2>1, EarlyStep
<1>. QED BY <1>1, <1>2, Invariance, PTL DEF Spec

-----------------------------------------------------------------------------
(* Running modules are worked on, as long as nothing crashes or raises.    *)

LEMMA WorkedStep ==
  ASSUME IInv, EarlyInv, WorkedInv, Next, "db" \notin Faults, "crash" \notin Faults
  PROVE  WorkedInv'
<1>0. TypeOK BY DEF IInv
<1>1. /\ Owners = Retries \cup {Main} /\ Main \notin Retries
      /\ "quality" \in Analyses /\ RetryModules \subseteq Analyses
      /\ Analyses \subseteq Modules /\ "transcript" \in Modules \ Analyses
  BY DEF Owners, Analyses, Modules
<1>3. ASSUME UNCHANGED <<moduleStatus, run>> PROVE WorkedInv'
  BY <1>3 DEF WorkedInv
<1>4. ASSUME NEW j \in Jobs, MainStep(j) PROVE WorkedInv'
  <2>1. \A k \in Jobs, m \in Analyses : moduleStatus'[k][m] = moduleStatus[k][m]
    BY <1>0, <1>1, <1>4, MainStepAnalyses, SetColumnEffect
  <2>2. CASE UNCHANGED run
    BY <2>1, <2>2 DEF WorkedInv
  <2>3. CASE AnalyzeProgress(j)
    <3>1. ASSUME NEW k \in Jobs, NEW m \in Analyses, NEW o \in Owners,
                 run[k][o][m] \in Unsettled
          PROVE  run'[k][o][m] \in Unsettled
      <4>1. CASE k # j BY <1>0, <2>3, <3>1, <4>1, AnalyzeProgressEffect
      <4>2. CASE k = j
        <5>1. m \in Unbegun(main[j])
          BY <1>0, <2>3, AnalyzeProgressEffect DEF Unbegun, EarlyPc
        <5>2. run[j][Main][m] \notin Unsettled
          BY <5>1 DEF EarlyInv, Unsettled
        <5>. QED BY <1>0, <1>1, <2>3, <3>1, <4>2, <5>2, AnalyzeProgressEffect
      <4>. QED BY <4>1, <4>2
    <3>. QED BY <2>1, <3>1 DEF WorkedInv
  <2>4. CASE GotoRun(j, Main, "quality", "mark")
    <3>1. ASSUME NEW k \in Jobs, NEW m \in Analyses, NEW o \in Owners,
                 run[k][o][m] \in Unsettled
          PROVE  run'[k][o][m] \in Unsettled
      BY <1>0, <1>1, <2>4, <3>1, GotoRunEffect DEF Unsettled
    <3>. QED BY <2>1, <3>1 DEF WorkedInv
  <2>. QED BY <1>0, <1>4, <2>2, <2>3, <2>4, MainStepAnalyses
<1>5. ASSUME NEW j \in Jobs, NEW o \in Owners, NEW n \in Analyses, RunStep(j, o, n)
      PROVE  WorkedInv'
  <2>1. PICK pc \in RunPc :
           /\ GotoRun(j, o, n, pc)
           /\ \/ /\ UNCHANGED moduleStatus
                 /\ run[j][o][n] \in Unsettled => pc \in Unsettled
              \/ SetColumn(j, n, "running") /\ pc \in Unsettled
              \/ \E s \in {"completed", "failed"} : SetColumn(j, n, s)
    BY <1>0, <1>5, RunStepAnalyses
  <2>2. /\ run'[j][o][n] = pc
        /\ \A p \in Owners, m \in Analyses :
              <<p, m>> # <<o, n>> => run'[j][p][m] = run[j][p][m]
        /\ \A k \in Jobs \ {j} : run'[k] = run[k]
    BY <1>0, <2>1, GotoRunEffect
  <2>3. ASSUME NEW k \in Jobs, NEW m \in Analyses, moduleStatus'[k][m] = "running",
               k # j \/ m # n
        PROVE  \E p \in Owners : run'[k][p][m] \in Unsettled
    <3>1. moduleStatus[k][m] = "running"
      BY <1>0, <1>1, <2>1, <2>3, SetColumnEffect
    <3>2. PICK p \in Owners : run[k][p][m] \in Unsettled
      BY <3>1 DEF WorkedInv
    <3>3. run'[k][p][m] = run[k][p][m] BY <2>2, <2>3
    <3>. QED BY <3>2, <3>3
  <2>4. ASSUME moduleStatus'[j][n] = "running"
        PROVE  \E p \in Owners : run'[j][p][n] \in Unsettled
    <3>1. CASE UNCHANGED moduleStatus /\ (run[j][o][n] \in Unsettled => pc \in Unsettled)
      <4>1. PICK p \in Owners : run[j][p][n] \in Unsettled
        BY <2>4, <3>1 DEF WorkedInv
      <4>. QED BY <2>2, <3>1, <4>1
    <3>2. CASE pc \in Unsettled BY <2>2, <3>2
    <3>3. CASE \E s \in {"completed", "failed"} : SetColumn(j, n, s)
      BY <1>0, <1>1, <2>4, <3>3, SetColumnEffect
    <3>. QED BY <2>1, <3>1, <3>2, <3>3
  <2>. QED BY <2>3, <2>4 DEF WorkedInv
<1>6. ASSUME NEW j \in Jobs, NEW r \in Retries, NEW n \in RetryModules,
             RequestRetry(j, r, n)
      PROVE  WorkedInv'
  <2>1. /\ GotoRun(j, r, n, "accept") /\ UNCHANGED moduleStatus
        /\ \A x \in Analyses : run[j][r][x] = "idle"
    BY <1>6 DEF RequestRetry
  <2>2. ASSUME NEW k \in Jobs, NEW m \in Analyses, NEW o \in Owners,
               run[k][o][m] \in Unsettled
        PROVE  run'[k][o][m] \in Unsettled
    BY <1>0, <1>1, <2>1, <2>2, GotoRunEffect DEF Unsettled
  <2>. QED BY <2>1, <2>2 DEF WorkedInv
<1>7. ASSUME NEW j \in Jobs, Create(j) PROVE WorkedInv'
  BY <1>3, <1>7 DEF Create
<1>8. ~Restart BY DEF Restart
<1>. QED BY <1>4, <1>5, <1>6, <1>7, <1>8 DEF Next

(* A module shown as running is being worked on, whatever a retry and the  *)
(* first analysis do to it at once, unless a crash or a failed transaction *)
(* broke it.                                                               *)
THEOREM RunningModuleHasRunHolds == Spec => []RunningModuleHasRun
<1>1. CASE "db" \in Faults \/ "crash" \in Faults
  <2>1. RunningModuleHasRun BY <1>1 DEF RunningModuleHasRun
  <2>. QED BY <2>1, PTL
<1>2. CASE "db" \notin Faults /\ "crash" \notin Faults
  <2>1. Init => WorkedInv
    <3>1. Analyses \subseteq Modules BY DEF Modules
    <3>. QED BY <3>1 DEF Init, WorkedInv
  <2>2. IInv /\ EarlyInv /\ WorkedInv /\ [Next]_vars => WorkedInv'
    <3>1. ASSUME WorkedInv, UNCHANGED vars PROVE WorkedInv'
      BY <3>1 DEF WorkedInv, vars
    <3>. QED BY <1>2, <3>1, WorkedStep
  <2>3. WorkedInv => RunningModuleHasRun
    BY DEF WorkedInv, RunningModuleHasRun, Unsettled, Live
  <2>. QED BY <2>1, <2>2, <2>3, Invariance, EarlyInvHolds, PTL DEF Spec
<1>. QED BY <1>1, <1>2

-----------------------------------------------------------------------------
(* The score of the first analysis, when nothing is rerun.                 *)

(* A step on behalf of one job leaves what the score of another rests on.  *)
SameScore(k) ==
    /\ moduleStatus'[k] = moduleStatus[k]
    /\ artifact'[k] = artifact[k]
    /\ quality'[k] = quality[k]
    /\ run'[k] = run[k]
    /\ draft'[k] = draft[k]

ScoreOf(j) ==
    /\ \A m \in Analyses : SettlesInv(j, m)
    /\ DraftInv(j)
    /\ StoredScoreInv(j)

LEMMA ScoreLocality ==
  ASSUME ScoreInv, NEW j \in Jobs, \A k \in Jobs \ {j} : SameScore(k), ScoreOf(j)'
  PROVE  ScoreInv'
<1>1. ASSUME NEW k \in Jobs \ {j} PROVE ScoreOf(k)'
  <2>1. SameScore(k) /\ ScoreOf(k) BY DEF ScoreInv, ScoreOf
  <2>. QED BY <2>1 DEF SameScore, ScoreOf, SettlesInv, DraftInv, StoredScoreInv
<1>. QED BY <1>1 DEF ScoreInv, ScoreOf

LEMMA ScoreMainStep ==
  ASSUME TypeOK, ScoreInv, NEW j \in Jobs, MainStep(j) PROVE ScoreInv'
<1>1. /\ Main \in Owners /\ "quality" \in Analyses /\ "quality" \in Modules
      /\ Analyses \subseteq Modules /\ "transcript" \in Modules \ Analyses
      /\ {"emotion", "risk"} \subseteq Analyses
  BY DEF Owners, Analyses, Modules
<1>2. /\ UNCHANGED <<quality, draft>>
      /\ \A k \in Jobs, m \in Analyses :
            /\ moduleStatus'[k][m] = moduleStatus[k][m]
            /\ artifact'[k][m] = artifact[k][m]
      /\ \A k \in Jobs \ {j} :
            moduleStatus'[k] = moduleStatus[k] /\ artifact'[k] = artifact[k]
  <2>1. /\ UNCHANGED <<quality, draft>>
        /\ UNCHANGED moduleStatus \/ \E s : SetColumn(j, "transcript", s)
        /\ UNCHANGED artifact \/ Store(j, "transcript")
    BY MainStepAnalyses
  <2>2. /\ \A k \in Jobs, m \in Analyses : moduleStatus'[k][m] = moduleStatus[k][m]
        /\ \A k \in Jobs \ {j} : moduleStatus'[k] = moduleStatus[k]
    BY <1>1, <2>1, SetColumnEffect
  <2>3. /\ \A k \in Jobs, m \in Analyses : artifact'[k][m] = artifact[k][m]
        /\ \A k \in Jobs \ {j} : artifact'[k] = artifact[k]
    <3>1. CASE UNCHANGED artifact BY <3>1
    <3>2. CASE Store(j, "transcript")
      <4>1. /\ \A n \in Modules \ {"transcript"} : artifact'[j][n] = artifact[j][n]
            /\ \A k \in Jobs \ {j} : artifact'[k] = artifact[k]
        BY <1>1, <3>2, StoreEffect
      <4>. QED BY <1>1, <4>1
    <3>. QED BY <2>1, <3>1, <3>2
  <2>. QED BY <2>1, <2>2, <2>3
<1>3. ScoreOf(j) BY DEF ScoreInv, ScoreOf
<1>4. StoredScoreInv(j)' BY <1>1, <1>2, <1>3 DEF ScoreOf, StoredScoreInv
<1>5. CASE UNCHANGED run
  <2>1. \A k \in Jobs \ {j} : SameScore(k) BY <1>2, <1>5 DEF SameScore
  <2>2. \A m \in Analyses : SettlesInv(j, m)'
    BY <1>2, <1>3, <1>5 DEF ScoreOf, SettlesInv
  <2>3. DraftInv(j)' BY <1>1, <1>2, <1>3, <1>5 DEF ScoreOf, DraftInv
  <2>. QED BY <1>4, <2>1, <2>2, <2>3, ScoreLocality DEF ScoreOf
<1>6. CASE AnalyzeProgress(j)
  <2>1. /\ run'[j][Main]["quality"] = "idle"
        /\ \A m \in Analyses \ {"quality"} : run'[j][Main][m] = "mark"
        /\ \A k \in Jobs \ {j} : run'[k] = run[k]
    BY <1>6, AnalyzeProgressEffect
  <2>2. \A k \in Jobs \ {j} : SameScore(k) BY <1>2, <2>1 DEF SameScore
  <2>3. \A m \in Analyses : SettlesInv(j, m)'
    BY <2>1 DEF SettlesInv
  <2>4. DraftInv(j)' BY <2>1 DEF DraftInv
  <2>. QED BY <1>4, <2>2, <2>3, <2>4, ScoreLocality DEF ScoreOf
<1>7. CASE /\ \A m \in Analyses \ {"quality"} : run[j][Main][m] = "finished"
           /\ GotoRun(j, Main, "quality", "mark")
  <2>1. /\ run'[j][Main]["quality"] = "mark"
        /\ \A m \in Analyses \ {"quality"} :
              run'[j][Main][m] = run[j][Main][m] /\ run'[j][Main][m] = "finished"
        /\ \A k \in Jobs \ {j} : run'[k] = run[k]
    BY <1>1, <1>7, GotoRunEffect
  <2>2. \A k \in Jobs \ {j} : SameScore(k) BY <1>2, <2>1 DEF SameScore
  <2>3. ASSUME NEW m \in Analyses PROVE SettlesInv(j, m)'
    BY <1>2, <1>3, <2>1 DEF ScoreOf, SettlesInv
  <2>4. DraftInv(j)' BY <2>1 DEF DraftInv
  <2>. QED BY <1>4, <2>2, <2>3, <2>4, ScoreLocality DEF ScoreOf
<1>. QED BY <1>5, <1>6, <1>7, MainStepAnalyses

(* A step of an analysis under the main coroutine that keeps to its own    *)
(* column: what is left to show is its own SettlesInv and the draft.       *)
LEMMA ScoreMove ==
  ASSUME TypeOK, ScoreInv, NEW j \in Jobs, NEW m \in Analyses, NEW pc,
         run[j][Main][m] \notin {"idle", "finished"},
         GotoRun(j, Main, m, pc),
         UNCHANGED moduleStatus \/ \E s : SetColumn(j, m, s),
         UNCHANGED <<artifact, quality>>,
         UNCHANGED draft,
         m = "quality" => pc \notin {"readRisks", "work", "note", "save"},
         pc = "finished" => moduleStatus'[j][m] \in Settled,
         pc = "doneErr" => moduleStatus'[j][m] = "completed",
         pc \in {"failErr", "guardErr"} => moduleStatus'[j][m] = "failed"
  PROVE  ScoreInv'
<1>1. /\ Main \in Owners /\ "quality" \in Analyses /\ Analyses \subseteq Modules
      /\ {"emotion", "risk"} \subseteq Analyses \ {"quality"}
  BY DEF Owners, Analyses, Modules
<1>2. /\ run'[j][Main][m] = pc
      /\ \A n \in Analyses \ {m} : run'[j][Main][n] = run[j][Main][n]
      /\ \A k \in Jobs \ {j} : run'[k] = run[k]
  BY <1>1, GotoRunEffect
<1>3. /\ \A n \in Analyses \ {m} : moduleStatus'[j][n] = moduleStatus[j][n]
      /\ \A k \in Jobs \ {j} : moduleStatus'[k] = moduleStatus[k]
  BY <1>1, SetColumnEffect
<1>4. ScoreOf(j) BY DEF ScoreInv, ScoreOf
<1>5. \A k \in Jobs \ {j} : SameScore(k) BY <1>2, <1>3 DEF SameScore
<1>6. ASSUME NEW n \in Analyses PROVE SettlesInv(j, n)'
  <2>1. CASE n = m BY <1>2, <2>1 DEF SettlesInv
  <2>2. CASE n # m BY <1>2, <1>3, <1>4, <2>2 DEF ScoreOf, SettlesInv
  <2>. QED BY <2>1, <2>2
<1>7. DraftInv(j)'
  <2>1. CASE m = "quality"
    <3>1. \A n \in Analyses \ {"quality"} : run[j][Main][n] = "finished"
      BY <1>4, <2>1 DEF ScoreOf, DraftInv
    <3>. QED BY <1>2, <2>1, <3>1 DEF DraftInv
  <2>2. CASE m # "quality"
    <3>1. run[j][Main]["quality"] = "idle"
      BY <1>4, <2>2 DEF ScoreOf, DraftInv
    <3>2. run'[j][Main]["quality"] = "idle" BY <1>1, <1>2, <2>2, <3>1
    <3>. QED BY <3>2 DEF DraftInv
  <2>. QED BY <2>1, <2>2
<1>8. StoredScoreInv(j)' BY <1>4 DEF ScoreOf, StoredScoreInv
<1>. QED BY <1>5, <1>6, <1>7, <1>8, ScoreLocality DEF ScoreOf

(* A step that only computes the score.                                    *)
LEMMA DraftMove ==
  ASSUME TypeOK, ScoreInv, NEW j \in Jobs, NEW pc,
         run[j][Main]["quality"] # "idle",
         GotoRun(j, Main, "quality", pc),
         pc \in {"readRisks", "work", "note", "save"},
         UNCHANGED <<moduleStatus, artifact, quality>>,
         \A k \in Jobs \ {j} : draft'[k] = draft[k],
         moduleStatus[j]["emotion"] = "completed" => "emotion" \in draft'[j][Main].used,
         pc # "readRisks" =>
            (moduleStatus[j]["risk"] = "completed" => "risk" \in draft'[j][Main].used),
         pc = "save" => draft'[j][Main].used \cup draft'[j][Main].noted = Inputs
  PROVE  ScoreInv'
<1>1. Main \in Owners /\ "quality" \in Analyses BY DEF Owners, Analyses
<1>2. /\ run'[j][Main]["quality"] = pc
      /\ \A n \in Analyses \ {"quality"} : run'[j][Main][n] = run[j][Main][n]
      /\ \A k \in Jobs \ {j} : run'[k] = run[k]
  BY <1>1, GotoRunEffect
<1>4. ScoreOf(j) BY DEF ScoreInv, ScoreOf
<1>5. \A k \in Jobs \ {j} : SameScore(k) BY <1>2 DEF SameScore
<1>6. ASSUME NEW n \in Analyses PROVE SettlesInv(j, n)'
  <2>1. CASE n = "quality" BY <1>2, <2>1 DEF SettlesInv
  <2>2. CASE n # "quality" BY <1>2, <1>4, <2>2 DEF ScoreOf, SettlesInv
  <2>. QED BY <2>1, <2>2
<1>7. DraftInv(j)' BY <1>2, <1>4 DEF ScoreOf, DraftInv
<1>8. StoredScoreInv(j)' BY <1>4 DEF ScoreOf, StoredScoreInv
<1>. QED BY <1>5, <1>6, <1>7, <1>8, ScoreLocality DEF ScoreOf

LEMMA ScoreSave ==
  ASSUME TypeOK, ScoreInv, NEW j \in Jobs, NEW m \in Analyses, Save(j, Main, m)
  PROVE  ScoreInv'
<1>1. /\ Main \in Owners /\ "quality" \in Analyses /\ Analyses \subseteq Modules
  BY DEF Owners, Analyses, Modules
<1>2. /\ run'[j][Main][m] = "done"
      /\ \A n \in Analyses \ {m} : run'[j][Main][n] = run[j][Main][n]
      /\ \A k \in Jobs \ {j} : run'[k] = run[k]
  BY <1>1, GotoRunEffect DEF Save
<1>3. /\ \A n \in Modules \ {m} : artifact'[j][n] = artifact[j][n]
      /\ \A k \in Jobs \ {j} : artifact'[k] = artifact[k]
      /\ UNCHANGED moduleStatus
  BY <1>1, StoreEffect DEF Save
<1>4. ScoreOf(j) BY DEF ScoreInv, ScoreOf
<1>5. /\ run[j][Main][m] = "save"
      /\ \A k \in Jobs \ {j} : draft'[k] = draft[k] /\ quality'[k] = quality[k]
      /\ m # "quality" => quality' = quality
      /\ m = "quality" => quality'[j] = draft[j][Main]
  BY DEF Save, SetDraft, TypeOK
<1>6. \A k \in Jobs \ {j} : SameScore(k) BY <1>2, <1>3, <1>5 DEF SameScore
<1>7. ASSUME NEW n \in Analyses PROVE SettlesInv(j, n)'
  <2>1. CASE n = m BY <1>2, <2>1 DEF SettlesInv
  <2>2. CASE n # m BY <1>2, <1>3, <1>4, <2>2 DEF ScoreOf, SettlesInv
  <2>. QED BY <2>1, <2>2
<1>8. DraftInv(j)' /\ StoredScoreInv(j)'
  <2>1. CASE m = "quality"
    <3>1. \A n \in Analyses \ {"quality"} : run[j][Main][n] = "finished"
      BY <1>4, <1>5, <2>1 DEF ScoreOf, DraftInv
    <3>2. DraftInv(j)' BY <1>2, <2>1, <3>1 DEF DraftInv
    <3>3. quality'[j].used \cup quality'[j].noted = Inputs
      BY <1>4, <1>5, <2>1 DEF ScoreOf, DraftInv
    <3>. QED BY <3>2, <3>3 DEF StoredScoreInv
  <2>2. CASE m # "quality"
    <3>1. run[j][Main]["quality"] = "idle"
      BY <1>4, <1>5, <2>2 DEF ScoreOf, DraftInv
    <3>2. run'[j][Main]["quality"] = "idle" BY <1>1, <1>2, <2>2, <3>1
    <3>3. DraftInv(j)' BY <3>2 DEF DraftInv
    <3>4. artifact'[j]["quality"] = artifact[j]["quality"]
      BY <1>1, <1>3, <2>2
    <3>. QED BY <1>4, <1>5, <2>2, <3>3, <3>4 DEF ScoreOf, StoredScoreInv
  <2>. QED BY <2>1, <2>2
<1>. QED BY <1>6, <1>7, <1>8, ScoreLocality DEF ScoreOf

LEMMA ScoreRunStep ==
  ASSUME IInv, ScoreInv, NEW j \in Jobs, NEW m \in Analyses, RunStep(j, Main, m)
  PROVE  ScoreInv'
<1>0. /\ Main \in Owners /\ "quality" \in Analyses /\ Analyses \subseteq Modules
      /\ {"emotion", "risk"} \subseteq Analyses \ {"quality"}
      /\ Inputs = {"emotion", "risk"} /\ Settled = {"completed", "failed"}
  BY DEF Owners, Analyses, Modules, Inputs, Settled
<1>1. TypeOK /\ ScoreOf(j) BY DEF IInv, ScoreInv, ScoreOf
<1>2. draft[j][Main] \in Scores /\ m \in Modules
  BY <1>0, <1>1 DEF TypeOK
<1>3. ASSUME run[j][Main]["quality"] \in {"readEmotions", "readRisks", "note"},
             NEW x \in Inputs
      PROVE  moduleStatus[j][x] \in Settled
  BY <1>0, <1>1, <1>3 DEF ScoreOf, DraftInv, SettlesInv
<1>4. CASE Mark(j, Main, m)
  <2>1. GotoRun(j, Main, m, "markErr") BY <1>4 DEF Mark
  <2>. QED BY <1>1, <1>4, <2>1, ScoreMove DEF Mark
<1>5. CASE MarkErr(j, Main, m)
  <2>1. CASE m = "quality"
    <3>1. GotoRun(j, Main, m, "readEmotions") BY <1>5, <2>1 DEF MarkErr
    <3>. QED BY <1>1, <1>5, <3>1, ScoreMove DEF MarkErr
  <2>2. CASE m # "quality"
    <3>1. GotoRun(j, Main, m, "work") BY <1>5, <2>2 DEF MarkErr
    <3>. QED BY <1>1, <1>5, <2>2, <3>1, ScoreMove DEF MarkErr
  <2>. QED BY <2>1, <2>2
<1>6. CASE m = "quality" /\ ReadEmotions(j, Main)
  <2>1. /\ GotoRun(j, Main, "quality", "readRisks")
        /\ UNCHANGED <<moduleStatus, artifact, quality>>
        /\ run[j][Main]["quality"] = "readEmotions"
    BY <1>6 DEF ReadEmotions
  <2>2. /\ \A k \in Jobs \ {j} : draft'[k] = draft[k]
        /\ draft'[j][Main].used = Stored(j, "emotion")
    BY <1>0, <1>1, <1>6 DEF ReadEmotions, SetDraft, TypeOK
  <2>3. moduleStatus[j]["emotion"] = "completed" => artifact[j]["emotion"]
    BY <1>0 DEF IInv, JobInv, ModuleInv
  <2>4. moduleStatus[j]["emotion"] = "completed" => "emotion" \in draft'[j][Main].used
    BY <2>2, <2>3 DEF Stored
  <2>. QED BY <1>1, <2>1, <2>2, <2>4, DraftMove
<1>7. CASE m = "quality" /\ ReadRisks(j, Main)
  <2>1. /\ GotoRun(j, Main, "quality", "work")
        /\ UNCHANGED <<moduleStatus, artifact, quality>>
        /\ run[j][Main]["quality"] = "readRisks"
    BY <1>7 DEF ReadRisks
  <2>2. /\ \A k \in Jobs \ {j} : draft'[k] = draft[k]
        /\ draft'[j][Main].used = draft[j][Main].used \cup Stored(j, "risk")
    BY <1>0, <1>1, <1>2, <1>7 DEF ReadRisks, SetDraft, TypeOK, Scores
  <2>3. moduleStatus[j]["risk"] = "completed" => artifact[j]["risk"]
    BY <1>0 DEF IInv, JobInv, ModuleInv
  <2>4. /\ moduleStatus[j]["risk"] = "completed" => "risk" \in draft'[j][Main].used
        /\ moduleStatus[j]["emotion"] = "completed" => "emotion" \in draft'[j][Main].used
    BY <1>1, <2>1, <2>2, <2>3 DEF Stored, ScoreOf, DraftInv
  <2>. QED BY <1>1, <2>1, <2>2, <2>4, DraftMove
<1>8. CASE Work(j, Main, m)
  <2>1. /\ run[j][Main][m] = "work"
        /\ UNCHANGED <<moduleStatus, artifact, quality, draft>>
    BY <1>8 DEF Work
  <2>2. CASE GotoRun(j, Main, m, "fail") BY <1>1, <2>1, <2>2, ScoreMove
  <2>3. CASE m = "quality" /\ GotoRun(j, Main, m, "note")
    <3>1. /\ moduleStatus[j]["emotion"] = "completed" => "emotion" \in draft'[j][Main].used
          /\ moduleStatus[j]["risk"] = "completed" => "risk" \in draft'[j][Main].used
      BY <1>1, <2>1, <2>3 DEF ScoreOf, DraftInv
    <3>. QED BY <1>1, <2>1, <2>3, <3>1, DraftMove
  <2>4. CASE m # "quality" /\ GotoRun(j, Main, m, "save")
    BY <1>1, <2>1, <2>4, ScoreMove
  <2>. QED BY <1>8, <2>2, <2>3, <2>4 DEF Work
<1>9. CASE m = "quality" /\ Note(j, Main)
  <2>1. /\ GotoRun(j, Main, "quality", "save")
        /\ UNCHANGED <<moduleStatus, artifact, quality>>
        /\ run[j][Main]["quality"] = "note"
    BY <1>9 DEF Note
  <2>2. /\ \A k \in Jobs \ {j} : draft'[k] = draft[k]
        /\ draft'[j][Main].used = draft[j][Main].used
        /\ draft'[j][Main].noted = {x \in Inputs : moduleStatus[j][x] = "failed"}
        /\ draft[j][Main].used \subseteq Inputs
    BY <1>0, <1>1, <1>2, <1>9 DEF Note, SetDraft, TypeOK, Scores
  <2>3. /\ moduleStatus[j]["risk"] = "completed" => "risk" \in draft'[j][Main].used
        /\ moduleStatus[j]["emotion"] = "completed" => "emotion" \in draft'[j][Main].used
    BY <1>1, <2>1, <2>2 DEF ScoreOf, DraftInv
  <2>4. draft'[j][Main].used \cup draft'[j][Main].noted = Inputs
    <3>1. ASSUME NEW x \in Inputs
          PROVE  x \in draft'[j][Main].used \cup draft'[j][Main].noted
      <4>1. moduleStatus[j][x] \in {"completed", "failed"}
        BY <1>0, <1>3, <2>1, <3>1
      <4>. QED BY <1>0, <2>2, <2>3, <3>1, <4>1
    <3>. QED BY <2>2, <3>1
  <2>. QED BY <1>1, <2>1, <2>2, <2>3, <2>4, DraftMove
<1>10. CASE Save(j, Main, m) BY <1>1, <1>10, ScoreSave
<1>11. CASE Done(j, Main, m)
  <2>1. moduleStatus'[j][m] = "completed"
    BY <1>1, <1>2, <1>11, SetColumnEffect DEF Done
  <2>. QED BY <1>1, <1>11, <2>1, ScoreMove DEF Done
<1>12. CASE DoneErr(j, Main, m)
  <2>1. /\ run[j][Main][m] = "doneErr" /\ GotoRun(j, Main, m, "finished")
        /\ UNCHANGED <<moduleStatus, artifact, quality, draft>>
    BY <1>12 DEF DoneErr, End
  <2>2. moduleStatus'[j][m] \in Settled
    BY <1>0, <1>1, <2>1 DEF ScoreOf, SettlesInv
  <2>. QED BY <1>1, <2>1, <2>2, ScoreMove
<1>13. CASE Fail(j, Main, m)
  <2>1. moduleStatus'[j][m] = "failed"
    BY <1>1, <1>2, <1>13, SetColumnEffect DEF Fail
  <2>. QED BY <1>1, <1>13, <2>1, ScoreMove DEF Fail
<1>14. CASE FailErr(j, Main, m)
  <2>1. /\ run[j][Main][m] \in {"failErr", "guardErr"}
        /\ GotoRun(j, Main, m, "finished")
        /\ UNCHANGED <<moduleStatus, artifact, quality, draft>>
    BY <1>14 DEF FailErr, End
  <2>2. moduleStatus'[j][m] \in Settled
    BY <1>0, <1>1, <2>1 DEF ScoreOf, SettlesInv
  <2>. QED BY <1>1, <2>1, <2>2, ScoreMove
<1>15. CASE Accept(j, Main, m) BY <1>1, <1>15, ScoreMove DEF Accept
<1>16. CASE AcceptErr(j, Main, m) BY <1>1, <1>16, ScoreMove DEF AcceptErr
<1>17. CASE Prepare(j, Main, m) BY <1>1, <1>17, ScoreMove DEF Prepare
<1>18. CASE Restore(j, Main, m) BY <1>1, <1>18, ScoreMove DEF Restore
<1>19. CASE RunRaises(j, Main, m)
  <2>1. run[j][Main][m] \notin {"idle", "finished"}
    BY <1>19 DEF RunRaises, RunAwaited, RetryPc, AnalysisPc
  <2>2. RunHandler(Main, run[j][Main][m]) \in {"raised", "guard", "idle", "fail"}
    BY DEF RunHandler
  <2>3. PICK pc \in {"raised", "guard", "idle", "fail"} : GotoRun(j, Main, m, pc)
    BY <1>19, <2>2 DEF RunRaises
  <2>4. UNCHANGED <<moduleStatus, artifact, quality, draft>>
    BY <1>19 DEF RunRaises
  <2>. QED BY <1>1, <2>1, <2>3, <2>4, ScoreMove
<1>. QED BY <1>4, <1>5, <1>6, <1>7, <1>8, <1>9, <1>10, <1>11, <1>12, <1>13,
            <1>14, <1>15, <1>16, <1>17, <1>18, <1>19 DEF RunStep

LEMMA ScoreStep ==
  ASSUME IInv, ScoreInv, Next, Retries = {} PROVE ScoreInv'
<1>0. TypeOK /\ Owners = {Main} BY DEF IInv, Owners
<1>1. ASSUME NEW j \in Jobs, Create(j) PROVE ScoreInv'
  <2>1. UNCHANGED <<moduleStatus, artifact, quality, run, draft>>
    BY <1>1 DEF Create
  <2>. QED BY <2>1 DEF ScoreInv, SettlesInv, DraftInv, StoredScoreInv
<1>2. CASE Restart
  <2>1. /\ \A j \in Jobs, m \in Analyses : run'[j][Main][m] = "idle"
        /\ UNCHANGED <<moduleStatus, artifact, quality>>
    BY <1>0, <1>2 DEF Restart, Idle
  <2>2. "quality" \in Analyses BY DEF Analyses
  <2>. QED BY <2>1, <2>2 DEF ScoreInv, SettlesInv, DraftInv, StoredScoreInv
<1>. QED BY <1>0, <1>1, <1>2, ScoreMainStep, ScoreRunStep DEF Next

LEMMA InitScoreInv == Init => ScoreInv
<1>. SUFFICES ASSUME Init, NEW j \in Jobs PROVE ScoreOf(j)
  BY DEF ScoreInv, ScoreOf
<1>0. "quality" \in Analyses /\ Analyses \subseteq Modules /\ Main \in Owners
  BY DEF Analyses, Modules, Owners
<1>1. /\ \A m \in Analyses : run[j][Main][m] = "idle"
      /\ ~artifact[j]["quality"]
  BY <1>0 DEF Init, Idle
<1>2. DraftInv(j)
  <2>1. run[j][Main]["quality"] = "idle" BY <1>0, <1>1
  <2>. QED BY <2>1 DEF DraftInv
<1>3. \A m \in Analyses : SettlesInv(j, m) BY <1>1 DEF SettlesInv
<1>4. StoredScoreInv(j) BY <1>1 DEF StoredScoreInv
<1>. QED BY <1>2, <1>3, <1>4 DEF ScoreOf

(* Without reruns, a stored score names every input it did not use, and it *)
(* is computed when its inputs are settled, whatever fails, raises or      *)
(* crashes in between.                                                     *)
THEOREM QualityIsExplainedHolds ==
  ASSUME Retries = {} PROVE Spec => []QualityIsExplained
<1>0. /\ "quality" \in Analyses /\ Owners = {Main}
      /\ Inputs \subseteq Analyses \ {"quality"}
  BY DEF Analyses, Owners, Inputs
<1>1. Init => ScoreInv BY InitScoreInv
<1>2. IInv /\ ScoreInv /\ [Next]_vars => ScoreInv'
  <2>1. ASSUME ScoreInv, UNCHANGED vars PROVE ScoreInv'
    BY <2>1 DEF vars, ScoreInv, SettlesInv, DraftInv, StoredScoreInv
  <2>. QED BY <2>1, ScoreStep
<1>3. ScoreInv => QualityIsExplained
  <2>1. ASSUME ScoreInv PROVE QualityExplainsMissingInputs
    BY <2>1 DEF ScoreInv, StoredScoreInv, QualityExplainsMissingInputs
  <2>2. ASSUME ScoreInv PROVE QualityAfterInputs
    BY <1>0, <2>2 DEF ScoreInv, SettlesInv, DraftInv, QualityAfterInputs
  <2>. QED BY <2>1, <2>2 DEF QualityIsExplained
<1>. QED BY <1>1, <1>2, <1>3, Invariance, PTL DEF Spec

-----------------------------------------------------------------------------
(* The executor and those who wait for it.                                 *)

(* One step changes who waits at one place t at most, and the executor     *)
(* with it: t is queued when it begins to wait, and leaves when served.    *)
Moves(t) ==
    /\ \A s \in Items \ {t} : (s \in Waiting)' <=> (s \in Waiting)
    /\ \/ executor' = executor /\ ((t \in Waiting)' <=> (t \in Waiting))
       \/ /\ executor' = Append(executor, t)
          /\ t \notin Waiting /\ (t \in Waiting)'
       \/ /\ executor # <<>> /\ Head(executor) = t
          /\ executor' = Tail(executor)
          /\ ~(t \in Waiting)'

LEMMA MovesKeepsLists ==
  ASSUME TypeOK, NEW t \in Items, Lists(executor, Waiting), Moves(t)
  PROVE  Lists(executor, Waiting)'
<1>0. executor \in Seq(Items) /\ Waiting \subseteq Items /\ Waiting' \subseteq Items
  BY DEF TypeOK, Waiting, Items
<1>1. CASE executor' = executor /\ ((t \in Waiting)' <=> (t \in Waiting))
  <2>1. ASSUME NEW s \in Items PROVE s \in Waiting' <=> s \in Waiting
    BY <1>1, <2>1 DEF Moves
  <2>2. Waiting' = Waiting BY <1>0, <2>1
  <2>. QED BY <1>1, <2>2
<1>2. CASE /\ executor' = Append(executor, t)
           /\ t \notin Waiting /\ (t \in Waiting)'
  <2>1. Waiting' = Waiting \cup {t} BY <1>0, <1>2 DEF Moves
  <2>. QED BY <1>0, <1>2, <2>1, ListsAppend
<1>3. CASE /\ executor # <<>> /\ Head(executor) = t
           /\ executor' = Tail(executor)
           /\ ~(t \in Waiting)'
  <2>1. t \in Waiting /\ Lists(Tail(executor), Waiting \ {t})
    BY <1>0, <1>3, ListsTail
  <2>2. Waiting' = Waiting \ {t} BY <1>0, <1>3 DEF Moves
  <2>. QED BY <1>3, <2>1, <2>2
<1>. QED BY <1>1, <1>2, <1>3 DEF Moves

LEMMA WaitingTranscript ==
  ASSUME NEW t \in Items, t[3] = "transcript"
  PROVE  /\ t \in Waiting <=>
               t[2] = Main /\ main[t[1]] \in {"download", "asr", "asrRun", "load"}
         /\ (t \in Waiting)' <=>
               t[2] = Main /\ main'[t[1]] \in {"download", "asr", "asrRun", "load"}
BY DEF Waiting, AwaitsExecutor, Items

LEMMA WaitingAnalysis ==
  ASSUME NEW t \in Items, t[3] # "transcript"
  PROVE  /\ t \in Waiting <=>
               \/ run[t[1]][t[2]][t[3]] = "restore"
               \/ run[t[1]][t[2]][t[3]] = "work" /\ t[3] \in Executed
         /\ (t \in Waiting)' <=>
               \/ run'[t[1]][t[2]][t[3]] = "restore"
               \/ run'[t[1]][t[2]][t[3]] = "work" /\ t[3] \in Executed
BY DEF Waiting, AwaitsExecutor, Items

LEMMA ItemParts ==
  ASSUME NEW j \in Jobs, NEW o \in Owners, NEW m \in Modules
  PROVE  LET t == <<j, o, m>> IN
         /\ t \in Items /\ t[1] = j /\ t[2] = o /\ t[3] = m
         /\ \A s \in Items \ {t} : s[1] # j \/ s[2] # o \/ s[3] # m
         /\ \A s \in Items : s[1] \in Jobs /\ s[2] \in Owners /\ s[3] \in Modules
BY DEF Items

(* What a step of the job's own coroutine does to its wait.                *)
LEMMA MainStepExecutor ==
  ASSUME TypeOK, NEW j \in Jobs, MainStep(j)
  PROVE  LET W == {"download", "asr", "asrRun", "load"} IN
         \/ UNCHANGED executor /\ (main'[j] \in W <=> main[j] \in W)
         \/ /\ Submit(j, Main, "transcript")
            /\ main[j] \notin W /\ main'[j] \in W
         \/ /\ Working(j, Main, "transcript") /\ Release
            /\ main'[j] \notin W
<1>0. main \in [Jobs -> MainPc] BY DEF TypeOK
<1> USE <1>0
<1>1. CASE SaveAudio(j) BY <1>1 DEF SaveAudio
<1>2. CASE RejectUpload(j) BY <1>2 DEF RejectUpload
<1>3. CASE RecordSource(j) BY <1>3 DEF RecordSource
<1>4. CASE DownloadProgress(j) BY <1>4 DEF DownloadProgress
<1>5. CASE Download(j) BY <1>5 DEF Download
<1>6. CASE Begin(j) BY <1>6 DEF Begin
<1>7. CASE TranscriptRunning(j) BY <1>7 DEF TranscriptRunning
<1>8. CASE TranscribeProgress(j) BY <1>8 DEF TranscribeProgress
<1>9. CASE Transcribe(j) BY <1>9 DEF Transcribe
<1>10. CASE SaveSegments(j) BY <1>10 DEF SaveSegments
<1>11. CASE TranscriptCompleted(j) BY <1>11 DEF TranscriptCompleted
<1>12. CASE TranscriptFailed(j) BY <1>12 DEF TranscriptFailed
<1>13. CASE LoadMono(j) BY <1>13 DEF LoadMono
<1>14. CASE AnalyzeProgress(j) BY <1>14 DEF AnalyzeProgress
<1>15. CASE Gather(j) BY <1>15 DEF Gather
<1>16. CASE QualityReturns(j) BY <1>16 DEF QualityReturns
<1>17. CASE Complete(j) BY <1>17 DEF Complete
<1>18. CASE CloseSession(j) BY <1>18 DEF CloseSession
<1>19. CASE FailJob(j) BY <1>19 DEF FailJob
<1>20. CASE MainRaises(j) BY <1>20 DEF MainRaises, MainHandler, Awaited
<1>. QED BY <1>1, <1>2, <1>3, <1>4, <1>5, <1>6, <1>7, <1>8, <1>9, <1>10,
            <1>11, <1>12, <1>13, <1>14, <1>15, <1>16, <1>17, <1>18, <1>19,
            <1>20 DEF MainStep

(* What a step of _run_<module> does to its wait.                          *)
Waits(m, pc) == pc = "restore" \/ (pc = "work" /\ m \in Executed)

LEMMA RunStepExecutor ==
  ASSUME TypeOK, NEW j \in Jobs, NEW o \in Owners, NEW m \in Analyses,
         RunStep(j, o, m)
  PROVE  \E pc \in RunPc :
            /\ GotoRun(j, o, m, pc)
            /\ \/ UNCHANGED executor /\ (Waits(m, pc) <=> Waits(m, run[j][o][m]))
               \/ /\ Submit(j, o, m)
                  /\ ~Waits(m, run[j][o][m]) /\ Waits(m, pc)
               \/ Working(j, o, m) /\ Release /\ ~Waits(m, pc)
<1> USE DEF Waits
<1>0. RunPc = {"idle", "finished", "raised", "accept", "acceptErr", "prep",
               "restore", "guard", "guardErr", "mark", "markErr",
               "readEmotions", "readRisks", "work", "note", "save", "done",
               "doneErr", "fail", "failErr"}
  BY DEF RunPc, RetryPc, AnalysisPc
<1>1. CASE Mark(j, o, m) BY <1>0, <1>1 DEF Mark
<1>2. CASE MarkErr(j, o, m) BY <1>0, <1>2 DEF MarkErr
<1>3. CASE m = "quality" /\ ReadEmotions(j, o) BY <1>0, <1>3 DEF ReadEmotions
<1>4. CASE m = "quality" /\ ReadRisks(j, o) BY <1>0, <1>4 DEF ReadRisks, Executed
<1>5. CASE Work(j, o, m) BY <1>0, <1>5 DEF Work
<1>6. CASE m = "quality" /\ Note(j, o) BY <1>0, <1>6 DEF Note
<1>7. CASE Save(j, o, m) BY <1>0, <1>7 DEF Save
<1>8. CASE Done(j, o, m) BY <1>0, <1>8 DEF Done
<1>9. CASE DoneErr(j, o, m) BY <1>0, <1>9 DEF DoneErr, End
<1>10. CASE Fail(j, o, m) BY <1>0, <1>10 DEF Fail
<1>11. CASE FailErr(j, o, m) BY <1>0, <1>11 DEF FailErr, End
<1>12. CASE Accept(j, o, m) BY <1>0, <1>12 DEF Accept
<1>13. CASE AcceptErr(j, o, m) BY <1>0, <1>13 DEF AcceptErr
<1>14. CASE Prepare(j, o, m) BY <1>0, <1>14 DEF Prepare
<1>15. CASE Restore(j, o, m) BY <1>0, <1>15 DEF Restore
<1>16. CASE RunRaises(j, o, m)
  BY <1>0, <1>16 DEF RunRaises, RunHandler, RunAwaited, RetryPc, AnalysisPc
<1>. QED BY <1>1, <1>2, <1>3, <1>4, <1>5, <1>6, <1>7, <1>8, <1>9, <1>10,
            <1>11, <1>12, <1>13, <1>14, <1>15, <1>16 DEF RunStep

LEMMA ListsMainStep ==
  ASSUME IInv, EarlyInv, Lists(executor, Waiting), NEW j \in Jobs, MainStep(j)
  PROVE  Lists(executor, Waiting)'
<1>0. TypeOK /\ Main \in Owners /\ "transcript" \in Modules \ Analyses
      /\ Modules \ {"transcript"} = Analyses /\ "quality" \in Analyses
      /\ Owners = Retries \cup {Main} /\ Main \notin Retries
  BY DEF IInv, Owners, Modules, Analyses
<1> DEFINE t == <<j, Main, "transcript">>
<1>1. /\ t \in Items /\ t[1] = j /\ t[2] = Main /\ t[3] = "transcript"
      /\ \A s \in Items \ {t} : s[1] # j \/ s[2] # Main \/ s[3] # "transcript"
      /\ \A s \in Items : s[1] \in Jobs /\ s[2] \in Owners /\ s[3] \in Modules
  BY <1>0, ItemParts
<1> HIDE DEF t
<1>2. ASSUME NEW s \in Items, s[3] # "transcript"
      PROVE  (s \in Waiting)' <=> (s \in Waiting)
  <2> DEFINE a == s[1]  b == s[2]  c == s[3]
  <2>1. a \in Jobs /\ b \in Owners /\ c \in Analyses BY <1>0, <1>1, <1>2
  <2>2. \/ (s \in Waiting)' <=> (s \in Waiting)
        \/ run'[a][b][c] # run[a][b][c]
    BY <1>2, WaitingAnalysis
  <2>3. ASSUME run'[a][b][c] # run[a][b][c]
        PROVE  /\ run[a][b][c] \notin {"restore", "work"}
               /\ run'[a][b][c] \notin {"restore", "work"}
    <3> HIDE DEF a, b, c
    <3>1. CASE AnalyzeProgress(j)
      <4>1. a = j /\ b = Main
        BY <1>0, <2>1, <2>3, <3>1, AnalyzeProgressEffect
      <4>2. run'[a][b][c] \in {"idle", "mark"}
        BY <1>0, <2>1, <3>1, <4>1, AnalyzeProgressEffect
      <4>3. c \in Unbegun(main[j])
        BY <1>0, <2>1, <3>1, AnalyzeProgressEffect DEF Unbegun, EarlyPc
      <4>4. run[a][b][c] = "idle" BY <2>1, <4>1, <4>3 DEF EarlyInv
      <4>. QED BY <4>2, <4>4
    <3>2. CASE main[j] = "gather" /\ GotoRun(j, Main, "quality", "mark")
      <4>1. a = j /\ b = Main /\ c = "quality" /\ run'[a][b][c] = "mark"
        BY <1>0, <2>1, <2>3, <3>2, GotoRunEffect
      <4>2. c \in Unbegun(main[j])
        BY <3>2, <4>1 DEF Unbegun, EarlyPc, TranscribingPc
      <4>3. run[a][b][c] = "idle" BY <2>1, <4>1, <4>2 DEF EarlyInv
      <4>. QED BY <4>1, <4>3
    <3>. QED BY <1>0, <2>3, <3>1, <3>2, MainStepAnalyses
  <2>. QED BY <1>2, <2>2, <2>3, WaitingAnalysis
<1>3. ASSUME NEW s \in Items \ {t} PROVE (s \in Waiting)' <=> (s \in Waiting)
  <2>1. CASE s[3] = "transcript"
    <3>1. s[1] # j \/ s[2] # Main BY <1>1, <1>3, <2>1
    <3>2. s[1] # j => main'[s[1]] = main[s[1]]
      BY <1>0, <1>1, <1>3, MainStepAnalyses
    <3>. QED BY <1>3, <2>1, <3>1, <3>2, WaitingTranscript
  <2>. QED BY <1>2, <1>3, <2>1
<1>4. /\ (t \in Waiting) <=> (main[j] \in {"download", "asr", "asrRun", "load"})
      /\ (t \in Waiting)' <=> (main'[j] \in {"download", "asr", "asrRun", "load"})
  BY <1>1, WaitingTranscript
<1>5. Moves(t)
  BY <1>0, <1>3, <1>4, MainStepExecutor DEF Moves, Submit, Working, Release, t
<1>. QED BY <1>0, <1>1, <1>5, MovesKeepsLists

LEMMA ListsRunStep ==
  ASSUME IInv, Lists(executor, Waiting),
         NEW j \in Jobs, NEW o \in Owners, NEW m \in Analyses, RunStep(j, o, m)
  PROVE  Lists(executor, Waiting)'
<1>0. TypeOK /\ m \in Modules /\ m # "transcript"
      /\ Analyses = Modules \ {"transcript"}
  BY DEF IInv, Modules, Analyses
<1> DEFINE t == <<j, o, m>>
<1>1. /\ t \in Items /\ t[1] = j /\ t[2] = o /\ t[3] = m
      /\ \A s \in Items \ {t} : s[1] # j \/ s[2] # o \/ s[3] # m
      /\ \A s \in Items : s[1] \in Jobs /\ s[2] \in Owners /\ s[3] \in Modules
  BY <1>0, ItemParts
<1>2. PICK pc \in RunPc :
         /\ GotoRun(j, o, m, pc)
         /\ \/ UNCHANGED executor /\ (Waits(m, pc) <=> Waits(m, run[j][o][m]))
            \/ /\ Submit(j, o, m)
               /\ ~Waits(m, run[j][o][m]) /\ Waits(m, pc)
            \/ Working(j, o, m) /\ Release /\ ~Waits(m, pc)
  BY <1>0, RunStepExecutor
<1>3. /\ run'[j][o][m] = pc
      /\ \A p \in Owners, n \in Analyses :
            <<p, n>> # <<o, m>> => run'[j][p][n] = run[j][p][n]
      /\ \A k \in Jobs \ {j} : run'[k] = run[k]
  BY <1>0, <1>2, GotoRunEffect
<1>4. UNCHANGED main BY <1>0, RunStepAnalyses
<1>5. /\ (t \in Waiting) <=> Waits(m, run[j][o][m])
      /\ (t \in Waiting)' <=> Waits(m, pc)
  BY <1>0, <1>1, <1>3, WaitingAnalysis DEF Waits
<1> HIDE DEF t
<1>6. ASSUME NEW s \in Items \ {t} PROVE (s \in Waiting)' <=> (s \in Waiting)
  <2>1. CASE s[3] = "transcript"
    BY <1>4, <1>6, <2>1, WaitingTranscript
  <2>2. CASE s[3] # "transcript"
    <3>1. run'[s[1]][s[2]][s[3]] = run[s[1]][s[2]][s[3]]
      BY <1>0, <1>1, <1>3, <1>6, <2>2
    <3>. QED BY <1>6, <2>2, <3>1, WaitingAnalysis
  <2>. QED BY <2>1, <2>2
<1>7. Moves(t)
  BY <1>2, <1>5, <1>6 DEF Moves, Submit, Working, Release, t
<1>. QED BY <1>0, <1>1, <1>7, MovesKeepsLists

(* The executor holds one piece of work for each coroutine that waits for  *)
(* it and nothing else, whatever runs, is retried, raises or restarts.     *)
THEOREM ExecutorMatchesAwaitsHolds == Spec => []ExecutorMatchesAwaits
<1>1. Init => Lists(executor, Waiting)
  <2>1. ASSUME Init, NEW t \in Items PROVE t \notin Waiting
    BY <2>1 DEF Init, Idle, Waiting, AwaitsExecutor, Items, Modules, Analyses
  <2>2. ASSUME Init PROVE Waiting = {} /\ executor = <<>>
    BY <2>1, <2>2 DEF Init, Waiting
  <2>3. DOMAIN <<>> = {} OBVIOUS
  <2>. QED BY <2>2, <2>3 DEF Lists
<1>2. ASSUME IInv, EarlyInv, Lists(executor, Waiting), Next
      PROVE  Lists(executor, Waiting)'
  <2>0. TypeOK /\ RetryModules \subseteq Analyses /\ Retries \subseteq Owners
        /\ Analyses = Modules \ {"transcript"}
    BY <1>2 DEF IInv, Owners, Modules, Analyses
  <2>1. ASSUME UNCHANGED executor,
               \A s \in Items : (s \in Waiting)' <=> (s \in Waiting)
        PROVE  Lists(executor, Waiting)'
    <3>1. Waiting \subseteq Items /\ Waiting' \subseteq Items
      BY DEF Waiting, Items
    <3>2. Waiting' = Waiting BY <2>1, <3>1
    <3>. QED BY <1>2, <2>1, <3>2
  <2>2. ASSUME NEW j \in Jobs, Create(j) PROVE Lists(executor, Waiting)'
    <3>1. UNCHANGED <<run, executor>> BY <2>2 DEF Create
    <3>2. /\ main[j] = "none" /\ main'[j] \in {"dlProgress", "save"}
          /\ \A k \in Jobs \ {j} : main'[k] = main[k]
      BY <1>2, <2>0, <2>2 DEF IInv, JobInv, MainInv, Create, TypeOK
    <3>3. ASSUME NEW s \in Items PROVE (s \in Waiting)' <=> (s \in Waiting)
      <4>1. CASE s[3] = "transcript"
        <5>1. s[1] \in Jobs BY <3>3 DEF Items
        <5>. QED BY <3>2, <3>3, <4>1, <5>1, WaitingTranscript
      <4>2. CASE s[3] # "transcript"
        BY <3>1, <3>3, <4>2, WaitingAnalysis
      <4>. QED BY <4>1, <4>2
    <3>. QED BY <2>1, <3>1, <3>3
  <2>3. ASSUME NEW j \in Jobs, NEW r \in Retries, NEW n \in RetryModules,
               RequestRetry(j, r, n)
        PROVE  Lists(executor, Waiting)'
    <3>1. /\ UNCHANGED <<main, executor>> /\ GotoRun(j, r, n, "accept")
          /\ run[j][r][n] = "idle"
      BY <2>0, <2>3 DEF RequestRetry
    <3>2. /\ run'[j][r][n] = "accept"
          /\ \A p \in Owners, m \in Analyses :
                <<p, m>> # <<r, n>> => run'[j][p][m] = run[j][p][m]
          /\ \A k \in Jobs \ {j} : run'[k] = run[k]
      BY <2>0, <3>1, GotoRunEffect
    <3>3. ASSUME NEW s \in Items PROVE (s \in Waiting)' <=> (s \in Waiting)
      <4>1. CASE s[3] = "transcript"
        BY <3>1, <3>3, <4>1, WaitingTranscript
      <4>2. CASE s[3] # "transcript"
        <5>1. s[1] \in Jobs /\ s[2] \in Owners /\ s[3] \in Analyses
          BY <2>0, <3>3, <4>2 DEF Items
        <5>2. \/ run'[s[1]][s[2]][s[3]] = run[s[1]][s[2]][s[3]]
              \/ /\ run'[s[1]][s[2]][s[3]] = "accept"
                 /\ run[s[1]][s[2]][s[3]] = "idle"
          BY <3>1, <3>2, <5>1
        <5>. QED BY <3>3, <4>2, <5>2, WaitingAnalysis
      <4>. QED BY <4>1, <4>2
    <3>. QED BY <2>1, <3>1, <3>3
  <2>4. CASE Restart
    <3>1. ASSUME NEW s \in Items PROVE ~(s \in Waiting)'
      <4>1. s[1] \in Jobs /\ s[2] \in Owners /\ s[3] \in Modules
        BY <3>1 DEF Items
      <4>2. main'[s[1]] \in {"none", "end"}
            /\ (s[3] # "transcript" => run'[s[1]][s[2]][s[3]] = "idle")
        BY <2>0, <2>4, <4>1 DEF Restart, Idle
      <4>. QED BY <3>1, <4>2, WaitingTranscript, WaitingAnalysis
    <3>2. Waiting' = {} BY <3>1 DEF Waiting, Items
    <3>3. executor' = <<>> BY <2>4 DEF Restart
    <3>4. DOMAIN <<>> = {} OBVIOUS
    <3>. QED BY <3>2, <3>3, <3>4 DEF Lists
  <2>. QED BY <1>2, <2>2, <2>3, <2>4, ListsMainStep, ListsRunStep DEF Next
<1>3. ASSUME Lists(executor, Waiting), UNCHANGED vars
      PROVE  Lists(executor, Waiting)'
  <2>1. Waiting' = Waiting /\ executor' = executor
    BY <1>3 DEF vars, Waiting, AwaitsExecutor
  <2>. QED BY <1>3, <2>1
<1>4. ASSUME TypeOK, Lists(executor, Waiting) PROVE ExecutorMatchesAwaits
  <2>1. ASSUME NEW i \in DOMAIN executor
        PROVE  AwaitsExecutor(executor[i][1], executor[i][2], executor[i][3])
    BY <1>4, <2>1 DEF Lists, Waiting
  <2>2. ASSUME NEW j \in Jobs, NEW o \in Owners, NEW m \in Modules,
               AwaitsExecutor(j, o, m)
        PROVE  \E i \in DOMAIN executor : executor[i] = <<j, o, m>>
    <3>1. <<j, o, m>> \in Waiting BY <2>2 DEF Waiting, Items
    <3>. QED BY <1>4, <3>1 DEF Lists
  <2>. QED BY <1>4, <2>1, <2>2 DEF ExecutorMatchesAwaits, Lists
<1>5. IInv => TypeOK BY DEF IInv
<1>. QED BY <1>1, <1>2, <1>3, <1>4, <1>5, Invariance, EarlyInvHolds, PTL DEF Spec
=============================================================================
