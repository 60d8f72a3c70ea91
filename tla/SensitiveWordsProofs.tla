------------------------- MODULE SensitiveWordsProofs -------------------------
(***************************************************************************)
(* Theorems about SensitiveWords for every set of words and requests, every*)
(* number of changes and restarts and every page size.                     *)
(***************************************************************************)
EXTENDS SensitiveWords, SubsequencesProofs

-----------------------------------------------------------------------------
(* Sequences that end with a given one.                                    *)
Ends(s, t) ==
    Len(s) <= Len(t) /\ \A i \in 1..Len(s) : s[i] = t[Len(t) - Len(s) + i]

LEMMA EndsOrder ==
  ASSUME NEW C, NEW s \in Seq(C), NEW t \in Seq(C), NEW u \in Seq(C)
  PROVE  /\ Ends(<<>>, s) /\ Ends(s, s)
         /\ Ends(s, t) /\ Ends(t, u) => Ends(s, u)
         /\ Ends(s, u) /\ Ends(t, u) /\ Len(s) <= Len(t) => Ends(s, t)
         /\ Ends(s, t) /\ Len(t) <= Len(s) => s = t
<1>1. Len(s) \in Nat /\ Len(t) \in Nat /\ Len(u) \in Nat /\ Len(<<>>) = 0
  BY LenProperties, EmptySeq
<1>2. Ends(<<>>, s) BY <1>1 DEF Ends
<1>3. Ends(s, s) BY <1>1 DEF Ends
<1>4. ASSUME Ends(s, t), Ends(t, u) PROVE Ends(s, u)
  <2>1. ASSUME NEW i \in 1..Len(s) PROVE s[i] = u[Len(u) - Len(s) + i]
    <3>1. s[i] = t[Len(t) - Len(s) + i] BY <1>4 DEF Ends
    <3>2. Len(t) - Len(s) + i \in 1..Len(t) BY <1>1, <1>4 DEF Ends
    <3>3. t[Len(t) - Len(s) + i] = u[Len(u) - Len(t) + (Len(t) - Len(s) + i)]
      BY <1>4, <3>2 DEF Ends
    <3>4. Len(u) - Len(t) + (Len(t) - Len(s) + i) = Len(u) - Len(s) + i BY <1>1
    <3>. QED BY <3>1, <3>3, <3>4
  <2>. QED BY <1>1, <1>4, <2>1 DEF Ends
<1>5. ASSUME Ends(s, u), Ends(t, u), Len(s) <= Len(t) PROVE Ends(s, t)
  <2>1. ASSUME NEW i \in 1..Len(s) PROVE s[i] = t[Len(t) - Len(s) + i]
    <3>1. s[i] = u[Len(u) - Len(s) + i] BY <1>5 DEF Ends
    <3>2. Len(t) - Len(s) + i \in 1..Len(t) BY <1>1, <1>5
    <3>3. t[Len(t) - Len(s) + i] = u[Len(u) - Len(t) + (Len(t) - Len(s) + i)]
      BY <1>5, <3>2 DEF Ends
    <3>4. Len(u) - Len(t) + (Len(t) - Len(s) + i) = Len(u) - Len(s) + i BY <1>1
    <3>. QED BY <3>1, <3>3, <3>4
  <2>. QED BY <1>5, <2>1 DEF Ends
<1>6. ASSUME Ends(s, t), Len(t) <= Len(s) PROVE s = t
  <2>1. Len(s) = Len(t) BY <1>1, <1>6 DEF Ends
  <2>2. ASSUME NEW i \in 1..Len(s) PROVE s[i] = t[i]
    <3>1. s[i] = t[Len(t) - Len(s) + i] BY <1>6 DEF Ends
    <3>2. Len(t) - Len(s) + i = i BY <1>1, <2>1
    <3>. QED BY <3>1, <3>2
  <2>. QED BY <2>1, <2>2, SeqEqual
<1>. QED BY <1>2, <1>3, <1>4, <1>5, <1>6

LEMMA EndsAppend ==
  ASSUME NEW C, NEW s \in Seq(C), NEW t \in Seq(C), NEW c \in C, NEW d \in C
  PROVE  Ends(Append(s, c), Append(t, d)) <=> Ends(s, t) /\ c = d
<1> DEFINE a == Append(s, c)
           b == Append(t, d)
<1>1. Len(s) \in Nat /\ Len(t) \in Nat BY LenProperties
<1>2. /\ Len(a) = Len(s) + 1 /\ a[Len(s) + 1] = c
      /\ \A i \in 1..Len(s) : a[i] = s[i]
      /\ Len(b) = Len(t) + 1 /\ b[Len(t) + 1] = d
      /\ \A i \in 1..Len(t) : b[i] = t[i]
  BY AppendProperties
<1> HIDE DEF a, b
<1>3. ASSUME Len(s) <= Len(t)
      PROVE  /\ \A i \in 1..Len(s) : b[Len(b) - Len(a) + i] = t[Len(t) - Len(s) + i]
             /\ b[Len(b) - Len(a) + (Len(s) + 1)] = d
  <2>1. \A i \in 1..Len(s) : /\ Len(b) - Len(a) + i = Len(t) - Len(s) + i
                             /\ Len(t) - Len(s) + i \in 1..Len(t)
    BY <1>1, <1>2, <1>3
  <2>2. Len(b) - Len(a) + (Len(s) + 1) = Len(t) + 1 BY <1>1, <1>2
  <2>. QED BY <1>2, <2>1, <2>2
<1>4. ASSUME Ends(a, b) PROVE Ends(s, t) /\ c = d
  <2>1. Len(s) <= Len(t) BY <1>1, <1>2, <1>4 DEF Ends
  <2>2. \A i \in 1..Len(a) : a[i] = b[Len(b) - Len(a) + i] BY <1>4 DEF Ends
  <2>3. Len(s) + 1 \in 1..Len(a) /\ \A i \in 1..Len(s) : i \in 1..Len(a) BY <1>1, <1>2
  <2>4. c = d BY <1>2, <1>3, <2>1, <2>2, <2>3
  <2>5. ASSUME NEW i \in 1..Len(s) PROVE s[i] = t[Len(t) - Len(s) + i]
    <3>1. a[i] = b[Len(b) - Len(a) + i] BY <2>2, <2>3
    <3>. QED BY <1>2, <1>3, <2>1, <3>1
  <2>. QED BY <2>1, <2>4, <2>5 DEF Ends
<1>5. ASSUME Ends(s, t), c = d PROVE Ends(a, b)
  <2>1. Len(s) <= Len(t) BY <1>5 DEF Ends
  <2>2. ASSUME NEW i \in 1..Len(a) PROVE a[i] = b[Len(b) - Len(a) + i]
    <3>1. CASE i = Len(s) + 1 BY <1>2, <1>3, <1>5, <2>1, <3>1
    <3>2. CASE i \in 1..Len(s)
      <4>1. s[i] = t[Len(t) - Len(s) + i] BY <1>5, <3>2 DEF Ends
      <4>. QED BY <1>2, <1>3, <2>1, <3>2, <4>1
    <3>. QED BY <1>1, <1>2, <3>1, <3>2
  <2>3. Len(a) <= Len(b) BY <1>1, <1>2, <2>1
  <2>. QED BY <2>2, <2>3 DEF Ends
<1>. QED BY <1>4, <1>5 DEF a, b

-----------------------------------------------------------------------------
(* Nodes: with each node all that lead to it.                              *)
Trie(nodes, C) ==
    /\ nodes \in SUBSET Seq(C) /\ <<>> \in nodes
    /\ \A n \in Seq(C), c \in C : Append(n, c) \in nodes => n \in nodes

LEMMA NodesAreATrie ==
  ASSUME NEW C, NEW words \in SUBSET Seq(C)
  PROVE  Trie(Nodes(words), C) /\ words \subseteq Nodes(words)
<1>1. ASSUME NEW w \in words, NEW i \in 1..Len(w)
      PROVE  /\ SubSeq(w, 1, i) \in Seq(C) /\ Len(SubSeq(w, 1, i)) = i
             /\ \A j \in 1..i : SubSeq(w, 1, i)[j] = w[j]
  <2>1. Len(w) \in Nat /\ i \in Int /\ 1 \in Int /\ 1 <= i BY LenProperties
  <2>2. \A j \in 1..i : w[j] \in C
    <3>1. \A j \in 1..i : j \in 1..Len(w) BY <2>1
    <3>. QED BY <3>1, ElementOfSeq
  <2>3. /\ SubSeq(w, 1, i) \in Seq(C)
        /\ Len(SubSeq(w, 1, i)) = IF 1 <= i THEN i - 1 + 1 ELSE 0
        /\ \A j \in 1..(i - 1 + 1) : SubSeq(w, 1, i)[j] = w[1 + j - 1]
    BY <2>1, <2>2, SubSeqProperties
  <2>4. i - 1 + 1 = i /\ \A j \in 1..i : 1 + j - 1 = j BY <2>1
  <2>. QED BY <2>1, <2>3, <2>4
<1>0. \A n : n \in Nodes(words) <=>
           n = <<>> \/ \E w \in words : \E i \in 1..Len(w) : n = SubSeq(w, 1, i)
  <2> DEFINE P(w) == {SubSeq(w, 1, i) : i \in 1..Len(w)}
  <2>1. Nodes(words) = {<<>>} \cup UNION {P(w) : w \in words} BY DEF Nodes
  <2>2. \A n, w : n \in P(w) <=> \E i \in 1..Len(w) : n = SubSeq(w, 1, i) OBVIOUS
  <2> HIDE DEF P
  <2>3. \A n : n \in UNION {P(w) : w \in words} <=> \E w \in words : n \in P(w) OBVIOUS
  <2>. QED BY <2>1, <2>2, <2>3
<1>2. Nodes(words) \in SUBSET Seq(C)
  <2>1. <<>> \in Seq(C) BY EmptySeq
  <2>2. ASSUME NEW n \in Nodes(words) PROVE n \in Seq(C)
    <3>1. CASE n = <<>> BY <2>1, <3>1
    <3>2. CASE \E w \in words : \E i \in 1..Len(w) : n = SubSeq(w, 1, i) BY <1>1, <3>2
    <3>. QED BY <1>0, <3>1, <3>2
  <2>. QED BY <2>2
<1>3. <<>> \in Nodes(words) BY <1>0
<1>4. ASSUME NEW n \in Seq(C), NEW c \in C, Append(n, c) \in Nodes(words)
      PROVE  n \in Nodes(words)
  <2>1. /\ Append(n, c) # <<>> /\ Len(Append(n, c)) = Len(n) + 1 /\ Len(n) \in Nat
        /\ \A i \in 1..Len(n) : Append(n, c)[i] = n[i]
    BY AppendProperties, LenProperties
  <2>2. PICK w \in words : \E i \in 1..Len(w) : Append(n, c) = SubSeq(w, 1, i)
    BY <1>0, <1>4, <2>1, Zenon
  <2>6. PICK i \in 1..Len(w) : Append(n, c) = SubSeq(w, 1, i) BY <2>2
  <2>3. i = Len(n) + 1 /\ Len(w) \in Nat BY <1>1, <2>1, <2>6, LenProperties
  <2>4. CASE n = <<>> BY <1>3, <2>4
  <2>5. CASE n # <<>>
    <3>1. Len(n) \in 1..Len(w) BY <2>3, <2>5, EmptySeq
    <3>2. /\ SubSeq(w, 1, Len(n)) \in Seq(C) /\ Len(SubSeq(w, 1, Len(n))) = Len(n)
          /\ \A j \in 1..Len(n) : SubSeq(w, 1, Len(n))[j] = w[j]
      BY <1>1, <3>1
    <3>3. ASSUME NEW j \in 1..Len(n) PROVE n[j] = w[j]
      <4>1. j \in 1..i BY <2>1, <2>3
      <4>2. SubSeq(w, 1, i)[j] = w[j] BY <1>1, <4>1
      <4>. QED BY <2>1, <2>6, <4>2
    <3>4. n = SubSeq(w, 1, Len(n)) BY <3>2, <3>3, SeqEqual
    <3>. QED BY <1>0, <3>1, <3>4, Zenon
  <2>. QED BY <2>4, <2>5
<1>5. ASSUME NEW w \in words PROVE w \in Nodes(words)
  <2>1. CASE w = <<>> BY <1>3, <2>1
  <2>2. CASE w # <<>>
    <3>1. Len(w) \in 1..Len(w) BY <2>2, EmptySeq
    <3>2. w = SubSeq(w, 1, Len(w)) BY SubSeqFull
    <3>. QED BY <1>0, <3>1, <3>2, Zenon
  <2>. QED BY <2>1, <2>2
<1>. QED BY <1>2, <1>3, <1>4, <1>5 DEF Trie
(* The nodes up to a length, and links of theirs that lead to shorter ones.*)
Short(nodes, k) == {n \in nodes : Len(n) <= k}

LinkedDown(nodes, fail, k) ==
    \A n \in Short(nodes, k) : n = <<>> \/ (fail[n] \in nodes /\ Len(fail[n]) < Len(n))

(* The equation of Climb.                                                  *)
LEMMA ClimbEquation ==
  ASSUME NEW C, NEW nodes, Trie(nodes, C), NEW fail, NEW k \in Nat,
         LinkedDown(nodes, fail, k), NEW c
  PROVE  LET climb == Climb(nodes, fail, c, k) IN
         climb = [n \in Short(nodes, k) |-> IF n = <<>> \/ Append(n, c) \in nodes
                                            THEN n ELSE climb[fail[n]]]
<1> DEFINE D == Short(nodes, k)
           V == [n \in D |-> D]
           rank == [n \in D |-> Len(n)]
           step(g) == [n \in D |-> IF n = <<>> \/ Append(n, c) \in nodes
                                   THEN n ELSE g[fail[n]]]
           F == [g \in Candidates(D, V) |-> step(g)]
<1>1. rank \in [D -> Nat] /\ \A n \in D : Len(n) \in Nat /\ Len(n) <= k
  BY LenProperties DEF Trie, Short
<1>2. ASSUME NEW n \in D, n # <<>> PROVE fail[n] \in D /\ Len(fail[n]) < Len(n)
  <2>1. fail[n] \in nodes /\ Len(fail[n]) < Len(n) BY <1>2 DEF LinkedDown
  <2>2. Len(fail[n]) \in Nat BY <2>1, LenProperties DEF Trie
  <2>3. Len(fail[n]) <= k BY <1>1, <2>1, <2>2
  <2>. QED BY <2>1, <2>3 DEF Short
<1> HIDE DEF D
<1>3. ASSUME NEW g \in Candidates(D, V) PROVE step(g) \in Candidates(D, V)
  <2>1. \A n \in D : g[n] \in D BY DEF Candidates
  <2>2. \A n \in D : step(g)[n] \in D BY <1>2, <2>1
  <2>. QED BY <2>2 DEF Candidates
<1>4. F \in [Candidates(D, V) -> Candidates(D, V)] BY <1>3
<1>5. ASSUME NEW g \in Candidates(D, V), NEW h \in Candidates(D, V), NEW n \in D,
             \A m \in D : rank[m] < rank[n] => g[m] = h[m]
      PROVE  F[g][n] = F[h][n]
  <2>1. F[g][n] = step(g)[n] /\ F[h][n] = step(h)[n] OBVIOUS
  <2>2. n = <<>> \/ g[fail[n]] = h[fail[n]] BY <1>2, <1>5
  <2>. QED BY <2>1, <2>2
<1>6. Recursion(D, V, rank, F)
  <2>1. \A n \in D : V[n] # {} OBVIOUS
  <2>. QED BY <1>1, <1>4, <1>5, <2>1, Zenon DEF Recursion
<1>7. PICK f \in Candidates(D, V) : f = F[f]
  <2> HIDE DEF V, rank, F
  <2>. QED BY <1>6, RecursionHasFunction
<1>8. f = step(f) BY <1>7
<1>9. Climb(nodes, fail, c, k) = CHOOSE g : g = step(g) BY DEF Climb, D, Short
<1> HIDE DEF step
<1>10. Climb(nodes, fail, c, k) = step(Climb(nodes, fail, c, k)) BY <1>8, <1>9
<1>. QED BY <1>10 DEF step, D

LEMMA ClimbShorter ==
  ASSUME NEW C, NEW nodes, Trie(nodes, C), NEW fail, NEW k \in Nat,
         LinkedDown(nodes, fail, k), NEW c, NEW n \in Short(nodes, k)
  PROVE  Climb(nodes, fail, c, k)[n] \in nodes /\ Len(Climb(nodes, fail, c, k)[n]) <= Len(n)
<1> DEFINE climb == Climb(nodes, fail, c, k)
           D == Short(nodes, k)
           rank == [m \in D |-> Len(m)]
           B == {m \in D : climb[m] \in nodes /\ Len(climb[m]) <= Len(m)}
<1>1. climb = [m \in D |-> IF m = <<>> \/ Append(m, c) \in nodes
                               THEN m ELSE climb[fail[m]]]
  BY ClimbEquation
<1> HIDE DEF climb
<1>2. /\ rank \in [D -> Nat]
      /\ \A m \in nodes : Len(m) \in Nat
      /\ \A m \in D : m \in nodes /\ Len(m) <= k
  BY LenProperties DEF Trie, Short
<1>3. ASSUME NEW m \in D, \A e \in D : rank[e] < rank[m] => e \in B
      PROVE  m \in B
  <2>1. CASE m = <<>> \/ Append(m, c) \in nodes BY <1>1, <1>2, <2>1
  <2>2. CASE ~ (m = <<>> \/ Append(m, c) \in nodes)
    <3>1. climb[m] = climb[fail[m]] BY <1>1, <2>2
    <3>2. fail[m] \in nodes /\ Len(fail[m]) < Len(m) BY <2>2 DEF LinkedDown
    <3>3. fail[m] \in D BY <1>2, <3>2 DEF Short
    <3>4. fail[m] \in B BY <1>3, <3>2, <3>3
    <3>5. /\ climb[m] \in nodes /\ Len(climb[m]) <= Len(fail[m])
          /\ Len(climb[m]) \in Nat /\ Len(fail[m]) \in Nat /\ Len(m) \in Nat
      BY <1>2, <3>1, <3>2, <3>4
    <3>6. Len(climb[m]) <= Len(m) BY <3>2, <3>5
    <3>. QED BY <3>5, <3>6
  <2>. QED BY <2>1, <2>2
<1>4. D \subseteq B
  <2> HIDE DEF rank, B, D
  <2>1. Inherits(D, rank, B) BY <1>3 DEF Inherits
  <2>. QED BY <1>2, <2>1, RankInduction
<1>. QED BY <1>4 DEF climb

LEMMA ClimbAgrees ==
  ASSUME NEW C, NEW nodes, Trie(nodes, C), NEW f, NEW g, NEW k \in Nat,
         LinkedDown(nodes, f, k), \A n \in Short(nodes, k) : f[n] = g[n],
         NEW c, NEW n \in Short(nodes, k)
  PROVE  Climb(nodes, f, c, k)[n] = Climb(nodes, g, c, k)[n]
<1> DEFINE a == Climb(nodes, f, c, k)
           b == Climb(nodes, g, c, k)
           D == Short(nodes, k)
           rank == [m \in D |-> Len(m)]
           B == {m \in D : a[m] = b[m]}
<1>0. LinkedDown(nodes, g, k) BY DEF LinkedDown
<1>1. /\ a = [m \in D |-> IF m = <<>> \/ Append(m, c) \in nodes THEN m ELSE a[f[m]]]
      /\ b = [m \in D |-> IF m = <<>> \/ Append(m, c) \in nodes THEN m ELSE b[g[m]]]
  BY <1>0, ClimbEquation
<1> HIDE DEF a, b
<1>2. /\ rank \in [D -> Nat]
      /\ \A m \in nodes : Len(m) \in Nat
      /\ \A m \in D : m \in nodes /\ Len(m) <= k
  BY LenProperties DEF Trie, Short
<1>3. ASSUME NEW m \in D, \A e \in D : rank[e] < rank[m] => e \in B
      PROVE  m \in B
  <2>1. CASE m = <<>> \/ Append(m, c) \in nodes BY <1>1, <2>1
  <2>2. CASE ~ (m = <<>> \/ Append(m, c) \in nodes)
    <3>1. a[m] = a[f[m]] /\ b[m] = b[g[m]] BY <1>1, <2>2
    <3>2. f[m] \in nodes /\ Len(f[m]) < Len(m) /\ f[m] = g[m] BY <2>2 DEF LinkedDown
    <3>3. f[m] \in D BY <1>2, <3>2 DEF Short
    <3>4. f[m] \in B BY <1>3, <3>2, <3>3
    <3>. QED BY <3>1, <3>2, <3>4
  <2>. QED BY <2>1, <2>2
<1>4. D \subseteq B
  <2> HIDE DEF rank, B, D
  <2>1. Inherits(D, rank, B) BY <1>3 DEF Inherits
  <2>. QED BY <1>2, <2>1, RankInduction
<1>. QED BY <1>4 DEF a, b

(* Where Follow leads.                                                     *)
LEMMA FollowShorter ==
  ASSUME NEW C, NEW nodes, Trie(nodes, C), NEW fail, NEW n \in nodes,
         LinkedDown(nodes, fail, Len(n)), NEW c \in C
  PROVE  /\ Follow(nodes, fail, n, c) \in nodes
         /\ Len(Follow(nodes, fail, n, c)) \in 0..(Len(n) + 1)
<1> DEFINE top == Climb(nodes, fail, c, Len(n))[n]
<1>1. \A m \in nodes : m \in Seq(C) /\ Len(m) \in Nat BY LenProperties DEF Trie
<1>2. n \in Short(nodes, Len(n)) BY <1>1 DEF Short
<1>3. top \in nodes /\ Len(top) <= Len(n) BY <1>1, <1>2, ClimbShorter
<1>4. Follow(nodes, fail, n, c)
        = IF Append(top, c) \in nodes THEN Append(top, c) ELSE <<>>
  BY DEF Follow
<1> HIDE DEF top
<1>5. Len(Append(top, c)) = Len(top) + 1 BY <1>1, <1>3, AppendProperties
<1>6. <<>> \in nodes /\ Len(<<>>) = 0 BY EmptySeq DEF Trie
<1>7. Len(top) \in Nat /\ Len(n) \in Nat BY <1>1, <1>3
<1>8. Len(top) + 1 \in 0..(Len(n) + 1) /\ 0 \in 0..(Len(n) + 1) BY <1>3, <1>7
<1>. QED BY <1>3, <1>4, <1>5, <1>6, <1>8

LEMMA FollowAgrees ==
  ASSUME NEW C, NEW nodes, Trie(nodes, C), NEW f, NEW g, NEW n \in nodes,
         LinkedDown(nodes, f, Len(n)), \A m \in Short(nodes, Len(n)) : f[m] = g[m], NEW c
  PROVE  Follow(nodes, f, n, c) = Follow(nodes, g, n, c)
<1>1. Len(n) \in Nat BY LenProperties DEF Trie
<1>2. n \in Short(nodes, Len(n)) BY <1>1 DEF Short
<1>3. Climb(nodes, f, c, Len(n))[n] = Climb(nodes, g, c, Len(n))[n]
  BY <1>1, <1>2, ClimbAgrees
<1>. QED BY <1>3 DEF Follow

(* The node before another one, and the character between them.            *)
LEMMA TrieFront ==
  ASSUME NEW C, NEW nodes, Trie(nodes, C), NEW n \in nodes, n # <<>>
  PROVE  /\ Front(n) \in nodes /\ Last(n) \in C /\ n = Append(Front(n), Last(n))
         /\ Len(Front(n)) = Len(n) - 1 /\ Len(n) \in Nat \ {0}
<1>1. n \in Seq(C) BY DEF Trie
<1>2. /\ Front(n) \in Seq(C) /\ Last(n) \in C /\ n = Append(Front(n), Last(n))
      /\ Len(Front(n)) = Len(n) - 1 /\ Len(n) \in Nat \ {0}
  BY <1>1, FrontLast
<1>3. Append(Front(n), Last(n)) \in nodes BY <1>2
<1>4. Front(n) \in nodes
  <2> DEFINE f == Front(n)
             c == Last(n)
  <2>1. f \in Seq(C) /\ c \in C /\ Append(f, c) \in nodes BY <1>2, <1>3
  <2> HIDE DEF f, c
  <2>2. f \in nodes BY <2>1 DEF Trie
  <2>. QED BY <2>2 DEF f
<1>. QED BY <1>2, <1>4

(* The equation of FailLinks; they lead to shorter nodes.                  *)
LEMMA FailLinksEquation ==
  ASSUME NEW C, NEW nodes, Trie(nodes, C)
  PROVE  LET fail == FailLinks(nodes) IN
         /\ fail = [n \in nodes |-> IF Len(n) <= 1 THEN <<>>
                                    ELSE Follow(nodes, fail, fail[Front(n)], Last(n))]
         /\ \A n \in nodes : fail[n] \in nodes /\ (n = <<>> \/ Len(fail[n]) < Len(n))
<1> DEFINE V == [n \in nodes |-> {m \in nodes : n = <<>> \/ Len(m) < Len(n)}]
           rank == [n \in nodes |-> Len(n)]
           step(g) == [n \in nodes |-> IF Len(n) <= 1 THEN <<>>
                                       ELSE Follow(nodes, g, g[Front(n)], Last(n))]
           F == [g \in Candidates(nodes, V) |-> step(g)]
           fail == FailLinks(nodes)
<1>1. /\ rank \in [nodes -> Nat] /\ \A n \in nodes : Len(n) \in Nat
      /\ <<>> \in nodes /\ Len(<<>>) = 0
      /\ \A n \in nodes : n # <<>> => Len(n) > 0
  BY LenProperties, EmptySeq DEF Trie
<1>2. ASSUME NEW n \in nodes PROVE <<>> \in V[n] BY <1>1
<1>3. ASSUME NEW n \in nodes, ~ Len(n) <= 1
      PROVE  /\ Front(n) \in nodes /\ Len(Front(n)) < Len(n) /\ Last(n) \in C
             /\ Front(n) # <<>> /\ Len(Front(n)) = Len(n) - 1
  <2>1. n # <<>> BY <1>1, <1>3
  <2>2. Front(n) \in nodes /\ Len(Front(n)) = Len(n) - 1 /\ Last(n) \in C BY <2>1, TrieFront
  <2>3. Front(n) # <<>> BY <1>1, <1>3, <2>2
  <2>. QED BY <1>1, <2>2, <2>3
(* What is right for the shorter nodes is right for n.                     *)
<1>4. ASSUME NEW g, NEW n \in nodes, ~ Len(n) <= 1,
             \A m \in nodes : Len(m) < Len(n) => g[m] \in V[m]
      PROVE  /\ g[Front(n)] \in nodes /\ Len(g[Front(n)]) + 1 < Len(n)
             /\ LinkedDown(nodes, g, Len(g[Front(n)]))
             /\ \A m \in Short(nodes, Len(g[Front(n)])) : m \in nodes /\ Len(m) < Len(n)
             /\ Follow(nodes, g, g[Front(n)], Last(n)) \in V[n]
  <2> DEFINE m == g[Front(n)]
  <2>1. m \in V[Front(n)] BY <1>3, <1>4
  <2>2. m \in nodes /\ Len(m) < Len(Front(n)) BY <1>3, <1>4, <2>1
  <2> HIDE DEF m
  <2>3. Len(m) \in Nat /\ Len(n) \in Nat /\ Len(m) + 1 < Len(n)
    BY <1>1, <1>3, <1>4, <2>2
  <2>4. \A x \in Short(nodes, Len(m)) : x \in nodes /\ Len(x) < Len(n) /\ g[x] \in V[x]
    <3>1. ASSUME NEW x \in Short(nodes, Len(m)) PROVE x \in nodes /\ Len(x) < Len(n)
      <4>1. x \in nodes /\ Len(x) <= Len(m) /\ Len(x) \in Nat BY <1>1 DEF Short
      <4>. QED BY <2>3, <4>1
    <3>. QED BY <1>4, <3>1
  <2>5. LinkedDown(nodes, g, Len(m))
    <3>1. ASSUME NEW x \in Short(nodes, Len(m))
          PROVE  x = <<>> \/ (g[x] \in nodes /\ Len(g[x]) < Len(x))
      <4>1. x \in nodes /\ g[x] \in V[x] BY <2>4
      <4>. QED BY <4>1
    <3>. QED BY <3>1 DEF LinkedDown
  <2>6. /\ Follow(nodes, g, m, Last(n)) \in nodes
        /\ Len(Follow(nodes, g, m, Last(n))) \in 0..(Len(m) + 1)
    BY <1>3, <1>4, <2>2, <2>5, FollowShorter
  <2>7. Len(Follow(nodes, g, m, Last(n))) < Len(n) BY <2>3, <2>6
  <2>8. Follow(nodes, g, m, Last(n)) \in V[n] BY <2>6, <2>7
  <2>. QED BY <2>2, <2>3, <2>4, <2>5, <2>8 DEF m
<1>5. ASSUME NEW g \in Candidates(nodes, V), NEW n \in nodes PROVE g[n] \in V[n]
  BY DEF Candidates
<1>6. ASSUME NEW g \in Candidates(nodes, V) PROVE step(g) \in Candidates(nodes, V)
  <2>1. ASSUME NEW n \in nodes PROVE step(g)[n] \in V[n]
    <3>1. CASE Len(n) <= 1 BY <1>2, <3>1
    <3>2. CASE ~ Len(n) <= 1
      <4>1. Follow(nodes, g, g[Front(n)], Last(n)) \in V[n] BY <1>4, <1>5, <3>2
      <4> HIDE DEF V
      <4>. QED BY <3>2, <4>1
    <3>. QED BY <3>1, <3>2
  <2> HIDE DEF V
  <2>2. step(g) \in [nodes -> UNION {V[n] : n \in nodes}]
    <3>1. \A n \in nodes : step(g)[n] \in UNION {V[m] : m \in nodes} BY <2>1
    <3> HIDE DEF step
    <3>2. step(g) = [n \in nodes |-> step(g)[n]] BY DEF step
    <3>. QED BY <3>1, <3>2
  <2>. QED BY <2>1, <2>2 DEF Candidates
<1>7. F \in [Candidates(nodes, V) -> Candidates(nodes, V)] BY <1>6
<1>8. ASSUME NEW g \in Candidates(nodes, V), NEW h \in Candidates(nodes, V), NEW n \in nodes,
             \A m \in nodes : rank[m] < rank[n] => g[m] = h[m]
      PROVE  F[g][n] = F[h][n]
  <2>1. F[g][n] = step(g)[n] /\ F[h][n] = step(h)[n] OBVIOUS
  <2>2. CASE Len(n) <= 1 BY <2>1, <2>2
  <2>3. CASE ~ Len(n) <= 1
    <3>1. g[Front(n)] = h[Front(n)] BY <1>3, <1>8, <2>3
    <3>2. /\ g[Front(n)] \in nodes /\ LinkedDown(nodes, g, Len(g[Front(n)]))
          /\ \A m \in Short(nodes, Len(g[Front(n)])) : m \in nodes /\ Len(m) < Len(n)
      BY <1>4, <1>5, <2>3
    <3>3. \A m \in Short(nodes, Len(g[Front(n)])) : g[m] = h[m] BY <1>8, <3>2
    <3>4. Follow(nodes, g, g[Front(n)], Last(n)) = Follow(nodes, h, g[Front(n)], Last(n))
      <4> DEFINE m == g[Front(n)]
      <4>1. /\ m \in nodes /\ LinkedDown(nodes, g, Len(m))
            /\ \A x \in Short(nodes, Len(m)) : g[x] = h[x]
        BY <3>2, <3>3
      <4> HIDE DEF m, V, F, rank
      <4>2. Follow(nodes, g, m, Last(n)) = Follow(nodes, h, m, Last(n))
        BY <4>1, FollowAgrees
      <4>. QED BY <4>2 DEF m
    <3>. QED BY <2>1, <2>3, <3>1, <3>4
  <2>. QED BY <2>2, <2>3
<1>9. Recursion(nodes, V, rank, F)
  <2>1. ASSUME NEW n \in nodes PROVE V[n] # {} BY <1>2
  <2>. QED BY <1>1, <1>7, <1>8, <2>1, Zenon DEF Recursion
<1>10. PICK f \in Candidates(nodes, V) : f = F[f]
  <2> HIDE DEF V, rank, F
  <2>. QED BY <1>9, RecursionHasFunction
<1>11. f = step(f) BY <1>10
<1>12. fail = CHOOSE g : g = step(g) BY DEF FailLinks
<1>13. fail = step(fail)
  <2> HIDE DEF step, fail
  <2>. QED BY <1>11, <1>12
<1> HIDE DEF fail
<1> DEFINE B == {n \in nodes : fail[n] \in V[n]}
<1>14. ASSUME NEW n \in nodes, \A m \in nodes : rank[m] < rank[n] => m \in B
       PROVE  n \in B
  <2>1. CASE Len(n) <= 1 BY <1>2, <1>13, <2>1
  <2>2. CASE ~ Len(n) <= 1
    <3>1. \A m \in nodes : Len(m) < Len(n) => fail[m] \in V[m] BY <1>14
    <3>2. Follow(nodes, fail, fail[Front(n)], Last(n)) \in V[n] BY <1>4, <2>2, <3>1
    <3> HIDE DEF V
    <3>. QED BY <1>13, <2>2, <3>2
  <2>. QED BY <2>1, <2>2
<1>15. nodes \subseteq B
  <2> HIDE DEF rank, B
  <2>1. Inherits(nodes, rank, B) BY <1>14 DEF Inherits
  <2>. QED BY <1>1, <2>1, RankInduction
<1>16. \A n \in nodes : fail[n] \in V[n] BY <1>15
<1>. QED BY <1>13, <1>16 DEF fail

-----------------------------------------------------------------------------
(* The longest node that a text ends with.                                 *)
Longest(nodes, n, t) ==
    n \in nodes /\ Ends(n, t) /\ \A m \in nodes : Ends(m, t) => Len(m) <= Len(n)

(* Links lead to the longest node that the node, without its first         *)
(* character, ends with.                                                   *)
LinkedToLongest(nodes, fail, k) ==
    \A n \in Short(nodes, k) : n # <<>> => Longest(nodes, fail[n], Tail(n))

(* Nothing that t ends with and that goes on with c is longer than n.      *)
Enough(nodes, t, c, n) ==
    \A m \in nodes : Ends(m, t) /\ Append(m, c) \in nodes => Len(m) <= Len(n)

LEMMA TailEnds ==
  ASSUME NEW C, NEW s \in Seq(C), s # <<>>
  PROVE  Tail(s) \in Seq(C) /\ Len(Tail(s)) = Len(s) - 1 /\ Ends(Tail(s), s)
<1>1. /\ Tail(s) \in Seq(C) /\ Len(Tail(s)) = Len(s) - 1
      /\ \A i \in 1..Len(Tail(s)) : Tail(s)[i] = s[i + 1]
  BY HeadTailProperties
<1>2. Len(s) \in Nat /\ Len(Tail(s)) \in Nat BY <1>1, LenProperties
<1>3. ASSUME NEW i \in 1..Len(Tail(s)) PROVE Tail(s)[i] = s[Len(s) - Len(Tail(s)) + i]
  <2>1. Len(s) - Len(Tail(s)) + i = i + 1 BY <1>1, <1>2
  <2>. QED BY <1>1, <2>1
<1>4. Len(Tail(s)) <= Len(s) BY <1>1, <1>2
<1>. QED BY <1>1, <1>3, <1>4 DEF Ends

LEMMA LongestLinksDown ==
  ASSUME NEW C, NEW nodes, Trie(nodes, C), NEW fail, NEW k \in Nat,
         LinkedToLongest(nodes, fail, k)
  PROVE  LinkedDown(nodes, fail, k)
<1>1. ASSUME NEW n \in Short(nodes, k), n # <<>>
      PROVE  fail[n] \in nodes /\ Len(fail[n]) < Len(n)
  <2>1. n \in Seq(C) BY DEF Short, Trie
  <2>2. Longest(nodes, fail[n], Tail(n)) BY <1>1 DEF LinkedToLongest
  <2>3. fail[n] \in nodes /\ Len(fail[n]) <= Len(Tail(n)) BY <2>2 DEF Longest, Ends
  <2>4. Len(fail[n]) \in Nat /\ Len(n) \in Nat /\ Len(Tail(n)) = Len(n) - 1
    BY <1>1, <2>1, <2>3, LenProperties, TailEnds DEF Trie
  <2>. QED BY <2>3, <2>4
<1>. QED BY <1>1 DEF LinkedDown

(* The climb from n, which t ends with, stops at the longest node that t   *)
(* ends with and that goes on with c, or at the root.                      *)
LEMMA ClimbFinds ==
  ASSUME NEW C, NEW nodes, Trie(nodes, C), NEW fail, NEW k \in Nat,
         LinkedToLongest(nodes, fail, k), NEW c \in C, NEW t \in Seq(C),
         NEW n \in Short(nodes, k), Ends(n, t), Enough(nodes, t, c, n)
  PROVE  LET top == Climb(nodes, fail, c, k)[n] IN
         /\ top \in nodes /\ Ends(top, t) /\ Enough(nodes, t, c, top)
         /\ top = <<>> \/ Append(top, c) \in nodes
<1> DEFINE climb == Climb(nodes, fail, c, k)
           D == Short(nodes, k)
           rank == [m \in D |-> Len(m)]
           Found(top) == /\ top \in nodes /\ Ends(top, t) /\ Enough(nodes, t, c, top)
                         /\ top = <<>> \/ Append(top, c) \in nodes
           B == {m \in D : Ends(m, t) /\ Enough(nodes, t, c, m) => Found(climb[m])}
<1>1. climb = [m \in D |-> IF m = <<>> \/ Append(m, c) \in nodes THEN m ELSE climb[fail[m]]]
  BY LongestLinksDown, ClimbEquation
<1> HIDE DEF climb
<1>2. /\ rank \in [D -> Nat]
      /\ \A m \in nodes : Len(m) \in Nat /\ m \in Seq(C)
      /\ \A m \in D : m \in nodes /\ Len(m) <= k
  BY LenProperties DEF Trie, Short
<1>3. ASSUME NEW m \in D, \A e \in D : rank[e] < rank[m] => e \in B,
             Ends(m, t), Enough(nodes, t, c, m)
      PROVE  Found(climb[m])
  <2>1. CASE m = <<>> \/ Append(m, c) \in nodes BY <1>1, <1>2, <1>3, <2>1
  <2>2. CASE ~ (m = <<>> \/ Append(m, c) \in nodes)
    <3> DEFINE f == fail[m]
    <3>1. climb[m] = climb[f] BY <1>1, <2>2
    <3>2. Longest(nodes, f, Tail(m)) BY <2>2 DEF LinkedToLongest
    <3>3. Tail(m) \in Seq(C) /\ Len(Tail(m)) = Len(m) - 1 /\ Ends(Tail(m), m)
      BY <1>2, <2>2, TailEnds
    <3> HIDE DEF f
    <3>4. f \in nodes /\ Ends(f, Tail(m)) /\ Len(f) <= Len(Tail(m))
      BY <3>2 DEF Longest, Ends
    <3>5. Len(f) < Len(m) /\ f \in D
      <4>1. Len(f) \in Nat /\ Len(m) \in Nat /\ Len(m) <= k BY <1>2, <3>4
      <4>2. Len(f) < Len(m) /\ Len(f) <= k BY <3>3, <3>4, <4>1
      <4>. QED BY <3>4, <4>2 DEF Short
    <3>6. Ends(Tail(m), t) BY <1>2, <1>3, <3>3, EndsOrder
    <3>7. Ends(f, t) BY <1>2, <3>3, <3>4, <3>6, EndsOrder
    <3>8. ASSUME NEW y \in nodes, Ends(y, t), Append(y, c) \in nodes
          PROVE  Len(y) <= Len(f)
      <4>1. Len(y) <= Len(m) BY <1>3, <3>8 DEF Enough
      <4>2. Ends(y, m) BY <1>2, <1>3, <3>8, <4>1, EndsOrder
      <4>3. y # m BY <2>2, <3>8
      <4>4. ~ Len(m) <= Len(y) BY <1>2, <4>2, <4>3, EndsOrder
      <4>5. Len(y) <= Len(Tail(m))
        <5>1. Len(y) \in Nat /\ Len(m) \in Nat BY <1>2
        <5>. QED BY <3>3, <4>4, <5>1
      <4>6. Ends(y, Tail(m)) BY <1>2, <3>3, <4>2, <4>5, EndsOrder
      <4>. QED BY <3>2, <4>6 DEF Longest
    <3>9. Enough(nodes, t, c, f) BY <3>8 DEF Enough
    <3>10. f \in B BY <1>3, <3>5
    <3>. QED BY <3>1, <3>7, <3>9, <3>10
  <2>. QED BY <2>1, <2>2
<1>4. \A m \in D : (\A e \in D : rank[e] < rank[m] => e \in B) => m \in B
  <2> HIDE DEF rank, Found, D
  <2>. QED BY <1>3
<1>5. D \subseteq B
  <2> HIDE DEF rank, B, D
  <2>1. Inherits(D, rank, B) BY <1>4 DEF Inherits
  <2>. QED BY <1>2, <2>1, RankInduction
<1>6. Found(climb[n])
  <2> HIDE DEF Found
  <2>. QED BY <1>5
<1>. QED BY <1>6 DEF climb

(* Follow leads from the longest node that t ends with to the longest node *)
(* that t followed by c ends with.                                         *)
LEMMA FollowFinds ==
  ASSUME NEW C, NEW nodes, Trie(nodes, C), NEW fail, NEW n \in nodes,
         LinkedToLongest(nodes, fail, Len(n)), NEW c \in C, NEW t \in Seq(C),
         Longest(nodes, n, t)
  PROVE  Longest(nodes, Follow(nodes, fail, n, c), Append(t, c))
<1> DEFINE top == Climb(nodes, fail, c, Len(n))[n]
           next == Follow(nodes, fail, n, c)
<1>1. \A m \in nodes : m \in Seq(C) /\ Len(m) \in Nat BY LenProperties DEF Trie
<1>2. n \in Short(nodes, Len(n)) BY <1>1 DEF Short
<1>3. Ends(n, t) /\ Enough(nodes, t, c, n) BY DEF Longest, Enough
<1>4. /\ top \in nodes /\ Ends(top, t) /\ Enough(nodes, t, c, top)
      /\ top = <<>> \/ Append(top, c) \in nodes
  BY <1>1, <1>2, <1>3, ClimbFinds
<1>5. next = IF Append(top, c) \in nodes THEN Append(top, c) ELSE <<>> BY DEF Follow
<1> HIDE DEF top, next
<1>6. Append(t, c) \in Seq(C) /\ <<>> \in nodes /\ Len(<<>>) = 0
  BY AppendProperties, EmptySeq DEF Trie
<1>7. ASSUME NEW y \in nodes, Ends(y, Append(t, c)), y # <<>>
      PROVE  /\ Append(top, c) \in nodes /\ Len(y) <= Len(Append(top, c))
  <2>1. /\ Front(y) \in nodes /\ Last(y) \in C /\ y = Append(Front(y), Last(y))
        /\ Len(Front(y)) = Len(y) - 1 /\ Len(y) \in Nat \ {0}
    BY <1>7, TrieFront
  <2> DEFINE f == Front(y)
             d == Last(y)
  <2>2. /\ f \in nodes /\ d \in C /\ f \in Seq(C)
        /\ Append(f, d) \in nodes /\ Ends(Append(f, d), Append(t, c))
    BY <1>1, <1>7, <2>1
  <2> HIDE DEF f, d
  <2>3. Ends(f, t) /\ d = c BY <2>2, EndsAppend
  <2>4. Len(f) <= Len(top) BY <1>4, <2>2, <2>3 DEF Enough
  <2>5. Append(top, c) \in nodes
    <3>1. CASE top = <<>>
      <4>1. f = <<>>
        <5>1. Len(f) <= 0 /\ Len(f) \in Nat BY <1>1, <1>6, <2>2, <2>4, <3>1
        <5>. QED BY <2>2, <5>1, EmptySeq
      <4>. QED BY <2>2, <2>3, <3>1, <4>1
    <3>. QED BY <1>4, <3>1
  <2>6. Len(Append(top, c)) = Len(top) + 1 BY <1>1, <1>4, AppendProperties
  <2>7. Len(f) = Len(y) - 1 /\ Len(y) \in Nat /\ Len(top) \in Nat BY <1>1, <1>4, <2>1 DEF f
  <2>8. Len(y) <= Len(top) + 1 BY <2>4, <2>7
  <2>. QED BY <2>5, <2>6, <2>8
<1>8. next \in nodes BY <1>5, <1>6
<1>9. Ends(next, Append(t, c))
  <2>1. CASE Append(top, c) \in nodes
    <3>1. Ends(Append(top, c), Append(t, c)) BY <1>1, <1>4, EndsAppend
    <3>. QED BY <1>5, <2>1, <3>1
  <2>2. CASE next = <<>> BY <1>6, <2>2, EndsOrder
  <2>. QED BY <1>5, <2>1, <2>2
<1>10. ASSUME NEW y \in nodes, Ends(y, Append(t, c)) PROVE Len(y) <= Len(next)
  <2>1. CASE y = <<>> BY <1>1, <1>6, <1>8, <2>1
  <2>2. CASE y # <<>> BY <1>5, <1>7, <1>10, <2>2
  <2>. QED BY <2>1, <2>2
<1>11. Longest(nodes, next, Append(t, c)) BY <1>8, <1>9, <1>10 DEF Longest
<1>. QED BY <1>11 DEF next

(* Every failure link leads to the longest node that its own, without the  *)
(* first character, ends with.                                             *)
LEMMA FailLinksFind ==
  ASSUME NEW C, NEW nodes, Trie(nodes, C), NEW k
  PROVE  LinkedToLongest(nodes, FailLinks(nodes), k)
<1> DEFINE fail == FailLinks(nodes)
           rank == [n \in nodes |-> Len(n)]
           B == {n \in nodes : n # <<>> => Longest(nodes, fail[n], Tail(n))}
<1>1. /\ fail = [n \in nodes |-> IF Len(n) <= 1 THEN <<>>
                                 ELSE Follow(nodes, fail, fail[Front(n)], Last(n))]
      /\ \A n \in nodes : fail[n] \in nodes /\ (n = <<>> \/ Len(fail[n]) < Len(n))
  BY FailLinksEquation
<1> HIDE DEF fail
<1>2. /\ rank \in [nodes -> Nat] /\ \A n \in nodes : Len(n) \in Nat /\ n \in Seq(C)
      /\ <<>> \in nodes /\ Len(<<>>) = 0
  BY LenProperties, EmptySeq DEF Trie
<1>3. ASSUME NEW n \in nodes, \A m \in nodes : rank[m] < rank[n] => m \in B, n # <<>>
      PROVE  Longest(nodes, fail[n], Tail(n))
  <2>1. /\ Front(n) \in nodes /\ Last(n) \in C /\ n = Append(Front(n), Last(n))
        /\ Len(Front(n)) = Len(n) - 1 /\ Len(n) \in Nat \ {0}
    BY <1>3, TrieFront
  <2>2. Tail(n) \in Seq(C) /\ Len(Tail(n)) = Len(n) - 1 BY <1>2, <1>3, TailEnds
  <2>3. CASE Len(n) <= 1
    <3>1. fail[n] = <<>> /\ Len(Tail(n)) = 0 BY <1>1, <2>1, <2>2, <2>3
    <3>2. \A m \in nodes : Ends(m, Tail(n)) => Len(m) <= 0 BY <3>1 DEF Ends
    <3>. QED BY <1>2, <2>2, <3>1, <3>2, EndsOrder DEF Longest
  <2>4. CASE ~ Len(n) <= 1
    <3> DEFINE p == Front(n)
               c == Last(n)
               m == fail[p]
    <3>1. /\ p \in nodes /\ p \in Seq(C) /\ c \in C /\ Len(p) < Len(n) /\ p # <<>>
          /\ Tail(p) \in Seq(C) /\ Len(p) = Len(n) - 1
      <4>1. p # <<>> BY <1>2, <2>1, <2>4
      <4>2. p \in nodes /\ p \in Seq(C) /\ c \in C /\ Len(p) = Len(n) - 1 BY <1>2, <2>1
      <4>3. Tail(p) \in Seq(C) BY <4>1, <4>2, TailEnds
      <4>. QED BY <1>2, <4>1, <4>2, <4>3
    <3>2. Tail(n) = Append(Tail(p), c)
      <4>1. n = Append(p, c) BY <2>1
      <4> HIDE DEF p, c
      <4>. QED BY <3>1, <4>1, HeadTailAppend
    <3>3. fail[n] = Follow(nodes, fail, m, c) BY <1>1, <2>4
    <3> HIDE DEF p, c
    <3>4. Longest(nodes, m, Tail(p)) BY <1>3, <3>1
    <3>5. m \in nodes /\ Len(m) < Len(p) BY <1>1, <3>1
    <3>6. LinkedToLongest(nodes, fail, Len(m))
      <4>1. ASSUME NEW x \in Short(nodes, Len(m)), x # <<>>
            PROVE  Longest(nodes, fail[x], Tail(x))
        <5>1. x \in nodes /\ Len(x) <= Len(m) BY DEF Short
        <5>2. Len(x) < Len(n)
          <6>1. Len(x) \in Nat /\ Len(m) \in Nat /\ Len(p) \in Nat /\ Len(n) \in Nat
            BY <1>2, <3>1, <3>5, <5>1
          <6>. QED BY <3>1, <3>5, <5>1, <6>1
        <5>. QED BY <1>3, <4>1, <5>1, <5>2
      <4>. QED BY <4>1 DEF LinkedToLongest
    <3> HIDE DEF m
    <3>7. Longest(nodes, Follow(nodes, fail, m, c), Append(Tail(p), c))
      BY <3>1, <3>4, <3>5, <3>6, FollowFinds
    <3>. QED BY <3>2, <3>3, <3>7 DEF m
  <2>. QED BY <2>3, <2>4
<1>4. \A n \in nodes : (\A m \in nodes : rank[m] < rank[n] => m \in B) => n \in B
  <2> HIDE DEF rank
  <2>. QED BY <1>3
<1>5. nodes \subseteq B
  <2> HIDE DEF rank, B
  <2>1. Inherits(nodes, rank, B) BY <1>4 DEF Inherits
  <2>. QED BY <1>2, <2>1, RankInduction
<1>6. \A n \in Short(nodes, k) : n # <<>> => Longest(nodes, fail[n], Tail(n))
  BY <1>5 DEF Short
<1>. QED BY <1>6 DEF LinkedToLongest, fail

(* At each node the words that it ends with.                               *)
LEMMA OutputsFind ==
  ASSUME NEW C, NEW nodes, Trie(nodes, C), NEW words \in SUBSET nodes
  PROVE  \A n \in nodes :
            Outputs(words, nodes, FailLinks(nodes))[n] = {w \in words : Ends(w, n)}
<1> DEFINE fail == FailLinks(nodes)
           V == [n \in nodes |-> SUBSET words]
           rank == [n \in nodes |-> Len(n)]
           step(g) == [n \in nodes |-> ({n} \cap words) \cup
                                       (IF n = <<>> THEN {} ELSE g[fail[n]])]
           F == [g \in Candidates(nodes, V) |-> step(g)]
           outputs == Outputs(words, nodes, fail)
           B == {n \in nodes : outputs[n] = {w \in words : Ends(w, n)}}
<1>1. \A n \in nodes : fail[n] \in nodes /\ (n = <<>> \/ Len(fail[n]) < Len(n))
  BY FailLinksEquation
<1>2. \A n \in nodes : n # <<>> => Longest(nodes, fail[n], Tail(n))
  <2>1. ASSUME NEW n \in nodes, n # <<>> PROVE Longest(nodes, fail[n], Tail(n))
    <3>1. LinkedToLongest(nodes, fail, Len(n)) BY FailLinksFind
    <3>2. n \in Short(nodes, Len(n)) BY LenProperties DEF Short, Trie
    <3>. QED BY <2>1, <3>1, <3>2 DEF LinkedToLongest
  <2>. QED BY <2>1
<1>3. /\ rank \in [nodes -> Nat] /\ \A n \in nodes : Len(n) \in Nat /\ n \in Seq(C)
      /\ <<>> \in nodes /\ Len(<<>>) = 0
  BY LenProperties, EmptySeq DEF Trie
<1>4. outputs = CHOOSE g : g = step(g) BY DEF Outputs
<1> HIDE DEF fail, outputs
<1>5. ASSUME NEW g \in Candidates(nodes, V) PROVE step(g) \in Candidates(nodes, V)
  <2>1. \A n \in nodes : g[n] \in SUBSET words BY DEF Candidates
  <2>2. \A n \in nodes : step(g)[n] \in SUBSET words BY <1>1, <2>1
  <2>3. \A n \in nodes : V[n] = SUBSET words OBVIOUS
  <2>4. step(g) \in [nodes -> UNION {V[n] : n \in nodes}]
    <3>1. \A n \in nodes : step(g)[n] \in UNION {V[m] : m \in nodes} BY <2>2, <2>3
    <3> HIDE DEF step, V
    <3>2. step(g) = [n \in nodes |-> step(g)[n]] BY DEF step
    <3>. QED BY <3>1, <3>2
  <2> HIDE DEF step, V
  <2>. QED BY <2>2, <2>3, <2>4 DEF Candidates
<1>6. F \in [Candidates(nodes, V) -> Candidates(nodes, V)] BY <1>5
<1>7. ASSUME NEW g \in Candidates(nodes, V), NEW h \in Candidates(nodes, V), NEW n \in nodes,
             \A m \in nodes : rank[m] < rank[n] => g[m] = h[m]
      PROVE  F[g][n] = F[h][n]
  <2>1. F[g][n] = step(g)[n] /\ F[h][n] = step(h)[n] OBVIOUS
  <2>2. n = <<>> \/ g[fail[n]] = h[fail[n]] BY <1>1, <1>7
  <2>. QED BY <2>1, <2>2
<1>8. Recursion(nodes, V, rank, F)
  <2>1. \A n \in nodes : V[n] # {} OBVIOUS
  <2>. QED BY <1>3, <1>6, <1>7, <2>1, Zenon DEF Recursion
<1>9. PICK f \in Candidates(nodes, V) : f = F[f]
  <2> HIDE DEF V, rank, F
  <2>. QED BY <1>8, RecursionHasFunction
<1>10. f = step(f) BY <1>9
<1>11. outputs = step(outputs)
  <2> HIDE DEF step
  <2>. QED BY <1>4, <1>10
<1>12. \A n \in nodes : outputs[n] = ({n} \cap words) \cup
                                     (IF n = <<>> THEN {} ELSE outputs[fail[n]])
  BY <1>11
<1>13. ASSUME NEW n \in nodes, \A m \in nodes : rank[m] < rank[n] => m \in B
       PROVE  outputs[n] = {w \in words : Ends(w, n)}
  <2>1. Ends(n, n) BY <1>3, EndsOrder
  <2>2. CASE n = <<>>
    <3>1. ASSUME NEW w \in words, Ends(w, n) PROVE w = n
      <4>1. Len(w) <= Len(n) /\ w \in nodes BY <3>1 DEF Ends
      <4>2. Len(n) <= Len(w) BY <1>3, <2>2, <4>1
      <4>. QED BY <1>3, <3>1, <4>1, <4>2, EndsOrder
    <3>. QED BY <1>12, <2>1, <2>2, <3>1
  <2>3. CASE n # <<>>
    <3> DEFINE m == fail[n]
    <3>1. m \in nodes /\ Len(m) < Len(n) BY <1>1, <2>3
    <3>2. outputs[m] = {w \in words : Ends(w, m)} BY <1>13, <3>1
    <3>3. Longest(nodes, m, Tail(n)) BY <1>2, <2>3
    <3>4. outputs[n] = ({n} \cap words) \cup outputs[m] BY <1>12, <2>3
    <3> HIDE DEF m
    <3>5. /\ Tail(n) \in Seq(C) /\ Ends(Tail(n), n) /\ Len(Tail(n)) = Len(n) - 1
          /\ Ends(m, Tail(n))
      BY <1>3, <2>3, <3>3, TailEnds DEF Longest
    <3>6. ASSUME NEW w \in words PROVE Ends(w, n) <=> w = n \/ Ends(w, m)
      <4>1. w \in nodes /\ w \in Seq(C) /\ m \in Seq(C) /\ n \in Seq(C) BY <1>3, <3>1
      <4>2. Ends(m, n) BY <3>5, <4>1, EndsOrder
      <4>3. ASSUME Ends(w, m) PROVE Ends(w, n) BY <4>1, <4>2, <4>3, EndsOrder
      <4>4. ASSUME Ends(w, n), w # n PROVE Ends(w, m)
        <5>1. ~ Len(n) <= Len(w) BY <4>1, <4>4, EndsOrder
        <5>2. Len(w) <= Len(Tail(n))
          <6>1. Len(w) \in Nat /\ Len(n) \in Nat BY <1>3, <4>1
          <6>. QED BY <3>5, <5>1, <6>1
        <5>3. Ends(w, Tail(n)) BY <3>5, <4>1, <4>4, <5>2, EndsOrder
        <5>4. Len(w) <= Len(m) BY <3>3, <4>1, <5>3 DEF Longest
        <5>. QED BY <4>1, <4>2, <4>4, <5>4, EndsOrder
      <4>. QED BY <2>1, <4>3, <4>4
    <3>. QED BY <3>2, <3>4, <3>6
  <2>. QED BY <2>2, <2>3
<1>14. \A n \in nodes : (\A m \in nodes : rank[m] < rank[n] => m \in B) => n \in B
  <2> HIDE DEF rank
  <2>. QED BY <1>13
<1>15. nodes \subseteq B
  <2>1. rank \in [nodes -> Nat] BY <1>3
  <2> HIDE DEF rank, B
  <2>2. Inherits(nodes, rank, B) BY <1>14 DEF Inherits
  <2>. QED BY <2>1, <2>2, RankInduction
<1>. QED BY <1>15 DEF outputs, fail

(* The automaton of a set of words.                                        *)
LEMMA AutomatonMeans ==
  ASSUME NEW C, NEW words \in SUBSET Seq(C)
  PROVE  LET a == Automaton(words) IN
         /\ DOMAIN a = Nodes(words) /\ Trie(Nodes(words), C) /\ words \subseteq Nodes(words)
         /\ \A n \in Nodes(words) :
               /\ a[n].fail = FailLinks(Nodes(words))[n]
               /\ a[n].outputs = {w \in words : Ends(w, n)}
<1> DEFINE nodes == Nodes(words)
           a == Automaton(words)
<1>1. Trie(nodes, C) /\ words \subseteq nodes BY NodesAreATrie
<1> HIDE DEF nodes
<1>2. a = [n \in nodes |-> [fail |-> FailLinks(nodes)[n],
                            outputs |-> Outputs(words, nodes, FailLinks(nodes))[n]]]
  BY DEF Automaton, nodes
<1>3. \A n \in nodes : Outputs(words, nodes, FailLinks(nodes))[n] = {w \in words : Ends(w, n)}
  BY <1>1, OutputsFind
<1> HIDE DEF a
<1>4. /\ DOMAIN a = nodes
      /\ \A n \in nodes : /\ a[n].fail = FailLinks(nodes)[n]
                          /\ a[n].outputs = Outputs(words, nodes, FailLinks(nodes))[n]
  BY <1>2
<1>. QED BY <1>1, <1>3, <1>4 DEF nodes, a

-----------------------------------------------------------------------------
(* The first i characters of a text.                                       *)
LEMMA PrefixMeans ==
  ASSUME NEW C, NEW t \in Seq(C), NEW i \in 0..Len(t)
  PROVE  /\ SubSeq(t, 1, i) \in Seq(C) /\ Len(SubSeq(t, 1, i)) = i
         /\ \A j \in 1..i : SubSeq(t, 1, i)[j] = t[j]
<1>1. Len(t) \in Nat /\ i \in Nat /\ i \in Int /\ 1 \in Int /\ i <= Len(t)
  BY LenProperties
<1>2. \A j \in 1..i : t[j] \in C
  <2>1. \A j \in 1..i : j \in 1..Len(t) BY <1>1
  <2>. QED BY <2>1, ElementOfSeq
<1>3. /\ SubSeq(t, 1, i) \in Seq(C)
      /\ Len(SubSeq(t, 1, i)) = IF 1 <= i THEN i - 1 + 1 ELSE 0
      /\ \A j \in 1..(i - 1 + 1) : SubSeq(t, 1, i)[j] = t[1 + j - 1]
  BY <1>1, <1>2, SubSeqProperties
<1>4. i - 1 + 1 = i /\ (~ 1 <= i => i = 0) /\ \A j \in 1..i : 1 + j - 1 = j BY <1>1
<1>5. Len(SubSeq(t, 1, i)) = i BY <1>3, <1>4
<1>. QED BY <1>3, <1>4, <1>5

LEMMA PrefixGrows ==
  ASSUME NEW C, NEW t \in Seq(C), NEW i \in 1..Len(t)
  PROVE  t[i] \in C /\ SubSeq(t, 1, i) = Append(SubSeq(t, 1, i - 1), t[i])
<1> DEFINE p == SubSeq(t, 1, i - 1)
           q == SubSeq(t, 1, i)
           a == Append(p, t[i])
<1>1. Len(t) \in Nat /\ i \in Nat /\ 1 <= i /\ i - 1 \in 0..Len(t) /\ i \in 0..Len(t)
  BY LenProperties
<1>2. t[i] \in C BY ElementOfSeq
<1>3. p \in Seq(C) /\ Len(p) = i - 1 /\ \A j \in 1..(i - 1) : p[j] = t[j]
  BY <1>1, PrefixMeans
<1>4. q \in Seq(C) /\ Len(q) = i /\ \A j \in 1..i : q[j] = t[j] BY <1>1, PrefixMeans
<1> HIDE DEF p, q
<1>5. /\ a \in Seq(C) /\ Len(a) = Len(p) + 1 /\ a[Len(p) + 1] = t[i]
      /\ \A j \in 1..Len(p) : a[j] = p[j]
  BY <1>2, <1>3, AppendProperties
<1> HIDE DEF a
<1>6. Len(a) = i /\ Len(p) + 1 = i BY <1>1, <1>3, <1>5
<1>7. ASSUME NEW j \in 1..i PROVE q[j] = a[j]
  <2>1. CASE j = i BY <1>4, <1>5, <1>6, <2>1
  <2>2. CASE j # i
    <3>1. j \in 1..(i - 1) BY <1>1, <2>2
    <3>. QED BY <1>3, <1>4, <1>5, <3>1
  <2>. QED BY <2>1, <2>2
<1>8. q = a BY <1>4, <1>5, <1>6, <1>7, SeqEqual
<1>. QED BY <1>2, <1>8 DEF a, p, q

(* A word ends at the i-th character of a text where it occurs in it.      *)
LEMMA EndsIsOccurrence ==
  ASSUME NEW C, NEW t \in Seq(C), NEW w \in Seq(C), NEW i \in 0..Len(t)
  PROVE  Ends(w, SubSeq(t, 1, i)) <=>
            Len(w) <= i /\ SubSeq(t, i - Len(w) + 1, i) = w
<1> DEFINE p == SubSeq(t, 1, i)
           o == SubSeq(t, i - Len(w) + 1, i)
<1>1. Len(t) \in Nat /\ Len(w) \in Nat /\ i \in Nat /\ i <= Len(t) BY LenProperties
<1>2. p \in Seq(C) /\ Len(p) = i /\ \A j \in 1..i : p[j] = t[j] BY PrefixMeans
<1>3. ASSUME Len(w) <= i
      PROVE  o \in Seq(C) /\ Len(o) = Len(w) /\ \A j \in 1..Len(w) : o[j] = t[i - Len(w) + j]
  <2> DEFINE k == i - Len(w) + 1
  <2>1. k \in Int /\ i \in Int /\ 1 <= k BY <1>1, <1>3
  <2>2. \A j \in k..i : t[j] \in C
    <3>1. \A j \in k..i : j \in 1..Len(t) BY <1>1, <2>1
    <3>. QED BY <3>1, ElementOfSeq
  <2>3. i - k + 1 = Len(w) /\ (~ k <= i => Len(w) = 0) BY <1>1
  <2>5. \A j \in 1..Len(w) : k + j - 1 = i - Len(w) + j BY <1>1
  <2> HIDE DEF k
  <2>4. /\ SubSeq(t, k, i) \in Seq(C)
        /\ Len(SubSeq(t, k, i)) = IF k <= i THEN i - k + 1 ELSE 0
        /\ \A j \in 1..(i - k + 1) : SubSeq(t, k, i)[j] = t[k + j - 1]
    BY <2>1, <2>2, SubSeqProperties
  <2>6. /\ SubSeq(t, k, i) \in Seq(C) /\ Len(SubSeq(t, k, i)) = Len(w)
        /\ \A j \in 1..Len(w) : SubSeq(t, k, i)[j] = t[i - Len(w) + j]
    BY <2>3, <2>4, <2>5
  <2>. QED BY <2>6 DEF k
<1> HIDE DEF p, o
<1>4. ASSUME Len(w) <= i, NEW j \in 1..Len(w)
      PROVE  Len(p) - Len(w) + j \in 1..i /\ Len(p) - Len(w) + j = i - Len(w) + j
  BY <1>1, <1>2, <1>4
<1>5. ASSUME Len(w) <= i, o = w PROVE Ends(w, p)
  <2>1. ASSUME NEW j \in 1..Len(w) PROVE w[j] = p[Len(p) - Len(w) + j]
    BY <1>2, <1>3, <1>4, <1>5
  <2>. QED BY <1>2, <1>5, <2>1 DEF Ends
<1>6. ASSUME Ends(w, p) PROVE Len(w) <= i /\ o = w
  <2>1. Len(w) <= i BY <1>2, <1>6 DEF Ends
  <2>2. ASSUME NEW j \in 1..Len(o) PROVE o[j] = w[j]
    <3>1. j \in 1..Len(w) BY <1>3, <2>1
    <3>2. w[j] = p[Len(p) - Len(w) + j] BY <1>6, <3>1 DEF Ends
    <3>. QED BY <1>2, <1>3, <1>4, <2>1, <3>1, <3>2
  <2>. QED BY <1>3, <2>1, <2>2, SeqEqual
<1>. QED BY <1>5, <1>6 DEF p, o

-----------------------------------------------------------------------------
(* The loop of scan().                                                     *)
Hit(i, w) == [start |-> i - Len(w), end |-> i, word |-> w]
Hits(words) == [start : Int, end : Int, word : words]

(* What the loop makes of the state and hits b with the i-th character.    *)
After(words, text, i, b) ==
    LET nodes == Nodes(words)
        state == Follow(nodes, FailLinks(nodes), b.state, text[i])
    IN [state |-> state,
        hits |-> b.hits \cup {Hit(i, w) : w \in Automaton(words)[state].outputs}]

LEMMA AfterMeans ==
  ASSUME NEW words, NEW text, NEW i, NEW b
  PROVE  LET nodes == Nodes(words)
             state == Follow(nodes, FailLinks(nodes), b.state, text[i])
         IN /\ After(words, text, i, b).state = state
            /\ After(words, text, i, b).hits =
                  b.hits \cup {Hit(i, w) : w \in Automaton(words)[state].outputs}
<1> DEFINE state == Follow(Nodes(words), FailLinks(Nodes(words)), b.state, text[i])
           hits == b.hits \cup {Hit(i, w) : w \in Automaton(words)[state].outputs}
<1>1. After(words, text, i, b) = [state |-> state, hits |-> hits] BY DEF After
<1> HIDE DEF state, hits
<1>2. After(words, text, i, b).state = state /\ After(words, text, i, b).hits = hits BY <1>1
<1>. QED BY <1>2 DEF state, hits

(* The equation of Scanned.                                                *)
LEMMA ScannedEquation ==
  ASSUME NEW C, NEW words \in SUBSET Seq(C), NEW text \in Seq(C)
  PROVE  LET scanned == Scanned(Automaton(words), text) IN
         /\ scanned[0] = [state |-> <<>>, hits |-> {}]
         /\ \A i \in 1..Len(text) : scanned[i] = After(words, text, i, scanned[i - 1])
<1> DEFINE a == Automaton(words)
           nodes == Nodes(words)
           fail == FailLinks(nodes)
           D == 0..Len(text)
           S == [state : nodes, hits : SUBSET Hits(words)]
           V == [i \in D |-> S]
           rank == [i \in D |-> i]
           step(g) == [i \in D |-> IF i = 0 THEN [state |-> <<>>, hits |-> {}]
                                   ELSE After(words, text, i, g[i - 1])]
           F == [g \in Candidates(D, V) |-> step(g)]
           scanned == Scanned(a, text)
<1>1. /\ DOMAIN a = nodes /\ Trie(nodes, C) /\ words \subseteq nodes
      /\ \A n \in nodes : a[n].fail = fail[n] /\ a[n].outputs = {w \in words : Ends(w, n)}
  BY AutomatonMeans
<1> HIDE DEF a
<1>2. /\ fail = [n \in nodes |-> IF Len(n) <= 1 THEN <<>>
                                 ELSE Follow(nodes, fail, fail[Front(n)], Last(n))]
      /\ \A n \in nodes : fail[n] \in nodes /\ (n = <<>> \/ Len(fail[n]) < Len(n))
  BY <1>1, FailLinksEquation
<1> HIDE DEF nodes, fail
<1>3. [n \in nodes |-> a[n].fail] = fail
  <2> DEFINE body(n) == IF Len(n) <= 1 THEN <<>>
                        ELSE Follow(nodes, fail, fail[Front(n)], Last(n))
  <2>1. fail = [n \in nodes |-> body(n)] BY <1>2
  <2> HIDE DEF body
  <2>2. fail = [n \in nodes |-> fail[n]] BY <2>1
  <2>. QED BY <1>1, <2>2
<1>4. scanned = CHOOSE g : g = step(g)
  <2>1. scanned = CHOOSE g : g =
           [i \in 0..Len(text) |->
              IF i = 0 THEN [state |-> <<>>, hits |-> {}]
              ELSE LET before == g[i - 1]
                       state == Follow(nodes, fail, before.state, text[i])
                   IN [state |-> state,
                       hits |-> before.hits \cup
                                   {[start |-> i - Len(w), end |-> i, word |-> w]
                                       : w \in a[state].outputs}]]
    BY <1>1, <1>3 DEF Scanned
  <2>. QED BY <2>1 DEF Hit, After, a, nodes, fail
<1>5. Len(text) \in Nat /\ \A i \in D : i \in Nat /\ i <= Len(text) /\ (i # 0 => i - 1 \in D)
  BY LenProperties
<1>6. ASSUME NEW i \in D, i # 0, NEW b \in S PROVE After(words, text, i, b) \in S
  <2> DEFINE state == Follow(nodes, fail, b.state, text[i])
             hits == b.hits \cup {Hit(i, w) : w \in a[state].outputs}
  <2>1. b.state \in nodes /\ b.hits \in SUBSET Hits(words) OBVIOUS
  <2>2. i \in 1..Len(text) /\ i \in Int BY <1>5, <1>6
  <2>3. text[i] \in C BY <2>2, ElementOfSeq
  <2>4. LinkedDown(nodes, fail, Len(b.state)) BY <1>2 DEF LinkedDown, Short
  <2>5. state \in nodes BY <1>1, <2>1, <2>3, <2>4, FollowShorter
  <2> HIDE DEF state
  <2>6. ASSUME NEW w \in a[state].outputs PROVE Hit(i, w) \in Hits(words)
    <3>1. w \in words BY <1>1, <2>5, <2>6
    <3>2. Len(w) \in Nat BY <3>1, LenProperties
    <3>. QED BY <2>2, <3>1, <3>2 DEF Hit, Hits
  <2>7. b.hits \cup {Hit(i, w) : w \in a[state].outputs} \in SUBSET Hits(words)
    BY <2>1, <2>6
  <2>8. After(words, text, i, b) = [state |-> state, hits |-> hits]
    BY DEF After, state, a, nodes, fail
  <2>. QED BY <2>5, <2>7, <2>8
<1>7. ASSUME NEW g \in Candidates(D, V) PROVE step(g) \in Candidates(D, V)
  <2>1. \A i \in D : g[i] \in S BY DEF Candidates
  <2>2. [state |-> <<>>, hits |-> {}] \in S BY <1>1 DEF Trie
  <2> HIDE DEF S
  <2>3. \A i \in D : step(g)[i] \in S BY <1>5, <1>6, <2>1, <2>2
  <2> HIDE DEF step
  <2>4. step(g) = [i \in D |-> step(g)[i]] BY DEF step
  <2>. QED BY <2>3, <2>4 DEF Candidates
<1>8. F \in [Candidates(D, V) -> Candidates(D, V)] BY <1>7
<1>9. ASSUME NEW g \in Candidates(D, V), NEW h \in Candidates(D, V), NEW i \in D,
             \A j \in D : rank[j] < rank[i] => g[j] = h[j]
      PROVE  F[g][i] = F[h][i]
  <2>1. F[g][i] = step(g)[i] /\ F[h][i] = step(h)[i] OBVIOUS
  <2>2. CASE i = 0 BY <2>1, <2>2
  <2>3. CASE i # 0
    <3>1. i - 1 \in D /\ i - 1 < i BY <1>5, <2>3
    <3>2. g[i - 1] = h[i - 1] BY <1>9, <3>1
    <3>. QED BY <2>1, <3>2
  <2>. QED BY <2>2, <2>3
<1>10. Recursion(D, V, rank, F)
  <2>1. rank \in [D -> Nat] BY <1>5
  <2>2. \A i \in D : V[i] # {}
    <3>1. [state |-> <<>>, hits |-> {}] \in S BY <1>1 DEF Trie
    <3> HIDE DEF S
    <3>. QED BY <3>1
  <2>. QED BY <1>8, <1>9, <2>1, <2>2, Zenon DEF Recursion
<1>11. PICK f \in Candidates(D, V) : f = F[f]
  <2> HIDE DEF V, rank, F, D
  <2>. QED BY <1>10, RecursionHasFunction
<1>12. f = step(f) BY <1>11
<1>13. scanned = step(scanned)
  <2> HIDE DEF step, scanned
  <2>. QED BY <1>4, <1>12
<1> HIDE DEF scanned
<1>14. scanned[0] = [state |-> <<>>, hits |-> {}] BY <1>5, <1>13
<1>15. ASSUME NEW i \in 1..Len(text) PROVE scanned[i] = After(words, text, i, scanned[i - 1])
  <2>1. i \in D /\ i # 0 BY <1>5
  <2> HIDE DEF D
  <2>. QED BY <1>13, <2>1
<1>. QED BY <1>14, <1>15 DEF scanned, a

LEMMA OccurrencesMeans ==
  ASSUME NEW words, NEW text, NEW h
  PROVE  h \in Occurrences(words, text) <=>
            \E w \in words : \E j \in 0..(Len(text) - Len(w)) :
               /\ SubSeq(text, j + 1, j + Len(w)) = w
               /\ h = [start |-> j, end |-> j + Len(w), word |-> w]
<1> DEFINE At(w) == {[start |-> i, end |-> i + Len(w), word |-> w]
                        : i \in {j \in 0..(Len(text) - Len(w)) :
                                    SubSeq(text, j + 1, j + Len(w)) = w}}
<1>1. Occurrences(words, text) = UNION {At(w) : w \in words} BY DEF Occurrences
<1>2. \A w : h \in At(w) <=> \E j \in 0..(Len(text) - Len(w)) :
                                /\ SubSeq(text, j + 1, j + Len(w)) = w
                                /\ h = [start |-> j, end |-> j + Len(w), word |-> w]
  OBVIOUS
<1> HIDE DEF At
<1>3. h \in UNION {At(w) : w \in words} <=> \E w \in words : h \in At(w) OBVIOUS
<1>. QED BY <1>1, <1>2, <1>3

(* After i characters: the longest node that they end with, and all        *)
(* occurrences that end in them.                                           *)
ScannedUpTo(words, text, scanned, i) ==
    /\ Longest(Nodes(words), scanned.state, SubSeq(text, 1, i))
    /\ scanned.hits = {h \in Occurrences(words, text) : h.end <= i}

LEMMA ScannedFinds ==
  ASSUME NEW C, NEW words \in SUBSET Seq(C), <<>> \notin words, NEW text \in Seq(C),
         NEW i \in 0..Len(text)
  PROVE  ScannedUpTo(words, text, Scanned(Automaton(words), text)[i], i)
<1> DEFINE nodes == Nodes(words)
           fail == FailLinks(nodes)
           a == Automaton(words)
           s == Scanned(a, text)
           D == 0..Len(text)
           rank == [j \in D |-> j]
           Right(j) == /\ Longest(nodes, s[j].state, SubSeq(text, 1, j))
                       /\ s[j].hits = {h \in Occurrences(words, text) : h.end <= j}
           B == {j \in D : Right(j)}
<1>1. /\ DOMAIN a = nodes /\ Trie(nodes, C) /\ words \subseteq nodes
      /\ \A n \in nodes : a[n].outputs = {w \in words : Ends(w, n)}
  BY AutomatonMeans
<1>2. /\ s[0] = [state |-> <<>>, hits |-> {}]
      /\ \A j \in 1..Len(text) :
            /\ s[j].state = Follow(nodes, fail, s[j - 1].state, text[j])
            /\ s[j].hits = s[j - 1].hits \cup {Hit(j, w) : w \in a[s[j].state].outputs}
  <2>1. /\ s[0] = [state |-> <<>>, hits |-> {}]
        /\ \A j \in 1..Len(text) : s[j] = After(words, text, j, s[j - 1])
    BY ScannedEquation
  <2> HIDE DEF s, a
  <2>2. ASSUME NEW j \in 1..Len(text)
        PROVE  /\ s[j].state = Follow(nodes, fail, s[j - 1].state, text[j])
               /\ s[j].hits = s[j - 1].hits \cup {Hit(j, w) : w \in a[s[j].state].outputs}
    <3>1. s[j] = After(words, text, j, s[j - 1]) BY <2>1
    <3>. QED BY <3>1, AfterMeans DEF a
  <2>. QED BY <2>1, <2>2
<1> HIDE DEF s, a
<1>3. \A k : LinkedToLongest(nodes, fail, k) BY <1>1, FailLinksFind
<1> HIDE DEF fail, nodes
<1>4. /\ Len(text) \in Nat /\ <<>> \in nodes /\ Len(<<>>) = 0
      /\ \A n \in nodes : n \in Seq(C) /\ Len(n) \in Nat
      /\ \A w \in words : w \in Seq(C) /\ Len(w) \in Nat \ {0}
  BY <1>1, LenProperties, EmptySeq DEF Trie
<1>5. \A h \in Occurrences(words, text) : h.end \in Int /\ h.end > 0
  <2>1. ASSUME NEW h \in Occurrences(words, text) PROVE h.end \in Int /\ h.end > 0
    <3>1. PICK w \in words : \E j \in 0..(Len(text) - Len(w)) :
                                h = [start |-> j, end |-> j + Len(w), word |-> w]
      BY OccurrencesMeans
    <3>2. PICK j \in 0..(Len(text) - Len(w)) :
                                h = [start |-> j, end |-> j + Len(w), word |-> w]
      BY <3>1
    <3>3. h.end = j + Len(w) BY <3>2
    <3>. QED BY <1>4, <3>3
  <2>. QED BY <2>1
<1>6. Right(0)
  <2>1. SubSeq(text, 1, 0) = <<>> BY SubSeqEmpty
  <2>2. \A n \in nodes : Ends(n, <<>>) => Len(n) <= 0 BY <1>4 DEF Ends
  <2>3. Ends(<<>>, <<>>) BY <1>4, EndsOrder
  <2>6. s[0].state = <<>> BY <1>2
  <2>7. Longest(nodes, <<>>, <<>>) BY <1>4, <2>2, <2>3 DEF Longest
  <2>4. Longest(nodes, s[0].state, SubSeq(text, 1, 0)) BY <2>1, <2>6, <2>7
  <2>5. {h \in Occurrences(words, text) : h.end <= 0} = {} BY <1>5
  <2>. QED BY <1>2, <2>4, <2>5
<1>7. ASSUME NEW j \in 1..Len(text), Right(j - 1) PROVE Right(j)
  <2> DEFINE n == s[j].state
             p == SubSeq(text, 1, j)
  <2>1. /\ j \in Nat /\ j \in Int /\ j - 1 \in 0..Len(text) /\ j \in 0..Len(text)
    BY <1>4
  <2>2. /\ text[j] \in C /\ p = Append(SubSeq(text, 1, j - 1), text[j])
        /\ SubSeq(text, 1, j - 1) \in Seq(C) /\ p \in Seq(C) /\ Len(p) = j
    BY <2>1, PrefixGrows, PrefixMeans
  <2>3. Longest(nodes, n, p)
    <3> DEFINE m == s[j - 1].state
               t == SubSeq(text, 1, j - 1)
    <3>1. Longest(nodes, m, t) /\ m \in nodes BY <1>7 DEF Longest
    <3>2. LinkedToLongest(nodes, fail, Len(m)) BY <1>3
    <3>3. t \in Seq(C) BY <2>2
    <3> HIDE DEF m, t, p
    <3>4. Longest(nodes, Follow(nodes, fail, m, text[j]), Append(t, text[j]))
      BY <1>1, <2>2, <3>1, <3>2, <3>3, FollowFinds
    <3>5. n = Follow(nodes, fail, m, text[j]) BY <1>2 DEF m
    <3>6. p = Append(t, text[j]) BY <2>2 DEF t
    <3> HIDE DEF n
    <3>. QED BY <3>4, <3>5, <3>6
  <2> HIDE DEF n, p
  <2>4. ASSUME NEW w \in words
        PROVE  w \in a[n].outputs <=> Len(w) <= j /\ SubSeq(text, j - Len(w) + 1, j) = w
    <3>1. n \in nodes /\ Ends(n, p) /\ n \in Seq(C) /\ w \in nodes /\ w \in Seq(C)
      BY <1>1, <1>4, <2>3 DEF Longest
    <3>2. w \in a[n].outputs <=> Ends(w, n) BY <1>1, <3>1
    <3>6. p \in Seq(C) BY <2>2
    <3>3. Ends(w, n) => Ends(w, p) BY <3>1, <3>6, EndsOrder
    <3>4. ASSUME Ends(w, p) PROVE Ends(w, n)
      <4>1. Len(w) <= Len(n) BY <2>3, <3>1, <3>4 DEF Longest
      <4>. QED BY <3>1, <3>4, <3>6, <4>1, EndsOrder
    <3>5. Ends(w, p) <=> Len(w) <= j /\ SubSeq(text, j - Len(w) + 1, j) = w
      BY <2>1, <3>1, EndsIsOccurrence DEF p
    <3>. QED BY <3>2, <3>3, <3>4, <3>5
  <2>5. ASSUME NEW w \in a[n].outputs
        PROVE  Hit(j, w) \in Occurrences(words, text) /\ Hit(j, w).end = j
    <3>1. n \in nodes BY <2>3 DEF Longest
    <3>2. w \in words BY <1>1, <2>5, <3>1
    <3>3. Len(w) <= j /\ SubSeq(text, j - Len(w) + 1, j) = w /\ Len(w) \in Nat
      BY <1>4, <2>4, <2>5, <3>2
    <3> DEFINE k == j - Len(w)
    <3>4. k \in 0..(Len(text) - Len(w)) /\ k + Len(w) = j /\ k + 1 = j - Len(w) + 1
      BY <1>4, <2>1, <3>3
    <3>5. Hit(j, w) = [start |-> k, end |-> k + Len(w), word |-> w] BY <3>4 DEF Hit
    <3>6. SubSeq(text, k + 1, k + Len(w)) = w BY <3>3, <3>4
    <3> HIDE DEF k
    <3>7. Hit(j, w) \in Occurrences(words, text)
      BY <3>2, <3>4, <3>5, <3>6, OccurrencesMeans
    <3>. QED BY <3>4, <3>5, <3>7
  <2>6. ASSUME NEW h \in Occurrences(words, text), h.end = j
        PROVE  \E w \in a[n].outputs : h = Hit(j, w)
    <3>1. PICK w \in words : \E k \in 0..(Len(text) - Len(w)) :
                                /\ SubSeq(text, k + 1, k + Len(w)) = w
                                /\ h = [start |-> k, end |-> k + Len(w), word |-> w]
      BY OccurrencesMeans
    <3>2. PICK k \in 0..(Len(text) - Len(w)) :
                                /\ SubSeq(text, k + 1, k + Len(w)) = w
                                /\ h = [start |-> k, end |-> k + Len(w), word |-> w]
      BY <3>1
    <3>3. k + Len(w) = j BY <2>6, <3>2
    <3>4. k \in Nat /\ Len(w) \in Nat BY <1>4
    <3>5. k = j - Len(w) /\ k + 1 = j - Len(w) + 1 /\ Len(w) <= j BY <2>1, <3>3, <3>4
    <3>6. w \in a[n].outputs BY <2>4, <3>2, <3>3, <3>5
    <3>7. h = Hit(j, w) BY <3>2, <3>3, <3>5 DEF Hit
    <3>. QED BY <3>6, <3>7
  <2>7. s[j - 1].hits = {h \in Occurrences(words, text) : h.end <= j - 1} BY <1>7
  <2>8. s[j].hits = s[j - 1].hits \cup {Hit(j, w) : w \in a[n].outputs} BY <1>2 DEF n
  <2>9. \A h \in Occurrences(words, text) : h.end <= j <=> h.end <= j - 1 \/ h.end = j
    BY <1>5, <2>1
  <2>10. s[j].hits = {h \in Occurrences(words, text) : h.end <= j}
    <3>1. ASSUME NEW h \in s[j].hits PROVE h \in Occurrences(words, text) /\ h.end <= j
      <4>1. CASE h \in s[j - 1].hits BY <2>7, <2>9, <4>1
      <4>2. CASE h \in {Hit(j, w) : w \in a[n].outputs} BY <2>1, <2>5, <4>2
      <4>. QED BY <2>8, <3>1, <4>1, <4>2
    <3>2. ASSUME NEW h \in Occurrences(words, text), h.end <= j PROVE h \in s[j].hits
      <4>1. CASE h.end <= j - 1 BY <2>7, <2>8, <4>1
      <4>2. CASE h.end = j BY <2>6, <2>8, <4>2
      <4>. QED BY <2>9, <3>2, <4>1, <4>2
    <3>. QED BY <3>1, <3>2
  <2>. QED BY <2>3, <2>10 DEF n, p
<1>8. ASSUME NEW j \in D, \A k \in D : rank[k] < rank[j] => k \in B PROVE j \in B
  <2>1. CASE j = 0 BY <1>6, <2>1
  <2>2. CASE j # 0
    <3>1. j \in 1..Len(text) /\ j - 1 \in D /\ j - 1 < j BY <1>4, <2>2
    <3>2. j - 1 \in B BY <1>8, <3>1
    <3>3. Right(j - 1) BY <3>2
    <3> HIDE DEF Right
    <3>4. Right(j) BY <1>7, <3>1, <3>3
    <3>. QED BY <3>4
  <2>. QED BY <2>1, <2>2
<1>9. D \subseteq B
  <2>1. rank \in [D -> Nat] BY <1>4
  <2> HIDE DEF rank, B, D
  <2>2. Inherits(D, rank, B) BY <1>8 DEF Inherits
  <2>. QED BY <2>1, <2>2, RankInduction
<1>10. Right(i) BY <1>9
<1>. QED BY <1>10 DEF s, a, nodes, ScannedUpTo

-----------------------------------------------------------------------------
(* The choice among overlapping hits.                                      *)
(* Hits at different places.                                               *)
Placed(hits) ==
    /\ IsFiniteSet(hits)
    /\ \A h \in hits : h.start \in Int /\ h.end \in Int /\ h.start < h.end
    /\ \A g, h \in hits : g.start = h.start /\ g.end = h.end => g = h

LEMMA OrderedMeans ==
  ASSUME NEW hits, Placed(hits)
  PROVE  LET n == Cardinality(hits)
             o == Ordered(hits)
         IN /\ n \in Nat /\ o \in [1..n -> hits]
            /\ \A i, j \in 1..n : i < j => Before(o[i], o[j])
            /\ \A h \in hits : \E i \in 1..n : o[i] = h
<1> DEFINE R == {gh \in hits \X hits : Before(gh[1], gh[2])}
           n == Cardinality(hits)
           o == Ordered(hits)
<1>1. \A g, h \in hits : <<g, h>> \in R <=> Before(g, h) OBVIOUS
<1>2. IsFiniteSet(hits) BY DEF Placed
<1> HIDE DEF R
<1>3. StrictOrder(hits, R)
  <2>1. ASSUME NEW x \in hits PROVE ~ Before(x, x) BY DEF Placed, Before
  <2>2. ASSUME NEW x \in hits, NEW y \in hits, NEW z \in hits, Before(x, y), Before(y, z)
        PROVE  Before(x, z)
    <3>1. /\ x.start \in Int /\ x.end \in Int /\ y.start \in Int /\ y.end \in Int
          /\ z.start \in Int /\ z.end \in Int
      BY DEF Placed
    <3>. QED BY <2>2, <3>1 DEF Before
  <2>3. ASSUME NEW x \in hits, NEW y \in hits PROVE x = y \/ Before(x, y) \/ Before(y, x)
    <3>1. /\ x.start \in Int /\ x.end \in Int /\ y.start \in Int /\ y.end \in Int
          /\ x.start = y.start /\ x.end = y.end => x = y
      BY DEF Placed
    <3>. QED BY <3>1 DEF Before
  <2>. QED BY <1>1, <2>1, <2>2, <2>3, Zenon DEF StrictOrder
<1>4. \A h \in hits : Precedes(hits, R, h) = {g \in hits : Before(g, h)}
  BY <1>1 DEF Precedes
<1>5. ASSUME NEW m \in 1..n
      PROVE  o[m] \in hits /\ Cardinality(Precedes(hits, R, o[m])) = m - 1
  <2>1. \E h \in hits : Cardinality(Precedes(hits, R, h)) = m - 1
    BY <1>2, <1>3, RankEnumerates
  <2>2. \E h \in hits : Cardinality({g \in hits : Before(g, h)}) = m - 1
    BY <1>4, <2>1
  <2>3. o[m] = CHOOSE h \in hits : Cardinality({g \in hits : Before(g, h)}) = m - 1
    BY DEF Ordered
  <2>4. o[m] \in hits /\ Cardinality({g \in hits : Before(g, o[m])}) = m - 1
    BY <2>2, <2>3
  <2>. QED BY <1>4, <2>4
<1>8. o \in [1..n -> hits] BY <1>5 DEF Ordered
<1> HIDE DEF o
<1>6. /\ n \in Nat /\ o \in [1..n -> hits]
      /\ \A i, j \in 1..n : i < j => <<o[i], o[j]>> \in R
      /\ \A x \in hits : \E i \in 1..n : o[i] = x
  <2>1. n \in Nat BY <1>2, FS_CardinalityType
  <2>2. n = Cardinality(hits) OBVIOUS
  <2> HIDE DEF n
  <2>3. \A f \in [1..n -> hits] :
           (\A m \in 1..n : Cardinality(Precedes(hits, R, f[m])) = m - 1) =>
              Enumerates(f, n, hits, R)
    BY <1>2, <1>3, <2>2, RankEnumerates
  <2>4. Enumerates(o, n, hits, R) BY <1>5, <1>8, <2>3
  <2>. QED BY <1>8, <2>1, <2>4 DEF Enumerates
<1> HIDE DEF n
<1>7. ASSUME NEW i \in 1..n, NEW j \in 1..n, i < j PROVE Before(o[i], o[j])
  <2>1. o[i] \in hits /\ o[j] \in hits /\ <<o[i], o[j]>> \in R BY <1>6, <1>7
  <2>. QED BY <1>1, <2>1
<1>. QED BY <1>6, <1>7 DEF o, n

(* The equation of Selections.                                             *)
Taken(before, h) == IF \E g \in before : Overlap(g, h) THEN before ELSE before \cup {h}
AreSelections(s, o, n) ==
    /\ s[0] = {}
    /\ \A i \in 1..n : s[i] = Taken(s[i - 1], o[i])

LEMMA SelectionsEquation ==
  ASSUME NEW S, NEW n \in Nat, NEW o \in [1..n -> S], Len(o) = n
  PROVE  AreSelections(Selections(o), o, n)
<1> DEFINE D == 0..n
           V == [i \in D |-> SUBSET S]
           rank == [i \in D |-> i]
           step(f) == [i \in D |-> IF i = 0 THEN {} ELSE Taken(f[i - 1], o[i])]
           F == [f \in Candidates(D, V) |-> step(f)]
           selected == Selections(o)
<1>1. selected = CHOOSE f : f = step(f) BY DEF Selections, Taken
<1>2. \A i \in D : i \in Nat /\ (i # 0 => i - 1 \in D /\ i - 1 < i /\ i \in 1..n) OBVIOUS
<1>3. \A b \in SUBSET S, h \in S : Taken(b, h) \in SUBSET S BY DEF Taken
<1> HIDE DEF selected
<1>4. ASSUME NEW f \in Candidates(D, V) PROVE step(f) \in Candidates(D, V)
  <2>1. \A i \in D : f[i] \in SUBSET S BY DEF Candidates
  <2>2. \A i \in D : step(f)[i] \in SUBSET S
    <3>1. ASSUME NEW i \in D PROVE step(f)[i] \in SUBSET S
      <4>1. CASE i = 0 BY <4>1
      <4>2. CASE i # 0
        <5>1. f[i - 1] \in SUBSET S /\ o[i] \in S BY <1>2, <2>1, <4>2
        <5>2. step(f)[i] = Taken(f[i - 1], o[i]) BY <4>2
        <5>. QED BY <1>3, <5>1, <5>2
      <4>. QED BY <4>1, <4>2
    <3>. QED BY <3>1
  <2>3. \A i \in D : V[i] = SUBSET S OBVIOUS
  <2> HIDE DEF step, D, V
  <2>4. \A i \in D : step(f)[i] \in UNION {V[j] : j \in D} BY <2>2, <2>3
  <2>5. step(f) = [i \in D |-> step(f)[i]] BY DEF step
  <2>. QED BY <2>2, <2>3, <2>4, <2>5 DEF Candidates
<1>5. F \in [Candidates(D, V) -> Candidates(D, V)] BY <1>4
<1>6. ASSUME NEW f \in Candidates(D, V), NEW h \in Candidates(D, V), NEW i \in D,
             \A j \in D : rank[j] < rank[i] => f[j] = h[j]
      PROVE  F[f][i] = F[h][i]
  <2>1. F[f][i] = step(f)[i] /\ F[h][i] = step(h)[i] OBVIOUS
  <2>2. i = 0 \/ f[i - 1] = h[i - 1] BY <1>2, <1>6
  <2>. QED BY <2>1, <2>2
<1>7. Recursion(D, V, rank, F)
  <2>1. rank \in [D -> Nat] BY <1>2
  <2>2. \A i \in D : V[i] # {} OBVIOUS
  <2>. QED BY <1>5, <1>6, <2>1, <2>2, Zenon DEF Recursion
<1>8. PICK f \in Candidates(D, V) : f = F[f]
  <2> HIDE DEF V, rank, F, D
  <2>. QED BY <1>7, RecursionHasFunction
<1>9. f = step(f) BY <1>8
<1>10. selected = step(selected)
  <2> HIDE DEF step
  <2>. QED BY <1>1, <1>9
<1>11. selected[0] = {}
  <2>1. 0 \in D OBVIOUS
  <2>. QED BY <1>10, <2>1
<1>12. ASSUME NEW i \in 1..n PROVE selected[i] = Taken(selected[i - 1], o[i])
  <2>1. i \in D /\ i # 0 OBVIOUS
  <2> HIDE DEF D
  <2>. QED BY <1>10, <2>1
<1>. QED BY <1>11, <1>12 DEF selected, AreSelections

(* Selected is what no hit that is selected before it overlaps.            *)
SelectedUpTo(s, o, k) ==
    /\ s[k] \subseteq {o[i] : i \in 1..k}
    /\ \A i \in 1..k :
          o[i] \in s[k] <=> \A g \in s[k] : Before(g, o[i]) => ~ Overlap(g, o[i])

LEMMA SelectionsFind ==
  ASSUME NEW S, NEW n \in Nat, NEW o \in [1..n -> S], Len(o) = n,
         \A i, j \in 1..n : i < j => Before(o[i], o[j]),
         \A x \in S : ~ Before(x, x),
         \A x, y \in S : Before(x, y) => ~ Before(y, x),
         NEW k \in 0..n
  PROVE  SelectedUpTo(Selections(o), o, k)
<1> DEFINE s == Selections(o)
           D == 0..n
           rank == [i \in D |-> i]
           Right(j) == /\ s[j] \subseteq {o[i] : i \in 1..j}
                       /\ \A i \in 1..j : o[i] \in s[j] <=>
                             \A g \in s[j] : Before(g, o[i]) => ~ Overlap(g, o[i])
           B == {j \in D : Right(j)}
<1>1. /\ s[0] = {}
      /\ \A i \in 1..n : s[i] = IF \E g \in s[i - 1] : Overlap(g, o[i])
                                THEN s[i - 1] ELSE s[i - 1] \cup {o[i]}
  <2>1. AreSelections(s, o, n) BY SelectionsEquation
  <2> HIDE DEF s
  <2>2. s[0] = {} BY <2>1 DEF AreSelections
  <2>3. \A i \in 1..n : s[i] = IF \E g \in s[i - 1] : Overlap(g, o[i])
                                THEN s[i - 1] ELSE s[i - 1] \cup {o[i]}
    BY <2>1 DEF AreSelections, Taken
  <2>. QED BY <2>2, <2>3
<1> HIDE DEF s
<1>2. Right(0) BY <1>1
<1>3. ASSUME NEW j \in 1..n, Right(j - 1) PROVE Right(j)
  <2>1. /\ j \in Int /\ j \in 1..j /\ o[j] \in S
        /\ \A i \in 1..(j - 1) : i \in 1..n /\ i \in 1..j /\ i < j /\ o[i] \in S
        /\ \A i \in 1..j : i = j \/ i \in 1..(j - 1)
    OBVIOUS
  <2>2. s[j - 1] \subseteq s[j] /\ s[j] \subseteq s[j - 1] \cup {o[j]} BY <1>1
  <2>3. s[j - 1] \subseteq {o[i] : i \in 1..(j - 1)} BY <1>3
  <2>4. \A g \in s[j - 1] : g \in S /\ Before(g, o[j]) /\ g # o[j]
    <3>1. ASSUME NEW g \in s[j - 1] PROVE g \in S /\ Before(g, o[j]) /\ g # o[j]
      <4>1. PICK i \in 1..(j - 1) : g = o[i] BY <2>3
      <4>2. g \in S /\ Before(g, o[j]) BY <2>1, <4>1
      <4>. QED BY <2>1, <4>2
    <3>. QED BY <3>1
  <2>5. s[j] \subseteq {o[i] : i \in 1..j}
    <3>1. ASSUME NEW g \in s[j] PROVE \E i \in 1..j : g = o[i]
      <4>1. CASE g = o[j] BY <2>1, <4>1
      <4>2. CASE g \in s[j - 1]
        <5>1. PICK i \in 1..(j - 1) : g = o[i] BY <2>3, <4>2
        <5>. QED BY <2>1, <5>1
      <4>. QED BY <2>2, <4>1, <4>2
    <3>. QED BY <3>1
  <2>6. ASSUME NEW i \in 1..(j - 1)
        PROVE  o[i] \in s[j] <=> \A g \in s[j] : Before(g, o[i]) => ~ Overlap(g, o[i])
    <3>1. Before(o[i], o[j]) /\ ~ Before(o[j], o[i]) /\ o[i] # o[j] BY <2>1
    <3>2. o[i] \in s[j - 1] <=>
             \A g \in s[j - 1] : Before(g, o[i]) => ~ Overlap(g, o[i])
      BY <1>3
    <3>3. o[i] \in s[j] <=> o[i] \in s[j - 1] BY <2>2, <3>1
    <3>4. (\A g \in s[j] : Before(g, o[i]) => ~ Overlap(g, o[i])) <=>
             \A g \in s[j - 1] : Before(g, o[i]) => ~ Overlap(g, o[i])
      BY <2>2, <3>1
    <3>. QED BY <3>2, <3>3, <3>4
  <2>7. o[j] \in s[j] <=> \A g \in s[j] : Before(g, o[j]) => ~ Overlap(g, o[j])
    <3>1. CASE \E g \in s[j - 1] : Overlap(g, o[j])
      <4>1. s[j] = s[j - 1] BY <1>1, <3>1
      <4>. QED BY <2>4, <3>1, <4>1
    <3>2. CASE ~ \E g \in s[j - 1] : Overlap(g, o[j])
      <4>1. s[j] = s[j - 1] \cup {o[j]} BY <1>1, <3>2
      <4>. QED BY <2>1, <3>2, <4>1
    <3>. QED BY <3>1, <3>2
  <2>. QED BY <2>1, <2>5, <2>6, <2>7
<1>4. ASSUME NEW j \in D, \A i \in D : rank[i] < rank[j] => i \in B PROVE j \in B
  <2>1. CASE j = 0 BY <1>2, <2>1
  <2>2. CASE j # 0
    <3>1. j \in 1..n /\ j - 1 \in D /\ j - 1 < j BY <2>2
    <3>2. j - 1 \in B BY <1>4, <3>1
    <3>3. Right(j - 1) BY <3>2
    <3> HIDE DEF Right
    <3>4. Right(j) BY <1>3, <3>1, <3>3
    <3>. QED BY <3>4
  <2>. QED BY <2>1, <2>2
<1>5. D \subseteq B
  <2>1. rank \in [D -> Nat] OBVIOUS
  <2> HIDE DEF rank, B, D
  <2>2. Inherits(D, rank, B) BY <1>4 DEF Inherits
  <2>. QED BY <2>1, <2>2, RankInduction
<1>6. Right(k) BY <1>5
<1>. QED BY <1>6 DEF s, SelectedUpTo

LEMMA OccurrencesArePlaced ==
  ASSUME NEW C, NEW words \in SUBSET Seq(C), <<>> \notin words, NEW text \in Seq(C)
  PROVE  Placed(Occurrences(words, text))
<1> DEFINE H == Occurrences(words, text)
           P == 0..Len(text)
           place == [h \in H |-> <<h.start, h.end>>]
<1>1. Len(text) \in Nat /\ \A w \in words : Len(w) \in Nat \ {0}
  BY LenProperties, EmptySeq
<1>2. ASSUME NEW h \in H
      PROVE  /\ h.start \in P /\ h.end \in P /\ h.start < h.end
             /\ h.word = SubSeq(text, h.start + 1, h.end)
             /\ h = [start |-> h.start, end |-> h.end, word |-> h.word]
  <2>1. PICK w \in words : \E j \in 0..(Len(text) - Len(w)) :
                              /\ SubSeq(text, j + 1, j + Len(w)) = w
                              /\ h = [start |-> j, end |-> j + Len(w), word |-> w]
    BY OccurrencesMeans
  <2>2. PICK j \in 0..(Len(text) - Len(w)) :
                              /\ SubSeq(text, j + 1, j + Len(w)) = w
                              /\ h = [start |-> j, end |-> j + Len(w), word |-> w]
    BY <2>1
  <2>3. h.start = j /\ h.end = j + Len(w) /\ h.word = w BY <2>2
  <2>4. j \in P /\ j + Len(w) \in P /\ j < j + Len(w) BY <1>1
  <2>. QED BY <2>2, <2>3, <2>4
<1>3. ASSUME NEW g \in H, NEW h \in H, g.start = h.start, g.end = h.end PROVE g = h
  <2>1. g.word = h.word BY <1>2, <1>3
  <2>. QED BY <1>2, <1>3, <2>1
<1>4. IsFiniteSet(P) BY <1>1, FS_Interval
<1>5. IsFiniteSet(P \X P) BY <1>4, FS_Product
<1>6. place \in Injection(H, P \X P)
  <2>1. place \in [H -> P \X P] BY <1>2
  <2>2. \A g, h \in H : place[g] = place[h] => g = h BY <1>3
  <2>. QED BY <2>1, <2>2 DEF Injection, IsInjective
<1>7. IsFiniteSet(H) BY <1>5, <1>6, FS_Injection
<1>8. \A h \in H : h.start \in Int /\ h.end \in Int /\ h.start < h.end BY <1>1, <1>2
<1>. QED BY <1>3, <1>7, <1>8 DEF Placed

(* What a scan finds in a text: the leftmost-longest occurrences.          *)
LEMMA ScanFinds ==
  ASSUME NEW C, NEW words \in SUBSET Seq(C), <<>> \notin words, NEW text \in Seq(C)
  PROVE  IsLeftmostLongest(Scan(Automaton(words), text), words, text)
<1> DEFINE H == Occurrences(words, text)
           n == Cardinality(H)
           o == Ordered(H)
           chosen == Scan(Automaton(words), text)
<1>1. Placed(H) BY OccurrencesArePlaced
<1>2. RawHits(Automaton(words), text) = H
  <2>1. Len(text) \in Nat BY LenProperties
  <2>2. Len(text) \in 0..Len(text) BY <2>1
  <2>3. RawHits(Automaton(words), text) = {h \in H : h.end <= Len(text)}
    <3>1. ScannedUpTo(words, text, Scanned(Automaton(words), text)[Len(text)], Len(text))
      BY <2>2, ScannedFinds
    <3>. QED BY <3>1 DEF RawHits, ScannedUpTo
  <2>4. ASSUME NEW h \in H PROVE h.end <= Len(text)
    <3>1. PICK w \in words : \E j \in 0..(Len(text) - Len(w)) :
                                h = [start |-> j, end |-> j + Len(w), word |-> w]
      BY OccurrencesMeans
    <3>2. PICK j \in 0..(Len(text) - Len(w)) :
                                h = [start |-> j, end |-> j + Len(w), word |-> w]
      BY <3>1
    <3>3. h.end = j + Len(w) /\ Len(w) \in Nat BY <3>2, LenProperties
    <3>. QED BY <2>1, <3>3
  <2>. QED BY <2>3, <2>4
<1> HIDE DEF H
<1>3. /\ n \in Nat /\ o \in [1..n -> H]
      /\ \A i, j \in 1..n : i < j => Before(o[i], o[j])
      /\ \A h \in H : \E i \in 1..n : o[i] = h
  BY <1>1, OrderedMeans
<1>4. Len(o) = n /\ chosen = Selections(o)[n]
  <2>1. Len(o) = n
    <3> HIDE DEF n, o
    <3>. QED BY <1>3
  <2>. QED BY <1>2, <2>1 DEF Scan, RemoveOverlaps
<1>5. /\ \A x \in H : ~ Before(x, x)
      /\ \A x, y \in H : Before(x, y) => ~ Before(y, x)
  BY <1>1 DEF Placed, Before
<1> HIDE DEF n, o, chosen
<1>6. n \in 0..n BY <1>3
<1>7. /\ chosen \subseteq {o[i] : i \in 1..n}
      /\ \A i \in 1..n : o[i] \in chosen <=>
            \A g \in chosen : Before(g, o[i]) => ~ Overlap(g, o[i])
  <2>1. n \in Nat /\ o \in [1..n -> H] /\ Len(o) = n BY <1>3, <1>4
  <2>2. \A i, j \in 1..n : i < j => Before(o[i], o[j]) BY <1>3
  <2>3. \A x \in H : ~ Before(x, x) BY <1>5
  <2>4. \A x, y \in H : Before(x, y) => ~ Before(y, x) BY <1>5
  <2>5. SelectedUpTo(Selections(o), o, n)
    BY <1>6, <2>1, <2>2, <2>3, <2>4, SelectionsFind
  <2>. QED BY <1>4, <2>5 DEF SelectedUpTo
<1>8. chosen \subseteq H BY <1>3, <1>7
<1>9. ASSUME NEW h \in H
      PROVE  h \in chosen <=> \A g \in chosen : Before(g, h) => ~ Overlap(g, h)
  <2>1. PICK i \in 1..n : o[i] = h BY <1>3
  <2>. QED BY <1>7, <2>1
<1>. QED BY <1>8, <1>9 DEF IsLeftmostLongest, H, chosen

-----------------------------------------------------------------------------
(* The dictionary.  From here on the assumptions about the constants count. *)
USE InputsAssumption, PageAssumption, BoundAssumption

-----------------------------------------------------------------------------
(* The inductive invariant.                                                *)

Rows == [word : Seq(DOMAIN Fold), enabled : BOOLEAN, at : Nat, id : 1..MaxVersion]
Readings == [entries : SUBSET Inputs, version : -1..MaxVersion]
Now == [version |-> version, entries |-> Entries]

TypeInv ==
    /\ TypeOK
    /\ rows \subseteq Rows /\ IsFiniteSet(rows)
    /\ clock <= version /\ issued \subseteq 1..MaxVersion
    /\ seen \in [Requests -> Readings] /\ since \in [Requests -> SUBSET Readings]
    /\ \A r \in Requests : seen[r].version <= version
    /\ alone \subseteq Requests /\ lagging \in BOOLEAN

(* What a request that has committed reads is in its history.              *)
HistoryInv ==
    \A r \in Requests \ Resting :
        /\ Now \in since[r] /\ (\A d \in since[r] : d.version <= version)
        /\ pc[r] = "words" => \E d \in since[r] : d.entries = seen[r].entries

(* A request that is alone is the only one, and has read what is there; any*)
(* other request is a reason for the scanner to lag.                       *)
AloneInv ==
    /\ \A r \in alone :
          /\ Requests \ Resting = {r}
          /\ pc[r] \in {"words", "read"} => seen[r].entries = Entries
          /\ pc[r] = "read" => seen[r].version = version
    /\ \A r \in Requests \ Resting : r \in alone \/ lagging

(* The rows listed so far, each older than the one before, end with the    *)
(* cursor; what has been there all the time is among them or still to come.*)
ListInv ==
    /\ listed \in Seq(Rows) /\ present \subseteq rows
    /\ \A i, j \in 1..Len(listed) : i < j => Older(listed[j], listed[i])
    /\ cursor # NoCursor => listed # <<>> /\ cursor = listed[Len(listed)]
    /\ \A x \in present : \/ \E i \in 1..Len(listed) : listed[i] = x
                          \/ cursor # NoCursor /\ Older(x, cursor)

IInv == TypeInv /\ HistoryInv /\ ListHasOwnChange /\ AloneInv /\ ScannerIsCurrent /\ ListInv

(* A change adds a row with a new identifier and normalized form, or takes *)
(* rows away; the version grows unless there is none.                      *)
Change(r, newRows, v) ==
    /\ r \in Resting
    /\ Commit(r, newRows, v)
    /\ clock' \in {clock, clock + 1} /\ clock' <= v
    /\ v \in version..MaxVersion
    /\ issued \subseteq issued' /\ issued' \subseteq 1..MaxVersion
    /\ newRows \subseteq Rows /\ IsFiniteSet(newRows)
    /\ \A x \in newRows : x.at \in 0..clock' /\ x.id \in issued'
                          /\ [word |-> x.word, enabled |-> x.enabled] \in Inputs
    /\ \A x, y \in newRows :
          x.id = y.id \/ Normalized(x.word) = Normalized(y.word) => x = y
    /\ UNCHANGED <<seen, published, cursor, listed, restarts>>

LEMMA CreateChanges ==
  ASSUME TypeInv, NEW r \in Requests, NEW i \in Inputs, Create(r, i)
  PROVE  \E newRows, v : Change(r, newRows, v)
<1>1. PICK at \in 0..(clock + 1), id \in (1..MaxVersion) \ issued :
        /\ Commit(r, rows \cup {[word |-> i.word, enabled |-> i.enabled,
                                 at |-> at, id |-> id]}, version + 1)
        /\ clock' = IF at > clock THEN at ELSE clock
        /\ issued' = issued \cup {id}
  BY DEF Create
<1> DEFINE row == [word |-> i.word, enabled |-> i.enabled, at |-> at, id |-> id]
<1>2. /\ clock \in Nat /\ version \in Nat /\ clock <= version /\ version < MaxVersion
      /\ issued \subseteq 1..MaxVersion /\ r \in Resting
  BY DEF TypeInv, TypeOK, Create
<1>3. /\ i \in [word : Seq(DOMAIN Fold), enabled : BOOLEAN]
      /\ [word |-> i.word, enabled |-> i.enabled] = i
  OBVIOUS
<1>4. /\ at \in Nat /\ at <= clock' /\ clock <= clock' /\ clock' \in {clock, clock + 1}
      /\ clock' <= version + 1
  BY <1>1, <1>2
<1>5. row \in Rows BY <1>3, <1>4 DEF Rows
<1>6. /\ rows \cup {row} \subseteq Rows /\ IsFiniteSet(rows \cup {row})
  BY <1>5, FS_AddElement DEF TypeInv
<1>7. ASSUME NEW x \in rows \cup {row}
      PROVE  /\ x.at \in 0..clock' /\ x.id \in issued \cup {id}
             /\ [word |-> x.word, enabled |-> x.enabled] \in Inputs
  <2>1. CASE x = row BY <1>3, <1>4, <2>1
  <2>2. CASE x \in rows
    <3>1. /\ x.at \in 0..clock /\ x.id \in issued
          /\ [word |-> x.word, enabled |-> x.enabled] \in Inputs
      BY <2>2 DEF TypeInv, TypeOK
    <3>. QED BY <1>2, <1>4, <3>1
  <2>. QED BY <2>1, <2>2
<1>8. ASSUME NEW x \in rows PROVE x.id # id /\ Normalized(x.word) # Normalized(i.word)
  BY DEF Create, TypeInv, TypeOK
<1>9. ASSUME NEW x \in rows \cup {row}, NEW y \in rows \cup {row},
             x.id = y.id \/ Normalized(x.word) = Normalized(y.word)
      PROVE  x = y
  <2>1. row.id = id /\ row.word = i.word OBVIOUS
  <2>2. CASE x \in rows /\ y \in rows BY <1>9, <2>2 DEF TypeInv, TypeOK
  <2>3. CASE x \in rows /\ y = row BY <1>8, <1>9, <2>1, <2>3
  <2>4. CASE x = row /\ y \in rows BY <1>8, <1>9, <2>1, <2>4
  <2>5. CASE x = row /\ y = row BY <2>5
  <2>. QED BY <2>2, <2>3, <2>4, <2>5
<1> HIDE DEF row
<1>10. UNCHANGED <<seen, published, cursor, listed, restarts>> BY DEF Create
<1>11. Commit(r, rows \cup {row}, version + 1) BY <1>1 DEF row
<1>12. /\ clock' \in {clock, clock + 1} /\ clock' <= version + 1
       /\ issued \subseteq issued' /\ issued' \subseteq 1..MaxVersion /\ issued' = issued \cup {id}
       /\ version + 1 \in version..MaxVersion
  BY <1>1, <1>2, <1>4
<1>. QED BY <1>2, <1>6, <1>7, <1>9, <1>10, <1>11, <1>12 DEF Change

LEMMA DeleteChanges ==
  ASSUME TypeInv, NEW r \in Requests, NEW id \in 1..MaxVersion, Delete(r, id)
  PROVE  \E newRows, v : Change(r, newRows, v)
<1> DEFINE left == {x \in rows : x.id # id}
           v == IF version = 0 THEN 0 ELSE version + 1
<1>1. /\ clock \in Nat /\ version \in Nat /\ clock <= version /\ version < MaxVersion
      /\ issued \subseteq 1..MaxVersion /\ r \in Resting
      /\ UNCHANGED <<clock, issued, seen, published, cursor, listed, restarts>>
  BY DEF TypeInv, TypeOK, Delete
<1>2. Commit(r, left, v) BY DEF Delete
<1>3. left \subseteq rows /\ IsFiniteSet(left) BY FS_Subset DEF TypeInv
<1>4. /\ v \in version..MaxVersion /\ clock <= v BY <1>1
<1> HIDE DEF left, v
<1>5. left \subseteq Rows BY <1>3 DEF TypeInv
<1>6. ASSUME NEW x \in left
      PROVE  /\ x.at \in 0..clock' /\ x.id \in issued'
             /\ [word |-> x.word, enabled |-> x.enabled] \in Inputs
  BY <1>1, <1>3 DEF TypeInv, TypeOK
<1>7. \A x, y \in left : x.id = y.id \/ Normalized(x.word) = Normalized(y.word) => x = y
  BY <1>3 DEF TypeInv, TypeOK
<1>. QED BY <1>1, <1>2, <1>3, <1>4, <1>5, <1>6, <1>7 DEF Change

LEMMA EntriesType ==
  ASSUME TypeInv
  PROVE  Entries \in SUBSET Inputs /\ version \in 0..MaxVersion /\ Now \in Readings
<1>1. Entries \in SUBSET Inputs BY DEF TypeInv, TypeOK, Entries
<1>. QED BY <1>1 DEF TypeInv, TypeOK, Now, Readings

(* The requests at work after a change are those before, and the changing. *)
LEMMA ChangeMeans ==
  ASSUME TypeInv, NEW r \in Requests, NEW newRows, NEW v, Change(r, newRows, v)
  PROVE  /\ rows' = newRows /\ version' = v /\ version <= v /\ v \in 0..MaxVersion
         /\ Now' \in Readings /\ since'[r] = {Now'}
         /\ since' \in [Requests -> SUBSET Readings]
         /\ pc' \in [Requests -> {"idle", "failed", "committed", "words", "read"}]
         /\ pc'[r] = "committed" /\ Requests \ Resting' = (Requests \ Resting) \cup {r}
         /\ \A q \in Requests \ Resting :
               q # r /\ pc'[q] = pc[q] /\ since'[q] = since[q] \cup {Now'}
<1> DEFINE now == [version |-> v,
                   entries |-> {[word |-> x.word, enabled |-> x.enabled] : x \in newRows}]
<1>1. /\ rows' = newRows /\ version' = v
      /\ since' = [q \in Requests |-> IF q = r THEN {now}
                                      ELSE IF q \in Resting THEN {} ELSE since[q] \cup {now}]
      /\ pc' = [q \in Requests |-> IF q = r THEN "committed"
                                   ELSE IF pc[q] = "failed" THEN "idle" ELSE pc[q]]
  BY DEF Change, Commit
<1>2. now = Now' BY <1>1 DEF Now, Entries
<1>3. v \in version..MaxVersion /\ version \in 0..MaxVersion
  BY DEF Change, TypeInv, TypeOK
<1>4. Now' \in Readings
  <2>1. now.entries \in SUBSET Inputs BY DEF Change
  <2>2. v \in -1..MaxVersion BY <1>3
  <2>3. now \in Readings BY <2>1, <2>2 DEF Readings
  <2>. QED BY <1>2, <2>3
<1> HIDE DEF now
<1>5. since \in [Requests -> SUBSET Readings] /\ r \in Resting BY DEF TypeInv, Change
<1>6. since' \in [Requests -> SUBSET Readings] BY <1>1, <1>2, <1>4, <1>5
<1>7. pc \in [Requests -> {"idle", "failed", "committed", "words", "read"}]
  BY DEF TypeInv, TypeOK
<1>8. pc' \in [Requests -> {"idle", "failed", "committed", "words", "read"}] BY <1>1, <1>7
<1>9. /\ pc'[r] = "committed" /\ Requests \ Resting' = (Requests \ Resting) \cup {r}
      /\ \A q \in Requests \ Resting : q # r /\ pc'[q] = pc[q]
  BY <1>1, <1>5, <1>7 DEF Resting
<1>10. \A q \in Requests \ Resting : since'[q] = since[q] \cup {Now'}
  BY <1>1, <1>2, <1>5
<1>11. since'[r] = {Now'} BY <1>1, <1>2
<1>. QED BY <1>1, <1>3, <1>4, <1>6, <1>8, <1>9, <1>10, <1>11

LEMMA ChangeType ==
  ASSUME TypeInv, NEW r \in Requests, NEW newRows, NEW v, Change(r, newRows, v)
  PROVE  TypeInv'
<1>1. /\ rows' = newRows /\ version' = v /\ version <= v /\ v \in 0..MaxVersion
      /\ since' \in [Requests -> SUBSET Readings]
      /\ pc' \in [Requests -> {"idle", "failed", "committed", "words", "read"}]
  BY ChangeMeans
<1>2. /\ clock \in Nat /\ version \in Nat /\ published.version \in -1..version
      /\ seen \in [Requests -> Readings] /\ lagging \in BOOLEAN
  BY DEF TypeInv, TypeOK
<1>3. /\ clock' \in {clock, clock + 1} /\ clock' <= v
      /\ issued' \subseteq 1..MaxVersion
      /\ newRows \subseteq Rows /\ IsFiniteSet(newRows)
      /\ UNCHANGED <<seen, published>>
  BY DEF Change
<1>4. alone' \subseteq Requests /\ lagging' \in BOOLEAN BY <1>2 DEF Change, Commit
<1>5. /\ clock' \in 0..MaxVersion /\ version' \in 0..MaxVersion
      /\ published'.version \in -1..version'
  BY <1>1, <1>2, <1>3
<1>6. /\ \A x \in newRows : x.at \in 0..clock' /\ x.id \in issued'
                            /\ [word |-> x.word, enabled |-> x.enabled] \in Inputs
      /\ \A x, y \in newRows :
            x.id = y.id \/ Normalized(x.word) = Normalized(y.word) => x = y
  BY DEF Change
<1>7. TypeOK' BY <1>1, <1>5, <1>6 DEF TypeOK
<1>8. ASSUME NEW q \in Requests PROVE seen'[q].version <= version'
  <2>1. seen[q].version \in Int /\ seen[q].version <= version BY DEF TypeInv, Readings
  <2>. QED BY <1>1, <1>2, <1>3, <2>1
<1>. QED BY <1>1, <1>2, <1>3, <1>4, <1>7, <1>8 DEF TypeInv

LEMMA ChangeServing ==
  ASSUME TypeInv, HistoryInv, ListHasOwnChange, AloneInv, ScannerIsCurrent,
         NEW r \in Requests, NEW newRows, NEW v, Change(r, newRows, v)
  PROVE  HistoryInv' /\ ListHasOwnChange' /\ AloneInv' /\ ScannerIsCurrent'
<1>1. /\ rows' = newRows /\ version' = v /\ version <= v /\ v \in 0..MaxVersion
      /\ since'[r] = {Now'}
      /\ pc'[r] = "committed" /\ Requests \ Resting' = (Requests \ Resting) \cup {r}
      /\ \A q \in Requests \ Resting :
            q # r /\ pc'[q] = pc[q] /\ since'[q] = since[q] \cup {Now'}
  BY ChangeMeans
<1>2. /\ r \in Resting /\ UNCHANGED <<seen, published>>
      /\ alone' = (IF Resting = Requests THEN {r} ELSE {})
      /\ lagging' = (lagging \/ Resting # Requests)
  BY DEF Change, Commit
<1>3. version \in Nat /\ v \in Nat /\ Now'.version = v BY <1>1 DEF TypeInv, TypeOK, Now
<1>4. \A q \in Requests : \A d \in since[q] : d.version \in Int BY DEF TypeInv, Readings
<1>5. HistoryInv'
  <2> SUFFICES ASSUME NEW q \in Requests \ Resting'
               PROVE  /\ Now' \in since'[q] /\ (\A d \in since'[q] : d.version <= v)
                      /\ pc'[q] = "words" =>
                            \E d \in since'[q] : d.entries = seen[q].entries
    BY <1>1, <1>2 DEF HistoryInv
  <2>1. CASE q \in Requests \ Resting
    <3>1. /\ Now \in since[q] /\ (\A d \in since[q] : d.version <= version)
          /\ pc[q] = "words" => \E d \in since[q] : d.entries = seen[q].entries
      BY <2>1 DEF HistoryInv
    <3>2. ASSUME NEW d \in since'[q] PROVE d.version <= v
      <4>1. CASE d \in since[q]
        <5>1. d.version <= version /\ d.version \in Int BY <1>4, <3>1, <4>1
        <5>. QED BY <1>1, <1>3, <5>1
      <4>2. CASE d = Now' BY <1>3, <4>2
      <4>. QED BY <1>1, <2>1, <4>1, <4>2
    <3>. QED BY <1>1, <2>1, <3>1, <3>2
  <2>2. CASE q = r BY <1>1, <1>3, <2>2
  <2>. QED BY <1>1, <2>1, <2>2
<1>6. ListHasOwnChange'
  <2> SUFFICES ASSUME NEW q \in Requests, pc'[q] = "read"
               PROVE  \E d \in since'[q] :
                         d.entries = seen'[q].entries /\ d.version <= seen'[q].version
    BY DEF ListHasOwnChange
  <2>1. q \in Requests \ Resting
    <3>1. q \in Requests \ Resting' BY DEF Resting
    <3>. QED BY <1>1, <3>1
  <2>. QED BY <1>1, <1>2, <2>1 DEF ListHasOwnChange
<1>7. AloneInv'
  <2>1. CASE Resting = Requests
    <3>1. alone' = {r} /\ Requests \ Resting' = {r} BY <1>1, <1>2, <2>1
    <3>. QED BY <1>1, <3>1 DEF AloneInv
  <2>2. CASE Resting # Requests
    <3>1. alone' = {} /\ lagging' = TRUE BY <1>2, <2>2
    <3>. QED BY <3>1 DEF AloneInv
  <2>. QED BY <2>1, <2>2
<1>8. ScannerIsCurrent' BY <1>1 DEF ScannerIsCurrent
<1>. QED BY <1>5, <1>6, <1>7, <1>8

-----------------------------------------------------------------------------
(* Steps of a request that change no row.                                  *)

ServingInv == HistoryInv /\ ListHasOwnChange /\ AloneInv /\ ScannerIsCurrent

(* Requests that do not begin or end their work.                           *)
LEMMA Unserved ==
  ASSUME TypeInv, ServingInv,
         pc' \in [Requests -> {"idle", "failed", "committed", "words", "read"}],
         \A q \in Requests : pc'[q] # pc[q] => q \in Resting /\ q \in Resting',
         UNCHANGED <<database, seen, since, alone, published, lagging>>
  PROVE  TypeInv' /\ ServingInv'
<1>1. /\ UNCHANGED <<rows, clock, issued, version, seen, since, alone, published, lagging>>
      /\ Entries' = Entries /\ Now' = Now
  BY DEF database, Entries, Now
<1>2. TypeInv' BY <1>1 DEF TypeInv, TypeOK
<1>3. /\ Requests \ Resting' = Requests \ Resting /\ (Resting' = Requests <=> Resting = Requests)
      /\ \A q \in Requests \ Resting : pc'[q] = pc[q]
      /\ \A q \in Requests : pc'[q] \in {"committed", "words", "read"} => pc[q] = pc'[q]
      /\ \A q \in Requests : pc[q] \in {"committed", "words", "read"} => pc[q] = pc'[q]
  BY DEF Resting
<1>4. HistoryInv' BY <1>1, <1>3 DEF ServingInv, HistoryInv
<1>5. ListHasOwnChange' BY <1>1, <1>3 DEF ServingInv, ListHasOwnChange
<1>6. AloneInv' BY <1>1, <1>3 DEF ServingInv, AloneInv
<1>7. ScannerIsCurrent' BY <1>1, <1>3 DEF ServingInv, ScannerIsCurrent
<1>. QED BY <1>2, <1>4, <1>5, <1>6, <1>7 DEF ServingInv

LEMMA ConflictServing ==
  ASSUME TypeInv, ServingInv, NEW r \in Requests, NEW word, Conflict(r, word)
  PROVE  TypeInv' /\ ServingInv'
<1>1. pc' \in [Requests -> {"idle", "failed", "committed", "words", "read"}]
  BY DEF Conflict, TypeInv, TypeOK
<1>2. \A q \in Requests : pc'[q] # pc[q] => q \in Resting /\ q \in Resting'
  BY <1>1 DEF Conflict, Resting, TypeInv, TypeOK
<1>. QED BY <1>1, <1>2, Unserved DEF Conflict

LEMMA UpdateServing ==
  ASSUME TypeInv, ServingInv, NEW r \in Requests, Update(r)
  PROVE  TypeInv' /\ ServingInv'
<1>1. pc' \in [Requests -> {"idle", "failed", "committed", "words", "read"}]
  BY DEF Update, TypeInv, TypeOK
<1>2. \A q \in Requests : pc'[q] # pc[q] => q \in Resting /\ q \in Resting'
  BY <1>1 DEF Update, Resting, TypeInv, TypeOK
<1>. QED BY <1>1, <1>2, Unserved DEF Update

(* One request reads: what it has then is in its history.                  *)
LEMMA Reads ==
  ASSUME TypeInv, ServingInv, NEW r \in Requests, NEW next,
         \/ pc[r] = "committed" /\ next = "words"
         \/ pc[r] = "words" /\ next = "read",
         pc' = [pc EXCEPT ![r] = next],
         seen' = [seen EXCEPT ![r] = seen'[r]], seen'[r] \in Readings,
         seen'[r].version <= version,
         \E d \in since[r] : /\ d.entries = seen'[r].entries
                             /\ next = "read" => d.version <= seen'[r].version,
         r \in alone => /\ seen'[r].entries = Entries
                        /\ next = "read" => seen'[r].version = version,
         UNCHANGED <<database, since, alone, published, lagging>>
  PROVE  TypeInv' /\ ServingInv'
<1>1. /\ UNCHANGED <<rows, clock, issued, version, since, alone, published, lagging>>
      /\ Entries' = Entries /\ Now' = Now
  BY DEF database, Entries, Now
<1>2. /\ pc \in [Requests -> {"idle", "failed", "committed", "words", "read"}]
      /\ seen \in [Requests -> Readings]
      /\ \A q \in Requests : seen[q].version <= version
  BY DEF TypeInv, TypeOK
<1>3. /\ pc' \in [Requests -> {"idle", "failed", "committed", "words", "read"}]
      /\ pc'[r] = next /\ \A q \in Requests : q # r => pc'[q] = pc[q]
  BY <1>2
<1>4. seen' \in [Requests -> Readings] /\ \A q \in Requests : q # r => seen'[q] = seen[q]
  BY <1>2
<1>5. TypeInv'
  <2>1. \A q \in Requests : seen'[q].version <= version' BY <1>1, <1>2, <1>4
  <2>. QED BY <1>1, <1>3, <1>4, <2>1 DEF TypeInv, TypeOK
<1>6. Requests \ Resting' = Requests \ Resting /\ Resting' # Requests /\ r \in Requests \ Resting
  BY <1>3 DEF Resting
<1>7. HistoryInv'
  <2> SUFFICES ASSUME NEW q \in Requests \ Resting
               PROVE  /\ Now \in since[q] /\ (\A d \in since[q] : d.version <= version)
                      /\ pc'[q] = "words" =>
                            \E d \in since[q] : d.entries = seen'[q].entries
    BY <1>1, <1>6 DEF HistoryInv
  <2>1. CASE q = r BY <1>6, <2>1 DEF ServingInv, HistoryInv
  <2>2. CASE q # r BY <1>3, <1>4, <2>2 DEF ServingInv, HistoryInv
  <2>. QED BY <2>1, <2>2
<1>8. ListHasOwnChange'
  <2> SUFFICES ASSUME NEW q \in Requests, pc'[q] = "read"
               PROVE  \E d \in since[q] :
                         d.entries = seen'[q].entries /\ d.version <= seen'[q].version
    BY <1>1 DEF ListHasOwnChange
  <2>1. CASE q = r BY <1>3, <2>1
  <2>2. CASE q # r BY <1>3, <1>4, <2>2 DEF ServingInv, ListHasOwnChange
  <2>. QED BY <2>1, <2>2
<1>9. AloneInv'
  <2>1. ASSUME NEW q \in alone
        PROVE  /\ Requests \ Resting = {q}
               /\ pc'[q] \in {"words", "read"} => seen'[q].entries = Entries
               /\ pc'[q] = "read" => seen'[q].version = version
    <3>1. Requests \ Resting = {q} BY DEF ServingInv, AloneInv
    <3>2. q = r BY <1>6, <3>1
    <3>. QED BY <1>3, <3>1, <3>2
  <2>2. \A q \in Requests \ Resting : q \in alone \/ lagging BY DEF ServingInv, AloneInv
  <2>. QED BY <1>1, <1>6, <2>1, <2>2 DEF AloneInv
<1>10. ScannerIsCurrent' BY <1>6 DEF ScannerIsCurrent
<1>. QED BY <1>5, <1>7, <1>8, <1>9, <1>10 DEF ServingInv

LEMMA ReadWordsServing ==
  ASSUME TypeInv, ServingInv, NEW r \in Requests, ReadWords(r)
  PROVE  TypeInv' /\ ServingInv'
<1>1. /\ pc[r] = "committed" /\ pc' = [pc EXCEPT ![r] = "words"]
      /\ seen' = [seen EXCEPT ![r].entries = Entries]
      /\ UNCHANGED <<database, since, alone, published, lagging>>
  BY DEF ReadWords
<1>2. seen \in [Requests -> Readings] /\ Entries \in SUBSET Inputs
      /\ seen[r].version <= version
  BY EntriesType DEF TypeInv
<1>3. /\ seen' = [seen EXCEPT ![r] = seen'[r]] /\ seen'[r] \in Readings
      /\ seen'[r].version = seen[r].version /\ seen'[r].entries = Entries
  BY <1>1, <1>2 DEF Readings
<1>4. Now \in since[r] /\ Now.entries = Entries
  <2>1. r \in Requests \ Resting BY <1>1 DEF Resting
  <2>. QED BY <2>1 DEF ServingInv, HistoryInv, Now
<1>5. seen'[r].version <= version BY <1>2, <1>3
<1>6. \E d \in since[r] : /\ d.entries = seen'[r].entries
                          /\ "words" = "read" => d.version <= seen'[r].version
  BY <1>3, <1>4
<1>7. r \in alone => /\ seen'[r].entries = Entries
                     /\ "words" = "read" => seen'[r].version = version
  BY <1>3
<1>. QED BY <1>1, <1>3, <1>5, <1>6, <1>7, Reads

LEMMA ReadVersionServing ==
  ASSUME TypeInv, ServingInv, NEW r \in Requests, ReadVersion(r)
  PROVE  TypeInv' /\ ServingInv'
<1>1. /\ pc[r] = "words" /\ pc' = [pc EXCEPT ![r] = "read"]
      /\ seen' = [seen EXCEPT ![r].version = version]
      /\ UNCHANGED <<database, since, alone, published, lagging>>
  BY DEF ReadVersion
<1>2. seen \in [Requests -> Readings] /\ version \in -1..MaxVersion
  BY EntriesType DEF TypeInv
<1>3. /\ seen' = [seen EXCEPT ![r] = seen'[r]] /\ seen'[r] \in Readings
      /\ seen'[r].version = version /\ seen'[r].entries = seen[r].entries
  BY <1>1, <1>2 DEF Readings
<1>4. /\ \A d \in since[r] : d.version <= version
      /\ \E d \in since[r] : d.entries = seen[r].entries
  <2>1. r \in Requests \ Resting BY <1>1 DEF Resting
  <2>. QED BY <1>1, <2>1 DEF ServingInv, HistoryInv
<1>5. r \in alone => seen[r].entries = Entries BY <1>1 DEF ServingInv, AloneInv
<1>6. seen'[r].version <= version BY <1>2, <1>3
<1>7. \E d \in since[r] : d.entries = seen'[r].entries /\ d.version <= seen'[r].version
  BY <1>3, <1>4
<1>8. r \in alone => seen'[r].entries = Entries /\ seen'[r].version = version
  BY <1>3, <1>5
<1>. QED BY <1>1, <1>3, <1>6, <1>7, <1>8, Reads

LEMMA PublishServing ==
  ASSUME TypeInv, ServingInv, NEW r \in Requests, Publish(r)
  PROVE  TypeInv' /\ ServingInv'
<1>1. /\ pc[r] = "read" /\ pc' = [pc EXCEPT ![r] = "idle"]
      /\ published' = Scanner(seen[r].version, seen[r].entries)
      /\ seen' = [seen EXCEPT ![r] = [entries |-> {}, version |-> -1]]
      /\ since' = [since EXCEPT ![r] = {}] /\ alone' = alone \ {r}
      /\ lagging' = (lagging /\ r \notin alone)
      /\ UNCHANGED <<rows, clock, issued, version>> /\ Entries' = Entries /\ Now' = Now
  BY DEF Publish, database, Entries, Now
<1>2. published'.version = seen[r].version /\ published'.entries = seen[r].entries
  BY <1>1 DEF Scanner
<1>3. /\ pc \in [Requests -> {"idle", "failed", "committed", "words", "read"}]
      /\ seen \in [Requests -> Readings] /\ since \in [Requests -> SUBSET Readings]
      /\ version \in 0..MaxVersion /\ lagging \in BOOLEAN /\ alone \subseteq Requests
      /\ \A q \in Requests : seen[q].version <= version
  BY DEF TypeInv, TypeOK
<1>4. /\ pc' \in [Requests -> {"idle", "failed", "committed", "words", "read"}]
      /\ pc'[r] = "idle" /\ \A q \in Requests : q # r => pc'[q] = pc[q]
  BY <1>1, <1>3
<1>5. [entries |-> {}, version |-> -1] \in Readings BY DEF Readings
<1>6. /\ seen' \in [Requests -> Readings] /\ since' \in [Requests -> SUBSET Readings]
      /\ \A q \in Requests : q # r => seen'[q] = seen[q] /\ since'[q] = since[q]
      /\ seen'[r].version = -1
  BY <1>1, <1>3, <1>5
<1>7. TypeInv'
  <2>1. ASSUME NEW q \in Requests PROVE seen'[q].version <= version'
    BY <1>1, <1>3, <1>6
  <2>2. published'.version \in -1..version'
    <3>1. seen[r].version \in -1..MaxVersion /\ seen[r].version <= version BY <1>3 DEF Readings
    <3>. QED BY <1>1, <1>2, <1>3, <3>1
  <2>3. TypeOK' BY <1>1, <1>4, <2>2 DEF TypeInv, TypeOK
  <2>. QED BY <1>1, <1>3, <1>6, <2>1, <2>3 DEF TypeInv
<1>8. /\ r \in Requests \ Resting
      /\ Requests \ Resting' = (Requests \ Resting) \ {r}
  BY <1>1, <1>4 DEF Resting
<1>9. HistoryInv' BY <1>1, <1>4, <1>6, <1>8 DEF ServingInv, HistoryInv
<1>10. ListHasOwnChange' BY <1>1, <1>4, <1>6 DEF ServingInv, ListHasOwnChange
<1>11. /\ \A q \in alone : Requests \ Resting = {q}
       /\ \A q \in Requests \ Resting : q \in alone \/ lagging
       /\ r \in alone => seen[r].entries = Entries /\ seen[r].version = version
  BY <1>1 DEF ServingInv, AloneInv
<1>12. alone' = {} BY <1>1, <1>8, <1>11
<1>13. AloneInv'
  <2>1. ASSUME NEW q \in Requests \ Resting' PROVE lagging'
    <3>1. q \in Requests \ Resting /\ q # r BY <1>8
    <3>. QED BY <1>1, <1>8, <1>11, <3>1
  <2>. QED BY <1>12, <2>1 DEF AloneInv
<1>14. ScannerIsCurrent' BY <1>1, <1>2, <1>8, <1>11 DEF ScannerIsCurrent
<1>. QED BY <1>7, <1>9, <1>10, <1>13, <1>14 DEF ServingInv

LEMMA RestartServing ==
  ASSUME TypeInv, ServingInv, Restart
  PROVE  TypeInv' /\ ServingInv'
<1>1. /\ pc' = [r \in Requests |-> "idle"]
      /\ seen' = [r \in Requests |-> [entries |-> {}, version |-> -1]]
      /\ since' = [r \in Requests |-> {}] /\ alone' = {}
      /\ published' = FromFile /\ lagging' = TRUE
      /\ UNCHANGED <<rows, clock, issued, version>>
  BY DEF Restart, database
<1>2. version \in 0..MaxVersion BY DEF TypeInv, TypeOK
<1>3. [entries |-> {}, version |-> -1] \in Readings BY DEF Readings
<1>4. published'.version = -1 BY <1>1 DEF FromFile, Scanner
<1>5. TypeInv'
  <2>1. /\ pc' \in [Requests -> {"idle", "failed", "committed", "words", "read"}]
        /\ seen' \in [Requests -> Readings] /\ since' \in [Requests -> SUBSET Readings]
        /\ \A r \in Requests : seen'[r].version <= version'
    BY <1>1, <1>2, <1>3
  <2>2. TypeOK' BY <1>1, <1>2, <1>4, <2>1 DEF TypeInv, TypeOK
  <2>. QED BY <1>1, <2>1, <2>2 DEF TypeInv
<1>6. Requests \ Resting' = {} /\ \A r \in Requests : pc'[r] = "idle" BY <1>1 DEF Resting
<1>. QED BY <1>1, <1>5, <1>6
     DEF ServingInv, HistoryInv, ListHasOwnChange, AloneInv, ScannerIsCurrent

LEMMA ServingStep ==
  ASSUME TypeInv, ServingInv, [Next]_vars
  PROVE  TypeInv' /\ ServingInv'
<1>1. ASSUME NEW r \in Requests, NEW newRows, NEW v, Change(r, newRows, v)
      PROVE  TypeInv' /\ ServingInv'
  BY <1>1, ChangeType, ChangeServing DEF ServingInv
<1>2. ASSUME NEW r \in Requests, NEW i \in Inputs, Create(r, i) PROVE TypeInv' /\ ServingInv'
  BY <1>1, <1>2, CreateChanges
<1>3. ASSUME NEW r \in Requests, NEW id \in 1..MaxVersion, Delete(r, id)
      PROVE  TypeInv' /\ ServingInv'
  BY <1>1, <1>3, DeleteChanges
<1>4. ASSUME UNCHANGED <<database, serving, published, lagging>> PROVE TypeInv' /\ ServingInv'
  <2>1. UNCHANGED <<database, pc, seen, since, alone, published, lagging>>
    BY <1>4 DEF serving
  <2>. QED BY <2>1, Unserved DEF TypeInv, TypeOK
<1>5. CASE FirstPage \/ NextPage \/ UNCHANGED vars
  BY <1>4, <1>5 DEF FirstPage, NextPage, vars
<1>. QED BY <1>2, <1>3, <1>5, ConflictServing, UpdateServing, ReadWordsServing,
            ReadVersionServing, PublishServing, RestartServing DEF Next

-----------------------------------------------------------------------------
(* The order in which rows are listed.                                     *)

LEMMA OlderOrder ==
  /\ \A x \in Rows : ~ Older(x, x)
  /\ \A x, y, z \in Rows : Older(x, y) /\ Older(y, z) => Older(x, z)
  /\ \A x, y \in Rows : x.id # y.id => Older(x, y) \/ Older(y, x)
<1>1. \A x \in Rows : x.at \in Int /\ x.id \in Int BY DEF Rows
<1>2. ASSUME NEW x \in Rows PROVE ~ Older(x, x) BY <1>1 DEF Older
<1>3. ASSUME NEW x \in Rows, NEW y \in Rows, NEW z \in Rows, Older(x, y), Older(y, z)
      PROVE  Older(x, z)
  <2>1. /\ x.at \in Int /\ x.id \in Int /\ y.at \in Int /\ y.id \in Int
        /\ z.at \in Int /\ z.id \in Int
    BY <1>1
  <2>. QED BY <1>3, <2>1 DEF Older
<1>4. ASSUME NEW x \in Rows, NEW y \in Rows, x.id # y.id PROVE Older(x, y) \/ Older(y, x)
  <2>1. x.at \in Int /\ x.id \in Int /\ y.at \in Int /\ y.id \in Int BY <1>1
  <2>. QED BY <1>4, <2>1 DEF Older
<1>. QED BY <1>2, <1>3, <1>4

(* Rows of which no two have the same identifier.                          *)
Distinct(S) ==
    S \subseteq Rows /\ IsFiniteSet(S) /\ \A x, y \in S : x.id = y.id => x = y

LEMMA NewerGrows ==
  ASSUME NEW S, Distinct(S), NEW x \in S
  PROVE  /\ Cardinality(Newer(S, x)) \in 0..(Cardinality(S) - 1)
         /\ \A y \in S : Older(x, y) =>
               Cardinality(Newer(S, y)) < Cardinality(Newer(S, x))
<1>0. S \subseteq Rows /\ IsFiniteSet(S) BY DEF Distinct
<1>1. ASSUME NEW T, NEW U, IsFiniteSet(U), T \subseteq U, NEW y \in U, y \notin T
      PROVE  /\ Cardinality(T) \in Nat /\ Cardinality(U) \in Nat
             /\ Cardinality(T) < Cardinality(U)
  <2>1. IsFiniteSet(T) /\ Cardinality(T) <= Cardinality(U) /\ Cardinality(T) # Cardinality(U)
    BY <1>1, FS_Subset
  <2>2. Cardinality(T) \in Nat /\ Cardinality(U) \in Nat
    BY <1>1, <2>1, FS_CardinalityType
  <2>. QED BY <2>1, <2>2
<1>2. \A y \in S : Newer(S, y) \subseteq S /\ y \notin Newer(S, y)
  <2>1. \A y \in S : ~ Older(y, y) BY <1>0, OlderOrder
  <2>. QED BY <2>1 DEF Newer
<1>3. Cardinality(Newer(S, x)) \in 0..(Cardinality(S) - 1)
  <2>1. /\ Cardinality(Newer(S, x)) \in Nat /\ Cardinality(S) \in Nat
        /\ Cardinality(Newer(S, x)) < Cardinality(S)
    BY <1>0, <1>1, <1>2
  <2>. QED BY <2>1
<1>4. ASSUME NEW y \in S, Older(x, y)
      PROVE  Cardinality(Newer(S, y)) < Cardinality(Newer(S, x))
  <2>1. y \in Newer(S, x) BY <1>4 DEF Newer
  <2>2. Newer(S, y) \subseteq Newer(S, x)
    <3>1. ASSUME NEW z \in S, Older(y, z) PROVE Older(x, z)
      <4>1. x \in Rows /\ y \in Rows /\ z \in Rows BY <1>0
      <4>. QED BY <1>4, <3>1, <4>1, OlderOrder
    <3>. QED BY <3>1 DEF Newer
  <2>3. IsFiniteSet(Newer(S, x)) BY <1>0, <1>2, FS_Subset
  <2>. QED BY <1>1, <1>2, <2>1, <2>2, <2>3
<1>. QED BY <1>3, <1>4

(* The newest rows, in order; the others are older than the last of them.  *)
LEMMA NewestFirstProperties ==
  ASSUME NEW S, Distinct(S), NEW size \in 0..Cardinality(S)
  PROVE  /\ NewestFirst(S, size) \in [1..size -> S]
         /\ \A i, j \in 1..size : i < j =>
               Older(NewestFirst(S, size)[j], NewestFirst(S, size)[i])
         /\ \A x \in S : \/ \E i \in 1..size : NewestFirst(S, size)[i] = x
                         \/ size < Cardinality(S)
                            /\ (size > 0 => Older(x, NewestFirst(S, size)[size]))
<1> DEFINE n == Cardinality(S)
           f == NewestFirst(S, size)
           rank == [x \in S |-> Cardinality(Newer(S, x)) + 1]
<1>1. S \subseteq Rows /\ IsFiniteSet(S) /\ n \in Nat BY FS_CardinalityType DEF Distinct
<1>2. /\ rank \in [S -> 1..n]
      /\ \A x, y \in S : Older(x, y) => rank[y] < rank[x]
  <2>1. ASSUME NEW x \in S PROVE rank[x] \in 1..n
    <3>1. Cardinality(Newer(S, x)) \in 0..(n - 1) BY NewerGrows
    <3>. QED BY <1>1, <3>1
  <2>2. ASSUME NEW x \in S, NEW y \in S, Older(x, y) PROVE rank[y] < rank[x]
    <3>1. Cardinality(Newer(S, y)) < Cardinality(Newer(S, x)) BY <2>2, NewerGrows
    <3>2. Cardinality(Newer(S, x)) \in 0..(n - 1) /\ Cardinality(Newer(S, y)) \in 0..(n - 1)
      BY NewerGrows
    <3>. QED BY <1>1, <3>1, <3>2
  <2>. QED BY <2>1, <2>2
<1>3. \A x, y \in S : x = y \/ Older(x, y) \/ Older(y, x)
  BY <1>1, OlderOrder DEF Distinct
<1>4. \A x, y \in S : rank[x] = rank[y] => x = y
  <2> HIDE DEF rank
  <2>1. \A x \in S : rank[x] \in Int BY <1>1, <1>2
  <2>. QED BY <1>2, <1>3, <2>1
<1>5. rank \in Injection(S, 1..n) BY <1>2, <1>4 DEF Injection, IsInjective
<1>6. IsFiniteSet(1..n) /\ Cardinality(1..n) = n BY <1>1, FS_Interval
<1>7. rank \in Surjection(S, 1..n) BY <1>1, <1>5, <1>6, FS_Injection
<1>8. ASSUME NEW m \in 1..size
      PROVE  f[m] \in S /\ rank[f[m]] = m
  <2>1. m \in 1..n /\ m \in Int BY <1>1
  <2>2. PICK x \in S : rank[x] = m BY <1>7, <2>1, Fun_IsSurj DEF Surjection
  <2>3. Cardinality(Newer(S, x)) = m - 1
    <3>1. Cardinality(Newer(S, x)) \in 0..(n - 1) BY NewerGrows
    <3>. QED BY <1>1, <2>1, <2>2, <3>1
  <2>4. LET y == CHOOSE y \in S : Cardinality(Newer(S, y)) = m - 1
        IN y \in S /\ Cardinality(Newer(S, y)) = m - 1
    BY <2>3
  <2>. QED BY <2>1, <2>4 DEF NewestFirst
<1>9. f \in [1..size -> S] BY <1>8 DEF NewestFirst
<1> HIDE DEF f, rank
<1>10. ASSUME NEW i \in 1..size, NEW j \in 1..size, i < j PROVE Older(f[j], f[i])
  <2>1. f[i] \in S /\ f[j] \in S /\ rank[f[i]] = i /\ rank[f[j]] = j BY <1>8
  <2>2. ~ j < i /\ i # j /\ i \in Int /\ j \in Int BY <1>10
  <2>. QED BY <1>2, <1>3, <2>1, <2>2
<1>11. ASSUME NEW x \in S, ~ \E i \in 1..size : f[i] = x
       PROVE  size < n /\ (size > 0 => Older(x, f[size]))
  <2>1. rank[x] \in 1..n /\ size \in 0..n BY <1>2
  <2>2. rank[x] > size
    <3>1. CASE rank[x] <= size
      <4>1. rank[x] \in 1..size BY <1>1, <2>1, <3>1
      <4>2. f[rank[x]] \in S /\ rank[f[rank[x]]] = rank[x] BY <1>8, <4>1
      <4>. QED BY <1>4, <1>11, <4>1, <4>2
    <3>. QED BY <1>1, <2>1, <3>1
  <2>3. size < n BY <1>1, <2>1, <2>2
  <2>4. ASSUME size > 0 PROVE Older(x, f[size])
    <3>1. size \in 1..size BY <1>1, <2>1, <2>4
    <3>2. f[size] \in S /\ rank[f[size]] = size BY <1>8, <3>1
    <3>3. rank[x] # size /\ ~ rank[x] < size BY <1>1, <2>1, <2>2
    <3>. QED BY <1>2, <1>3, <3>2, <3>3
  <2>. QED BY <2>3, <2>4
<1>. QED BY <1>9, <1>10, <1>11 DEF f

LEMMA PageProperties ==
  ASSUME TypeInv, NEW c
  PROVE  /\ Rest(c) \subseteq rows /\ Page(c) \in Seq(Rows)
         /\ Len(Page(c)) \in Nat /\ \A i \in 1..Len(Page(c)) : Page(c)[i] \in Rest(c)
         /\ \A i, j \in 1..Len(Page(c)) : i < j => Older(Page(c)[j], Page(c)[i])
         /\ Len(Page(c)) < Cardinality(Rest(c)) => Len(Page(c)) > 0
         /\ \A x \in Rest(c) :
               \/ \E i \in 1..Len(Page(c)) : Page(c)[i] = x
               \/ /\ Len(Page(c)) < Cardinality(Rest(c))
                  /\ Older(x, Page(c)[Len(Page(c))])
<1> DEFINE S == Rest(c)
           all == Cardinality(S)
           size == IF all < PageSize THEN all ELSE PageSize
           p == NewestFirst(S, size)
<1>1. S \subseteq rows BY DEF Rest
<1>2. Distinct(S)
  <2>1. IsFiniteSet(S) /\ S \subseteq Rows BY <1>1, FS_Subset DEF TypeInv
  <2>2. \A x, y \in S : x.id = y.id => x = y BY <1>1 DEF TypeInv, TypeOK
  <2>. QED BY <2>1, <2>2 DEF Distinct
<1>3. all \in Nat BY <1>2, FS_CardinalityType DEF Distinct
<1>4. size \in 0..all /\ size \in Nat /\ (size < all => size > 0) BY <1>3
<1>5. p = Page(c) BY DEF Page
<1> HIDE DEF S, size, p
<1>6. /\ NewestFirst(S, size) \in [1..size -> S]
      /\ \A i, j \in 1..size : i < j =>
            Older(NewestFirst(S, size)[j], NewestFirst(S, size)[i])
      /\ \A x \in S : \/ \E i \in 1..size : NewestFirst(S, size)[i] = x
                      \/ size < all /\ (size > 0 => Older(x, NewestFirst(S, size)[size]))
  BY <1>2, <1>4, NewestFirstProperties
<1>7. /\ p \in [1..size -> S]
      /\ \A i, j \in 1..size : i < j => Older(p[j], p[i])
      /\ \A x \in S : \/ \E i \in 1..size : p[i] = x
                      \/ size < all /\ Older(x, p[size])
  BY <1>4, <1>6 DEF p
<1>8. p \in Seq(S) /\ Len(p) = size BY <1>4, <1>7
<1>9. S \subseteq Rows BY <1>2 DEF Distinct
<1>10. p \in Seq(Rows)
  <2>1. \A i \in 1..size : p[i] \in Rows BY <1>7, <1>9
  <2>2. p \in [1..size -> Rows] BY <1>7, <2>1
  <2>. QED BY <1>4, <2>2
<1>11. /\ S \subseteq rows /\ p \in Seq(Rows) /\ Len(p) \in Nat
       /\ \A i \in 1..Len(p) : p[i] \in S
       /\ \A i, j \in 1..Len(p) : i < j => Older(p[j], p[i])
       /\ Len(p) < all => Len(p) > 0
       /\ \A x \in S : \/ \E i \in 1..Len(p) : p[i] = x
                       \/ Len(p) < all /\ Older(x, p[Len(p)])
  BY <1>1, <1>4, <1>7, <1>8, <1>10
<1>. QED BY <1>5, <1>11 DEF S

LEMMA FirstPageLists ==
  ASSUME TypeInv, ListInv, FirstPage
  PROVE  ListInv'
<1> DEFINE p == Page(NoCursor)
<1>1. Rest(NoCursor) = rows BY DEF Rest
<1>2. /\ p \in Seq(Rows) /\ Len(p) \in Nat
      /\ \A i, j \in 1..Len(p) : i < j => Older(p[j], p[i])
      /\ Len(p) < Cardinality(rows) => Len(p) > 0
      /\ \A x \in rows : \/ \E i \in 1..Len(p) : p[i] = x
                         \/ Len(p) < Cardinality(rows) /\ Older(x, p[Len(p)])
  BY <1>1, PageProperties
<1>3. /\ listed' = p /\ present' = rows /\ rows' = rows
      /\ cursor' = IF Len(p) < Cardinality(rows) THEN p[Len(p)] ELSE NoCursor
  BY DEF FirstPage, Last, database
<1> HIDE DEF p
<1>4. ASSUME Len(p) > 0 PROVE p # <<>> /\ p[Len(p)] \in Rows /\ p[Len(p)] # NoCursor
  <2>1. p[Len(p)] \in Rows BY <1>2, <1>4
  <2>2. p[Len(p)].at \in Nat BY <2>1 DEF Rows
  <2>3. NoCursor.at = -1 BY DEF NoCursor
  <2>. QED BY <1>2, <1>4, <2>1, <2>2, <2>3
<1>5. cursor' # NoCursor => listed' # <<>> /\ cursor' = listed'[Len(listed')]
  BY <1>2, <1>3, <1>4
<1>6. ASSUME NEW x \in rows
      PROVE  \/ \E i \in 1..Len(p) : p[i] = x
             \/ cursor' # NoCursor /\ Older(x, cursor')
  BY <1>2, <1>3, <1>4
<1>. QED BY <1>2, <1>3, <1>5, <1>6 DEF ListInv

LEMMA NextPageLists ==
  ASSUME TypeInv, ListInv, NextPage
  PROVE  ListInv'
<1> DEFINE p == Page(cursor)
           l == Len(listed)
<1>1. /\ cursor # NoCursor /\ listed' = listed \o p /\ present' = present /\ rows' = rows
      /\ cursor' = IF Len(p) < Cardinality(Rest(cursor)) THEN p[Len(p)] ELSE NoCursor
  BY DEF NextPage, Last, database
<1>2. /\ p \in Seq(Rows) /\ Len(p) \in Nat /\ \A i \in 1..Len(p) : p[i] \in Rest(cursor)
      /\ \A i, j \in 1..Len(p) : i < j => Older(p[j], p[i])
      /\ Len(p) < Cardinality(Rest(cursor)) => Len(p) > 0
      /\ \A x \in Rest(cursor) :
            \/ \E i \in 1..Len(p) : p[i] = x
            \/ Len(p) < Cardinality(Rest(cursor)) /\ Older(x, p[Len(p)])
  BY PageProperties
<1> HIDE DEF p
<1>3. /\ listed \in Seq(Rows) /\ present \subseteq rows /\ l \in Nat /\ l > 0
      /\ \A i, j \in 1..l : i < j => Older(listed[j], listed[i])
      /\ cursor = listed[l]
      /\ \A x \in present : \/ \E i \in 1..l : listed[i] = x
                            \/ Older(x, cursor)
  BY <1>1 DEF ListInv
<1>4. /\ listed' \in Seq(Rows) /\ Len(listed') = l + Len(p)
      /\ \A i \in 1..l : listed'[i] = listed[i]
      /\ \A i \in 1..Len(p) : listed'[l + i] = p[i]
  BY <1>1, <1>2, <1>3
<1> HIDE DEF l
<1>5. \A x \in Rest(cursor) : Older(x, cursor) BY <1>1 DEF Rest
<1>6. ASSUME NEW i \in 1..l + Len(p)
      PROVE  i \in 1..l \/ \E k \in 1..Len(p) : i = l + k
  <2>1. CASE i <= l BY <1>2, <1>3, <2>1
  <2>2. CASE ~ i <= l
    <3>1. i - l \in 1..Len(p) /\ i = l + (i - l) BY <1>2, <1>3, <2>2
    <3>. QED BY <3>1
  <2>. QED BY <2>1, <2>2
<1>7. \A i \in 1..l : listed[i] \in Rows BY <1>3 DEF l
<1>8. \A i \in 1..Len(p) : p[i] \in Rows BY <1>2
<1>9. ASSUME NEW i \in 1..l, NEW k \in 1..Len(p) PROVE Older(p[k], listed[i])
  <2>1. Older(p[k], listed[l]) BY <1>2, <1>3, <1>5
  <2>2. CASE i = l BY <2>1, <2>2
  <2>3. CASE i # l
    <3>1. l \in 1..l /\ i < l BY <1>3, <2>3
    <3>2. Older(listed[l], listed[i]) BY <1>3, <3>1
    <3>. QED BY <1>7, <1>8, <2>1, <3>1, <3>2, OlderOrder
  <2>. QED BY <2>2, <2>3
<1>10. ASSUME NEW i \in 1..l + Len(p), NEW j \in 1..l + Len(p), i < j
       PROVE  Older(listed'[j], listed'[i])
  <2>1. CASE j \in 1..l
    <3>1. i \in 1..l BY <1>2, <1>3, <1>10, <2>1
    <3>. QED BY <1>3, <1>4, <1>10, <2>1, <3>1
  <2>2. CASE i \in 1..l /\ j \notin 1..l
    <3>1. PICK k \in 1..Len(p) : j = l + k BY <1>6, <2>2
    <3>. QED BY <1>4, <1>9, <2>2, <3>1
  <2>3. CASE i \notin 1..l /\ j \notin 1..l
    <3>1. PICK k \in 1..Len(p) : j = l + k BY <1>6, <2>3
    <3>2. PICK m \in 1..Len(p) : i = l + m BY <1>6, <2>3
    <3>3. m < k BY <1>2, <1>3, <1>10, <3>1, <3>2
    <3>. QED BY <1>2, <1>4, <3>1, <3>2, <3>3
  <2>4. CASE i \notin 1..l /\ j \in 1..l BY <1>2, <1>3, <1>10, <2>4
  <2>. QED BY <2>1, <2>2, <2>3, <2>4
<1>11. ASSUME Len(p) > 0
       PROVE  /\ p[Len(p)] # NoCursor
              /\ listed' # <<>> /\ listed'[Len(listed')] = p[Len(p)]
  <2>1. Len(p) \in 1..Len(p) BY <1>2, <1>11
  <2>2. p[Len(p)].at \in Nat BY <1>8, <2>1 DEF Rows
  <2>3. NoCursor.at = -1 BY DEF NoCursor
  <2>4. Len(listed') > 0 BY <1>2, <1>3, <1>4
  <2>. QED BY <1>4, <2>1, <2>2, <2>3, <2>4
<1>12. cursor' # NoCursor => listed' # <<>> /\ cursor' = listed'[Len(listed')]
  BY <1>1, <1>2, <1>11
<1>13. ASSUME NEW x \in present
       PROVE  \/ \E i \in 1..Len(listed') : listed'[i] = x
              \/ cursor' # NoCursor /\ Older(x, cursor')
  <2>1. CASE \E i \in 1..l : listed[i] = x
    <3>1. PICK i \in 1..l : listed[i] = x BY <2>1
    <3>2. i \in 1..Len(listed') BY <1>2, <1>3, <1>4
    <3>. QED BY <1>4, <3>1, <3>2
  <2>2. CASE Older(x, cursor)
    <3>1. x \in Rest(cursor) BY <1>3, <2>2 DEF Rest
    <3>2. CASE \E i \in 1..Len(p) : p[i] = x
      <4>1. PICK i \in 1..Len(p) : p[i] = x BY <3>2
      <4>2. l + i \in 1..Len(listed') BY <1>2, <1>3, <1>4
      <4>. QED BY <1>4, <4>1, <4>2
    <3>3. CASE Len(p) < Cardinality(Rest(cursor)) /\ Older(x, p[Len(p)])
      BY <1>1, <1>2, <1>11, <3>3
    <3>. QED BY <1>2, <3>1, <3>2, <3>3
  <2>. QED BY <1>3, <2>1, <2>2
<1>. QED BY <1>1, <1>3, <1>4, <1>10, <1>12, <1>13 DEF ListInv

LEMMA ListStep ==
  ASSUME TypeInv, ListInv, [Next]_vars
  PROVE  ListInv'
<1>1. ASSUME UNCHANGED <<rows, cursor, listed, present>> PROVE ListInv'
  BY <1>1 DEF ListInv
<1>2. ASSUME NEW r \in Requests, NEW newRows, NEW v, Change(r, newRows, v) PROVE ListInv'
  <2>1. /\ rows' = newRows /\ present' = present \cap newRows
        /\ UNCHANGED <<cursor, listed>>
    BY <1>2 DEF Change, Commit
  <2>. QED BY <2>1 DEF ListInv
<1>3. ASSUME NEW r \in Requests, NEW i \in Inputs, Create(r, i) PROVE ListInv'
  BY <1>2, <1>3, CreateChanges
<1>4. ASSUME NEW r \in Requests, NEW id \in 1..MaxVersion, Delete(r, id) PROVE ListInv'
  BY <1>2, <1>4, DeleteChanges
<1>5. ASSUME NEW r \in Requests, NEW word, Conflict(r, word) PROVE ListInv'
  BY <1>1, <1>5 DEF Conflict, database, listing
<1>6. ASSUME NEW r \in Requests,
             Update(r) \/ ReadWords(r) \/ ReadVersion(r) \/ Publish(r)
      PROVE  ListInv'
  BY <1>1, <1>6 DEF Update, ReadWords, ReadVersion, Publish, database, listing
<1>7. CASE Restart \/ UNCHANGED vars
  BY <1>1, <1>7 DEF Restart, vars, database, listing
<1>. QED BY <1>3, <1>4, <1>5, <1>6, <1>7, FirstPageLists, NextPageLists DEF Next

-----------------------------------------------------------------------------
(* What holds of every behaviour.                                          *)

LEMMA InitInv == ASSUME Init PROVE IInv
<1>1. [entries |-> {}, version |-> -1] \in Readings BY DEF Readings
<1>2. published.version = -1 BY DEF Init, FromFile, Scanner
<1>3. Requests \ Resting = {} /\ \A r \in Requests : pc[r] = "idle" BY DEF Init, Resting
<1>4. TypeInv
  <2>1. TypeOK BY <1>2 DEF Init, TypeOK
  <2>2. IsFiniteSet(rows) BY FS_EmptySet DEF Init
  <2>3. \A r \in Requests : seen[r].version <= version BY DEF Init
  <2>4. seen \in [Requests -> Readings] /\ since \in [Requests -> SUBSET Readings]
    BY <1>1 DEF Init
  <2>5. clock <= version
    <3>1. clock = 0 /\ version = 0 BY DEF Init
    <3>. QED BY <3>1
  <2>6. /\ rows \subseteq Rows /\ issued \subseteq 1..MaxVersion /\ alone \subseteq Requests
    BY DEF Init
  <2>7. lagging \in BOOLEAN BY Zenon DEF Init
  <2>. QED BY <2>1, <2>2, <2>3, <2>4, <2>5, <2>6, <2>7 DEF TypeInv
<1>5. HistoryInv /\ ListHasOwnChange /\ AloneInv BY <1>3
  DEF Init, HistoryInv, ListHasOwnChange, AloneInv
<1>6. ScannerIsCurrent BY DEF Init, ScannerIsCurrent
<1>7. ListInv BY DEF Init, ListInv
<1>. QED BY <1>4, <1>5, <1>6, <1>7 DEF IInv

(* IInv holds in every reachable state.                                    *)
THEOREM Invariance == Spec => []IInv
<1>1. Init => IInv BY InitInv
<1>2. IInv /\ [Next]_vars => IInv'
  <2> SUFFICES ASSUME IInv, [Next]_vars PROVE IInv' OBVIOUS
  <2>1. TypeInv' /\ ServingInv' BY ServingStep DEF IInv, ServingInv
  <2>2. ListInv' BY ListStep DEF IInv
  <2>. QED BY <2>1, <2>2 DEF IInv, ServingInv
<1>. QED BY <1>1, <1>2, PTL DEF Spec

(* A list of words that is published contains the change it is published   *)
(* for and is not newer than its version, and is the newest when requests  *)
(* have not overlapped (_refresh_tenant, replace_tenant).                  *)
THEOREM PublicationHolds == Spec => []PublicationInv
<1>1. IInv => PublicationInv BY DEF IInv, TypeInv, PublicationInv
<1>. QED BY <1>1, Invariance, PTL

(* list_words with its cursor shows each row that stays exactly once,      *)
(* whatever requests add and delete between two pages.                     *)
THEOREM EachRowIsListedOnce == Spec => []ListedOnce
<1>1. IInv => ListedOnce
  <2> SUFFICES ASSUME ListInv PROVE ListedOnce BY DEF IInv
  <2>1. listed \in Seq(Rows) /\ DOMAIN listed = 1..Len(listed) BY DEF ListInv
  <2>2. ASSUME NEW i \in 1..Len(listed), NEW j \in 1..Len(listed), i < j
        PROVE  listed[i] # listed[j]
    <3>1. Older(listed[j], listed[i]) BY <2>2 DEF ListInv
    <3>2. listed[j] \in Rows BY <2>1
    <3>. QED BY <3>1, <3>2, OlderOrder
  <2>3. IsInjective(listed)
    <3>1. ASSUME NEW i \in 1..Len(listed), NEW j \in 1..Len(listed), listed[i] = listed[j]
          PROVE  i = j
      <4>1. ~ i < j /\ ~ j < i BY <2>2, <3>1
      <4>. QED BY <4>1
    <3>. QED BY <2>1, <3>1 DEF IsInjective
  <2>4. cursor = NoCursor => present \subseteq ToSet(listed)
    BY <2>1 DEF ListInv, ToSet
  <2>. QED BY <2>3, <2>4 DEF ListedOnce
<1>. QED BY <1>1, Invariance, PTL

-----------------------------------------------------------------------------
(* The scanner is the automaton of its list.                               *)
ScannerInv ==
    /\ published = Scanner(published.version, published.entries)
    /\ published.entries \subseteq [word : Seq(DOMAIN Fold), enabled : BOOLEAN]

LEMMA ScannersAreScanners ==
  ASSUME NEW v, NEW entries \in SUBSET [word : Seq(DOMAIN Fold), enabled : BOOLEAN],
         NEW s, s = Scanner(v, entries)
  PROVE  /\ s = Scanner(s.version, s.entries)
         /\ s.entries \subseteq [word : Seq(DOMAIN Fold), enabled : BOOLEAN]
<1> DEFINE a == Automaton(Enabled(entries))
<1>1. s = [version |-> v, entries |-> entries, automaton |-> a] BY DEF Scanner
<1> HIDE DEF a
<1>2. s.version = v /\ s.entries = entries BY <1>1
<1>. QED BY <1>2

LEMMA FromFileIsAScanner ==
  /\ FromFile = Scanner(FromFile.version, FromFile.entries)
  /\ FromFile.entries \subseteq [word : Seq(DOMAIN Fold), enabled : BOOLEAN]
<1> DEFINE entries == {[word |-> w, enabled |-> TRUE] : w \in FileWords}
<1>1. entries \in SUBSET [word : Seq(DOMAIN Fold), enabled : BOOLEAN]
  <2>1. \A w \in FileWords : w \in Seq(DOMAIN Fold) BY TextAssumption
  <2>2. \A w \in FileWords : [word |-> w, enabled |-> TRUE]
                              \in [word : Seq(DOMAIN Fold), enabled : BOOLEAN]
    BY <2>1
  <2>. QED BY <2>2
<1>2. FromFile = Scanner(-1, entries) BY DEF FromFile
<1> HIDE DEF entries
<1>. QED BY <1>1, <1>2, ScannersAreScanners

LEMMA ScannerStep ==
  ASSUME TypeInv, ScannerInv, [Next]_vars
  PROVE  ScannerInv'
<1>1. ASSUME UNCHANGED published PROVE ScannerInv' BY <1>1 DEF ScannerInv
<1>2. ASSUME NEW r \in Requests, Publish(r) PROVE ScannerInv'
  <2>1. seen[r].entries \in SUBSET [word : Seq(DOMAIN Fold), enabled : BOOLEAN]
    BY DEF TypeInv, Readings
  <2>2. published' = Scanner(seen[r].version, seen[r].entries) BY <1>2 DEF Publish
  <2>. QED BY <2>1, <2>2, ScannersAreScanners DEF ScannerInv
<1>3. CASE Restart
  <2>1. published' = FromFile BY <1>3 DEF Restart
  <2>. QED BY <2>1, FromFileIsAScanner DEF ScannerInv
<1>4. ASSUME NEW r \in Requests, NEW i \in Inputs, Conflict(r, i.word) \/ Create(r, i)
      PROVE  UNCHANGED published
  BY <1>4 DEF Conflict, Create
<1>5. ASSUME NEW r \in Requests, NEW id \in 1..MaxVersion, Delete(r, id)
      PROVE  UNCHANGED published
  BY <1>5 DEF Delete
<1>6. ASSUME NEW r \in Requests, Update(r) \/ ReadWords(r) \/ ReadVersion(r)
      PROVE  UNCHANGED published
  BY <1>6 DEF Update, ReadWords, ReadVersion
<1>7. CASE FirstPage \/ NextPage \/ UNCHANGED vars BY <1>1, <1>7 DEF FirstPage, NextPage, vars
<1>. QED BY <1>1, <1>2, <1>3, <1>4, <1>5, <1>6, <1>7 DEF Next

(* Whatever words users enter and the file has, in every state and every   *)
(* transcript the published scanner finds exactly the leftmost-longest     *)
(* occurrences of the enabled words of its list (SensitiveScanner: nodes,  *)
(* failure links, outputs, scan and _remove_overlaps).                     *)
THEOREM ScannerFindsTheWords == Spec => []ScansFindTheWords
<1>1. Init => TypeInv /\ ScannerInv
  <2>1. Init => TypeInv BY InitInv DEF IInv
  <2>2. Init => ScannerInv BY FromFileIsAScanner DEF Init, ScannerInv
  <2>. QED BY <2>1, <2>2
<1>2. TypeInv /\ ScannerInv /\ [Next]_vars => ScannerInv' BY ScannerStep
<1>3. IInv => TypeInv BY DEF IInv
<1>4. ScannerInv => ScansFindTheWords
  <2> SUFFICES ASSUME ScannerInv, NEW t \in Texts
               PROVE  IsLeftmostLongest(Scan(published.automaton, t),
                                        Enabled(published.entries), t)
    BY DEF ScansFindTheWords
  <2> DEFINE words == Enabled(published.entries)
  <2>1. words \in SUBSET Seq(DOMAIN Fold) /\ <<>> \notin words
    BY DEF ScannerInv, Enabled
  <2>2. t \in Seq(DOMAIN Fold) BY TextAssumption
  <2>3. published.automaton = Automaton(words)
    <3> DEFINE v == published.version
               e == published.entries
               a == Automaton(words)
    <3>1. published = [version |-> v, entries |-> e, automaton |-> a]
      BY DEF ScannerInv, Scanner
    <3> HIDE DEF v, e, a
    <3>2. published.automaton = a BY <3>1
    <3>. QED BY <3>2 DEF a
  <2> HIDE DEF words
  <2>4. IsLeftmostLongest(Scan(Automaton(words), t), words, t) BY <2>1, <2>2, ScanFinds
  <2>. QED BY <2>3, <2>4 DEF words
<1>. QED BY <1>1, <1>2, <1>3, <1>4, Invariance, PTL DEF Spec
=============================================================================
