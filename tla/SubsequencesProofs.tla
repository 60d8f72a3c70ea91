-------------------------- MODULE SubsequencesProofs --------------------------
(***************************************************************************)
(* What Ascending and Chosen return, for all finite sets of integers and   *)
(* all sequences; queues without duplicates; functions defined by          *)
(* recursion, folds, and elements in an order.                             *)
(***************************************************************************)
EXTENDS Subsequences, SequencesExt, FiniteSetsExt,
        FiniteSetTheorems, FunctionTheorems, SequenceTheorems, WellFoundedInduction, TLAPS

(* Increasing functions from 1..n onto I.                                  *)
Enumerations(n, I) ==
    {f \in [1..n -> I] : /\ \A l, m \in 1..n : l < m => f[l] < f[m]
                         /\ \A i \in I : \E m \in 1..n : f[m] = i}

(* Below grows with its bound.                                             *)
LEMMA BelowGrows ==
  ASSUME NEW I \in SUBSET Int, IsFiniteSet(I), NEW i \in I
  PROVE  /\ IsFiniteSet(Below(I, i))
         /\ Cardinality(Below(I, i)) \in 0..(Cardinality(I) - 1)
         /\ \A j \in I : i < j => Cardinality(Below(I, i)) < Cardinality(Below(I, j))
<1>1. ASSUME NEW S, NEW T, IsFiniteSet(T), S \subseteq T, i \in T, i \notin S
      PROVE  Cardinality(S) < Cardinality(T) /\ Cardinality(S) \in Nat
             /\ Cardinality(T) \in Nat /\ IsFiniteSet(S)
  <2>1. IsFiniteSet(S) /\ Cardinality(S) <= Cardinality(T) /\ Cardinality(S) # Cardinality(T)
    BY <1>1, FS_Subset
  <2>2. Cardinality(S) \in Nat /\ Cardinality(T) \in Nat
    BY <1>1, <2>1, FS_CardinalityType
  <2>. QED BY <2>1, <2>2
<1>2. Below(I, i) \subseteq I /\ i \notin Below(I, i) BY DEF Below
<1>3. ASSUME NEW j \in I, i < j
      PROVE  Cardinality(Below(I, i)) < Cardinality(Below(I, j))
  <2>1. Below(I, i) \subseteq Below(I, j) /\ i \in Below(I, j)
    <3>1. i \in Int /\ j \in Int OBVIOUS
    <3>2. ASSUME NEW k \in I, k < i PROVE k < j
      <4>1. k \in Int OBVIOUS
      <4>. QED BY <1>3, <3>1, <3>2, <4>1
    <3>. QED BY <1>3, <3>2 DEF Below
  <2>2. IsFiniteSet(Below(I, j)) BY FS_Subset DEF Below
  <2>. QED BY <1>1, <1>2, <2>1, <2>2
<1>. QED BY <1>1, <1>2, <1>3

(* Ascending enumerates its set.                                           *)
LEMMA AscendingEnumerates ==
  ASSUME NEW I \in SUBSET Int, IsFiniteSet(I)
  PROVE  /\ Cardinality(I) \in Nat
         /\ Ascending(I) \in Enumerations(Cardinality(I), I)
<1> DEFINE n == Cardinality(I)
           rank == [i \in I |-> Cardinality(Below(I, i)) + 1]
<1>1. n \in Nat BY FS_CardinalityType
<1>2. /\ rank \in [I -> 1..n]
      /\ \A i, j \in I : i < j => rank[i] < rank[j]
  BY <1>1, BelowGrows
<1>3. rank \in Injection(I, 1..n)
  <2>1. \A i, j \in I : rank[i] = rank[j] => i = j BY <1>2
  <2>. QED BY <1>2, <2>1 DEF Injection, IsInjective
<1>4. IsFiniteSet(1..n) /\ Cardinality(1..n) = n BY <1>1, FS_Interval
<1>5. rank \in Surjection(I, 1..n) BY <1>3, <1>4, FS_Injection
<1>6. ASSUME NEW m \in 1..n
      PROVE  Ascending(I)[m] \in I /\ rank[Ascending(I)[m]] = m
  <2>1. PICK i \in I : rank[i] = m BY <1>5, Fun_IsSurj DEF Surjection
  <2>2. \E j \in I : Cardinality(Below(I, j)) = m - 1
    <3>1. Cardinality(Below(I, i)) \in Int BY <1>1, BelowGrows
    <3>. QED BY <1>1, <2>1, <3>1
  <2>3. LET k == CHOOSE j \in I : Cardinality(Below(I, j)) = m - 1
        IN k \in I /\ Cardinality(Below(I, k)) = m - 1
    BY <2>2
  <2>. QED BY <1>1, <2>3 DEF Ascending
<1>7. Ascending(I) \in [1..n -> I] BY <1>6 DEF Ascending
<1>8. ASSUME NEW l \in 1..n, NEW m \in 1..n, l < m
      PROVE  Ascending(I)[l] < Ascending(I)[m]
  <2> HIDE DEF rank
  <2>1. Ascending(I)[l] \in Int /\ Ascending(I)[m] \in Int BY <1>6
  <2>2. ~ Ascending(I)[m] < Ascending(I)[l] /\ Ascending(I)[m] # Ascending(I)[l]
    <3>1. l \in Int /\ m \in Int /\ ~ m < l /\ l # m BY <1>1, <1>8
    <3>. QED BY <1>2, <1>6, <3>1
  <2>. QED BY <2>1, <2>2
<1>9. ASSUME NEW i \in I PROVE \E m \in 1..n : Ascending(I)[m] = i
  <2>1. rank[i] \in 1..n BY <1>2
  <2>2. Ascending(I)[rank[i]] \in I /\ rank[Ascending(I)[rank[i]]] = rank[i]
    BY <1>6, <2>1
  <2> HIDE DEF rank
  <2>3. Ascending(I)[rank[i]] \in Int /\ i \in Int BY <2>2
  <2>4. rank[i] \in Int BY <1>1, <2>1
  <2>5. Ascending(I)[rank[i]] = i BY <1>2, <2>2, <2>3, <2>4
  <2>. QED BY <2>1, <2>5
<1>. QED BY <1>1, <1>7, <1>8, <1>9 DEF Enumerations

(* There is one way to enumerate a set in order.                           *)
LEMMA EnumerationIsAscending ==
  ASSUME NEW n \in Nat, NEW I \in SUBSET Int, NEW f \in Enumerations(n, I)
  PROVE  IsFiniteSet(I) /\ Cardinality(I) = n /\ f = Ascending(I)
<1>1. /\ f \in [1..n -> I]
      /\ \A l, m \in 1..n : l < m => f[l] < f[m]
      /\ \A i \in I : \E m \in 1..n : f[m] = i
  BY DEF Enumerations
<1>2. ASSUME NEW l \in 1..n, NEW m \in 1..n, f[l] = f[m] PROVE l = m
  <2>1. f[l] \in Int /\ f[m] \in Int BY <1>1
  <2>2. ~ f[l] < f[m] /\ ~ f[m] < f[l] BY <1>2, <2>1
  <2>. QED BY <1>1, <2>2
<1>3. f \in Bijection(1..n, I)
  BY <1>1, <1>2 DEF Bijection, Injection, Surjection, IsInjective
<1>4. IsFiniteSet(I) /\ Cardinality(I) = n
  <2>1. ExistsBijection(1..n, I) BY <1>3 DEF ExistsBijection
  <2>. QED BY <2>1, FS_NatBijection, FS_CountingElements
<1>5. ASSUME NEW m \in 1..n PROVE Cardinality(Below(I, f[m])) = m - 1
  <2> DEFINE g == [l \in 1..(m - 1) |-> f[l]]
  <2>0. 1..(m - 1) \subseteq 1..n OBVIOUS
  <2>1. \A l \in 1..(m - 1) : f[l] \in I /\ f[l] < f[m] BY <1>1, <2>0
  <2>2. g \in [1..(m - 1) -> Below(I, f[m])] BY <2>1 DEF Below
  <2>3. \A j, l \in 1..(m - 1) : g[j] = g[l] => j = l BY <1>2, <2>0
  <2>4. ASSUME NEW i \in Below(I, f[m]) PROVE \E l \in 1..(m - 1) : g[l] = i
    <3>1. i \in I /\ i < f[m] /\ i \in Int /\ f[m] \in Int BY <1>1 DEF Below
    <3>2. PICK l \in 1..n : f[l] = i BY <1>1, <3>1
    <3>3. ~ m < l /\ l # m BY <1>1, <3>1, <3>2
    <3>. QED BY <3>2, <3>3
  <2>5. g \in Bijection(1..(m - 1), Below(I, f[m]))
    BY <2>2, <2>3, <2>4 DEF Bijection, Injection, Surjection, IsInjective
  <2>6. ExistsBijection(1..(m - 1), Below(I, f[m])) /\ m - 1 \in Nat
    BY <2>5 DEF ExistsBijection
  <2>. QED BY <2>6, FS_CountingElements
<1>6. ASSUME NEW m \in 1..n PROVE f[m] = Ascending(I)[m]
  <2>1. LET i == CHOOSE j \in I : Cardinality(Below(I, j)) = m - 1
        IN i \in I /\ Cardinality(Below(I, i)) = m - 1
    BY <1>1, <1>5
  <2>2. Ascending(I)[m] \in I /\ Cardinality(Below(I, Ascending(I)[m])) = m - 1
    BY <1>4, <2>1 DEF Ascending
  <2>3. /\ f[m] \in I /\ f[m] \in Int /\ Ascending(I)[m] \in Int
        /\ Cardinality(Below(I, f[m])) = m - 1
    BY <1>1, <1>5, <2>2
  <2>4. ~ f[m] < Ascending(I)[m] /\ ~ Ascending(I)[m] < f[m]
    BY <1>4, <2>2, <2>3, BelowGrows
  <2>. QED BY <2>3, <2>4
<1>7. Ascending(I) \in [1..n -> I]
  BY <1>4, AscendingEnumerates DEF Enumerations
<1>. QED BY <1>1, <1>4, <1>6, <1>7

(* Numbers from a on, without a gap, end where their count says.           *)
LEMMA InitialSegment ==
  ASSUME NEW a \in Int, NEW b \in Int, NEW T \in SUBSET (a..b),
         \A i \in T : a..i \subseteq T
  PROVE  Cardinality(T) \in Nat /\ T = a..(a + Cardinality(T) - 1)
<1> DEFINE n == Cardinality(T)
           f == Ascending(T)
<1>1. /\ n \in Nat /\ f \in [1..n -> T]
      /\ \A l, m \in 1..n : l < m => f[l] < f[m]
      /\ \A i \in T : \E m \in 1..n : f[m] = i
  <2>1. IsFiniteSet(T)
    <3>1. IsFiniteSet(a..b) BY FS_Interval
    <3>. QED BY <3>1, FS_Subset
  <2>2. T \in SUBSET Int
    <3>1. \A i \in T : i \in a..b OBVIOUS
    <3>. QED BY <3>1
  <2>. QED BY <2>1, <2>2, AscendingEnumerates DEF Enumerations
<1>2. CASE n = 0
  <2>1. T = {} BY <1>1, <1>2
  <2>2. a..(a + n - 1) = {} BY <1>2
  <2>. QED BY <1>2, <2>1, <2>2
<1>3. CASE n # 0
  <2> DEFINE m == f[n]
  <2>0. \A i \in T : i \in Int OBVIOUS
  <2> HIDE DEF f, n
  <2>1. n \in 1..n BY <1>1, <1>3
  <2>2. m \in T /\ m \in Int BY <1>1, <2>0, <2>1
  <2>3. ASSUME NEW i \in T PROVE i <= m
    <3>1. PICK l \in 1..n : f[l] = i BY <1>1
    <3>2. l = n \/ l < n BY <1>1
    <3>3. i \in Int BY <2>0
    <3>. QED BY <1>1, <2>1, <2>2, <3>1, <3>2, <3>3
  <2> HIDE DEF m
  <2>4. T = a..m
    <3>1. ASSUME NEW i \in T PROVE i \in a..m
      <4>1. i \in a..b OBVIOUS
      <4>. QED BY <2>2, <2>3, <4>1
    <3>2. a..m \subseteq T BY <2>2
    <3>. QED BY <3>1, <3>2
  <2>5. a <= m BY <2>2, <2>4
  <2>6. n = m - a + 1 BY <2>2, <2>4, <2>5, FS_Interval DEF n
  <2>7. m = a + n - 1 BY <2>2, <2>6
  <2>. QED BY <1>1, <2>4, <2>7 DEF n
<1>. QED BY <1>2, <1>3, <1>1

-----------------------------------------------------------------------------
(* Chosen keeps the items at the places it is given, and their order.      *)
LEMMA ChosenProperties ==
  ASSUME NEW S, NEW s \in Seq(S), NEW I \in SUBSET (1..Len(s))
  PROVE  /\ IsFiniteSet(I) /\ Cardinality(I) \in Nat
         /\ Ascending(I) \in Enumerations(Cardinality(I), I)
         /\ Chosen(s, I) \in Seq(S) /\ Len(Chosen(s, I)) = Cardinality(I)
         /\ \A n \in 1..Cardinality(I) : Chosen(s, I)[n] = s[Ascending(I)[n]]
<1>1. IsFiniteSet(1..Len(s)) BY FS_Interval
<1>2. IsFiniteSet(I) /\ I \in SUBSET Int
  <2>1. IsFiniteSet(I) BY <1>1, FS_Subset
  <2>2. I \in SUBSET Int OBVIOUS
  <2>. QED BY <2>1, <2>2
<1>3. Cardinality(I) \in Nat /\ Ascending(I) \in Enumerations(Cardinality(I), I)
  BY <1>2, AscendingEnumerates
<1>4. ASSUME NEW n \in 1..Cardinality(I) PROVE s[Ascending(I)[n]] \in S
  <2>1. Ascending(I)[n] \in 1..Len(s) BY <1>3 DEF Enumerations
  <2>. QED BY <2>1, ElementOfSeq
<1>5. Chosen(s, I) \in [1..Cardinality(I) -> S] BY <1>4 DEF Chosen
<1>6. \A n \in 1..Cardinality(I) : Chosen(s, I)[n] = s[Ascending(I)[n]]
  BY DEF Chosen
<1>. QED BY <1>2, <1>3, <1>5, <1>6

(* Whatever keeps these items in this order is Chosen.                     *)
LEMMA ChosenUnique ==
  ASSUME NEW S, NEW s \in Seq(S), NEW I \in SUBSET (1..Len(s)),
         NEW t \in Seq(S), NEW f \in Enumerations(Len(t), I),
         \A n \in 1..Len(t) : t[n] = s[f[n]]
  PROVE  t = Chosen(s, I) /\ Len(t) = Cardinality(I)
<1>1. Len(t) \in Nat /\ I \in SUBSET Int BY LenProperties
<1>2. Cardinality(I) = Len(t) /\ f = Ascending(I) BY <1>1, EnumerationIsAscending
<1>3. /\ Chosen(s, I) \in Seq(S) /\ Len(Chosen(s, I)) = Len(t)
      /\ \A n \in 1..Len(t) : Chosen(s, I)[n] = t[n]
  BY <1>2, ChosenProperties
<1>. QED BY <1>2, <1>3, SeqEqual

(* The items of a Chosen sequence.                                         *)
LEMMA ChosenItems ==
  ASSUME NEW S, NEW s \in Seq(S), NEW I \in SUBSET (1..Len(s))
  PROVE  /\ \A n \in 1..Len(Chosen(s, I)) : \E i \in I : Chosen(s, I)[n] = s[i]
         /\ \A i \in I : \E n \in 1..Len(Chosen(s, I)) : Chosen(s, I)[n] = s[i]
<1>1. /\ Len(Chosen(s, I)) = Cardinality(I)
      /\ Ascending(I) \in [1..Cardinality(I) -> I]
      /\ \A i \in I : \E n \in 1..Cardinality(I) : Ascending(I)[n] = i
      /\ \A n \in 1..Cardinality(I) : Chosen(s, I)[n] = s[Ascending(I)[n]]
  BY ChosenProperties DEF Enumerations
<1>2. \A n \in 1..Cardinality(I) : \E i \in I : Chosen(s, I)[n] = s[i]
  BY <1>1
<1>3. ASSUME NEW i \in I PROVE \E n \in 1..Cardinality(I) : Chosen(s, I)[n] = s[i]
  BY <1>1
<1>. QED BY <1>1, <1>2, <1>3

(* Places kept in two steps, I and then J, which are the places L.  The    *)
(* hypotheses have a name for the provers, which find it and then the      *)
(* values of the lemma's variables.                                        *)
InTwoSteps(s, I, J, L) ==
    /\ I \in SUBSET (1..Len(s)) /\ J \in SUBSET (1..Len(Chosen(s, I)))
    /\ L = {Ascending(I)[j] : j \in J}

LEMMA ChosenChosen ==
  ASSUME NEW S, NEW s \in Seq(S), NEW I, NEW J, NEW L, InTwoSteps(s, I, J, L)
  PROVE  Chosen(Chosen(s, I), J) = Chosen(s, L)
<1> SUFFICES ASSUME I \in SUBSET (1..Len(s)), J \in SUBSET (1..Len(Chosen(s, I)))
             PROVE  Chosen(Chosen(s, I), J) = Chosen(s, {Ascending(I)[j] : j \in J})
  BY Zenon DEF InTwoSteps
<1> DEFINE t == Chosen(s, I)
           f == Ascending(I)
           g == Ascending(J)
           K == {f[j] : j \in J}
           u == Chosen(t, J)
           h == [n \in 1..Len(u) |-> f[g[n]]]
<1>1. /\ t \in Seq(S) /\ Len(t) \in Nat /\ f \in [1..Len(t) -> I]
      /\ \A l, m \in 1..Len(t) : l < m => f[l] < f[m]
      /\ \A n \in 1..Len(t) : t[n] = s[f[n]]
  BY ChosenProperties DEF Enumerations
<1>2. /\ u \in Seq(S) /\ Len(u) \in Nat /\ g \in [1..Len(u) -> J]
      /\ \A l, m \in 1..Len(u) : l < m => g[l] < g[m]
      /\ \A j \in J : \E n \in 1..Len(u) : g[n] = j
      /\ \A n \in 1..Len(u) : u[n] = t[g[n]]
  <2> HIDE DEF t
  <2>. QED BY <1>1, ChosenProperties, SMTT(30) DEF Enumerations
<1> HIDE DEF t, u, f, g
<1>3. h \in [1..Len(u) -> K] BY <1>2
<1>4. ASSUME NEW l \in 1..Len(u), NEW m \in 1..Len(u), l < m PROVE h[l] < h[m]
  <2>1. g[l] < g[m] /\ g[l] \in 1..Len(t) /\ g[m] \in 1..Len(t) BY <1>2, <1>4 DEF t
  <2>. QED BY <1>1, <2>1
<1>5. ASSUME NEW k \in K PROVE \E n \in 1..Len(u) : h[n] = k
  <2>1. PICK j \in J : k = f[j] OBVIOUS
  <2>2. PICK n \in 1..Len(u) : g[n] = j BY <1>2
  <2>. QED BY <2>1, <2>2
<1>6. h \in Enumerations(Len(u), K) BY <1>3, <1>4, <1>5 DEF Enumerations
<1>7. \A n \in 1..Len(u) : u[n] = s[h[n]]
  <2>1. \A n \in 1..Len(u) : g[n] \in 1..Len(t) BY <1>2 DEF t
  <2>. QED BY <1>1, <1>2, <2>1
<1>8. K \in SUBSET (1..Len(s)) BY <1>1 DEF t
<1>9. u = Chosen(s, K)
  <2> HIDE DEF K, h
  <2>. QED BY <1>2, <1>6, <1>7, <1>8, ChosenUnique
<1>. QED BY <1>9 DEF u, t, f

(* The first place kept, i, and the others.                                *)
FirstAndRest(I, i, J, n) ==
    I \in SUBSET (1..n) /\ i \in I /\ (\A j \in I : i <= j) /\ J = I \ {i}

LEMMA ChosenTail ==
  ASSUME NEW S, NEW s \in Seq(S), NEW I, NEW i, NEW J, FirstAndRest(I, i, J, Len(s))
  PROVE  /\ Chosen(s, I) # <<>>
         /\ Head(Chosen(s, I)) = s[i]
         /\ Tail(Chosen(s, I)) = Chosen(s, J)
<1> SUFFICES ASSUME I \in SUBSET (1..Len(s)), i \in I, \A j \in I : i <= j
             PROVE  /\ Chosen(s, I) # <<>>
                    /\ Head(Chosen(s, I)) = s[i]
                    /\ Tail(Chosen(s, I)) = Chosen(s, I \ {i})
  BY Zenon DEF FirstAndRest
<1> DEFINE t == Chosen(s, I)
           f == Ascending(I)
           g == [n \in 1..(Len(t) - 1) |-> f[n + 1]]
<1>1. /\ t \in Seq(S) /\ Len(t) \in Nat /\ f \in [1..Len(t) -> I]
      /\ \A l, m \in 1..Len(t) : l < m => f[l] < f[m]
      /\ \A j \in I : \E n \in 1..Len(t) : f[n] = j
      /\ \A n \in 1..Len(t) : t[n] = s[f[n]]
  BY ChosenProperties DEF Enumerations
<1> HIDE DEF t, f
<1>2. 1 \in 1..Len(t) /\ f[1] = i
  <2>1. PICK n \in 1..Len(t) : f[n] = i BY <1>1
  <2>2. 1 \in 1..Len(t) /\ f[1] \in I BY <1>1, <2>1
  <2>5. \A j \in I : j \in Int OBVIOUS
  <2>6. f[1] \in Int /\ i \in Int BY <2>2, <2>5
  <2>3. 1 < n => f[1] < i BY <1>1, <2>1, <2>2
  <2>4. i <= f[1] BY <2>2
  <2>7. ~ 1 < n BY <2>3, <2>4, <2>6
  <2>. QED BY <1>1, <2>1, <2>2, <2>7
<1>3. t # <<>> /\ Head(t) = s[i] BY <1>1, <1>2
<1>4. /\ Tail(t) \in Seq(S) /\ Len(Tail(t)) = Len(t) - 1
      /\ \A n \in 1..(Len(t) - 1) : Tail(t)[n] = t[n + 1]
  BY <1>1, <1>3, HeadTailProperties
<1>5. ASSUME NEW n \in 1..(Len(t) - 1) PROVE f[n + 1] \in I \ {i}
  <2>1. n + 1 \in 1..Len(t) /\ 1 < n + 1 BY <1>1
  <2>2. f[1] < f[n + 1] /\ f[n + 1] \in I BY <1>1, <1>2, <2>1
  <2>3. i \in Int OBVIOUS
  <2>. QED BY <1>2, <2>2, <2>3
<1>6. ASSUME NEW j \in I \ {i} PROVE \E n \in 1..(Len(t) - 1) : g[n] = j
  <2>1. PICK n \in 1..Len(t) : f[n] = j BY <1>1
  <2>2. n # 1 /\ n - 1 \in 1..(Len(t) - 1) /\ (n - 1) + 1 = n BY <1>1, <1>2, <2>1
  <2>. QED BY <2>1, <2>2
<1>7. \A l, m \in 1..(Len(t) - 1) : l < m => g[l] < g[m]
  <2>1. ASSUME NEW l \in 1..(Len(t) - 1), NEW m \in 1..(Len(t) - 1), l < m
        PROVE  g[l] < g[m]
    <3>1. l + 1 \in 1..Len(t) /\ m + 1 \in 1..Len(t) /\ l + 1 < m + 1
      BY <1>1, <2>1
    <3>. QED BY <1>1, <3>1
  <2>. QED BY <2>1
<1>8. g \in Enumerations(Len(Tail(t)), I \ {i})
  BY <1>4, <1>5, <1>6, <1>7 DEF Enumerations
<1>9. \A n \in 1..Len(Tail(t)) : Tail(t)[n] = s[g[n]]
  <2>1. \A n \in 1..(Len(t) - 1) : n + 1 \in 1..Len(t) BY <1>1
  <2>. QED BY <1>1, <1>4, <2>1
<1>10. Tail(t) = Chosen(s, I \ {i})
  <2> HIDE DEF g
  <2>1. I \ {i} \in SUBSET (1..Len(s)) OBVIOUS
  <2>2. Tail(t) \in Seq(S) BY <1>4
  <2>. QED BY <1>8, <1>9, <2>1, <2>2, ChosenUnique
<1>. QED BY <1>3, <1>10 DEF t

(* Only the items at the places kept matter.                               *)
LEMMA ChosenSame ==
  ASSUME NEW S, NEW s \in Seq(S), NEW I \in SUBSET (1..Len(s)),
         NEW t, \A i \in I : t[i] = s[i]
  PROVE  Chosen(t, I) = Chosen(s, I)
<1>1. \A n \in 1..Cardinality(I) : Ascending(I)[n] \in I
  BY ChosenProperties DEF Enumerations
<1>. QED BY <1>1 DEF Chosen

(* Places kept in each of two sequences.  The lemmas cite Join and Add,    *)
(* since the provers expand \o and Append too soon to match them.          *)
Join(s, t) == s \o t
Add(s, x) == Append(s, x)

LEMMA ChosenJoin ==
  ASSUME NEW S, NEW s \in Seq(S), NEW t \in Seq(S),
         NEW I \in SUBSET (1..Len(s)), NEW J \in SUBSET (1..Len(t)),
         NEW L \in SUBSET (1..Len(s) + Len(t)),
         \A i \in 1..Len(s) : i \in L <=> i \in I,
         \A j \in 1..Len(t) : Len(s) + j \in L <=> j \in J
  PROVE  Chosen(Join(s, t), L) = Join(Chosen(s, I), Chosen(t, J))
<1> DEFINE K == I \cup {Len(s) + j : j \in J}
           a == Chosen(s, I)
           b == Chosen(t, J)
           f == Ascending(I)
           g == Ascending(J)
           h == [n \in 1..Len(a \o b) |-> IF n <= Len(a) THEN f[n]
                                          ELSE Len(s) + g[n - Len(a)]]
<1>1. /\ a \in Seq(S) /\ Len(a) \in Nat /\ f \in [1..Len(a) -> I]
      /\ \A l, m \in 1..Len(a) : l < m => f[l] < f[m]
      /\ \A i \in I : \E n \in 1..Len(a) : f[n] = i
      /\ \A n \in 1..Len(a) : a[n] = s[f[n]]
  BY ChosenProperties DEF Enumerations
<1>2. /\ b \in Seq(S) /\ Len(b) \in Nat /\ g \in [1..Len(b) -> J]
      /\ \A l, m \in 1..Len(b) : l < m => g[l] < g[m]
      /\ \A j \in J : \E n \in 1..Len(b) : g[n] = j
      /\ \A n \in 1..Len(b) : b[n] = t[g[n]]
  BY ChosenProperties DEF Enumerations
<1> HIDE DEF a, b, f, g
<1>3. /\ a \o b \in Seq(S) /\ Len(a \o b) = Len(a) + Len(b)
      /\ \A n \in 1..Len(a) + Len(b) :
            (a \o b)[n] = IF n <= Len(a) THEN a[n] ELSE b[n - Len(a)]
  BY <1>1, <1>2, ConcatProperties
<1>4. /\ s \o t \in Seq(S) /\ Len(s \o t) = Len(s) + Len(t)
      /\ \A n \in 1..Len(s) + Len(t) :
            (s \o t)[n] = IF n <= Len(s) THEN s[n] ELSE t[n - Len(s)]
      /\ Len(s) \in Nat /\ Len(t) \in Nat
  BY ConcatProperties, LenProperties
<1>5. \A n \in 1..Len(a) : f[n] \in I /\ f[n] \in 1..Len(s) BY <1>1
<1>6. \A n \in 1..Len(b) : g[n] \in J /\ g[n] \in 1..Len(t) BY <1>2
<1>7. ASSUME NEW n \in 1..Len(a \o b), n <= Len(a)
      PROVE  n \in 1..Len(a) /\ h[n] = f[n]
  BY <1>1, <1>2, <1>3, <1>7
<1>8. ASSUME NEW n \in 1..Len(a \o b), ~ n <= Len(a)
      PROVE  n - Len(a) \in 1..Len(b) /\ h[n] = Len(s) + g[n - Len(a)]
  BY <1>1, <1>2, <1>3, <1>8
<1>9. ASSUME NEW n \in 1..Len(a \o b)
      PROVE  h[n] \in K /\ h[n] \in 1..Len(s) + Len(t)
             /\ (a \o b)[n] = (s \o t)[h[n]]
  <2> HIDE DEF h
  <2>1. CASE n <= Len(a)
    <3>1. h[n] \in K /\ h[n] \in 1..Len(s) BY <1>5, <1>7, <2>1
    <3>2. h[n] \in 1..Len(s) + Len(t) /\ h[n] <= Len(s) BY <1>4, <3>1
    <3>3. (a \o b)[n] = a[n] BY <1>3, <2>1
    <3>. QED BY <1>1, <1>4, <1>7, <2>1, <3>1, <3>2, <3>3
  <2>2. CASE ~ n <= Len(a)
    <3> DEFINE m == n - Len(a)
    <3>1. m \in 1..Len(b) /\ h[n] = Len(s) + g[m] BY <1>8, <2>2
    <3> HIDE DEF m
    <3>2. g[m] \in J /\ g[m] \in 1..Len(t) /\ b[m] = t[g[m]] BY <1>2, <1>6, <3>1
    <3>3. h[n] \in K BY <3>1, <3>2
    <3>4. /\ h[n] \in 1..Len(s) + Len(t) /\ ~ h[n] <= Len(s)
          /\ h[n] - Len(s) = g[m]
      BY <1>4, <3>1, <3>2, SMTT(30)
    <3>5. (a \o b)[n] = b[m] BY <1>3, <2>2 DEF m
    <3>. QED BY <1>4, <3>2, <3>3, <3>4, <3>5
  <2>. QED BY <2>1, <2>2
<1>10. ASSUME NEW l \in 1..Len(a \o b), NEW m \in 1..Len(a \o b), l < m
       PROVE  h[l] < h[m]
  <2> HIDE DEF h
  <2>0. l \in Int /\ m \in Int /\ Len(a) \in Int BY <1>1
  <2>1. CASE m <= Len(a)
    <3>1. l <= Len(a) BY <1>10, <2>0, <2>1
    <3>. QED BY <1>1, <1>7, <1>10, <2>1, <3>1
  <2>2. CASE l <= Len(a) /\ ~ m <= Len(a)
    <3>1. /\ h[l] = f[l] /\ f[l] \in 1..Len(s)
          /\ h[m] = Len(s) + g[m - Len(a)] /\ g[m - Len(a)] \in 1..Len(t)
      BY <1>5, <1>6, <1>7, <1>8, <2>2
    <3>. QED BY <1>4, <3>1
  <2>3. CASE ~ l <= Len(a) /\ ~ m <= Len(a)
    <3>1. /\ l - Len(a) \in 1..Len(b) /\ h[l] = Len(s) + g[l - Len(a)]
          /\ m - Len(a) \in 1..Len(b) /\ h[m] = Len(s) + g[m - Len(a)]
      BY <1>8, <2>3
    <3>2. l - Len(a) < m - Len(a) BY <1>10, <2>0
    <3>3. /\ g[l - Len(a)] < g[m - Len(a)]
          /\ g[l - Len(a)] \in 1..Len(t) /\ g[m - Len(a)] \in 1..Len(t)
      BY <1>2, <1>6, <3>1, <3>2
    <3>. QED BY <1>4, <3>1, <3>3
  <2>. QED BY <1>10, <2>0, <2>1, <2>2, <2>3
<1>11. ASSUME NEW k \in K PROVE \E n \in 1..Len(a \o b) : h[n] = k
  <2>1. CASE k \in I
    <3>1. PICK n \in 1..Len(a) : f[n] = k BY <1>1, <2>1
    <3>2. n \in 1..Len(a \o b) /\ n <= Len(a) BY <1>1, <1>2, <1>3
    <3>. QED BY <3>1, <3>2
  <2>2. ASSUME NEW j \in J, k = Len(s) + j PROVE \E n \in 1..Len(a \o b) : h[n] = k
    <3>1. PICK n \in 1..Len(b) : g[n] = j BY <1>2
    <3>2. /\ n + Len(a) \in 1..Len(a \o b) /\ ~ n + Len(a) <= Len(a)
          /\ (n + Len(a)) - Len(a) = n
      BY <1>1, <1>2, <1>3
    <3>3. h[n + Len(a)] = k BY <2>2, <3>1, <3>2
    <3>. QED BY <3>2, <3>3
  <2>. QED BY <2>1, <2>2
<1>12. h \in Enumerations(Len(a \o b), K) BY <1>9, <1>10, <1>11 DEF Enumerations
<1>13. K \in SUBSET (1..Len(s \o t))
  <2>1. \A i \in I : i \in 1..Len(s) + Len(t)
    <3>1. \A i \in I : i \in 1..Len(s) OBVIOUS
    <3>. QED BY <1>4, <3>1
  <2>2. \A j \in J : Len(s) + j \in 1..Len(s) + Len(t)
    <3>1. \A j \in J : j \in 1..Len(t) OBVIOUS
    <3>. QED BY <1>4, <3>1
  <2>. QED BY <1>4, <2>1, <2>2
<1>14. a \o b = Chosen(s \o t, K)
  <2>1. \A n \in 1..Len(a \o b) : (a \o b)[n] = (s \o t)[h[n]] BY <1>9
  <2> HIDE DEF h, K
  <2>2. a \o b \in Seq(S) /\ s \o t \in Seq(S) BY <1>3, <1>4
  <2>. QED BY <1>12, <1>13, <2>1, <2>2, ChosenUnique
<1>15. K = L
  <2>1. ASSUME NEW k \in L PROVE k \in K
    <3>0. k \in 1..Len(s) + Len(t) BY <1>4
    <3>1. CASE k <= Len(s)
      <4>1. k \in 1..Len(s) BY <1>4, <3>0, <3>1
      <4>. QED BY <4>1
    <3>2. CASE ~ k <= Len(s)
      <4> DEFINE j == k - Len(s)
      <4>1. j \in 1..Len(t) /\ k = Len(s) + j BY <1>4, <3>0, <3>2
      <4> HIDE DEF j
      <4>2. j \in J BY <4>1
      <4>. QED BY <4>1, <4>2
    <3>. QED BY <3>1, <3>2
  <2>2. ASSUME NEW i \in I PROVE i \in L OBVIOUS
  <2>3. ASSUME NEW j \in J PROVE Len(s) + j \in L OBVIOUS
  <2>. QED BY <2>1, <2>2, <2>3
<1>. QED BY <1>14, <1>15 DEF a, b, Join

(* Nothing and everything kept.                                            *)
LEMMA ChosenNothing ==
  ASSUME NEW S, NEW s \in Seq(S)
  PROVE  Chosen(s, {}) = <<>>
<1>1. Chosen(s, {}) \in Seq(S) /\ Len(Chosen(s, {})) = Cardinality({})
  BY ChosenProperties
<1>2. Cardinality({}) = 0 BY FS_EmptySet
<1>. QED BY <1>1, <1>2, EmptySeq

LEMMA ChosenEverything ==
  ASSUME NEW S, NEW s \in Seq(S)
  PROVE  Chosen(s, 1..Len(s)) = s
<1> DEFINE f == [n \in 1..Len(s) |-> n]
<1>1. Len(s) \in Nat BY LenProperties
<1>2. f \in Enumerations(Len(s), 1..Len(s)) BY <1>1 DEF Enumerations
<1>3. \A n \in 1..Len(s) : s[n] = s[f[n]] OBVIOUS
<1> HIDE DEF f
<1>. QED BY <1>2, <1>3, ChosenUnique

(* One more item, kept or not.                                             *)
OneMore(I, L, n) ==
  /\ I \in SUBSET (1..n) /\ L \in SUBSET (1..n + 1)
  /\ \A i \in 1..n : i \in L <=> i \in I

LEMMA ChosenAppend ==
  ASSUME NEW S, NEW s \in Seq(S), NEW x \in S, NEW I, NEW L, OneMore(I, L, Len(s))
  PROVE  Chosen(Add(s, x), L) =
            IF Len(s) + 1 \in L THEN Add(Chosen(s, I), x) ELSE Chosen(s, I)
<1> DEFINE t == <<x>>
           J == IF Len(s) + 1 \in L THEN {1} ELSE {}
<1>1. /\ I \in SUBSET (1..Len(s)) /\ L \in SUBSET (1..Len(s) + 1)
      /\ \A i \in 1..Len(s) : i \in L <=> i \in I
  BY Zenon DEF OneMore
<1>2. /\ t \in Seq(S) /\ Len(t) = 1 /\ Append(s, x) = s \o t /\ Len(s) \in Nat
      /\ Chosen(s, I) \in Seq(S)
  BY <1>1, ChosenProperties
<1>3. Append(Chosen(s, I), x) = Chosen(s, I) \o t /\ Chosen(s, I) \o <<>> = Chosen(s, I)
  BY <1>2
<1> HIDE DEF t
<1>4. J \in SUBSET (1..Len(t)) /\ L \in SUBSET (1..Len(s) + Len(t)) BY <1>1, <1>2
<1>5. ASSUME NEW j \in 1..Len(t) PROVE Len(s) + j \in L <=> j \in J
  <2>1. j = 1 BY <1>2
  <2>. QED BY <2>1
<1> HIDE DEF J
<1>6. Chosen(Join(s, t), L) = Join(Chosen(s, I), Chosen(t, J))
  BY <1>1, <1>2, <1>4, <1>5, ChosenJoin, SMTT(60)
<1>7. CASE Len(s) + 1 \in L
  <2>1. J = 1..Len(t) BY <1>2, <1>7 DEF J
  <2>2. Chosen(t, J) = t BY <1>2, <2>1, ChosenEverything
  <2>. QED BY <1>2, <1>3, <1>6, <1>7, <2>2 DEF Add, Join
<1>8. CASE Len(s) + 1 \notin L
  <2>1. J = {} BY <1>8 DEF J
  <2>2. Chosen(t, J) = <<>> BY <1>2, <2>1, ChosenNothing
  <2>. QED BY <1>2, <1>3, <1>6, <1>8, <2>2 DEF Add, Join
<1>. QED BY <1>7, <1>8

-----------------------------------------------------------------------------
(* Queues without duplicates: q lists the set S, each element once.        *)

Lists(q, S) ==
    /\ \A i \in DOMAIN q : q[i] \in S
    /\ \A i, k \in DOMAIN q : i # k => q[i] # q[k]
    /\ \A x \in S : \E i \in DOMAIN q : q[i] = x

(* A new element put behind the others.                                    *)
LEMMA ListsAppend ==
  ASSUME NEW T, NEW q \in Seq(T), NEW S, Lists(q, S), NEW x \in T, x \notin S
  PROVE  Lists(Append(q, x), S \cup {x})
<1>1. /\ Len(q) \in Nat /\ Len(Append(q, x)) = Len(q) + 1
      /\ DOMAIN q = 1 .. Len(q) /\ DOMAIN Append(q, x) = 1 .. Len(q) + 1
      /\ \A i \in 1 .. Len(q) : Append(q, x)[i] = q[i]
      /\ Append(q, x)[Len(q) + 1] = x
  BY AppendProperties
<1>2. ASSUME NEW i \in 1 .. Len(q) + 1 PROVE i \in 1 .. Len(q) \/ i = Len(q) + 1
  BY <1>1
<1>3. Len(q) + 1 \in 1 .. Len(q) + 1 /\ 1 .. Len(q) \subseteq 1 .. Len(q) + 1
  BY <1>1
<1> DEFINE n == Len(q) + 1
           D == 1 .. Len(q)
           E == 1 .. Len(q) + 1
           r == Append(q, x)
<1>4. /\ DOMAIN q = D /\ DOMAIN r = E /\ n \in E /\ D \subseteq E
      /\ \A i \in E : i \in D \/ i = n
      /\ \A i \in D : r[i] = q[i]
      /\ r[n] = x
  BY <1>1, <1>2, <1>3
<1> HIDE DEF n, D, E, r
<1>5. /\ \A i \in D : q[i] \in S
      /\ \A i, k \in D : i # k => q[i] # q[k]
      /\ \A y \in S : \E i \in D : q[i] = y
  BY <1>4 DEF Lists
<1>6. \A i \in E : r[i] \in S \cup {x} BY <1>4, <1>5
<1>7. \A i, k \in E : i # k => r[i] # r[k] BY <1>4, <1>5
<1>8. \A y \in S \cup {x} : \E i \in E : r[i] = y BY <1>4, <1>5
<1>9. Lists(r, S \cup {x}) BY <1>4, <1>6, <1>7, <1>8 DEF Lists
<1>. QED BY <1>9 DEF r

(* The first one taken.                                                    *)
LEMMA ListsTail ==
  ASSUME NEW T, NEW q \in Seq(T), NEW S, Lists(q, S), q # <<>>
  PROVE  Head(q) \in S /\ Lists(Tail(q), S \ {Head(q)})
<1>1. /\ Len(q) \in Nat /\ Len(q) # 0
      /\ DOMAIN q = 1 .. Len(q) /\ Head(q) = q[1]
      /\ DOMAIN Tail(q) = 1 .. Len(q) - 1
      /\ \A i \in 1 .. Len(q) - 1 : Tail(q)[i] = q[i + 1]
  BY EmptySeq, HeadTailProperties
<1>2. \A i \in 1 .. Len(q) : i = 1 \/ \E k \in 1 .. Len(q) - 1 : i = k + 1
  <2>1. ASSUME NEW i \in 1 .. Len(q), i # 1
        PROVE  i - 1 \in 1 .. Len(q) - 1 /\ i = (i - 1) + 1
    BY <1>1, <2>1
  <2>. QED BY <2>1
<1>3. \A i \in 1 .. Len(q) - 1 : i + 1 \in 1 .. Len(q) /\ i + 1 # 1
  BY <1>1
<1>4. \A i, k \in 1 .. Len(q) - 1 : i # k => i + 1 # k + 1 BY <1>1
<1>5. 1 \in 1 .. Len(q) BY <1>1
<1> DEFINE D == 1 .. Len(q)
           E == 1 .. Len(q) - 1
           r == Tail(q)
           up(i) == i + 1
<1>6. /\ DOMAIN q = D /\ DOMAIN r = E /\ 1 \in D
      /\ \A i \in D : i = 1 \/ \E k \in E : i = up(k)
      /\ \A i \in E : up(i) \in D /\ up(i) # 1 /\ r[i] = q[up(i)]
      /\ \A i, k \in E : i # k => up(i) # up(k)
  BY <1>1, <1>2, <1>3, <1>4, <1>5
<1> HIDE DEF D, E, r, up
<1>7. /\ \A i \in D : q[i] \in S
      /\ \A i, k \in D : i # k => q[i] # q[k]
      /\ \A y \in S : \E i \in D : q[i] = y
  BY <1>6 DEF Lists
<1>8. \A i \in E : r[i] \in S \ {q[1]} BY <1>6, <1>7
<1>9. \A i, k \in E : i # k => r[i] # r[k] BY <1>6, <1>7
<1>10. \A y \in S \ {q[1]} : \E i \in E : r[i] = y
  <2>1. ASSUME NEW y \in S \ {q[1]} PROVE \E i \in E : r[i] = y
    <3>1. PICK i \in D : q[i] = y BY <1>7
    <3>2. PICK k \in E : i = up(k) BY <1>6, <2>1, <3>1
    <3>. QED BY <1>6, <3>1, <3>2
  <2>. QED BY <2>1
<1>11. Lists(r, S \ {q[1]}) BY <1>6, <1>8, <1>9, <1>10 DEF Lists
<1>. QED BY <1>1, <1>6, <1>7, <1>11 DEF r

(* As many places as elements: none comes twice.                           *)
LEMMA ListsAll ==
  ASSUME NEW S, IsFiniteSet(S), NEW q \in [1..Cardinality(S) -> S],
         \A x \in S : \E i \in DOMAIN q : q[i] = x
  PROVE  Lists(q, S)
<1> DEFINE n == Cardinality(S)
<1>1. n \in Nat BY FS_CardinalityType
<1>2. IsFiniteSet(1..n) /\ Cardinality(1..n) = n
  BY <1>1, FS_Interval
<1>3. q \in Surjection(1..n, S)
  BY DEF Surjection
<1>4. q \in Injection(1..n, S)
  BY <1>2, <1>3, FS_SurjSameCardinalityImpliesInj
<1>5. \A i, k \in 1..n : i # k => q[i] # q[k]
  BY <1>4 DEF Injection, IsInjective
<1>. QED BY <1>5 DEF Lists

(* In such a queue an element has one place, or none.                      *)
LEMMA ListsPlaces ==
  ASSUME NEW q, NEW S, Lists(q, S), NEW x
  PROVE  LET P == {i \in DOMAIN q : q[i] = x} IN
         Cardinality(P) = IF x \in S THEN 1 ELSE 0
<1> DEFINE P == {i \in DOMAIN q : q[i] = x}
<1>1. CASE x \in S
  <2>1. PICK i \in DOMAIN q : q[i] = x BY <1>1 DEF Lists
  <2>2. P = {i} BY <2>1 DEF Lists
  <2>. QED BY <1>1, <2>2, FS_Singleton
<1>2. CASE x \notin S
  <2>1. P = {} BY <1>2 DEF Lists
  <2>. QED BY <1>2, <2>1, FS_EmptySet
<1>. QED BY <1>1, <1>2

-----------------------------------------------------------------------------
(* Least elements, and functions that are defined by recursion.            *)

(* Every nonempty set of natural numbers has a smallest element.           *)
LEMMA Smallest ==
  ASSUME NEW T \in SUBSET Nat, T # {}
  PROVE  \E k \in T : \A j \in T : k <= j
<1>1. IsWellFoundedOn(OpToRel(<, Nat), Nat) BY NatLessThanWellFounded
<1>2. PICK k \in T : \A j \in T : ~ (<<j, k>> \in OpToRel(<, Nat))
  BY <1>1, WFMin
<1>3. ASSUME NEW j \in T PROVE k <= j
  <2>1. <<j, k>> \notin OpToRel(<, Nat) BY <1>2
  <2>2. j \in Nat /\ k \in Nat OBVIOUS
  <2>3. ~ j < k BY <2>1, <2>2 DEF OpToRel
  <2>. QED BY <2>2, <2>3
<1>. QED BY <1>3

(* What holds of an element when it holds of all of lower rank holds of all.*)
Inherits(D, rank, B) ==
    \A d \in D : (\A e \in D : rank[e] < rank[d] => e \in B) => d \in B

LEMMA RankInduction ==
  ASSUME NEW D, NEW rank \in [D -> Nat], NEW B, Inherits(D, rank, B)
  PROVE  D \subseteq B
<1> DEFINE T == {rank[d] : d \in D \ B}
<1>1. T \in SUBSET Nat OBVIOUS
<1>2. ASSUME T # {} PROVE FALSE
  <2>1. PICK k \in T : \A j \in T : k <= j BY <1>1, <1>2, Smallest
  <2>2. PICK d \in D \ B : rank[d] = k BY <2>1
  <2>3. ASSUME NEW e \in D, rank[e] < rank[d], e \notin B PROVE FALSE
    <3>1. rank[e] \in T BY <2>3
    <3>2. rank[e] \in Nat /\ k \in Nat /\ rank[e] < k BY <1>1, <2>1, <2>2, <2>3
    <3>3. k <= rank[e] BY <2>1, <3>1
    <3>. QED BY <3>2, <3>3
  <2>. QED BY <2>2, <2>3 DEF Inherits
<1>. QED BY <1>2

(* A function on D whose value at d is computed from its values at elements*)
(* of lower rank: F says how, V what values there may be.                  *)
Candidates(D, V) == {g \in [D -> UNION {V[d] : d \in D}] : \A d \in D : g[d] \in V[d]}

Recursion(D, V, rank, F) ==
    /\ rank \in [D -> Nat]
    /\ \A d \in D : V[d] # {}
    /\ F \in [Candidates(D, V) -> Candidates(D, V)]
    /\ \A g, h \in Candidates(D, V), d \in D :
          (\A e \in D : rank[e] < rank[d] => g[e] = h[e]) => F[g][d] = F[h][d]

LEMMA RecursionAgrees ==
  ASSUME NEW D, NEW V, NEW rank, NEW F, Recursion(D, V, rank, F),
         NEW g \in Candidates(D, V), NEW h \in Candidates(D, V), NEW k \in Nat,
         \A d \in D : rank[d] < k => g[d] = F[g][d] /\ h[d] = F[h][d]
  PROVE  \A d \in D : rank[d] < k => g[d] = h[d]
<1> DEFINE T == {rank[d] : d \in {e \in D : rank[e] < k /\ g[e] # h[e]}}
<1>1. T \in SUBSET Nat BY DEF Recursion
<1>2. CASE T = {} BY <1>2
<1>3. CASE T # {}
  <2>1. PICK m \in T : \A j \in T : m <= j BY <1>1, <1>3, Smallest
  <2>2. PICK d \in D : rank[d] = m /\ m < k /\ g[d] # h[d] BY <2>1
  <2>3. ASSUME NEW e \in D, rank[e] < rank[d] PROVE g[e] = h[e]
    <3>1. rank[e] \in Nat /\ m \in Nat BY <1>1, <2>1 DEF Recursion
    <3>2. rank[e] \notin T BY <2>1, <2>2, <2>3, <3>1
    <3>. QED BY <2>2, <2>3, <3>1, <3>2
  <2>4. F[g][d] = F[h][d] BY <2>3 DEF Recursion
  <2>. QED BY <2>2, <2>4
<1>. QED BY <1>2, <1>3

LEMMA RecursionUpTo ==
  ASSUME NEW D, NEW V, NEW rank, NEW F, Recursion(D, V, rank, F), NEW n \in Nat
  PROVE  \E g \in Candidates(D, V) : \A d \in D : rank[d] < n => g[d] = F[g][d]
<1> DEFINE Upto(k) == \E g \in Candidates(D, V) : \A d \in D : rank[d] < k => g[d] = F[g][d]
           T == {k \in Nat : ~ Upto(k)}
<1>1. Upto(0)
  <2> DEFINE g == [d \in D |-> CHOOSE v : v \in V[d]]
  <2>1. \A d \in D : g[d] \in V[d] BY DEF Recursion
  <2>2. g \in Candidates(D, V) BY <2>1 DEF Candidates
  <2>3. \A d \in D : ~ rank[d] < 0 BY DEF Recursion
  <2>. QED BY <2>2, <2>3
<1>2. ASSUME NEW k \in Nat, Upto(k) PROVE Upto(k + 1)
  <2>1. PICK g \in Candidates(D, V) : \A d \in D : rank[d] < k => g[d] = F[g][d] BY <1>2
  <2>2. F[g] \in Candidates(D, V) BY DEF Recursion
  <2>3. ASSUME NEW d \in D, rank[d] < k + 1 PROVE F[g][d] = F[F[g]][d]
    <3>1. ASSUME NEW e \in D, rank[e] < rank[d] PROVE g[e] = F[g][e]
      <4>1. rank[e] \in Nat /\ rank[d] \in Nat BY DEF Recursion
      <4>2. rank[e] < k BY <2>3, <3>1, <4>1
      <4>. QED BY <2>1, <4>2
    <3>. QED BY <2>2, <3>1 DEF Recursion
  <2>. QED BY <2>2, <2>3
<1> HIDE DEF Upto
<1>3. ASSUME T = {} PROVE Upto(n) BY <1>3
<1>4. ASSUME T # {} PROVE FALSE
  <2>1. PICK m \in T : \A j \in T : m <= j BY <1>4, Smallest
  <2>2. m \in Nat /\ ~ Upto(m) /\ m # 0 BY <1>1, <2>1
  <2>3. m - 1 \in Nat /\ ~ m <= m - 1 BY <2>2
  <2>4. Upto(m - 1) BY <2>1, <2>3
  <2>5. Upto((m - 1) + 1) BY <1>2, <2>3, <2>4
  <2>6. (m - 1) + 1 = m BY <2>2
  <2>. QED BY <2>2, <2>5, <2>6
<1>5. Upto(n) BY <1>3, <1>4
<1>. QED BY <1>5 DEF Upto

LEMMA RecursionHasFunction ==
  ASSUME NEW D, NEW V, NEW rank, NEW F, Recursion(D, V, rank, F)
  PROVE  \E f \in Candidates(D, V) : f = F[f]
<1> DEFINE Good(g, k) == g \in Candidates(D, V)
                         /\ \A d \in D : rank[d] < k => g[d] = F[g][d]
           pick == [k \in Nat |-> CHOOSE g : Good(g, k)]
           f == [d \in D |-> pick[rank[d] + 1][d]]
<1>1. ASSUME NEW k \in Nat PROVE Good(pick[k], k)
  <2>1. \E g : Good(g, k) BY RecursionUpTo
  <2>. QED BY <2>1
<1>2. \A d \in D : rank[d] \in Nat /\ rank[d] + 1 \in Nat /\ rank[d] < rank[d] + 1
  BY DEF Recursion
<1> HIDE DEF pick
<1>3. ASSUME NEW d \in D PROVE f[d] \in V[d] BY <1>1, <1>2 DEF Candidates
<1>4. f \in Candidates(D, V) BY <1>3 DEF Candidates
<1>5. ASSUME NEW d \in D PROVE f[d] = F[f][d]
  <2> DEFINE g == pick[rank[d] + 1]
  <2>1. Good(g, rank[d] + 1) BY <1>1, <1>2
  <2>2. ASSUME NEW e \in D, rank[e] < rank[d] PROVE g[e] = f[e]
    <3> DEFINE h == pick[rank[e] + 1]
    <3>1. Good(h, rank[e] + 1) BY <1>1, <1>2
    <3>2. \A x \in D : rank[x] < rank[e] + 1 => rank[x] < rank[d] + 1
      BY <1>2, <2>2
    <3>3. \A x \in D : rank[x] < rank[e] + 1 => g[x] = F[g][x] /\ h[x] = F[h][x]
      BY <2>1, <3>1, <3>2
    <3>4. g \in Candidates(D, V) /\ h \in Candidates(D, V) /\ rank[e] + 1 \in Nat
      BY <1>2, <2>1, <3>1
    <3> HIDE DEF g, h
    <3>5. \A x \in D : rank[x] < rank[e] + 1 => g[x] = h[x]
      BY <3>3, <3>4, RecursionAgrees
    <3>6. g[e] = h[e] BY <1>2, <3>5
    <3>. QED BY <3>6 DEF h
  <2>3. g \in Candidates(D, V) BY <2>1
  <2>4. F[g][d] = F[f][d] 
    <3> HIDE DEF g, f
    <3>. QED BY <1>4, <2>2, <2>3 DEF Recursion
  <2>5. f[d] = g[d] /\ g[d] = F[g][d] BY <1>2, <2>1
  <2>. QED BY <2>4, <2>5
<1>6. F[f] \in Candidates(D, V) BY <1>4 DEF Recursion
<1> HIDE DEF f
<1>7. f = [d \in D |-> f[d]] /\ F[f] = [d \in D |-> F[f][d]]
  BY <1>4, <1>6 DEF Candidates
<1>8. f = F[f] BY <1>5, <1>7
<1>. QED BY <1>4, <1>8

-----------------------------------------------------------------------------
(* Orders.                                                                 *)
Precedes(S, R, x) == {y \in S : <<y, x>> \in R}
StrictOrder(S, R) ==
    /\ \A x \in S : <<x, x>> \notin R
    /\ \A x, y, z \in S : <<x, y>> \in R /\ <<y, z>> \in R => <<x, z>> \in R
    /\ \A x, y \in S : x = y \/ <<x, y>> \in R \/ <<y, x>> \in R

(* The elements of a finite set by the number of those before them.        *)
Enumerates(f, n, S, R) ==
    /\ \A i, j \in 1..n : i < j => <<f[i], f[j]>> \in R
    /\ \A x \in S : \E i \in 1..n : f[i] = x

LEMMA RankEnumerates ==
  ASSUME NEW S, IsFiniteSet(S), NEW R, StrictOrder(S, R), NEW n, n = Cardinality(S)
  PROVE  /\ \A m \in 1..n : \E x \in S : Cardinality(Precedes(S, R, x)) = m - 1
         /\ \A f \in [1..n -> S] :
               (\A m \in 1..n : Cardinality(Precedes(S, R, f[m])) = m - 1) =>
                  Enumerates(f, n, S, R)
<1> DEFINE before(x) == Precedes(S, R, x)
           rank == [x \in S |-> Cardinality(before(x)) + 1]
<1>1. n \in Nat BY FS_CardinalityType
<1>2. ASSUME NEW T, NEW U, IsFiniteSet(U), T \subseteq U, NEW y \in U, y \notin T
      PROVE  /\ Cardinality(T) \in Nat /\ Cardinality(U) \in Nat
             /\ Cardinality(T) < Cardinality(U)
  <2>1. IsFiniteSet(T) /\ Cardinality(T) <= Cardinality(U) /\ Cardinality(T) # Cardinality(U)
    BY <1>2, FS_Subset
  <2>2. Cardinality(T) \in Nat /\ Cardinality(U) \in Nat
    BY <1>2, <2>1, FS_CardinalityType
  <2>. QED BY <2>1, <2>2
<1>3. \A x \in S : before(x) \subseteq S /\ x \notin before(x)
  BY DEF StrictOrder, Precedes
<1>4. \A x \in S : Cardinality(before(x)) \in Nat /\ Cardinality(before(x)) < n
  <2> HIDE DEF before
  <2>. QED BY <1>2, <1>3
<1>5. \A x, y \in S : <<x, y>> \in R => Cardinality(before(x)) < Cardinality(before(y))
  <2> SUFFICES ASSUME NEW x \in S, NEW y \in S, <<x, y>> \in R
               PROVE  Cardinality(before(x)) < Cardinality(before(y))
    OBVIOUS
  <2>1. before(x) \subseteq before(y) BY DEF StrictOrder, Precedes
  <2>2. x \in before(y) BY DEF Precedes
  <2>3. IsFiniteSet(before(y)) BY <1>3, FS_Subset
  <2> HIDE DEF before
  <2>. QED BY <1>2, <1>3, <2>1, <2>2, <2>3
<1> HIDE DEF before
<1>6. rank \in [S -> 1..n] /\ \A x, y \in S : <<x, y>> \in R => rank[x] < rank[y]
  BY <1>1, <1>4, <1>5
<1>7. \A x, y \in S : rank[x] = rank[y] => x = y
  <2> HIDE DEF rank
  <2>1. \A x \in S : rank[x] \in Int BY <1>1, <1>6
  <2>2. ASSUME NEW x \in S, NEW y \in S, rank[x] = rank[y] PROVE x = y
    <3>1. ~ rank[x] < rank[y] /\ ~ rank[y] < rank[x] BY <2>1, <2>2
    <3>2. <<x, y>> \notin R /\ <<y, x>> \notin R BY <1>6, <3>1
    <3>. QED BY <3>2 DEF StrictOrder
  <2>. QED BY <2>2
<1>8. rank \in Injection(S, 1..n) BY <1>6, <1>7 DEF Injection, IsInjective
<1>9. IsFiniteSet(1..n) /\ Cardinality(1..n) = n BY <1>1, FS_Interval
<1>10. rank \in Surjection(S, 1..n) BY <1>1, <1>8, <1>9, FS_Injection
<1>11. ASSUME NEW m \in 1..n PROVE \E x \in S : Cardinality(before(x)) = m - 1
  <2>1. m \in Int BY <1>1
  <2>2. PICK x \in S : rank[x] = m BY <1>10, Fun_IsSurj DEF Surjection
  <2>3. Cardinality(before(x)) = m - 1 BY <1>4, <2>1, <2>2
  <2>. QED BY <2>3
<1>12. ASSUME NEW f \in [1..n -> S], \A m \in 1..n : Cardinality(before(f[m])) = m - 1
       PROVE  /\ \A i, j \in 1..n : i < j => <<f[i], f[j]>> \in R
              /\ \A x \in S : \E i \in 1..n : f[i] = x
  <2>1. ASSUME NEW m \in 1..n PROVE f[m] \in S /\ rank[f[m]] = m
    <3>1. m \in Int /\ f[m] \in S /\ Cardinality(before(f[m])) = m - 1 BY <1>1, <1>12
    <3>. QED BY <1>4, <3>1
  <2> HIDE DEF rank
  <2>2. ASSUME NEW i \in 1..n, NEW j \in 1..n, i < j PROVE <<f[i], f[j]>> \in R
    <3>1. f[i] \in S /\ f[j] \in S /\ rank[f[i]] = i /\ rank[f[j]] = j BY <2>1
    <3>2. ~ j < i /\ i # j BY <1>1, <2>2
    <3>3. f[i] # f[j] /\ <<f[j], f[i]>> \notin R BY <1>6, <3>1, <3>2
    <3>. QED BY <3>1, <3>3 DEF StrictOrder
  <2>3. ASSUME NEW x \in S PROVE \E i \in 1..n : f[i] = x
    <3>1. rank[x] \in 1..n BY <1>6
    <3>2. f[rank[x]] \in S /\ rank[f[rank[x]]] = rank[x] BY <2>1, <3>1
    <3>. QED BY <1>7, <3>1, <3>2
  <2>. QED BY <2>2, <2>3
<1>. QED BY <1>11, <1>12 DEF before, Enumerates

-----------------------------------------------------------------------------
(* Sequences from their end.                                               *)
LEMMA FrontLast ==
  ASSUME NEW C, NEW s \in Seq(C), s # <<>>
  PROVE  /\ Front(s) \in Seq(C) /\ Last(s) \in C /\ s = Append(Front(s), Last(s))
         /\ Len(Front(s)) = Len(s) - 1 /\ Len(s) \in Nat \ {0}
<1>1. Len(s) \in Nat /\ Len(s) # 0 /\ 1 <= Len(s) BY EmptySeq
<1>2. Last(s) \in C BY <1>1, ElementOfSeq DEF Last
<1>3. \A i \in 1..(Len(s) - 1) : s[i] \in C BY <1>1, ElementOfSeq
<1>4. /\ Front(s) \in Seq(C) /\ Len(Front(s)) = Len(s) - 1
      /\ \A i \in 1..(Len(s) - 1) : Front(s)[i] = s[i]
  <2> DEFINE f == SubSeq(s, 1, Len(s) - 1)
  <2>1. 1 \in Int /\ Len(s) - 1 \in Int BY <1>1
  <2>2. /\ f \in Seq(C)
        /\ Len(f) = IF 1 <= Len(s) - 1 THEN (Len(s) - 1) - 1 + 1 ELSE 0
        /\ \A i \in 1..((Len(s) - 1) - 1 + 1) : f[i] = s[1 + i - 1]
    BY <1>3, <2>1, SubSeqProperties
  <2>3. f = Front(s) BY DEF Front
  <2> HIDE DEF f
  <2>4. Len(f) = Len(s) - 1
    <3>1. CASE Len(s) = 1 BY <2>2, <3>1
    <3>2. CASE Len(s) # 1
      <4>1. \A n \in Nat : n # 0 /\ n # 1 => 1 <= n - 1 /\ (n - 1) - 1 + 1 = n - 1 OBVIOUS
      <4>2. 1 <= Len(s) - 1 /\ (Len(s) - 1) - 1 + 1 = Len(s) - 1 BY <1>1, <3>2, <4>1
      <4>. QED BY <2>2, <4>2
    <3>. QED BY <3>1, <3>2
  <2>5. \A i \in 1..(Len(s) - 1) : f[i] = s[i]
    <3>1. \A i \in 1..(Len(s) - 1) : i \in 1..((Len(s) - 1) - 1 + 1) /\ 1 + i - 1 = i BY <1>1
    <3>. QED BY <2>2, <3>1
  <2>. QED BY <2>2, <2>3, <2>4, <2>5
<1> DEFINE a == Append(Front(s), Last(s))
<1>5. /\ a \in Seq(C) /\ Len(a) = Len(Front(s)) + 1
      /\ \A i \in 1..Len(Front(s)) : a[i] = Front(s)[i]
      /\ a[Len(Front(s)) + 1] = Last(s)
  BY <1>2, <1>4, AppendProperties
<1> HIDE DEF a
<1>6. Len(a) = Len(s) BY <1>1, <1>4, <1>5
<1>7. ASSUME NEW i \in 1..Len(s) PROVE s[i] = a[i]
  <2>1. CASE i = Len(s) BY <1>1, <1>4, <1>5, <2>1 DEF Last
  <2>2. CASE i \in 1..(Len(s) - 1) BY <1>4, <1>5, <2>2
  <2>. QED BY <1>1, <2>1, <2>2
<1>8. s = a BY <1>5, <1>6, <1>7, SeqEqual
<1>. QED BY <1>1, <1>2, <1>4, <1>8 DEF a

-----------------------------------------------------------------------------
(* Folds.                                                                  *)

(* What holds of 0, and of i when it holds of i - 1, holds up to n.        *)
LEMMA CountingUp ==
  ASSUME NEW n \in Nat, NEW B, 0 \in B, \A i \in 1..n : i - 1 \in B => i \in B
  PROVE  \A i \in 0..n : i \in B
<1> DEFINE T == {i \in 0..n : i \notin B}
<1>1. ASSUME T # {} PROVE FALSE
  <2>1. T \in SUBSET Nat OBVIOUS
  <2>2. PICK k \in T : \A j \in T : k <= j BY <1>1, <2>1, Smallest
  <2>3. k \in Nat /\ k # 0 /\ k <= n /\ k \notin B BY <2>1, <2>2
  <2>4. k \in 1..n /\ k - 1 \in 0..n /\ ~ k <= k - 1 BY <2>3
  <2>5. k - 1 \in B BY <2>2, <2>4
  <2>. QED BY <2>3, <2>4, <2>5
<1>. QED BY <1>1

(* A fold over the subsets of I, of which z is left by choice[z].          *)
Folding(I, choice, V, base, G) ==
    /\ IsFiniteSet(I) /\ base \in V /\ G \in [V \X I -> V]
    /\ \A z \in SUBSET I : z # {} => choice[z] \in z

FoldStep(f, z, choice, base, G) ==
    IF z = {} THEN base ELSE G[<<f[z \ {choice[z]}], choice[z]>>]

IsFold(h, I, choice, base, G) ==
    h = [z \in SUBSET I |-> FoldStep(h, z, choice, base, G)]

LEMMA FoldHasFunction ==
  ASSUME NEW I, NEW choice, NEW V, NEW base, NEW G, Folding(I, choice, V, base, G)
  PROVE  \E h \in [SUBSET I -> V] : IsFold(h, I, choice, base, G)
<1> DEFINE D == SUBSET I
           W == [z \in D |-> V]
           rank == [z \in D |-> Cardinality(z)]
           F == [g \in [D -> V] |-> [z \in D |-> FoldStep(g, z, choice, base, G)]]
<1>1. Candidates(D, W) = [D -> V]
  <2>1. UNION {W[z] : z \in D} = V
    <3>1. {} \in D OBVIOUS
    <3>. QED BY <3>1
  <2>. QED BY <2>1 DEF Candidates
<1>2. ASSUME NEW z \in D, z # {}
      PROVE  /\ choice[z] \in I /\ z \ {choice[z]} \in D
             /\ Cardinality(z \ {choice[z]}) < Cardinality(z)
  <2>1. choice[z] \in z BY <1>2 DEF Folding
  <2>2. IsFiniteSet(z) BY FS_Subset DEF Folding
  <2>3. Cardinality(z \ {choice[z]}) = Cardinality(z) - 1 BY <2>1, <2>2, FS_RemoveElement
  <2>4. Cardinality(z) \in Nat BY <2>2, FS_CardinalityType
  <2>. QED BY <2>1, <2>3, <2>4
<1>3. \A g \in [D -> V], z \in D : FoldStep(g, z, choice, base, G) \in V
  <2> SUFFICES ASSUME NEW g \in [D -> V], NEW z \in D
               PROVE  FoldStep(g, z, choice, base, G) \in V
    OBVIOUS
  <2>1. CASE z = {} BY <2>1 DEF FoldStep, Folding
  <2>2. CASE z # {}
    <3>1. <<g[z \ {choice[z]}], choice[z]>> \in V \X I BY <1>2, <2>2
    <3>. QED BY <2>2, <3>1 DEF FoldStep, Folding
  <2>. QED BY <2>1, <2>2
<1>4. F \in [[D -> V] -> [D -> V]] BY <1>3
<1>5. rank \in [D -> Nat]
  <2>1. \A z \in D : Cardinality(z) \in Nat BY FS_Subset, FS_CardinalityType DEF Folding
  <2>. QED BY <2>1
<1>6. \A z \in D : W[z] # {} BY DEF Folding
<1>7. ASSUME NEW g \in [D -> V], NEW h \in [D -> V], NEW z \in D,
             \A e \in D : rank[e] < rank[z] => g[e] = h[e]
      PROVE  F[g][z] = F[h][z]
  <2>1. F[g][z] = FoldStep(g, z, choice, base, G) /\ F[h][z] = FoldStep(h, z, choice, base, G)
    OBVIOUS
  <2> HIDE DEF F
  <2>2. CASE z = {} BY <2>1, <2>2 DEF FoldStep
  <2>3. CASE z # {}
    <3>1. g[z \ {choice[z]}] = h[z \ {choice[z]}] BY <1>2, <1>7, <2>3
    <3>. QED BY <2>1, <2>3, <3>1 DEF FoldStep
  <2>. QED BY <2>2, <2>3
<1> HIDE DEF W, rank
<1>8. Recursion(D, W, rank, F)
  <2> HIDE DEF F
  <2>. QED BY <1>1, <1>4, <1>5, <1>6, <1>7 DEF Recursion
<1>9. \E h \in [D -> V] : h = F[h]
  <2> HIDE DEF F, D
  <2>. QED BY <1>1, <1>8, RecursionHasFunction
<1>. QED BY <1>9 DEF IsFold

(* All that a fold computes is in V when every step stays in V.            *)
LEMMA FoldType ==
  ASSUME NEW I, IsFiniteSet(I), NEW choice, \A z \in SUBSET I : z # {} => choice[z] \in z,
         NEW V, NEW f, f[{}] \in V,
         \A z \in SUBSET I : z # {} /\ f[z \ {choice[z]}] \in V => f[z] \in V
  PROVE  \A z \in SUBSET I : f[z] \in V
<1> DEFINE D == SUBSET I
           rank == [z \in D |-> Cardinality(z)]
           B == {z \in D : f[z] \in V}
<1>1. \A z \in D : IsFiniteSet(z) /\ Cardinality(z) \in Nat BY FS_Subset, FS_CardinalityType
<1>2. ASSUME NEW z \in D, \A e \in D : rank[e] < rank[z] => e \in B PROVE z \in B
  <2>1. CASE z = {} BY <2>1
  <2>2. CASE z # {}
    <3> DEFINE e == z \ {choice[z]}
    <3>1. e \in D /\ Cardinality(e) = Cardinality(z) - 1 BY <1>1, <2>2, FS_RemoveElement
    <3>2. rank[e] < rank[z] BY <1>1, <3>1
    <3>3. f[e] \in V BY <1>2, <3>1, <3>2
    <3>. QED BY <2>2, <3>3
  <2>. QED BY <2>1, <2>2
<1>3. rank \in [D -> Nat] BY <1>1
<1> HIDE DEF B, D, rank
<1>4. Inherits(D, rank, B) BY <1>2 DEF Inherits
<1>5. D \subseteq B BY <1>3, <1>4, RankInduction
<1>. QED BY <1>5 DEF B, D

(* The numbers from 1 on, from the last.                                   *)
LEMMA LastOfMany ==
  ASSUME NEW n \in Nat
  PROVE  /\ \A z \in SUBSET (1..n) : z # {} => Max(z) \in z
         /\ \A i \in 1..n : /\ Max(1..i) = i /\ (1..i) \ {Max(1..i)} = 1..(i - 1)
                            /\ 1..i # {} /\ 1..i \in SUBSET (1..n)
         /\ 1..0 = {}
<1>1. ASSUME NEW z \in SUBSET (1..n), z # {} PROVE Max(z) \in z
  <2> DEFINE T == {n - x : x \in z}
  <2>0. \A x \in z : x \in 1..n OBVIOUS
  <2>1. T \in SUBSET Nat /\ T # {}
    <3>1. \A x \in z : n - x \in Nat BY <2>0
    <3>. QED BY <1>1, <3>1
  <2>2. PICK k \in T : \A j \in T : k <= j BY <2>1, Smallest
  <2>3. PICK x \in z : k = n - x BY <2>2
  <2>4. \A y \in z : x >= y
    <3>1. ASSUME NEW y \in z PROVE x >= y
      <4>1. n - x <= n - y BY <2>2, <2>3
      <4>2. x \in Int /\ y \in Int OBVIOUS
      <4>. QED BY <4>1, <4>2
    <3>. QED BY <3>1
  <2>. QED BY <2>3, <2>4 DEF Max
<1>2. ASSUME NEW i \in 1..n PROVE Max(1..i) = i
  <2>1. i \in 1..i /\ \A y \in 1..i : i >= y OBVIOUS
  <2>2. \A x \in 1..i : (\A y \in 1..i : x >= y) => x = i BY <2>1
  <2>. QED BY <2>1, <2>2 DEF Max
<1>. QED BY <1>1, <1>2

(* A fold from the left of a sequence of length n.                         *)
IsLeftFold(h, n, V, base, G) ==
    /\ h \in [SUBSET (1..n) -> V]
    /\ h = [z \in SUBSET (1..n) |->
                IF z = {} THEN base ELSE G[<<h[z \ {Max(z)}], Max(z)>>]]

LEMMA LeftFoldHasFunction ==
  ASSUME NEW n \in Nat, NEW V, NEW base \in V, NEW G \in [V \X (1..n) -> V]
  PROVE  \E h : IsLeftFold(h, n, V, base, G)
<1> DEFINE I == 1..n
           choice == [z \in SUBSET I |-> Max(z)]
<1>1. Folding(I, choice, V, base, G)
  <2>1. IsFiniteSet(I) BY FS_Interval
  <2>2. \A z \in SUBSET I : z # {} => choice[z] \in z BY LastOfMany
  <2>. QED BY <2>1, <2>2 DEF Folding
<1>2. PICK h \in [SUBSET I -> V] : IsFold(h, I, choice, base, G)
  <2> HIDE DEF I, choice
  <2>. QED BY <1>1, FoldHasFunction
<1>3. \A z \in SUBSET I :
         FoldStep(h, z, choice, base, G) =
            IF z = {} THEN base ELSE G[<<h[z \ {Max(z)}], Max(z)>>]
  BY DEF FoldStep
<1>. QED BY <1>2, <1>3 DEF IsFold, IsLeftFold

(* What such a fold has after each of the n items.                         *)
Runs(f, n, V, base, G, result) ==
    /\ f \in [0..n -> V] /\ f[0] = base /\ f[n] = result
    /\ \A i \in 1..n : f[i] = G[<<f[i - 1], i>>]

FoldsLeft(it, n, V, base, G) ==
    /\ it[{}] = base
    /\ \A z \in SUBSET (1..n) : z # {} /\ it[z \ {Max(z)}] \in V =>
          it[z] = G[<<it[z \ {Max(z)}], Max(z)>>]

LEMMA LeftFoldRuns ==
  ASSUME NEW n \in Nat, NEW V, NEW base \in V, NEW G \in [V \X (1..n) -> V],
         NEW it, FoldsLeft(it, n, V, base, G)
  PROVE  \E f : Runs(f, n, V, base, G, it[1..n])
<1> DEFINE I == 1..n
           choice == [z \in SUBSET I |-> Max(z)]
           f == [i \in 0..n |-> it[1..i]]
<1>1. \A z \in SUBSET I : z # {} => choice[z] \in z BY LastOfMany
<1>2. ASSUME NEW z \in SUBSET I, z # {}, it[z \ {choice[z]}] \in V PROVE it[z] \in V
  <2>1. it[z] = G[<<it[z \ {Max(z)}], Max(z)>>] BY <1>2 DEF FoldsLeft
  <2>2. Max(z) \in I /\ it[z \ {Max(z)}] \in V BY <1>1, <1>2
  <2>. QED BY <2>1, <2>2
<1>3. \A z \in SUBSET I : it[z] \in V
  <2>0. it[{}] \in V BY DEF FoldsLeft
  <2>1. IsFiniteSet(I) /\ it[{}] \in V BY <2>0, FS_Interval
  <2> HIDE DEF I, choice
  <2>. QED BY <1>1, <1>2, <2>1, FoldType
<1>4. \A i \in 0..n : 1..i \in SUBSET I OBVIOUS
<1>5. f \in [0..n -> V] BY <1>3, <1>4
<1>6. f[0] = base BY LastOfMany DEF FoldsLeft
<1>7. ASSUME NEW i \in 1..n PROVE f[i] = G[<<f[i - 1], i>>]
  <2>1. /\ Max(1..i) = i /\ (1..i) \ {Max(1..i)} = 1..(i - 1)
        /\ 1..i # {} /\ 1..i \in SUBSET I
    BY LastOfMany
  <2>2. i \in 0..n /\ i - 1 \in 0..n OBVIOUS
  <2>3. f[i] = it[1..i] /\ f[i - 1] = it[1..(i - 1)] BY <2>2
  <2>4. it[1..(i - 1)] \in V BY <1>3, <1>4, <2>2
  <2> HIDE DEF f
  <2>. QED BY <2>1, <2>3, <2>4 DEF FoldsLeft
<1>8. f[n] = it[1..n] OBVIOUS
<1> HIDE DEF f
<1>9. Runs(f, n, V, base, G, it[1..n]) BY <1>5, <1>6, <1>7, <1>8 DEF Runs
<1>. QED BY <1>9

-----------------------------------------------------------------------------
(* Sequences of sequences.                                                 *)

(* What holds of <<>>, and of a sequence with one more item when it holds  *)
(* of the sequence, holds of all.                                          *)
LEMMA SequencesGrow ==
  ASSUME NEW S, NEW B, <<>> \in B, \A s \in Seq(S), x \in S : s \in B => Append(s, x) \in B
  PROVE  Seq(S) \subseteq B
<1> DEFINE D == Seq(S)
           rank == [s \in D |-> Len(s)]
<1>1. rank \in [D -> Nat] BY LenProperties
<1>2. ASSUME NEW s \in D, \A t \in D : rank[t] < rank[s] => t \in B PROVE s \in B
  <2>1. CASE s = <<>> BY <2>1
  <2>2. CASE s # <<>>
    <3>1. /\ Front(s) \in D /\ Last(s) \in S /\ s = Append(Front(s), Last(s))
          /\ Len(Front(s)) = Len(s) - 1 /\ Len(s) \in Nat
      BY <2>2, FrontLast
    <3>2. rank[Front(s)] < rank[s] BY <3>1
    <3>3. Front(s) \in B BY <1>2, <3>1, <3>2
    <3>4. Append(Front(s), Last(s)) \in B BY <3>1, <3>3
    <3>. QED BY <3>1, <3>4
  <2>. QED BY <2>1, <2>2
<1> HIDE DEF D, rank
<1>3. Inherits(D, rank, B) BY <1>2 DEF Inherits
<1>. QED BY <1>1, <1>3, RankInduction DEF D

(* h[i] is what the first i of ss are together.                            *)
JoinsUp(h, ss, C) ==
    /\ h \in [0..Len(ss) -> Seq(C)] /\ h[0] = <<>>
    /\ \A i \in 1..Len(ss) : h[i] = h[i - 1] \o ss[i]

LEMMA FlattenIsJoin ==
  ASSUME NEW C, NEW ss \in Seq(Seq(C)), NEW h, JoinsUp(h, ss, C)
  PROVE  FlattenSeq(ss) = h[Len(ss)]
<1> DEFINE n == Len(ss)
<1>0. n \in Nat BY LenProperties
<1>1. CASE n = 0
  <2>1. ss = <<>> BY <1>1, EmptySeq
  <2>. QED BY <1>1, <2>1 DEF FlattenSeq, JoinsUp
<1>2. CASE n # 0
  <2> DEFINE Flattens(f) == f = [i \in 1..n |-> IF i = 1 THEN ss[i] ELSE f[i - 1] \o ss[i]]
             fl == CHOOSE f : Flattens(f)
             g == [i \in 1..n |-> h[i]]
  <2>1. h[1] = ss[1]
    <3>1. 1 \in 1..n /\ ss[1] \in Seq(C) BY <1>0, <1>2, ElementOfSeq
    <3>2. h[1] = h[1 - 1] \o ss[1] /\ h[0] = <<>> BY <3>1 DEF JoinsUp
    <3>4. 1 - 1 = 0 OBVIOUS
    <3>3. h[1] = <<>> \o ss[1] BY <3>2, <3>4
    <3>. QED BY <3>1, <3>3, ConcatEmptySeq
  <2>2. \A i \in 1..n : i # 1 => h[i] = g[i - 1] \o ss[i]
    <3>1. \A i \in 1..n : i # 1 => i - 1 \in 1..n BY <1>0
    <3>. QED BY <3>1 DEF JoinsUp
  <2>3. \A i \in 1..n : g[i] = IF i = 1 THEN ss[i] ELSE g[i - 1] \o ss[i]
    BY <2>1, <2>2
  <2>4. Flattens(g) BY <2>3
  <2>5. Flattens(fl) BY <2>4
  <2>6. FlattenSeq(ss) = fl[n] BY <1>2 DEF FlattenSeq
  <2>7. \A i \in 1..n : fl[i] = IF i = 1 THEN ss[i] ELSE fl[i - 1] \o ss[i]
    <3> HIDE DEF fl
    <3>. QED BY <2>5
  <2> HIDE DEF fl, Flattens
  <2> DEFINE B == {i \in 0..n : i = 0 \/ fl[i] = h[i]}
  <2>8. ASSUME NEW i \in 1..n, i - 1 \in B PROVE i \in B
    <3>1. CASE i = 1 BY <2>1, <2>7, <3>1
    <3>2. CASE i # 1
      <4>1. i - 1 # 0 BY <3>2
      <4>2. fl[i - 1] = h[i - 1] BY <2>8, <4>1
      <4>3. fl[i] = fl[i - 1] \o ss[i] BY <2>7, <3>2
      <4>4. h[i] = h[i - 1] \o ss[i] BY DEF JoinsUp
      <4>5. fl[i] = h[i] BY <4>2, <4>3, <4>4
      <4>. QED BY <4>5
    <3>. QED BY <3>1, <3>2
  <2>9. 0 \in B BY <1>0
  <2>10. \A i \in 0..n : i \in B
    <3> HIDE DEF B, n
    <3>. QED BY <1>0, <2>8, <2>9, CountingUp
  <2>11. n \in B BY <1>0, <2>10
  <2>. QED BY <1>2, <2>6, <2>11
<1>. QED BY <1>1, <1>2

LEMMA JoinExists ==
  ASSUME NEW C, NEW ss \in Seq(Seq(C)), NEW s \in Seq(C), NEW h, JoinsUp(h, ss, C)
  PROVE  LET n == Len(ss)
             g == [i \in 0..(n + 1) |-> IF i <= n THEN h[i] ELSE h[n] \o s]
         IN JoinsUp(g, Append(ss, s), C) /\ g[n + 1] = h[n] \o s /\ g[n] = h[n]
<1> DEFINE n == Len(ss)
           t == Append(ss, s)
           g == [i \in 0..(n + 1) |-> IF i <= n THEN h[i] ELSE h[n] \o s]
<1>1. n \in Nat /\ Len(t) = n + 1 /\ t[n + 1] = s /\ \A i \in 1..n : t[i] = ss[i]
  BY LenProperties, AppendProperties
<1>2. h \in [0..n -> Seq(C)] /\ h[0] = <<>> /\ \A i \in 1..n : h[i] = h[i - 1] \o ss[i]
  BY DEF JoinsUp
<1>3. h[n] \o s \in Seq(C) BY <1>1, <1>2, ConcatProperties
<1> HIDE DEF t
<1>4. g \in [0..(n + 1) -> Seq(C)] BY <1>1, <1>2, <1>3
<1>5. g[0] = <<>> /\ g[n + 1] = h[n] \o s /\ g[n] = h[n] BY <1>1, <1>2
<1>6. ASSUME NEW i \in 1..(n + 1) PROVE g[i] = g[i - 1] \o t[i]
  <2>1. CASE i = n + 1
    <3>1. i - 1 = n BY <1>1, <2>1
    <3>2. g[i] = h[n] \o s /\ g[i - 1] = h[n] BY <1>5, <2>1, <3>1
    <3>3. t[i] = s BY <1>1, <2>1
    <3>. QED BY <3>2, <3>3
  <2>2. CASE i \in 1..n
    <3>1. g[i] = h[i] /\ g[i - 1] = h[i - 1] BY <1>1, <2>2
    <3>2. h[i] = h[i - 1] \o ss[i] /\ t[i] = ss[i] BY <1>1, <1>2, <2>2
    <3>. QED BY <3>1, <3>2
  <2>3. i = n + 1 \/ i \in 1..n BY <1>1
  <2>. QED BY <2>1, <2>2, <2>3
<1> HIDE DEF g
<1>7. JoinsUp(g, t, C) BY <1>1, <1>4, <1>5, <1>6 DEF JoinsUp
<1>. QED BY <1>5, <1>7 DEF g, t

(* FlattenSeq by the last of its sequences.                                *)
LEMMA Flatten ==
  ASSUME NEW C, NEW ss \in Seq(Seq(C)), NEW s \in Seq(C)
  PROVE  /\ FlattenSeq(ss) \in Seq(C)
         /\ Append(ss, s) \in Seq(Seq(C))
         /\ FlattenSeq(Append(ss, s)) = FlattenSeq(ss) \o s
<1> DEFINE B == {t \in Seq(Seq(C)) : \E h : JoinsUp(h, t, C)}
<1>1. <<>> \in B
  <2> DEFINE h == [i \in 0..0 |-> <<>>]
  <2>1. <<>> \in Seq(Seq(C)) /\ <<>> \in Seq(C) /\ Len(<<>>) = 0 BY EmptySeq
  <2>2. JoinsUp(h, <<>>, C) BY <2>1 DEF JoinsUp
  <2>. QED BY <2>1, <2>2
<1>2. ASSUME NEW t \in Seq(Seq(C)), NEW x \in Seq(C), t \in B PROVE Append(t, x) \in B
  <2>1. PICK h : JoinsUp(h, t, C) BY <1>2
  <2>2. \E g : JoinsUp(g, Append(t, x), C) BY <2>1, JoinExists
  <2>3. Append(t, x) \in Seq(Seq(C)) BY AppendProperties
  <2>. QED BY <2>2, <2>3
<1> HIDE DEF B
<1>3. Seq(Seq(C)) \subseteq B BY <1>1, <1>2, SequencesGrow
<1>4. PICK h : JoinsUp(h, ss, C) BY <1>3 DEF B
<1> DEFINE n == Len(ss)
           g == [i \in 0..(n + 1) |-> IF i <= n THEN h[i] ELSE h[n] \o s]
<1>5. JoinsUp(g, Append(ss, s), C) /\ g[n + 1] = h[n] \o s BY <1>4, JoinExists
<1>6. Append(ss, s) \in Seq(Seq(C)) /\ Len(Append(ss, s)) = n + 1 /\ n \in Nat
  BY AppendProperties, LenProperties
<1>7. FlattenSeq(ss) = h[n] BY <1>4, FlattenIsJoin
<1> HIDE DEF g
<1>8. FlattenSeq(Append(ss, s)) = g[n + 1] BY <1>5, <1>6, FlattenIsJoin
<1>9. h[n] \in Seq(C) BY <1>4, <1>6 DEF JoinsUp
<1>. QED BY <1>5, <1>6, <1>7, <1>8, <1>9

LEMMA FlattenNothing == FlattenSeq(<<>>) = <<>>
BY EmptySeq DEF FlattenSeq

LEMMA ConcatAssociates ==
  ASSUME NEW C, NEW s \in Seq(C), NEW t \in Seq(C), NEW u \in Seq(C)
  PROVE  (s \o t) \o u = s \o (t \o u)
<1> DEFINE a == (s \o t) \o u
           b == s \o (t \o u)
<1>1. Len(s) \in Nat /\ Len(t) \in Nat /\ Len(u) \in Nat BY LenProperties
<1>2. s \o t \in Seq(C) /\ t \o u \in Seq(C) BY ConcatProperties
<1>3. a \in Seq(C) /\ b \in Seq(C) BY <1>2, ConcatProperties
<1>4. Len(a) = Len(s) + Len(t) + Len(u) /\ Len(b) = Len(s) + Len(t) + Len(u)
  BY <1>1, <1>2, ConcatProperties
<1>5. ASSUME NEW i \in 1..Len(a) PROVE a[i] = b[i]
  <2>1. CASE i <= Len(s) BY <1>1, <1>2, <1>4, <2>1, ConcatProperties
  <2>2. CASE Len(s) < i /\ i <= Len(s) + Len(t)
    <3>1. i - Len(s) \in 1..Len(t) BY <1>1, <1>4, <2>2
    <3>. QED BY <1>1, <1>2, <1>4, <2>2, <3>1, ConcatProperties
  <2>3. CASE Len(s) + Len(t) < i
    <3>1. i - Len(s) - Len(t) \in 1..Len(u) BY <1>1, <1>4, <2>3
    <3>. QED BY <1>1, <1>2, <1>4, <2>3, <3>1, ConcatProperties
  <2>. QED BY <1>1, <1>4, <2>1, <2>2, <2>3
<1>. QED BY <1>3, <1>4, <1>5, SeqEqual

LEMMA AppendMeans ==
  ASSUME NEW C, NEW s \in Seq(C), NEW t \in Seq(C), NEW x \in C
  PROVE  /\ Append(s, x) \in Seq(C) /\ Append(s, x) = s \o <<x>>
         /\ <<x>> \in Seq(C) /\ <<>> \in Seq(C) /\ s \o t \in Seq(C)
         /\ s \o <<>> = s /\ <<>> \o s = s
<1>1. <<x>> \in Seq(C) /\ Append(s, x) \in Seq(C) /\ s \o t \in Seq(C) /\ <<>> \in Seq(C)
  BY AppendProperties, ConcatProperties, EmptySeq
<1>2. \A u \in Seq(C) : Append(u, x) = u \o <<x>> OBVIOUS
<1>3. s \o <<>> = s /\ <<>> \o s = s BY ConcatEmptySeq
<1>. QED BY <1>1, <1>2, <1>3

AppendsAtTheEnd(s, t, x) == Append(s \o t, x) = s \o Append(t, x)

LEMMA AppendToConcat ==
  ASSUME NEW C, NEW s \in Seq(C), NEW t \in Seq(C), NEW x \in C
  PROVE  AppendsAtTheEnd(s, t, x)
<1>1. <<x>> \in Seq(C) /\ s \o t \in Seq(C) BY ConcatProperties
<1>2. \A u \in Seq(C) : Append(u, x) = u \o <<x>> OBVIOUS
<1>3. Append(s \o t, x) = (s \o t) \o <<x>> /\ Append(t, x) = t \o <<x>> BY <1>1, <1>2
<1>4. (s \o t) \o <<x>> = s \o (t \o <<x>>) BY <1>1, ConcatAssociates
<1>. QED BY <1>3, <1>4 DEF AppendsAtTheEnd

(* FlattenSeq of two lists after one another.                              *)
LEMMA FlattenConcat ==
  ASSUME NEW C, NEW ss \in Seq(Seq(C)), NEW tt \in Seq(Seq(C))
  PROVE  FlattenSeq(ss \o tt) = FlattenSeq(ss) \o FlattenSeq(tt)
<1> DEFINE S == Seq(C)
           B == {t \in Seq(S) : FlattenSeq(ss \o t) = FlattenSeq(ss) \o FlattenSeq(t)}
<1>0. <<>> \in Seq(S) /\ <<>> \in S BY EmptySeq
<1>1. <<>> \in B
  <2>1. FlattenSeq(ss) \in S BY <1>0, Flatten
  <2>2. FlattenSeq(ss) \o <<>> = FlattenSeq(ss) /\ ss \o <<>> = ss BY <2>1, ConcatEmptySeq
  <2>. QED BY <1>0, <2>2, FlattenNothing
<1>2. ASSUME NEW t \in Seq(S), NEW x \in S, t \in B PROVE Append(t, x) \in B
  <2>1. /\ FlattenSeq(t) \in S /\ Append(t, x) \in Seq(S)
        /\ FlattenSeq(Append(t, x)) = FlattenSeq(t) \o x
    BY Flatten
  <2> DEFINE u == ss \o t
  <2>2. u \in Seq(S) /\ Append(u, x) = ss \o Append(t, x)
    <3>1. AppendsAtTheEnd(ss, t, x) BY AppendToConcat
    <3>. QED BY <3>1, ConcatProperties DEF AppendsAtTheEnd
  <2> HIDE DEF u
  <2>3. FlattenSeq(Append(u, x)) = FlattenSeq(u) \o x BY <2>2, Flatten
  <2>4. FlattenSeq(ss) \in S BY <1>0, Flatten
  <2>5. (FlattenSeq(ss) \o FlattenSeq(t)) \o x = FlattenSeq(ss) \o (FlattenSeq(t) \o x)
    BY <2>1, <2>4, ConcatAssociates
  <2>6. FlattenSeq(u) = FlattenSeq(ss) \o FlattenSeq(t) BY <1>2 DEF u
  <2>7. FlattenSeq(ss \o Append(t, x)) = FlattenSeq(ss) \o FlattenSeq(Append(t, x))
    BY <2>1, <2>2, <2>3, <2>5, <2>6
  <2>. QED BY <2>1, <2>7
<1> HIDE DEF B
<1>3. Seq(S) \subseteq B BY <1>1, <1>2, SequencesGrow
<1>. QED BY <1>3 DEF B

(* The sequence of n sequences ss[k].                                      *)
LEMMA SequenceOf ==
  ASSUME NEW S, NEW n \in Nat, NEW s \in [1..n -> S]
  PROVE  s \in Seq(S) /\ Len(s) = n
BY DEF Seq

(* Two levels at once, or one after the other.                             *)
LEMMA FlattenNested ==
  ASSUME NEW C, NEW sss \in Seq(Seq(Seq(C)))
  PROVE  FlattenSeq([k \in DOMAIN sss |-> FlattenSeq(sss[k])]) = FlattenSeq(FlattenSeq(sss))
<1> DEFINE S == Seq(C)
           T == Seq(S)
           inner(x) == [k \in DOMAIN x |-> FlattenSeq(x[k])]
           B == {x \in Seq(T) : /\ inner(x) \in Seq(S)
                                /\ FlattenSeq(inner(x)) = FlattenSeq(FlattenSeq(x))}
<1>0. <<>> \in Seq(S) /\ <<>> \in S /\ <<>> \in Seq(T) BY EmptySeq
<1>1. <<>> \in B
  <2>1. inner(<<>>) = <<>> BY EmptySeq
  <2>. QED BY <1>0, <2>1, FlattenNothing
<1>2. ASSUME NEW x \in Seq(T), NEW t \in T, x \in B PROVE Append(x, t) \in B
  <2>1. /\ Append(x, t) \in Seq(T) /\ Len(Append(x, t)) = Len(x) + 1
        /\ \A k \in 1..Len(x) : Append(x, t)[k] = x[k]
        /\ Append(x, t)[Len(x) + 1] = t /\ Len(x) \in Nat
        /\ DOMAIN x = 1..Len(x) /\ DOMAIN Append(x, t) = 1..(Len(x) + 1)
    BY AppendProperties, LenProperties
  <2>2. FlattenSeq(t) \in S BY <1>0, Flatten
  <2> DEFINE a == inner(Append(x, t))
             b == Append(inner(x), FlattenSeq(t))
  <2>3. inner(x) \in Seq(S) /\ FlattenSeq(inner(x)) = FlattenSeq(FlattenSeq(x))
    BY <1>2
  <2>4. Len(inner(x)) = Len(x) BY <2>1
  <2>5. /\ b \in Seq(S) /\ Len(b) = Len(x) + 1
        /\ \A k \in 1..Len(x) : b[k] = FlattenSeq(x[k])
        /\ b[Len(x) + 1] = FlattenSeq(t)
    <3>1. \A k \in 1..Len(x) : inner(x)[k] = FlattenSeq(x[k]) BY <2>1
    <3> HIDE DEF inner
    <3>. QED BY <2>2, <2>3, <2>4, <3>1, AppendProperties
  <2>6. a = b
    <3>1. b = [k \in 1..(Len(x) + 1) |-> b[k]] BY <2>5, LenProperties
    <3>2. \A k \in 1..(Len(x) + 1) : a[k] = b[k]
      <4>1. ASSUME NEW k \in 1..(Len(x) + 1) PROVE a[k] = b[k]
        <5>1. a[k] = FlattenSeq(Append(x, t)[k]) BY <2>1
        <5>2. k = Len(x) + 1 \/ k \in 1..Len(x) BY <2>1
        <5> HIDE DEF a, b
        <5>3. CASE k = Len(x) + 1 BY <2>1, <2>5, <5>1, <5>3
        <5>4. CASE k \in 1..Len(x) BY <2>1, <2>5, <5>1, <5>4
        <5>. QED BY <5>2, <5>3, <5>4
      <4>. QED BY <4>1
    <3>3. a = [k \in 1..(Len(x) + 1) |-> a[k]] BY <2>1
    <3> HIDE DEF a, b
    <3>. QED BY <3>1, <3>2, <3>3
  <2>7. FlattenSeq(b) = FlattenSeq(inner(x)) \o FlattenSeq(t) BY <2>2, <2>3, Flatten
  <2>8. FlattenSeq(x) \in T /\ FlattenSeq(Append(x, t)) = FlattenSeq(x) \o t BY Flatten
  <2>9. FlattenSeq(FlattenSeq(x) \o t) = FlattenSeq(FlattenSeq(x)) \o FlattenSeq(t)
    BY <2>8, FlattenConcat
  <2>10. FlattenSeq(a) = FlattenSeq(FlattenSeq(Append(x, t)))
    BY <2>3, <2>6, <2>7, <2>8, <2>9
  <2>. QED BY <2>1, <2>5, <2>6, <2>10
<1> HIDE DEF B
<1>3. Seq(T) \subseteq B BY <1>1, <1>2, SequencesGrow
<1>. QED BY <1>3 DEF B

(* The empty sequences may be left out.                                    *)
LEMMA FlattenNonempty ==
  ASSUME NEW C, NEW ss \in Seq(Seq(C))
  PROVE  FlattenSeq(Chosen(ss, {i \in DOMAIN ss : ss[i] # <<>>})) = FlattenSeq(ss)
<1> DEFINE S == Seq(C)
           Full(t) == {i \in DOMAIN t : t[i] # <<>>}
           B == {t \in Seq(S) : /\ Chosen(t, Full(t)) \in Seq(S)
                                /\ FlattenSeq(Chosen(t, Full(t))) = FlattenSeq(t)}
<1>0. <<>> \in Seq(S) /\ <<>> \in S BY EmptySeq
<1>1. <<>> \in B
  <2>1. Full(<<>>) = {} BY EmptySeq
  <2>2. Chosen(<<>>, {}) = <<>> BY <1>0, ChosenNothing
  <2>. QED BY <1>0, <2>1, <2>2
<1>2. ASSUME NEW t \in Seq(S), NEW x \in S, t \in B PROVE Append(t, x) \in B
  <2> DEFINE u == Append(t, x)
  <2>1. /\ u \in Seq(S) /\ Len(u) = Len(t) + 1 /\ \A k \in 1..Len(t) : u[k] = t[k]
        /\ u[Len(t) + 1] = x /\ Len(t) \in Nat
        /\ DOMAIN t = 1..Len(t) /\ DOMAIN u = 1..(Len(t) + 1)
    BY AppendProperties, LenProperties
  <2>2. u = Add(t, x) BY DEF Add
  <2>3. OneMore(Full(t), Full(u), Len(t))
    <3> HIDE DEF u
    <3>. QED BY <2>1 DEF OneMore
  <2>4. Chosen(u, Full(u)) =
           IF Len(t) + 1 \in Full(u) THEN Add(Chosen(t, Full(t)), x) ELSE Chosen(t, Full(t))
    <3> HIDE DEF Full, u
    <3>. QED BY <2>2, <2>3, ChosenAppend
  <2>5. Len(t) + 1 \in Full(u) <=> x # <<>>
    <3> HIDE DEF u
    <3>. QED BY <2>1
  <2>6. Chosen(t, Full(t)) \in Seq(S) /\ FlattenSeq(Chosen(t, Full(t))) = FlattenSeq(t)
    BY <1>2
  <2>7. FlattenSeq(u) = FlattenSeq(t) \o x /\ FlattenSeq(t) \in S BY Flatten
  <2> HIDE DEF Full, u
  <2>8. CASE x # <<>>
    <3>1. Chosen(u, Full(u)) = Append(Chosen(t, Full(t)), x) BY <2>4, <2>5, <2>8 DEF Add
    <3> DEFINE c == Chosen(t, Full(t))
    <3>2. c \in Seq(S) BY <2>6
    <3> HIDE DEF c
    <3>3. Append(c, x) \in Seq(S) /\ FlattenSeq(Append(c, x)) = FlattenSeq(c) \o x
      BY <3>2, Flatten
    <3>. QED BY <2>1, <2>6, <2>7, <3>1, <3>3 DEF c, u
  <2>9. CASE x = <<>>
    <3>1. Chosen(u, Full(u)) = Chosen(t, Full(t)) BY <2>4, <2>5, <2>9
    <3>2. FlattenSeq(t) \o x = FlattenSeq(t) BY <2>7, <2>9, ConcatEmptySeq
    <3>. QED BY <2>1, <2>6, <2>7, <3>1, <3>2 DEF u
  <2>. QED BY <2>8, <2>9
<1> HIDE DEF B
<1>3. Seq(S) \subseteq B BY <1>1, <1>2, SequencesGrow
<1>. QED BY <1>3 DEF B

(* Prefixes, and a list of pieces that has taken them in.                  *)
LEMMA PrefixesGrow ==
  ASSUME NEW C, NEW s \in Seq(C)
  PROVE  /\ SubSeq(s, 1, 0) = <<>> /\ SubSeq(s, 1, Len(s)) = s
         /\ \A i \in 1..Len(s) : /\ SubSeq(s, 1, i - 1) \in Seq(C)
                                 /\ SubSeq(s, 1, i) = Append(SubSeq(s, 1, i - 1), s[i])
<1>0. Len(s) \in Nat BY LenProperties
<1>1. ASSUME NEW i \in 0..Len(s)
      PROVE  /\ SubSeq(s, 1, i) \in Seq(C) /\ Len(SubSeq(s, 1, i)) = i
             /\ \A j \in 1..i : SubSeq(s, 1, i)[j] = s[j]
  <2>1. 1 \in Int /\ i \in Int /\ \A j \in 1..i : s[j] \in C
    <3>1. \A j \in 1..i : j \in 1..Len(s) BY <1>0
    <3>. QED BY <1>0, <3>1, ElementOfSeq
  <2>2. /\ SubSeq(s, 1, i) \in Seq(C)
        /\ Len(SubSeq(s, 1, i)) = IF 1 <= i THEN i - 1 + 1 ELSE 0
        /\ \A j \in 1..(i - 1 + 1) : SubSeq(s, 1, i)[j] = s[1 + j - 1]
    BY <2>1, SubSeqProperties
  <2>3. i - 1 + 1 = i /\ \A j \in 1..i : 1 + j - 1 = j BY <1>0
  <2>. QED BY <1>0, <2>2, <2>3
<1>2. SubSeq(s, 1, 0) = <<>> BY <1>0, <1>1, EmptySeq
<1>3. SubSeq(s, 1, Len(s)) = s BY <1>0, <1>1, SeqEqual
<1>4. ASSUME NEW i \in 1..Len(s)
      PROVE  /\ SubSeq(s, 1, i - 1) \in Seq(C)
             /\ SubSeq(s, 1, i) = Append(SubSeq(s, 1, i - 1), s[i])
  <2> DEFINE a == SubSeq(s, 1, i)
             p == SubSeq(s, 1, i - 1)
             b == Append(p, s[i])
  <2>1. i \in 0..Len(s) /\ i - 1 \in 0..Len(s) /\ s[i] \in C BY <1>0, ElementOfSeq
  <2>2. p \in Seq(C) /\ Len(p) = i - 1 /\ \A j \in 1..(i - 1) : p[j] = s[j]
    BY <1>1, <2>1
  <2>3. a \in Seq(C) /\ Len(a) = i /\ \A j \in 1..i : a[j] = s[j] BY <1>1, <2>1
  <2> HIDE DEF a, p
  <2>4. /\ b \in Seq(C) /\ Len(b) = (i - 1) + 1 /\ b[(i - 1) + 1] = s[i]
        /\ \A j \in 1..(i - 1) : b[j] = p[j]
    BY <2>1, <2>2, AppendProperties
  <2> HIDE DEF b
  <2>5. ASSUME NEW j \in 1..i PROVE a[j] = b[j]
    <3>1. (i - 1) + 1 = i /\ (j = i \/ j \in 1..(i - 1)) BY <2>1
    <3>2. CASE j = i BY <2>3, <2>4, <3>1, <3>2
    <3>3. CASE j \in 1..(i - 1) BY <2>2, <2>3, <2>4, <3>3
    <3>. QED BY <3>1, <3>2, <3>3
  <2>6. Len(a) = Len(b) BY <2>1, <2>3, <2>4
  <2>7. a = b BY <2>3, <2>4, <2>5, <2>6, SeqEqual
  <2>. QED BY <2>2, <2>7 DEF a, b, p
<1>. QED BY <1>2, <1>3, <1>4

(* Each item of s begins a new piece or goes on with the last.             *)
Pieces(f, s) ==
    /\ f[0] = <<>>
    /\ \A i \in 1..Len(s) :
          \/ f[i] = Append(f[i - 1], <<s[i]>>)
          \/ /\ f[i - 1] # <<>>
             /\ f[i] = Append(Front(f[i - 1]), Append(Last(f[i - 1]), s[i]))

LEMMA PiecesType ==
  ASSUME NEW C, NEW x \in C, NEW ss \in Seq(Seq(C) \ {<<>>})
  PROVE  /\ <<>> \in Seq(Seq(C) \ {<<>>})
         /\ Append(ss, <<x>>) \in Seq(Seq(C) \ {<<>>})
         /\ ss # <<>> =>
               Append(Front(ss), Append(Last(ss), x)) \in Seq(Seq(C) \ {<<>>})
<1> DEFINE N == Seq(C) \ {<<>>}
<1>1. <<>> \in Seq(N) BY EmptySeq
<1>2. <<x>> \in N
  <2>1. <<x>> \in Seq(C) /\ Len(<<x>>) = 1 OBVIOUS
  <2>. QED BY <2>1, EmptySeq
<1> HIDE DEF N
<1>3. Append(ss, <<x>>) \in Seq(N) BY <1>2, AppendProperties DEF N
<1>4. ASSUME ss # <<>> PROVE Append(Front(ss), Append(Last(ss), x)) \in Seq(N)
  <2>1. Front(ss) \in Seq(N) /\ Last(ss) \in N BY <1>4, FrontLast DEF N
  <2>2. Last(ss) \in Seq(C) BY <2>1 DEF N
  <2>3. Append(Last(ss), x) \in Seq(C) /\ Append(Last(ss), x) # <<>>
    BY <2>2, AppendProperties
  <2>4. Append(Last(ss), x) \in N BY <2>3 DEF N
  <2>. QED BY <2>1, <2>4, AppendProperties
<1>. QED BY <1>1, <1>3, <1>4 DEF N

LEMMA PiecesKeep ==
  ASSUME NEW C, NEW s \in Seq(C), NEW f, Pieces(f, s)
  PROVE  /\ f[Len(s)] \in Seq(Seq(C) \ {<<>>})
         /\ FlattenSeq(f[Len(s)]) = s
<1> DEFINE N == Seq(C) \ {<<>>}
           n == Len(s)
           Good(i) == /\ f[i] \in Seq(N) /\ f[i] \in Seq(Seq(C))
                      /\ FlattenSeq(f[i]) = SubSeq(s, 1, i)
           B == {i \in 0..n : Good(i)}
<1>0. n \in Nat BY LenProperties
<1>1. \A ss \in Seq(N) : ss \in Seq(Seq(C))
  <2>1. Seq(N) \subseteq Seq(Seq(C)) OBVIOUS
  <2>. QED BY <2>1
<1>2. 0 \in B
  <2>1. f[0] = <<>> BY DEF Pieces
  <2>2. <<>> \in Seq(N) BY EmptySeq
  <2>3. f[0] \in Seq(N) /\ f[0] \in Seq(Seq(C)) BY <1>1, <2>1, <2>2
  <2>4. FlattenSeq(f[0]) = SubSeq(s, 1, 0) BY <2>1, FlattenNothing, PrefixesGrow
  <2>. QED BY <1>0, <2>3, <2>4
<1>3. ASSUME NEW i \in 1..n, i - 1 \in B PROVE i \in B
  <2> DEFINE g == f[i - 1]
             p == SubSeq(s, 1, i - 1)
  <2>1. g \in Seq(N) /\ g \in Seq(Seq(C)) /\ FlattenSeq(g) = p BY <1>3
  <2>2. s[i] \in C BY ElementOfSeq
  <2>3. p \in Seq(C) /\ SubSeq(s, 1, i) = Append(p, s[i]) BY PrefixesGrow
  <2>4. \/ f[i] = Append(g, <<s[i]>>)
        \/ g # <<>> /\ f[i] = Append(Front(g), Append(Last(g), s[i]))
    BY DEF Pieces
  <2> HIDE DEF g, p
  <2>5. f[i] \in Seq(N) BY <2>1, <2>2, <2>4, PiecesType
  <2>6. CASE f[i] = Append(g, <<s[i]>>)
    <3>1. <<s[i]>> \in Seq(C) /\ Append(p, s[i]) = p \o <<s[i]>>
      BY <2>2, <2>3, AppendMeans
    <3>2. FlattenSeq(f[i]) = p \o <<s[i]>> BY <2>1, <2>6, <3>1, Flatten
    <3>. QED BY <1>1, <2>3, <2>5, <3>1, <3>2
  <2>7. CASE g # <<>> /\ f[i] = Append(Front(g), Append(Last(g), s[i]))
    <3> DEFINE a == Front(g)
               b == Last(g)
    <3>1. a \in Seq(Seq(C)) /\ b \in Seq(C) /\ g = Append(a, b) BY <2>1, <2>7, FrontLast
    <3>2. f[i] = Append(a, Append(b, s[i])) BY <2>7
    <3> HIDE DEF a, b
    <3>3. FlattenSeq(a) \in Seq(C) /\ p = FlattenSeq(a) \o b BY <2>1, <3>1, Flatten
    <3>4. /\ Append(b, s[i]) \in Seq(C)
          /\ Append(p, s[i]) = FlattenSeq(a) \o Append(b, s[i])
      <4>1. AppendsAtTheEnd(FlattenSeq(a), b, s[i]) BY <2>2, <3>1, <3>3, AppendToConcat
      <4>. QED BY <2>2, <3>1, <3>3, <4>1, AppendProperties DEF AppendsAtTheEnd
    <3>5. FlattenSeq(f[i]) = FlattenSeq(a) \o Append(b, s[i])
      <4> DEFINE c == Append(b, s[i])
      <4>1. c \in Seq(C) BY <3>4
      <4> HIDE DEF c
      <4>2. FlattenSeq(Append(a, c)) = FlattenSeq(a) \o c BY <3>1, <4>1, Flatten
      <4>. QED BY <3>2, <4>2 DEF c
    <3>6. FlattenSeq(f[i]) = SubSeq(s, 1, i) BY <2>3, <3>4, <3>5
    <3>. QED BY <1>1, <2>5, <3>6
  <2>. QED BY <2>4, <2>6, <2>7
<1> HIDE DEF B
<1>4. \A i \in 0..n : i \in B BY <1>0, <1>2, <1>3, CountingUp
<1>5. Good(n) BY <1>0, <1>4 DEF B
<1>. QED BY <1>5, PrefixesGrow

(* A fold that begins a new piece where the list so far and the place are  *)
(* in opens.                                                               *)
Piecewise(C) == Seq(Seq(C) \ {<<>>})
PieceStep(s, opens, ss, i) ==
    IF ss = <<>> \/ <<ss, i>> \in opens THEN Append(ss, <<s[i]>>)
    ELSE Append(Front(ss), Append(Last(ss), s[i]))
PieceFold(it, s, C, opens) ==
    /\ it[{}] = <<>>
    /\ \A z \in SUBSET (1..Len(s)) : z # {} /\ it[z \ {Max(z)}] \in Piecewise(C) =>
          it[z] = PieceStep(s, opens, it[z \ {Max(z)}], Max(z))
PieceFunctions(s, C) == [SUBSET (1..Len(s)) -> Piecewise(C)]
EndsInPieces(it, s) == \E f : Pieces(f, s) /\ f[Len(s)] = it[1..Len(s)]
PieceRuns(f, s, C, opens) ==
    /\ f \in [0..Len(s) -> Piecewise(C)] /\ f[0] = <<>>
    /\ \A i \in 1..Len(s) : f[i] = PieceStep(s, opens, f[i - 1], i)
RunsInPieces(it, s, C, opens) ==
    \E f : PieceRuns(f, s, C, opens) /\ f[Len(s)] = it[1..Len(s)]

LEMMA PieceFolds ==
  ASSUME NEW C, NEW s \in Seq(C), NEW opens
  PROVE  /\ \E h \in PieceFunctions(s, C) : PieceFold(h, s, C, opens)
         /\ \A it : PieceFold(it, s, C, opens) =>
               EndsInPieces(it, s) /\ RunsInPieces(it, s, C, opens)
<1> DEFINE n == Len(s)
           V == Piecewise(C)
           G == [p \in V \X (1..n) |-> PieceStep(s, opens, p[1], p[2])]
<1>1. n \in Nat BY LenProperties
<1>2. \A ss \in V, i \in 1..n : PieceStep(s, opens, ss, i) \in V
  <2> SUFFICES ASSUME NEW ss \in V, NEW i \in 1..n PROVE PieceStep(s, opens, ss, i) \in V
    OBVIOUS
  <2>1. s[i] \in C BY ElementOfSeq
  <2>. QED BY <2>1, PiecesType DEF PieceStep, Piecewise
<1>3. <<>> \in V BY EmptySeq DEF Piecewise
<1>4. /\ G \in [V \X (1..n) -> V]
      /\ \A ss \in V, i \in 1..n : G[<<ss, i>>] = PieceStep(s, opens, ss, i)
  BY <1>2
<1> HIDE DEF G
<1>5. PICK h : IsLeftFold(h, n, V, <<>>, G)
  <2> HIDE DEF n, V
  <2>. QED BY <1>1, <1>3, <1>4, LeftFoldHasFunction
<1>6. h \in PieceFunctions(s, C) BY <1>5 DEF IsLeftFold, PieceFunctions
<1>7. PieceFold(h, s, C, opens)
  <2>1. {} \in SUBSET (1..n) OBVIOUS
  <2>2. h[{}] = <<>> BY <1>5, <2>1 DEF IsLeftFold
  <2>3. ASSUME NEW z \in SUBSET (1..n), z # {}
        PROVE  h[z] = PieceStep(s, opens, h[z \ {Max(z)}], Max(z))
    <3>1. h[z] = G[<<h[z \ {Max(z)}], Max(z)>>] BY <1>5, <2>3 DEF IsLeftFold
    <3>2. Max(z) \in 1..n /\ z \ {Max(z)} \in SUBSET (1..n) BY <1>1, <2>3, LastOfMany
    <3>3. h[z \ {Max(z)}] \in V BY <1>5, <3>2 DEF IsLeftFold
    <3> HIDE DEF V
    <3>. QED BY <1>4, <3>1, <3>2, <3>3
  <2>. QED BY <2>2, <2>3 DEF PieceFold
<1>8. ASSUME NEW it, PieceFold(it, s, C, opens)
      PROVE  EndsInPieces(it, s) /\ RunsInPieces(it, s, C, opens)
  <2>1. FoldsLeft(it, n, V, <<>>, G)
    <3>1. ASSUME NEW z \in SUBSET (1..n), z # {}, it[z \ {Max(z)}] \in V
          PROVE  it[z] = G[<<it[z \ {Max(z)}], Max(z)>>]
      <4>1. it[z] = PieceStep(s, opens, it[z \ {Max(z)}], Max(z))
        BY <1>8, <3>1 DEF PieceFold
      <4>2. Max(z) \in 1..n BY <1>1, <3>1, LastOfMany
      <4> HIDE DEF V
      <4>. QED BY <1>4, <3>1, <4>1, <4>2
    <3>. QED BY <1>8, <3>1 DEF PieceFold, FoldsLeft
  <2>2. PICK f : Runs(f, n, V, <<>>, G, it[1..n])
    <3> HIDE DEF n, V
    <3>. QED BY <1>1, <1>3, <1>4, <2>1, LeftFoldRuns
  <2>3. ASSUME NEW i \in 1..n
        PROVE  /\ f[i] = PieceStep(s, opens, f[i - 1], i)
               /\ \/ f[i] = Append(f[i - 1], <<s[i]>>)
                  \/ /\ f[i - 1] # <<>>
                     /\ f[i] = Append(Front(f[i - 1]), Append(Last(f[i - 1]), s[i]))
    <3>1. i - 1 \in 0..n BY <1>1
    <3>2. f[i] = PieceStep(s, opens, f[i - 1], i) BY <1>4, <2>2, <3>1 DEF Runs
    <3>. QED BY <3>2 DEF PieceStep
  <2>4. Pieces(f, s) BY <2>2, <2>3 DEF Pieces, Runs
  <2>5. PieceRuns(f, s, C, opens) BY <2>2, <2>3 DEF PieceRuns, Runs
  <2>. QED BY <2>2, <2>4, <2>5 DEF Runs, EndsInPieces, RunsInPieces
<1>. QED BY <1>6, <1>7, <1>8
=============================================================================
